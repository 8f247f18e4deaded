CONSTANTS
  UMax = 5
  MaxFound = 5
SPECIFICATION DiscoverySpec
\* Discovery is over once the packs are set.
CHECK_DEADLOCK FALSE
INVARIANTS
  PolledPacksAreConfigured
  WrappedWindowPollsFirst
PROPERTIES
  DiscoveryEnds
  CancelEndsScan
