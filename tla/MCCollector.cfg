CONSTANTS
  UMax = 3
  MaxFound = 3
  Device = {1, 2, 3}
  Behind <- Shared
  StatusInterval = 2
  MetadataInterval = 3
  Choice <- AnyLink
  InfoCmds = 1
  ParamCmds = 1
SPECIFICATION LinksSpec
\* The collector stops when its context is done.
CHECK_DEADLOCK FALSE
INVARIANT GivenUpWasRefused
PROPERTIES
  LivePacksStayFresh
  StatusStaysFresh
  LinkComesBack
  DeadLinkIsReported
  MetadataArrives
  CancelStopsCollector
