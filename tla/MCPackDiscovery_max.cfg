CONSTANTS
  UMax = 4
  MaxFound = 4
SPECIFICATION ExampleSpec
CHECK_DEADLOCK FALSE
INVARIANT AtMostMaxParallelPacks
