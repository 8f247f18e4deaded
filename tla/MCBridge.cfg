CONSTANTS
  Polled <- MCPolled
  InfoAsked <- MCInfo
  ParamsAsked <- MCParams
  NoAnswer = NoAnswer
  LateMax = 1
SPECIFICATION RefusalSpec
INVARIANTS
  FilesRightly
  LimitsAreTheSenders
PROPERTY RefusalsAreOwn
