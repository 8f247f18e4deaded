CONSTANTS
  AnalogPack <- AnalogPacks
  StatusPack <- StatusPacks
  MaxPacks = 3
  AskedFor = {1, 2, 255}
SPECIFICATION AnswerSpec
\* The reader stops at the end of an answer.
CHECK_DEADLOCK FALSE
INVARIANTS
  FramesTypeOK
  PacksAreApart
  ReadAsSent
  StatusIsNoReading
