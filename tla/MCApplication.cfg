CONSTANTS
  c0 = c0
  c1 = c1
  c2 = c2
  w1 = w1
  w2 = w2
  Cfg = {c0, c1, c2}
  Default = c0
  Writer = {w1, w2}
  Starter = w1
  None = None
SPECIFICATION AppSpec
INVARIANTS
  MemoryMatchesDisk
  CleanExitKeepsConfig
PROPERTIES
  SavesAtomically
  LoneSaveIsAtomic
  EndsAsAWhole
