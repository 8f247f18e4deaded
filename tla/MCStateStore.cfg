CONSTANTS
  v1 = v1
  r1 = r1
  r2 = r2
  r3 = r3
  r4 = r4
  Addr = {0, 1}
  GlobalAddr = {0}
  Service = {"pace"}
  Val = {v1}
  AnalogField = {}
  InfoField = {"bms_datetime"}
  ParamField = {"cell_ovp"}
  Published = {"cell_ovp"}
  Reader = {"http"}
  Ref = {r1, r2, r3, r4}
  NoPrefix = NoPrefix
  Nil = Nil
  Free = Free
SPECIFICATION StoreSpec
SYMMETRY RefSymmetry
INVARIANTS
  TelemetryMatchesPacks
  LimitAgrees
  SnapshotThresholdsFrozen
PROPERTIES
  KnownStaysKnown
  ActsOnValues
