CONSTANTS
  r1 = r1
  r2 = r2
  r3 = r3
  Request = {r1, r2, r3}
  Nil = Nil
SPECIFICATION LinkSpec
INVARIANTS
  StaysInStep
PROPERTIES
  QueryEnds
  FramingRecovers
