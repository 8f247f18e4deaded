CONSTANTS
  N = 1
  v1 = v1
  v2 = v2
  p1 = p1
  p2 = p2
  c1 = c1
  c2 = c2
  Val = {v1}
  Prefix = {p1}
  Client = {c1}
  Nil = Nil
SPECIFICATION KeptSpec
CHECK_DEADLOCK FALSE
PROPERTY TelemetryIsPublished
