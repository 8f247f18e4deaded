\* Two clients with one client id, and two prefixes: what the caches say across
\* changes of the configuration and from one client to the next.
CONSTANTS
  N = 1
  v1 = v1
  v2 = v2
  p1 = p1
  p2 = p2
  c1 = c1
  c2 = c2
  Val = {v1}
  Prefix = {p1, p2}
  Client = {c1, c2}
  Nil = Nil
SPECIFICATION MqttSpec
SYMMETRY Symmetry
\* The service stops when its context is done.
CHECK_DEADLOCK FALSE
INVARIANTS
  DiscoveryBeforeState
  CachesMatchBroker
  LiveClientsAccounted
