SPECIFICATION Spec
CONSTANTS
  ka = ka
  kb = kb
  c1 = c1
  c2 = c2
  NoConn = NoConn
  NoKey = NoKey
  Capacity = 1
  MaxBacklog = 2
  Keys <- BothKeys
  Conns <- BothConns
  Handshakes <- AnyHandshakes
  MaxFailures = 2
SYMMETRY Symmetry
CHECK_DEADLOCK FALSE
INVARIANTS
  CacheMatchesUnlessOverlap
  MonitorExact
  RotationComplete
