SPECIFICATION FairSpec
CONSTANTS
  ka = ka
  kb = kb
  c1 = c1
  c2 = c2
  NoConn = NoConn
  NoKey = NoKey
  Capacity = 1
  MaxBacklog = 2
  Keys <- OneKey
  Conns <- OneConn
  Handshakes <- OneHandshake
  MaxFailures = 2
CHECK_DEADLOCK FALSE
PROPERTIES
  SendReturnsUnlessUnspawned
  DisconnectCompletes
