SPECIFICATION Spec
CONSTANTS
  ka = ka
  kb = kb
  c1 = c1
  c2 = c2
  ta = ta
  NoConn = NoConn
  Topics <- OneTopic
  Matches <- AllMatch
  Modulus = 8
  Capacity = 1
  MaxRepeats = 1
  Keys <- OneKey
  Conns <- OneConn
  Handshakes <- OneHandshake
  MaxMessages = 2
  StoreBuffer = TRUE
CHECK_DEADLOCK FALSE
INVARIANT NoStrandedMessage
