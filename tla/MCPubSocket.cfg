SPECIFICATION SmallSpec
CONSTANTS
  ka = ka
  kb = kb
  c1 = c1
  c2 = c2
  ta = ta
  NoConn = NoConn
  Topics <- OneTopic
  Matches <- AllMatch
  Modulus = 8
  Capacity = 2
  MaxRepeats = 1
  Keys <- BothKeys
  Conns <- BothConns
  Handshakes <- EitherHandshakes
  MaxMessages = 3
  StoreBuffer = FALSE
CHECK_DEADLOCK FALSE
INVARIANTS
  SubscriberCountExact
  SteadySubscriberServed
  NoStrandedMessage
PROPERTIES
  InOrder
  EveryMessageFannedOut
