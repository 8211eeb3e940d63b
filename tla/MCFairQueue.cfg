SPECIFICATION FairSpec
CONSTANTS
  ka = ka
  kb = kb
  a1 = a1
  a2 = a2
  b1 = b1
  NoConn = NoConn
  Keys <- MCKeys
  Conns <- MCConns
  KeyOf <- MCKeyOf
  MaxInbox = 1
  MaxRemovals = 1
CHECK_DEADLOCK FALSE
INVARIANTS
  TypeOK
  NoLostWakeup
  QueuedHasEvent
  PopFindsEvent
  EventsBounded
PROPERTIES
  UnfinishedStreamKept
  NoStarvation
  PollReturns
