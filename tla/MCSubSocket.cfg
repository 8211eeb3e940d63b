SPECIFICATION FairSpec
CONSTANTS
  ta = ta
  tb = tb
  Topics <- TwoTopics
  MaxConns = 3
  MaxRepeats = 2
CHECK_DEADLOCK FALSE
INVARIANTS
  SubscriptionsReachPeersUnlessRaced
  OneConnection
PROPERTIES
  ReconnectsUnlessUnheard
  ReconnectTaskStops
