SPECIFICATION Spec
CONSTANTS
  l1 = l1
  l2 = l2
  c1 = c1
  c2 = c2
  c3 = c3
  s1 = s1
  s2 = s2
  k1 = k1
  k2 = k2
  Clients = {c1, c2, c3}
  Servers = {s1, s2}
  Links = {l1, l2}
  Keys = {k1, k2}
  NoKey = NoKey
  NoLink = NoLink
  Dealers = {c2}
  Topologies <- MCTopologies
  MaxRequests = 2
  MaxDrops = 1
CHECK_DEADLOCK FALSE
INVARIANTS
  ReplyMatchesUnlessMixed
  AnsweredOnce
  RepliesAddressed
  RequestNeverLost
