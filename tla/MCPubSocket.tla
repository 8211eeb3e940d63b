---------------------------- MODULE MCPubSocket ----------------------------
(* Instances of PubSocket: two connections, of two subscribers or of one     *)
(* that connects again under its identity; and one connection on its own.    *)
EXTENDS PubSocket

CONSTANTS ka, kb, c1, c2, ta

BothKeys == {ka, kb}
BothConns == {c1, c2}
TwoPeers == {[c \in BothConns |-> IF c = c1 THEN ka ELSE kb]}
SamePeer == {[c \in BothConns |-> ka]}
EitherHandshakes == TwoPeers \cup SamePeer

OneKey == {ka}
OneConn == {c1}
OneHandshake == {[c \in OneConn |-> ka]}

OneTopic == {ta}
AllMatch == [m \in Messages |-> {ta}]

\* The instance of two connections stays small when the messages that overflow the
\* queue are sent while one of them has not come yet.
MaxShared == 2
Arrived == {c \in Conns : job[Connector(c)] # "upsert"}
Small == published <= MaxShared \/ Cardinality(Arrived) < Cardinality(Conns)

SmallSpec == Init /\ [][Next /\ Small']_vars /\ Fairness
=============================================================================
