------------------------------- MODULE MCReqRep ------------------------------
(***************************************************************************)
(* ReqRep with two connections, in the arrangements that differ: a REQ     *)
(* socket that connects to the same server twice, known there under one    *)
(* identity or two and knowing it under one or two; a REQ socket with two  *)
(* servers; two REQ sockets, or a REQ and a DEALER socket, with one.       *)
(***************************************************************************)
EXTENDS ReqRep
CONSTANTS l1, l2, c1, c2, c3, s1, s2, k1, k2

Join(first, second) == [l \in {l1, l2} |-> IF l = l1 THEN first ELSE second]
End(c, s, ck, sk) == [client |-> c, server |-> s, ckey |-> ck, skey |-> sk]

MCTopologies ==
  {Join(End(c1, s1, k1, k1), End(c1, s1, ck, sk)) : ck, sk \in {k1, k2}}
  \cup {Join(End(c1, s1, k1, k1), End(c1, s2, k1, k2))}
  \cup {Join(End(c1, s1, k1, k1), End(c, s1, k2, k1)) : c \in {c2, c3}}
=============================================================================
