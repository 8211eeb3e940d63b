----------------------------- MODULE MCFairQueue -----------------------------
(* Instance of FairQueue: identity ka connects twice, kb once. *)
EXTENDS FairQueue

CONSTANTS ka, kb, a1, a2, b1

MCKeys == {ka, kb}
MCConns == {a1, a2, b1}
MCKeyOf == [c \in MCConns |-> IF c = b1 THEN kb ELSE ka]
=============================================================================
