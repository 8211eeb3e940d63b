---------------------------- MODULE MCSubSocket ----------------------------
(* Instance of SubSocket. *)
EXTENDS SubSocket

CONSTANTS ta, tb

TwoTopics == {ta, tb}
=============================================================================
