---------------------------- MODULE MCXPubProxy ----------------------------
(* A small instance of XPubProxy: two subscribers that share a filter.       *)
EXTENDS XPubProxy

CONSTANTS c1, c2

MCFilters == {"a"}
MCSubjects == {"a"}
MCPrefixesOf == "a" :> {"a"}

\* Two losses with one message of a subscriber, or one with two.
MaxEvents == 3
Small == ops + losses <= MaxEvents

SmallSpec == Init /\ [][Next /\ Small']_vars /\ Fairness
=============================================================================
