------------------------------ MODULE Peering ------------------------------
(***************************************************************************)
(* What setting up a connection promises, without the messages it takes.   *)
(*                                                                         *)
(* The two ends of a connection each reach a verdict of their own, once.   *)
(* An end joins only a peer whose socket type goes with its own, and then  *)
(* knows it by the name the peer gave itself, or by a fresh one.  Whether  *)
(* the types go together is one fact for both ends, so an end is never     *)
(* refused by a peer that joined.  Either end may fail at any time: no     *)
(* protocol can keep the network up.                                       *)
(*                                                                         *)
(* Handshake implements this specification.                                *)
(***************************************************************************)

CONSTANTS Ends, NoName, Fresh

VARIABLES
    agree,      \* the types of the two ends go together
    named,      \* the name each end gave itself, or NoName
    verdict,    \* what each end concluded
    known       \* the name by which each end knows its peer

peeringVars == <<agree, named, verdict, known>>

Verdicts == {"pending", "joined", "refused", "failed"}

Other(e) == CHOOSE f \in Ends : f # e

Init ==
    /\ agree \in BOOLEAN
    /\ verdict = [e \in Ends |-> "pending"]
    /\ known = [e \in Ends |-> NoName]
    /\ DOMAIN named = Ends

Conclude(e, v) ==
    /\ verdict[e] = "pending"
    /\ verdict' = [verdict EXCEPT ![e] = v]
    /\ UNCHANGED <<agree, named>>

Join(e) ==
    /\ agree
    /\ Conclude(e, "joined")
    /\ known' = [known EXCEPT ![e] =
           IF named[Other(e)] = NoName THEN Fresh ELSE named[Other(e)]]

Refuse(e) == ~agree /\ Conclude(e, "refused") /\ UNCHANGED known

Fail(e) == Conclude(e, "failed") /\ UNCHANGED known

Next == \E e \in Ends : Join(e) \/ Refuse(e) \/ Fail(e)

Spec == Init /\ [][Next]_peeringVars

=============================================================================
