---------------------------- MODULE MCHandshake ----------------------------
(***************************************************************************)
(* Two zmq.rs ends of any types, or one against a peer that announces      *)
(* older and newer versions, unknown and missing types, names at the       *)
(* limits of their length, or sends something else.                        *)
(***************************************************************************)
EXTENDS Handshake

MCVersion == <<3, 0>>

MCTypes == {"PUB", "SUB", "REQ", "REP", "DEALER", "ROUTER", "PULL", "PUSH", "XPUB", "XSUB"}

\* Scripts of foreign ends: what follows an acceptable greeting, and other greetings.
MCScripts ==
    {<<Greeting(<<3, 1>>), Ready(t, NoName)>> : t \in {"PAIR", "SUB", "ROUTER", "STREAM", UnknownType}}
    \cup {<<Greeting(<<3, 0>>), Ready("PUB", n)>> : n \in Names \cup {Empty, TooLong}}
    \cup {<<Greeting(v), Ready("DEALER", NoName)>> : v \in {<<2, 1>>, <<3, 0>>, <<4, 0>>}}
    \cup {<<Greeting(<<3, 0>>), Payload>>, <<Greeting(<<3, 0>>), Malformed>>, <<Malformed>>,
          <<Ready("SUB", NoName), Ready("SUB", NoName)>>}
=============================================================================
