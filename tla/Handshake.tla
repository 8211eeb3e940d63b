----------------------------- MODULE Handshake -----------------------------
(***************************************************************************)
(* The set-up of one connection: greet_exchange, ready_exchange and        *)
(* peer_handshake of util.rs, with the compatibility matrix of lib.rs and  *)
(* the timeout that connect puts around them.                              *)
(*                                                                         *)
(* One end connects, the other accepts.  An end that runs zmq.rs follows   *)
(* the code below; one that does not sends the frames of a script, stops   *)
(* anywhere and may close.  Frames are what the codec yields (Codec models *)
(* the bytes): a greeting, a READY command, a message, or an error.  The   *)
(* network keeps the frames of a direction in order until it is cut.       *)
(***************************************************************************)
EXTENDS Naturals, Sequences

CONSTANTS
    Names,      \* identities that sockets are given by their options
    NoName,     \* no Identity property in READY
    Empty,      \* an Identity of length 0
    TooLong,    \* an Identity longer than PeerIdentity::MAX_LENGTH
    Fresh,      \* a new UUID
    Types,      \* socket types of the ends that run zmq.rs
    Scripts,    \* what ends that do not run zmq.rs may send
    MyVersion   \* version of ZmqGreeting::default(), a pair

ASSUME NamesAssumption ==
    /\ {NoName, Empty, TooLong, Fresh} \cap Names = {}
    /\ NoName # Empty /\ NoName # TooLong /\ Empty # TooLong /\ NoName # Fresh
Ends == {"connector", "acceptor"}
Other(e) == IF e = "connector" THEN "acceptor" ELSE "connector"

VARIABLES
    own,      \* does the end run zmq.rs?
    type,     \* its socket type
    name,     \* the identity in its options
    timed,    \* does connect have a timeout?
    script,   \* the frames a foreign end sends
    sent,     \* how many of them it has sent
    pc,       \* the place in the handshake
    wire,     \* frames each end has sent that the other has not read
    open,     \* has the end not closed its socket?
    cut,      \* did the network break the connection?
    verdict,  \* result of the handshake
    known     \* identity the end registers its peer under

confVars == <<own, type, name, timed, script>>
vars == <<confVars, sent, pc, wire, open, cut, verdict, known>>

---------------------------------------------------------------------------
(* Socket types *)

\* The enum SocketType: its members in the order of their numbers, from 0.
SocketTypes == <<"PAIR", "PUB", "SUB", "REQ", "REP", "DEALER", "ROUTER",
                 "PULL", "PUSH", "XPUB", "XSUB", "STREAM">>

KnownTypes == {SocketTypes[i] : i \in 1 .. 12}

\* Stands for every Socket-Type that SocketType::try_from does not know.
UnknownType == "none"

TypeIndex(t) == (CHOOSE i \in DOMAIN SocketTypes : SocketTypes[i] = t) - 1

\* A cell lost on one side of the diagonal: PUB does not take XSUB.
MatrixRowsOneSided ==
    <<{"PAIR"}, {"SUB"}, {"PUB", "XPUB"}, {"REP", "ROUTER"},
      {"REQ", "DEALER"}, {"REP", "DEALER", "ROUTER"}, {"REQ", "DEALER", "ROUTER"},
      {"PUSH"}, {"PULL"}, {"SUB", "XSUB"}, {"PUB", "XPUB"}>>

\* The rows of the matrix: the types with a 1.
MatrixRows ==
    <<{"PAIR"}, {"SUB", "XSUB"}, {"PUB", "XPUB"}, {"REP", "ROUTER"},
      {"REQ", "DEALER"}, {"REP", "DEALER", "ROUTER"}, {"REQ", "DEALER", "ROUTER"},
      {"PUSH"}, {"PULL"}, {"SUB", "XSUB"}, {"PUB", "XPUB"}>>

\* The 11 by 11 matrix, row after row.
COMPATIBILITY_MATRIX ==
    [i \in 0 .. 120 |-> SocketTypes[1 + (i % 11)] \in MatrixRows[1 + (i \div 11)]]

\* compatible: the twelfth type has no column, so that the index of a peer of type
\* STREAM is that of the next row's first cell, or past the end and a panic.
compatible(t, other) ==
    LET i == TypeIndex(t) * 11 + TypeIndex(other) IN
    IF i \notin DOMAIN COMPATIBILITY_MATRIX THEN "panicked"
    ELSE IF COMPATIBILITY_MATRIX[i] THEN "joined" ELSE "refused"

---------------------------------------------------------------------------
(* Frames *)

Greeting(v) == [kind |-> "greeting", version |-> v]
Ready(t, n) == [kind |-> "ready", type |-> t, name |-> n]
Payload == [kind |-> "message"]
Malformed == [kind |-> "error"]

\* Pairs are compared from the left, as Rust compares tuples.
AtLeast(v, w) == v[1] > w[1] \/ (v[1] = w[1] /\ v[2] >= w[2])

negotiate_version(frame) ==
    frame.kind = "greeting" /\ AtLeast(frame.version, MyVersion)

\* PeerIdentity::try_from of the Identity property, or its default.
PeerName(n) == IF n \in {NoName, Empty} THEN Fresh ELSE n

\* What ready_exchange makes of the frame it reads, in the order of its checks.
ReadyVerdict(e, frame) ==
    IF frame.kind # "ready" THEN "failed"
    ELSE IF frame.type \notin KnownTypes THEN "failed"
    ELSE IF frame.name = TooLong THEN "failed"
    ELSE compatible(type[e], frame.type)

\* The codec yields versions of two bytes and READY commands with these properties.
Bytes == 0 .. 255
Frames ==
    {Payload, Malformed}
    \cup [kind : {"greeting"}, version : Bytes \X Bytes]
    \cup [kind : {"ready"}, type : KnownTypes \cup {UnknownType},
         name : Names \cup {NoName, Empty, TooLong}]

ASSUME VersionAssumption == MyVersion \in Bytes \X Bytes
ASSUME TypesAssumption == Types \subseteq KnownTypes
ASSUME ScriptsAssumption == \A s \in Scripts : s \in Seq(Frames)

---------------------------------------------------------------------------
Init ==
    /\ own \in [Ends -> BOOLEAN]
    /\ \E e \in Ends : own[e]
    /\ type \in [Ends -> Types]
    /\ name \in [Ends -> Names \cup {NoName}]
    /\ timed \in BOOLEAN
    /\ script \in [Ends -> Scripts \cup {<<>>}]
    /\ \A e \in Ends : own[e] => script[e] = <<>>
    /\ \A e \in Ends : ~own[e] =>          \* unused, so fixed
           type[e] = (CHOOSE t \in Types : TRUE) /\ name[e] = NoName
    /\ sent = [e \in Ends |-> 0]
    /\ pc = [e \in Ends |-> IF own[e] THEN "greet" ELSE "foreign"]
    /\ wire = [e \in Ends |-> <<>>]
    /\ open = [e \in Ends |-> TRUE]
    /\ cut = FALSE
    /\ verdict = [e \in Ends |-> "pending"]
    /\ known = [e \in Ends |-> NoName]

\* The handshake of e ends: on an error its socket is dropped, which closes it.
End(e, v) ==
    /\ pc' = [pc EXCEPT ![e] = "done"]
    /\ verdict' = [verdict EXCEPT ![e] = v]
    /\ open' = [open EXCEPT ![e] = v = "joined"]

Sends(e, frame) == wire' = [wire EXCEPT ![e] = Append(@, frame)]
Reads(e) == wire' = [wire EXCEPT ![Other(e)] = Tail(@)]

\* The greeting is sent in answer to the peer's.
SendGreetingAnswer(e) ==
    /\ pc[e] = "greet" /\ ~cut /\ wire[Other(e)] # <<>>
    /\ Sends(e, Greeting(MyVersion))
    /\ pc' = [pc EXCEPT ![e] = "greeting"]
    /\ UNCHANGED <<confVars, sent, open, cut, verdict, known>>

\* greet_exchange sends its greeting without waiting for the peer's.
SendGreeting(e) ==
    /\ pc[e] = "greet" /\ ~cut
    /\ Sends(e, Greeting(MyVersion))
    /\ pc' = [pc EXCEPT ![e] = "greeting"]
    /\ UNCHANGED <<confVars, sent, open, cut, verdict, known>>

\* greet_exchange reads the peer's greeting and settles the version.
ReadGreeting(e) ==
    /\ pc[e] = "greeting" /\ ~cut /\ wire[Other(e)] # <<>>
    /\ Reads(e)
    /\ IF negotiate_version(Head(wire[Other(e)]))
       THEN /\ pc' = [pc EXCEPT ![e] = "ready"]
            /\ UNCHANGED <<verdict, open>>
       ELSE End(e, "failed")
    /\ UNCHANGED <<confVars, sent, cut, known>>

\* ready_exchange sends READY, with the Identity when the options have one.
SendReady(e) ==
    /\ pc[e] = "ready" /\ ~cut
    /\ Sends(e, Ready(type[e], name[e]))
    /\ pc' = [pc EXCEPT ![e] = "confirm"]
    /\ UNCHANGED <<confVars, sent, open, cut, verdict, known>>

\* ready_exchange reads the peer's READY and concludes.
ReadReady(e) ==
    /\ pc[e] = "confirm" /\ ~cut /\ wire[Other(e)] # <<>>
    /\ Reads(e)
    /\ LET frame == Head(wire[Other(e)])
           v == ReadyVerdict(e, frame)
       IN  /\ End(e, v)
           /\ known' = [known EXCEPT ![e] =
                  IF v = "joined" THEN PeerName(frame.name) ELSE @]
    /\ UNCHANGED <<confVars, sent, cut>>

\* A read or a send finds the connection broken.  A peer that closes with data
\* unread resets the connection, so that frames under way may be lost.
Broken(e) ==
    /\ pc[e] \in {"greet", "greeting", "ready", "confirm"}
    /\ cut \/ ~open[Other(e)]
    /\ End(e, "failed")
    /\ UNCHANGED <<confVars, sent, wire, cut, known>>

\* run_with_timeout around the handshake of connect: the future is dropped.
Timeout ==
    /\ own["connector"] /\ timed /\ pc["connector"] # "done"
    /\ End("connector", "timeout")
    /\ UNCHANGED <<confVars, sent, wire, cut, known>>

ForeignSend(e) ==
    /\ ~own[e] /\ open[e] /\ ~cut /\ sent[e] < Len(script[e])
    /\ sent' = [sent EXCEPT ![e] = @ + 1]
    /\ Sends(e, script[e][sent[e] + 1])
    /\ UNCHANGED <<confVars, pc, open, cut, verdict, known>>

ForeignClose(e) ==
    /\ ~own[e] /\ open[e]
    /\ open' = [open EXCEPT ![e] = FALSE]
    /\ UNCHANGED <<confVars, sent, pc, wire, cut, verdict, known>>

NetworkCut ==
    /\ ~cut
    /\ cut' = TRUE
    /\ UNCHANGED <<confVars, sent, pc, wire, open, verdict, known>>

Step(e) == SendGreeting(e) \/ ReadGreeting(e) \/ SendReady(e) \/ ReadReady(e) \/ Broken(e)

Next ==
    \/ \E e \in Ends : Step(e) \/ ForeignSend(e) \/ ForeignClose(e)
    \/ Timeout
    \/ NetworkCut

\* The runtime polls a task that can proceed, and timers fire.  Nothing is assumed
\* of foreign ends and of the network.
Fairness == (\A e \in Ends : WF_vars(Step(e))) /\ WF_vars(Timeout)

Spec == Init /\ [][Next]_vars /\ Fairness

---------------------------------------------------------------------------
(* Properties *)

\* What an end says of itself in its READY, the second frame it sends, when the
\* first one is a greeting of at least our version.
NotOlder(frame) ==
    frame.kind = "greeting" /\
    frame.version[1] * 256 + frame.version[2] >= MyVersion[1] * 256 + MyVersion[2]

Announced(e) ==
    IF own[e] THEN Ready(type[e], name[e])
    ELSE IF Len(script[e]) < 2 \/ ~NotOlder(script[e][1]) THEN Malformed
    ELSE script[e][2]

GoesWith(e) ==
    own[e] /\ Announced(Other(e)).kind = "ready"
           /\ ReadyVerdict(e, Announced(Other(e))) = "joined"

\* The abstract specification, seen through this one: the types agree when every
\* end that runs zmq.rs finds the other's type compatible; a timeout and a panic
\* are failures; an empty name is none.
Setup == INSTANCE Peering WITH
    agree <- \A e \in Ends : own[e] => GoesWith(e),
    named <- [e \in Ends |->
                 IF Announced(e).kind # "ready" \/ Announced(e).name = Empty
                 THEN NoName ELSE Announced(e).name],
    verdict <- [e \in Ends |->
                 IF verdict[e] \in {"timeout", "panicked"} THEN "failed" ELSE verdict[e]],
    known <- known

\* The handshake implements Peering: an end joins only a peer whose type goes with
\* its own in both directions of COMPATIBILITY_MATRIX and whose version is not older,
\* under the name that peer gave itself in READY or a fresh one, concludes once, and
\* is not refused by an end that joins, however frames, cuts, timeouts and closes
\* interleave.
PeeringHolds == Setup!Spec

\* Nobody waits for ever: an end of peer_handshake concludes when the other runs
\* zmq.rs as well, for both send before they read, or when connect has a timeout.
HandshakeSettles ==
    \A e \in Ends :
        (own[e] /\ (own[Other(e)] \/ (e = "connector" /\ timed))) ~> verdict[e] # "pending"
=============================================================================
