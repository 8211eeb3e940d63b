-------------------------- MODULE ConnectionProofs --------------------------
(***************************************************************************)
(* How a socket comes by its connections, for every value of the constants.*)
(* The handshake implements Peering, for any names, versions, scripts of   *)
(* foreign peers and any of the socket types.  Of the life of a socket:    *)
(* its listeners are those that bind and unbind leave, and the text of an  *)
(* endpoint leads back to its listener.                                    *)
(***************************************************************************)
EXTENDS Handshake, Lifecycle, TLAPS

---------------------------------------------------------------------------
(* The compatibility matrix *)

\* The cell of row a and column b.
LEMMA CellOf ==
    ASSUME NEW a \in 0 .. 10, NEW b \in 0 .. 10
    PROVE  /\ a * 11 + b \in 0 .. 120
           /\ (a * 11 + b) % 11 = b
           /\ (a * 11 + b) \div 11 = a
  OBVIOUS

LEMMA IndexOf ==
    ASSUME NEW i \in 1 .. 12
    PROVE  TypeIndex(SocketTypes[i]) = i - 1
  <1>1. DOMAIN SocketTypes = 1 .. 12
    BY DEF SocketTypes
  <1>2. \A j, k \in 1 .. 12 : SocketTypes[j] = SocketTypes[k] => j = k
    BY DEF SocketTypes
  <1> QED
    BY <1>1, <1>2 DEF TypeIndex

\* COMPATIBILITY_MATRIX is symmetric, row by row.
LEMMA RowsSymmetric ==
    ASSUME NEW a \in 1 .. 11, NEW b \in 1 .. 11
    PROVE  SocketTypes[a] \in MatrixRows[b] <=> SocketTypes[b] \in MatrixRows[a]
  BY DEF SocketTypes, MatrixRows

\* compatible answers "joined" for a pair exactly when it does for the pair swapped:
\* a STREAM peer falls on the PAIR column of the next row, which is 0 in every row
\* but the first, or past the end.
LEMMA JoinSymmetric ==
    ASSUME NEW t \in KnownTypes, NEW u \in KnownTypes
    PROVE  compatible(t, u) = "joined" <=> compatible(u, t) = "joined"
  <1>1. PICK i \in 1 .. 12 : t = SocketTypes[i]
    BY DEF KnownTypes
  <1>2. PICK j \in 1 .. 12 : u = SocketTypes[j]
    BY DEF KnownTypes
  <1>3. TypeIndex(t) = i - 1 /\ TypeIndex(u) = j - 1
    BY <1>1, <1>2, IndexOf
  <1>4. CASE i \in 1 .. 11 /\ j \in 1 .. 11
    <2> DEFINE a == i - 1
               b == j - 1
    <2>1. a \in 0 .. 10 /\ b \in 0 .. 10 /\ 1 + a = i /\ 1 + b = j
      BY <1>4
    <2> HIDE DEF a, b
    <2>2. COMPATIBILITY_MATRIX[a * 11 + b] = (SocketTypes[j] \in MatrixRows[i])
      BY <2>1, CellOf DEF COMPATIBILITY_MATRIX
    <2>3. COMPATIBILITY_MATRIX[b * 11 + a] = (SocketTypes[i] \in MatrixRows[j])
      BY <2>1, CellOf DEF COMPATIBILITY_MATRIX
    <2>4. a * 11 + b \in DOMAIN COMPATIBILITY_MATRIX /\ b * 11 + a \in DOMAIN COMPATIBILITY_MATRIX
      BY <2>1, CellOf DEF COMPATIBILITY_MATRIX
    <2>5. TypeIndex(t) = a /\ TypeIndex(u) = b
      BY <1>3 DEF a, b
    <2>6. (SocketTypes[j] \in MatrixRows[i]) <=> (SocketTypes[i] \in MatrixRows[j])
      BY <1>4, RowsSymmetric
    <2> QED
      BY <2>2, <2>3, <2>4, <2>5, <2>6 DEF compatible
  <1>5. CASE i = 12 \/ j = 12
    <2>1. ASSUME NEW k \in 1 .. 12
          PROVE  (k - 1) * 11 + 11 \in DOMAIN COMPATIBILITY_MATRIX
                 => ~COMPATIBILITY_MATRIX[(k - 1) * 11 + 11]
      <3>1. CASE k \in 11 .. 12
        BY <3>1 DEF COMPATIBILITY_MATRIX
      <3>2. CASE k \in 1 .. 10
        <4>1. k \in 0 .. 10 /\ 0 \in 0 .. 10 /\ (k - 1) * 11 + 11 = k * 11 + 0
          BY <3>2
        <4>2. COMPATIBILITY_MATRIX[k * 11 + 0] = (SocketTypes[1] \in MatrixRows[1 + k])
          BY <4>1, CellOf DEF COMPATIBILITY_MATRIX
        <4>3. SocketTypes[1] \notin MatrixRows[1 + k]
          BY <3>2 DEF SocketTypes, MatrixRows
        <4> QED
          BY <4>1, <4>2, <4>3
      <3> QED
        BY <3>1, <3>2
    <2>2. \A k \in 1 .. 12 : 11 * 11 + (k - 1) \notin DOMAIN COMPATIBILITY_MATRIX
      BY DEF COMPATIBILITY_MATRIX
    <2>3. CASE i = 12
      BY <1>3, <2>1, <2>2, <2>3 DEF compatible
    <2>4. CASE j = 12
      BY <1>3, <2>1, <2>2, <2>4 DEF compatible
    <2> QED
      BY <1>5, <2>3, <2>4
  <1> QED
    BY <1>4, <1>5

---------------------------------------------------------------------------
(* The inductive invariant *)

Stages == {"greet", "greeting", "ready", "confirm"}

TypeInv ==
    /\ own \in [Ends -> BOOLEAN]
    /\ type \in [Ends -> Types]
    /\ name \in [Ends -> Names \cup {NoName}]
    /\ script \in [Ends -> Seq(Frames)]
    /\ sent \in [Ends -> Nat]
    /\ pc \in [Ends -> Stages \cup {"foreign", "done"}]
    /\ wire \in [Ends -> Seq(Frames)]
    /\ open \in [Ends -> BOOLEAN]
    /\ verdict \in [Ends -> {"pending", "joined", "refused", "failed", "timeout", "panicked"}]
    /\ known \in [Ends -> Names \cup {NoName, Empty, TooLong, Fresh}]

\* An end that runs zmq.rs is in the handshake or has its verdict.
PcInv ==
    \A e \in Ends :
        /\ own[e] <=> pc[e] # "foreign"
        /\ pc[e] # "done" => verdict[e] = "pending"

\* All that an end sends, however far it gets.
Full(e) ==
    IF own[e] THEN <<Greeting(MyVersion), Ready(type[e], name[e])>> ELSE script[e]

\* How many of these frames it has sent, until it is done.
SentCount(e) ==
    IF ~own[e] THEN sent[e]
    ELSE IF pc[e] = "greet" THEN 0 ELSE IF pc[e] = "confirm" THEN 2 ELSE 1

\* How many frames an end in the handshake has read.
ReadCount(f) == IF pc[f] \in {"ready", "confirm"} THEN 1 ELSE 0

\* What f has read and what is on its wire are the first frames of its peer e, and
\* f is past the greeting only when the version was acceptable.
WireInv(f, e) ==
    pc[f] \in Stages =>
        /\ Len(wire[e]) + ReadCount(f) <= Len(Full(e))
        /\ pc[e] # "done" => Len(wire[e]) + ReadCount(f) = SentCount(e)
        /\ \A i \in 1 .. Len(wire[e]) : wire[e][i] = Full(e)[i + ReadCount(f)]
        /\ ReadCount(f) = 1 => negotiate_version(Full(e)[1])

IInv == TypeInv /\ PcInv /\ \A f \in Ends : WireInv(f, Other(f))

USE DEF Ends, Other

LEMMA OwnFrames ==
    ASSUME TypeInv, NEW e \in Ends
    PROVE  Greeting(MyVersion) \in Frames /\ Ready(type[e], name[e]) \in Frames
  <1>1. type[e] \in KnownTypes /\ name[e] \in Names \cup {NoName}
    BY TypesAssumption DEF TypeInv
  <1> QED
    BY <1>1, VersionAssumption DEF Frames, Greeting, Ready

LEMMA InitInv == Init => IInv
  <1> SUFFICES ASSUME Init PROVE IInv
    OBVIOUS
  <1>1. TypeInv
    <2>1. script \in [Ends -> Seq(Frames)]
      <3>1. <<>> \in Seq(Frames)
        OBVIOUS
      <3>2. \A s \in Scripts \cup {<<>>} : s \in Seq(Frames)
        BY <3>1, ScriptsAssumption, Zenon
      <3> QED
        BY <3>2 DEF Init
    <2>2. wire \in [Ends -> Seq(Frames)]
      BY DEF Init
    <2>3. pc \in [Ends -> Stages \cup {"foreign", "done"}]
      BY DEF Init, Stages
    <2> QED
      BY <2>1, <2>2, <2>3 DEF Init, TypeInv
  <1>2. PcInv
    BY DEF Init, PcInv
  <1>3. ASSUME NEW f \in Ends PROVE WireInv(f, Other(f))
    <2> DEFINE e == Other(f)
    <2>1. wire[e] = <<>> /\ ReadCount(f) = 0 /\ SentCount(e) = 0
      BY DEF Init, ReadCount, SentCount
    <2>2. Len(Full(e)) \in Nat
      BY <1>1 DEF TypeInv, Full
    <2> QED
      BY <2>1, <2>2 DEF WireInv
  <1> QED
    BY <1>1, <1>2, <1>3 DEF IInv

LEMMA FullTyped ==
    ASSUME TypeInv, NEW e \in Ends
    PROVE  Full(e) \in Seq(Frames)
  BY OwnFrames DEF Full, TypeInv

LEMMA FullFixed ==
    ASSUME UNCHANGED confVars, NEW e \in Ends
    PROVE  Full(e)' = Full(e)
  BY DEF Full, confVars

\* An end sends the frame that comes next.
LEMMA SendKeeps ==
    ASSUME IInv, NEW g \in Ends, NEW frame \in Frames,
           Sends(g, frame), UNCHANGED confVars, TypeInv',
           pc[g] # "done", pc'[g] # "done",
           pc'[Other(g)] = pc[Other(g)],
           pc'[g] \in Stages => pc[g] \in Stages,
           ReadCount(g)' = ReadCount(g),
           SentCount(g)' = SentCount(g) + 1,
           SentCount(Other(g))' = SentCount(Other(g)),
           SentCount(g) + 1 <= Len(Full(g)),
           frame = Full(g)[SentCount(g) + 1]
    PROVE  \A f \in Ends : WireInv(f, Other(f))'
  <1> SUFFICES ASSUME NEW f \in Ends, pc'[f] \in Stages
               PROVE  WireInv(f, Other(f))'
    BY DEF WireInv
  <1> DEFINE e == Other(f)
  <1>0. e \in Ends /\ e # f /\ Full(e)' = Full(e) /\ Full(e) \in Seq(Frames)
    BY FullTyped, FullFixed DEF IInv
  <1>1. pc[f] \in Stages /\ ReadCount(f)' = ReadCount(f) /\ ReadCount(f) \in Nat /\ WireInv(f, e)
    BY DEF ReadCount, IInv
  <1>2. wire[e] \in Seq(Frames) /\ SentCount(e) \in Nat
    BY <1>0 DEF TypeInv, IInv, SentCount
  <1>3. CASE e = g
    <2>1. wire'[e] = Append(wire[e], frame)
      BY <1>3, <1>0 DEF Sends, IInv, TypeInv
    <2>2. Len(wire'[e]) = Len(wire[e]) + 1
      BY <2>1, <1>2
    <2>3. Len(wire[e]) + ReadCount(f) = SentCount(e)
      BY <1>1, <1>3 DEF WireInv
    <2>4. ASSUME NEW i \in 1 .. Len(wire'[e])
          PROVE  wire'[e][i] = Full(e)[i + ReadCount(f)]
      <3>1. CASE i = Len(wire[e]) + 1
        <4>1. wire'[e][i] = frame
          BY <3>1, <2>1, <1>2
        <4>2. i + ReadCount(f) = SentCount(e) + 1
          BY <3>1, <2>3, <1>1, <1>2
        <4> QED
          BY <4>1, <4>2, <1>3
      <3>2. CASE i \in 1 .. Len(wire[e])
        <4>1. wire'[e][i] = wire[e][i]
          BY <3>2, <2>1, <1>2
        <4> QED
          BY <4>1, <3>2, <1>1 DEF WireInv
      <3> QED
        BY <3>1, <3>2, <2>2, <1>2
    <2>5. ReadCount(f)' = 1 => negotiate_version(Full(e)[1])
      BY <1>1 DEF WireInv
    <2>6. Len(wire'[e]) + ReadCount(f)' <= Len(Full(e)) /\ Len(wire'[e]) + ReadCount(f)' = SentCount(e)'
      BY <2>2, <2>3, <1>1, <1>2, <1>3
    <2> QED
      BY <2>4, <2>5, <2>6, <1>0, <1>1 DEF WireInv, negotiate_version
  <1>4. CASE e # g
    <2>1. g = f
      BY <1>4, <1>0
    <2>2. wire'[e] = wire[e] /\ pc'[e] = pc[e] /\ SentCount(e)' = SentCount(e)
      BY <2>1, <1>0 DEF Sends, IInv, TypeInv
    <2> QED
      BY <2>2, <1>0, <1>1 DEF WireInv, negotiate_version
  <1> QED
    BY <1>3, <1>4

\* An end concludes: nothing it has read or will read matters any more.
LEMMA DoneKeeps ==
    ASSUME IInv, NEW g \in Ends, UNCHANGED <<confVars, sent>>,
           pc' = [pc EXCEPT ![g] = "done"],
           wire'[g] = wire[g]
    PROVE  \A f \in Ends : WireInv(f, Other(f))'
  <1> SUFFICES ASSUME NEW f \in Ends, pc'[f] \in Stages
               PROVE  WireInv(f, Other(f))'
    BY DEF WireInv
  <1> DEFINE e == Other(f)
  <1>1. f # g /\ e = g /\ pc'[f] = pc[f] /\ pc'[e] = "done"
    BY DEF IInv, TypeInv, Stages
  <1>2. Full(e)' = Full(e) /\ ReadCount(f)' = ReadCount(f) /\ WireInv(f, e)
    BY <1>1, FullFixed DEF ReadCount, IInv
  <1> QED
    BY <1>1, <1>2 DEF WireInv, negotiate_version

\* An end passes the greeting of its peer.
LEMMA PassKeeps ==
    ASSUME IInv, NEW g \in Ends, pc[g] = "greeting", wire[Other(g)] # <<>>, Reads(g),
           negotiate_version(Head(wire[Other(g)])), own[g],
           pc' = [pc EXCEPT ![g] = "ready"], UNCHANGED <<confVars, sent>>
    PROVE  \A f \in Ends : WireInv(f, Other(f))'
  <1> SUFFICES ASSUME NEW f \in Ends, pc'[f] \in Stages
               PROVE  WireInv(f, Other(f))'
    BY DEF WireInv
  <1> DEFINE e == Other(f)
  <1>0. e \in Ends /\ e # f /\ Full(e)' = Full(e) /\ Full(e) \in Seq(Frames)
    BY FullTyped, FullFixed DEF IInv
  <1>1. WireInv(f, e) /\ wire[e] \in Seq(Frames)
    BY <1>0 DEF IInv, TypeInv
  <1>2. CASE f = g
    <2>1. wire'[e] = Tail(wire[e]) /\ wire[e] # <<>>
      BY <1>0, <1>2 DEF Reads, IInv, TypeInv
    <2>2. ReadCount(f) = 0 /\ ReadCount(f)' = 1 /\ pc'[e] = pc[e] /\ SentCount(e)' = SentCount(e)
      BY <1>0, <1>2 DEF ReadCount, SentCount, IInv, TypeInv, confVars
    <2>3. Len(wire'[e]) = Len(wire[e]) - 1
          /\ \A i \in 1 .. Len(wire'[e]) : wire'[e][i] = wire[e][i + 1]
      BY <2>1, <1>1
    <2>4. Len(wire[e]) <= Len(Full(e)) /\ (pc[e] # "done" => Len(wire[e]) = SentCount(e))
          /\ \A i \in 1 .. Len(wire[e]) : wire[e][i] = Full(e)[i]
      BY <1>1, <1>2, <2>2 DEF WireInv, Stages
    <2>5. Head(wire[e]) = Full(e)[1]
      BY <2>1, <2>4, <1>1
    <2>6. \A i \in 1 .. Len(wire'[e]) : wire'[e][i] = Full(e)[i + 1]
      BY <2>3, <2>4, <1>1
    <2>7. negotiate_version(Full(e)[1])
      BY <2>5, <1>2
    <2>8. Len(wire'[e]) + 1 = Len(wire[e])
      BY <2>3, <1>1
    <2> QED
      BY <2>2, <2>4, <2>6, <2>7, <2>8, <1>0 DEF WireInv, negotiate_version
  <1>3. CASE f # g
    <2>1. e = g /\ pc'[f] = pc[f] /\ pc'[e] = "ready"
      BY <1>3, <1>0 DEF IInv, TypeInv
    <2>2. wire'[e] = wire[e]
      BY <2>1, <1>0 DEF Reads, IInv, TypeInv
    <2>3. SentCount(e)' = SentCount(e) /\ ReadCount(f)' = ReadCount(f) /\ pc[e] # "done"
      BY <2>1, <1>0 DEF SentCount, ReadCount, confVars
    <2> QED
      BY <2>1, <2>2, <2>3, <1>0, <1>1 DEF WireInv, negotiate_version
  <1> QED
    BY <1>2, <1>3

LEMMA SendGreetingKeeps ==
    ASSUME IInv, NEW g \in Ends, SendGreeting(g)
    PROVE  IInv'
  <1>1. TypeInv'
    BY OwnFrames DEF IInv, TypeInv, SendGreeting, Sends, confVars, Stages
  <1>2. PcInv'
    BY DEF IInv, TypeInv, PcInv, SendGreeting, confVars
  <1>3. own[g] /\ pc'[g] = "greeting" /\ pc'[Other(g)] = pc[Other(g)]
    BY DEF IInv, TypeInv, PcInv, SendGreeting
  <1>4. /\ SentCount(g) = 0 /\ SentCount(g)' = 1
        /\ ReadCount(g)' = ReadCount(g)
        /\ SentCount(Other(g))' = SentCount(Other(g))
    BY <1>3 DEF SentCount, ReadCount, SendGreeting, confVars
  <1>5. Len(Full(g)) = 2 /\ Full(g)[1] = Greeting(MyVersion)
    BY <1>3 DEF Full
  <1>6. Sends(g, Greeting(MyVersion)) /\ UNCHANGED confVars /\ pc[g] = "greet"
    BY DEF SendGreeting
  <1>7. Greeting(MyVersion) \in Frames
    BY OwnFrames DEF IInv
  <1>8. \A f \in Ends : WireInv(f, Other(f))'
    BY <1>1, <1>3, <1>4, <1>5, <1>6, <1>7, SendKeeps DEF Stages
  <1> QED
    BY <1>1, <1>2, <1>8 DEF IInv

LEMMA SendReadyKeeps ==
    ASSUME IInv, NEW g \in Ends, SendReady(g)
    PROVE  IInv'
  <1>1. TypeInv'
    BY OwnFrames DEF IInv, TypeInv, SendReady, Sends, confVars, Stages
  <1>2. PcInv'
    BY DEF IInv, TypeInv, PcInv, SendReady, confVars
  <1>3. own[g] /\ pc'[g] = "confirm" /\ pc'[Other(g)] = pc[Other(g)]
    BY DEF IInv, TypeInv, PcInv, SendReady
  <1>4. /\ SentCount(g) = 1 /\ SentCount(g)' = 2
        /\ ReadCount(g)' = ReadCount(g)
        /\ SentCount(Other(g))' = SentCount(Other(g))
    BY <1>3 DEF SentCount, ReadCount, SendReady, confVars
  <1>5. Len(Full(g)) = 2 /\ Full(g)[2] = Ready(type[g], name[g])
    BY <1>3 DEF Full
  <1>6. Sends(g, Ready(type[g], name[g])) /\ UNCHANGED confVars /\ pc[g] = "ready"
    BY DEF SendReady
  <1>7. Ready(type[g], name[g]) \in Frames
    BY OwnFrames DEF IInv
  <1>8. \A f \in Ends : WireInv(f, Other(f))'
    <2>1. SentCount(g) + 1 <= Len(Full(g)) /\ SentCount(g)' = SentCount(g) + 1
          /\ Full(g)[SentCount(g) + 1] = Ready(type[g], name[g])
      BY <1>4, <1>5
    <2>2. pc[g] \in Stages /\ pc[g] # "done" /\ pc'[g] # "done"
      BY <1>3, <1>6 DEF Stages
    <2> QED
      BY <1>1, <1>3, <1>4, <1>6, <1>7, <2>1, <2>2, SendKeeps
  <1> QED
    BY <1>1, <1>2, <1>8 DEF IInv

LEMMA ForeignSendKeeps ==
    ASSUME IInv, NEW g \in Ends, ForeignSend(g)
    PROVE  IInv'
  <1>0. script[g] \in Seq(Frames) /\ sent[g] \in Nat /\ sent[g] < Len(script[g])
    BY DEF IInv, TypeInv, ForeignSend
  <1>1. script[g][sent[g] + 1] \in Frames
    BY <1>0
  <1>2. TypeInv'
    BY <1>1 DEF IInv, TypeInv, ForeignSend, Sends, confVars
  <1>3. PcInv'
    BY DEF IInv, PcInv, ForeignSend, confVars
  <1>4. ~own[g] /\ pc[g] = "foreign" /\ UNCHANGED pc
    BY DEF IInv, PcInv, ForeignSend
  <1>5. /\ SentCount(g) = sent[g] /\ SentCount(g)' = sent[g] + 1
        /\ ReadCount(g)' = ReadCount(g)
        /\ SentCount(Other(g))' = SentCount(Other(g))
    BY <1>4 DEF SentCount, ReadCount, ForeignSend, confVars, IInv, TypeInv
  <1>6. Full(g) = script[g]
    BY <1>4 DEF Full
  <1>7. Sends(g, script[g][sent[g] + 1]) /\ UNCHANGED confVars
    BY DEF ForeignSend
  <1>8. \A f \in Ends : WireInv(f, Other(f))'
    BY <1>0, <1>1, <1>2, <1>4, <1>5, <1>6, <1>7, SendKeeps DEF Stages
  <1> QED
    BY <1>2, <1>3, <1>8 DEF IInv

\* The frame an end reads is typed, and what is left is.
LEMMA ReadsTyped ==
    ASSUME TypeInv, NEW g \in Ends, wire[Other(g)] # <<>>, Reads(g)
    PROVE  /\ Head(wire[Other(g)]) \in Frames
           /\ wire' \in [Ends -> Seq(Frames)]
           /\ wire'[g] = wire[g]
  <1>1. wire[Other(g)] \in Seq(Frames) /\ Other(g) # g
    BY DEF TypeInv
  <1>2. Head(wire[Other(g)]) \in Frames /\ Tail(wire[Other(g)]) \in Seq(Frames)
    BY <1>1
  <1> QED
    BY <1>1, <1>2 DEF Reads, TypeInv

LEMMA EndKeeps ==
    ASSUME IInv, NEW g \in Ends, own[g],
           NEW v \in {"joined", "refused", "failed", "timeout", "panicked"}, End(g, v),
           wire' \in [Ends -> Seq(Frames)], wire'[g] = wire[g],
           known' \in [Ends -> Names \cup {NoName, Empty, TooLong, Fresh}],
           UNCHANGED <<confVars, sent>>
    PROVE  IInv'
  <1>1. TypeInv'
    BY DEF IInv, TypeInv, End, confVars
  <1>2. PcInv'
    BY DEF IInv, TypeInv, PcInv, End, confVars
  <1>3. \A f \in Ends : WireInv(f, Other(f))'
    BY DoneKeeps DEF End
  <1> QED
    BY <1>1, <1>2, <1>3 DEF IInv

LEMMA ReadGreetingKeeps ==
    ASSUME IInv, NEW g \in Ends, ReadGreeting(g)
    PROVE  IInv'
  <1>1. own[g] /\ pc[g] = "greeting" /\ wire[Other(g)] # <<>> /\ Reads(g)
        /\ UNCHANGED <<confVars, sent, known>>
    BY DEF IInv, PcInv, ReadGreeting
  <1>2. wire' \in [Ends -> Seq(Frames)] /\ wire'[g] = wire[g]
    BY <1>1, ReadsTyped DEF IInv
  <1>3. CASE negotiate_version(Head(wire[Other(g)]))
    <2>1. pc' = [pc EXCEPT ![g] = "ready"] /\ UNCHANGED <<verdict, open>>
      BY <1>3 DEF ReadGreeting
    <2>2. TypeInv'
      BY <1>1, <1>2, <2>1 DEF IInv, TypeInv, confVars, Stages
    <2>3. PcInv'
      BY <1>1, <2>1 DEF IInv, TypeInv, PcInv, confVars
    <2>4. \A f \in Ends : WireInv(f, Other(f))'
      BY <1>1, <1>3, <2>1, PassKeeps
    <2> QED
      BY <2>2, <2>3, <2>4 DEF IInv
  <1>4. CASE ~negotiate_version(Head(wire[Other(g)]))
    <2>1. End(g, "failed")
      BY <1>4 DEF ReadGreeting
    <2>2. known' \in [Ends -> Names \cup {NoName, Empty, TooLong, Fresh}]
      BY <1>1 DEF IInv, TypeInv
    <2> QED
      BY <1>1, <1>2, <2>1, <2>2, EndKeeps
  <1> QED
    BY <1>3, <1>4

LEMMA VerdictTyped ==
    ASSUME NEW e \in Ends, NEW frame \in Frames
    PROVE  /\ ReadyVerdict(e, frame) \in {"joined", "refused", "failed", "panicked"}
           /\ ReadyVerdict(e, frame) = "joined" =>
                  /\ frame.kind = "ready"
                  /\ frame.name \in Names \cup {NoName, Empty}
  BY DEF ReadyVerdict, compatible, Frames, Payload, Malformed

LEMMA ReadReadyKeeps ==
    ASSUME IInv, NEW g \in Ends, ReadReady(g)
    PROVE  IInv'
  <1> DEFINE frame == Head(wire[Other(g)])
             v == ReadyVerdict(g, frame)
  <1>1. own[g] /\ wire[Other(g)] # <<>> /\ Reads(g) /\ End(g, v)
        /\ UNCHANGED <<confVars, sent>>
        /\ known' = [known EXCEPT ![g] = IF v = "joined" THEN PeerName(frame.name) ELSE @]
    BY DEF IInv, PcInv, ReadReady
  <1>2. wire' \in [Ends -> Seq(Frames)] /\ wire'[g] = wire[g] /\ frame \in Frames
    BY <1>1, ReadsTyped DEF IInv
  <1>3. v \in {"joined", "refused", "failed", "panicked"}
        /\ (v = "joined" => frame.name \in Names \cup {NoName, Empty})
    BY <1>2, VerdictTyped
  <1> HIDE DEF frame, v
  <1>4. known' \in [Ends -> Names \cup {NoName, Empty, TooLong, Fresh}]
    BY <1>1, <1>3 DEF IInv, TypeInv, PeerName
  <1> QED
    BY <1>1, <1>2, <1>3, <1>4, EndKeeps

LEMMA NextInv == IInv /\ [Next]_vars => IInv'
  <1> SUFFICES ASSUME IInv, [Next]_vars PROVE IInv'
    OBVIOUS
  <1>1. ASSUME NEW e \in Ends, Broken(e) PROVE IInv'
    <2>1. own[e] /\ UNCHANGED <<confVars, sent, wire, known>> /\ End(e, "failed")
      BY <1>1 DEF Broken, IInv, PcInv
    <2> QED
      BY <2>1, EndKeeps DEF IInv, TypeInv
  <1>2. ASSUME Timeout PROVE IInv'
    <2>1. own["connector"] /\ UNCHANGED <<confVars, sent, wire, known>>
          /\ End("connector", "timeout")
      BY <1>2 DEF Timeout
    <2> QED
      BY <2>1, EndKeeps DEF IInv, TypeInv
  <1>3. ASSUME UNCHANGED <<confVars, sent, pc, wire, verdict, known>>,
               open' \in [Ends -> BOOLEAN]
        PROVE  IInv'
    <2>1. TypeInv' /\ PcInv'
      BY <1>3 DEF IInv, TypeInv, PcInv, confVars
    <2>2. ASSUME NEW f \in Ends PROVE WireInv(f, Other(f))'
      <3>1. WireInv(f, Other(f)) /\ Full(Other(f))' = Full(Other(f))
            /\ ReadCount(f)' = ReadCount(f) /\ SentCount(Other(f))' = SentCount(Other(f))
        BY <1>3, FullFixed DEF IInv, ReadCount, SentCount, confVars
      <3> QED
        BY <1>3, <3>1 DEF WireInv, negotiate_version
    <2> QED
      BY <2>1, <2>2 DEF IInv
  <1>4. ASSUME NEW e \in Ends, ForeignClose(e) PROVE IInv'
    BY <1>3, <1>4 DEF ForeignClose, IInv, TypeInv
  <1>5. ASSUME NetworkCut PROVE IInv'
    BY <1>3, <1>5 DEF NetworkCut, IInv, TypeInv
  <1>6. ASSUME UNCHANGED vars PROVE IInv'
    BY <1>3, <1>6 DEF vars, IInv, TypeInv
  <1> QED
    BY <1>1, <1>2, <1>4, <1>5, <1>6, SendGreetingKeeps, ReadGreetingKeeps,
       SendReadyKeeps, ReadReadyKeeps, ForeignSendKeeps DEF Next, Step

---------------------------------------------------------------------------
(* The refinement *)

\* Comparing versions as pairs of bytes or as 16-bit numbers is the same.
LEMMA VersionOrder ==
    ASSUME NEW frame \in Frames
    PROVE  NotOlder(frame) <=> negotiate_version(frame)
  <1>1. CASE frame.kind = "greeting"
    <2>1. frame.version \in Bytes \X Bytes
      BY <1>1 DEF Frames, Payload, Malformed
    <2>2. /\ frame.version[1] \in 0 .. 255 /\ frame.version[2] \in 0 .. 255
          /\ MyVersion[1] \in 0 .. 255 /\ MyVersion[2] \in 0 .. 255
      BY <2>1, VersionAssumption DEF Bytes
    <2> DEFINE a == frame.version[1]
               b == frame.version[2]
               c == MyVersion[1]
               d == MyVersion[2]
    <2>3. NotOlder(frame) <=> a * 256 + b >= c * 256 + d
      BY <1>1 DEF NotOlder
    <2>4. negotiate_version(frame) <=> (a > c \/ (a = c /\ b >= d))
      BY <1>1 DEF negotiate_version, AtLeast
    <2> HIDE DEF a, b, c, d
    <2>5. a \in 0 .. 255 /\ b \in 0 .. 255 /\ c \in 0 .. 255 /\ d \in 0 .. 255
      BY <2>2 DEF a, b, c, d
    <2> QED
      BY <2>3, <2>4, <2>5
  <1>2. CASE frame.kind # "greeting"
    BY <1>2 DEF NotOlder, negotiate_version
  <1> QED
    BY <1>1, <1>2

\* The frame ready_exchange reads is what the peer announced of itself.
LEMMA Heard ==
    ASSUME IInv, NEW g \in Ends, pc[g] = "confirm", wire[Other(g)] # <<>>
    PROVE  Head(wire[Other(g)]) = Announced(Other(g))
  <1> DEFINE e == Other(g)
  <1>1. e \in Ends /\ wire[e] \in Seq(Frames) /\ Full(e) \in Seq(Frames) /\ WireInv(g, e)
    BY FullTyped DEF IInv, TypeInv
  <1>2. ReadCount(g) = 1 /\ Len(wire[e]) >= 1
    BY <1>1 DEF ReadCount
  <1>3. Len(Full(e)) >= 2 /\ wire[e][1] = Full(e)[2] /\ negotiate_version(Full(e)[1])
    <2>1. Len(wire[e]) + 1 <= Len(Full(e))
          /\ (\A i \in 1 .. Len(wire[e]) : wire[e][i] = Full(e)[i + 1])
          /\ negotiate_version(Full(e)[1])
      BY <1>1, <1>2 DEF WireInv, Stages
    <2> QED
      BY <1>1, <1>2, <2>1
  <1>4. Head(wire[e]) = Full(e)[2]
    BY <1>1, <1>2, <1>3
  <1>5. CASE own[e]
    BY <1>4, <1>5 DEF Full, Announced
  <1>6. CASE ~own[e]
    <2>1. Full(e) = script[e]
      BY <1>6 DEF Full
    <2>2. script[e][1] \in Frames
      BY <1>1, <1>3, <2>1
    <2>3. NotOlder(script[e][1])
      BY <1>3, <2>1, <2>2, VersionOrder
    <2>4. ~(Len(script[e]) < 2)
      BY <1>1, <1>3, <2>1
    <2> QED
      BY <1>4, <1>6, <2>1, <2>3, <2>4 DEF Announced
  <1> QED
    BY <1>5, <1>6

Agree == \A e \in Ends : own[e] => GoesWith(e)

\* When one end finds the types compatible, so does the other.
LEMMA JoinAgrees ==
    ASSUME IInv, NEW g \in Ends, own[g],
           ReadyVerdict(g, Announced(Other(g))) = "joined"
    PROVE  Agree
  <1> DEFINE e == Other(g)
  <1>1. GoesWith(g)
    BY DEF GoesWith, ReadyVerdict
  <1>2. ASSUME own[e] PROVE GoesWith(e)
    <2>1. Announced(e) = Ready(type[e], name[e]) /\ Announced(g) = Ready(type[g], name[g])
      BY <1>2 DEF Announced
    <2>2. type[e] \in KnownTypes /\ type[g] \in KnownTypes /\ name[g] # TooLong
      BY TypesAssumption, NamesAssumption DEF IInv, TypeInv
    <2>3. compatible(type[g], type[e]) = "joined"
      BY <2>1 DEF ReadyVerdict, Ready
    <2>4. compatible(type[e], type[g]) = "joined"
      BY <2>2, <2>3, JoinSymmetric
    <2>5. Other(e) = g
      OBVIOUS
    <2> QED
      BY <1>2, <2>1, <2>2, <2>4, <2>5 DEF GoesWith, ReadyVerdict, Ready
  <1>3. \A f \in Ends : f = g \/ f = e
    OBVIOUS
  <1> QED
    BY <1>1, <1>2, <1>3 DEF Agree

\* The state functions that Peering's variables stand for.
Named ==
    [e \in Ends |->
        IF Announced(e).kind # "ready" \/ Announced(e).name = Empty
        THEN NoName ELSE Announced(e).name]

Concluded ==
    [e \in Ends |->
        IF verdict[e] \in {"timeout", "panicked"} THEN "failed" ELSE verdict[e]]

\* Peering's actions, spelled out for these.
LEMMA PeerOf == \A e \in Ends : Setup!Other(e) = Other(e)
  BY DEF Setup!Other

LEMMA ConfFixed ==
    ASSUME UNCHANGED confVars
    PROVE  Agree' = Agree /\ Named' = Named
  BY DEF confVars, Agree, Named, GoesWith, Announced, ReadyVerdict

LEMMA ConcludedBy ==
    ASSUME IInv, NEW g \in Ends, pc[g] # "done", NEW v, End(g, v)
    PROVE  /\ Concluded[g] = "pending"
           /\ Concluded' = [Concluded EXCEPT ![g] =
                  IF v \in {"timeout", "panicked"} THEN "failed" ELSE v]
  BY DEF IInv, TypeInv, PcInv, End, Concluded

LEMMA FailStep ==
    ASSUME IInv, NEW g \in Ends, pc[g] # "done",
           NEW v \in {"failed", "timeout", "panicked"}, End(g, v),
           UNCHANGED <<confVars, known>>
    PROVE  Setup!Fail(g)
  BY ConcludedBy, ConfFixed DEF Setup!Fail, Setup!Conclude, Agree, Named, Concluded

LEMMA JoinStep ==
    ASSUME IInv, NEW g \in Ends, ReadReady(g),
           ReadyVerdict(g, Head(wire[Other(g)])) = "joined"
    PROVE  Setup!Join(g)
  <1> DEFINE frame == Head(wire[Other(g)])
             e == Other(g)
  <1>1. /\ own[g] /\ pc[g] # "done" /\ wire[e] # <<>> /\ End(g, "joined")
        /\ known' = [known EXCEPT ![g] = PeerName(frame.name)]
        /\ UNCHANGED confVars
    BY DEF ReadReady, IInv, PcInv
  <1>2. frame = Announced(e)
    BY Heard DEF ReadReady
  <1>3. frame \in Frames
    BY <1>1, ReadsTyped DEF IInv, ReadReady
  <1>4. Agree
    BY <1>1, <1>2, JoinAgrees
  <1>5. Concluded[g] = "pending" /\ Concluded' = [Concluded EXCEPT ![g] = "joined"]
    BY <1>1, ConcludedBy
  <1>6. PeerName(frame.name) = IF Named[e] = NoName THEN Fresh ELSE Named[e]
    <2>1. frame.kind = "ready"
      BY <1>3, VerdictTyped
    <2>2. Named[e] = IF frame.name = Empty THEN NoName ELSE frame.name
      BY <1>2, <2>1 DEF Named
    <2> QED
      BY <2>2 DEF PeerName
  <1>7. Setup!Other(g) = e
    BY PeerOf
  <1>8. Agree' = Agree /\ Named' = Named
    BY <1>1, ConfFixed
  <1> HIDE DEF frame, e
  <1>9. known' = [known EXCEPT ![g] =
            IF Named[Setup!Other(g)] = NoName THEN Fresh ELSE Named[Setup!Other(g)]]
    BY <1>1, <1>6, <1>7
  <1> QED
    BY <1>4, <1>5, <1>8, <1>9 DEF Setup!Join, Setup!Conclude, Agree, Named, Concluded

LEMMA RefuseStep ==
    ASSUME IInv, NEW g \in Ends, ReadReady(g),
           ReadyVerdict(g, Head(wire[Other(g)])) = "refused"
    PROVE  Setup!Refuse(g)
  <1>1. own[g] /\ pc[g] # "done" /\ End(g, "refused") /\ UNCHANGED confVars
    BY DEF ReadReady, IInv, PcInv
  <1>2. known' = known
    BY DEF ReadReady, IInv, TypeInv
  <1>3. ~GoesWith(g)
    BY Heard DEF GoesWith, ReadReady
  <1>4. ~Agree
    BY <1>1, <1>3 DEF Agree
  <1>5. Concluded[g] = "pending" /\ Concluded' = [Concluded EXCEPT ![g] = "refused"]
    BY <1>1, ConcludedBy
  <1>6. Agree' = Agree /\ Named' = Named
    BY <1>1, ConfFixed
  <1> QED
    BY <1>2, <1>4, <1>5, <1>6 DEF Setup!Refuse, Setup!Conclude, Agree, Named, Concluded

LEMMA SetupStutters ==
    ASSUME UNCHANGED <<confVars, verdict, known>>
    PROVE  UNCHANGED Setup!peeringVars
  <1>1. Agree' = Agree /\ Named' = Named /\ Concluded' = Concluded
    BY ConfFixed DEF Concluded
  <1> QED
    BY <1>1 DEF Setup!peeringVars, Agree, Named, Concluded

\* Every step of the handshake is a step of Peering, or none.
LEMMA StepSimulates ==
    ASSUME IInv, [Next]_vars
    PROVE  [Setup!Next]_(Setup!peeringVars)
  <1>1. ASSUME NEW e \in Ends, SendGreeting(e) \/ SendReady(e) \/ ForeignSend(e) \/ ForeignClose(e)
        PROVE  UNCHANGED Setup!peeringVars
    BY <1>1, SetupStutters DEF SendGreeting, SendReady, ForeignSend, ForeignClose
  <1>2. ASSUME NetworkCut \/ UNCHANGED vars PROVE UNCHANGED Setup!peeringVars
    BY <1>2, SetupStutters DEF NetworkCut, vars
  <1>3. ASSUME NEW e \in Ends, ReadGreeting(e) PROVE [Setup!Next]_(Setup!peeringVars)
    <2>1. pc[e] # "done" /\ UNCHANGED <<confVars, known>>
      BY <1>3 DEF ReadGreeting
    <2>2. CASE UNCHANGED verdict
      BY <2>1, <2>2, SetupStutters
    <2>3. CASE End(e, "failed")
      BY <2>1, <2>3, FailStep DEF Setup!Next
    <2> QED
      BY <1>3, <2>2, <2>3 DEF ReadGreeting
  <1>4. ASSUME NEW e \in Ends, ReadReady(e) PROVE Setup!Next
    <2> DEFINE v == ReadyVerdict(e, Head(wire[Other(e)]))
    <2>1. Head(wire[Other(e)]) \in Frames
      BY <1>4, ReadsTyped DEF IInv, ReadReady
    <2>2. v \in {"joined", "refused", "failed", "panicked"}
      BY <2>1, VerdictTyped
    <2>3. CASE v = "joined"
      BY <1>4, <2>3, JoinStep DEF Setup!Next
    <2>4. CASE v = "refused"
      BY <1>4, <2>4, RefuseStep DEF Setup!Next
    <2>5. CASE v \in {"failed", "panicked"}
      <3>1. pc[e] # "done" /\ End(e, v) /\ UNCHANGED confVars
        BY <1>4 DEF ReadReady
      <3>2. known' = known
        BY <1>4, <2>5 DEF ReadReady, IInv, TypeInv
      <3> QED
        BY <2>5, <3>1, <3>2, FailStep DEF Setup!Next
    <2> QED
      BY <2>2, <2>3, <2>4, <2>5
  <1>5. ASSUME NEW e \in Ends, Broken(e) PROVE Setup!Next
    BY <1>5, FailStep DEF Broken, Setup!Next
  <1>6. ASSUME Timeout PROVE Setup!Next
    BY <1>6, FailStep DEF Timeout, Setup!Next
  <1> QED
    BY <1>1, <1>2, <1>3, <1>4, <1>5, <1>6 DEF Next, Step

\* peer_handshake implements Peering: for any names, versions and types of the two
\* ends, and any frames a foreign peer sends, an end joins only a peer whose type and
\* version go with its own, under the name that peer announced, concludes once, and
\* is never refused by a peer that joined.
THEOREM HandshakeImplementsPeering == Spec => PeeringHolds
  <1>1. Init => Setup!Init
    BY DEF Init, Setup!Init
  <1>2. IInv /\ [Next]_vars => [Setup!Next]_(Setup!peeringVars)
    BY StepSimulates
  <1> QED
    BY <1>1, <1>2, InitInv, NextInv, PTL DEF Spec, PeeringHolds, Setup!Spec

---------------------------------------------------------------------------
(* The listeners of a socket *)

\* What bind is called with, and the endpoints and addresses that come of it.
Texts == UNION {sc.texts : sc \in Scenes}
Listeners == UNION {sc.listeners : sc \in Scenes}
Accepted(t) == FromStr(t).transport # "error" /\ Resolvable(FromStr(t))
BoundByText == UNION {begin_accept(FromStr(t)) : t \in {u \in Texts : Accepted(u)}}
Endpoints == BoundByText \cup {begin_accept_listener(a) : a \in Listeners}
Addresses == {OsAddr(ep) : ep \in BoundByText} \cup Listeners \cup {Free.addr}

AppStates ==
    {"open", "unbinding", "closing", "split", "half", "dropping", "clearing", "shut", "gone"}
SlotType ==
    [state : {"free", "listening", "closing", "ended"}, addr : Addresses, stop : BOOLEAN]

SlotTypeInv ==
    /\ scene \in Scenes
    /\ app \in AppStates
    /\ waiting \in 0 .. MaxSlots
    /\ waiting # 0 => app \in {"unbinding", "closing"}
    /\ slot \in [Slots -> SlotType]
    /\ \A ep \in DOMAIN binds : binds[ep] \in Slots
    /\ live \cup replaced \subseteq Slots

\* Every handle in the map is that of a listener at work, and each of another one.
HandlesInv ==
    /\ \A ep \in DOMAIN binds :
           /\ slot[binds[ep]].state = "listening" /\ ~slot[binds[ep]].stop
           /\ binds[ep] \in live /\ binds[ep] \notin replaced
    /\ \A ep, e \in DOMAIN binds : binds[ep] = binds[e] => ep = e

\* What was bound and not unbound has its handle in the map, unless it was replaced.
LiveInv ==
    /\ \A s \in live \ replaced : \E ep \in DOMAIN binds : binds[ep] = s
    /\ \A s \in live \cup replaced : slot[s].state # "free"

\* A task that still runs has a handle, lost it, or unbind waits for it.
TasksInv ==
    app # "gone" =>
        \A s \in Slots : slot[s].state \in {"listening", "closing"} =>
            s \in live \cup replaced \cup detached \cup {waiting}

\* The endpoint of a listener gives its address.
Unshown(ep) == ep.transport = "ipc" /\ ep.path \in {Unnamed} \cup DOMAIN Lossy
AddressInv ==
    \A ep \in DOMAIN binds :
        ep \in Endpoints /\ (Unshown(ep) \/ OsAddr(ep) = slot[binds[ep]].addr)

ListenInv == SlotTypeInv /\ HandlesInv /\ LiveInv /\ TasksInv /\ AddressInv

\* The state of a slot after a change of one field.
LEMMA SlotChanged ==
    ASSUME NEW r \in SlotType
    PROVE  /\ [r EXCEPT !.stop = TRUE] \in SlotType
           /\ [r EXCEPT !.stop = TRUE].state = r.state
           /\ [r EXCEPT !.stop = TRUE].addr = r.addr
           /\ \A x \in {"closing", "ended"} :
                  /\ [r EXCEPT !.state = x] \in SlotType
                  /\ [r EXCEPT !.state = x].state = x
                  /\ [r EXCEPT !.state = x].addr = r.addr
                  /\ [r EXCEPT !.state = x].stop = r.stop
  BY DEF SlotType

\* Steps of connections and clients change nothing here, and most of what the
\* application does only changes its own state.
LEMMA ListenFrame ==
    ASSUME ListenInv, UNCHANGED <<scene, binds, slot, live, replaced, detached, waiting>>,
           app' \in AppStates, waiting # 0 => app' = app, app' # "gone" => app # "gone"
    PROVE  ListenInv'
  <1>1. SlotTypeInv'
    BY DEF ListenInv, SlotTypeInv
  <1>2. HandlesInv' /\ LiveInv' /\ AddressInv'
    BY DEF ListenInv, HandlesInv, LiveInv, AddressInv
  <1>3. TasksInv'
    BY DEF ListenInv, TasksInv
  <1> QED
    BY <1>1, <1>2, <1>3 DEF ListenInv

LEMMA ConnectionStepListens ==
    ASSUME ListenInv, NEW c \in Clients,
           \/ \E s \in Slots : Accept(s, c) \/ AcceptError(s)
           \/ CallbackStep(c) \/ PeerDisconnected(c) \/ WriterEnds(c)
           \/ ConnectSucceeds(c) \/ ConnectFails(c) \/ ConnectTimesOut(c) \/ ClientLeaves(c)
           \/ \E text \in scene.texts : Connect(c, text)
           \/ UNCHANGED lifeVars
    PROVE  ListenInv'
  <1>1. UNCHANGED <<scene, app, waiting, binds, slot, live, replaced, detached>>
    BY DEF Accept, AcceptError, CallbackStep, Register, SpawnWriter, InsertStream, ReportAccepted,
           HandshakeFails, PeerDisconnected, WriterEnds, ConnectSucceeds, ConnectFails,
           ConnectTimesOut, ClientLeaves, Connect, lifeVars, socketVars, listenVars, history
  <1>2. app \in AppStates
    BY DEF ListenInv, SlotTypeInv
  <1> QED
    BY <1>1, <1>2, ListenFrame

LEMMA AppStateListens ==
    ASSUME ListenInv, Close \/ Split \/ DropHalf \/ ClearPeers \/ ClearStreams
    PROVE  ListenInv'
  <1>1. /\ UNCHANGED <<scene, waiting, binds, slot, live, replaced, detached>>
        /\ app \in {"open", "split", "dropping", "clearing"}
        /\ app' \in AppStates
    BY DEF Close, Split, DropHalf, ClearPeers, ClearStreams, listenVars, history, AppStates
  <1>2. waiting = 0 /\ app # "gone"
    BY <1>1 DEF ListenInv, SlotTypeInv
  <1> QED
    BY <1>1, <1>2, ListenFrame

\* A new listener gets a free slot and a handle; a handle that it takes the place of
\* is dropped, and its listener told to stop.
LEMMA BeginAcceptListens ==
    ASSUME ListenInv, NEW s \in Slots, NEW ep \in Endpoints, NEW addr \in Addresses,
           slot[s].state = "free", app = "open", BeginAccept(s, ep, addr),
           Unshown(ep) \/ OsAddr(ep) = addr
    PROVE  ListenInv'
  <1>1. PICK old : old = IF ep \in DOMAIN binds THEN {binds[ep]} ELSE {}
    OBVIOUS
  <1>2. /\ slot' = [r \in Slots |->
               IF r = s THEN [state |-> "listening", addr |-> addr, stop |-> FALSE]
               ELSE IF r \in old THEN [slot[r] EXCEPT !.stop = TRUE] ELSE slot[r]]
        /\ binds' = [e \in DOMAIN binds \cup {ep} |-> IF e = ep THEN s ELSE binds[e]]
        /\ live' = live \cup {s} /\ replaced' = replaced \cup old
        /\ UNCHANGED <<scene, app, waiting, detached>>
    BY <1>1 DEF BeginAccept
  <1>3. /\ DOMAIN binds' = {ep} \cup DOMAIN binds /\ binds'[ep] = s
        /\ \A e \in DOMAIN binds \ {ep} : binds'[e] = binds[e]
    BY <1>2
  <1>4. /\ slot \in [Slots -> SlotType]
        /\ \A e \in DOMAIN binds : binds[e] \in Slots
        /\ live \subseteq Slots /\ replaced \subseteq Slots
    BY DEF ListenInv, SlotTypeInv
  <1>5. /\ slot'[s].state = "listening" /\ ~slot'[s].stop /\ slot'[s].addr = addr
        /\ \A r \in Slots \ {s} : /\ slot'[r].state = slot[r].state /\ slot'[r].addr = slot[r].addr
                                  /\ r \notin old => slot'[r] = slot[r]
        /\ slot' \in [Slots -> SlotType]
    <2>1. [state |-> "listening", addr |-> addr, stop |-> FALSE] \in SlotType
      BY DEF SlotType
    <2>2. \A r \in Slots : slot[r] \in SlotType
      BY <1>4
    <2>3. \A r \in Slots : /\ [slot[r] EXCEPT !.stop = TRUE] \in SlotType
                           /\ [slot[r] EXCEPT !.stop = TRUE].state = slot[r].state
                           /\ [slot[r] EXCEPT !.stop = TRUE].addr = slot[r].addr
      BY <2>2, SlotChanged
    <2> QED
      BY <1>2, <2>1, <2>2, <2>3
  <1>6. old \subseteq Slots /\ s \notin old /\ s \notin live /\ s \notin replaced
    <2>1. s \notin live /\ s \notin replaced
      BY DEF ListenInv, LiveInv
    <2>2. \A e \in DOMAIN binds : binds[e] # s
      BY <2>1 DEF ListenInv, HandlesInv
    <2> QED
      BY <1>1, <1>4, <2>1, <2>2
  <1>7. \A e \in DOMAIN binds \ {ep} : binds[e] \notin old /\ binds[e] # s
    BY <1>1, <1>6 DEF ListenInv, HandlesInv
  <1>8. SlotTypeInv'
    BY <1>2, <1>3, <1>4, <1>5, <1>6 DEF ListenInv, SlotTypeInv
  <1>9. HandlesInv'
    <2>1. ASSUME NEW e \in DOMAIN binds'
          PROVE  /\ slot'[binds'[e]].state = "listening" /\ ~slot'[binds'[e]].stop
                 /\ binds'[e] \in live' /\ binds'[e] \notin replaced'
      <3>1. CASE e = ep
        BY <1>2, <1>3, <1>5, <1>6, <3>1
      <3>2. CASE e \in DOMAIN binds \ {ep}
        <4>1. /\ binds'[e] = binds[e] /\ binds[e] \in Slots \ {s} /\ binds[e] \notin old
              /\ slot[binds[e]].state = "listening" /\ ~slot[binds[e]].stop
              /\ binds[e] \in live /\ binds[e] \notin replaced
          BY <1>3, <1>4, <1>7, <3>2 DEF ListenInv, HandlesInv
        <4>2. slot'[binds[e]] = slot[binds[e]]
          BY <1>5, <4>1
        <4> QED
          BY <1>2, <4>1, <4>2
      <3> QED
        BY <1>3, <3>1, <3>2
    <2>2. \A e, d \in DOMAIN binds' : binds'[e] = binds'[d] => e = d
      BY <1>3, <1>7 DEF ListenInv, HandlesInv
    <2> QED
      BY <2>1, <2>2 DEF HandlesInv
  <1>10. LiveInv'
    <2>1. ASSUME NEW r \in live' \ replaced' PROVE \E e \in DOMAIN binds' : binds'[e] = r
      <3>1. CASE r = s
        BY <1>3, <3>1
      <3>2. CASE r # s
        <4>1. r \in live \ replaced /\ r \notin old
          BY <1>2, <3>2
        <4>2. PICK e \in DOMAIN binds : binds[e] = r
          BY <4>1 DEF ListenInv, LiveInv
        <4>3. e # ep
          BY <1>1, <4>1, <4>2
        <4> QED
          BY <1>3, <4>2, <4>3
      <3> QED
        BY <3>1, <3>2
    <2>2. ASSUME NEW r \in live' \cup replaced' PROVE slot'[r].state # "free"
      <3>1. CASE r = s
        BY <1>5, <3>1
      <3>2. CASE r # s
        <4>1. r \in live \cup replaced
          <5>1. old \subseteq live
            BY <1>1 DEF ListenInv, HandlesInv
          <5> QED
            BY <1>2, <3>2, <5>1
        <4>2. slot[r].state # "free" /\ r \in Slots
          BY <1>4, <4>1 DEF ListenInv, LiveInv
        <4> QED
          BY <1>5, <3>2, <4>2
      <3> QED
        BY <3>1, <3>2
    <2> QED
      BY <2>1, <2>2 DEF LiveInv
  <1>11. TasksInv'
    <2> SUFFICES ASSUME NEW r \in Slots, slot'[r].state \in {"listening", "closing"}
                 PROVE  r \in live' \cup replaced' \cup detached \cup {waiting}
      BY <1>2 DEF TasksInv
    <2>1. CASE r = s
      BY <1>2, <2>1
    <2>2. CASE r # s
      <3>1. slot[r].state \in {"listening", "closing"}
        BY <1>5, <2>2
      <3>2. r \in live \cup replaced \cup detached \cup {waiting}
        BY <3>1 DEF ListenInv, TasksInv
      <3> QED
        BY <1>2, <3>2
    <2> QED
      BY <2>1, <2>2
  <1>12. AddressInv'
    <2> SUFFICES ASSUME NEW e \in DOMAIN binds'
                 PROVE  e \in Endpoints /\ (Unshown(e) \/ OsAddr(e) = slot'[binds'[e]].addr)
      BY DEF AddressInv
    <2>1. CASE e = ep
      BY <1>3, <1>5, <2>1
    <2>2. CASE e \in DOMAIN binds \ {ep}
      <3>1. e \in Endpoints /\ (Unshown(e) \/ OsAddr(e) = slot[binds[e]].addr)
        BY <2>2 DEF ListenInv, AddressInv
      <3>2. binds'[e] = binds[e] /\ slot'[binds[e]].addr = slot[binds[e]].addr
        BY <1>3, <1>4, <1>5, <1>7, <2>2
      <3> QED
        BY <3>1, <3>2
    <2> QED
      BY <1>3, <2>1, <2>2
  <1> QED
    BY <1>8, <1>9, <1>10, <1>11, <1>12 DEF ListenInv

\* unbind takes the handle out of the map before it waits for the task.
LEMMA StopListenerListens ==
    ASSUME ListenInv, NEW ep \in DOMAIN binds, StopListener(ep), waiting = 0, app # "gone",
           app' \in {"unbinding", "closing"}
    PROVE  ListenInv'
  <1>1. PICK s : s = binds[ep]
    OBVIOUS
  <1>2. /\ slot' = [slot EXCEPT ![s].stop = TRUE]
        /\ binds' = [e \in DOMAIN binds \ {ep} |-> binds[e]]
        /\ waiting' = s
        /\ live' = live \ ({s} \cup replaced)
        /\ UNCHANGED <<scene, replaced, detached>>
    BY <1>1 DEF StopListener
  <1>3. /\ slot \in [Slots -> SlotType] /\ s \in Slots /\ slot[s] \in SlotType
        /\ \A e \in DOMAIN binds : binds[e] \in Slots
        /\ live \subseteq Slots /\ replaced \subseteq Slots
    BY <1>1 DEF ListenInv, SlotTypeInv
  <1>4. /\ slot' \in [Slots -> SlotType]
        /\ \A r \in Slots : slot'[r].state = slot[r].state /\ slot'[r].addr = slot[r].addr
        /\ \A r \in Slots \ {s} : slot'[r] = slot[r]
    <2>1. /\ [slot[s] EXCEPT !.stop = TRUE] \in SlotType
          /\ [slot[s] EXCEPT !.stop = TRUE].state = slot[s].state
          /\ [slot[s] EXCEPT !.stop = TRUE].addr = slot[s].addr
      BY <1>3, SlotChanged
    <2>2. slot' = [slot EXCEPT ![s] = [slot[s] EXCEPT !.stop = TRUE]]
      BY <1>2
    <2> QED
      BY <1>3, <2>1, <2>2
  <1>5. /\ DOMAIN binds' = DOMAIN binds \ {ep}
        /\ \A e \in DOMAIN binds' : binds'[e] = binds[e] /\ binds[e] # s
    <2>1. \A e \in DOMAIN binds \ {ep} : binds[e] # s
      BY <1>1 DEF ListenInv, HandlesInv
    <2> QED
      BY <1>2, <2>1
  <1>6. SlotTypeInv'
    <2>1. s \in 0 .. MaxSlots
      BY <1>3, SlotsAssumption DEF Slots
    <2> QED
      BY <1>2, <1>3, <1>4, <1>5, <2>1 DEF ListenInv, SlotTypeInv, AppStates
  <1>7. HandlesInv'
    <2>1. ASSUME NEW e \in DOMAIN binds'
          PROVE  /\ slot'[binds'[e]].state = "listening" /\ ~slot'[binds'[e]].stop
                 /\ binds'[e] \in live' /\ binds'[e] \notin replaced'
      <3>1. /\ binds'[e] = binds[e] /\ binds[e] \in Slots \ {s}
            /\ slot[binds[e]].state = "listening" /\ ~slot[binds[e]].stop
            /\ binds[e] \in live /\ binds[e] \notin replaced
        BY <1>3, <1>5 DEF ListenInv, HandlesInv
      <3>2. slot'[binds[e]] = slot[binds[e]]
        BY <1>4, <3>1
      <3> QED
        BY <1>2, <3>1, <3>2
    <2>2. \A e, d \in DOMAIN binds' : binds'[e] = binds'[d] => e = d
      BY <1>5 DEF ListenInv, HandlesInv
    <2> QED
      BY <2>1, <2>2 DEF HandlesInv
  <1>8. LiveInv'
    <2>1. ASSUME NEW r \in live' \ replaced' PROVE \E e \in DOMAIN binds' : binds'[e] = r
      <3>1. r \in live \ replaced /\ r # s
        BY <1>2
      <3>2. PICK e \in DOMAIN binds : binds[e] = r
        BY <3>1 DEF ListenInv, LiveInv
      <3> QED
        BY <1>1, <1>5, <3>1, <3>2
    <2>2. ASSUME NEW r \in live' \cup replaced' PROVE slot'[r].state # "free"
      BY <1>2, <1>3, <1>4 DEF ListenInv, LiveInv
    <2> QED
      BY <2>1, <2>2 DEF LiveInv
  <1>9. TasksInv'
    <2> SUFFICES ASSUME NEW r \in Slots, slot'[r].state \in {"listening", "closing"}
                 PROVE  r \in live' \cup replaced \cup detached \cup {s}
      BY <1>2 DEF TasksInv
    <2>1. slot[r].state \in {"listening", "closing"}
      BY <1>4
    <2>2. r \in live \cup replaced \cup detached \cup {0}
      BY <2>1 DEF ListenInv, TasksInv
    <2>3. r # 0
      BY SlotsAssumption DEF Slots
    <2> QED
      BY <1>2, <2>2, <2>3
  <1>10. AddressInv'
    BY <1>3, <1>4, <1>5 DEF ListenInv, AddressInv
  <1> QED
    BY <1>6, <1>7, <1>8, <1>9, <1>10 DEF ListenInv

\* unbind returns when the task has ended, or its future is dropped, or the socket's:
\* then the task runs on without a handle.
LEMMA UnbindEndsListens ==
    ASSUME ListenInv, UnbindReturns \/ CancelUnbind \/ Drop
    PROVE  ListenInv'
  <1>1. /\ UNCHANGED <<scene, binds, slot, live, replaced>>
        /\ waiting' = 0 /\ app' \in AppStates /\ app # "gone" /\ app' # "gone"
        /\ detached \subseteq detached'
        /\ \/ waiting # 0 /\ slot[waiting].state = "ended"
           \/ waiting \in detached'
           \/ waiting = 0
    BY DEF UnbindReturns, CancelUnbind, Drop, TaskJoined, listenVars, history, AppStates
  <1>2. SlotTypeInv'
    BY <1>1, SlotsAssumption DEF ListenInv, SlotTypeInv
  <1>3. HandlesInv' /\ LiveInv' /\ AddressInv'
    BY <1>1 DEF ListenInv, HandlesInv, LiveInv, AddressInv
  <1>4. TasksInv'
    <2> SUFFICES ASSUME NEW r \in Slots, slot[r].state \in {"listening", "closing"}
                 PROVE  r \in live \cup replaced \cup detached' \cup {0}
      BY <1>1 DEF TasksInv
    <2>1. r \in live \cup replaced \cup detached \cup {waiting}
      BY <1>1 DEF ListenInv, TasksInv
    <2> QED
      BY <1>1, <2>1
  <1> QED
    BY <1>2, <1>3, <1>4 DEF ListenInv

\* The socket is gone, and the map with it.
LEMMA DropFieldsListens ==
    ASSUME ListenInv, DropFields
    PROVE  ListenInv'
  <1>1. /\ app = "shut" /\ app' = "gone" /\ binds' = <<>> /\ live' = {}
        /\ UNCHANGED <<scene, waiting, replaced, detached>>
        /\ slot' = [s \in Slots |->
               IF \E ep \in DOMAIN binds : binds[ep] = s
               THEN [slot[s] EXCEPT !.stop = TRUE] ELSE slot[s]]
    BY DEF DropFields
  <1>2. slot \in [Slots -> SlotType] /\ waiting = 0
    BY <1>1 DEF ListenInv, SlotTypeInv
  <1>3. /\ slot' \in [Slots -> SlotType]
        /\ \A r \in Slots : slot'[r].state = slot[r].state
    <2>1. \A r \in Slots : /\ [slot[r] EXCEPT !.stop = TRUE] \in SlotType
                           /\ [slot[r] EXCEPT !.stop = TRUE].state = slot[r].state
      BY <1>2, SlotChanged
    <2> QED
      BY <1>1, <1>2, <2>1
  <1>4. DOMAIN binds' = {}
    BY <1>1
  <1>5. SlotTypeInv'
    BY <1>1, <1>2, <1>3, <1>4 DEF ListenInv, SlotTypeInv, AppStates
  <1>6. HandlesInv' /\ AddressInv' /\ TasksInv'
    BY <1>1, <1>4 DEF HandlesInv, AddressInv, TasksInv
  <1>7. LiveInv'
    BY <1>1, <1>3 DEF ListenInv, LiveInv, SlotTypeInv
  <1> QED
    BY <1>5, <1>6, <1>7 DEF ListenInv

\* An accept task ends only after its stop signal, which no handle in the map has sent.
LEMMA TaskEndsListens ==
    ASSUME ListenInv, NEW s \in Slots, AcceptStops(s) \/ RemoveFile(s)
    PROVE  ListenInv'
  <1>1. /\ UNCHANGED <<scene, app, waiting, binds, live, replaced, detached>>
        /\ \/ slot[s].state = "listening" /\ slot[s].stop
           \/ slot[s].state = "closing"
        /\ \E x \in {"closing", "ended"} : slot' = [slot EXCEPT ![s].state = x]
    BY DEF AcceptStops, RemoveFile, socketVars, history
  <1>2. PICK x \in {"closing", "ended"} : slot' = [slot EXCEPT ![s].state = x]
    BY <1>1
  <1>3. slot \in [Slots -> SlotType] /\ slot[s] \in SlotType
    BY DEF ListenInv, SlotTypeInv
  <1>4. /\ slot' \in [Slots -> SlotType]
        /\ slot'[s].state = x
        /\ \A r \in Slots \ {s} : slot'[r] = slot[r]
    <2>1. [slot[s] EXCEPT !.state = x] \in SlotType /\ [slot[s] EXCEPT !.state = x].state = x
      BY <1>3, SlotChanged
    <2>2. slot' = [slot EXCEPT ![s] = [slot[s] EXCEPT !.state = x]]
      BY <1>2
    <2> QED
      BY <1>3, <2>1, <2>2
  <1>5. \A ep \in DOMAIN binds : binds[ep] \in Slots \ {s}
    BY <1>1 DEF ListenInv, SlotTypeInv, HandlesInv
  <1>6. SlotTypeInv'
    BY <1>1, <1>4 DEF ListenInv, SlotTypeInv
  <1>7. HandlesInv' /\ AddressInv'
    BY <1>1, <1>4, <1>5 DEF ListenInv, HandlesInv, AddressInv
  <1>8. LiveInv'
    <2>1. ASSUME NEW r \in live \cup replaced PROVE slot'[r].state # "free"
      BY <1>4 DEF ListenInv, LiveInv, SlotTypeInv
    <2> QED
      BY <1>1, <2>1 DEF ListenInv, LiveInv
  <1>9. TasksInv'
    BY <1>1, <1>4 DEF ListenInv, TasksInv
  <1> QED
    BY <1>6, <1>7, <1>8, <1>9 DEF ListenInv

---------------------------------------------------------------------------
(* The text of an endpoint *)

\* The text t is p followed by q.
Joins(t, p, q) ==
    /\ t \in Seq(STRING) /\ Len(p) \in Nat /\ Len(q) \in Nat /\ Len(t) = Len(p) + Len(q)
    /\ \A i \in 1 .. Len(p) : t[i] = p[i]
    /\ \A i \in 1 .. Len(q) : t[Len(p) + i] = q[i]

LEMMA Concat ==
    ASSUME NEW p \in Seq(STRING), NEW q \in Seq(STRING), NEW t, t = p \o q
    PROVE  Joins(t, p, q)
  <1>1. /\ t \in Seq(STRING) /\ Len(p) \in Nat /\ Len(q) \in Nat /\ Len(t) = Len(p) + Len(q)
    OBVIOUS
  <1>2. \A i \in 1 .. Len(p) : t[i] = p[i]
    BY <1>1
  <1>3. ASSUME NEW i \in 1 .. Len(q) PROVE t[Len(p) + i] = q[i]
    <2>1. Len(p) + i \in 1 .. Len(p) + Len(q) /\ Len(p) + i > Len(p) /\ (Len(p) + i) - Len(p) = i
      BY <1>1
    <2> QED
      BY <1>1, <2>1
  <1> QED
    BY <1>1, <1>2, <1>3 DEF Joins

\* A part of a text.
LEMMA Part ==
    ASSUME NEW S, NEW t \in Seq(S), NEW x \in Seq(S), NEW m \in Nat,
           m + Len(x) <= Len(t), \A i \in 1 .. Len(x) : t[m + i] = x[i]
    PROVE  SubSeq(t, m + 1, m + Len(x)) = x
  <1>1. PICK u : u = SubSeq(t, m + 1, m + Len(x))
    OBVIOUS
  <1>2. Len(x) \in Nat /\ Len(t) \in Nat
    OBVIOUS
  <1>3. /\ u \in Seq(S) /\ Len(u) = Len(x)
        /\ \A i \in 1 .. Len(x) : u[i] = t[m + i]
    BY <1>1, <1>2
  <1>4. u = x
    BY <1>2, <1>3
  <1> QED
    BY <1>1, <1>4

\* Short texts, and what stands before, after or around a text: it comes off again.
LEMMA Pair ==
    ASSUME NEW S, NEW a \in S, NEW b \in S, NEW p, p = <<a, b>>
    PROVE  p \in Seq(S) /\ Len(p) = 2 /\ p[1] = a /\ p[2] = b
  OBVIOUS

LEMMA Single ==
    ASSUME NEW S, NEW a \in S, NEW p, p = <<a>>
    PROVE  p \in Seq(S) /\ Len(p) = 1 /\ p[1] = a
  OBVIOUS

IsPrefixed(t, a, b, x) ==
    /\ t \in Seq(STRING) /\ Len(t) = Len(x) + 2 /\ t[1] = a /\ t[2] = b
    /\ SubSeq(t, 3, Len(t)) = x

LEMMA Prefixed ==
    ASSUME NEW x \in Seq(STRING), NEW a \in STRING, NEW b \in STRING,
           NEW t, t = <<a, b>> \o x
    PROVE  IsPrefixed(t, a, b, x)
  <1>1. PICK p : p = <<a, b>>
    OBVIOUS
  <1>2. p \in Seq(STRING) /\ Len(p) = 2 /\ p[1] = a /\ p[2] = b
    BY <1>1, Pair, Zenon
  <1>3. Joins(t, p, x)
    <2>1. t = p \o x
      BY <1>1
    <2> QED
      BY <1>2, <2>1, Concat, Zenon
  <1>4. Len(t) = Len(x) + 2 /\ Len(t) = 2 + Len(x) /\ t[1] = a /\ t[2] = b
    BY <1>2, <1>3 DEF Joins
  <1>5. SubSeq(t, 2 + 1, 2 + Len(x)) = x
    <2>1. 2 \in Nat /\ 2 + Len(x) <= Len(t) /\ \A i \in 1 .. Len(x) : t[2 + i] = x[i]
      BY <1>2, <1>3, <1>4 DEF Joins
    <2> QED
      BY <1>3, <2>1, Part, Zenon DEF Joins
  <1> QED
    <2>1. 2 + 1 = 3
      OBVIOUS
    <2> QED
      BY <1>3, <1>4, <1>5, <2>1, Zenon DEF Joins, IsPrefixed

IsSuffixed(t, x, a, b) ==
    /\ t \in Seq(STRING) /\ Len(t) = Len(x) + 2
    /\ t[Len(x) + 1] = a /\ t[Len(x) + 2] = b
    /\ SubSeq(t, 1, Len(x)) = x

LEMMA Suffixed ==
    ASSUME NEW x \in Seq(STRING), NEW a \in STRING, NEW b \in STRING,
           NEW t, t = x \o <<a, b>>
    PROVE  IsSuffixed(t, x, a, b)
  <1>1. PICK p : p = <<a, b>>
    OBVIOUS
  <1>2. p \in Seq(STRING) /\ Len(p) = 2 /\ p[1] = a /\ p[2] = b
    BY <1>1, Pair, Zenon
  <1>3. Joins(t, x, p)
    <2>1. t = x \o p
      BY <1>1
    <2> QED
      BY <1>2, <2>1, Concat, Zenon
  <1>4. Len(t) = Len(x) + 2 /\ t[Len(x) + 1] = a /\ t[Len(x) + 2] = b
    <2>1. Len(t) = Len(x) + 2 /\ 1 \in 1 .. Len(p) /\ 2 \in 1 .. Len(p)
      BY <1>2, <1>3 DEF Joins
    <2> QED
      BY <1>2, <1>3, <2>1, Zenon DEF Joins
  <1>5. SubSeq(t, 0 + 1, 0 + Len(x)) = x
    <2>1. 0 \in Nat /\ 0 + Len(x) <= Len(t) /\ \A i \in 1 .. Len(x) : t[0 + i] = x[i]
      BY <1>2, <1>3, <1>4 DEF Joins
    <2> QED
      BY <1>3, <2>1, Part, Zenon DEF Joins
  <1> QED
    <2>1. 0 + 1 = 1 /\ 0 + Len(x) = Len(x)
      BY <1>3 DEF Joins
    <2> QED
      BY <1>3, <1>4, <1>5, <2>1, Zenon DEF Joins, IsSuffixed

IsEnclosed(t, a, x, b) ==
    /\ t \in Seq(STRING) /\ Len(t) = Len(x) + 2 /\ t[1] = a /\ t[Len(x) + 2] = b
    /\ SubSeq(t, 2, Len(x) + 1) = x

LEMMA Enclosed ==
    ASSUME NEW x \in Seq(STRING), NEW a \in STRING, NEW b \in STRING,
           NEW t, t = <<a>> \o x \o <<b>>
    PROVE  IsEnclosed(t, a, x, b)
  <1>1. PICK p, q, r : p = <<a>> /\ q = <<b>> /\ r = p \o x
    OBVIOUS
  <1>2. /\ p \in Seq(STRING) /\ Len(p) = 1 /\ p[1] = a
        /\ q \in Seq(STRING) /\ Len(q) = 1 /\ q[1] = b
    BY <1>1, Single, Zenon
  <1>3. Joins(r, p, x)
    BY <1>1, <1>2, Concat, Zenon
  <1>4. Joins(t, r, q)
    <2>1. t = r \o q
      BY <1>1
    <2>2. r \in Seq(STRING)
      BY <1>3 DEF Joins
    <2> QED
      BY <1>2, <2>2, <2>1, Concat, Zenon
  <1>5. Len(t) = Len(x) + 2 /\ t[1] = a /\ t[Len(x) + 2] = b
    <2>1. /\ Len(r) = Len(x) + 1 /\ Len(t) = Len(x) + 2 /\ 1 \in 1 .. Len(r) /\ 1 \in 1 .. Len(p)
          /\ 1 \in 1 .. Len(q) /\ Len(r) + 1 = Len(x) + 2
      BY <1>2, <1>3, <1>4 DEF Joins
    <2> QED
      BY <1>2, <1>3, <1>4, <2>1, Zenon DEF Joins
  <1>6. SubSeq(t, 1 + 1, 1 + Len(x)) = x
    <2>1. 1 \in Nat /\ 1 + Len(x) <= Len(t) /\ \A i \in 1 .. Len(x) : t[1 + i] = x[i]
      BY <1>2, <1>3, <1>4, <1>5 DEF Joins
    <2> QED
      BY <1>4, <2>1, Part, Zenon DEF Joins
  <1> QED
    <2>1. 1 + 1 = 2 /\ 1 + Len(x) = Len(x) + 1
      BY <1>3 DEF Joins
    <2> QED
      BY <1>4, <1>5, <1>6, <2>1, Zenon DEF Joins, IsEnclosed

LEMMA MarksAreStrings ==
    /\ "[" \in STRING /\ "]" \in STRING /\ ":" \in STRING
    /\ "tcp" \in STRING /\ "ipc" \in STRING /\ "://" \in STRING
  BY MarksAssumption

LEMMA PortsAreSmall == MaxPort \in Nat
  BY DEF MaxPort

\* The hosts that come of a text or of a socket address.
Hosts ==
    {[kind |-> "v4", addr |-> ParseV4[t]] : t \in DOMAIN ParseV4} \cup
    {[kind |-> "v6", addr |-> ParseV6[t]] : t \in DOMAIN ParseV6} \cup
    {[kind |-> "domain", addr |-> t] : t \in
        {u \in Seq(STRING) : Len(u) >= 1 /\ HostOf(u) = [kind |-> "domain", addr |-> u]}}

\* What Display writes of a host, Host::try_from reads as that host: the brackets of
\* an IPv6 address come off again, and a name is not taken for an address.
HostShown(host) ==
    IF host.kind = "v6" THEN <<"[">> \o HostText(host) \o <<"]">> ELSE HostText(host)

LEMMA HostRoundTrip ==
    ASSUME NEW host \in Hosts
    PROVE  /\ HostShown(host) \in Seq(STRING) /\ Len(HostShown(host)) >= 1
           /\ HostOf(HostShown(host)) = host
  <1>1. ASSUME NEW t \in DOMAIN ParseV4, host = [kind |-> "v4", addr |-> ParseV4[t]]
        PROVE  /\ HostShown(host) \in Seq(STRING) /\ Len(HostShown(host)) >= 1
               /\ HostOf(HostShown(host)) = host
    <2>1. PICK u : u = ShowIp[ParseV4[t]]
      OBVIOUS
    <2>2. u \in DOMAIN ParseV4 /\ ParseV4[u] = ParseV4[t] /\ u \in Seq(STRING) /\ Len(u) >= 1
      BY <2>1, ShowAssumption
    <2>3. HostShown(host) = u
      BY <1>1, <2>1 DEF HostShown, HostText
    <2> QED
      BY <1>1, <2>2, <2>3 DEF HostOf
  <1>2. ASSUME NEW t \in DOMAIN ParseV6, host = [kind |-> "v6", addr |-> ParseV6[t]]
        PROVE  /\ HostShown(host) \in Seq(STRING) /\ Len(HostShown(host)) >= 1
               /\ HostOf(HostShown(host)) = host
    <2>1. PICK u : u = ShowIp[ParseV6[t]]
      OBVIOUS
    <2>2. u \in DOMAIN ParseV6 /\ ParseV6[u] = ParseV6[t] /\ u \in Seq(STRING) /\ Len(u) >= 2
      BY <2>1, ShowAssumption
    <2>3. PICK w : w = <<"[">> \o u \o <<"]">>
      OBVIOUS
    <2>4. HostShown(host) = w
      BY <1>2, <2>1, <2>3 DEF HostShown, HostText
    <2>5. /\ w \in Seq(STRING) /\ Len(w) = Len(u) + 2 /\ w[1] = "[" /\ w[Len(u) + 2] = "]"
          /\ SubSeq(w, 2, Len(u) + 1) = u
      <3>1. IsEnclosed(w, "[", u, "]")
        BY <2>2, <2>3, MarksAreStrings, Enclosed, Zenon
      <3> QED
        BY <3>1 DEF IsEnclosed
    <2>6. Len(u) \in Nat
      BY <2>2
    <2>7. w \notin DOMAIN ParseV4
      BY <2>5, ShowAssumption
    <2>8. InBrackets(w)
      BY <2>2, <2>5, <2>6 DEF InBrackets
    <2>9. Unbracketed(w) = u
      <3>1. Len(w) - 1 = Len(u) + 1
        BY <2>5, <2>6
      <3> QED
        BY <2>5, <2>8, <3>1 DEF Unbracketed
    <2>10. HostOf(w) = host
      BY <1>2, <2>2, <2>7, <2>9 DEF HostOf
    <2> QED
      BY <2>4, <2>5, <2>6, <2>10
  <1>3. ASSUME NEW t \in Seq(STRING), Len(t) >= 1, host = [kind |-> "domain", addr |-> t], HostOf(t) = host
        PROVE  /\ HostShown(host) \in Seq(STRING) /\ Len(HostShown(host)) >= 1
               /\ HostOf(HostShown(host)) = host
    <2>1. HostShown(host) = t
      BY <1>3 DEF HostShown, HostText
    <2> QED
      BY <1>3, <2>1
  <1> QED
    BY <1>1, <1>2, <1>3 DEF Hosts

\* So is an endpoint: the last colon ends the host, and the digits of the port are
\* read as the port.
LEMMA TcpRoundTrip ==
    ASSUME NEW host \in Hosts, NEW port \in DOMAIN ShowPort
    PROVE  FromStr(Display(Tcp(host, port))) = Tcp(host, port)
  <1>1. PICK x, d : x = HostShown(host) /\ d = ShowPort[port]
    OBVIOUS
  <1>2. x \in Seq(STRING) /\ Len(x) >= 1 /\ HostOf(x) = host /\ Len(x) \in Nat
    BY <1>1, HostRoundTrip
  <1>3. d \in STRING /\ d \in DOMAIN Number /\ Number[d] = port /\ port \in 0 .. MaxPort
    BY <1>1, ShowAssumption
  <1>4. PICK y : y = x \o <<":", d>>
    OBVIOUS
  <1>5. /\ y \in Seq(STRING) /\ Len(y) = Len(x) + 2 /\ y[Len(x) + 1] = ":" /\ y[Len(x) + 2] = d
        /\ SubSeq(y, 1, Len(x)) = x
    <2>1. IsSuffixed(y, x, ":", d)
      BY <1>2, <1>3, <1>4, MarksAreStrings, Suffixed, Zenon
    <2> QED
      BY <2>1 DEF IsSuffixed
  <1>6. PICK z : z = <<"tcp", "://">> \o y
    OBVIOUS
  <1>7. /\ z \in Seq(STRING) /\ Len(z) = Len(y) + 2 /\ z[1] = "tcp" /\ z[2] = "://"
        /\ SubSeq(z, 3, Len(z)) = y
    <2>1. IsPrefixed(z, "tcp", "://", y)
      BY <1>5, <1>6, MarksAreStrings, Prefixed, Zenon
    <2> QED
      BY <2>1 DEF IsPrefixed
  <1>8. Display(Tcp(host, port)) = z
    <2>1. /\ Tcp(host, port).transport = "tcp" /\ Tcp(host, port).host = host
          /\ Tcp(host, port).port = port
      BY DEF Tcp
    <2>2. HostPortText(host, port) = y
      BY <1>1, <1>4 DEF HostPortText, HostShown
    <2> QED
      BY <1>6, <2>1, <2>2 DEF Display
  <1>9. HasHostPort(y)
    BY <1>2, <1>3, <1>5 DEF HasHostPort
  <1>10. FromStrTcp(y) = Tcp(host, port)
    <2>1. Len(y) - 2 = Len(x) /\ y[Len(y)] = d
      BY <1>2, <1>5
    <2>2. ~(Number[y[Len(y)]] > MaxPort)
      BY <1>3, <2>1, PortsAreSmall
    <2> QED
      BY <1>2, <1>3, <1>5, <1>9, <2>1, <2>2 DEF FromStrTcp
  <1>11. FromStr(z) = FromStrTcp(y)
    <2>1. Len(z) >= 3
      BY <1>2, <1>5, <1>7
    <2> QED
      BY <1>7, <2>1, WordsAssumption DEF FromStr, Transports
  <1> QED
    BY <1>8, <1>10, <1>11

LEMMA IpcRoundTrip ==
    ASSUME NEW path \in Seq(STRING), path # Unnamed, path \notin DOMAIN Lossy
    PROVE  FromStr(Display(Ipc(path))) = Ipc(path)
  <1>1. PICK z : z = <<"ipc", "://">> \o path
    OBVIOUS
  <1>2. /\ z \in Seq(STRING) /\ Len(z) = Len(path) + 2 /\ z[1] = "ipc" /\ z[2] = "://"
        /\ SubSeq(z, 3, Len(z)) = path
    <2>1. IsPrefixed(z, "ipc", "://", path)
      BY <1>1, MarksAreStrings, Prefixed, Zenon
    <2> QED
      BY <2>1 DEF IsPrefixed
  <1>3. Display(Ipc(path)) = z
    BY <1>1 DEF Display, Ipc, PathText
  <1>4. Len(z) >= 3
    <2>1. Len(path) \in Nat /\ Len(path) # 0
      BY DEF Unnamed
    <2> QED
      BY <1>2, <2>1
  <1>5. FromStr(z) = Ipc(path)
    BY <1>2, <1>4, WordsAssumption DEF FromStr, Transports
  <1> QED
    BY <1>3, <1>5

\* Host::try_from yields a host of one of the three kinds.
LEMMA HostParsed ==
    ASSUME NEW t \in Seq(STRING), Len(t) >= 1
    PROVE  HostOf(t) \in Hosts
  BY DEF HostOf, Hosts

\* An endpoint that was parsed.
LEMMA Parsed ==
    ASSUME NEW t \in Seq(STRING), FromStr(t).transport # "error"
    PROVE  \/ \E host \in Hosts, port \in DOMAIN ShowPort : FromStr(t) = Tcp(host, port)
           \/ \E path \in Seq(STRING) \ {Unnamed} : FromStr(t) = Ipc(path)
  <1>1. PICK y : y = SubSeq(t, 3, Len(t))
    OBVIOUS
  <1>2. ParseError.transport = "error"
    BY DEF ParseError
  <1>3. Len(t) >= 3 /\ Len(t) \in Nat
    BY <1>2 DEF FromStr
  <1>4. y \in Seq(STRING) /\ Len(y) = Len(t) - 2
    BY <1>1, <1>3
  <1>5. \/ t[1] = "tcp" /\ FromStr(t) = FromStrTcp(y)
        \/ FromStr(t) = Ipc(y)
    BY <1>1, <1>2 DEF FromStr
  <1>6. CASE FromStr(t) = FromStrTcp(y)
    <2>1. HasHostPort(y) /\ ~(Number[y[Len(y)]] > MaxPort)
      BY <1>2, <1>6 DEF FromStrTcp
    <2>2. PICK port, x : port = Number[y[Len(y)]] /\ x = SubSeq(y, 1, Len(y) - 2)
      OBVIOUS
    <2>3. Len(y) \in Nat /\ Len(y) >= 3 /\ y[Len(y)] \in DOMAIN Number
      BY <1>4, <2>1 DEF HasHostPort
    <2>4. port \in DOMAIN ShowPort
      BY <2>1, <2>2, <2>3, ShowAssumption, PortsAreSmall
    <2>5. x \in Seq(STRING) /\ Len(x) >= 1
      BY <1>4, <2>2, <2>3
    <2>6. HostOf(x) \in Hosts
      BY <2>5, HostParsed
    <2>7. FromStr(t) = Tcp(HostOf(x), port)
      BY <1>6, <2>1, <2>2 DEF FromStrTcp
    <2> QED
      BY <2>4, <2>6, <2>7
  <1>7. CASE FromStr(t) = Ipc(y)
    <2>1. y # Unnamed
      BY <1>3, <1>4 DEF Unnamed
    <2> QED
      BY <1>4, <1>7, <2>1
  <1> QED
    BY <1>5, <1>6, <1>7

\* What the socket is bound to, and how.
LEMMA BoundEndpoints ==
    ASSUME NEW ep \in Endpoints
    PROVE  \/ \E host \in Hosts, port \in DOMAIN ShowPort : ep = Tcp(host, port)
           \/ \E path \in Seq(STRING) : ep = Ipc(path)
  <1>1. CASE ep \in BoundByText
    <2>1. PICK t \in Texts : Accepted(t) /\ ep \in begin_accept(FromStr(t))
      BY <1>1 DEF BoundByText
    <2>2. t \in Seq(STRING)
      BY ScenesAssumption DEF Texts
    <2>3. PICK p : p = FromStr(t)
      OBVIOUS
    <2>4. \/ \E host \in Hosts, port \in DOMAIN ShowPort : p = Tcp(host, port)
          \/ \E path \in Seq(STRING) \ {Unnamed} : p = Ipc(path)
      BY <2>1, <2>2, <2>3, Parsed DEF Accepted
    <2>5. ASSUME NEW host \in Hosts, NEW port \in DOMAIN ShowPort, p = Tcp(host, port)
          PROVE  \E q \in DOMAIN ShowPort : ep = Tcp(host, q)
      <3>1. ep \in BoundTcp(Tcp(host, port))
        BY <2>1, <2>3, <2>5 DEF begin_accept, Tcp
      <3>2. ep = Tcp(host, port) \/ \E q \in Ephemeral : ep = [Tcp(host, port) EXCEPT !.port = q]
        BY <3>1 DEF BoundTcp
      <3>3. \A q : [Tcp(host, port) EXCEPT !.port = q] = Tcp(host, q)
        BY DEF Tcp
      <3> QED
        BY <3>2, <3>3, PortsAssumption
    <2>6. ASSUME NEW path \in Seq(STRING), p = Ipc(path) PROVE ep = Ipc(path)
      BY <2>1, <2>3, <2>6 DEF begin_accept, BoundIpc, Ipc
    <2> QED
      BY <2>4, <2>5, <2>6
  <1>2. CASE ep \in {begin_accept_listener(a) : a \in Listeners}
    <2>1. PICK a \in Listeners : ep = begin_accept_listener(a)
      BY <1>2
    <2>2. \/ /\ a = <<"tcp", a[2], a[3]>>
             /\ \/ \E t \in DOMAIN ParseV4 : a[2] = ParseV4[t]
                \/ \E t \in DOMAIN ParseV6 : a[2] = ParseV6[t]
             /\ a[3] \in DOMAIN ShowPort
          \/ a = <<"path", a[2], 0>> /\ a[2] \in Seq(STRING) \ {Unnamed}
          \/ a[1] = "abstract"
      BY ListenersAssumption DEF Listeners
    <2>3. CASE a[1] = "tcp"
      <3>1. /\ \/ \E t \in DOMAIN ParseV4 : a[2] = ParseV4[t]
               \/ \E t \in DOMAIN ParseV6 : a[2] = ParseV6[t]
            /\ a[3] \in DOMAIN ShowPort
        <4>1. a # <<"path", a[2], 0>> /\ a[1] # "abstract"
          BY <2>3
        <4> QED
          BY <2>2, <4>1
      <3>2. FromIp(a[2]) \in Hosts
        BY <3>1 DEF FromIp, Hosts
      <3>3. ep = Tcp(FromIp(a[2]), a[3])
        BY <2>1, <2>3 DEF begin_accept_listener, AdoptedTcp, from_tcp_addr
      <3> QED
        BY <3>1, <3>2, <3>3
    <2>4. CASE a[1] # "tcp"
      <3>1. ep = Ipc(IF a[1] = "path" THEN a[2] ELSE Unnamed)
        BY <2>1, <2>4 DEF begin_accept_listener, AdoptedIpc, pathname_from_unix_addr, IsPath
      <3>2. a[1] = "path" => a[2] \in Seq(STRING)
        <4>1. a[1] = "path" => a # <<"tcp", a[2], a[3]>> /\ a[1] # "abstract"
          OBVIOUS
        <4> QED
          BY <2>2, <4>1
      <3>3. Unnamed \in Seq(STRING)
        BY DEF Unnamed
      <3> QED
        BY <3>1, <3>2, <3>3
    <2> QED
      BY <2>3, <2>4
  <1> QED
    BY <1>1, <1>2 DEF Endpoints

\* Display and FromStr agree on every endpoint that bind returns.
LEMMA EndpointRoundTrip ==
    ASSUME NEW ep \in Endpoints, ~Unshown(ep)
    PROVE  FromStr(Display(ep)) = ep
  <1>1. ASSUME NEW host \in Hosts, NEW port \in DOMAIN ShowPort, ep = Tcp(host, port)
        PROVE  FromStr(Display(ep)) = ep
    BY <1>1, TcpRoundTrip
  <1>2. ASSUME NEW path \in Seq(STRING), ep = Ipc(path)
        PROVE  FromStr(Display(ep)) = ep
    <2>1. path # Unnamed /\ path \notin DOMAIN Lossy
      BY <1>2 DEF Unshown, Ipc
    <2> QED
      BY <1>2, <2>1, IpcRoundTrip
  <1> QED
    BY <1>1, <1>2, BoundEndpoints

---------------------------------------------------------------------------
(* bind *)

\* bind to the text of an endpoint: the address is that of the endpoint it returns.
LEMMA BindListens ==
    ASSUME ListenInv, NEW s \in Slots, NEW text \in scene.texts, Bind(s, text)
    PROVE  ListenInv'
  <1>1. /\ app = "open" /\ slot[s].state = "free" /\ Accepted(text)
        /\ \E bound \in begin_accept(FromStr(text)) : BeginAccept(s, bound, OsAddr(bound))
    BY DEF Bind, NextSlot, Accepted
  <1>2. PICK bound \in begin_accept(FromStr(text)) : BeginAccept(s, bound, OsAddr(bound))
    BY <1>1
  <1>3. text \in Texts
    BY DEF ListenInv, SlotTypeInv, Texts
  <1>4. bound \in BoundByText
    BY <1>1, <1>2, <1>3 DEF BoundByText
  <1>5. bound \in Endpoints /\ OsAddr(bound) \in Addresses
    BY <1>4 DEF Endpoints, Addresses
  <1> QED
    BY <1>1, <1>2, <1>5, BeginAcceptListens

\* A listener that is adopted: its address gives the endpoint, and back.
LEMMA BindListenerListens ==
    ASSUME ListenInv, NEW s \in Slots, NEW addr \in scene.listeners, BindListener(s, addr)
    PROVE  ListenInv'
  <1>1. PICK ep : ep = begin_accept_listener(addr)
    OBVIOUS
  <1>2. app = "open" /\ slot[s].state = "free" /\ BeginAccept(s, ep, addr)
    BY <1>1 DEF BindListener, NextSlot
  <1>3. addr \in Listeners
    BY DEF ListenInv, SlotTypeInv, Listeners
  <1>4. ep \in Endpoints /\ addr \in Addresses
    BY <1>1, <1>3 DEF Endpoints, Addresses
  <1>5. Unshown(ep) \/ OsAddr(ep) = addr
    <2>1. \/ addr = <<"tcp", addr[2], addr[3]>>
          \/ addr = <<"path", addr[2], 0>>
          \/ addr[1] = "abstract"
      BY <1>3, ListenersAssumption DEF Listeners
    <2>2. CASE addr = <<"tcp", addr[2], addr[3]>>
      <3>1. addr[1] = "tcp"
        BY <2>2
      <3>2. ep = Tcp(FromIp(addr[2]), addr[3])
        BY <1>1, <3>1 DEF begin_accept_listener, AdoptedTcp, from_tcp_addr
      <3>3. Resolve(FromIp(addr[2])) = addr[2]
        BY DEF Resolve, FromIp
      <3>4. OsAddr(ep) = <<"tcp", Resolve(FromIp(addr[2])), addr[3]>>
        BY <3>2 DEF OsAddr, Tcp
      <3> QED
        BY <2>2, <3>3, <3>4
    <2>3. CASE addr = <<"path", addr[2], 0>>
      <3>1. addr[1] = "path"
        BY <2>3
      <3>2. ep = Ipc(addr[2])
        BY <1>1, <3>1 DEF begin_accept_listener, AdoptedIpc, pathname_from_unix_addr, IsPath
      <3>3. OsAddr(ep) = <<"path", addr[2], 0>>
        BY <3>2 DEF OsAddr, Ipc
      <3> QED
        BY <2>3, <3>3
    <2>4. CASE addr[1] = "abstract"
      <3>1. ep = Ipc(Unnamed)
        BY <1>1, <2>4 DEF begin_accept_listener, AdoptedIpc, pathname_from_unix_addr, IsPath
      <3> QED
        BY <3>1 DEF Unshown, Ipc
    <2> QED
      BY <2>1, <2>2, <2>3, <2>4
  <1> QED
    BY <1>2, <1>4, <1>5, BeginAcceptListens

---------------------------------------------------------------------------
(* The specification of a socket's life *)

LEMMA LifeInitListens == LifeInit => ListenInv
  <1> SUFFICES ASSUME LifeInit PROVE ListenInv
    OBVIOUS
  <1>1. Free \in SlotType
    BY DEF Free, SlotType, Addresses
  <1>2. /\ slot = [s \in Slots |-> Free] /\ DOMAIN binds = {} /\ live = {} /\ replaced = {}
        /\ app = "open" /\ waiting = 0 /\ scene \in Scenes
    BY DEF LifeInit
  <1>3. SlotTypeInv
    BY <1>1, <1>2, SlotsAssumption DEF SlotTypeInv, AppStates
  <1>4. HandlesInv /\ LiveInv /\ AddressInv
    BY <1>2 DEF HandlesInv, LiveInv, AddressInv
  <1>5. TasksInv
    BY <1>2 DEF TasksInv, Free
  <1> QED
    BY <1>3, <1>4, <1>5 DEF ListenInv

LEMMA LifeNextListens == ListenInv /\ [LifeNext]_lifeVars => ListenInv'
  <1> SUFFICES ASSUME ListenInv, [LifeNext]_lifeVars PROVE ListenInv'
    OBVIOUS
  <1>1. CASE AppStep
    <2>1. ASSUME NEW ep \in DOMAIN binds, Unbind(ep) \/ UnbindNext(ep) PROVE ListenInv'
      <3>1. /\ StopListener(ep) /\ app \in {"open", "closing"} /\ app' \in {"unbinding", "closing"}
            /\ app = "open" \/ waiting = 0
        BY <2>1 DEF Unbind, UnbindNext
      <3>2. waiting = 0 /\ app # "gone"
        BY <3>1 DEF ListenInv, SlotTypeInv
      <3> QED
        BY <3>1, <3>2, StopListenerListens
    <2> QED
      BY <1>1, <2>1, BindListens, BindListenerListens, UnbindEndsListens, AppStateListens,
         DropFieldsListens DEF AppStep
  <1>2. ASSUME UNCHANGED <<scene, app, waiting, binds, slot, live, replaced, detached>> PROVE ListenInv'
    BY <1>2, ListenFrame DEF ListenInv, SlotTypeInv
  <1>3. ASSUME NEW s \in Slots, AcceptStops(s) \/ RemoveFile(s) \/ AcceptError(s) PROVE ListenInv'
    BY <1>2, <1>3, TaskEndsListens DEF AcceptError, socketVars, listenVars, history
  <1>4. CASE \/ \E s \in Slots, c \in Clients : Accept(s, c)
             \/ \E c \in Clients : CallbackStep(c) \/ PeerDisconnected(c) \/ WriterEnds(c)
             \/ \E c \in Clients : ConnectSucceeds(c) \/ ConnectFails(c) \/ ConnectTimesOut(c) \/ ClientLeaves(c)
    BY <1>4, ConnectionStepListens
  <1>5. CASE \E c \in scene.clients, text \in scene.texts : Connect(c, text)
    BY <1>2, <1>5 DEF Connect, socketVars, listenVars, history
  <1>6. CASE UNCHANGED lifeVars
    BY <1>2, <1>6 DEF lifeVars, socketVars, listenVars, history
  <1>7. CASE DropBackend
    BY <1>2, <1>7 DEF DropBackend, socketVars, listenVars, history
  <1> QED
    BY <1>1, <1>3, <1>4, <1>5, <1>6, <1>7 DEF LifeNext

\* The inductive invariant: the map of handles, the listeners, and what bind and
\* unbind have done so far agree.
THEOREM ListenInvariant == LifeSpec => []ListenInv
  BY LifeInitListens, LifeNextListens, PTL DEF LifeSpec

\* The listeners of a socket in use are those its calls of bind and unbind leave,
\* whatever is dropped, replaced or under way: for any number of listeners, endpoints
\* and connections.
THEOREM ListenersMatchBinds == LifeSpec => []BindsMatchListeners
  <1>1. ListenInv => BindsMatchListeners
    <2> SUFFICES ASSUME ListenInv, Usable PROVE BindsMatchListeners
      BY DEF BindsMatchListeners
    <2>1. app \in {"open", "split", "half"} /\ waiting = 0 /\ app # "gone"
      BY DEF Usable, ListenInv, SlotTypeInv
    <2>2. ASSUME NEW s \in live \ replaced PROVE slot[s].state = "listening" /\ ~slot[s].stop
      BY DEF ListenInv, LiveInv, HandlesInv
    <2>3. ASSUME NEW s \in Slots, slot[s].state \in {"listening", "closing"}
          PROVE  s \in live \cup replaced \cup detached
      <3>1. s \in live \cup replaced \cup detached \cup {0} /\ s # 0
        BY <2>1, <2>3, SlotsAssumption DEF ListenInv, TasksInv, Slots
      <3> QED
        BY <3>1
    <2> QED
      BY <2>2, <2>3 DEF BindsMatchListeners
  <1> QED
    BY <1>1, ListenInvariant, PTL

\* A client that connects by the text of any endpoint that bind returned asks for the
\* address of the listener behind it: for all addresses, names, ports and paths, if
\* the standard library parses what it shows.
THEOREM ShownEndpointsReach == LifeSpec => []DisplayReaches
  <1>1. ListenInv => DisplayReaches
    <2> SUFFICES ASSUME ListenInv, NEW ep \in DOMAIN binds, ~Unshown(ep)
                 PROVE  /\ FromStr(Display(ep)) = ep
                        /\ OsAddr(FromStr(Display(ep))) = slot[binds[ep]].addr
      BY DEF DisplayReaches, Unshown
    <2>1. ep \in Endpoints /\ OsAddr(ep) = slot[binds[ep]].addr
      BY DEF ListenInv, AddressInv
    <2>2. FromStr(Display(ep)) = ep
      BY <2>1, EndpointRoundTrip
    <2> QED
      BY <2>1, <2>2
  <1> QED
    BY <1>1, ListenInvariant, PTL
=============================================================================
