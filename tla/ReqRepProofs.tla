----------------------------- MODULE ReqRepProofs ----------------------------
(***************************************************************************)
(* Proofs about ReqRep for any clients, servers, connections and bounds:   *)
(* no request is answered twice, replies go to the client that asked, a    *)
(* REQ socket gets the reply to its last request, and a request it waits   *)
(* for is never lost without a trace.                                      *)
(***************************************************************************)
EXTENDS ReqRep, TLAPS

-----------------------------------------------------------------------------
(* What a queue of messages holds.  A message is known by its last frame.  *)

Elems(q) == {q[i] : i \in 1..Len(q)}
Tag(m) == m[Len(m)]
In(q, r) == \E m \in Elems(q) : Tag(m) = r
Once(q) == \A i \in 1..Len(q), j \in 1..Len(q) : Tag(q[i]) = Tag(q[j]) => i = j

\* A message is in the queue when one of its members has its tag.
LEMMA InElems ==
  ASSUME NEW q, NEW r
  PROVE  In(q, r) <=> \E m \in Elems(q) : Tag(m) = r
  BY DEF In

\* The empty queue holds nothing.
LEMMA EmptyFacts ==
  /\ Elems(<<>>) = {} /\ Once(<<>>)
  /\ \A r : ~In(<<>>, r)
  BY DEF Elems, Once, In

LEMMA ElemsType ==
  ASSUME NEW S, NEW q \in Seq(S)
  PROVE  Elems(q) \subseteq S
  BY DEF Elems

\* Appending adds one message.
LEMMA ElemsAppend ==
  ASSUME NEW S, NEW q \in Seq(S), NEW m \in S
  PROVE  Elems(Append(q, m)) = Elems(q) \cup {m}
  <1>1. Len(Append(q,m)) = Len(q) + 1 /\ Len(q) \in Nat
    OBVIOUS
  <1>2. \A i \in 1..Len(q) : Append(q,m)[i] = q[i]
    OBVIOUS
  <1>3. Append(q,m)[Len(q)+1] = m
    OBVIOUS
  <1> QED BY <1>1, <1>2, <1>3 DEF Elems

LEMMA AppendFacts ==
  ASSUME NEW S, NEW q \in Seq(S), NEW m \in S
  PROVE  /\ Append(q, m) \in Seq(S)
         /\ Elems(Append(q, m)) = Elems(q) \cup {m}
         /\ \A r : In(Append(q, m), r) <=> In(q, r) \/ Tag(m) = r
         /\ Once(q) /\ ~In(q, Tag(m)) => Once(Append(q, m))
  <1>1. Elems(Append(q, m)) = Elems(q) \cup {m}
    BY ElemsAppend
  <1>2. ASSUME Once(q), ~In(q, Tag(m)) PROVE Once(Append(q, m))
    <2>1. Len(Append(q,m)) = Len(q) + 1 /\ Len(q) \in Nat
      OBVIOUS
    <2>2. \A i \in 1..Len(q) : Append(q,m)[i] = q[i]
      OBVIOUS
    <2>3. Append(q,m)[Len(q)+1] = m
      OBVIOUS
    <2>4. \A i \in 1..Len(q) : Tag(q[i]) # Tag(m)
      BY <1>2 DEF In, Elems
    <2> QED BY <1>2, <2>1, <2>2, <2>3, <2>4 DEF Once
  <1> QED BY <1>1, <1>2 DEF In

\* Concatenating puts two queues together.
LEMMA ElemsConcat ==
  ASSUME NEW S, NEW q \in Seq(S), NEW p \in Seq(S)
  PROVE  Elems(q \o p) = Elems(q) \cup Elems(p)
  <1>1. Len(q \o p) = Len(q) + Len(p) /\ Len(q) \in Nat /\ Len(p) \in Nat
    OBVIOUS
  <1>2. \A i \in 1..Len(q) : (q \o p)[i] = q[i]
    OBVIOUS
  <1>3. \A i \in 1..Len(p) : (q \o p)[Len(q)+i] = p[i]
    OBVIOUS
  <1>4. ASSUME NEW i \in 1..Len(q \o p) PROVE (q \o p)[i] \in Elems(q) \cup Elems(p)
    <2>1. CASE i <= Len(q)
      BY <2>1, <1>1, <1>2 DEF Elems
    <2>2. CASE i > Len(q)
      <3>1. i - Len(q) \in 1..Len(p) /\ i = Len(q) + (i - Len(q))
        BY <2>2, <1>1
      <3>2. (q \o p)[i] = p[i - Len(q)]
        BY <1>3, <3>1
      <3> QED BY <3>1, <3>2 DEF Elems
    <2> QED BY <2>1, <2>2, <1>1
  <1>5. ASSUME NEW i \in 1..Len(q) PROVE q[i] \in Elems(q \o p)
    <2>1. i \in 1..Len(q \o p)
      BY <1>1
    <2> QED BY <1>2, <2>1 DEF Elems
  <1>6. ASSUME NEW i \in 1..Len(p) PROVE p[i] \in Elems(q \o p)
    <2>1. Len(q) + i \in 1..Len(q \o p)
      BY <1>1
    <2> QED BY <1>3, <2>1 DEF Elems
  <1>7. Elems(q \o p) \subseteq Elems(q) \cup Elems(p)
    <2>1. \A x \in Elems(q \o p) : \E i \in 1..Len(q \o p) : x = (q \o p)[i]
      BY DEF Elems
    <2> QED BY <2>1, <1>4
  <1>8. Elems(q) \subseteq Elems(q \o p)
    <2>1. \A x \in Elems(q) : \E i \in 1..Len(q) : x = q[i]
      BY DEF Elems
    <2> QED BY <2>1, <1>5
  <1>9. Elems(p) \subseteq Elems(q \o p)
    <2>1. \A x \in Elems(p) : \E i \in 1..Len(p) : x = p[i]
      BY DEF Elems
    <2> QED BY <2>1, <1>6
  <1> QED BY <1>7, <1>8, <1>9

LEMMA ConcatFacts ==
  ASSUME NEW S, NEW q \in Seq(S), NEW p \in Seq(S)
  PROVE  /\ q \o p \in Seq(S)
         /\ Elems(q \o p) = Elems(q) \cup Elems(p)
         /\ \A r : In(q \o p, r) <=> In(q, r) \/ In(p, r)
         /\ Once(q) /\ Once(p) /\ (\A r : ~(In(q, r) /\ In(p, r))) => Once(q \o p)
  <1>1. Elems(q \o p) = Elems(q) \cup Elems(p)
    BY ElemsConcat
  <1>2. ASSUME Once(q), Once(p), \A r : ~(In(q, r) /\ In(p, r)) PROVE Once(q \o p)
    <2>1. Len(q \o p) = Len(q) + Len(p) /\ Len(q) \in Nat /\ Len(p) \in Nat
      OBVIOUS
    <2>2. \A i \in 1..Len(q) : (q \o p)[i] = q[i]
      OBVIOUS
    <2>3. \A i \in 1..Len(p) : (q \o p)[Len(q) + i] = p[i]
      OBVIOUS
    <2>4. \A i \in 1..Len(q), j \in 1..Len(p) : Tag(q[i]) # Tag(p[j])
      BY <1>2 DEF In, Elems
    <2>5. SUFFICES ASSUME NEW i \in 1..Len(q \o p), NEW j \in 1..Len(q \o p),
                          Tag((q \o p)[i]) = Tag((q \o p)[j])
                   PROVE  i = j
      BY DEF Once
    <2>6. CASE i <= Len(q) /\ j <= Len(q)
      BY <2>1, <2>2, <2>5, <2>6, <1>2 DEF Once
    <2>7. ASSUME NEW x \in 1..Len(q \o p), x > Len(q)
          PROVE  x - Len(q) \in 1..Len(p) /\ (q \o p)[x] = p[x - Len(q)]
      <3>1. x - Len(q) \in 1..Len(p) /\ x = Len(q) + (x - Len(q))
        BY <2>7, <2>1
      <3> QED BY <3>1, <2>3
    <2>8. CASE i <= Len(q) /\ j > Len(q)
      <3>1. i \in 1..Len(q)
        BY <2>1, <2>8
      <3> QED BY <3>1, <2>8, <2>2, <2>7, <2>4, <2>5
    <2>9. CASE i > Len(q) /\ j <= Len(q)
      <3>1. j \in 1..Len(q)
        BY <2>1, <2>9
      <3> QED BY <3>1, <2>9, <2>2, <2>7, <2>4, <2>5
    <2>10. CASE i > Len(q) /\ j > Len(q)
      <3>1. i - Len(q) = j - Len(q)
        BY <2>10, <2>7, <2>5, <1>2 DEF Once
      <3> QED BY <3>1, <2>1
    <2> QED BY <2>1, <2>6, <2>8, <2>9, <2>10
  <1> QED BY <1>1, <1>2 DEF In

\* Taking the first message leaves the others.
LEMMA TailFacts ==
  ASSUME NEW S, NEW q \in Seq(S), q # <<>>
  PROVE  /\ Tail(q) \in Seq(S) /\ Head(q) \in S
         /\ Head(q) \in Elems(q) /\ Elems(Tail(q)) \subseteq Elems(q)
         /\ \A r : In(q, r) <=> In(Tail(q), r) \/ Tag(Head(q)) = r
         /\ Once(q) => Once(Tail(q)) /\ ~In(Tail(q), Tag(Head(q)))
  <1>1. Len(q) \in Nat /\ Len(q) >= 1 /\ Len(Tail(q)) = Len(q) - 1 /\ Head(q) = q[1]
        /\ Tail(q) \in Seq(S) /\ Head(q) \in S
    OBVIOUS
  <1>2. \A i \in 1..Len(Tail(q)) : Tail(q)[i] = q[i+1] /\ i + 1 \in 1..Len(q) /\ i + 1 # 1
    BY <1>1
  <1>3. Head(q) \in Elems(q)
    BY <1>1 DEF Elems
  <1>4. Elems(Tail(q)) \subseteq Elems(q)
    BY <1>2 DEF Elems
  <1>5. ASSUME Once(q) PROVE Once(Tail(q))
    BY <1>1, <1>2, <1>5 DEF Once
  <1>6. ASSUME Once(q) PROVE ~In(Tail(q), Tag(Head(q)))
    <2> SUFFICES ASSUME NEW m \in Elems(Tail(q)), Tag(m) = Tag(Head(q)) PROVE FALSE
      BY DEF In
    <2>1. PICK i \in 1..Len(Tail(q)) : m = Tail(q)[i]
      BY DEF Elems
    <2>2. m = q[i+1] /\ i + 1 \in 1..Len(q) /\ i + 1 # 1 /\ 1 \in 1..Len(q)
      BY <2>1, <1>1, <1>2
    <2> QED BY <2>2, <1>6, <1>1 DEF Once
  <1>7. Elems(q) \subseteq Elems(Tail(q)) \cup {Head(q)}
    <2>1. SUFFICES ASSUME NEW i \in 1..Len(q), i # 1 PROVE q[i] \in Elems(Tail(q))
      BY <1>1 DEF Elems
    <2>2. i - 1 \in 1..Len(Tail(q)) /\ (i - 1) + 1 = i
      BY <2>1, <1>1
    <2>3. Tail(q)[i - 1] = q[i]
      BY <2>2, <1>2
    <2> QED BY <2>2, <2>3 DEF Elems
  <1> QED BY <1>1, <1>3, <1>4, <1>5, <1>6, <1>7 DEF In

\* A prefix has some of the messages.
LEMMA PrefixFacts ==
  ASSUME NEW S, NEW q \in Seq(S), NEW n \in 0..Len(q)
  PROVE  /\ SubSeq(q, 1, n) \in Seq(S)
         /\ Elems(SubSeq(q, 1, n)) \subseteq Elems(q)
         /\ \A r : In(SubSeq(q, 1, n), r) => In(q, r)
         /\ Once(q) => Once(SubSeq(q, 1, n))
  <1>1. Len(q) \in Nat /\ Len(SubSeq(q, 1, n)) = n /\ SubSeq(q, 1, n) \in Seq(S)
    OBVIOUS
  <1>2. \A i \in 1..n : SubSeq(q, 1, n)[i] = q[i] /\ i \in 1..Len(q)
    BY <1>1
  <1>3. Elems(SubSeq(q, 1, n)) \subseteq Elems(q)
    BY <1>1, <1>2 DEF Elems
  <1>4. ASSUME Once(q) PROVE Once(SubSeq(q, 1, n))
    BY <1>1, <1>2, <1>4 DEF Once
  <1> QED BY <1>1, <1>3, <1>4 DEF In

-----------------------------------------------------------------------------
(* The inductive invariant *)

\* The maps of both sockets hold connections that their peer_connected put there.
ReqEntriesInv ==
  \A c \in Clients, k \in Keys : peers[c][k] # NoLink =>
    /\ link[peers[c][k]].client = c /\ link[peers[c][k]].skey = k
    /\ connected[peers[c][k]].client
RepEntriesInv ==
  \A s \in Servers, k \in Keys : rep_peers[s][k] # NoLink =>
    /\ link[rep_peers[s][k]].server = s /\ link[rep_peers[s][k]].ckey = k
    /\ connected[rep_peers[s][k]].server # "new"
StreamsInv ==
  \A s \in Servers, k \in Keys : streams[s][k] # NoLink =>
    /\ link[streams[s][k]].server = s /\ link[streams[s][k]].ckey = k
    /\ connected[streams[s][k]].server = "inserted"

\* The peers that calls and requests refer to have an entry.
RotationInv == \A c \in Clients : \A k \in Elems(round_robin[c]) : peers[c][k] # NoLink
ReqCallInv ==
  \A c \in Clients :
    /\ current_request[c] # NoKey => peers[c][current_request[c]] # NoLink
    /\ req[c].at = "idle" => req[c].key = NoKey
    /\ req[c].at # "idle" => req[c].key \in Keys /\ peers[c][req[c].key] # NoLink
    /\ req[c].at = "recv" => current_request[c] = req[c].key
    /\ req[c].at = "flush" => current_request[c] = NoKey
RepCallInv ==
  \A s \in Servers :
    /\ rep[s].at = "flush" => rep[s].key \in Keys /\ rep_peers[s][rep[s].key] # NoLink
    /\ rep_request[s] # NoKey =>
         \E l \in Links : /\ link[l].server = s /\ link[l].ckey = rep_request[s]
                          /\ connected[l].server # "new"

\* Connections carry requests of their client and answers to them.
Asks(c) == {Request(c, n) : n \in 1..sent[c]}
Delimiter == << <<>> >>
Reply(c, n) == Delimiter \o Asked(c, n)
Replies(c) == {Reply(c, n) : n \in 1..sent[c]}
AsksInv == \A l \in Links : Elems(up[l]) \cup Elems(up_buf[l]) \subseteq Asks(link[l].client)
RepliesInv == \A l \in Links : Elems(down[l]) \cup Elems(down_buf[l]) \subseteq Replies(link[l].client)
ServingInv ==
  \A s \in Servers : rep_request[s] # NoKey =>
    \E c \in Client(s, rep_request[s]) : \E n \in 1..sent[c] :
      data[s] = Asked(c, n) /\ envelope[s] = Delimiter
FormatInv == AsksInv /\ RepliesInv /\ ServingInv

\* A request is in one place, until it is answered; then its answer is.
Asking(l, r) == In(up[l], r) \/ In(up_buf[l], r)
Answering(l, r) == In(down[l], r) \/ In(down_buf[l], r)
Served(s, r) == rep_request[s] # NoKey /\ Tag(data[s]) = r
QueuesInv ==
  /\ \A l \in Links : Once(up[l]) /\ Once(up_buf[l]) /\ Once(down[l]) /\ Once(down_buf[l])
  /\ \A l \in Links, r \in Requests : /\ ~(In(up[l], r) /\ In(up_buf[l], r))
                                      /\ ~(In(down[l], r) /\ In(down_buf[l], r))
PlaceInv ==
  /\ \A l \in Links, m \in Links, r \in Requests : Asking(l, r) /\ Asking(m, r) => l = m
  /\ \A s \in Servers, t \in Servers, r \in Requests : Served(s, r) /\ Served(t, r) => s = t
  /\ \A s \in Servers, l \in Links, r \in Requests : Served(s, r) => ~Asking(l, r)
AnswersInv ==
  /\ AnsweredOnce
  /\ \A l \in Links, r \in Requests : Asking(l, r) => answers[r] = 0
  /\ \A s \in Servers, r \in Requests : Served(s, r) => answers[r] = 0
  /\ \A l \in Links, r \in Requests : Answering(l, r) => answers[r] = 1
  /\ \A c \in Clients, n \in 1..MaxRequests : n > sent[c] => answers[<<c, n>>] = 0

\* Unless requests of its client were mixed, a server knows a connection as the only
\* one of its identity, and what moves on a connection the client reads from is its
\* last request or the answer to it, for which it waits.
OnlyInv ==
  \A l \in Links, m \in Links :
    /\ link[l].server = link[m].server /\ link[l].ckey = link[m].ckey
    /\ connected[l].server # "new" /\ connected[m].server # "new"
    /\ link[l].client \notin mixed
    => l = m
ServedTo(l, r) == /\ rep_peers[link[l].server][link[l].ckey] = l
                  /\ rep_request[link[l].server] = link[l].ckey
                  /\ Tag(data[link[l].server]) = r
FreshInv ==
  \A l \in Links : ~connected[l].client =>
    /\ up[l] = <<>> /\ up_buf[l] = <<>>
    /\ link[l].client \notin mixed =>
         /\ down[l] = <<>> /\ down_buf[l] = <<>>
         /\ ~(/\ rep_peers[link[l].server][link[l].ckey] = l
              /\ rep_request[link[l].server] = link[l].ckey)
Current(l) == peers[link[l].client][link[l].skey] = l
Awaited(l, r) == /\ r = <<link[l].client, sent[link[l].client]>>
                 /\ current_request[link[l].client] = link[l].skey
Flushing(l, r) == /\ r = <<link[l].client, sent[link[l].client]>>
                  /\ req[link[l].client] = [at |-> "flush", key |-> link[l].skey]
WireInv ==
  \A l \in Links : link[l].client \in Reqs \ mixed /\ Current(l) =>
    \A r \in Requests :
      /\ In(down[l], r) => Awaited(l, r)
      /\ broken[l] = "no" /\ (In(up[l], r) \/ In(down_buf[l], r) \/ ServedTo(l, r)) => Awaited(l, r)
      /\ broken[l] = "no" /\ In(up_buf[l], r) => Flushing(l, r)

\* Where the request is that a REQ socket waits for.
RoutedInv ==
  \A l \in Links : link[l].client \notin mixed /\ broken[l] = "no" =>
    /\ connected[l].server # "new" => rep_peers[link[l].server][link[l].ckey] = l
    /\ connected[l].server = "inserted" => streams[link[l].server][link[l].ckey] = l
FlushInv ==
  \A c \in Reqs : req[c].at = "flush" => In(up_buf[peers[c][req[c].key]], <<c, sent[c]>>)
Traced(c, l) ==
  LET s == link[l].server
      k == link[l].ckey
      r == <<c, sent[c]>>
  IN \/ broken[l] # "no"
     \/ In(up[l], r)
     \/ In(down[l], r)
     \/ /\ connected[l].server = "inserted"
        /\ \/ rep_request[s] = k /\ Tag(data[s]) = r
           \/ rep[s] = [at |-> "flush", key |-> k] /\ In(down_buf[l], r)
TraceInv ==
  \A c \in Reqs \ (mixed \cup stuck) :
    current_request[c] # NoKey => Traced(c, peers[c][current_request[c]])

IInv ==
  /\ TypeOK /\ ReqEntriesInv /\ RepEntriesInv /\ StreamsInv
  /\ RotationInv /\ ReqCallInv /\ RepCallInv
  /\ FormatInv /\ QueuesInv /\ PlaceInv /\ AnswersInv
  /\ OnlyInv /\ FreshInv /\ WireInv /\ ReplyMatchesUnlessMixed
  /\ RoutedInv /\ FlushInv /\ TraceInv
-----------------------------------------------------------------------------
(* Messages *)

\* The messages there are, of one to three frames.
LEMMA OneFrame ==
  ASSUME NEW S, NEW q \in Seq(S), NEW i \in 1..Len(q)
  PROVE  SubSeq(q, i, i) = <<q[i]>>
  <1> DEFINE l == SubSeq(q, i, i)
  <1>1. l \in Seq(S) /\ Len(l) = 1 /\ l[1] = q[i]
    OBVIOUS
  <1> HIDE DEF l
  <1>2. l = <<q[i]>>
    BY <1>1
  <1> QED BY <1>2 DEF l

LEMMA TupleConcat ==
  ASSUME NEW S, NEW a \in S, NEW b \in S
  PROVE  /\ <<a>> \o <<b>> = <<a, b>> /\ <<a>> \o <<a, b>> = <<a, a, b>>
         /\ <<b>> \in Seq(S) /\ Tag(<<b>>) = b
  <1>1. <<a>> \o <<b>> = <<a, b>>
    <2> DEFINE l == <<a>> \o <<b>>
    <2>1. l \in Seq(S) /\ Len(l) = 2 /\ l[1] = a /\ l[2] = b
      OBVIOUS
    <2> HIDE DEF l
    <2>2. l = <<a, b>>
      BY <2>1
    <2> QED BY <2>2 DEF l
  <1>2. <<a>> \o <<a, b>> = <<a, a, b>>
    <2> DEFINE l == <<a>> \o <<a, b>>
    <2>1. l \in Seq(S) /\ Len(l) = 3 /\ l[1] = a /\ l[2] = a /\ l[3] = b
      OBVIOUS
    <2> HIDE DEF l
    <2>2. l = <<a, a, b>>
      BY <2>1
    <2> QED BY <2>2 DEF l
  <1>3. <<b>> \in Seq(S) /\ Tag(<<b>>) = b
    BY DEF Tag
  <1> QED BY <1>1, <1>2, <1>3, Zenon

LEMMA Tuples ==
  ASSUME NEW S, NEW a \in S, NEW b \in S
  PROVE  /\ <<b>> \in Seq(S) /\ <<a, b>> \in Seq(S) /\ <<a, a, b>> \in Seq(S)
         /\ Len(<<b>>) = 1 /\ Len(<<a, b>>) = 2 /\ Len(<<a, a, b>>) = 3
         /\ Tag(<<b>>) = b /\ Tag(<<a, b>>) = b /\ Tag(<<a, a, b>>) = b
         /\ <<a, b>>[1] = a /\ <<a, a, b>>[1] = a
         /\ <<a>> \o <<b>> = <<a, b>> /\ <<a>> \o <<a, b>> = <<a, a, b>>
         /\ SubSeq(<<a, b>>, 1, 1) = <<a>> /\ SubSeq(<<a, a, b>>, 1, 1) = <<a>>
         /\ SubSeq(<<a, b>>, 2, 2) = <<b>> /\ SubSeq(<<a, a, b>>, 2, 3) = <<a, b>>
         /\ Head(<<a, b>>) = a /\ Head(<<a, a, b>>) = a
         /\ Tail(<<a, b>>) = <<b>> /\ Tail(<<a, a, b>>) = <<a, b>>
  <1>1. <<b>> \in Seq(S) /\ <<a, b>> \in Seq(S) /\ <<a, a, b>> \in Seq(S)
    OBVIOUS
  <1>2. Len(<<b>>) = 1 /\ Len(<<a, b>>) = 2 /\ Len(<<a, a, b>>) = 3
    OBVIOUS
  <1>3. Tag(<<b>>) = b /\ Tag(<<a, b>>) = b /\ Tag(<<a, a, b>>) = b
    BY <1>2 DEF Tag
  <1>4. <<a, b>>[1] = a /\ <<a, a, b>>[1] = a
    OBVIOUS
  <1>14. <<a, b>>[2] = b
    OBVIOUS
  <1>5. <<a>> \o <<b>> = <<a, b>>
    BY TupleConcat
  <1>6. <<a>> \o <<a, b>> = <<a, a, b>>
    BY TupleConcat
  <1>7. SubSeq(<<a, b>>, 1, 1) = <<a>>
    <2> DEFINE q == <<a, b>>
    <2>1. q \in Seq(S) /\ 1 \in 1..Len(q) /\ q[1] = a
      BY <1>1, <1>2, <1>4, <1>14
    <2> HIDE DEF q
    <2>2. SubSeq(q, 1, 1) = <<a>>
      BY <2>1, OneFrame
    <2> QED BY <2>2 DEF q
  <1>8. SubSeq(<<a, a, b>>, 1, 1) = <<a>>
    <2> DEFINE q == <<a, a, b>>
    <2>1. q \in Seq(S) /\ 1 \in 1..Len(q) /\ q[1] = a
      BY <1>1, <1>2, <1>4, <1>14
    <2> HIDE DEF q
    <2>2. SubSeq(q, 1, 1) = <<a>>
      BY <2>1, OneFrame
    <2> QED BY <2>2 DEF q
  <1>9. SubSeq(<<a, b>>, 2, 2) = <<b>>
    <2> DEFINE q == <<a, b>>
    <2>1. q \in Seq(S) /\ 2 \in 1..Len(q) /\ q[2] = b
      BY <1>1, <1>2, <1>4, <1>14
    <2> HIDE DEF q
    <2>2. SubSeq(q, 2, 2) = <<b>>
      BY <2>1, OneFrame
    <2> QED BY <2>2 DEF q
  <1>10. SubSeq(<<a, a, b>>, 2, 3) = <<a, b>>
    <2> DEFINE l == SubSeq(<<a, a, b>>, 2, 3)
    <2>1. l \in Seq(S) /\ Len(l) = 2 /\ l[1] = a /\ l[2] = b
      OBVIOUS
    <2> HIDE DEF l
    <2>2. l = <<a, b>>
      BY <2>1
    <2> QED BY <2>2 DEF l
  <1>11. Head(<<a, b>>) = a /\ Head(<<a, a, b>>) = a
    OBVIOUS
  <1>12. Tail(<<a, b>>) = <<b>>
    OBVIOUS
  <1>13. Tail(<<a, a, b>>) = <<a, b>>
    OBVIOUS
  <1> QED BY <1>1, <1>2, <1>3, <1>4, <1>5, <1>6, <1>7, <1>8, <1>9, <1>10, <1>11, <1>12, <1>13

LEMMA RequestTuples ==
  ASSUME NEW c \in Clients, NEW n \in 1..MaxRequests
  PROVE  /\ <<c, n>> \in Frames /\ <<>> \in Frames
         /\ Payload(c, n) = << <<c, n>> >> \/ Payload(c, n) = << <<>>, <<c, n>> >>
         /\ \/ Request(c, n) = << <<c, n>> >> /\ c \in Dealers
            \/ Request(c, n) = << <<>>, <<c, n>> >> /\ Asked(c, n) = << <<c, n>> >>
            \/ Request(c, n) = << <<>>, <<>>, <<c, n>> >> /\ Asked(c, n) = << <<>>, <<c, n>> >>
         /\ Asked(c, n) = << <<c, n>> >> \/ Asked(c, n) = << <<>>, <<c, n>> >>
  <1>1. <<c, n>> \in Frames /\ <<>> \in Frames
    BY DEF Frames
  <1>2. Payload(c, n) = << <<c, n>> >> \/ Payload(c, n) = << <<>>, <<c, n>> >>
    BY DEF Payload
  <1> DEFINE e == <<>>
             r == <<c, n>>
  <1> HIDE DEF e, r
  <1>3. <<e>> \o <<r>> = <<e, r>> /\ <<e>> \o <<e, r>> = <<e, e, r>>
    <2>1. e \in Frames /\ r \in Frames
      BY <1>1 DEF e, r
    <2>2. <<e>> \o <<r>> = <<e, r>>
      BY <2>1, TupleConcat
    <2>3. <<e>> \o <<e, r>> = <<e, e, r>>
      BY <2>1, TupleConcat
    <2> QED BY <2>2, <2>3
  <1>4. << <<>> >> \o << <<c, n>> >> = << <<>>, <<c, n>> >>
        /\ << <<>> >> \o << <<>>, <<c, n>> >> = << <<>>, <<>>, <<c, n>> >>
    BY <1>3, Zenon DEF e, r
  <1>5. \/ Request(c, n) = << <<c, n>> >> /\ c \in Dealers
        \/ Request(c, n) = << <<>>, <<c, n>> >> /\ Asked(c, n) = << <<c, n>> >>
        \/ Request(c, n) = << <<>>, <<>>, <<c, n>> >> /\ Asked(c, n) = << <<>>, <<c, n>> >>
    <2>1. CASE c \in Dealers
      BY <2>1, <1>2, Zenon DEF Request, Asked
    <2>2. CASE c \notin Dealers
      BY <2>2, <1>2, <1>4, Zenon DEF Request, Asked
    <2> QED BY <2>1, <2>2
  <1>6. Asked(c, n) = << <<c, n>> >> \/ Asked(c, n) = << <<>>, <<c, n>> >>
    BY <1>2, Zenon DEF Asked
  <1> QED BY <1>1, <1>2, <1>5, <1>6, Zenon

\* The first empty frame of a message that starts with one.
LEMMA EnvelopeOne ==
  ASSUME NEW m \in Seq(Frames), Len(m) >= 1, m[1] = <<>>
  PROVE  EnvelopeLen(m) = 1
  <1> DEFINE empty == {i \in DOMAIN m : m[i] = <<>>}
  <1>1. Len(m) \in Nat /\ DOMAIN m = 1..Len(m)
    OBVIOUS
  <1>2. 1 \in empty /\ \A j \in empty : j \in Int /\ 1 <= j
    BY <1>1
  <1> HIDE DEF empty
  <1>3. \A i \in empty : (\A j \in empty : i <= j) => i = 1
    BY <1>2
  <1>4. (CHOOSE i \in empty : \A j \in empty : i <= j) = 1
    BY <1>2, <1>3
  <1> QED BY <1>2, <1>4 DEF EnvelopeLen, empty

\* What a server makes of a request that it accepts: an envelope of one frame, the
\* delimiter, and data that names the request.
LEMMA RequestFacts ==
  ASSUME NEW c \in Clients, NEW n \in 1..MaxRequests
  PROVE  /\ Request(c, n) \in Seq(Frames) /\ Tag(Request(c, n)) = <<c, n>>
         /\ Len(Request(c, n)) \in Nat
         /\ c \notin Dealers => Len(Request(c, n)) >= 2
         /\ Len(Request(c, n)) >= 2 =>
              /\ SubSeq(Request(c, n), 1, EnvelopeLen(Request(c, n))) = Delimiter
              /\ Rest(Request(c, n), EnvelopeLen(Request(c, n))) = Asked(c, n)
  <1> DEFINE e == <<>>
             r == <<c, n>>
             m == Request(c, n)
             a == Asked(c, n)
  <1>1. /\ r \in Frames /\ e \in Frames
        /\ \/ m = <<r>> /\ c \in Dealers
           \/ m = <<e, r>> /\ a = <<r>>
           \/ m = <<e, e, r>> /\ a = <<e, r>>
    BY RequestTuples, Zenon
  <1>2. \A x \in Seq(Frames) : Len(x) >= 1 /\ x[1] = e => EnvelopeLen(x) = 1
    BY EnvelopeOne
  <1> HIDE DEF e, r, m, a
  <1>3. CASE m = <<r>> /\ c \in Dealers
    <2>1. m \in Seq(Frames) /\ Tag(m) = r /\ Len(m) = 1
      BY <1>1, <1>3, Tuples
    <2> QED BY <2>1, <1>3 DEF r, m
  <1>4. CASE m = <<e, r>> /\ a = <<r>>
    <2>1. m \in Seq(Frames) /\ Tag(m) = r /\ Len(m) = 2 /\ m[1] = e
      BY <1>1, <1>4, Tuples
    <2>2. EnvelopeLen(m) = 1
      BY <2>1, <1>2
    <2>3. SubSeq(m, 1, 1) = <<e>> /\ SubSeq(m, 2, 2) = <<r>>
      BY <1>1, <1>4, Tuples, Zenon
    <2>4. Rest(m, 1) = a
      BY <2>1, <2>3, <1>4 DEF Rest
    <2>5. SubSeq(m, 1, EnvelopeLen(m)) = <<e>> /\ Rest(m, EnvelopeLen(m)) = a
      BY <2>2, <2>3, <2>4
    <2> QED BY <2>1, <2>5 DEF r, m, e, a, Delimiter
  <1>5. CASE m = <<e, e, r>> /\ a = <<e, r>>
    <2>1. m \in Seq(Frames) /\ Tag(m) = r /\ Len(m) = 3 /\ m[1] = e
      BY <1>1, <1>5, Tuples
    <2>2. EnvelopeLen(m) = 1
      BY <2>1, <1>2
    <2>3. SubSeq(m, 1, 1) = <<e>> /\ SubSeq(m, 2, 3) = <<e, r>>
      BY <1>1, <1>5, Tuples, Zenon
    <2>4. Rest(m, 1) = a
      BY <2>1, <2>3, <1>5 DEF Rest
    <2>5. SubSeq(m, 1, EnvelopeLen(m)) = <<e>> /\ Rest(m, EnvelopeLen(m)) = a
      BY <2>2, <2>3, <2>4
    <2> QED BY <2>1, <2>5 DEF r, m, e, a, Delimiter
  <1> QED BY <1>1, <1>3, <1>4, <1>5

\* The answer has the delimiter in front of the data.
LEMMA AskedFacts ==
  ASSUME NEW c \in Clients, NEW n \in 1..MaxRequests
  PROVE  /\ Asked(c, n) \in Seq(Frames) /\ Tag(Asked(c, n)) = <<c, n>>
         /\ Reply(c, n) \in Seq(Frames)
         /\ Tag(Reply(c, n)) = <<c, n>>
         /\ ReplyData(Reply(c, n)) = Asked(c, n)
         /\ c \notin Dealers => Asked(c, n) = Payload(c, n)
  <1> DEFINE e == <<>>
             r == <<c, n>>
             a == Asked(c, n)
             m == <<e>> \o a
  <1>1. r \in Frames /\ e \in Frames /\ (a = <<r>> \/ a = <<e, r>>)
    BY RequestTuples, Zenon
  <1>2. ReplyData(m) = IF Len(m) < 2 \/ Head(m) # e THEN e ELSE Tail(m)
    BY Zenon DEF ReplyData
  <1> HIDE DEF e, r, a
  <1>3. /\ <<e, r>> \in Seq(Frames) /\ Tag(<<e, r>>) = r /\ Len(<<e, r>>) = 2
        /\ Head(<<e, r>>) = e /\ Tail(<<e, r>>) = <<r>>
    <2>1. <<e, r>> \in Seq(Frames) /\ Tag(<<e, r>>) = r /\ Len(<<e, r>>) = 2
      BY <1>1, Tuples
    <2>2. Head(<<e, r>>) = e /\ Tail(<<e, r>>) = <<r>>
      BY <1>1
    <2> QED BY <2>1, <2>2, Zenon
  <1>4. /\ <<e, e, r>> \in Seq(Frames) /\ Tag(<<e, e, r>>) = r /\ Len(<<e, e, r>>) = 3
        /\ Head(<<e, e, r>>) = e /\ Tail(<<e, e, r>>) = <<e, r>>
    BY <1>1, Tuples, Zenon
  <1>5. /\ a \in Seq(Frames) /\ Tag(a) = r /\ m \in Seq(Frames) /\ Tag(m) = r
        /\ ReplyData(m) = a
    <2>1. CASE a = <<r>>
      <3>0. <<e>> \o <<r>> = <<e, r>> /\ <<r>> \in Seq(Frames) /\ Tag(<<r>>) = r
        BY <1>1, TupleConcat, Zenon
      <3>1. a \in Seq(Frames) /\ Tag(a) = r /\ m = <<e, r>>
        BY <3>0, <2>1, Zenon
      <3> HIDE DEF m
      <3>2. m \in Seq(Frames) /\ Tag(m) = r /\ Len(m) = 2 /\ Head(m) = e /\ Tail(m) = a
        BY <3>1, <2>1, <1>3, Zenon
      <3> QED BY <3>1, <3>2, <1>2
    <2>2. CASE a = <<e, r>>
      <3>0. <<e>> \o <<e, r>> = <<e, e, r>>
        BY <1>1, TupleConcat, Zenon
      <3>1. a \in Seq(Frames) /\ Tag(a) = r /\ m = <<e, e, r>>
        BY <3>0, <2>2, <1>3, Zenon
      <3> HIDE DEF m
      <3>2. m \in Seq(Frames) /\ Tag(m) = r /\ Len(m) = 3 /\ Head(m) = e /\ Tail(m) = a
        BY <3>1, <2>2, <1>4, Zenon
      <3> QED BY <3>1, <3>2, <1>2
    <2> QED BY <1>1, <2>1, <2>2
  <1>6. c \notin Dealers => a = Payload(c, n)
    BY DEF Asked, a
  <1> QED BY <1>5, <1>6, Zenon DEF e, r, a, Reply, Delimiter

-----------------------------------------------------------------------------
(* Steps *)

\* Connections join a client to a server, each of which knows the other by a key.
LEMMA LinkFacts ==
  ASSUME TypeOK, NEW l \in Links
  PROVE  /\ link[l].client \in Clients /\ link[l].server \in Servers
         /\ link[l].ckey \in Keys /\ link[l].skey \in Keys
  BY TopologiesAssumption DEF TypeOK, Ends

\* A server has one client under a key.
LEMMA OneClient ==
  ASSUME TypeOK, NEW l \in Links, NEW m \in Links,
         link[l].server = link[m].server, link[l].ckey = link[m].ckey
  PROVE  link[l].client = link[m].client
  BY IdentitiesAssumption DEF TypeOK

LEMMA CloseFacts ==
  ASSUME TypeOK, NEW x \in Links \cup {NoLink}, Close(x)
  PROVE  /\ broken' \in [Links -> {"no", "clean", "torn"}]
         /\ \A m \in Links : broken'[m] = "no" => broken[m] = "no" /\ m # x
  <1>1. CASE x = NoLink \/ broken[x] # "no"
    BY <1>1, NoneAssumption DEF TypeOK, Close
  <1>2. CASE x \in Links /\ broken[x] = "no"
    <2>1. broken' = [broken EXCEPT ![x] = "clean"]
      BY <1>2, NoneAssumption DEF Close
    <2> QED BY <1>2, <2>1 DEF TypeOK
  <1> QED BY <1>1, <1>2

\* Dropping a half of a connection may close it, and opens none.
LEMMA DropFacts ==
  ASSUME TypeOK, NEW x \in Links \cup {NoLink}, UNCHANGED broken \/ Close(x)
  PROVE  /\ broken' \in [Links -> {"no", "clean", "torn"}]
         /\ \A m \in Links : broken'[m] = "no" => broken[m] = "no"
  <1>1. CASE UNCHANGED broken
    BY <1>1 DEF TypeOK
  <1>2. CASE Close(x)
    BY <1>2, CloseFacts
  <1> QED BY <1>1, <1>2

\* Messages stay what they are where no message moves.
LEMMA MessagesFrame ==
  ASSUME FormatInv, QueuesInv, PlaceInv, AnswersInv,
         UNCHANGED <<link, up, down, up_buf, down_buf, sent, answers, rep_request, data, envelope>>
  PROVE  FormatInv' /\ QueuesInv' /\ PlaceInv' /\ AnswersInv'
  <1>1. FormatInv'
    BY DEF FormatInv, AsksInv, RepliesInv, ServingInv, Asks, Replies, Client
  <1>2. QueuesInv' /\ PlaceInv' /\ AnswersInv'
    BY DEF QueuesInv, PlaceInv, AnswersInv, Asking, Answering, Served, AnsweredOnce
  <1> QED BY <1>1, <1>2

LEMMA ReqConnectedInv ==
  ASSUME IInv, NEW l \in Links, ReqConnected(l)
  PROVE  IInv'
  <1> USE DEF IInv
  <1>0. PICK c \in Clients, k \in Keys : c = link[l].client /\ k = link[l].skey
    BY LinkFacts
  <1>1. /\ ~connected[l].client /\ c \in Reqs /\ req[c].key # k
        /\ peers' = [peers EXCEPT ![c][k] = l]
        /\ Close(peers[c][k])
        /\ round_robin' = [round_robin EXCEPT ![c] = Append(@, k)]
        /\ connected' = [connected EXCEPT ![l].client = TRUE]
        /\ stuck' = IF current_request[c] = k THEN stuck \cup {c} ELSE stuck
        /\ UNCHANGED <<current_request, req, repVars, link, up, down, up_buf, down_buf,
                       sent, got, answers, drops, mixed>>
    BY <1>0 DEF ReqConnected
  <1>2. /\ UNCHANGED <<rep_peers, streams, rep_request, envelope, rep, data>>
    BY <1>1 DEF repVars
  <1>3. /\ broken' \in [Links -> {"no", "clean", "torn"}]
        /\ \A m \in Links : broken'[m] = "no" => broken[m] = "no"
    <2>1. peers[c][k] \in Links \cup {NoLink} /\ TypeOK
      BY DEF TypeOK
    <2> QED BY <1>1, <2>1, CloseFacts
  <1>4. /\ peers' \in [Clients -> [Keys -> Links \cup {NoLink}]]
        /\ peers'[c][k] = l
        /\ \A d \in Clients, x \in Keys : d # c \/ x # k => peers'[d][x] = peers[d][x]
    BY <1>1 DEF TypeOK
  <1>5. \A m \in Links : /\ connected'[m].server = connected[m].server
                         /\ connected[m].client => connected'[m].client
                         /\ m = l => connected'[m].client
    BY <1>1 DEF TypeOK
  <1>6. TypeOK'
    <2>1. round_robin' \in [Clients -> Seq(Keys)]
      BY <1>1 DEF TypeOK
    <2>2. connected' \in [Links -> [client : BOOLEAN, server : {"new", "upserted", "inserted"}]]
      BY <1>1 DEF TypeOK
    <2>3. stuck' \subseteq Clients
      BY <1>1 DEF TypeOK
    <2> QED BY <1>1, <1>2, <1>3, <1>4, <2>1, <2>2, <2>3 DEF TypeOK
  <1>7. ReqEntriesInv' /\ RepEntriesInv' /\ StreamsInv'
    <2>1. ReqEntriesInv'
      <3>1. SUFFICES ASSUME NEW d \in Clients, NEW x \in Keys, peers'[d][x] # NoLink
                     PROVE  /\ link'[peers'[d][x]].client = d /\ link'[peers'[d][x]].skey = x
                            /\ connected'[peers'[d][x]].client
        BY DEF ReqEntriesInv
      <3>2. CASE d = c /\ x = k
        BY <3>2, <1>0, <1>1, <1>4, <1>5
      <3>3. CASE d # c \/ x # k
        <4>1. peers'[d][x] = peers[d][x] /\ peers[d][x] \in Links
          BY <3>1, <3>3, <1>4 DEF TypeOK
        <4> QED BY <4>1, <3>1, <1>1, <1>5 DEF ReqEntriesInv
      <3> QED BY <3>2, <3>3
    <2>2. RepEntriesInv' /\ StreamsInv'
      BY <1>1, <1>2, <1>5 DEF RepEntriesInv, StreamsInv, TypeOK
    <2> QED BY <2>1, <2>2
  <1>8. RotationInv' /\ ReqCallInv' /\ RepCallInv'
    <2>0. l # NoLink
      BY NoneAssumption
    <2>1. RotationInv'
      <3>1. Elems(round_robin'[c]) = Elems(round_robin[c]) \cup {k}
        BY <1>1, AppendFacts DEF TypeOK
      <3>2. \A d \in Clients : d # c => round_robin'[d] = round_robin[d]
        BY <1>1 DEF TypeOK
      <3>3. \A d \in Clients : Elems(round_robin[d]) \subseteq Keys
        BY ElemsType DEF TypeOK
      <3> QED BY <2>0, <3>1, <3>2, <3>3, <1>4 DEF RotationInv
    <2>2. ReqCallInv'
      BY <2>0, <1>1, <1>4 DEF ReqCallInv, TypeOK
    <2>3. RepCallInv'
      BY <1>1, <1>2, <1>5 DEF RepCallInv
    <2> QED BY <2>1, <2>2, <2>3
  <1>9. FormatInv' /\ QueuesInv' /\ PlaceInv' /\ AnswersInv'
    BY <1>1, <1>2, MessagesFrame
  <1>10. OnlyInv'
    BY <1>1, <1>5 DEF OnlyInv
  <1>11. FreshInv'
    BY <1>1, <1>2, <1>5 DEF FreshInv
  <1>12. WireInv'
    BY <1>0, <1>1, <1>2, <1>3, <1>4, LinkFacts, EmptyFacts
       DEF WireInv, FreshInv, Current, Awaited, Flushing, ServedTo
  <1>13. ReplyMatchesUnlessMixed'
    BY <1>1 DEF ReplyMatchesUnlessMixed
  <1>14. RoutedInv'
    BY <1>1, <1>2, <1>3, <1>5 DEF RoutedInv
  <1>15. FlushInv'
    BY <1>1, <1>4 DEF FlushInv, ReqCallInv, Reqs
  <1>16. TraceInv'
    <2>1. SUFFICES ASSUME NEW d \in Reqs \ (mixed' \cup stuck'), current_request'[d] # NoKey
                   PROVE  Traced(d, peers[d][current_request[d]])'
      BY DEF TraceInv
    <2>2. d \in Clients /\ d \in Reqs \ (mixed \cup stuck) /\ current_request[d] \in Keys
      BY <2>1, <1>1 DEF Reqs, TypeOK
    <2>3. peers'[d][current_request'[d]] = peers[d][current_request[d]]
      BY <2>1, <2>2, <1>1, <1>4
    <2>4. peers[d][current_request[d]] \in Links /\ Traced(d, peers[d][current_request[d]])
      BY <2>1, <2>2, <1>1 DEF TraceInv, ReqCallInv, TypeOK
    <2> QED BY <2>3, <2>4, <1>1, <1>2, <1>3, <1>5 DEF Traced
  <1> QED BY <1>6, <1>7, <1>8, <1>9, <1>10, <1>11, <1>12, <1>13, <1>14, <1>15, <1>16

\* A request stays traced when its connection stays the same and its place too.
LEMMA TraceStep ==
  ASSUME TypeOK, ReqEntriesInv, ReqCallInv, TraceInv, mixed \subseteq mixed', stuck \subseteq stuck',
         \A d \in Reqs \ (mixed' \cup stuck') : current_request'[d] # NoKey =>
           /\ current_request[d] = current_request'[d]
           /\ peers'[d][current_request[d]] = peers[d][current_request[d]],
         \A d \in Reqs \ (mixed' \cup stuck'), m \in Links :
           /\ link[m].client = d /\ current_request[d] # NoKey
           /\ peers[d][current_request[d]] = m /\ Traced(d, m)
           => Traced(d, m)'
  PROVE  TraceInv'
  <1>1. SUFFICES ASSUME NEW d \in Reqs \ (mixed' \cup stuck'), current_request'[d] # NoKey
                 PROVE  Traced(d, peers[d][current_request[d]])'
    BY DEF TraceInv
  <1>2. d \in Clients /\ d \in Reqs \ (mixed \cup stuck)
    BY <1>1 DEF Reqs
  <1>3. current_request[d] \in Keys
    BY <1>1, <1>2 DEF TypeOK
  <1>4. PICK m \in Links : m = peers[d][current_request[d]] /\ link[m].client = d
    BY <1>1, <1>2, <1>3 DEF TypeOK, ReqCallInv, ReqEntriesInv
  <1>5. Traced(d, m)
    BY <1>1, <1>2, <1>4 DEF TraceInv
  <1>6. Traced(d, m)'
    BY <1>1, <1>4, <1>5
  <1>7. peers'[d][current_request'[d]] = m
    BY <1>1, <1>4
  <1> QED BY <1>6, <1>7

LEMMA DealerConnectedInv ==
  ASSUME IInv, NEW l \in Links, DealerConnected(l)
  PROVE  IInv'
  <1> USE DEF IInv
  <1>1. /\ connected' = [connected EXCEPT ![l].client = TRUE]
        /\ UNCHANGED <<peers, round_robin, current_request, req>>
        /\ UNCHANGED <<rep_peers, streams, rep_request, envelope, rep, data, link>>
        /\ UNCHANGED <<up, down, up_buf, down_buf, broken>>
        /\ UNCHANGED <<sent, got, answers, drops, mixed, stuck>>
    BY DEF DealerConnected, reqVars, repVars, wires, history
  <1>2. \A m \in Links : /\ connected'[m].server = connected[m].server
                         /\ connected[m].client => connected'[m].client
    BY <1>1 DEF TypeOK
  <1>3. connected' \in [Links -> [client : BOOLEAN, server : {"new", "upserted", "inserted"}]]
    BY <1>1 DEF TypeOK
  <1>4. TypeOK'
    BY <1>1, <1>3 DEF TypeOK
  <1>5. ReqEntriesInv' /\ RepEntriesInv' /\ StreamsInv'
    BY <1>1, <1>2 DEF ReqEntriesInv, RepEntriesInv, StreamsInv, TypeOK
  <1>6. RotationInv' /\ ReqCallInv' /\ RepCallInv'
    BY <1>1, <1>2 DEF RotationInv, ReqCallInv, RepCallInv
  <1>7. FormatInv' /\ QueuesInv' /\ PlaceInv' /\ AnswersInv'
    BY <1>1, MessagesFrame
  <1>8. OnlyInv' /\ FreshInv' /\ RoutedInv'
    BY <1>1, <1>2 DEF OnlyInv, FreshInv, RoutedInv
  <1>9. WireInv'
    BY <1>1 DEF WireInv, Current, Awaited, Flushing, ServedTo
  <1>10. ReplyMatchesUnlessMixed' /\ FlushInv'
    BY <1>1 DEF ReplyMatchesUnlessMixed, FlushInv
  <1>11. TraceInv'
    BY <1>1, <1>2, TraceStep DEF Traced
  <1> QED BY <1>4, <1>5, <1>6, <1>7, <1>8, <1>9, <1>10, <1>11

LEMMA RepUpsertInv ==
  ASSUME IInv, NEW l \in Links, RepUpsert(l)
  PROVE  IInv'
  <1> USE DEF IInv
  <1>0. PICK s \in Servers, k \in Keys : s = link[l].server /\ k = link[l].ckey
    BY LinkFacts
  <1>1. /\ connected[l].server = "new" /\ rep[s].key # k
        /\ rep_peers' = [rep_peers EXCEPT ![s][k] = l]
        /\ UNCHANGED broken \/ Close(rep_peers[s][k])
        /\ connected' = [connected EXCEPT ![l].server = "upserted"]
        /\ IF \E m \in Links : link[m].server = s /\ link[m].ckey = k /\ connected[m].server # "new"
           THEN mixed' = mixed \cup Client(s, k) /\ stuck' = stuck \cup Client(s, k)
           ELSE UNCHANGED <<mixed, stuck>>
        /\ UNCHANGED <<peers, round_robin, current_request, req>>
        /\ UNCHANGED <<streams, rep_request, envelope, rep, data, link,
                       up, down, up_buf, down_buf, sent, got, answers, drops>>
    BY <1>0 DEF RepUpsert, reqVars, DropHalf
  <1>2. /\ broken' \in [Links -> {"no", "clean", "torn"}]
        /\ \A m \in Links : broken'[m] = "no" => broken[m] = "no"
    BY <1>1, DropFacts DEF TypeOK
  <1>3. /\ rep_peers' \in [Servers -> [Keys -> Links \cup {NoLink}]]
        /\ rep_peers'[s][k] = l
        /\ \A t \in Servers, x \in Keys : t # s \/ x # k => rep_peers'[t][x] = rep_peers[t][x]
    BY <1>1 DEF TypeOK
  <1>4. \A m \in Links : /\ connected'[m].client = connected[m].client
                         /\ m = l => connected'[m].server = "upserted"
                         /\ m # l => connected'[m].server = connected[m].server
    BY <1>1 DEF TypeOK
  <1>5. Client(s, k) \subseteq Clients
    BY LinkFacts DEF Client
  <1>6. mixed \subseteq mixed' /\ stuck \subseteq stuck' /\ mixed' \subseteq Clients /\ stuck' \subseteq Clients
    BY <1>1, <1>5 DEF TypeOK
  <1>7. ASSUME NEW m \in Links, link[m].server = s, link[m].ckey = k, link[m].client \notin mixed'
        PROVE  \A n \in Links : link[n].server = s /\ link[n].ckey = k => connected[n].server = "new"
    BY <1>1, <1>7 DEF Client
  <1>8. TypeOK'
    <2>1. connected' \in [Links -> [client : BOOLEAN, server : {"new", "upserted", "inserted"}]]
      BY <1>1 DEF TypeOK
    <2> QED BY <1>1, <1>2, <1>3, <1>6, <2>1 DEF TypeOK
  <1>9. ReqEntriesInv' /\ StreamsInv'
    BY <1>1, <1>4 DEF ReqEntriesInv, StreamsInv, TypeOK
  <1>10. RepEntriesInv'
    <2>1. SUFFICES ASSUME NEW t \in Servers, NEW x \in Keys, rep_peers'[t][x] # NoLink
                   PROVE  /\ link'[rep_peers'[t][x]].server = t /\ link'[rep_peers'[t][x]].ckey = x
                          /\ connected'[rep_peers'[t][x]].server # "new"
      BY DEF RepEntriesInv
    <2>2. CASE t = s /\ x = k
      BY <2>2, <1>0, <1>1, <1>3, <1>4
    <2>3. CASE t # s \/ x # k
      <3>1. rep_peers'[t][x] = rep_peers[t][x] /\ rep_peers[t][x] \in Links
        BY <2>1, <2>3, <1>3 DEF TypeOK
      <3> QED BY <3>1, <2>1, <1>1, <1>4 DEF RepEntriesInv
    <2> QED BY <2>2, <2>3
  <1>11. RotationInv' /\ ReqCallInv'
    BY <1>1 DEF RotationInv, ReqCallInv
  <1>12. RepCallInv'
    <2>1. l # NoLink
      BY NoneAssumption
    <2>2. \A t \in Servers : rep'[t].at = "flush" => rep'[t].key \in Keys /\ rep_peers'[t][rep'[t].key] # NoLink
      BY <2>1, <1>1, <1>3 DEF RepCallInv
    <2>3. \A t \in Servers : rep_request'[t] # NoKey =>
            \E m \in Links : /\ link'[m].server = t /\ link'[m].ckey = rep_request'[t]
                             /\ connected'[m].server # "new"
      BY <1>1, <1>4 DEF RepCallInv
    <2> QED BY <2>2, <2>3 DEF RepCallInv
  <1>13. FormatInv' /\ QueuesInv' /\ PlaceInv' /\ AnswersInv'
    BY <1>1, MessagesFrame
  <1>14. OnlyInv'
    BY <1>0, <1>1, <1>4, <1>6, <1>7, OneClient DEF OnlyInv
  <1>15. FreshInv'
    <2>1. ASSUME link[l].client \notin mixed' PROVE rep_request[s] # k
      BY <2>1, <1>0, <1>7, NoneAssumption DEF RepCallInv
    <2> QED BY <2>1, <1>0, <1>1, <1>3, <1>4, <1>6, LinkFacts DEF FreshInv
  <1>16. WireInv'
    <2>1. ASSUME link[l].client \notin mixed' PROVE rep_request[s] # k
      BY <2>1, <1>0, <1>7, NoneAssumption DEF RepCallInv
    <2>2. ASSUME NEW m \in Links, NEW r, link[m].client \notin mixed', ServedTo(m, r)'
          PROVE  ServedTo(m, r)
      BY <2>1, <2>2, <1>0, <1>1, <1>3, LinkFacts DEF ServedTo
    <2>3. \A m \in Links, r \in Requests :
            /\ Current(m)' <=> Current(m)
            /\ Awaited(m, r)' <=> Awaited(m, r)
            /\ Flushing(m, r)' <=> Flushing(m, r)
      BY <1>1 DEF Current, Awaited, Flushing
    <2> QED BY <2>2, <2>3, <1>1, <1>2, <1>6 DEF WireInv
  <1>17. ReplyMatchesUnlessMixed' /\ FlushInv'
    BY <1>1, <1>6 DEF ReplyMatchesUnlessMixed, FlushInv
  <1>18. RoutedInv'
    BY <1>0, <1>1, <1>2, <1>3, <1>4, <1>6, <1>7, LinkFacts DEF RoutedInv
  <1>19. TraceInv'
    BY <1>1, <1>2, <1>4, <1>6, TraceStep DEF Traced
  <1> QED BY <1>8, <1>9, <1>10, <1>11, <1>12, <1>13, <1>14, <1>15, <1>16, <1>17, <1>18, <1>19

LEMMA RepInsertInv ==
  ASSUME IInv, NEW l \in Links, RepInsert(l)
  PROVE  IInv'
  <1> USE DEF IInv
  <1>0. PICK s \in Servers, k \in Keys : s = link[l].server /\ k = link[l].ckey
    BY LinkFacts
  <1>1. /\ connected[l].server = "upserted"
        /\ streams' = [streams EXCEPT ![s][k] = l]
        /\ UNCHANGED broken \/ Close(streams[s][k])
        /\ connected' = [connected EXCEPT ![l].server = "inserted"]
        /\ UNCHANGED <<peers, round_robin, current_request, req>>
        /\ UNCHANGED <<rep_peers, rep_request, envelope, rep, data, link, up, down, up_buf, down_buf>>
        /\ UNCHANGED <<sent, got, answers, drops, mixed, stuck>>
    BY <1>0 DEF RepInsert, reqVars, history, DropHalf
  <1>2. /\ broken' \in [Links -> {"no", "clean", "torn"}]
        /\ \A m \in Links : broken'[m] = "no" => broken[m] = "no"
    BY <1>1, DropFacts DEF TypeOK
  <1>3. /\ streams' \in [Servers -> [Keys -> Links \cup {NoLink}]]
        /\ streams'[s][k] = l
        /\ \A t \in Servers, x \in Keys : t # s \/ x # k => streams'[t][x] = streams[t][x]
    BY <1>1 DEF TypeOK
  <1>4. \A m \in Links : /\ connected'[m].client = connected[m].client
                         /\ m = l => connected'[m].server = "inserted"
                         /\ m # l => connected'[m].server = connected[m].server
    BY <1>1 DEF TypeOK
  <1>5. TypeOK'
    <2>1. connected' \in [Links -> [client : BOOLEAN, server : {"new", "upserted", "inserted"}]]
      BY <1>1 DEF TypeOK
    <2> QED BY <1>1, <1>2, <1>3, <2>1 DEF TypeOK
  <1>6. ReqEntriesInv' /\ RepEntriesInv'
    BY <1>1, <1>4 DEF ReqEntriesInv, RepEntriesInv, TypeOK
  <1>7. StreamsInv'
    <2>1. SUFFICES ASSUME NEW t \in Servers, NEW x \in Keys, streams'[t][x] # NoLink
                   PROVE  /\ link'[streams'[t][x]].server = t /\ link'[streams'[t][x]].ckey = x
                          /\ connected'[streams'[t][x]].server = "inserted"
      BY DEF StreamsInv
    <2>2. CASE t = s /\ x = k
      BY <2>2, <1>0, <1>1, <1>3, <1>4
    <2>3. CASE t # s \/ x # k
      <3>1. streams'[t][x] = streams[t][x] /\ streams[t][x] \in Links
        BY <2>1, <2>3, <1>3 DEF TypeOK
      <3> QED BY <3>1, <2>1, <1>1, <1>4 DEF StreamsInv
    <2> QED BY <2>2, <2>3
  <1>8. RotationInv' /\ ReqCallInv'
    BY <1>1 DEF RotationInv, ReqCallInv
  <1>9. RepCallInv'
    BY <1>1, <1>4 DEF RepCallInv
  <1>10. FormatInv' /\ QueuesInv' /\ PlaceInv' /\ AnswersInv'
    BY <1>1, MessagesFrame
  <1>11. OnlyInv' /\ FreshInv'
    BY <1>1, <1>4 DEF OnlyInv, FreshInv
  <1>12. WireInv'
    BY <1>1, <1>2 DEF WireInv, Current, Awaited, Flushing, ServedTo
  <1>13. ReplyMatchesUnlessMixed' /\ FlushInv'
    BY <1>1 DEF ReplyMatchesUnlessMixed, FlushInv
  <1>14. RoutedInv'
    BY <1>0, <1>1, <1>2, <1>3, <1>4, LinkFacts DEF RoutedInv, OnlyInv
  <1>15. TraceInv'
    BY <1>1, <1>2, <1>4, TraceStep DEF Traced
  <1> QED BY <1>5, <1>6, <1>7, <1>8, <1>9, <1>10, <1>11, <1>12, <1>13, <1>14, <1>15

LEMMA RepStreamEndInv ==
  ASSUME IInv, NEW s \in Servers, NEW k \in Keys, RepStreamEnd(s, k)
  PROVE  IInv'
  <1> USE DEF IInv
  <1>1. PICK l \in Links :
          /\ l = streams[s][k] /\ broken[l] # "no" /\ rep[s].at = "idle"
          /\ rep_peers' = [rep_peers EXCEPT ![s][k] = NoLink]
          /\ UNCHANGED broken \/ Close(rep_peers[s][k])
          /\ streams' = IF broken[l] = "clean" THEN [streams EXCEPT ![s][k] = NoLink] ELSE streams
          /\ UNCHANGED <<peers, round_robin, current_request, req>>
          /\ UNCHANGED <<rep_request, envelope, rep, data, link, connected, up, down, up_buf, down_buf>>
          /\ UNCHANGED <<sent, got, answers, drops, mixed, stuck>>
    BY DEF RepStreamEnd, reqVars, history, TypeOK, DropHalf
  <1>2. /\ broken' \in [Links -> {"no", "clean", "torn"}]
        /\ \A m \in Links : broken'[m] = "no" => broken[m] = "no"
    BY <1>1, DropFacts DEF TypeOK
  <1>3. /\ rep_peers' \in [Servers -> [Keys -> Links \cup {NoLink}]]
        /\ rep_peers'[s][k] = NoLink
        /\ \A t \in Servers, x \in Keys : t # s \/ x # k => rep_peers'[t][x] = rep_peers[t][x]
    BY <1>1 DEF TypeOK
  <1>4. /\ streams' \in [Servers -> [Keys -> Links \cup {NoLink}]]
        /\ \A t \in Servers, x \in Keys :
             /\ streams'[t][x] = NoLink \/ streams'[t][x] = streams[t][x]
             /\ t # s \/ x # k => streams'[t][x] = streams[t][x]
    BY <1>1 DEF TypeOK
  <1>5. TypeOK'
    BY <1>1, <1>2, <1>3, <1>4 DEF TypeOK
  <1>6. ReqEntriesInv' /\ RotationInv' /\ ReqCallInv'
    BY <1>1 DEF ReqEntriesInv, RotationInv, ReqCallInv
  <1>7. RepEntriesInv' /\ StreamsInv'
    BY <1>1, <1>3, <1>4 DEF RepEntriesInv, StreamsInv
  <1>8. RepCallInv'
    BY <1>1, <1>3 DEF RepCallInv
  <1>9. FormatInv' /\ QueuesInv' /\ PlaceInv' /\ AnswersInv'
    BY <1>1, MessagesFrame
  <1>10. OnlyInv'
    BY <1>1 DEF OnlyInv
  <1>11. \A m \in Links : rep_peers'[link[m].server][link[m].ckey] = m => rep_peers[link[m].server][link[m].ckey] = m
    BY <1>3, LinkFacts, NoneAssumption
  <1>12. FreshInv'
    BY <1>1, <1>11 DEF FreshInv
  <1>13. WireInv'
    BY <1>1, <1>2, <1>11 DEF WireInv, Current, Awaited, Flushing, ServedTo
  <1>14. ReplyMatchesUnlessMixed' /\ FlushInv'
    BY <1>1 DEF ReplyMatchesUnlessMixed, FlushInv
  <1>15. RoutedInv'
    <2>1. SUFFICES ASSUME NEW m \in Links, link[m].client \notin mixed, broken'[m] = "no"
                   PROVE  /\ connected[m].server # "new" => rep_peers'[link[m].server][link[m].ckey] = m
                          /\ connected[m].server = "inserted" => streams'[link[m].server][link[m].ckey] = m
      BY <1>1 DEF RoutedInv
    <2>2. broken[m] = "no"
      BY <2>1, <1>2
    <2>3. CASE connected[m].server = "new"
      BY <2>3
    <2>4. CASE connected[m].server # "new"
      <3>1. link[l].server = s /\ link[l].ckey = k /\ connected[l].server = "inserted"
        BY <1>1, NoneAssumption DEF StreamsInv
      <3>2. link[m].server # s \/ link[m].ckey # k
        BY <3>1, <1>1, <2>1, <2>2, <2>4 DEF OnlyInv
      <3> QED BY <2>1, <2>2, <3>2, <1>3, <1>4, LinkFacts DEF RoutedInv
    <2> QED BY <2>3, <2>4
  <1>16. TraceInv'
    BY <1>1, <1>2, TraceStep DEF Traced
  <1> QED BY <1>5, <1>6, <1>7, <1>8, <1>9, <1>10, <1>12, <1>13, <1>14, <1>15, <1>16

-----------------------------------------------------------------------------
(* Steps of a REQ socket that move no message *)

LEMMA ReqFlushFailsInv ==
  ASSUME IInv, NEW c \in Reqs, ReqFlushFails(c)
  PROVE  IInv'
  <1> USE DEF IInv
  <1>0. c \in Clients
    BY DEF Reqs
  <1>1. /\ req[c].at = "flush" /\ broken[peers[c][req[c].key]] # "no"
        /\ req' = [req EXCEPT ![c] = [at |-> "idle", key |-> NoKey]]
        /\ UNCHANGED <<peers, round_robin, current_request>>
        /\ UNCHANGED <<rep_peers, streams, rep_request, envelope, rep, data, link, connected>>
        /\ UNCHANGED <<up, down, up_buf, down_buf, broken>>
        /\ UNCHANGED <<sent, got, answers, drops, mixed, stuck>>
    BY DEF ReqFlushFails, ReqIdle, repVars, wires, history
  <1>2. /\ req' \in [Clients -> [at : {"idle", "flush", "recv"}, key : Keys \cup {NoKey}]]
        /\ req'[c].at = "idle" /\ req'[c].key = NoKey
        /\ \A d \in Clients : d # c => req'[d] = req[d]
    BY <1>0, <1>1 DEF TypeOK
  <1>3. TypeOK'
    BY <1>1, <1>2 DEF TypeOK
  <1>4. ReqEntriesInv' /\ RepEntriesInv' /\ StreamsInv' /\ RotationInv' /\ RepCallInv'
    BY <1>1 DEF ReqEntriesInv, RepEntriesInv, StreamsInv, RotationInv, RepCallInv
  <1>5. ReqCallInv'
    BY <1>0, <1>1, <1>2 DEF ReqCallInv
  <1>6. FormatInv' /\ QueuesInv' /\ PlaceInv' /\ AnswersInv'
    BY <1>1, MessagesFrame
  <1>7. OnlyInv' /\ FreshInv' /\ RoutedInv' /\ ReplyMatchesUnlessMixed'
    BY <1>1 DEF OnlyInv, FreshInv, RoutedInv, ReplyMatchesUnlessMixed
  <1>8. WireInv'
    <2>1. ASSUME NEW m \in Links, NEW r \in Requests, Current(m), broken[m] = "no", Flushing(m, r)
          PROVE  Flushing(m, r)'
      BY <2>1, <1>0, <1>1, <1>2, LinkFacts DEF Flushing, Current
    <2>2. \A m \in Links, r \in Requests :
            /\ Current(m)' <=> Current(m)
            /\ Awaited(m, r)' <=> Awaited(m, r)
            /\ ServedTo(m, r)' <=> ServedTo(m, r)
      BY <1>1 DEF Current, Awaited, ServedTo
    <2> QED BY <2>1, <2>2, <1>1 DEF WireInv
  <1>9. FlushInv'
    BY <1>0, <1>1, <1>2 DEF FlushInv, Reqs
  <1>10. TraceInv'
    BY <1>1, TraceStep DEF Traced
  <1> QED BY <1>3, <1>4, <1>5, <1>6, <1>7, <1>8, <1>9, <1>10

LEMMA ReqDropSendInv ==
  ASSUME IInv, NEW c \in Reqs, ReqDropSend(c)
  PROVE  IInv'
  <1> USE DEF IInv
  <1>0. c \in Clients
    BY DEF Reqs
  <1>1. /\ req[c].at = "flush" /\ drops < MaxDrops
        /\ req' = [req EXCEPT ![c] = [at |-> "idle", key |-> NoKey]]
        /\ drops' = drops + 1 /\ mixed' = mixed \cup {c}
        /\ UNCHANGED <<peers, round_robin, current_request>>
        /\ UNCHANGED <<rep_peers, streams, rep_request, envelope, rep, data, link, connected>>
        /\ UNCHANGED <<up, down, up_buf, down_buf, broken>>
        /\ UNCHANGED <<sent, got, answers, stuck>>
    BY DEF ReqDropSend, ReqIdle, repVars, wires
  <1>2. /\ req' \in [Clients -> [at : {"idle", "flush", "recv"}, key : Keys \cup {NoKey}]]
        /\ req'[c].at = "idle" /\ req'[c].key = NoKey
        /\ \A d \in Clients : d # c => req'[d] = req[d]
    BY <1>0, <1>1 DEF TypeOK
  <1>3. drops' \in 0..MaxDrops
    BY <1>1, BoundsAssumption DEF TypeOK
  <1>4. TypeOK'
    BY <1>0, <1>1, <1>2, <1>3 DEF TypeOK
  <1>5. ReqEntriesInv' /\ RepEntriesInv' /\ StreamsInv' /\ RotationInv' /\ RepCallInv'
    BY <1>1 DEF ReqEntriesInv, RepEntriesInv, StreamsInv, RotationInv, RepCallInv
  <1>6. ReqCallInv'
    BY <1>0, <1>1, <1>2 DEF ReqCallInv
  <1>7. FormatInv' /\ QueuesInv' /\ PlaceInv' /\ AnswersInv'
    BY <1>1, MessagesFrame
  <1>8. OnlyInv' /\ FreshInv' /\ RoutedInv' /\ ReplyMatchesUnlessMixed'
    BY <1>1 DEF OnlyInv, FreshInv, RoutedInv, ReplyMatchesUnlessMixed
  <1>9. WireInv'
    BY <1>1, <1>2, LinkFacts DEF WireInv, Flushing, Current, Awaited, ServedTo
  <1>10. FlushInv'
    BY <1>0, <1>1, <1>2 DEF FlushInv, Reqs
  <1>11. TraceInv'
    BY <1>1, TraceStep DEF Traced
  <1> QED BY <1>4, <1>5, <1>6, <1>7, <1>8, <1>9, <1>10, <1>11

\* The rotation only loses a peer when a send is dropped before it has the entry.
LEMMA ReqDropLookupInv ==
  ASSUME IInv, NEW c \in Reqs, ReqDropLookup(c)
  PROVE  IInv'
  <1> USE DEF IInv
  <1>0. c \in Clients
    BY DEF Reqs
  <1>1. /\ round_robin[c] # <<>> /\ drops < MaxDrops
        /\ round_robin' = [round_robin EXCEPT ![c] = Tail(@)]
        /\ drops' = drops + 1
        /\ UNCHANGED <<peers, current_request, req>>
        /\ UNCHANGED <<rep_peers, streams, rep_request, envelope, rep, data, link, connected>>
        /\ UNCHANGED <<up, down, up_buf, down_buf, broken>>
        /\ UNCHANGED <<sent, got, answers, mixed, stuck>>
    BY DEF ReqDropLookup, repVars, wires
  <1>2. drops' \in 0..MaxDrops
    BY <1>1, BoundsAssumption DEF TypeOK
  <1>3. PICK q \in Seq(Keys) : q = round_robin[c] /\ q # <<>>
    BY <1>0, <1>1 DEF TypeOK
  <1>4. Tail(q) \in Seq(Keys) /\ Elems(Tail(q)) \subseteq Elems(q)
    BY <1>3, TailFacts
  <1>5. /\ round_robin' \in [Clients -> Seq(Keys)]
        /\ round_robin'[c] = Tail(q)
        /\ \A d \in Clients : d # c => round_robin'[d] = round_robin[d]
    BY <1>0, <1>1, <1>3, <1>4 DEF TypeOK
  <1>6. TypeOK'
    BY <1>1, <1>2, <1>5 DEF TypeOK
  <1>7. RotationInv'
    BY <1>1, <1>3, <1>4, <1>5 DEF RotationInv
  <1>8. ReqEntriesInv' /\ RepEntriesInv' /\ StreamsInv' /\ ReqCallInv' /\ RepCallInv'
    BY <1>1 DEF ReqEntriesInv, RepEntriesInv, StreamsInv, ReqCallInv, RepCallInv
  <1>9. FormatInv' /\ QueuesInv' /\ PlaceInv' /\ AnswersInv'
    BY <1>1, MessagesFrame
  <1>10. OnlyInv' /\ FreshInv' /\ RoutedInv' /\ ReplyMatchesUnlessMixed' /\ FlushInv'
    BY <1>1 DEF OnlyInv, FreshInv, RoutedInv, ReplyMatchesUnlessMixed, FlushInv
  <1>11. WireInv'
    BY <1>1 DEF WireInv, Current, Awaited, Flushing, ServedTo
  <1>12. TraceInv'
    BY <1>1, TraceStep DEF Traced
  <1> QED BY <1>6, <1>7, <1>8, <1>9, <1>10, <1>11, <1>12

LEMMA ReqRecvInv ==
  ASSUME IInv, NEW c \in Reqs, ReqRecv(c)
  PROVE  IInv'
  <1> USE DEF IInv
  <1>0. c \in Clients
    BY DEF Reqs
  <1>1. /\ req[c].at = "idle" /\ current_request[c] # NoKey
        /\ req' = [req EXCEPT ![c] = [at |-> "recv", key |-> current_request[c]]]
        /\ UNCHANGED <<peers, round_robin, current_request>>
        /\ UNCHANGED <<rep_peers, streams, rep_request, envelope, rep, data, link, connected>>
        /\ UNCHANGED <<up, down, up_buf, down_buf, broken>>
        /\ UNCHANGED <<sent, got, answers, drops, mixed, stuck>>
    BY DEF ReqRecv, repVars, wires, history
  <1>2. /\ req' \in [Clients -> [at : {"idle", "flush", "recv"}, key : Keys \cup {NoKey}]]
        /\ req'[c].at = "recv" /\ req'[c].key = current_request[c]
        /\ \A d \in Clients : d # c => req'[d] = req[d]
    BY <1>0, <1>1 DEF TypeOK
  <1>3. TypeOK'
    BY <1>1, <1>2 DEF TypeOK
  <1>4. ReqEntriesInv' /\ RepEntriesInv' /\ StreamsInv' /\ RotationInv' /\ RepCallInv'
    BY <1>1 DEF ReqEntriesInv, RepEntriesInv, StreamsInv, RotationInv, RepCallInv
  <1>5. ReqCallInv'
    BY <1>0, <1>1, <1>2 DEF ReqCallInv, TypeOK
  <1>6. FormatInv' /\ QueuesInv' /\ PlaceInv' /\ AnswersInv'
    BY <1>1, MessagesFrame
  <1>7. OnlyInv' /\ FreshInv' /\ RoutedInv' /\ ReplyMatchesUnlessMixed'
    BY <1>1 DEF OnlyInv, FreshInv, RoutedInv, ReplyMatchesUnlessMixed
  <1>8. WireInv'
    <2>1. ASSUME NEW m \in Links, NEW r \in Requests, Flushing(m, r)
          PROVE  Flushing(m, r)'
      BY <2>1, <1>0, <1>1, <1>2, LinkFacts DEF Flushing
    <2>2. \A m \in Links, r \in Requests :
            /\ Current(m)' <=> Current(m)
            /\ Awaited(m, r)' <=> Awaited(m, r)
            /\ ServedTo(m, r)' <=> ServedTo(m, r)
      BY <1>1 DEF Current, Awaited, ServedTo
    <2> QED BY <2>1, <2>2, <1>1 DEF WireInv
  <1>9. FlushInv'
    BY <1>0, <1>1, <1>2 DEF FlushInv, Reqs
  <1>10. TraceInv'
    BY <1>1, TraceStep DEF Traced
  <1> QED BY <1>3, <1>4, <1>5, <1>6, <1>7, <1>8, <1>9, <1>10

LEMMA ReqDropRecvInv ==
  ASSUME IInv, NEW c \in Reqs, ReqDropRecv(c)
  PROVE  IInv'
  <1> USE DEF IInv
  <1>0. c \in Clients
    BY DEF Reqs
  <1>1. /\ req[c].at = "recv" /\ drops < MaxDrops
        /\ req' = [req EXCEPT ![c] = [at |-> "idle", key |-> NoKey]]
        /\ drops' = drops + 1
        /\ UNCHANGED <<peers, round_robin, current_request>>
        /\ UNCHANGED <<rep_peers, streams, rep_request, envelope, rep, data, link, connected>>
        /\ UNCHANGED <<up, down, up_buf, down_buf, broken>>
        /\ UNCHANGED <<sent, got, answers, mixed, stuck>>
    BY DEF ReqDropRecv, ReqIdle, repVars, wires
  <1>2. /\ req' \in [Clients -> [at : {"idle", "flush", "recv"}, key : Keys \cup {NoKey}]]
        /\ req'[c].at = "idle" /\ req'[c].key = NoKey
        /\ \A d \in Clients : d # c => req'[d] = req[d]
    BY <1>0, <1>1 DEF TypeOK
  <1>3. drops' \in 0..MaxDrops
    BY <1>1, BoundsAssumption DEF TypeOK
  <1>4. TypeOK'
    BY <1>1, <1>2, <1>3 DEF TypeOK
  <1>5. ReqEntriesInv' /\ RepEntriesInv' /\ StreamsInv' /\ RotationInv' /\ RepCallInv'
    BY <1>1 DEF ReqEntriesInv, RepEntriesInv, StreamsInv, RotationInv, RepCallInv
  <1>6. ReqCallInv'
    BY <1>0, <1>1, <1>2 DEF ReqCallInv
  <1>7. FormatInv' /\ QueuesInv' /\ PlaceInv' /\ AnswersInv'
    BY <1>1, MessagesFrame
  <1>8. OnlyInv' /\ FreshInv' /\ RoutedInv' /\ ReplyMatchesUnlessMixed'
    BY <1>1 DEF OnlyInv, FreshInv, RoutedInv, ReplyMatchesUnlessMixed
  <1>9. WireInv'
    <2>1. ASSUME NEW m \in Links, NEW r \in Requests, Flushing(m, r)
          PROVE  Flushing(m, r)'
      BY <2>1, <1>0, <1>1, <1>2, LinkFacts DEF Flushing
    <2>2. \A m \in Links, r \in Requests :
            /\ Current(m)' <=> Current(m)
            /\ Awaited(m, r)' <=> Awaited(m, r)
            /\ ServedTo(m, r)' <=> ServedTo(m, r)
      BY <1>1 DEF Current, Awaited, ServedTo
    <2> QED BY <2>1, <2>2, <1>1 DEF WireInv
  <1>10. FlushInv'
    BY <1>0, <1>1, <1>2 DEF FlushInv, Reqs
  <1>11. TraceInv'
    BY <1>1, TraceStep DEF Traced
  <1> QED BY <1>4, <1>5, <1>6, <1>7, <1>8, <1>9, <1>10, <1>11

LEMMA ReqRecvEndInv ==
  ASSUME IInv, NEW c \in Reqs, ReqRecvEnd(c)
  PROVE  IInv'
  <1> USE DEF IInv
  <1>0. c \in Clients /\ NoKey \notin Keys
    BY NoneAssumption DEF Reqs
  <1>1. /\ req[c].at = "recv" /\ down[peers[c][req[c].key]] = <<>> /\ broken[peers[c][req[c].key]] # "no"
        /\ req' = [req EXCEPT ![c] = [at |-> "idle", key |-> NoKey]]
        /\ current_request' = [current_request EXCEPT ![c] = NoKey]
        /\ UNCHANGED <<peers, round_robin>>
        /\ UNCHANGED <<rep_peers, streams, rep_request, envelope, rep, data, link, connected>>
        /\ UNCHANGED <<up, down, up_buf, down_buf, broken>>
        /\ UNCHANGED <<sent, got, answers, drops, mixed, stuck>>
    BY DEF ReqRecvEnd, ReqIdle, repVars, wires, history
  <1>2. /\ req' \in [Clients -> [at : {"idle", "flush", "recv"}, key : Keys \cup {NoKey}]]
        /\ req'[c].at = "idle" /\ req'[c].key = NoKey
        /\ current_request' \in [Clients -> Keys \cup {NoKey}] /\ current_request'[c] = NoKey
        /\ \A d \in Clients : d # c => req'[d] = req[d] /\ current_request'[d] = current_request[d]
    BY <1>0, <1>1 DEF TypeOK
  <1>3. TypeOK'
    BY <1>1, <1>2 DEF TypeOK
  <1>4. ReqEntriesInv' /\ RepEntriesInv' /\ StreamsInv' /\ RotationInv' /\ RepCallInv'
    BY <1>1 DEF ReqEntriesInv, RepEntriesInv, StreamsInv, RotationInv, RepCallInv
  <1>5. ReqCallInv'
    BY <1>0, <1>1, <1>2 DEF ReqCallInv
  <1>6. FormatInv' /\ QueuesInv' /\ PlaceInv' /\ AnswersInv'
    BY <1>1, MessagesFrame
  <1>7. OnlyInv' /\ FreshInv' /\ RoutedInv' /\ ReplyMatchesUnlessMixed'
    BY <1>1 DEF OnlyInv, FreshInv, RoutedInv, ReplyMatchesUnlessMixed
  <1>8. WireInv'
    <2>1. ASSUME NEW m \in Links, NEW r \in Requests, Flushing(m, r)
          PROVE  Flushing(m, r)'
      BY <2>1, <1>0, <1>1, <1>2, LinkFacts DEF Flushing
    <2>2. ASSUME NEW m \in Links, NEW r \in Requests, Current(m), Awaited(m, r)
          PROVE  Awaited(m, r)' \/ (broken[m] # "no" /\ down[m] = <<>>)
      BY <2>2, <1>0, <1>1, <1>2, LinkFacts DEF Awaited, Current, ReqCallInv
    <2>3. \A m \in Links, r \in Requests :
            /\ Current(m)' <=> Current(m)
            /\ ServedTo(m, r)' <=> ServedTo(m, r)
      BY <1>1 DEF Current, ServedTo
    <2> QED BY <2>1, <2>2, <2>3, <1>1, EmptyFacts DEF WireInv
  <1>9. FlushInv'
    BY <1>0, <1>1, <1>2 DEF FlushInv, Reqs
  <1>10. TraceInv'
    BY <1>0, <1>1, <1>2, TraceStep DEF Traced, Reqs
  <1> QED BY <1>3, <1>4, <1>5, <1>6, <1>7, <1>8, <1>9, <1>10

LEMMA RepDropSendInv ==
  ASSUME IInv, NEW s \in Servers, RepDropSend(s)
  PROVE  IInv'
  <1> USE DEF IInv
  <1>1. /\ rep[s].at = "flush" /\ drops < MaxDrops
        /\ rep' = [rep EXCEPT ![s] = [at |-> "idle", key |-> NoKey]]
        /\ drops' = drops + 1
        /\ stuck' = stuck \cup Client(s, rep[s].key)
        /\ UNCHANGED <<peers, round_robin, current_request, req>>
        /\ UNCHANGED <<rep_peers, streams, rep_request, envelope, data, link, connected>>
        /\ UNCHANGED <<up, down, up_buf, down_buf, broken>>
        /\ UNCHANGED <<sent, got, answers, mixed>>
    BY DEF RepDropSend, RepIdle, reqVars, wires
  <1>2. /\ rep' \in [Servers -> [at : {"idle", "flush"}, key : Keys \cup {NoKey}]]
        /\ rep'[s].at = "idle"
        /\ \A t \in Servers : t # s => rep'[t] = rep[t]
    BY <1>1 DEF TypeOK
  <1>3. drops' \in 0..MaxDrops
    BY <1>1, BoundsAssumption DEF TypeOK
  <1>4. stuck' \subseteq Clients
    BY <1>1, LinkFacts DEF TypeOK, Client
  <1>5. TypeOK'
    BY <1>1, <1>2, <1>3, <1>4 DEF TypeOK
  <1>6. ReqEntriesInv' /\ RepEntriesInv' /\ StreamsInv' /\ RotationInv' /\ ReqCallInv'
    BY <1>1 DEF ReqEntriesInv, RepEntriesInv, StreamsInv, RotationInv, ReqCallInv
  <1>7. RepCallInv'
    BY <1>1, <1>2 DEF RepCallInv
  <1>8. FormatInv' /\ QueuesInv' /\ PlaceInv' /\ AnswersInv'
    BY <1>1, MessagesFrame
  <1>9. OnlyInv' /\ FreshInv' /\ RoutedInv' /\ ReplyMatchesUnlessMixed' /\ FlushInv'
    BY <1>1 DEF OnlyInv, FreshInv, RoutedInv, ReplyMatchesUnlessMixed, FlushInv
  <1>10. WireInv'
    BY <1>1 DEF WireInv, Current, Awaited, Flushing, ServedTo
  <1>11. TraceInv'
    <2>1. ASSUME NEW d \in Reqs \ (mixed' \cup stuck'), NEW m \in Links, link[m].client = d, Traced(d, m)
          PROVE  Traced(d, m)'
      <3>1. rep'[link[m].server] = rep[link[m].server]
            \/ rep[link[m].server] # [at |-> "flush", key |-> link[m].ckey]
        BY <2>1, <1>1, <1>2, LinkFacts DEF Client
      <3> QED BY <2>1, <3>1, <1>1 DEF Traced
    <2> QED BY <2>1, <1>1, TraceStep
  <1> QED BY <1>5, <1>6, <1>7, <1>8, <1>9, <1>10, <1>11

-----------------------------------------------------------------------------
(* Steps that move messages *)

\* What is on a connection belongs to a request of its client.
LEMMA AskTags ==
  ASSUME TypeOK, FormatInv, NEW l \in Links, NEW r, Asking(l, r)
  PROVE  r \in Requests /\ \E n \in 1..sent[link[l].client] : r = <<link[l].client, n>>
  <1>1. PICK m \in Elems(up[l]) \cup Elems(up_buf[l]) : Tag(m) = r
    BY DEF Asking, In
  <1>2. PICK n \in 1..sent[link[l].client] : m = Request(link[l].client, n)
    BY <1>1 DEF FormatInv, AsksInv, Asks
  <1>3. link[l].client \in Clients /\ n \in 1..MaxRequests
    BY <1>2, LinkFacts, BoundsAssumption DEF TypeOK
  <1> QED BY <1>1, <1>2, <1>3, RequestFacts DEF Requests

LEMMA AnswerTags ==
  ASSUME TypeOK, FormatInv, NEW l \in Links, NEW r, Answering(l, r)
  PROVE  r \in Requests /\ \E n \in 1..sent[link[l].client] : r = <<link[l].client, n>>
  <1>1. PICK m \in Elems(down[l]) \cup Elems(down_buf[l]) : Tag(m) = r
    BY DEF Answering, In
  <1>2. PICK n \in 1..sent[link[l].client] : m = Reply(link[l].client, n)
    BY <1>1 DEF FormatInv, RepliesInv, Replies
  <1>3. link[l].client \in Clients /\ n \in 1..MaxRequests
    BY <1>2, LinkFacts, BoundsAssumption DEF TypeOK
  <1> QED BY <1>1, <1>2, <1>3, AskedFacts DEF Requests

LEMMA ServedTags ==
  ASSUME TypeOK, FormatInv, NEW s \in Servers, NEW r, Served(s, r)
  PROVE  /\ r \in Requests
         /\ \E c \in Clients : \E n \in 1..sent[c] : r = <<c, n>> /\ c \in Client(s, rep_request[s])
  <1>1. PICK c \in Client(s, rep_request[s]) : \E n \in 1..sent[c] : data[s] = Asked(c, n)
    BY DEF FormatInv, ServingInv, Served
  <1>2. c \in Clients
    BY LinkFacts DEF Client
  <1>3. PICK n \in 1..sent[c] : data[s] = Asked(c, n)
    BY <1>1
  <1>4. n \in 1..MaxRequests
    BY <1>2, <1>3, BoundsAssumption DEF TypeOK
  <1>5. Tag(data[s]) = <<c, n>>
    BY <1>2, <1>3, <1>4, AskedFacts
  <1> QED BY <1>2, <1>4, <1>5 DEF Requests, Served

LEMMA BreakInv ==
  ASSUME IInv, NEW l \in Links, Break(l)
  PROVE  IInv'
  <1> USE DEF IInv
  <1>1. /\ broken[l] = "no" /\ connected[l].client
        /\ UNCHANGED <<peers, round_robin, current_request, req>>
        /\ UNCHANGED <<rep_peers, streams, rep_request, envelope, rep, data, link, connected>>
        /\ UNCHANGED <<up_buf, down_buf>>
        /\ UNCHANGED <<sent, got, answers, drops, mixed, stuck>>
    BY DEF Break, reqVars, repVars, history
  <1>2. PICK how \in {"clean", "torn"} : broken' = [broken EXCEPT ![l] = how]
    BY DEF Break
  <1>3. PICK x \in 0..Len(up[l]), y \in 0..Len(down[l]) :
          /\ up' = [up EXCEPT ![l] = SubSeq(@, 1, x)]
          /\ down' = [down EXCEPT ![l] = SubSeq(@, 1, y)]
    BY DEF Break
  <1>4. /\ broken' \in [Links -> {"no", "clean", "torn"}] /\ broken'[l] # "no"
        /\ \A m \in Links : m # l => broken'[m] = broken[m] /\ up'[m] = up[m] /\ down'[m] = down[m]
    BY <1>2, <1>3 DEF TypeOK
  <1>5. /\ up'[l] = SubSeq(up[l], 1, x) /\ up[l] \in Seq(Seq(Frames))
        /\ down'[l] = SubSeq(down[l], 1, y) /\ down[l] \in Seq(Seq(Frames))
    BY <1>3 DEF TypeOK
  <1>6. /\ up'[l] \in Seq(Seq(Frames)) /\ Elems(up'[l]) \subseteq Elems(up[l])
        /\ Once(up[l]) => Once(up'[l])
        /\ \A r : In(up'[l], r) => In(up[l], r)
    BY <1>5, PrefixFacts
  <1>7. /\ down'[l] \in Seq(Seq(Frames)) /\ Elems(down'[l]) \subseteq Elems(down[l])
        /\ Once(down[l]) => Once(down'[l])
        /\ \A r : In(down'[l], r) => In(down[l], r)
    BY <1>5, PrefixFacts
  <1>8. \A m \in Links : /\ Elems(up'[m]) \subseteq Elems(up[m])
                         /\ Elems(down'[m]) \subseteq Elems(down[m])
                         /\ Once(up[m]) => Once(up'[m])
                         /\ Once(down[m]) => Once(down'[m])
                         /\ \A r : In(up'[m], r) => In(up[m], r)
                         /\ \A r : In(down'[m], r) => In(down[m], r)
                         /\ broken'[m] = "no" => broken[m] = "no" /\ up'[m] = up[m] /\ down'[m] = down[m]
    BY <1>4, <1>6, <1>7
  <1>9. TypeOK'
    <2>1. up' \in [Links -> Seq(Seq(Frames))] /\ down' \in [Links -> Seq(Seq(Frames))]
      BY <1>3, <1>5, <1>6, <1>7 DEF TypeOK
    <2> QED BY <1>1, <1>4, <2>1 DEF TypeOK
  <1>10. ReqEntriesInv' /\ RepEntriesInv' /\ StreamsInv' /\ RotationInv' /\ ReqCallInv' /\ RepCallInv'
    BY <1>1 DEF ReqEntriesInv, RepEntriesInv, StreamsInv, RotationInv, ReqCallInv, RepCallInv
  <1>11. FormatInv'
    <2>1. \A c \in Clients : Asks(c)' = Asks(c) /\ Replies(c)' = Replies(c)
      BY <1>1 DEF Asks, Replies
    <2>2. AsksInv' /\ RepliesInv'
      BY <1>1, <1>8, <2>1, LinkFacts DEF FormatInv, AsksInv, RepliesInv
    <2>3. ServingInv'
      BY <1>1 DEF FormatInv, ServingInv, Client
    <2> QED BY <2>2, <2>3 DEF FormatInv
  <1>12. QueuesInv' /\ PlaceInv' /\ AnswersInv'
    <2>1. QueuesInv'
      BY <1>1, <1>8 DEF QueuesInv
    <2>2. \A m \in Links, r \in Requests : /\ Asking(m, r)' => Asking(m, r)
                                           /\ Answering(m, r)' => Answering(m, r)
      BY <1>1, <1>8 DEF Asking, Answering
    <2>3. \A t \in Servers, r \in Requests : Served(t, r)' <=> Served(t, r)
      BY <1>1 DEF Served
    <2>4. PlaceInv'
      BY <2>2, <2>3 DEF PlaceInv
    <2>5. AnswersInv'
      BY <1>1, <2>2, <2>3 DEF AnswersInv, AnsweredOnce
    <2> QED BY <2>1, <2>4, <2>5
  <1>13. OnlyInv' /\ RoutedInv' /\ ReplyMatchesUnlessMixed' /\ FlushInv'
    BY <1>1, <1>8 DEF OnlyInv, RoutedInv, ReplyMatchesUnlessMixed, FlushInv
  <1>14. FreshInv'
    BY <1>1, <1>4 DEF FreshInv
  <1>15. WireInv'
    BY <1>1, <1>8 DEF WireInv, Current, Awaited, Flushing, ServedTo
  <1>16. TraceInv'
    BY <1>1, <1>4, <1>8, TraceStep DEF Traced
  <1> QED BY <1>9, <1>10, <1>11, <1>12, <1>13, <1>14, <1>15, <1>16

\* A request not made yet is nowhere.
LEMMA FreshTag ==
  ASSUME TypeOK, FormatInv, NEW c \in Clients, NEW n \in 1..MaxRequests, n > sent[c]
  PROVE  /\ \A l \in Links : ~Asking(l, <<c, n>>) /\ ~Answering(l, <<c, n>>)
         /\ \A s \in Servers : ~Served(s, <<c, n>>)
  <1>0. \A d \in Clients : sent[d] \in Nat
    BY BoundsAssumption DEF TypeOK
  <1>1. ASSUME NEW l \in Links, Asking(l, <<c, n>>) PROVE FALSE
    BY <1>0, <1>1, AskTags
  <1>2. ASSUME NEW l \in Links, Answering(l, <<c, n>>) PROVE FALSE
    BY <1>0, <1>2, AnswerTags
  <1>3. ASSUME NEW s \in Servers, Served(s, <<c, n>>) PROVE FALSE
    BY <1>0, <1>3, ServedTags
  <1> QED BY <1>1, <1>2, <1>3

LEMMA ReqSendInv ==
  ASSUME IInv, NEW c \in Reqs, ReqSend(c)
  PROVE  IInv'
  <1> USE DEF IInv
  <1>0. c \in Clients /\ NoKey \notin Keys
    BY NoneAssumption DEF Reqs
  <1>1. PICK k \in Keys :
          /\ k = Head(round_robin[c]) /\ k \in Elems(round_robin[c])
          /\ Tail(round_robin[c]) \in Seq(Keys) /\ Elems(Tail(round_robin[c])) \subseteq Elems(round_robin[c])
    BY <1>0, TailFacts DEF ReqSend, TypeOK
  <1>2. PICK l \in Links :
          /\ l = peers[c][k] /\ link[l].client = c /\ link[l].skey = k /\ connected[l].client
    BY <1>0, <1>1 DEF RotationInv, ReqEntriesInv, TypeOK
  <1>3. PICK n \in 1..MaxRequests : n = sent[c] + 1
    BY <1>0, BoundsAssumption DEF ReqSend, TypeOK
  <1>4. /\ req[c].at = "idle" /\ current_request[c] = NoKey
        /\ round_robin' = [round_robin EXCEPT ![c] = Append(Tail(@), k)]
        /\ sent' = [sent EXCEPT ![c] = n]
        /\ up_buf' = [up_buf EXCEPT ![l] = Append(@, Request(c, n))]
        /\ req' = [req EXCEPT ![c] = [at |-> "flush", key |-> k]]
        /\ UNCHANGED <<peers, current_request>>
        /\ UNCHANGED <<rep_peers, streams, rep_request, envelope, rep, data, link, connected>>
        /\ UNCHANGED <<up, down, down_buf, broken>>
        /\ UNCHANGED <<got, answers, drops, mixed, stuck>>
    <2>1. sent' = [sent EXCEPT ![c] = @ + 1] /\ sent'[c] = n
      BY <1>0, <1>3 DEF ReqSend, TypeOK
    <2> QED BY <2>1, <1>0, <1>1, <1>2, <1>3 DEF ReqSend, NextPeer, repVars, TypeOK
  <1>5. /\ sent' \in [Clients -> 0..MaxRequests] /\ sent'[c] = n /\ sent[c] < n
        /\ \A d \in Clients : sent[d] \in Nat /\ sent'[d] \in Nat /\ sent[d] <= sent'[d]
        /\ \A d \in Clients : d # c => sent'[d] = sent[d]
    BY <1>0, <1>3, <1>4, BoundsAssumption DEF TypeOK
  <1>6. /\ req' \in [Clients -> [at : {"idle", "flush", "recv"}, key : Keys \cup {NoKey}]]
        /\ req'[c] = [at |-> "flush", key |-> k]
        /\ \A d \in Clients : d # c => req'[d] = req[d]
    BY <1>0, <1>4 DEF TypeOK
  <1>7. Request(c, n) \in Seq(Frames) /\ Tag(Request(c, n)) = <<c, n>> /\ <<c, n>> \in Requests
    BY <1>0, RequestFacts DEF Requests
  <1>8. /\ up_buf[l] \in Seq(Seq(Frames)) /\ up_buf'[l] = Append(up_buf[l], Request(c, n))
        /\ \A m \in Links : m # l => up_buf'[m] = up_buf[m]
    BY <1>4 DEF TypeOK
  <1>9. /\ up_buf'[l] \in Seq(Seq(Frames))
        /\ Elems(up_buf'[l]) = Elems(up_buf[l]) \cup {Request(c, n)}
        /\ \A r : In(up_buf'[l], r) <=> In(up_buf[l], r) \/ r = <<c, n>>
        /\ Once(up_buf[l]) /\ ~In(up_buf[l], <<c, n>>) => Once(up_buf'[l])
    <2> DEFINE q == Append(up_buf[l], Request(c, n))
    <2>1. /\ q \in Seq(Seq(Frames)) /\ Elems(q) = Elems(up_buf[l]) \cup {Request(c, n)}
          /\ \A r : In(q, r) <=> In(up_buf[l], r) \/ Tag(Request(c, n)) = r
          /\ Once(up_buf[l]) /\ ~In(up_buf[l], Tag(Request(c, n))) => Once(q)
      BY <1>7, <1>8, AppendFacts, Zenon
    <2> HIDE DEF q
    <2>2. up_buf'[l] = q
      BY <1>8 DEF q
    <2> QED BY <2>1, <2>2, <1>7
  <1>10. /\ \A m \in Links : ~Asking(m, <<c, n>>) /\ ~Answering(m, <<c, n>>)
         /\ \A t \in Servers : ~Served(t, <<c, n>>)
    BY <1>0, <1>5, FreshTag
  <1>11. /\ \A m \in Links, r \in Requests :
              /\ Asking(m, r)' <=> (Asking(m, r) \/ (m = l /\ r = <<c, n>>))
              /\ Answering(m, r)' <=> Answering(m, r)
         /\ \A t \in Servers, r \in Requests : Served(t, r)' <=> Served(t, r)
    BY <1>4, <1>8, <1>9 DEF Asking, Answering, Served
  <1>12. TypeOK'
    <2>0. Append(Tail(round_robin[c]), k) \in Seq(Keys)
      BY <1>1, AppendFacts
    <2>1. round_robin' \in [Clients -> Seq(Keys)]
      BY <2>0, <1>0, <1>4 DEF TypeOK
    <2>2. up_buf' \in [Links -> Seq(Seq(Frames))]
      BY <1>4, <1>8, <1>9 DEF TypeOK
    <2> QED BY <1>4, <1>5, <1>6, <2>1, <2>2 DEF TypeOK
  <1>13. ReqEntriesInv' /\ RepEntriesInv' /\ StreamsInv' /\ RepCallInv'
    BY <1>4 DEF ReqEntriesInv, RepEntriesInv, StreamsInv, RepCallInv
  <1>14. RotationInv'
    <2>1. round_robin'[c] = Append(Tail(round_robin[c]), k)
      BY <1>0, <1>4 DEF TypeOK
    <2>2. Elems(round_robin'[c]) = Elems(Tail(round_robin[c])) \cup {k}
      BY <2>1, <1>1, AppendFacts
    <2>3. \A d \in Clients : Elems(round_robin'[d]) \subseteq Elems(round_robin[d])
      BY <2>2, <1>1, <1>4 DEF TypeOK
    <2> QED BY <2>3, <1>4 DEF RotationInv
  <1>15. ReqCallInv'
    <2>1. peers[c][k] # NoLink
      BY <1>2, NoneAssumption
    <2> QED BY <2>1, <1>0, <1>2, <1>4, <1>6 DEF ReqCallInv
  <1>16. FormatInv'
    <2>1. \A d \in Clients : /\ Asks(d) \subseteq Asks(d)' /\ Replies(d) \subseteq Replies(d)'
      BY <1>5 DEF Asks, Replies
    <2>2. Request(c, n) \in Asks(c)'
      BY <1>5 DEF Asks
    <2>3. AsksInv'
      BY <2>1, <2>2, <1>2, <1>4, <1>8, <1>9, LinkFacts DEF FormatInv, AsksInv
    <2>4. RepliesInv'
      BY <2>1, <1>4, LinkFacts DEF FormatInv, RepliesInv
    <2>5. ServingInv'
      <3>1. \A t \in Servers : Client(t, rep_request[t])' = Client(t, rep_request[t])
        BY <1>4 DEF Client
      <3>2. \A t \in Servers : Client(t, rep_request[t]) \subseteq Clients
        BY LinkFacts DEF Client
      <3>3. \A d \in Clients : 1..sent[d] \subseteq 1..sent'[d]
        BY <1>5
      <3> QED BY <3>1, <3>2, <3>3, <1>4 DEF FormatInv, ServingInv
    <2> QED BY <2>3, <2>4, <2>5 DEF FormatInv
  <1>17. QueuesInv'
    BY <1>4, <1>8, <1>9, <1>10 DEF QueuesInv, Asking
  <1>18. PlaceInv'
    BY <1>10, <1>11 DEF PlaceInv
  <1>19. AnswersInv'
    <2>1. answers[<<c, n>>] = 0
      BY <1>0, <1>5 DEF AnswersInv
    <2>2. \A d \in Clients, x \in 1..MaxRequests : x > sent'[d] => x > sent[d]
      BY <1>5
    <2> QED BY <2>1, <2>2, <1>4, <1>11 DEF AnswersInv, AnsweredOnce
  <1>20. OnlyInv' /\ RoutedInv' /\ ReplyMatchesUnlessMixed'
    BY <1>4 DEF OnlyInv, RoutedInv, ReplyMatchesUnlessMixed
  <1>21. FreshInv'
    BY <1>2, <1>4, <1>8 DEF FreshInv
  <1>22. WireInv'
    <2>1. ASSUME NEW m \in Links, NEW r \in Requests, Awaited(m, r) \/ Flushing(m, r)
          PROVE  link[m].client # c
      BY <2>1, <1>0, <1>4, LinkFacts DEF Awaited, Flushing
    <2>2. ASSUME NEW m \in Links, NEW r \in Requests, link[m].client # c
          PROVE  (Awaited(m, r)' <=> Awaited(m, r)) /\ (Flushing(m, r)' <=> Flushing(m, r))
      BY <2>2, <1>4, <1>5, <1>6, LinkFacts DEF Awaited, Flushing
    <2>3. Flushing(l, <<c, n>>)'
      BY <1>2, <1>4, <1>5, <1>6 DEF Flushing
    <2>4. \A m \in Links, r \in Requests :
            /\ Current(m)' <=> Current(m)
            /\ ServedTo(m, r)' <=> ServedTo(m, r)
      BY <1>4 DEF Current, ServedTo
    <2> QED BY <2>1, <2>2, <2>3, <2>4, <1>4, <1>8, <1>9 DEF WireInv
  <1>23. FlushInv'
    <2>1. SUFFICES ASSUME NEW d \in Reqs, req'[d].at = "flush"
                   PROVE  In(up_buf'[peers[d][req'[d].key]], <<d, sent'[d]>>)
      BY <1>4 DEF FlushInv
    <2>2. CASE d = c
      BY <2>2, <1>2, <1>5, <1>6, <1>9
    <2>3. CASE d # c
      <3>1. d \in Clients /\ req'[d] = req[d] /\ sent'[d] = sent[d]
        BY <2>3, <1>5, <1>6 DEF Reqs
      <3>2. peers[d][req[d].key] \in Links /\ peers[d][req[d].key] # l
        BY <2>1, <2>3, <3>1, <1>2 DEF ReqCallInv, ReqEntriesInv, TypeOK
      <3> QED BY <2>1, <3>1, <3>2, <1>8 DEF FlushInv
    <2> QED BY <2>2, <2>3
  <1>24. TraceInv'
    <2>1. \A d \in Reqs, m \in Links : current_request[d] # NoKey /\ Traced(d, m) => Traced(d, m)'
      BY <1>4, <1>5 DEF Traced, Reqs
    <2> QED BY <2>1, <1>4, TraceStep
  <1> QED BY <1>12, <1>13, <1>14, <1>15, <1>16, <1>17, <1>18, <1>19, <1>20, <1>21, <1>22, <1>23, <1>24

LEMMA DealerSendInv ==
  ASSUME IInv, NEW l \in Links, DealerSend(l)
  PROVE  IInv'
  <1> USE DEF IInv
  <1>1. PICK c \in Clients : c = link[l].client /\ c \in Dealers
    BY LinkFacts DEF DealerSend
  <1>3. PICK n \in 1..MaxRequests : n = sent[c] + 1
    BY <1>1, BoundsAssumption DEF DealerSend, TypeOK
  <1>4. /\ connected[l].client
        /\ sent' = [sent EXCEPT ![c] = n]
        /\ up' = [up EXCEPT ![l] = Append(@, Request(c, n))]
        /\ UNCHANGED <<peers, round_robin, current_request, req>>
        /\ UNCHANGED <<rep_peers, streams, rep_request, envelope, rep, data, link, connected>>
        /\ UNCHANGED <<up_buf, down, down_buf, broken>>
        /\ UNCHANGED <<got, answers, drops, mixed, stuck>>
    <2>1. sent' = [sent EXCEPT ![c] = @ + 1] /\ sent'[c] = n
      BY <1>1, <1>3 DEF DealerSend, TypeOK
    <2> QED BY <2>1, <1>1, <1>3 DEF DealerSend, reqVars, repVars, TypeOK
  <1>5. /\ sent' \in [Clients -> 0..MaxRequests] /\ sent'[c] = n /\ sent[c] < n
        /\ \A d \in Clients : sent[d] \in Nat /\ sent'[d] \in Nat /\ sent[d] <= sent'[d]
        /\ \A d \in Reqs : sent'[d] = sent[d] /\ d \in Clients /\ d # c
    <2>1. sent \in [Clients -> 0..MaxRequests] /\ MaxRequests \in Nat
      BY BoundsAssumption DEF TypeOK
    <2>2. sent' \in [Clients -> 0..MaxRequests] /\ sent'[c] = n /\ sent[c] < n
      BY <2>1, <1>3, <1>4
    <2>3. \A d \in Clients : d # c => sent'[d] = sent[d]
      BY <2>1, <1>4
    <2>4. \A d \in Reqs : d \in Clients /\ d # c
      BY <1>1 DEF Reqs
    <2> QED BY <2>1, <2>2, <2>3, <2>4
  <1>7. Request(c, n) \in Seq(Frames) /\ Tag(Request(c, n)) = <<c, n>> /\ <<c, n>> \in Requests
    BY RequestFacts DEF Requests
  <1>8. /\ up[l] \in Seq(Seq(Frames)) /\ up'[l] = Append(up[l], Request(c, n))
        /\ \A m \in Links : m # l => up'[m] = up[m]
    BY <1>4 DEF TypeOK
  <1>9. /\ up'[l] \in Seq(Seq(Frames))
        /\ Elems(up'[l]) = Elems(up[l]) \cup {Request(c, n)}
        /\ \A r : In(up'[l], r) <=> In(up[l], r) \/ r = <<c, n>>
        /\ Once(up[l]) /\ ~In(up[l], <<c, n>>) => Once(up'[l])
    <2> DEFINE q == Append(up[l], Request(c, n))
    <2>1. /\ q \in Seq(Seq(Frames)) /\ Elems(q) = Elems(up[l]) \cup {Request(c, n)}
          /\ \A r : In(q, r) <=> In(up[l], r) \/ Tag(Request(c, n)) = r
          /\ Once(up[l]) /\ ~In(up[l], Tag(Request(c, n))) => Once(q)
      BY <1>7, <1>8, AppendFacts, Zenon
    <2> HIDE DEF q
    <2>2. up'[l] = q
      BY <1>8 DEF q
    <2> QED BY <2>1, <2>2, <1>7
  <1>10. /\ \A m \in Links : ~Asking(m, <<c, n>>) /\ ~Answering(m, <<c, n>>)
         /\ \A t \in Servers : ~Served(t, <<c, n>>)
    BY <1>5, FreshTag
  <1>11. /\ \A m \in Links, r \in Requests :
              /\ Asking(m, r)' <=> (Asking(m, r) \/ (m = l /\ r = <<c, n>>))
              /\ Answering(m, r)' <=> Answering(m, r)
         /\ \A t \in Servers, r \in Requests : Served(t, r)' <=> Served(t, r)
    BY <1>4, <1>8, <1>9 DEF Asking, Answering, Served
  <1>12. TypeOK'
    <2>1. up' \in [Links -> Seq(Seq(Frames))]
      BY <1>4, <1>8, <1>9 DEF TypeOK
    <2> QED BY <1>4, <1>5, <2>1 DEF TypeOK
  <1>13. ReqEntriesInv' /\ RepEntriesInv' /\ StreamsInv' /\ RotationInv' /\ ReqCallInv' /\ RepCallInv'
    BY <1>4 DEF ReqEntriesInv, RepEntriesInv, StreamsInv, RotationInv, ReqCallInv, RepCallInv
  <1>14. FormatInv'
    <2>1. \A d \in Clients : /\ Asks(d) \subseteq Asks(d)' /\ Replies(d) \subseteq Replies(d)'
      BY <1>5 DEF Asks, Replies
    <2>2. Request(c, n) \in Asks(c)'
      BY <1>5 DEF Asks
    <2>3. AsksInv'
      BY <2>1, <2>2, <1>1, <1>4, <1>8, <1>9, LinkFacts DEF FormatInv, AsksInv
    <2>4. RepliesInv'
      BY <2>1, <1>4, LinkFacts DEF FormatInv, RepliesInv
    <2>5. ServingInv'
      <3>1. \A t \in Servers : Client(t, rep_request[t])' = Client(t, rep_request[t])
        BY <1>4 DEF Client
      <3>2. \A t \in Servers : Client(t, rep_request[t]) \subseteq Clients
        BY LinkFacts DEF Client
      <3>3. \A d \in Clients : 1..sent[d] \subseteq 1..sent'[d]
        BY <1>5
      <3> QED BY <3>1, <3>2, <3>3, <1>4 DEF FormatInv, ServingInv
    <2> QED BY <2>3, <2>4, <2>5 DEF FormatInv
  <1>15. QueuesInv'
    BY <1>4, <1>8, <1>9, <1>10 DEF QueuesInv, Asking
  <1>16. PlaceInv'
    BY <1>10, <1>11 DEF PlaceInv
  <1>17. AnswersInv'
    <2>1. answers[<<c, n>>] = 0
      BY <1>5 DEF AnswersInv
    <2>2. \A d \in Clients, x \in 1..MaxRequests : x > sent'[d] => x > sent[d]
      BY <1>5
    <2> QED BY <2>1, <2>2, <1>4, <1>11 DEF AnswersInv, AnsweredOnce
  <1>18. OnlyInv' /\ RoutedInv' /\ ReplyMatchesUnlessMixed' /\ FlushInv'
    BY <1>4, <1>5 DEF OnlyInv, RoutedInv, ReplyMatchesUnlessMixed, FlushInv
  <1>19. FreshInv'
    BY <1>4, <1>8 DEF FreshInv
  <1>20. WireInv'
    <2>1. \A m \in Links, r \in Requests : link[m].client \in Reqs =>
            /\ m # l /\ (Current(m)' <=> Current(m)) /\ (ServedTo(m, r)' <=> ServedTo(m, r))
            /\ (Awaited(m, r)' <=> Awaited(m, r)) /\ (Flushing(m, r)' <=> Flushing(m, r))
      BY <1>1, <1>4, <1>5 DEF Current, Awaited, Flushing, ServedTo
    <2> QED BY <2>1, <1>4, <1>8 DEF WireInv
  <1>21. TraceInv'
    <2>1. \A d \in Reqs, m \in Links : link[m].client = d /\ Traced(d, m) => Traced(d, m)'
      BY <1>1, <1>4, <1>5, <1>8 DEF Traced
    <2> QED BY <2>1, <1>4, TraceStep
  <1> QED BY <1>12, <1>13, <1>14, <1>15, <1>16, <1>17, <1>18, <1>19, <1>20, <1>21

LEMMA ReqFlushInv ==
  ASSUME IInv, NEW c \in Reqs, ReqFlush(c)
  PROVE  IInv'
  <1> USE DEF IInv
  <1>0. c \in Clients /\ NoKey \notin Keys
    BY NoneAssumption DEF Reqs
  <1>1. PICK k \in Keys : k = req[c].key /\ req[c].at = "flush"
    BY <1>0 DEF ReqFlush, ReqCallInv
  <1>2. PICK l \in Links :
          /\ l = peers[c][k] /\ link[l].client = c /\ link[l].skey = k /\ connected[l].client
    <2>1. peers[c][k] # NoLink /\ peers[c][k] \in Links
      BY <1>0, <1>1 DEF ReqCallInv, TypeOK
    <2> QED BY <2>1, <1>0 DEF ReqEntriesInv
  <1>3. /\ up' = IF broken[l] = "no" THEN [up EXCEPT ![l] = @ \o up_buf[l]] ELSE up
        /\ up_buf' = [up_buf EXCEPT ![l] = <<>>]
        /\ current_request' = [current_request EXCEPT ![c] = k]
        /\ req' = [req EXCEPT ![c] = [at |-> "idle", key |-> NoKey]]
        /\ UNCHANGED <<peers, round_robin>>
        /\ UNCHANGED <<rep_peers, streams, rep_request, envelope, rep, data, link, connected>>
        /\ UNCHANGED <<down, down_buf, broken>>
        /\ UNCHANGED <<sent, got, answers, drops, mixed, stuck>>
    BY <1>1, <1>2 DEF ReqFlush, ReqIdle, repVars, history
  <1>4. /\ req' \in [Clients -> [at : {"idle", "flush", "recv"}, key : Keys \cup {NoKey}]]
        /\ req'[c].at = "idle" /\ req'[c].key = NoKey
        /\ current_request' \in [Clients -> Keys \cup {NoKey}] /\ current_request'[c] = k
        /\ \A d \in Clients : d # c => req'[d] = req[d] /\ current_request'[d] = current_request[d]
    BY <1>0, <1>3 DEF TypeOK
  <1>5. current_request[c] = NoKey
    BY <1>0, <1>1 DEF ReqCallInv
  <1>6. /\ up_buf'[l] = <<>> /\ \A m \in Links : m # l => up_buf'[m] = up_buf[m] /\ up'[m] = up[m]
        /\ broken[l] = "no" => up'[l] = up[l] \o up_buf[l]
        /\ broken[l] # "no" => up'[l] = up[l]
        /\ up[l] \in Seq(Seq(Frames)) /\ up_buf[l] \in Seq(Seq(Frames))
    BY <1>3 DEF TypeOK
  <1>7. /\ Elems(up_buf'[l]) = {} /\ Once(up_buf'[l]) /\ \A r : ~In(up_buf'[l], r)
    BY <1>6, EmptyFacts
  <1>8. \A r : ~(In(up[l], r) /\ In(up_buf[l], r))
    <2>1. ASSUME NEW r, In(up[l], r), In(up_buf[l], r) PROVE FALSE
      <3>1. r \in Requests
        BY <2>1, AskTags DEF Asking
      <3> QED BY <2>1, <3>1 DEF QueuesInv
    <2> QED BY <2>1
  <1>9. /\ up'[l] \in Seq(Seq(Frames))
        /\ Elems(up[l]) \subseteq Elems(up'[l]) /\ Elems(up'[l]) \subseteq Elems(up[l]) \cup Elems(up_buf[l])
        /\ \A r : In(up'[l], r) => In(up[l], r) \/ (broken[l] = "no" /\ In(up_buf[l], r))
        /\ \A r : In(up[l], r) => In(up'[l], r)
        /\ \A r : broken[l] = "no" /\ In(up_buf[l], r) => In(up'[l], r)
        /\ Once(up'[l])
    <2>1. Once(up[l]) /\ Once(up_buf[l])
      BY DEF QueuesInv
    <2>2. CASE broken[l] # "no"
      BY <2>1, <2>2, <1>6
    <2>3. CASE broken[l] = "no"
      <3> DEFINE q == up[l] \o up_buf[l]
      <3>0. up[l] \in Seq(Seq(Frames)) /\ up_buf[l] \in Seq(Seq(Frames))
        BY <1>6
      <3>1. /\ q \in Seq(Seq(Frames)) /\ Elems(q) = Elems(up[l]) \cup Elems(up_buf[l])
            /\ \A r : In(q, r) <=> In(up[l], r) \/ In(up_buf[l], r)
        BY <3>0, ConcatFacts, Zenon
      <3>3. Once(q)
        BY <3>0, <2>1, <1>8, ConcatFacts, Zenon
      <3> HIDE DEF q
      <3>2. up'[l] = q
        BY <2>3, <1>6 DEF q
      <3> QED BY <3>1, <3>2, <3>3, <2>3
    <2> QED BY <2>2, <2>3
  <1>10. /\ \A m \in Links, r \in Requests : /\ Asking(m, r)' => Asking(m, r)
                                             /\ Answering(m, r)' <=> Answering(m, r)
         /\ \A t \in Servers, r \in Requests : Served(t, r)' <=> Served(t, r)
    BY <1>3, <1>6, <1>7, <1>9 DEF Asking, Answering, Served
  <1>11. TypeOK'
    <2>1. up_buf' \in [Links -> Seq(Seq(Frames))]
      BY <1>3 DEF TypeOK
    <2>2. up' \in [Links -> Seq(Seq(Frames))]
      BY <1>3, <1>6, <1>9 DEF TypeOK
    <2> QED BY <1>3, <1>4, <2>1, <2>2 DEF TypeOK
  <1>12. ReqEntriesInv' /\ RepEntriesInv' /\ StreamsInv' /\ RotationInv' /\ RepCallInv'
    BY <1>3 DEF ReqEntriesInv, RepEntriesInv, StreamsInv, RotationInv, RepCallInv
  <1>13. ReqCallInv'
    <2>1. peers[c][k] # NoLink
      BY <1>2, NoneAssumption
    <2> QED BY <2>1, <1>0, <1>3, <1>4 DEF ReqCallInv
  <1>14. FormatInv'
    <2>1. \A d \in Clients : Asks(d)' = Asks(d) /\ Replies(d)' = Replies(d)
      BY <1>3 DEF Asks, Replies
    <2>2. AsksInv'
      BY <2>1, <1>3, <1>6, <1>7, <1>9, LinkFacts DEF FormatInv, AsksInv
    <2>3. RepliesInv'
      BY <2>1, <1>3, LinkFacts DEF FormatInv, RepliesInv
    <2>4. ServingInv'
      BY <1>3 DEF FormatInv, ServingInv, Client
    <2> QED BY <2>2, <2>3, <2>4 DEF FormatInv
  <1>15. QueuesInv'
    BY <1>3, <1>6, <1>7, <1>9 DEF QueuesInv
  <1>16. PlaceInv'
    BY <1>10 DEF PlaceInv
  <1>17. AnswersInv'
    BY <1>3, <1>10 DEF AnswersInv, AnsweredOnce
  <1>18. OnlyInv' /\ RoutedInv' /\ ReplyMatchesUnlessMixed'
    BY <1>3 DEF OnlyInv, RoutedInv, ReplyMatchesUnlessMixed
  <1>19. FreshInv'
    BY <1>2, <1>3, <1>6 DEF FreshInv
  <1>20. WireInv'
    <2>1. ASSUME NEW m \in Links, NEW r \in Requests, Awaited(m, r)
          PROVE  Awaited(m, r)' /\ m # l
      BY <2>1, <1>0, <1>2, <1>3, <1>4, <1>5, LinkFacts DEF Awaited
    <2>2. ASSUME NEW m \in Links, NEW r \in Requests, Current(m), Flushing(m, r)
          PROVE  IF m = l THEN Awaited(m, r)' ELSE Flushing(m, r)'
      <3>1. CASE m = l
        BY <2>2, <3>1, <1>2, <1>3, <1>4 DEF Flushing, Awaited
      <3>2. CASE m # l
        <4>1. link[m].client # c
          <5>1. SUFFICES ASSUME link[m].client = c PROVE FALSE
            OBVIOUS
          <5>2. req[c].key = link[m].skey
            BY <2>2, <5>1 DEF Flushing
          <5> QED BY <2>2, <3>2, <5>1, <5>2, <1>1, <1>2 DEF Current
        <4> QED BY <2>2, <3>2, <4>1, <1>3, <1>4, LinkFacts DEF Flushing
      <3> QED BY <3>1, <3>2
    <2>3. \A m \in Links, r \in Requests :
            /\ Current(m)' <=> Current(m)
            /\ ServedTo(m, r)' <=> ServedTo(m, r)
      BY <1>3 DEF Current, ServedTo
    <2> QED BY <2>1, <2>2, <2>3, <1>3, <1>6, <1>7, <1>9 DEF WireInv
  <1>21. ASSUME NEW d \in Reqs, d # c, NEW x \in Keys, peers[d][x] # NoLink
         PROVE  peers[d][x] \in Links /\ peers[d][x] # l
    BY <1>2, <1>21 DEF ReqEntriesInv, TypeOK, Reqs
  <1>22. FlushInv'
    <2>1. SUFFICES ASSUME NEW d \in Reqs, req'[d].at = "flush"
                   PROVE  In(up_buf'[peers[d][req'[d].key]], <<d, sent[d]>>)
      BY <1>3 DEF FlushInv
    <2>2. d \in Clients /\ d # c /\ req'[d] = req[d]
      BY <2>1, <1>4 DEF Reqs
    <2>3. peers[d][req[d].key] \in Links /\ peers[d][req[d].key] # l
      BY <2>1, <2>2, <1>21 DEF ReqCallInv
    <2> QED BY <2>1, <2>2, <2>3, <1>6 DEF FlushInv
  <1>23. TraceInv'
    <2>1. SUFFICES ASSUME NEW d \in Reqs \ (mixed \cup stuck), current_request'[d] # NoKey
                   PROVE  Traced(d, peers[d][current_request[d]])'
      BY <1>3 DEF TraceInv
    <2>2. CASE d = c
      <3>1. In(up_buf[l], <<c, sent[c]>>)
        BY <1>1, <1>2 DEF FlushInv
      <3>2. peers'[d][current_request'[d]] = l
        BY <2>2, <1>2, <1>3, <1>4
      <3>3. broken'[l] # "no" \/ In(up'[l], <<d, sent'[d]>>)
        BY <3>1, <2>2, <1>3, <1>9
      <3> QED BY <3>2, <3>3 DEF Traced
    <2>3. CASE d # c
      <3>1. d \in Clients /\ current_request'[d] = current_request[d] /\ current_request[d] \in Keys
        BY <2>1, <2>3, <1>4 DEF Reqs, TypeOK
      <3>2. PICK m \in Links : m = peers[d][current_request[d]] /\ m # l
        BY <2>1, <2>3, <3>1, <1>21 DEF ReqCallInv
      <3>3. Traced(d, m)
        BY <2>1, <3>1, <3>2 DEF TraceInv
      <3>4. Traced(d, m)'
        BY <3>2, <3>3, <1>3, <1>6 DEF Traced
      <3>5. peers'[d][current_request'[d]] = m
        BY <3>1, <3>2, <1>3
      <3> QED BY <3>4, <3>5
    <2> QED BY <2>2, <2>3
  <1> QED BY <1>11, <1>12, <1>13, <1>14, <1>15, <1>16, <1>17, <1>18, <1>19, <1>20, <1>22, <1>23

LEMMA ReqReplyInv ==
  ASSUME IInv, NEW c \in Reqs, ReqReply(c)
  PROVE  IInv'
  <1> USE DEF IInv
  <1>0. c \in Clients /\ c \notin Dealers /\ NoKey \notin Keys
    BY NoneAssumption DEF Reqs
  <1>1. PICK k \in Keys : k = req[c].key /\ req[c].at = "recv" /\ current_request[c] = k
    BY <1>0 DEF ReqReply, ReqCallInv
  <1>2. PICK l \in Links :
          /\ l = peers[c][k] /\ link[l].client = c /\ link[l].skey = k /\ connected[l].client
    <2>1. peers[c][k] # NoLink /\ peers[c][k] \in Links
      BY <1>0, <1>1 DEF ReqCallInv, TypeOK
    <2> QED BY <2>1, <1>0 DEF ReqEntriesInv
  <1>3. /\ down[l] # <<>>
        /\ got' = [got EXCEPT ![c] = <<sent[c], ReplyData(Head(down[l]))>>]
        /\ down' = [down EXCEPT ![l] = Tail(@)]
        /\ current_request' = [current_request EXCEPT ![c] = NoKey]
        /\ req' = [req EXCEPT ![c] = [at |-> "idle", key |-> NoKey]]
        /\ UNCHANGED <<peers, round_robin>>
        /\ UNCHANGED <<rep_peers, streams, rep_request, envelope, rep, data, link, connected>>
        /\ UNCHANGED <<up, up_buf, down_buf, broken>>
        /\ UNCHANGED <<sent, answers, drops, mixed, stuck>>
    BY <1>1, <1>2 DEF ReqReply, ReqIdle, repVars
  <1>4. /\ req' \in [Clients -> [at : {"idle", "flush", "recv"}, key : Keys \cup {NoKey}]]
        /\ req'[c].at = "idle" /\ req'[c].key = NoKey
        /\ current_request' \in [Clients -> Keys \cup {NoKey}] /\ current_request'[c] = NoKey
        /\ \A d \in Clients : d # c => req'[d] = req[d] /\ current_request'[d] = current_request[d]
    BY <1>0, <1>3 DEF TypeOK
  <1>5. /\ down[l] \in Seq(Seq(Frames)) /\ down'[l] = Tail(down[l])
        /\ \A m \in Links : m # l => down'[m] = down[m]
    BY <1>3 DEF TypeOK
  <1>6. /\ down'[l] \in Seq(Seq(Frames)) /\ Head(down[l]) \in Elems(down[l])
        /\ Elems(down'[l]) \subseteq Elems(down[l])
        /\ \A r : In(down[l], r) <=> In(down'[l], r) \/ Tag(Head(down[l])) = r
        /\ Once(down[l]) => Once(down'[l]) /\ ~In(down'[l], Tag(Head(down[l])))
    <2>1. /\ Tail(down[l]) \in Seq(Seq(Frames)) /\ Head(down[l]) \in Elems(down[l])
          /\ Elems(Tail(down[l])) \subseteq Elems(down[l])
          /\ \A r : In(down[l], r) <=> In(Tail(down[l]), r) \/ Tag(Head(down[l])) = r
          /\ Once(down[l]) => Once(Tail(down[l])) /\ ~In(Tail(down[l]), Tag(Head(down[l])))
      BY <1>3, <1>5, TailFacts, Zenon
    <2> QED BY <2>1, <1>5
  <1>7. PICK n \in 1..sent[c] : Head(down[l]) = Reply(c, n)
    <2>1. Head(down[l]) \in Replies(c)
      BY <1>2, <1>6 DEF FormatInv, RepliesInv
    <2> QED BY <2>1 DEF Replies
  <1>8. n \in 1..MaxRequests /\ <<c, n>> \in Requests
    BY <1>0, <1>7, BoundsAssumption DEF TypeOK, Requests
  <1>9. Tag(Head(down[l])) = <<c, n>> /\ ReplyData(Head(down[l])) = Payload(c, n)
    BY <1>0, <1>7, <1>8, AskedFacts
  <1>10. Current(l) /\ (c \notin mixed => n = sent[c])
    <2>1. In(down[l], <<c, n>>)
      BY <1>6, <1>9
    <2> QED BY <2>1, <1>2, <1>8 DEF WireInv, Current, Awaited
  <1>11. /\ ~Asking(l, <<c, n>>) /\ ~In(down_buf[l], <<c, n>>) /\ ~In(down'[l], <<c, n>>)
         /\ \A t \in Servers : ~Served(t, <<c, n>>)
    <2>1. In(down[l], <<c, n>>) /\ Once(down[l])
      BY <1>6, <1>9 DEF QueuesInv
    <2>2. answers[<<c, n>>] = 1
      BY <2>1, <1>8 DEF AnswersInv, Answering
    <2>3. ~Asking(l, <<c, n>>) /\ \A t \in Servers : ~Served(t, <<c, n>>)
      BY <2>2, <1>8 DEF AnswersInv
    <2>4. ~In(down_buf[l], <<c, n>>)
      BY <2>1, <1>8 DEF QueuesInv
    <2>5. ~In(down'[l], <<c, n>>)
      BY <2>1, <1>6, <1>9
    <2> QED BY <2>3, <2>4, <2>5
  <1>12. TypeOK'
    <2>1. down' \in [Links -> Seq(Seq(Frames))]
      BY <1>3, <1>5, <1>6 DEF TypeOK
    <2>2. DOMAIN got' = Clients
      BY <1>3 DEF TypeOK
    <2> QED BY <1>3, <1>4, <2>1, <2>2 DEF TypeOK
  <1>13. ReqEntriesInv' /\ RepEntriesInv' /\ StreamsInv' /\ RotationInv' /\ RepCallInv'
    BY <1>3 DEF ReqEntriesInv, RepEntriesInv, StreamsInv, RotationInv, RepCallInv
  <1>14. ReqCallInv'
    BY <1>0, <1>3, <1>4 DEF ReqCallInv
  <1>15. FormatInv'
    <2>1. \A d \in Clients : Asks(d)' = Asks(d) /\ Replies(d)' = Replies(d)
      BY <1>3 DEF Asks, Replies
    <2>2. AsksInv'
      BY <2>1, <1>3, LinkFacts DEF FormatInv, AsksInv
    <2>3. RepliesInv'
      BY <2>1, <1>3, <1>5, <1>6, LinkFacts DEF FormatInv, RepliesInv
    <2>4. ServingInv'
      BY <1>3 DEF FormatInv, ServingInv, Client
    <2> QED BY <2>2, <2>3, <2>4 DEF FormatInv
  <1>16. /\ \A m \in Links, r \in Requests : /\ Asking(m, r)' <=> Asking(m, r)
                                             /\ Answering(m, r)' => Answering(m, r)
         /\ \A t \in Servers, r \in Requests : Served(t, r)' <=> Served(t, r)
    BY <1>3, <1>5, <1>6 DEF Asking, Answering, Served
  <1>17. QueuesInv'
    BY <1>3, <1>5, <1>6 DEF QueuesInv
  <1>18. PlaceInv'
    BY <1>16 DEF PlaceInv
  <1>19. AnswersInv'
    BY <1>3, <1>16 DEF AnswersInv, AnsweredOnce
  <1>20. OnlyInv' /\ RoutedInv'
    BY <1>3 DEF OnlyInv, RoutedInv
  <1>21. ReplyMatchesUnlessMixed'
    <2>1. SUFFICES ASSUME NEW d \in Reqs \ mixed, got'[d] # <<>>
                   PROVE  got'[d][2] = Payload(d, got'[d][1])
      BY <1>3 DEF ReplyMatchesUnlessMixed
    <2>2. CASE d = c
      <3>1. got'[d] = <<sent[c], Payload(c, n)>> /\ n = sent[c]
        BY <2>1, <2>2, <1>0, <1>3, <1>9, <1>10 DEF TypeOK
      <3> QED BY <2>2, <3>1
    <2>3. CASE d # c
      <3>1. got'[d] = got[d]
        BY <2>3, <1>3 DEF TypeOK
      <3> QED BY <2>1, <3>1 DEF ReplyMatchesUnlessMixed
    <2> QED BY <2>2, <2>3
  <1>22. FreshInv'
    BY <1>2, <1>3, <1>5 DEF FreshInv
  <1>23. WireInv'
    <2>1. ASSUME NEW m \in Links, NEW r \in Requests, Current(m), Awaited(m, r), link[m].client \notin mixed
          PROVE  Awaited(m, r)' \/ (m = l /\ r = <<c, n>>)
      BY <2>1, <1>0, <1>1, <1>2, <1>3, <1>4, <1>10, LinkFacts DEF Awaited, Current
    <2>2. ASSUME NEW m \in Links, NEW r \in Requests, Flushing(m, r)
          PROVE  Flushing(m, r)'
      BY <2>2, <1>0, <1>1, <1>3, <1>4, LinkFacts DEF Flushing
    <2>3. \A m \in Links, r \in Requests :
            /\ Current(m)' <=> Current(m)
            /\ ServedTo(m, r)' <=> ServedTo(m, r)
      BY <1>3 DEF Current, ServedTo
    <2>4. ~ServedTo(l, <<c, n>>)
      BY <1>0, <1>11, LinkFacts DEF ServedTo, Served
    <2>5. ~In(up[l], <<c, n>>)
      BY <1>11 DEF Asking
    <2> QED BY <2>1, <2>2, <2>3, <2>4, <2>5, <1>3, <1>5, <1>6, <1>11 DEF WireInv
  <1>24. FlushInv'
    BY <1>0, <1>3, <1>4 DEF FlushInv, Reqs
  <1>25. TraceInv'
    <2>1. \A d \in Reqs, m \in Links : /\ link[m].client = d /\ d # c /\ Traced(d, m) => Traced(d, m)'
      BY <1>2, <1>3, <1>5 DEF Traced
    <2>2. \A d \in Reqs : current_request'[d] # NoKey => d # c /\ current_request[d] = current_request'[d]
      BY <1>4 DEF Reqs
    <2>3. SUFFICES ASSUME NEW d \in Reqs \ (mixed \cup stuck), current_request'[d] # NoKey
                   PROVE  Traced(d, peers[d][current_request[d]])'
      BY <1>3 DEF TraceInv
    <2>4. d \in Clients /\ d # c /\ current_request[d] = current_request'[d] /\ current_request[d] \in Keys
      BY <2>2, <2>3 DEF Reqs, TypeOK
    <2>5. PICK m \in Links : m = peers[d][current_request[d]] /\ link[m].client = d
      BY <2>3, <2>4 DEF ReqCallInv, ReqEntriesInv, TypeOK
    <2>6. Traced(d, m)'
      BY <2>1, <2>3, <2>4, <2>5 DEF TraceInv
    <2>7. peers'[d][current_request'[d]] = m
      BY <2>4, <2>5, <1>3
    <2> QED BY <2>6, <2>7
  <1> QED BY <1>12, <1>13, <1>14, <1>15, <1>17, <1>18, <1>19, <1>20, <1>21, <1>22, <1>23, <1>24, <1>25

LEMMA RepRecvInv ==
  ASSUME IInv, NEW s \in Servers, NEW k \in Keys, RepRecv(s, k)
  PROVE  IInv'
  <1> USE DEF IInv
  <1>0. NoKey \notin Keys
    BY NoneAssumption
  <1>1. PICK l \in Links :
          /\ l = streams[s][k] /\ link[l].server = s /\ link[l].ckey = k /\ connected[l].server = "inserted"
    BY DEF RepRecv, StreamsInv, TypeOK
  <1>2. PICK h : h = Head(up[l])
    OBVIOUS
  <1>3. /\ rep[s].at = "idle" /\ up[l] # <<>>
        /\ rep_request[s] # NoKey => drops < MaxDrops
        /\ Remember(s, k, h)
        /\ up' = [up EXCEPT ![l] = Tail(@)]
        /\ drops' = IF rep_request[s] # NoKey THEN drops + 1 ELSE drops
        /\ stuck' = IF rep_request[s] # NoKey /\ Len(h) >= 2 THEN stuck \cup Client(s, rep_request[s]) ELSE stuck
        /\ UNCHANGED <<peers, round_robin, current_request, req>>
        /\ UNCHANGED <<rep_peers, streams, rep, link, connected, down, up_buf, down_buf, broken>>
        /\ UNCHANGED <<sent, got, answers, mixed>>
    BY <1>1, <1>2 DEF RepRecv, reqVars
  <1>4. /\ up[l] \in Seq(Seq(Frames)) /\ up'[l] = Tail(up[l])
        /\ \A m \in Links : m # l => up'[m] = up[m]
    BY <1>3 DEF TypeOK
  <1>5. /\ up'[l] \in Seq(Seq(Frames)) /\ h \in Elems(up[l])
        /\ Elems(up'[l]) \subseteq Elems(up[l])
        /\ \A r : In(up[l], r) <=> In(up'[l], r) \/ Tag(h) = r
        /\ Once(up[l]) => Once(up'[l]) /\ ~In(up'[l], Tag(h))
    <2>1. /\ Tail(up[l]) \in Seq(Seq(Frames)) /\ Head(up[l]) \in Elems(up[l])
          /\ Elems(Tail(up[l])) \subseteq Elems(up[l])
          /\ \A r : In(up[l], r) <=> In(Tail(up[l]), r) \/ Tag(Head(up[l])) = r
          /\ Once(up[l]) => Once(Tail(up[l])) /\ ~In(Tail(up[l]), Tag(Head(up[l])))
      BY <1>3, <1>4, TailFacts, Zenon
    <2> QED BY <2>1, <1>2, <1>4
  <1>6. PICK c \in Clients, n \in 1..MaxRequests : /\ c = link[l].client /\ n \in 1..sent[c] /\ h = Request(c, n)
    <2>1. h \in Asks(link[l].client)
      BY <1>5 DEF FormatInv, AsksInv
    <2>2. PICK n \in 1..sent[link[l].client] : h = Request(link[l].client, n)
      BY <2>1 DEF Asks
    <2>3. link[l].client \in Clients /\ n \in 1..MaxRequests
      BY <2>2, LinkFacts, BoundsAssumption DEF TypeOK
    <2> QED BY <2>2, <2>3
  <1>7. /\ Tag(h) = <<c, n>> /\ <<c, n>> \in Requests /\ Len(h) \in Nat
        /\ c \notin Dealers => Len(h) >= 2
    BY <1>6, RequestFacts DEF Requests
  <1>8. /\ Len(h) < 2 => UNCHANGED <<rep_request, envelope, data>>
        /\ Len(h) >= 2 => /\ rep_request' = [rep_request EXCEPT ![s] = k]
                          /\ envelope' = [envelope EXCEPT ![s] = Delimiter]
                          /\ data' = [data EXCEPT ![s] = Asked(c, n)]
    <2>1. CASE Len(h) < 2
      BY <2>1, <1>3, <1>7 DEF Remember
    <2>2. CASE Len(h) >= 2
      <3>1. SubSeq(h, 1, EnvelopeLen(h)) = Delimiter /\ Rest(h, EnvelopeLen(h)) = Asked(c, n)
        BY <2>2, <1>6, RequestFacts
      <3>2. ~(Len(h) < 2)
        BY <2>2, <1>7
      <3> QED BY <3>1, <3>2, <1>3 DEF Remember
    <2> QED BY <2>1, <2>2, <1>7
  <1>9. Asked(c, n) \in Seq(Frames) /\ Tag(Asked(c, n)) = <<c, n>> /\ Delimiter \in Seq(Frames)
    BY AskedFacts DEF Delimiter, Frames
  <1>10. /\ rep_request' \in [Servers -> Keys \cup {NoKey}]
         /\ data' \in [Servers -> Seq(Frames)] /\ envelope' \in [Servers -> Seq(Frames)]
         /\ \A t \in Servers : t # s \/ Len(h) < 2 =>
              rep_request'[t] = rep_request[t] /\ data'[t] = data[t] /\ envelope'[t] = envelope[t]
         /\ Len(h) >= 2 => rep_request'[s] = k /\ data'[s] = Asked(c, n) /\ envelope'[s] = Delimiter
    <2>1. CASE Len(h) < 2
      BY <2>1, <1>7, <1>8 DEF TypeOK
    <2>2. CASE Len(h) >= 2
      <3>0. /\ rep_request' = [rep_request EXCEPT ![s] = k]
            /\ envelope' = [envelope EXCEPT ![s] = Delimiter]
            /\ data' = [data EXCEPT ![s] = Asked(c, n)]
            /\ rep_request \in [Servers -> Keys \cup {NoKey}]
            /\ data \in [Servers -> Seq(Frames)] /\ envelope \in [Servers -> Seq(Frames)]
        BY <2>2, <1>8 DEF TypeOK
      <3>1. rep_request' \in [Servers -> Keys \cup {NoKey}] /\ rep_request'[s] = k
            /\ \A t \in Servers : t # s => rep_request'[t] = rep_request[t]
        BY <3>0
      <3>2. data' \in [Servers -> Seq(Frames)] /\ data'[s] = Asked(c, n)
            /\ \A t \in Servers : t # s => data'[t] = data[t]
        BY <3>0, <1>9
      <3>3. envelope' \in [Servers -> Seq(Frames)] /\ envelope'[s] = Delimiter
            /\ \A t \in Servers : t # s => envelope'[t] = envelope[t]
        BY <3>0, <1>9
      <3>4. ~(Len(h) < 2)
        BY <2>2, <1>7
      <3> QED BY <3>1, <3>2, <3>3, <3>4
    <2> QED BY <2>1, <2>2, <1>7
  <1>11. stuck \subseteq stuck' /\ stuck' \subseteq Clients
    <2>1. Client(s, rep_request[s]) \subseteq Clients
      BY LinkFacts DEF Client
    <2> QED BY <2>1, <1>3 DEF TypeOK
  <1>12. TypeOK'
    <2>1. drops' \in 0..MaxDrops
      BY <1>3, BoundsAssumption DEF TypeOK
    <2>2. up' \in [Links -> Seq(Seq(Frames))]
      BY <1>3, <1>4, <1>5 DEF TypeOK
    <2> QED BY <1>3, <1>10, <1>11, <2>1, <2>2 DEF TypeOK
  <1>13. ReqEntriesInv' /\ RepEntriesInv' /\ StreamsInv' /\ RotationInv' /\ ReqCallInv'
    BY <1>3 DEF ReqEntriesInv, RepEntriesInv, StreamsInv, RotationInv, ReqCallInv
  <1>14. RepCallInv'
    <2>1. SUFFICES ASSUME NEW t \in Servers, rep_request'[t] # NoKey
                   PROVE  \E m \in Links : /\ link[m].server = t /\ link[m].ckey = rep_request'[t]
                                           /\ connected[m].server # "new"
      BY <1>3 DEF RepCallInv
    <2>2. CASE t # s \/ Len(h) < 2
      <3>1. rep_request'[t] = rep_request[t]
        BY <2>2, <1>10
      <3> QED BY <2>1, <3>1 DEF RepCallInv
    <2>3. CASE t = s /\ Len(h) >= 2
      BY <2>3, <1>1, <1>10
    <2> QED BY <2>2, <2>3, <1>7
  <1>15. FormatInv'
    <2>1. \A d \in Clients : Asks(d)' = Asks(d) /\ Replies(d)' = Replies(d)
      BY <1>3 DEF Asks, Replies
    <2>2. AsksInv'
      BY <2>1, <1>3, <1>4, <1>5, LinkFacts DEF FormatInv, AsksInv
    <2>3. RepliesInv'
      BY <2>1, <1>3, LinkFacts DEF FormatInv, RepliesInv
    <2>4. ServingInv'
      <3>1. SUFFICES ASSUME NEW t \in Servers, rep_request'[t] # NoKey
                     PROVE  \E d \in Client(t, rep_request'[t]) : \E x \in 1..sent[d] :
                              data'[t] = Asked(d, x) /\ envelope'[t] = Delimiter
        BY <1>3 DEF ServingInv, Client
      <3>2. CASE t # s \/ Len(h) < 2
        <4>1. rep_request'[t] = rep_request[t] /\ data'[t] = data[t] /\ envelope'[t] = envelope[t]
          BY <3>2, <1>10
        <4> QED BY <3>1, <4>1 DEF FormatInv, ServingInv
      <3>3. CASE t = s /\ Len(h) >= 2
        <4>1. c \in Client(t, rep_request'[t])
          BY <3>3, <1>1, <1>6, <1>10 DEF Client
        <4> QED BY <3>3, <4>1, <1>6, <1>10
      <3> QED BY <3>2, <3>3, <1>7
    <2> QED BY <2>2, <2>3, <2>4 DEF FormatInv
  <1>16. QueuesInv'
    BY <1>3, <1>4, <1>5 DEF QueuesInv
  <1>17. /\ In(up[l], <<c, n>>) /\ Asking(l, <<c, n>>) /\ ~In(up'[l], <<c, n>>) /\ ~In(up_buf[l], <<c, n>>)
    BY <1>5, <1>7 DEF QueuesInv, Asking
  <1>18. \A m \in Links, r \in Requests : /\ Asking(m, r)' => Asking(m, r) /\ r # <<c, n>>
                                          /\ Answering(m, r)' <=> Answering(m, r)
    <2>1. ASSUME NEW m \in Links, NEW r \in Requests, Asking(m, r)' PROVE Asking(m, r) /\ r # <<c, n>>
      <3>1. Asking(m, r)
        BY <2>1, <1>3, <1>4, <1>5 DEF Asking
      <3>2. r = <<c, n>> => m = l
        BY <3>1, <1>7, <1>17 DEF PlaceInv
      <3> QED BY <2>1, <3>1, <3>2, <1>3, <1>17 DEF Asking
    <2>2. \A m \in Links, r \in Requests : Answering(m, r)' <=> Answering(m, r)
      BY <1>3 DEF Answering
    <2> QED BY <2>1, <2>2
  <1>19. \A t \in Servers, r \in Requests : Served(t, r)' => Served(t, r) \/ (t = s /\ r = <<c, n>>)
    BY <1>7, <1>9, <1>10 DEF Served
  <1>20. \A t \in Servers : ~Served(t, <<c, n>>)
    BY <1>7, <1>17 DEF PlaceInv
  <1>21. PlaceInv'
    BY <1>18, <1>19, <1>20 DEF PlaceInv
  <1>22. AnswersInv'
    <2>1. answers[<<c, n>>] = 0
      BY <1>7, <1>17 DEF AnswersInv
    <2> QED BY <2>1, <1>3, <1>18, <1>19 DEF AnswersInv, AnsweredOnce
  <1>23. OnlyInv' /\ RoutedInv' /\ ReplyMatchesUnlessMixed' /\ FlushInv'
    BY <1>3 DEF OnlyInv, RoutedInv, ReplyMatchesUnlessMixed, FlushInv
  <1>24. ASSUME NEW m \in Links, link[m].client \notin mixed,
                rep_peers[link[m].server][link[m].ckey] = m,
                rep_request'[link[m].server] = link[m].ckey
         PROVE  \/ rep_request[link[m].server] = link[m].ckey /\ data'[link[m].server] = data[link[m].server]
                \/ m = l /\ Tag(data'[link[m].server]) = <<c, n>>
    <2>1. CASE link[m].server # s \/ Len(h) < 2
      BY <2>1, <1>24, <1>10, LinkFacts
    <2>2. CASE link[m].server = s /\ Len(h) >= 2
      <3>1. link[m].ckey = k /\ data'[link[m].server] = Asked(c, n)
        BY <2>2, <1>24, <1>10
      <3>2. connected[m].server # "new"
        <4>1. m # NoLink
          BY NoneAssumption
        <4> QED BY <4>1, <1>24, LinkFacts DEF RepEntriesInv
      <3>3. m = l
        BY <2>2, <3>1, <3>2, <1>1, <1>24 DEF OnlyInv
      <3> QED BY <3>1, <3>3, <1>9
    <2> QED BY <2>1, <2>2, <1>7
  <1>25. connected[l].client
    BY <1>3 DEF FreshInv
  <1>26. FreshInv'
    <2>1. SUFFICES ASSUME NEW m \in Links, ~connected[m].client
                   PROVE  /\ up'[m] = <<>> /\ up_buf[m] = <<>>
                          /\ link[m].client \notin mixed =>
                               /\ down[m] = <<>> /\ down_buf[m] = <<>>
                               /\ ~(/\ rep_peers[link[m].server][link[m].ckey] = m
                                    /\ rep_request'[link[m].server] = link[m].ckey)
      BY <1>3 DEF FreshInv
    <2>2. m # l
      BY <2>1, <1>25
    <2> QED BY <2>1, <2>2, <1>4, <1>24 DEF FreshInv
  <1>27. WireInv'
    <2>1. ASSUME NEW m \in Links, NEW r \in Requests, link[m].client \notin mixed, ServedTo(m, r)'
          PROVE  ServedTo(m, r) \/ In(up[m], r)
      BY <2>1, <1>3, <1>17, <1>24 DEF ServedTo
    <2>2. \A m \in Links, r \in Requests : /\ Current(m)' <=> Current(m)
                                           /\ Awaited(m, r)' <=> Awaited(m, r)
                                           /\ Flushing(m, r)' <=> Flushing(m, r)
                                           /\ In(up'[m], r) => In(up[m], r)
      BY <1>3, <1>4, <1>5 DEF Current, Awaited, Flushing
    <2> QED BY <2>1, <2>2, <1>3 DEF WireInv
  <1>28. TraceInv'
    <2>1. ASSUME NEW d \in Reqs \ (mixed' \cup stuck'), NEW m \in Links, link[m].client = d, Traced(d, m)
          PROVE  Traced(d, m)'
      <3>1. d \in Clients /\ d \notin Dealers
        BY <2>1 DEF Reqs
      <3>2. CASE broken[m] # "no" \/ In(down[m], <<d, sent[d]>>)
        BY <3>2, <1>3 DEF Traced
      <3>3. CASE In(up[m], <<d, sent[d]>>)
        <4>1. CASE In(up'[m], <<d, sent[d]>>)
          BY <4>1, <1>3 DEF Traced
        <4>2. CASE ~In(up'[m], <<d, sent[d]>>)
          <5>1. m = l /\ <<d, sent[d]>> = <<c, n>>
            BY <3>3, <4>2, <1>4, <1>5, <1>7
          <5>2. rep_request'[s] = k /\ Tag(data'[s]) = <<c, n>>
            BY <5>1, <2>1, <3>1, <1>6, <1>7, <1>9, <1>10
          <5> QED BY <5>1, <5>2, <1>1, <1>3 DEF Traced
        <4> QED BY <4>1, <4>2
      <3>4. CASE /\ connected[m].server = "inserted"
                 /\ rep_request[link[m].server] = link[m].ckey
                 /\ Tag(data[link[m].server]) = <<d, sent[d]>>
        <4>1. CASE link[m].server # s \/ Len(h) < 2
          BY <3>4, <4>1, <1>3, <1>10, LinkFacts DEF Traced
        <4>2. CASE link[m].server = s /\ Len(h) >= 2
          <5>1. d \in Client(s, rep_request[s]) /\ rep_request[s] # NoKey
            BY <2>1, <3>4, <4>2, <1>0, LinkFacts DEF Client
          <5> QED BY <2>1, <4>2, <5>1, <1>3
        <4> QED BY <4>1, <4>2, <1>7
      <3>5. CASE /\ connected[m].server = "inserted"
                 /\ rep[link[m].server] = [at |-> "flush", key |-> link[m].ckey]
                 /\ In(down_buf[m], <<d, sent[d]>>)
        BY <3>5, <1>3 DEF Traced
      <3> QED BY <2>1, <3>2, <3>3, <3>4, <3>5 DEF Traced
    <2> QED BY <2>1, <1>3, <1>11, TraceStep
  <1> QED BY <1>12, <1>13, <1>14, <1>15, <1>16, <1>21, <1>22, <1>23, <1>26, <1>27, <1>28

\* send finds no peer: the reply is given back and the request is over.
LEMMA RepSendBackInv ==
  ASSUME IInv, NEW s \in Servers, RepSend(s), rep_peers[s][rep_request[s]] = NoLink
  PROVE  IInv'
  <1> USE DEF IInv
  <1>1. PICK k \in Keys : k = rep_request[s]
    BY DEF RepSend, TypeOK
  <1>2. /\ rep[s].at = "idle" /\ rep_peers[s][k] = NoLink
        /\ rep_request' = [rep_request EXCEPT ![s] = NoKey]
        /\ stuck' = stuck \cup Client(s, k)
        /\ UNCHANGED <<peers, round_robin, current_request, req>>
        /\ UNCHANGED <<rep_peers, streams, envelope, rep, data, link, connected>>
        /\ UNCHANGED <<up, down, up_buf, down_buf, broken>>
        /\ UNCHANGED <<sent, got, answers, drops, mixed>>
    BY <1>1 DEF RepSend, TakeRequest, reqVars
  <1>3. /\ rep_request' \in [Servers -> Keys \cup {NoKey}] /\ rep_request'[s] = NoKey
        /\ \A t \in Servers : t # s => rep_request'[t] = rep_request[t]
    BY <1>2 DEF TypeOK
  <1>4. stuck' \subseteq Clients
    <2>1. Client(s, k) \subseteq Clients
      BY LinkFacts DEF Client
    <2> QED BY <2>1, <1>2 DEF TypeOK
  <1>5. TypeOK'
    BY <1>2, <1>3, <1>4 DEF TypeOK
  <1>6. ReqEntriesInv' /\ RepEntriesInv' /\ StreamsInv' /\ RotationInv' /\ ReqCallInv'
    BY <1>2 DEF ReqEntriesInv, RepEntriesInv, StreamsInv, RotationInv, ReqCallInv
  <1>7. RepCallInv'
    BY <1>2, <1>3 DEF RepCallInv
  <1>8. FormatInv'
    <2>1. AsksInv' /\ RepliesInv'
      BY <1>2 DEF FormatInv, AsksInv, RepliesInv, Asks, Replies
    <2>2. ServingInv'
      BY <1>2, <1>3 DEF FormatInv, ServingInv, Client
    <2> QED BY <2>1, <2>2 DEF FormatInv
  <1>9. QueuesInv'
    BY <1>2 DEF QueuesInv
  <1>10. /\ \A m \in Links, r \in Requests : /\ Asking(m, r)' <=> Asking(m, r)
                                             /\ Answering(m, r)' <=> Answering(m, r)
         /\ \A t \in Servers, r \in Requests : Served(t, r)' => Served(t, r)
    BY <1>2, <1>3 DEF Asking, Answering, Served
  <1>11. PlaceInv' /\ AnswersInv'
    BY <1>2, <1>10 DEF PlaceInv, AnswersInv, AnsweredOnce
  <1>12. OnlyInv' /\ RoutedInv' /\ ReplyMatchesUnlessMixed' /\ FlushInv'
    BY <1>2 DEF OnlyInv, RoutedInv, ReplyMatchesUnlessMixed, FlushInv
  <1>13. \A m \in Links : rep_request'[link[m].server] = link[m].ckey => rep_request[link[m].server] = link[m].ckey
    BY <1>3, LinkFacts, NoneAssumption
  <1>14. FreshInv'
    BY <1>2, <1>13 DEF FreshInv
  <1>15. WireInv'
    BY <1>2, <1>13 DEF WireInv, Current, Awaited, Flushing, ServedTo
  <1>16. TraceInv'
    <2>1. ASSUME NEW d \in Reqs \ (mixed' \cup stuck'), NEW m \in Links, link[m].client = d, Traced(d, m)
          PROVE  Traced(d, m)'
      <3>1. rep_request[link[m].server] = link[m].ckey => rep_request'[link[m].server] = link[m].ckey
        BY <2>1, <1>1, <1>2, <1>3, LinkFacts DEF Client
      <3> QED BY <2>1, <3>1, <1>2 DEF Traced
    <2> QED BY <2>1, <1>2, TraceStep
  <1> QED BY <1>5, <1>6, <1>7, <1>8, <1>9, <1>11, <1>12, <1>14, <1>15, <1>16

\* send writes the reply to the connection of the peer.
LEMMA RepSendReplyInv ==
  ASSUME IInv, NEW s \in Servers, RepSend(s), rep_peers[s][rep_request[s]] # NoLink
  PROVE  IInv'
  <1> USE DEF IInv
  <1>0. NoKey \notin Keys
    BY NoneAssumption
  <1>1. PICK k \in Keys : k = rep_request[s]
    BY DEF RepSend, TypeOK
  <1>2. PICK l \in Links : /\ l = rep_peers[s][k] /\ link[l].server = s /\ link[l].ckey = k
                           /\ connected[l].server # "new"
    <2>1. rep_peers[s][k] \in Links
      BY <1>1 DEF TypeOK
    <2> QED BY <1>1, <2>1 DEF RepEntriesInv
  <1>3. PICK c \in Clients, n \in 1..MaxRequests :
          /\ c = link[l].client /\ n \in 1..sent[c] /\ data[s] = Asked(c, n) /\ envelope[s] = Delimiter
    <2>1. PICK d \in Client(s, k) : \E x \in 1..sent[d] : data[s] = Asked(d, x) /\ envelope[s] = Delimiter
      BY <1>0, <1>1 DEF FormatInv, ServingInv
    <2>2. PICK m \in Links : link[m].server = s /\ link[m].ckey = k /\ link[m].client = d
      BY <2>1 DEF Client
    <2>3. d = link[l].client /\ d \in Clients
      BY <2>2, <1>2, OneClient, LinkFacts
    <2>4. PICK x \in 1..sent[d] : data[s] = Asked(d, x) /\ envelope[s] = Delimiter
      BY <2>1
    <2>5. x \in 1..MaxRequests
      BY <2>3, <2>4, BoundsAssumption DEF TypeOK
    <2> QED BY <2>3, <2>4, <2>5
  <1>4. /\ Tag(data[s]) = <<c, n>> /\ <<c, n>> \in Requests
        /\ Reply(c, n) \in Seq(Frames) /\ Tag(Reply(c, n)) = <<c, n>>
    BY <1>3, AskedFacts DEF Requests
  <1>5. /\ rep[s].at = "idle"
        /\ rep_request' = [rep_request EXCEPT ![s] = NoKey]
        /\ down_buf' = [down_buf EXCEPT ![l] = Append(@, Reply(c, n))]
        /\ envelope' = [envelope EXCEPT ![s] = <<>>]
        /\ rep' = [rep EXCEPT ![s] = [at |-> "flush", key |-> k]]
        /\ answers' = [answers EXCEPT ![<<c, n>>] = @ + 1]
        /\ UNCHANGED <<peers, round_robin, current_request, req>>
        /\ UNCHANGED <<rep_peers, streams, data, link, connected>>
        /\ UNCHANGED <<up, down, up_buf, broken>>
        /\ UNCHANGED <<sent, got, drops, mixed, stuck>>
    <2>1. data[s][Len(data[s])] = <<c, n>> /\ envelope[s] \o data[s] = Reply(c, n)
      BY <1>3, <1>4, Zenon DEF Tag, Reply
    <2>2. /\ rep[s].at = "idle" /\ TakeRequest(s)
          /\ down_buf' = [down_buf EXCEPT ![l] = Append(@, envelope[s] \o data[s])]
          /\ envelope' = [envelope EXCEPT ![s] = <<>>]
          /\ rep' = [rep EXCEPT ![s] = [at |-> "flush", key |-> k]]
          /\ answers' = [answers EXCEPT ![data[s][Len(data[s])]] = @ + 1]
          /\ UNCHANGED stuck
          /\ UNCHANGED <<reqVars, rep_peers, streams, data, link, connected, up, down, up_buf, broken,
                         sent, got, drops, mixed>>
      BY <1>1, <1>2, Zenon DEF RepSend
    <2> QED BY <2>1, <2>2, Zenon DEF TakeRequest, reqVars
  <1>6. /\ rep_request' \in [Servers -> Keys \cup {NoKey}] /\ rep_request'[s] = NoKey
        /\ \A t \in Servers : t # s => rep_request'[t] = rep_request[t] /\ rep'[t] = rep[t]
                                       /\ envelope'[t] = envelope[t]
        /\ rep' \in [Servers -> [at : {"idle", "flush"}, key : Keys \cup {NoKey}]]
        /\ rep'[s] = [at |-> "flush", key |-> k]
        /\ envelope' \in [Servers -> Seq(Frames)]
    BY <1>5 DEF TypeOK
  <1>7. /\ Served(s, <<c, n>>) /\ answers[<<c, n>>] = 0
    BY <1>0, <1>1, <1>4 DEF Served, AnswersInv
  <1>8. /\ answers' \in [Requests -> Nat] /\ answers'[<<c, n>>] = 1
        /\ \A r \in Requests : r # <<c, n>> => answers'[r] = answers[r]
    <2>1. answers \in [Requests -> Nat]
      BY DEF TypeOK
    <2> QED BY <2>1, <1>4, <1>5, <1>7
  <1>9. /\ down_buf[l] \in Seq(Seq(Frames)) /\ down_buf'[l] = Append(down_buf[l], Reply(c, n))
        /\ \A m \in Links : m # l => down_buf'[m] = down_buf[m]
    BY <1>5 DEF TypeOK
  <1>10. /\ down_buf'[l] \in Seq(Seq(Frames))
         /\ Elems(down_buf'[l]) = Elems(down_buf[l]) \cup {Reply(c, n)}
         /\ \A r : In(down_buf'[l], r) <=> (In(down_buf[l], r) \/ r = <<c, n>>)
         /\ Once(down_buf[l]) /\ ~In(down_buf[l], <<c, n>>) => Once(down_buf'[l])
    <2> DEFINE q == Append(down_buf[l], Reply(c, n))
    <2>0. down_buf[l] \in Seq(Seq(Frames)) /\ Reply(c, n) \in Seq(Frames)
      BY <1>4, <1>9
    <2>1. /\ q \in Seq(Seq(Frames)) /\ Elems(q) = Elems(down_buf[l]) \cup {Reply(c, n)}
          /\ \A r : In(q, r) <=> In(down_buf[l], r) \/ Tag(Reply(c, n)) = r
      BY <2>0, AppendFacts, Zenon
    <2>2. Once(down_buf[l]) /\ ~In(down_buf[l], Tag(Reply(c, n))) => Once(q)
      BY <2>0, AppendFacts, Zenon
    <2> HIDE DEF q
    <2>3. down_buf'[l] = q
      BY <1>9 DEF q
    <2> QED BY <2>1, <2>2, <2>3, <1>4
  <1>11. \A m \in Links : ~Asking(m, <<c, n>>) /\ ~Answering(m, <<c, n>>)
    BY <1>4, <1>7 DEF PlaceInv, AnswersInv
  <1>12. /\ \A m \in Links, r \in Requests :
              /\ Asking(m, r)' <=> Asking(m, r)
              /\ Answering(m, r)' => Answering(m, r) \/ (m = l /\ r = <<c, n>>)
         /\ \A t \in Servers, r \in Requests : Served(t, r)' => Served(t, r) /\ r # <<c, n>>
    <2>1. \A m \in Links, r \in Requests :
              /\ Asking(m, r)' <=> Asking(m, r)
              /\ Answering(m, r)' => Answering(m, r) \/ (m = l /\ r = <<c, n>>)
      BY <1>5, <1>9, <1>10 DEF Asking, Answering
    <2>2. \A t \in Servers, r \in Requests : Served(t, r)' => Served(t, r) /\ t # s
      BY <1>5, <1>6 DEF Served
    <2>3. \A t \in Servers : Served(t, <<c, n>>) => t = s
      BY <1>4, <1>7 DEF PlaceInv
    <2> QED BY <2>1, <2>2, <2>3
  <1>13. TypeOK'
    <2>1. down_buf' \in [Links -> Seq(Seq(Frames))]
      BY <1>5, <1>9, <1>10 DEF TypeOK
    <2> QED BY <1>5, <1>6, <1>8, <2>1 DEF TypeOK
  <1>14. ReqEntriesInv' /\ RepEntriesInv' /\ StreamsInv' /\ RotationInv' /\ ReqCallInv'
    BY <1>5 DEF ReqEntriesInv, RepEntriesInv, StreamsInv, RotationInv, ReqCallInv
  <1>15. RepCallInv'
    <2>1. rep_peers[s][k] # NoLink
      BY <1>2, NoneAssumption
    <2> QED BY <2>1, <1>5, <1>6 DEF RepCallInv
  <1>16. FormatInv'
    <2>1. \A d \in Clients : Asks(d)' = Asks(d) /\ Replies(d)' = Replies(d)
      BY <1>5 DEF Asks, Replies
    <2>2. Reply(c, n) \in Replies(c)
      BY <1>3 DEF Replies
    <2>3. AsksInv'
      BY <2>1, <1>5, LinkFacts DEF FormatInv, AsksInv
    <2>4. RepliesInv'
      <3>1. SUFFICES ASSUME NEW m \in Links
                     PROVE  Elems(down[m]) \cup Elems(down_buf'[m]) \subseteq Replies(link[m].client)
        BY <2>1, <1>5, LinkFacts DEF RepliesInv
      <3>2. Elems(down[m]) \cup Elems(down_buf[m]) \subseteq Replies(link[m].client)
        BY DEF FormatInv, RepliesInv
      <3>3. CASE m = l
        BY <3>2, <3>3, <2>2, <1>3, <1>10
      <3>4. CASE m # l
        BY <3>2, <3>4, <1>9
      <3> QED BY <3>3, <3>4
    <2>5. ServingInv'
      <3>1. SUFFICES ASSUME NEW t \in Servers, rep_request'[t] # NoKey
                     PROVE  \E d \in Client(t, rep_request'[t]) : \E x \in 1..sent[d] :
                              data[t] = Asked(d, x) /\ envelope'[t] = Delimiter
        BY <1>5 DEF ServingInv, Client
      <3>2. rep_request'[t] = rep_request[t] /\ envelope'[t] = envelope[t]
        BY <3>1, <1>6
      <3> QED BY <3>1, <3>2 DEF FormatInv, ServingInv
    <2> QED BY <2>3, <2>4, <2>5 DEF FormatInv
  <1>17. QueuesInv'
    BY <1>5, <1>9, <1>10, <1>11 DEF QueuesInv, Answering
  <1>18. PlaceInv'
    BY <1>12 DEF PlaceInv
  <1>19. AnswersInv'
    <2>1. AnsweredOnce'
      <3>1. \A r \in Requests : answers[r] <= 1
        BY DEF AnswersInv, AnsweredOnce
      <3>2. \A r \in Requests : answers'[r] <= 1
        <4>1. SUFFICES ASSUME NEW r \in Requests PROVE answers'[r] <= 1
          OBVIOUS
        <4>2. CASE r = <<c, n>>
          BY <4>2, <1>8
        <4>3. CASE r # <<c, n>>
          BY <4>3, <3>1, <1>8
        <4> QED BY <4>2, <4>3
      <3> QED BY <3>2 DEF AnsweredOnce
    <2>2. /\ \A m \in Links, r \in Requests : Asking(m, r)' => answers'[r] = 0
          /\ \A t \in Servers, r \in Requests : Served(t, r)' => answers'[r] = 0
          /\ \A m \in Links, r \in Requests : Answering(m, r)' => answers'[r] = 1
      BY <1>4, <1>8, <1>11, <1>12 DEF AnswersInv
    <2>3. ASSUME NEW d \in Clients, NEW x \in 1..MaxRequests, x > sent[d]
          PROVE  answers'[<<d, x>>] = 0
      <3>1. <<d, x>> # <<c, n>> /\ <<d, x>> \in Requests
        <4>1. c \in Clients /\ sent[c] \in Nat
          BY BoundsAssumption DEF TypeOK
        <4> QED BY <2>3, <4>1, <1>3 DEF Requests
      <3> QED BY <2>3, <3>1, <1>8 DEF AnswersInv
    <2> QED BY <2>1, <2>2, <2>3, <1>5 DEF AnswersInv
  <1>20. OnlyInv' /\ RoutedInv' /\ ReplyMatchesUnlessMixed' /\ FlushInv'
    BY <1>5 DEF OnlyInv, RoutedInv, ReplyMatchesUnlessMixed, FlushInv
  <1>21. \A m \in Links : rep_request'[link[m].server] = link[m].ckey => rep_request[link[m].server] = link[m].ckey
    BY <1>0, <1>6, LinkFacts
  <1>22. FreshInv'
    <2>1. ASSUME ~connected[l].client PROVE link[l].client \in mixed
      BY <2>1, <1>1, <1>2 DEF FreshInv
    <2> QED BY <2>1, <1>5, <1>9, <1>21 DEF FreshInv
  <1>23. WireInv'
    <2>1. ServedTo(l, <<c, n>>)
      BY <1>1, <1>2, <1>4 DEF ServedTo
    <2>2. \A m \in Links, r \in Requests : /\ Current(m)' <=> Current(m)
                                           /\ Awaited(m, r)' <=> Awaited(m, r)
                                           /\ Flushing(m, r)' <=> Flushing(m, r)
                                           /\ ServedTo(m, r)' => ServedTo(m, r)
                                           /\ In(down_buf'[m], r) => In(down_buf[m], r) \/ ServedTo(m, r)
      BY <2>1, <1>5, <1>9, <1>10, <1>21 DEF Current, Awaited, Flushing, ServedTo
    <2> QED BY <2>2, <1>5 DEF WireInv
  <1>24. TraceInv'
    <2>1. ASSUME NEW d \in Reqs \ (mixed' \cup stuck'), NEW m \in Links, link[m].client = d, Traced(d, m)
          PROVE  Traced(d, m)'
      <3>1. CASE broken[m] # "no" \/ In(up[m], <<d, sent[d]>>) \/ In(down[m], <<d, sent[d]>>)
        BY <3>1, <1>5 DEF Traced
      <3>2. CASE /\ broken[m] = "no" /\ connected[m].server = "inserted"
                 /\ rep_request[link[m].server] = link[m].ckey
                 /\ Tag(data[link[m].server]) = <<d, sent[d]>>
        <4>1. CASE link[m].server # s
          BY <3>2, <4>1, <1>5, <1>6, LinkFacts DEF Traced
        <4>2. CASE link[m].server = s
          <5>1. m = l
            BY <2>1, <3>2, <4>2, <1>1, <1>2, <1>5 DEF RoutedInv
          <5>2. In(down_buf'[m], <<d, sent[d]>>)
            BY <5>1, <3>2, <4>2, <1>4, <1>10
          <5> QED BY <3>2, <5>1, <5>2, <1>2, <1>5, <1>6 DEF Traced
        <4> QED BY <4>1, <4>2
      <3>3. CASE /\ connected[m].server = "inserted"
                 /\ rep[link[m].server] = [at |-> "flush", key |-> link[m].ckey]
                 /\ In(down_buf[m], <<d, sent[d]>>)
        <4>1. link[m].server # s
          BY <3>3, <1>5
        <4>2. In(down_buf'[m], <<d, sent[d]>>)
          BY <3>3, <1>9, <1>10
        <4> QED BY <3>3, <4>1, <4>2, <1>5, <1>6, LinkFacts DEF Traced
      <3> QED BY <2>1, <3>1, <3>2, <3>3 DEF Traced
    <2> QED BY <2>1, <1>5, TraceStep
  <1> QED BY <1>13, <1>14, <1>15, <1>16, <1>17, <1>18, <1>19, <1>20, <1>22, <1>23, <1>24

LEMMA RepFlushInv ==
  ASSUME IInv, NEW s \in Servers, RepFlush(s)
  PROVE  IInv'
  <1> USE DEF IInv
  <1>1. PICK k \in Keys : k = rep[s].key /\ rep[s].at = "flush" /\ rep_peers[s][k] # NoLink
    BY DEF RepFlush, RepCallInv
  <1>2. PICK l \in Links : /\ l = rep_peers[s][k] /\ link[l].server = s /\ link[l].ckey = k
                           /\ connected[l].server # "new"
    <2>1. rep_peers[s][k] \in Links
      BY <1>1 DEF TypeOK
    <2> QED BY <1>1, <2>1 DEF RepEntriesInv
  <1>3. /\ down' = IF broken[l] = "no" THEN [down EXCEPT ![l] = @ \o down_buf[l]] ELSE down
        /\ down_buf' = [down_buf EXCEPT ![l] = <<>>]
        /\ rep' = [rep EXCEPT ![s] = [at |-> "idle", key |-> NoKey]]
        /\ UNCHANGED <<peers, round_robin, current_request, req>>
        /\ UNCHANGED <<rep_peers, streams, rep_request, envelope, data, link, connected>>
        /\ UNCHANGED <<up, up_buf, broken>>
        /\ UNCHANGED <<sent, got, answers, drops, mixed, stuck>>
    BY <1>1, <1>2 DEF RepFlush, RepIdle, reqVars, history
  <1>4. /\ rep' \in [Servers -> [at : {"idle", "flush"}, key : Keys \cup {NoKey}]]
        /\ rep'[s].at = "idle"
        /\ \A t \in Servers : t # s => rep'[t] = rep[t]
    BY <1>3 DEF TypeOK
  <1>5. /\ down_buf'[l] = <<>> /\ \A m \in Links : m # l => down_buf'[m] = down_buf[m] /\ down'[m] = down[m]
        /\ broken[l] = "no" => down'[l] = down[l] \o down_buf[l]
        /\ broken[l] # "no" => down'[l] = down[l]
        /\ down[l] \in Seq(Seq(Frames)) /\ down_buf[l] \in Seq(Seq(Frames))
    BY <1>3 DEF TypeOK
  <1>6. Elems(down_buf'[l]) = {} /\ Once(down_buf'[l]) /\ \A r : ~In(down_buf'[l], r)
    BY <1>5, EmptyFacts
  <1>7. \A r : ~(In(down[l], r) /\ In(down_buf[l], r))
    <2>1. ASSUME NEW r, In(down[l], r), In(down_buf[l], r) PROVE FALSE
      <3>1. r \in Requests
        BY <2>1, AnswerTags DEF Answering
      <3> QED BY <2>1, <3>1 DEF QueuesInv
    <2> QED BY <2>1
  <1>8. /\ down'[l] \in Seq(Seq(Frames))
        /\ Elems(down'[l]) \subseteq Elems(down[l]) \cup Elems(down_buf[l])
        /\ \A r : In(down'[l], r) => In(down[l], r) \/ (broken[l] = "no" /\ In(down_buf[l], r))
        /\ \A r : In(down[l], r) => In(down'[l], r)
        /\ \A r : broken[l] = "no" /\ In(down_buf[l], r) => In(down'[l], r)
        /\ Once(down'[l])
    <2>1. Once(down[l]) /\ Once(down_buf[l])
      BY DEF QueuesInv
    <2>2. CASE broken[l] # "no"
      BY <2>1, <2>2, <1>5
    <2>3. CASE broken[l] = "no"
      <3> DEFINE q == down[l] \o down_buf[l]
      <3>0. down[l] \in Seq(Seq(Frames)) /\ down_buf[l] \in Seq(Seq(Frames))
        BY <1>5
      <3>1. /\ q \in Seq(Seq(Frames)) /\ Elems(q) = Elems(down[l]) \cup Elems(down_buf[l])
            /\ \A r : In(q, r) <=> In(down[l], r) \/ In(down_buf[l], r)
        BY <3>0, ConcatFacts, Zenon
      <3>3. Once(q)
        BY <3>0, <2>1, <1>7, ConcatFacts, Zenon
      <3> HIDE DEF q
      <3>2. down'[l] = q
        BY <2>3, <1>5 DEF q
      <3> QED BY <3>1, <3>2, <3>3, <2>3
    <2> QED BY <2>2, <2>3
  <1>9. /\ \A m \in Links, r \in Requests : /\ Asking(m, r)' <=> Asking(m, r)
                                            /\ Answering(m, r)' => Answering(m, r)
        /\ \A t \in Servers, r \in Requests : Served(t, r)' <=> Served(t, r)
    BY <1>3, <1>5, <1>6, <1>8 DEF Asking, Answering, Served
  <1>10. TypeOK'
    <2>1. down_buf' \in [Links -> Seq(Seq(Frames))]
      BY <1>3 DEF TypeOK
    <2>2. down' \in [Links -> Seq(Seq(Frames))]
      BY <1>3, <1>5, <1>8 DEF TypeOK
    <2> QED BY <1>3, <1>4, <2>1, <2>2 DEF TypeOK
  <1>11. ReqEntriesInv' /\ RepEntriesInv' /\ StreamsInv' /\ RotationInv' /\ ReqCallInv'
    BY <1>3 DEF ReqEntriesInv, RepEntriesInv, StreamsInv, RotationInv, ReqCallInv
  <1>12. RepCallInv'
    BY <1>3, <1>4 DEF RepCallInv
  <1>13. FormatInv'
    <2>1. \A d \in Clients : Asks(d)' = Asks(d) /\ Replies(d)' = Replies(d)
      BY <1>3 DEF Asks, Replies
    <2>2. AsksInv'
      BY <2>1, <1>3, LinkFacts DEF FormatInv, AsksInv
    <2>3. RepliesInv'
      <3>1. SUFFICES ASSUME NEW m \in Links
                     PROVE  Elems(down'[m]) \cup Elems(down_buf'[m]) \subseteq Replies(link[m].client)
        BY <2>1, <1>3, LinkFacts DEF RepliesInv
      <3>2. Elems(down[m]) \cup Elems(down_buf[m]) \subseteq Replies(link[m].client)
        BY DEF FormatInv, RepliesInv
      <3>3. CASE m = l
        BY <3>2, <3>3, <1>6, <1>8
      <3>4. CASE m # l
        BY <3>2, <3>4, <1>5
      <3> QED BY <3>3, <3>4
    <2>4. ServingInv'
      BY <1>3 DEF FormatInv, ServingInv, Client
    <2> QED BY <2>2, <2>3, <2>4 DEF FormatInv
  <1>14. QueuesInv'
    BY <1>3, <1>5, <1>6, <1>8 DEF QueuesInv
  <1>15. PlaceInv' /\ AnswersInv'
    BY <1>3, <1>9 DEF PlaceInv, AnswersInv, AnsweredOnce
  <1>16. OnlyInv' /\ RoutedInv' /\ ReplyMatchesUnlessMixed' /\ FlushInv'
    BY <1>3 DEF OnlyInv, RoutedInv, ReplyMatchesUnlessMixed, FlushInv
  <1>17. FreshInv'
    <2>1. <<>> \o <<>> = <<>>
      OBVIOUS
    <2>2. down[l] = <<>> /\ down_buf[l] = <<>> => down'[l] = <<>>
      BY <2>1, <1>5
    <2> QED BY <2>2, <1>3, <1>5 DEF FreshInv
  <1>18. WireInv'
    <2>1. \A m \in Links, r \in Requests : /\ Current(m)' <=> Current(m)
                                           /\ Awaited(m, r)' <=> Awaited(m, r)
                                           /\ Flushing(m, r)' <=> Flushing(m, r)
                                           /\ ServedTo(m, r)' <=> ServedTo(m, r)
                                           /\ In(down_buf'[m], r) => In(down_buf[m], r)
                                           /\ In(down'[m], r) => \/ In(down[m], r)
                                                                 \/ broken[m] = "no" /\ In(down_buf[m], r)
      BY <1>3, <1>5, <1>6, <1>8 DEF Current, Awaited, Flushing, ServedTo
    <2> QED BY <2>1, <1>3 DEF WireInv
  <1>19. TraceInv'
    <2>1. ASSUME NEW d \in Reqs \ (mixed' \cup stuck'), NEW m \in Links, link[m].client = d, Traced(d, m)
          PROVE  Traced(d, m)'
      <3>1. CASE broken[m] # "no" \/ In(up[m], <<d, sent[d]>>)
        BY <3>1, <1>3 DEF Traced
      <3>2. CASE In(down[m], <<d, sent[d]>>)
        <4>1. In(down'[m], <<d, sent[d]>>)
          BY <3>2, <1>5, <1>8
        <4> QED BY <4>1, <1>3 DEF Traced
      <3>3. CASE /\ connected[m].server = "inserted"
                 /\ rep_request[link[m].server] = link[m].ckey
                 /\ Tag(data[link[m].server]) = <<d, sent[d]>>
        BY <3>3, <1>3 DEF Traced
      <3>4. CASE /\ broken[m] = "no" /\ connected[m].server = "inserted"
                 /\ rep[link[m].server] = [at |-> "flush", key |-> link[m].ckey]
                 /\ In(down_buf[m], <<d, sent[d]>>)
        <4>1. CASE link[m].server # s
          <5>1. m # l /\ rep'[link[m].server] = rep[link[m].server]
            BY <4>1, <1>2, <1>4, LinkFacts
          <5> QED BY <3>4, <5>1, <1>3, <1>5 DEF Traced
        <4>2. CASE link[m].server = s
          <5>1. m = l
            <6>1. link[m].ckey = k /\ link[m].client \notin mixed
              BY <2>1, <3>4, <4>2, <1>1, <1>3
            <6> QED BY <3>4, <4>2, <6>1, <1>2 DEF RoutedInv
          <5>2. In(down'[m], <<d, sent[d]>>)
            BY <5>1, <3>4, <1>8
          <5> QED BY <5>2, <1>3 DEF Traced
        <4> QED BY <4>1, <4>2
      <3> QED BY <2>1, <3>1, <3>2, <3>3, <3>4 DEF Traced
    <2> QED BY <2>1, <1>3, TraceStep
  <1> QED BY <1>10, <1>11, <1>12, <1>13, <1>14, <1>15, <1>16, <1>17, <1>18, <1>19

-----------------------------------------------------------------------------
(* The invariant *)

LEMMA InitInv ==
  ASSUME Init
  PROVE  IInv
  <1> USE DEF Init
  <1>1. TypeOK
    <2>1. /\ \A x : <<>> \in Seq(x)
          /\ NoKey \in Keys \cup {NoKey} /\ NoLink \in Links \cup {NoLink}
      OBVIOUS
    <2>2. /\ peers \in [Clients -> [Keys -> Links \cup {NoLink}]]
          /\ rep_peers \in [Servers -> [Keys -> Links \cup {NoLink}]]
          /\ streams \in [Servers -> [Keys -> Links \cup {NoLink}]]
          /\ current_request \in [Clients -> Keys \cup {NoKey}]
          /\ rep_request \in [Servers -> Keys \cup {NoKey}]
      OBVIOUS
    <2>3. /\ req \in [Clients -> [at : {"idle", "flush", "recv"}, key : Keys \cup {NoKey}]]
          /\ rep \in [Servers -> [at : {"idle", "flush"}, key : Keys \cup {NoKey}]]
          /\ connected \in [Links -> [client : BOOLEAN, server : {"new", "upserted", "inserted"}]]
          /\ broken \in [Links -> {"no", "clean", "torn"}]
      OBVIOUS
    <2>4. /\ round_robin \in [Clients -> Seq(Keys)]
          /\ envelope \in [Servers -> Seq(Frames)] /\ data \in [Servers -> Seq(Frames)]
          /\ up \in [Links -> Seq(Seq(Frames))] /\ down \in [Links -> Seq(Seq(Frames))]
          /\ up_buf \in [Links -> Seq(Seq(Frames))] /\ down_buf \in [Links -> Seq(Seq(Frames))]
      BY <2>1
    <2>5. /\ sent \in [Clients -> 0..MaxRequests] /\ answers \in [Requests -> Nat]
          /\ DOMAIN got = Clients /\ drops \in 0..MaxDrops
      BY BoundsAssumption
    <2> QED BY <2>2, <2>3, <2>4, <2>5 DEF TypeOK
  <1>2. ReqEntriesInv /\ RepEntriesInv /\ StreamsInv
    BY DEF ReqEntriesInv, RepEntriesInv, StreamsInv
  <1>3. RotationInv /\ ReqCallInv /\ RepCallInv
    BY EmptyFacts DEF RotationInv, ReqCallInv, RepCallInv
  <1>4. FormatInv
    BY EmptyFacts DEF FormatInv, AsksInv, RepliesInv, ServingInv
  <1>5. QueuesInv
    BY EmptyFacts DEF QueuesInv
  <1>6. PlaceInv
    BY EmptyFacts DEF PlaceInv, Asking, Served
  <1>7. AnswersInv
    <2>1. \A r \in Requests : answers[r] = 0
      OBVIOUS
    <2>2. \A l \in Links, r \in Requests : ~Answering(l, r)
      BY EmptyFacts DEF Answering
    <2>3. \A c \in Clients, n \in 1..MaxRequests : <<c, n>> \in Requests
      BY DEF Requests
    <2> QED BY <2>1, <2>2, <2>3 DEF AnswersInv, AnsweredOnce
  <1>8. OnlyInv
    BY DEF OnlyInv
  <1>9. \A l \in Links : /\ link[l].client \in Clients /\ link[l].server \in Servers
                         /\ link[l].ckey \in Keys /\ link[l].skey \in Keys
    BY <1>1, LinkFacts
  <1>10. FreshInv
    BY <1>9, NoneAssumption DEF FreshInv
  <1>11. WireInv
    BY <1>9, EmptyFacts, NoneAssumption DEF WireInv, Current
  <1>12. RoutedInv
    BY DEF RoutedInv
  <1>13. ReplyMatchesUnlessMixed /\ FlushInv /\ TraceInv
    BY DEF ReplyMatchesUnlessMixed, FlushInv, TraceInv, Reqs
  <1> QED BY <1>1, <1>2, <1>3, <1>4, <1>5, <1>6, <1>7, <1>8, <1>10, <1>11, <1>12, <1>13 DEF IInv

LEMMA StutterInv ==
  ASSUME IInv, UNCHANGED vars
  PROVE  IInv'
  <1>1. /\ UNCHANGED <<peers, round_robin, current_request, req>>
        /\ UNCHANGED <<rep_peers, streams, rep_request, envelope, rep, data, link, connected>>
        /\ UNCHANGED <<up, down, up_buf, down_buf, broken>>
        /\ UNCHANGED <<sent, got, answers, drops, mixed, stuck>>
    BY DEF vars, reqVars, repVars, wires, history
  <1> USE DEF IInv
  <1>2. TypeOK'
    BY <1>1 DEF TypeOK
  <1>3. ReqEntriesInv' /\ RepEntriesInv' /\ StreamsInv' /\ RotationInv' /\ ReqCallInv' /\ RepCallInv'
    BY <1>1 DEF ReqEntriesInv, RepEntriesInv, StreamsInv, RotationInv, ReqCallInv, RepCallInv
  <1>4. FormatInv' /\ QueuesInv' /\ PlaceInv' /\ AnswersInv'
    BY <1>1, MessagesFrame
  <1>5. OnlyInv' /\ FreshInv' /\ RoutedInv' /\ ReplyMatchesUnlessMixed' /\ FlushInv'
    BY <1>1 DEF OnlyInv, FreshInv, RoutedInv, ReplyMatchesUnlessMixed, FlushInv
  <1>6. WireInv'
    BY <1>1 DEF WireInv, Current, Awaited, Flushing, ServedTo
  <1>7. TraceInv'
    BY <1>1, TraceStep DEF Traced
  <1> QED BY <1>2, <1>3, <1>4, <1>5, <1>6, <1>7

LEMMA NextInv ==
  ASSUME IInv, Next
  PROVE  IInv'
  <1>1. ASSUME NEW l \in Links, \/ ReqConnected(l) \/ DealerConnected(l) \/ RepUpsert(l) \/ RepInsert(l)
                                \/ DealerSend(l) \/ Break(l)
        PROVE  IInv'
    BY <1>1, ReqConnectedInv, DealerConnectedInv, RepUpsertInv, RepInsertInv, DealerSendInv, BreakInv
  <1>2. ASSUME NEW c \in Reqs, \/ ReqSend(c) \/ ReqFlush(c) \/ ReqFlushFails(c) \/ ReqDropSend(c)
                               \/ ReqDropLookup(c) \/ ReqRecv(c) \/ ReqReply(c) \/ ReqRecvEnd(c) \/ ReqDropRecv(c)
        PROVE  IInv'
    BY <1>2, ReqSendInv, ReqFlushInv, ReqFlushFailsInv, ReqDropSendInv, ReqDropLookupInv,
       ReqRecvInv, ReqReplyInv,
       ReqRecvEndInv, ReqDropRecvInv
  <1>3. ASSUME NEW s \in Servers, RepSend(s) \/ RepFlush(s) \/ RepDropSend(s)
        PROVE  IInv'
    BY <1>3, RepSendBackInv, RepSendReplyInv, RepFlushInv, RepDropSendInv
  <1>4. ASSUME NEW s \in Servers, NEW k \in Keys, RepRecv(s, k) \/ RepStreamEnd(s, k)
        PROVE  IInv'
    BY <1>4, RepRecvInv, RepStreamEndInv
  <1> QED BY <1>1, <1>2, <1>3, <1>4 DEF Next

\* The inductive invariant holds in every behaviour of the two sockets.
THEOREM RequestsInvariant == Spec => []IInv
  <1>1. Init => IInv
    BY InitInv
  <1>2. IInv /\ [Next]_vars => IInv'
    BY NextInv, StutterInv
  <1> QED BY <1>1, <1>2, PTL DEF Spec

-----------------------------------------------------------------------------
(* What it says *)

\* req.rs and rep.rs keep their maps, queues and counters within their types.
THEOREM ReqRepTypeCorrect == Spec => []TypeOK
  <1>1. IInv => TypeOK
    BY DEF IInv
  <1> QED BY <1>1, RequestsInvariant, PTL

\* RepSocket::send answers no request twice: it takes the current request before it
\* writes, and recv puts no request there that was answered.
THEOREM NoSecondAnswer == Spec => []AnsweredOnce
  <1>1. IInv => AnsweredOnce
    BY DEF IInv, AnswersInv
  <1> QED BY <1>1, RequestsInvariant, PTL

\* RepSocket never crosses envelopes and replies: the request it works on was asked by
\* the peer it will answer, and a connection carries answers to its own client only.
THEOREM RepliesReachTheirClient == Spec => []RepliesAddressed
  <1>1. IInv => RepliesAddressed
    <2> SUFFICES ASSUME IInv PROVE RepliesAddressed
      OBVIOUS
    <2> USE DEF IInv
    <2>1. \A s \in Servers : rep_request[s] # NoKey =>
            \E c \in Client(s, rep_request[s]) : \E n \in 1..sent[c] :
              data[s] = Asked(c, n) /\ envelope[s] = << <<>> >>
      BY DEF FormatInv, ServingInv, Delimiter
    <2>2. ASSUME NEW l \in Links, NEW i \in DOMAIN (down[l] \o down_buf[l])
          PROVE  \E n \in 1..sent[link[l].client] :
                   (down[l] \o down_buf[l])[i] = << <<>> >> \o Asked(link[l].client, n)
      <3> DEFINE q == down[l] \o down_buf[l]
      <3>1. down[l] \in Seq(Seq(Frames)) /\ down_buf[l] \in Seq(Seq(Frames))
        BY DEF TypeOK
      <3>2. q \in Seq(Seq(Frames)) /\ Elems(q) = Elems(down[l]) \cup Elems(down_buf[l])
        BY <3>1, ConcatFacts, Zenon
      <3>3. i \in DOMAIN q
        BY <2>2
      <3> HIDE DEF q
      <3>4. q[i] \in Elems(q)
        BY <3>2, <3>3 DEF Elems
      <3>5. q[i] \in Replies(link[l].client)
        BY <3>2, <3>4 DEF FormatInv, RepliesInv
      <3>6. PICK n \in 1..sent[link[l].client] : q[i] = Reply(link[l].client, n)
        BY <3>5 DEF Replies
      <3> QED BY <3>6, Zenon DEF Reply, Delimiter, q
    <2> QED BY <2>1, <2>2 DEF RepliesAddressed
  <1> QED BY <1>1, RequestsInvariant, PTL

\* ReqSocket::recv returns the answer to the request sent last, unless a send was
\* dropped or the client came back under the same identity.
THEOREM RecvMatchesSend == Spec => []ReplyMatchesUnlessMixed
  <1>1. IInv => ReplyMatchesUnlessMixed
    BY DEF IInv
  <1> QED BY <1>1, RequestsInvariant, PTL

\* A request that ReqSocket waits for has a place on the way until its connection
\* breaks, and the server reads from and answers to that connection.
THEOREM AwaitedRequestTraced == Spec => []RequestNeverLost
  <1>1. IInv => RequestNeverLost
    <2> SUFFICES ASSUME IInv PROVE RequestNeverLost
      OBVIOUS
    <2> USE DEF IInv
    <2>1. SUFFICES ASSUME NEW c \in Reqs \ (mixed \cup stuck), current_request[c] # NoKey,
                          NEW l, l = peers[c][current_request[c]], broken[l] = "no"
                   PROVE  LET s == link[l].server
                              k == link[l].ckey
                              r == <<c, sent[c]>>
                          IN /\ \/ Carries(up[l], r)
                                \/ rep_request[s] = k /\ data[s][Len(data[s])] = r
                                \/ rep[s].at = "flush" /\ Carries(down_buf[l], r)
                                \/ Carries(down[l], r)
                             /\ connected[l].server # "new" => rep_peers[s][k] = l
                             /\ connected[l].server = "inserted" => streams[s][k] = l
      BY DEF RequestNeverLost
    <2>2. c \in Clients /\ current_request[c] \in Keys
      BY <2>1 DEF Reqs, TypeOK
    <2>3. l \in Links /\ link[l].client = c
      BY <2>1, <2>2 DEF ReqCallInv, ReqEntriesInv, TypeOK
    <2>4. Traced(c, l)
      BY <2>1 DEF TraceInv
    <2>5. ASSUME NEW q \in Seq(Seq(Frames)), NEW r, In(q, r) PROVE Carries(q, r)
      BY <2>5 DEF In, Elems, Tag, Carries
    <2>6. up[l] \in Seq(Seq(Frames)) /\ down[l] \in Seq(Seq(Frames)) /\ down_buf[l] \in Seq(Seq(Frames))
      BY <2>3 DEF TypeOK
    <2>7. /\ connected[l].server # "new" => rep_peers[link[l].server][link[l].ckey] = l
          /\ connected[l].server = "inserted" => streams[link[l].server][link[l].ckey] = l
      BY <2>1, <2>3 DEF RoutedInv
    <2>8. \/ Carries(up[l], <<c, sent[c]>>)
          \/ /\ rep_request[link[l].server] = link[l].ckey
             /\ data[link[l].server][Len(data[link[l].server])] = <<c, sent[c]>>
          \/ rep[link[l].server].at = "flush" /\ Carries(down_buf[l], <<c, sent[c]>>)
          \/ Carries(down[l], <<c, sent[c]>>)
      <3>1. CASE In(up[l], <<c, sent[c]>>)
        BY <3>1, <2>5, <2>6
      <3>2. CASE In(down[l], <<c, sent[c]>>)
        BY <3>2, <2>5, <2>6
      <3>3. CASE rep_request[link[l].server] = link[l].ckey /\ Tag(data[link[l].server]) = <<c, sent[c]>>
        BY <3>3 DEF Tag
      <3>4. CASE /\ rep[link[l].server] = [at |-> "flush", key |-> link[l].ckey]
                 /\ In(down_buf[l], <<c, sent[c]>>)
        BY <3>4, <2>5, <2>6
      <3> QED BY <2>1, <2>4, <3>1, <3>2, <3>3, <3>4 DEF Traced
    <2> QED BY <2>7, <2>8
  <1> QED BY <1>1, RequestsInvariant, PTL
=============================================================================
