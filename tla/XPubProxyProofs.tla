-------------------------- MODULE XPubProxyProofs --------------------------
(***************************************************************************)
(* Between the publisher and its subscribers the proxy loses and doubles   *)
(* nothing: a subscriber that stays gets every message once.  And the      *)
(* publisher is told of every filter that a subscriber holds.              *)
(***************************************************************************)
EXTENDS XPubProxy, FiniteSetTheorems, TLAPS

\* What subscribers send, and how their streams end.
Requests == ({"sub", "unsub"} \X Filters) \cup {<<"data">>, Lost}
\* What the publisher sends.
Publications == {"pub"} \X Nat \X Subjects

\* The types of what the argument looks at.
TypeInv ==
  /\ wants \in [Clients -> SUBSET Filters]
  /\ conn \in [Clients -> Numbers]
  /\ open \subseteq Clients
  /\ pipe \in [Clients -> [Numbers -> Seq(Requests)]]
  /\ subscribers \in [Clients -> [conn : 0..MaxConns, subs : [Filters -> Nat]]]
  /\ streams \in [Clients -> 0..MaxConns]
  /\ data \in Seq(Publications \cup {Lost})
  /\ pubs \in Nat
  /\ got \in [Clients -> Seq(Nat)]
  /\ due \subseteq Clients \X Nat

\* The proxy has a message in hand while it handles it, and writes a published
\* message to pairs of a subscriber and its connection, one of each at most.
HandInv ==
  /\ pc \in {"select", "forward", "write", "remove", "fail", "ended"}
  /\ hand \in (Requests \ {Lost}) \cup Publications \cup {Nothing}
  /\ pc \in {"select", "remove", "fail", "ended"} => hand = Nothing
  /\ pc = "write" /\ hand[1] = "pub" =>
       /\ todo \subseteq Clients \X (0..MaxConns)
       /\ \A p, q \in todo : p[1] = q[1] => p = q

\* Messages come in the order of their numbers,
QueueInv ==
  \A i \in DOMAIN data : data[i][1] = "pub" =>
    /\ data[i][2] \in 1..pubs
    /\ \A j \in DOMAIN data : j > i /\ data[j][1] = "pub" => data[i][2] < data[j][2]
\* the one in hand comes before those that are not yet read,
AheadInv ==
  hand[1] = "pub" =>
    /\ hand[2] \in 1..pubs
    /\ \A i \in DOMAIN data : data[i][1] = "pub" => hand[2] < data[i][2]
\* and nobody has what is still on the way to him.
Pending(c) == pc = "forward" \/ \E n \in 0..MaxConns : <<c, n>> \in todo
GotInv ==
  \A c \in Clients : \A m \in Range(got[c]) :
    /\ m \in 1..pubs
    /\ \A i \in DOMAIN data : data[i][1] = "pub" => m < data[i][2]
    /\ hand[1] = "pub" => m <= hand[2] /\ (Pending(c) => m < hand[2])
OnceInv == \A c \in Clients : IsInjective(got[c])

\* The publisher's connection ends the stream of what it sent.
LinkInv ==
  /\ link # "alive" => due = {}
  /\ \A i \in DOMAIN data : data[i] = Lost => i = Len(data) /\ link = "lost"

\* A subscriber to whom a message is due has its latest connection registered, no
\* older one is read in its place, and nothing on it takes a subscription back.
SteadyInv ==
  \A d \in due : LET c == d[1] IN
    /\ c \in open
    /\ subscribers[c].conn = conn[c] /\ streams[c] \in {0, conn[c]}
    /\ \A i \in DOMAIN pipe[c][conn[c]] : pipe[c][conn[c]][i][1] \in {"sub", "data"}

Matches(c, msg) == Subscribed(subscribers[c].subs, msg[3])

\* Where a message is that is due to c: with the publisher's connection, with the
\* proxy, among the writes to do, or with c.
Awaits(c, id) ==
  \/ \E i \in DOMAIN data : data[i][1] = "pub" /\ data[i][2] = id /\ Matches(c, data[i])
  \/ hand[1] = "pub" /\ hand[2] = id /\ pc = "forward" /\ Matches(c, hand)
  \/ hand[1] = "pub" /\ hand[2] = id /\ pc = "write" /\ <<c, conn[c]>> \in todo
  \/ id \in Range(got[c])
  \/ pc = "ended"
DueInv == \A d \in due : Awaits(d[1], d[2])

OrderInv == HandInv /\ QueueInv /\ AheadInv /\ GotInv /\ OnceInv
IInv == TypeInv /\ OrderInv /\ LinkInv /\ SteadyInv /\ DueInv

-----------------------------------------------------------------------------
(* Messages and sequences *)

\* What tells the messages apart.
LEMMA MessageKinds ==
  /\ \A m \in Requests : /\ m[1] \in {"sub", "unsub", "data", "lost"}
                         /\ m[1] \in {"sub", "unsub"} => m[2] \in Filters
                         /\ m[1] = "lost" <=> m = Lost
  /\ \A m \in Publications : m[1] = "pub" /\ m[2] \in Nat /\ m[3] \in Subjects /\ m # Lost
  /\ Lost[1] = "lost" /\ Nothing[1] = "nothing"
<1>1. \A m \in {"sub", "unsub"} \X Filters :
        m[1] \in {"sub", "unsub"} /\ m[2] \in Filters /\ m # Lost
  BY DEF Lost
<1>2. \A m \in Publications : m[1] = "pub" /\ m[2] \in Nat /\ m[3] \in Subjects /\ m # Lost
  BY DEF Publications, Lost
<1>3. Lost[1] = "lost" /\ Nothing[1] = "nothing" /\ <<"data">>[1] = "data"
  BY DEF Lost, Nothing
<1> QED
  BY <1>1, <1>2, <1>3 DEF Requests

\* The messages built by the actions.
LEMMA MessagesBuilt ==
  /\ \A f \in Filters : /\ <<"sub", f>> \in Requests /\ <<"sub", f>>[1] = "sub"
                        /\ <<"unsub", f>> \in Requests
  /\ <<"data">> \in Requests /\ <<"data">>[1] = "data" /\ Lost \in Requests
  /\ \A i \in Nat, s \in Subjects :
       LET m == <<"pub", i, s>>
       IN  m \in Publications /\ m[1] = "pub" /\ m[2] = i /\ m[3] = s
  BY DEF Requests, Publications

\* A subscription of a client is no pair that is written to.
LEMMA PublisherIsNoPair == \A c, n : <<c, n>> # Publisher
  BY DEF Publisher

LEMMA AppendFacts ==
  ASSUME NEW S, NEW s \in Seq(S), NEW e \in S
  PROVE  /\ Append(s, e) \in Seq(S)
         /\ Len(s) \in Nat
         /\ DOMAIN s = 1..Len(s)
         /\ Len(Append(s, e)) = Len(s) + 1
         /\ DOMAIN Append(s, e) = 1..(Len(s) + 1)
         /\ \A i \in 1..Len(s) : Append(s, e)[i] = s[i]
         /\ Append(s, e)[Len(s) + 1] = e
  OBVIOUS

LEMMA TailFacts ==
  ASSUME NEW S, NEW s \in Seq(S), s # <<>>
  PROVE  /\ Head(s) \in S /\ Head(s) = s[1]
         /\ Tail(s) \in Seq(S)
         /\ Len(s) \in Nat \ {0}
         /\ DOMAIN s = 1..Len(s)
         /\ Len(Tail(s)) = Len(s) - 1
         /\ DOMAIN Tail(s) = 1..(Len(s) - 1)
         /\ \A i \in 1..(Len(s) - 1) : Tail(s)[i] = s[i + 1]
  OBVIOUS

\* A new element at the end of a sequence of distinct numbers.
LEMMA AppendNew ==
  ASSUME NEW s \in Seq(Nat), NEW e \in Nat
  PROVE  /\ Range(Append(s, e)) = Range(s) \cup {e}
         /\ IsInjective(s) /\ e \notin Range(s) => IsInjective(Append(s, e))
<1>1. /\ Len(s) \in Nat /\ DOMAIN s = 1..Len(s)
      /\ DOMAIN Append(s, e) = 1..(Len(s) + 1)
      /\ \A i \in 1..Len(s) : Append(s, e)[i] = s[i]
      /\ Append(s, e)[Len(s) + 1] = e
  BY AppendFacts
<1>2. \A i \in DOMAIN Append(s, e) : i \in DOMAIN s \/ i = Len(s) + 1
  BY <1>1
<1>3. Range(Append(s, e)) = Range(s) \cup {e}
  BY <1>1, <1>2 DEF Range
<1>4. IsInjective(s) /\ e \notin Range(s) => IsInjective(Append(s, e))
  BY <1>1, <1>2 DEF Range, IsInjective
<1> QED
  BY <1>3, <1>4

\* A connection's stream is replaced, and no other.
LEMMA StreamReplaced ==
  ASSUME NEW A, NEW N, NEW S, NEW p \in [A -> [N -> S]], NEW a \in A, NEW n \in N, NEW s \in S
  PROVE  /\ [p EXCEPT ![a][n] = s] \in [A -> [N -> S]]
         /\ [p EXCEPT ![a][n] = s][a][n] = s
         /\ \A b \in A \ {a} : [p EXCEPT ![a][n] = s][b] = p[b]
<1>1. p[a] \in [N -> S]
  OBVIOUS
<1>2. [p[a] EXCEPT ![n] = s] \in [N -> S]
  BY <1>1
<1> QED
  BY <1>1, <1>2

LEMMA ListIsSequence ==
  ASSUME NEW S, NEW n \in Nat, NEW l \in [1..n -> S] PROVE l \in Seq(S)
  OBVIOUS

\* What a new connection sends first is a sequence of subscriptions.
LEMMA ResentSubscriptions ==
  ASSUME NEW W \in SUBSET Filters
  PROVE  SetToSeq({<<"sub", f>> : f \in W}) \in Seq(Requests)
<1> DEFINE S == {<<"sub", f>> : f \in W}
           Lists == [1..Cardinality(S) -> S]
<1>1. S \subseteq Requests
  <2>1. \A f \in W : <<"sub", f>> \in Requests
    BY MessagesBuilt
  <2> QED
    BY <2>1
<1>2. IsFiniteSet(W)
  BY FiltersAssumption, FS_Subset
<1>3. IsFiniteSet(S)
  <2> DEFINE g == [f \in W |-> <<"sub", f>>]
  <2>1. g \in Surjection(W, S)
    BY DEF Surjection
  <2> QED
    BY <1>2, <2>1, FS_Surjection
<1>4. Cardinality(S) \in Nat /\ ExistsBijection(1..Cardinality(S), S)
  BY <1>3, FS_CardinalityType
<1>5. \E l \in Lists : IsInjective(l)
  BY <1>4 DEF ExistsBijection, Bijection, Injection
<1>6. SetToSeq(S) \in Lists
  BY <1>5, Zenon DEF SetToSeq
<1>7. SetToSeq(S) \in Seq(S)
  BY <1>4, <1>6, ListIsSequence, Zenon
<1> QED
  BY <1>1, <1>7

\* What a message does to the filters of a subscriber.
LEMMA AppliedFacts ==
  ASSUME NEW held \in [Filters -> Nat], NEW m \in Requests
  PROVE  /\ Applied(held, m) \in [Filters -> Nat]
         /\ m[1] \in {"sub", "data"} => \A f \in Filters : Applied(held, m)[f] >= held[f]
<1>1. CASE m[1] = "sub"
  <2>1. Applied(held, m) = [held EXCEPT ![m[2]] = held[m[2]] + 1] /\ m[2] \in Filters
    BY <1>1, MessageKinds DEF Applied
  <2> QED
    BY <2>1
<1>2. CASE m[1] = "unsub"
  <2>1. /\ Applied(held, m) = [held EXCEPT ![m[2]] = IF held[m[2]] > 0 THEN held[m[2]] - 1 ELSE 0]
        /\ m[2] \in Filters
    BY <1>2, MessageKinds DEF Applied
  <2> QED
    BY <1>2, <2>1
<1>3. CASE m[1] \notin {"sub", "unsub"}
  <2>1. Applied(held, m) = held
    BY <1>3 DEF Applied
  <2> QED
    BY <2>1
<1> QED
  BY <1>1, <1>2, <1>3

-----------------------------------------------------------------------------
(* What steps that leave the messages alone keep *)

\* A published message in the stream or in hand has a number and a subject.
LEMMA PublishedFacts ==
  ASSUME TypeInv, HandInv
  PROVE  /\ \A i \in DOMAIN data : data[i][1] = "pub" => data[i] \in Publications
         /\ \A i \in DOMAIN data : data[i][1] # "pub" => data[i] = Lost
         /\ hand[1] = "pub" => hand \in Publications
<1>1. \A i \in DOMAIN data : data[i] \in Publications \cup {Lost}
  BY DEF TypeInv
<1> QED
  BY <1>1, MessageKinds DEF HandInv

\* More filters match what fewer matched.
LEMMA MoreFiltersMatch ==
  ASSUME NEW h, NEW g, NEW s \in Subjects, \A f \in Filters : h[f] > 0 => g[f] > 0,
         Subscribed(h, s)
  PROVE  Subscribed(g, s)
  BY PrefixAssumption DEF Subscribed

\* Neither does dropping what was not read of a connection disturb the order,
LEMMA OrderFrame ==
  ASSUME OrderInv, UNCHANGED <<hand, pc, todo, got, pubs>>, data' = data \/ data' = <<>>
  PROVE  OrderInv'
<1>1. HandInv' /\ OnceInv'
  BY DEF OrderInv, HandInv, OnceInv
<1>2. CASE data' = data
  BY <1>1, <1>2 DEF OrderInv, QueueInv, AheadInv, GotInv, Pending
<1>3. CASE data' = <<>>
  BY <1>1, <1>3 DEF OrderInv, QueueInv, AheadInv, GotInv, Pending
<1> QED
  BY <1>2, <1>3

\* nor does a step after which the proxy has no published message in hand.
LEMMA OrderNoPublication ==
  ASSUME OrderInv, UNCHANGED <<got, pubs>>, data' = data \/ data' = <<>>,
         HandInv', hand'[1] # "pub"
  PROVE  OrderInv'
<1>1. AheadInv' /\ OnceInv'
  BY DEF OrderInv, AheadInv, OnceInv
<1>2. CASE data' = data
  BY <1>1, <1>2 DEF OrderInv, QueueInv, GotInv
<1>3. CASE data' = <<>>
  BY <1>1, <1>3 DEF OrderInv, QueueInv, GotInv
<1> QED
  BY <1>2, <1>3

LEMMA LinkFrame ==
  ASSUME LinkInv, due' \subseteq due, UNCHANGED <<data, link>>
  PROVE  LinkInv'
  BY DEF LinkInv

\* A message stays due when its subscriber keeps its connection and its filters,
\* and the proxy keeps it in hand if it has still to write it.
LEMMA DueFrame ==
  ASSUME TypeInv, HandInv, DueInv, UNCHANGED <<data, got>>,
         \/ UNCHANGED <<hand, pc, todo>>
         \/ pc' = "ended"
         \/ pc # "ended" /\ (hand[1] = "pub" => pc = "write" /\ todo = {}),
         \A d \in due' :
           /\ d \in due /\ conn'[d[1]] = conn[d[1]]
           /\ \A f \in Filters : subscribers[d[1]].subs[f] > 0 => subscribers'[d[1]].subs[f] > 0
  PROVE  DueInv'
<1> SUFFICES ASSUME NEW d \in due' PROVE Awaits(d[1], d[2])'
  BY DEF DueInv
<1>1. PICK c : c = d[1]
  OBVIOUS
<1>2. PICK id : id = d[2]
  OBVIOUS
<1>3. /\ Awaits(c, id) /\ conn'[c] = conn[c]
      /\ \A f \in Filters : subscribers[c].subs[f] > 0 => subscribers'[c].subs[f] > 0
  BY <1>1, <1>2 DEF DueInv
<1>4. \A m \in Publications : Matches(c, m) => Matches(c, m)'
  BY <1>3, MoreFiltersMatch, MessageKinds DEF Matches
<1>5. \A i \in DOMAIN data : data[i][1] = "pub" /\ Matches(c, data[i]) => Matches(c, data[i])'
  BY <1>4, PublishedFacts DEF Matches
<1>6. hand' = hand /\ hand[1] = "pub" /\ Matches(c, hand) => Matches(c, hand)'
  BY <1>4, PublishedFacts DEF Matches
<1>7. Awaits(c, id)'
  <2>1. CASE UNCHANGED <<hand, pc, todo>>
    BY <1>3, <1>5, <1>6, <2>1 DEF Awaits
  <2>2. CASE pc' = "ended"
    BY <2>2 DEF Awaits
  <2>3. CASE pc # "ended" /\ (hand[1] = "pub" => pc = "write" /\ todo = {})
    BY <1>3, <1>5, <2>3 DEF Awaits
  <2> QED
    BY <2>1, <2>2, <2>3
<1> QED
  BY <1>1, <1>2, <1>7

-----------------------------------------------------------------------------
(* The subscribers *)

\* A message of a subscriber keeps the invariant, if it takes no subscription back
\* from somebody to whom a message is due.
LEMMA SendKeeps ==
  ASSUME IInv, NEW c \in Clients, NEW msg \in Requests, Send(c, msg),
         wants' \in [Clients -> SUBSET Filters], due' \subseteq due,
         msg[1] \in {"sub", "data"} \/ \A d \in due' : d[1] # c
  PROVE  IInv'
<1> USE DEF IInv
<1>1. /\ UNCHANGED <<conn, open, subscribers, streams, pc, hand, todo, data, pubs, link, got>>
      /\ pipe' = [pipe EXCEPT ![c][conn[c]] = Append(pipe[c][conn[c]], msg)]
  BY DEF Send, xpubVars, proxyVars, upVars
<1>2. /\ conn[c] \in Numbers /\ pipe[c][conn[c]] \in Seq(Requests)
      /\ pipe[c] \in [Numbers -> Seq(Requests)]
  BY DEF TypeInv
<1>3. /\ Append(pipe[c][conn[c]], msg) \in Seq(Requests)
      /\ \A i \in DOMAIN Append(pipe[c][conn[c]], msg) :
           \/ Append(pipe[c][conn[c]], msg)[i] = msg
           \/ i \in DOMAIN pipe[c][conn[c]]
              /\ Append(pipe[c][conn[c]], msg)[i] = pipe[c][conn[c]][i]
  BY <1>2, AppendFacts
<1>4. pipe' \in [Clients -> [Numbers -> Seq(Requests)]]
  BY <1>1, <1>2, <1>3 DEF TypeInv
<1>5. /\ pipe'[c][conn[c]] = Append(pipe[c][conn[c]], msg)
      /\ \A b \in Clients \ {c} : pipe'[b] = pipe[b]
  BY <1>1, <1>2 DEF TypeInv
<1>6. TypeInv'
  BY <1>1, <1>4 DEF TypeInv
<1>7. SteadyInv'
  <2> SUFFICES ASSUME NEW d \in due'
               PROVE  /\ d[1] \in open
                      /\ subscribers[d[1]].conn = conn[d[1]] /\ streams[d[1]] \in {0, conn[d[1]]}
                      /\ \A i \in DOMAIN pipe'[d[1]][conn[d[1]]] :
                           pipe'[d[1]][conn[d[1]]][i][1] \in {"sub", "data"}
    BY <1>1 DEF SteadyInv
  <2>1. /\ d[1] \in open /\ d[1] \in Clients
        /\ subscribers[d[1]].conn = conn[d[1]] /\ streams[d[1]] \in {0, conn[d[1]]}
        /\ \A i \in DOMAIN pipe[d[1]][conn[d[1]]] :
             pipe[d[1]][conn[d[1]]][i][1] \in {"sub", "data"}
    BY DEF SteadyInv, TypeInv
  <2>2. CASE d[1] # c
    BY <1>5, <2>1, <2>2
  <2>3. CASE d[1] = c
    <3>1. msg[1] \in {"sub", "data"}
      BY <2>3
    <3>2. pipe'[d[1]][conn[d[1]]] = Append(pipe[c][conn[c]], msg)
      BY <1>5, <2>3
    <3>3. \A i \in DOMAIN Append(pipe[c][conn[c]], msg) :
            Append(pipe[c][conn[c]], msg)[i][1] \in {"sub", "data"}
      BY <1>3, <2>1, <2>3, <3>1
    <3> QED
      BY <2>1, <3>2, <3>3
  <2> QED
    BY <2>1, <2>2, <2>3
<1>8. OrderInv' /\ LinkInv'
  BY <1>1, OrderFrame, LinkFrame
<1>9. DueInv'
  BY <1>1, DueFrame DEF OrderInv
<1> QED
  BY <1>6, <1>7, <1>8, <1>9

\* Subscribing, unsubscribing and sending anything else.
LEMMA ClientSendsKeeps ==
  ASSUME IInv, NEW c \in Clients,
         SendData(c) \/ \E f \in Filters : Subscribe(c, f) \/ Unsubscribe(c, f)
  PROVE  IInv'
<1>1. CASE SendData(c)
  <2>1. Send(c, <<"data">>) /\ wants' = wants /\ due' = due
    BY <1>1 DEF SendData
  <2>2. wants' \in [Clients -> SUBSET Filters]
    BY <2>1 DEF IInv, TypeInv
  <2> QED
    BY <2>1, <2>2, MessagesBuilt, SendKeeps
<1>2. ASSUME NEW f \in Filters, Subscribe(c, f) PROVE IInv'
  <2>1. Send(c, <<"sub", f>>) /\ due' = due
    BY <1>2 DEF Subscribe
  <2>2. wants' \in [Clients -> SUBSET Filters]
    BY <1>2 DEF IInv, TypeInv, Subscribe
  <2> QED
    BY <2>1, <2>2, MessagesBuilt, SendKeeps
<1>3. ASSUME NEW f \in Filters, Unsubscribe(c, f) PROVE IInv'
  <2>1. Send(c, <<"unsub", f>>) /\ due' = {d \in due : d[1] # c}
    BY <1>3 DEF Unsubscribe
  <2>2. wants' \in [Clients -> SUBSET Filters]
    BY <1>3 DEF IInv, TypeInv, Unsubscribe
  <2> QED
    BY <2>1, <2>2, MessagesBuilt, SendKeeps
<1> QED
  BY <1>1, <1>2, <1>3

\* A connection that ends: nothing is due on it any more.
LEMMA ClientGoesKeeps ==
  ASSUME IInv, NEW c \in Clients, Leave(c) \/ SeeClosed(c)
  PROVE  IInv'
<1> USE DEF IInv
<1>1. /\ UNCHANGED <<wants, conn, subscribers, streams, pc, hand, todo, data, pubs, link, got>>
      /\ open' = open \ {c} /\ due' = {d \in due : d[1] # c}
  BY DEF Leave, SeeClosed, xpubVars, proxyVars, upVars
<1>2. \/ UNCHANGED pipe
      \/ pipe' = [pipe EXCEPT ![c][conn[c]] = Append(pipe[c][conn[c]], Lost)]
  BY DEF Leave, SeeClosed
<1>3. /\ conn[c] \in Numbers /\ pipe[c][conn[c]] \in Seq(Requests)
      /\ pipe[c] \in [Numbers -> Seq(Requests)]
  BY DEF TypeInv
<1>4. Append(pipe[c][conn[c]], Lost) \in Seq(Requests)
  BY <1>3, AppendFacts, MessagesBuilt
<1>5. pipe \in [Clients -> [Numbers -> Seq(Requests)]]
  BY DEF TypeInv
<1>6. /\ pipe' \in [Clients -> [Numbers -> Seq(Requests)]]
      /\ \A b \in Clients \ {c} : pipe'[b] = pipe[b]
  <2>1. CASE UNCHANGED pipe
    BY <1>5, <2>1
  <2>2. CASE pipe' = [pipe EXCEPT ![c][conn[c]] = Append(pipe[c][conn[c]], Lost)]
    BY <1>3, <1>4, <1>5, <2>2, StreamReplaced, Zenon
  <2> QED
    BY <1>2, <2>1, <2>2
<1>7. TypeInv'
  BY <1>1, <1>6 DEF TypeInv
<1>8. SteadyInv'
  <2> SUFFICES ASSUME NEW d \in due'
               PROVE  /\ d[1] \in open'
                      /\ subscribers[d[1]].conn = conn[d[1]] /\ streams[d[1]] \in {0, conn[d[1]]}
                      /\ \A i \in DOMAIN pipe'[d[1]][conn[d[1]]] :
                           pipe'[d[1]][conn[d[1]]][i][1] \in {"sub", "data"}
    BY <1>1 DEF SteadyInv
  <2>1. d \in due /\ d[1] # c /\ d[1] \in Clients
    BY <1>1 DEF TypeInv
  <2>2. pipe'[d[1]] = pipe[d[1]]
    BY <1>6, <2>1
  <2> QED
    BY <1>1, <2>1, <2>2 DEF SteadyInv
<1>9. OrderInv' /\ LinkInv' /\ DueInv'
  BY <1>1, OrderFrame, LinkFrame, DueFrame DEF OrderInv
<1> QED
  BY <1>7, <1>8, <1>9

\* A client that is not connected has nothing due, so that it may connect again.
LEMMA ReturnKeeps ==
  ASSUME IInv, NEW c \in Clients, Return(c)
  PROVE  IInv'
<1> USE DEF IInv
<1>0. PICK n : n = conn[c] + 1
  OBVIOUS
<1>1. /\ UNCHANGED <<wants, subscribers, streams, pc, hand, todo, data, pubs, link, got, due>>
      /\ c \notin open /\ open' = open \cup {c}
      /\ n \in Numbers /\ conn' = [conn EXCEPT ![c] = n]
      /\ pipe' = [pipe EXCEPT ![c][n] = SetToSeq({<<"sub", f>> : f \in wants[c]})]
  BY <1>0, BoundsAssumption DEF Return, TypeInv, Numbers, proxyVars, upVars, history
<1>2. SetToSeq({<<"sub", f>> : f \in wants[c]}) \in Seq(Requests)
  <2>1. wants[c] \in SUBSET Filters
    BY DEF TypeInv
  <2> QED
    BY <2>1, ResentSubscriptions
<1>3. pipe \in [Clients -> [Numbers -> Seq(Requests)]]
  BY DEF TypeInv
<1>4. /\ pipe' \in [Clients -> [Numbers -> Seq(Requests)]]
      /\ \A b \in Clients \ {c} : pipe'[b] = pipe[b]
  BY <1>1, <1>2, <1>3, StreamReplaced, Zenon
<1>5. \A b \in Clients \ {c} : pipe'[b] = pipe[b] /\ conn'[b] = conn[b]
  BY <1>1, <1>4 DEF TypeInv
<1>6. TypeInv'
  BY <1>1, <1>4 DEF TypeInv
<1>7. \A d \in due : d[1] # c /\ d[1] \in Clients
  BY <1>1 DEF SteadyInv, TypeInv
<1>8. SteadyInv'
  <2> SUFFICES ASSUME NEW d \in due
               PROVE  /\ d[1] \in open'
                      /\ subscribers[d[1]].conn = conn'[d[1]] /\ streams[d[1]] \in {0, conn'[d[1]]}
                      /\ \A i \in DOMAIN pipe'[d[1]][conn'[d[1]]] :
                           pipe'[d[1]][conn'[d[1]]][i][1] \in {"sub", "data"}
    BY <1>1 DEF SteadyInv
  <2>1. pipe'[d[1]] = pipe[d[1]] /\ conn'[d[1]] = conn[d[1]]
    BY <1>5, <1>7
  <2> QED
    BY <1>1, <2>1 DEF SteadyInv
<1>9. OrderInv' /\ LinkInv'
  BY <1>1, OrderFrame, LinkFrame
<1>10. DueInv'
  BY <1>1, <1>5, <1>7, DueFrame DEF OrderInv
<1> QED
  BY <1>6, <1>8, <1>9, <1>10

-----------------------------------------------------------------------------
(* XPubSocketBackend *)

\* Registering a connection: nothing is due to its client afterwards.
LEMMA AcceptKeeps ==
  ASSUME IInv, NEW c \in Clients, NEW n \in Numbers,
         Upsert(c, n) \/ InsertStream(c, n) \/ InsertOverwritten(c, n)
  PROVE  IInv'
<1> USE DEF IInv
<1>1. /\ UNCHANGED <<wants, conn, open, pipe, pc, hand, todo, data, pubs, link, got>>
      /\ due' = {d \in due : d[1] # c}
  BY DEF Upsert, InsertStream, InsertOverwritten, NoteOvertaken, clientVars, proxyVars, upVars
<1>2. /\ \/ UNCHANGED subscribers
         \/ subscribers' = [subscribers EXCEPT ![c] = [conn |-> n, subs |-> NoFilters]]
      /\ UNCHANGED streams \/ streams' = [streams EXCEPT ![c] = n]
  BY DEF Upsert, InsertStream, InsertOverwritten
<1>3. [conn |-> n, subs |-> NoFilters] \in [conn : 0..MaxConns, subs : [Filters -> Nat]]
  BY BoundsAssumption DEF Numbers, NoFilters, AllOf
<1>4. subscribers' \in [Clients -> [conn : 0..MaxConns, subs : [Filters -> Nat]]]
  BY <1>2, <1>3 DEF TypeInv
<1>5. streams' \in [Clients -> 0..MaxConns]
  <2>1. n \in 0..MaxConns
    BY BoundsAssumption DEF Numbers
  <2> QED
    BY <1>2, <2>1 DEF TypeInv
<1>6. TypeInv'
  BY <1>1, <1>4, <1>5 DEF TypeInv
<1>7. \A b \in Clients \ {c} : subscribers'[b] = subscribers[b] /\ streams'[b] = streams[b]
  BY <1>2 DEF TypeInv
<1>8. \A d \in due' : d \in due /\ d[1] \in Clients \ {c}
  BY <1>1 DEF TypeInv
<1>9. SteadyInv'
  BY <1>1, <1>7, <1>8 DEF SteadyInv
<1>10. OrderInv' /\ LinkInv'
  BY <1>1, OrderFrame, LinkFrame
<1>11. DueInv'
  BY <1>1, <1>7, <1>8, DueFrame DEF OrderInv
<1> QED
  BY <1>6, <1>9, <1>10, <1>11

-----------------------------------------------------------------------------
(* The proxy and the subscribers' side *)

\* The end of a stream, which is never that of a subscriber to whom a message is due.
LEMMA StreamEndKeeps ==
  ASSUME IInv, NEW c \in Clients, RecvBackend(c), Head(pipe[c][streams[c]]) = Lost
  PROVE  IInv'
<1> USE DEF IInv
<1>0. PICK q, n : q = pipe[c][streams[c]] /\ n = streams[c]
  OBVIOUS
<1>1. /\ pc = "select" /\ q # <<>> /\ n # 0 /\ Head(q) = Lost
      /\ UNCHANGED <<wants, conn, open, todo, data, pubs, link, got, subscribers, hand, due>>
      /\ pipe' = [pipe EXCEPT ![c][n] = Tail(q)]
      /\ pc' \in {"remove", "fail"}
      /\ UNCHANGED streams \/ streams' = [streams EXCEPT ![c] = 0]
  BY <1>0 DEF RecvBackend, upVars, history
<1>2. /\ pipe \in [Clients -> [Numbers -> Seq(Requests)]]
      /\ n \in Numbers
  BY <1>0, <1>1, BoundsAssumption DEF TypeInv, Numbers
<1>3. q \in Seq(Requests)
  BY <1>0, <1>2
<1>4. Tail(q) \in Seq(Requests) /\ q[1] = Lost /\ 1 \in DOMAIN q
  <2>1. /\ Head(q) = q[1] /\ Tail(q) \in Seq(Requests)
        /\ Len(q) \in Nat \ {0} /\ DOMAIN q = 1..Len(q)
    BY <1>1, <1>3, TailFacts, Zenon
  <2>2. 1 \in DOMAIN q
    BY <2>1
  <2> QED
    BY <1>1, <2>1, <2>2
<1>5. /\ pipe' \in [Clients -> [Numbers -> Seq(Requests)]]
      /\ \A b \in Clients \ {c} : pipe'[b] = pipe[b]
  BY <1>1, <1>2, <1>4, StreamReplaced, Zenon
<1>6. streams' \in [Clients -> 0..MaxConns] /\ \A b \in Clients \ {c} : streams'[b] = streams[b]
  <2>1. 0 \in 0..MaxConns /\ streams \in [Clients -> 0..MaxConns]
    BY BoundsAssumption DEF TypeInv
  <2> QED
    BY <1>1, <2>1
<1>7. TypeInv'
  BY <1>1, <1>5, <1>6 DEF TypeInv
<1>8. \A d \in due : d[1] \in Clients \ {c}
  <2> SUFFICES ASSUME NEW d \in due, d[1] = c PROVE FALSE
    BY DEF TypeInv
  <2>1. n = conn[c]
    BY <1>0, <1>1 DEF SteadyInv
  <2>2. q[1][1] \in {"sub", "data"}
    BY <1>0, <1>4, <2>1 DEF SteadyInv
  <2> QED
    BY <1>4, <2>2 DEF Lost
<1>9. SteadyInv'
  BY <1>1, <1>5, <1>6, <1>8 DEF SteadyInv
<1>10. hand = Nothing /\ hand' = Nothing
  BY <1>1 DEF OrderInv, HandInv
<1>11. HandInv' /\ hand'[1] # "pub" /\ hand[1] # "pub"
  BY <1>1, <1>10, MessageKinds DEF HandInv
<1>12. OrderInv' /\ LinkInv'
  BY <1>1, <1>11, OrderNoPublication, LinkFrame
<1>13. DueInv'
  BY <1>1, <1>11, DueFrame DEF OrderInv
<1> QED
  BY <1>7, <1>9, <1>12, <1>13

\* A subscriber to whom a message is due sends nothing that takes a subscription
\* back, so that its entry matches the message after what is read from it.
LEMMA ReadKeeps ==
  ASSUME IInv, NEW c \in Clients, RecvBackend(c), Head(pipe[c][streams[c]]) # Lost
  PROVE  IInv'
<1> USE DEF IInv
<1>0. PICK q, n, m : q = pipe[c][streams[c]] /\ n = streams[c] /\ m = Head(q)
  OBVIOUS
<1>1. /\ pc = "select" /\ q # <<>> /\ n # 0
      /\ UNCHANGED <<wants, conn, open, todo, data, pubs, link, got, streams, due>>
      /\ pipe' = [pipe EXCEPT ![c][n] = Tail(q)]
      /\ subscribers' = message_received(c, m)
      /\ pc' = "forward" /\ hand' = m /\ m # Lost
  BY <1>0 DEF RecvBackend, Receive, upVars, history
<1>2. /\ pipe \in [Clients -> [Numbers -> Seq(Requests)]]
      /\ n \in Numbers
  BY <1>0, <1>1, BoundsAssumption DEF TypeInv, Numbers
<1>3. q \in Seq(Requests)
  BY <1>0, <1>2
<1>4. /\ m \in Requests /\ m = q[1] /\ 1 \in DOMAIN q
      /\ Tail(q) \in Seq(Requests)
      /\ \A i \in DOMAIN Tail(q) : i + 1 \in DOMAIN q /\ Tail(q)[i] = q[i + 1]
  <2>1. /\ Head(q) \in Requests /\ Head(q) = q[1]
        /\ Tail(q) \in Seq(Requests)
        /\ Len(q) \in Nat \ {0}
        /\ DOMAIN q = 1..Len(q)
        /\ DOMAIN Tail(q) = 1..(Len(q) - 1)
        /\ \A i \in 1..(Len(q) - 1) : Tail(q)[i] = q[i + 1]
    BY <1>1, <1>3, TailFacts, Zenon
  <2>2. \A i \in DOMAIN Tail(q) : i + 1 \in DOMAIN q /\ Tail(q)[i] = q[i + 1]
    BY <2>1
  <2>3. 1 \in DOMAIN q
    BY <2>1
  <2> QED
    BY <1>0, <2>1, <2>2, <2>3
<1>5. /\ pipe' \in [Clients -> [Numbers -> Seq(Requests)]]
      /\ pipe'[c][n] = Tail(q)
      /\ \A b \in Clients \ {c} : pipe'[b] = pipe[b]
  <2>1. PICK t : t = Tail(q)
    OBVIOUS
  <2>2. t \in Seq(Requests) /\ pipe' = [pipe EXCEPT ![c][n] = t]
    BY <1>1, <1>4, <2>1
  <2>3. [pipe EXCEPT ![c][n] = t] \in [Clients -> [Numbers -> Seq(Requests)]]
    BY <1>2, <2>2, StreamReplaced, Zenon
  <2>4. [pipe EXCEPT ![c][n] = t][c][n] = t
    BY <1>2
  <2>5. \A b \in Clients \ {c} : [pipe EXCEPT ![c][n] = t][b] = pipe[b]
    BY <1>2, <2>2, StreamReplaced, Zenon
  <2> QED
    BY <2>1, <2>2, <2>3, <2>4, <2>5
<1>6. /\ subscribers'[c].conn = subscribers[c].conn
      /\ \A b \in Clients \ {c} : subscribers'[b] = subscribers[b]
      /\ subscribers' \in [Clients -> [conn : 0..MaxConns, subs : [Filters -> Nat]]]
      /\ m[1] \in {"sub", "data"} => \A f \in Filters : subscribers'[c].subs[f] >= subscribers[c].subs[f]
  <2>1. PICK held : held = subscribers[c].subs
    OBVIOUS
  <2>2. held \in [Filters -> Nat]
    BY <2>1 DEF TypeInv
  <2>3. PICK new : new = Applied(held, m)
    OBVIOUS
  <2>4. /\ new \in [Filters -> Nat]
        /\ m[1] \in {"sub", "data"} => \A f \in Filters : new[f] >= held[f]
    BY <1>4, <2>2, <2>3, AppliedFacts, Zenon
  <2>5. CASE subscribers' = subscribers
    BY <2>1, <2>2, <2>5 DEF TypeInv
  <2>6. CASE subscribers' = [subscribers EXCEPT ![c].subs = new]
    BY <2>1, <2>2, <2>4, <2>6 DEF TypeInv
  <2> QED
    BY <1>1, <2>1, <2>3, <2>5, <2>6 DEF message_received
<1>7. TypeInv'
  BY <1>1, <1>5, <1>6 DEF TypeInv
<1>8. ASSUME NEW d \in due, d[1] = c PROVE n = conn[c] /\ \A i \in DOMAIN q : q[i][1] \in {"sub", "data"}
  BY <1>0, <1>1, <1>8 DEF SteadyInv
<1>9. SteadyInv'
  <2> SUFFICES ASSUME NEW d \in due
               PROVE  /\ d[1] \in open
                      /\ subscribers'[d[1]].conn = conn[d[1]] /\ streams[d[1]] \in {0, conn[d[1]]}
                      /\ \A i \in DOMAIN pipe'[d[1]][conn[d[1]]] :
                           pipe'[d[1]][conn[d[1]]][i][1] \in {"sub", "data"}
    BY <1>1 DEF SteadyInv
  <2>1. /\ d[1] \in open /\ d[1] \in Clients
        /\ subscribers[d[1]].conn = conn[d[1]] /\ streams[d[1]] \in {0, conn[d[1]]}
        /\ \A i \in DOMAIN pipe[d[1]][conn[d[1]]] :
             pipe[d[1]][conn[d[1]]][i][1] \in {"sub", "data"}
    BY DEF SteadyInv, TypeInv
  <2>2. CASE d[1] # c
    BY <1>5, <1>6, <2>1, <2>2
  <2>3. CASE d[1] = c
    <3>1. n = conn[c] /\ \A i \in DOMAIN q : q[i][1] \in {"sub", "data"}
      BY <1>8, <2>3
    <3>2. \A i \in DOMAIN Tail(q) : Tail(q)[i][1] \in {"sub", "data"}
      BY <1>4, <3>1
    <3> QED
      BY <1>5, <1>6, <2>1, <2>3, <3>1, <3>2
  <2> QED
    BY <2>2, <2>3
<1>10. m[1] # "pub" /\ hand = Nothing /\ hand[1] # "pub"
  BY <1>1, <1>4, MessageKinds DEF OrderInv, HandInv
<1>11. HandInv' /\ hand'[1] # "pub"
  BY <1>1, <1>4, <1>10 DEF HandInv
<1>12. OrderInv' /\ LinkInv'
  BY <1>1, <1>11, OrderNoPublication, LinkFrame
<1>13. ASSUME NEW d \in due, NEW f \in Filters, subscribers[d[1]].subs[f] > 0
       PROVE  subscribers'[d[1]].subs[f] > 0
  <2>1. CASE d[1] = c
    <3>1. m[1] \in {"sub", "data"}
      BY <1>4, <1>8, <2>1
    <3>2. subscribers'[c].subs[f] >= subscribers[c].subs[f]
      BY <1>6, <3>1
    <3>3. subscribers'[c].subs[f] \in Nat /\ subscribers[c].subs[f] \in Nat
      BY <1>6 DEF TypeInv
    <3> QED
      BY <1>13, <2>1, <3>2, <3>3
  <2>2. CASE d[1] # c
    <3>1. d[1] \in Clients \ {c}
      BY <2>2 DEF TypeInv
    <3> QED
      BY <1>6, <1>13, <3>1
  <2> QED
    BY <2>1, <2>2
<1>14. DueInv'
  BY <1>1, <1>10, <1>13, DueFrame DEF OrderInv
<1> QED
  BY <1>7, <1>9, <1>12, <1>14

\* What stays when the proxy moves on without touching subscribers or streams.
LEMMA ProxyFrame ==
  ASSUME IInv, UNCHANGED <<wants, conn, open, pipe, subscribers, streams, pubs, got, due>>,
         data' \in Seq(Publications \cup {Lost})
  PROVE  TypeInv' /\ SteadyInv'
  BY DEF IInv, TypeInv, SteadyInv

\* The capture socket's error ends the proxy.
LEMMA CaptureFailsKeeps ==
  ASSUME IInv, CaptureFails
  PROVE  IInv'
<1> USE DEF IInv
<1>1. /\ UNCHANGED <<wants, conn, open, pipe, subscribers, streams, todo, data, pubs, link, got, due>>
      /\ pc' = "ended" /\ hand' = Nothing
  BY DEF CaptureFails, End, clientVars, xpubVars, upVars, history
<1>2. TypeInv' /\ SteadyInv'
  BY <1>1, ProxyFrame DEF TypeInv
<1>3. HandInv' /\ hand'[1] # "pub"
  BY <1>1, MessageKinds DEF HandInv
<1>4. OrderInv' /\ LinkInv'
  BY <1>1, <1>3, OrderNoPublication, LinkFrame
<1>5. DueInv'
  BY <1>1, DueFrame DEF OrderInv
<1> QED
  BY <1>2, <1>4, <1>5

\* Subscriptions on their way up have no bearing on what comes down.
LEMMA FrontendSendKeeps ==
  ASSUME IInv, SendFrontend \/ WriteFrontend
  PROVE  IInv'
<1> USE DEF IInv
<1>1. /\ UNCHANGED <<wants, conn, open, pipe, subscribers, streams, data, pubs, link, got, due>>
      /\ pc \in {"forward", "write"}
      /\ \/ pc' = "write" /\ hand' = hand
         \/ pc' = "select" /\ hand' = Nothing
  BY DEF SendFrontend, WriteFrontend, Back, clientVars, xpubVars, upVars, history
<1>2. hand[1] # "pub"
  <2>1. CASE SendFrontend
    BY <2>1 DEF SendFrontend
  <2>2. CASE WriteFrontend
    <3>1. pc = "write" /\ Publisher \in todo
      BY <2>2 DEF WriteFrontend
    <3>2. Publisher \notin Clients \X (0..MaxConns)
      BY PublisherIsNoPair
    <3> QED
      BY <3>1, <3>2 DEF OrderInv, HandInv
  <2> QED
    BY <2>1, <2>2
<1>3. TypeInv' /\ SteadyInv'
  BY <1>1, ProxyFrame DEF TypeInv
<1>4. HandInv' /\ hand'[1] # "pub"
  BY <1>1, <1>2, MessageKinds DEF OrderInv, HandInv
<1>5. OrderInv' /\ LinkInv'
  BY <1>1, <1>4, OrderNoPublication, LinkFrame
<1>6. DueInv'
  BY <1>1, <1>2, DueFrame DEF OrderInv
<1> QED
  BY <1>3, <1>5, <1>6

\* A write to the publisher fails when its connection is lost; nothing is due then.
LEMMA WriteFrontendFailsKeeps ==
  ASSUME IInv, WriteFrontendFails
  PROVE  IInv'
<1> USE DEF IInv
<1>1. /\ UNCHANGED <<wants, conn, open, pipe, subscribers, streams, pubs, got, due>>
      /\ link = "lost"
      /\ hand' = Nothing /\ pc' \in {"select", "ended"}
      /\ \/ link' = "none" /\ data' = <<>>
         \/ UNCHANGED <<link, data>>
  BY DEF WriteFrontendFails, Back, End, clientVars, xpubVars, history
<1>2. data' \in Seq(Publications \cup {Lost})
  <2>1. data \in Seq(Publications \cup {Lost}) /\ <<>> \in Seq(Publications \cup {Lost})
    BY DEF TypeInv
  <2> QED
    BY <1>1, <2>1
<1>3. TypeInv' /\ SteadyInv'
  BY <1>1, <1>2, ProxyFrame
<1>4. HandInv' /\ hand'[1] # "pub"
  BY <1>1, MessageKinds DEF HandInv
<1>5. OrderInv'
  BY <1>1, <1>4, OrderNoPublication
<1>6. due' = {}
  BY <1>1 DEF LinkInv
<1>7. LinkInv' /\ DueInv'
  BY <1>1, <1>6 DEF LinkInv, DueInv
<1> QED
  BY <1>3, <1>5, <1>7

\* A write of a published message is to be done where a subscriber's entry matches.
LEMMA SendBackendKeeps ==
  ASSUME IInv, SendBackend
  PROVE  IInv'
<1> USE DEF IInv
<1>1. /\ UNCHANGED <<wants, conn, open, pipe, subscribers, streams, hand, data, pubs, link, got, due>>
      /\ pc = "forward" /\ pc' = "write" /\ hand[1] = "pub"
      /\ todo' = {<<c, subscribers[c].conn>> :
                    c \in {d \in Clients : Subscribed(subscribers[d].subs, hand[3])}}
  BY DEF SendBackend, clientVars, xpubVars, upVars, history
<1>2. TypeInv' /\ SteadyInv'
  BY <1>1, ProxyFrame DEF TypeInv
<1>3. /\ \A p \in todo' : \E c \in Clients : p = <<c, subscribers[c].conn>>
      /\ \A c \in Clients : Matches(c, hand) => <<c, subscribers[c].conn>> \in todo'
  BY <1>1 DEF Matches
<1>4. \A c \in Clients : subscribers[c].conn \in 0..MaxConns
  BY DEF TypeInv
<1>5. todo' \subseteq Clients \X (0..MaxConns)
  BY <1>3, <1>4
<1>6. \A p, q \in todo' : p[1] = q[1] => p = q
  BY <1>3
<1>7. HandInv'
  BY <1>1, <1>5, <1>6 DEF OrderInv, HandInv
<1>8. \A c \in Clients : Pending(c)
  BY <1>1 DEF Pending
<1>9. OrderInv'
  BY <1>1, <1>7, <1>8 DEF OrderInv, QueueInv, AheadInv, GotInv, OnceInv
<1>10. LinkInv'
  BY <1>1, LinkFrame
<1>11. DueInv'
  <2> SUFFICES ASSUME NEW d \in due PROVE Awaits(d[1], d[2])'
    BY <1>1 DEF DueInv
  <2>0. PICK id : id = d[2]
    OBVIOUS
  <2>1. PICK c \in Clients : c = d[1]
    BY DEF TypeInv
  <2>2. Awaits(c, id) /\ subscribers[c].conn = conn[c]
    BY <2>0, <2>1 DEF DueInv, SteadyInv
  <2>3. Matches(c, hand) => <<c, conn[c]>> \in todo'
    BY <1>3, <2>2
  <2>4. \A i \in DOMAIN data : Matches(c, data[i]) => Matches(c, data[i])'
    BY <1>1 DEF Matches
  <2>5. Awaits(c, id)'
    BY <1>1, <2>2, <2>3, <2>4 DEF Awaits
  <2> QED
    BY <2>0, <2>1, <2>5
<1> QED
  BY <1>2, <1>9, <1>10, <1>11

\* What a write leaves behind: whoever was written to on its open connection has the
\* message, once, and no write to him is left.
LEMMA WriteBackendKeeps ==
  ASSUME IInv, NEW c \in Clients, NEW n \in Numbers,
         WriteBackend(c, n) \/ WriteBackendFails(c, n)
  PROVE  IInv'
<1> USE DEF IInv
<1>1. /\ UNCHANGED <<wants, conn, open, pipe, subscribers, streams, pc, hand, data, pubs, link, due>>
      /\ pc = "write" /\ hand[1] = "pub" /\ <<c, n>> \in todo
      /\ todo' = todo \ {<<c, n>>}
      /\ \/ Usable(c, n) /\ got' = [got EXCEPT ![c] = Append(got[c], hand[2])]
         \/ ~Usable(c, n) /\ got' = got
  BY DEF WriteBackend, WriteBackendFails, clientVars, xpubVars, upVars, history
<1>2. /\ todo \subseteq Clients \X (0..MaxConns)
      /\ \A p, q \in todo : p[1] = q[1] => p = q
      /\ hand[2] \in Nat /\ hand[2] \in 1..pubs /\ pubs \in Nat
  BY <1>1, PublishedFacts, MessageKinds DEF OrderInv, HandInv, AheadInv, TypeInv
<1>3. /\ \A b \in Clients : Pending(b)' => Pending(b)
      /\ Pending(c) /\ ~Pending(c)'
  <2>1. \A k \in 0..MaxConns : <<c, k>> \in todo => <<c, k>> = <<c, n>>
    BY <1>1, <1>2
  <2>2. n \in 0..MaxConns
    BY BoundsAssumption DEF Numbers
  <2> QED
    BY <1>1, <2>1, <2>2 DEF Pending
<1>4. got[c] \in Seq(Nat) /\ got \in [Clients -> Seq(Nat)]
  BY DEF TypeInv
<1>5. hand[2] \notin Range(got[c])
  BY <1>1, <1>2, <1>3 DEF OrderInv, GotInv
<1>6. /\ Append(got[c], hand[2]) \in Seq(Nat)
      /\ Range(Append(got[c], hand[2])) = Range(got[c]) \cup {hand[2]}
      /\ IsInjective(Append(got[c], hand[2]))
  BY <1>2, <1>4, <1>5, AppendNew, AppendFacts DEF OrderInv, OnceInv
<1>7. /\ got' \in [Clients -> Seq(Nat)]
      /\ \A b \in Clients \ {c} : got'[b] = got[b]
      /\ Usable(c, n) => got'[c] = Append(got[c], hand[2])
      /\ ~Usable(c, n) => got'[c] = got[c]
  BY <1>1, <1>4, <1>6
<1>8. /\ \A b \in Clients : Range(got[b]) \subseteq Range(got'[b])
      /\ \A b \in Clients : \A m \in Range(got'[b]) : m \in Range(got[b]) \/ (m = hand[2] /\ b = c)
      /\ Usable(c, n) => hand[2] \in Range(got'[c])
  BY <1>6, <1>7
<1>9. OnceInv'
  BY <1>6, <1>7 DEF OrderInv, OnceInv
<1>10. TypeInv'
  BY <1>1, <1>7 DEF TypeInv
<1>11. SteadyInv' /\ LinkInv'
  BY <1>1 DEF SteadyInv, LinkInv
<1>12. HandInv' /\ QueueInv' /\ AheadInv'
  <2>1. todo' \subseteq todo
    BY <1>1
  <2> QED
    BY <1>1, <1>2, <2>1 DEF OrderInv, HandInv, QueueInv, AheadInv
<1>13. GotInv'
  <2> SUFFICES ASSUME NEW b \in Clients, NEW m \in Range(got'[b])
               PROVE  /\ m \in 1..pubs
                      /\ \A i \in DOMAIN data : data[i][1] = "pub" => m < data[i][2]
                      /\ m <= hand[2] /\ (Pending(b)' => m < hand[2])
    BY <1>1 DEF GotInv
  <2>1. CASE m \in Range(got[b])
    BY <1>1, <1>3, <2>1 DEF OrderInv, GotInv
  <2>2. CASE m = hand[2] /\ b = c
    BY <1>1, <1>2, <1>3, <2>2 DEF OrderInv, AheadInv
  <2> QED
    BY <1>8, <2>1, <2>2
<1>14. DueInv'
  <2> SUFFICES ASSUME NEW d \in due PROVE Awaits(d[1], d[2])'
    BY <1>1 DEF DueInv
  <2>0. PICK id : id = d[2]
    OBVIOUS
  <2>1. PICK b \in Clients : b = d[1]
    BY DEF TypeInv
  <2>2. Awaits(b, id) /\ b \in open
    BY <2>0, <2>1 DEF DueInv, SteadyInv
  <2>3. \A i \in DOMAIN data : Matches(b, data[i]) => Matches(b, data[i])'
    BY <1>1 DEF Matches
  <2>4. id \in Range(got[b]) => id \in Range(got'[b])
    BY <1>8
  <2>5. <<b, conn[b]>> \in todo /\ id = hand[2] =>
          <<b, conn[b]>> \in todo' \/ id \in Range(got'[b])
    <3>1. CASE <<b, conn[b]>> = <<c, n>>
      <4>1. Usable(c, n) /\ b = c
        BY <2>2, <3>1 DEF Usable
      <4> QED
        BY <1>8, <4>1
    <3>2. CASE <<b, conn[b]>> # <<c, n>>
      BY <1>1, <3>2
    <3> QED
      BY <3>1, <3>2
  <2>6. Awaits(b, id)'
    BY <1>1, <2>2, <2>3, <2>4, <2>5 DEF Awaits
  <2> QED
    BY <2>0, <2>1, <2>6
<1> QED
  BY <1>9, <1>10, <1>11, <1>12, <1>13, <1>14 DEF OrderInv

\* When all writes are done, nothing is due that is not received.
LEMMA BackendSentKeeps ==
  ASSUME IInv, BackendSent
  PROVE  IInv'
<1> USE DEF IInv
<1>1. /\ UNCHANGED <<wants, conn, open, pipe, subscribers, streams, data, pubs, link, got, due>>
      /\ pc = "write" /\ hand[1] = "pub" /\ todo = {}
      /\ pc' \in {"select", "remove"} /\ hand' = Nothing
  BY DEF BackendSent, clientVars, xpubVars, upVars, history
<1>2. TypeInv' /\ SteadyInv'
  BY <1>1, ProxyFrame DEF TypeInv
<1>3. HandInv' /\ hand'[1] # "pub"
  BY <1>1, MessageKinds DEF HandInv
<1>4. OrderInv' /\ LinkInv'
  BY <1>1, <1>3, OrderNoPublication, LinkFrame
<1>5. DueInv'
  BY <1>1, DueFrame DEF OrderInv
<1> QED
  BY <1>2, <1>4, <1>5

\* Removing the entry of a peer: nothing is due to it afterwards.
LEMMA RemoveEntryKeeps ==
  ASSUME IInv, NEW c \in Clients, RemoveEntry(c)
  PROVE  IInv'
<1> USE DEF IInv
<1>1. /\ UNCHANGED <<wants, conn, open, pipe, streams, pc, hand, todo, data, pubs, link, got>>
      /\ subscribers' = [subscribers EXCEPT ![c] = NoEntry]
      /\ due' = {d \in due : d[1] # c}
  BY DEF RemoveEntry, clientVars, upVars
<1>2. NoEntry \in [conn : 0..MaxConns, subs : [Filters -> Nat]]
  BY BoundsAssumption DEF NoEntry, NoFilters, AllOf
<1>3. TypeInv'
  BY <1>1, <1>2 DEF TypeInv
<1>4. /\ \A b \in Clients \ {c} : subscribers'[b] = subscribers[b]
      /\ \A d \in due' : d \in due /\ d[1] \in Clients \ {c}
  BY <1>1 DEF TypeInv
<1>5. SteadyInv'
  BY <1>1, <1>4 DEF SteadyInv
<1>6. OrderInv' /\ LinkInv'
  BY <1>1, OrderFrame, LinkFrame
<1>7. DueInv'
  BY <1>1, <1>4, DueFrame DEF OrderInv
<1> QED
  BY <1>3, <1>5, <1>6, <1>7

\* Removing the stream of a peer, which may be a new one of the identity: what is due
\* to it does not depend on its stream.
LEMMA RemoveStreamKeeps ==
  ASSUME IInv, NEW c \in Clients, RemoveStream(c)
  PROVE  IInv'
<1> USE DEF IInv
<1>1. /\ UNCHANGED <<wants, conn, open, pipe, subscribers, todo, data, pubs, link, got, due>>
      /\ pc \in {"remove", "fail"}
      /\ streams' = [streams EXCEPT ![c] = 0]
      /\ UNCHANGED <<pc, hand>> \/ (pc' \in {"select", "ended"} /\ hand' = Nothing)
  BY DEF RemoveStream, End, Back, clientVars, upVars
<1>2. 0 \in 0..MaxConns /\ streams \in [Clients -> 0..MaxConns]
  BY BoundsAssumption DEF TypeInv
<1>3. TypeInv'
  BY <1>1, <1>2 DEF TypeInv
<1>4. \A b \in Clients : streams'[b] = streams[b] \/ streams'[b] = 0
  BY <1>1, <1>2
<1>5. SteadyInv'
  BY <1>1, <1>4 DEF SteadyInv, TypeInv
<1>6. hand = Nothing /\ hand' = Nothing
  BY <1>1 DEF OrderInv, HandInv
<1>7. HandInv' /\ hand'[1] # "pub" /\ hand[1] # "pub"
  BY <1>1, <1>6, MessageKinds DEF HandInv
<1>8. OrderInv' /\ LinkInv'
  BY <1>1, <1>7, OrderNoPublication, LinkFrame
<1>9. DueInv'
  BY <1>1, <1>7, DueFrame DEF OrderInv
<1> QED
  BY <1>3, <1>5, <1>8, <1>9

-----------------------------------------------------------------------------
(* The publisher's side *)

\* The next message of the publisher's stream, which comes before all the others.
LEMMA RecvFrontendKeeps ==
  ASSUME IInv, RecvFrontend
  PROVE  IInv'
<1> USE DEF IInv
<1>0. PICK m : m = Head(data)
  OBVIOUS
<1>1. /\ UNCHANGED <<wants, conn, open, pipe, subscribers, streams, todo, pubs, got, due>>
      /\ pc = "select" /\ data # <<>> /\ data' = Tail(data)
      /\ m = Lost => link' = "none" /\ ((pc' = "ended" /\ hand' = Nothing) \/ UNCHANGED <<pc, hand>>)
      /\ m # Lost => pc' = "forward" /\ hand' = m /\ UNCHANGED link
  BY <1>0 DEF RecvFrontend, Receive, End, clientVars, xpubVars, history
<1>2. /\ m \in Publications \cup {Lost} /\ m = data[1]
      /\ Tail(data) \in Seq(Publications \cup {Lost})
      /\ Len(data) \in Nat \ {0}
      /\ DOMAIN data = 1..Len(data)
      /\ Len(Tail(data)) = Len(data) - 1
      /\ DOMAIN Tail(data) = 1..(Len(data) - 1)
      /\ \A i \in 1..(Len(data) - 1) : Tail(data)[i] = data[i + 1]
  <2>1. data \in Seq(Publications \cup {Lost}) /\ data # <<>>
    BY <1>1 DEF TypeInv
  <2> QED
    BY <1>0, <2>1, TailFacts, Zenon
<1>3. TypeInv' /\ SteadyInv'
  BY <1>1, <1>2, ProxyFrame
<1>4. hand = Nothing /\ hand[1] = "nothing"
  BY <1>1, MessageKinds DEF OrderInv, HandInv
<1>5. CASE m = Lost
  <2>0. 1 \in DOMAIN data /\ data[1] = Lost
    BY <1>2, <1>5
  <2>1. Len(data) = 1 /\ link = "lost"
    BY <2>0 DEF LinkInv
  <2>2. due' = {}
    BY <1>1, <2>1 DEF LinkInv
  <2>3. data' = <<>>
    BY <1>1, <1>2, <2>1
  <2>4. LinkInv' /\ DueInv'
    BY <2>2, <2>3 DEF LinkInv, DueInv
  <2>5. hand' = Nothing /\ pc' \in {"select", "ended"}
    BY <1>1, <1>4, <1>5
  <2>6. HandInv' /\ hand'[1] # "pub"
    BY <2>5, MessageKinds DEF HandInv
  <2>7. OrderInv'
    BY <1>1, <2>3, <2>6, OrderNoPublication
  <2> QED
    BY <1>3, <2>4, <2>7
<1>6. CASE m # Lost
  <2>1. m \in Publications /\ m[1] = "pub"
    BY <1>2, <1>6, MessageKinds
  <2>2. pc' = "forward" /\ hand' = m /\ link' = link
    BY <1>1, <1>6
  <2>3. HandInv'
    BY <2>1, <2>2 DEF HandInv
  <2>4. \A i \in DOMAIN data' : i + 1 \in DOMAIN data /\ data'[i] = data[i + 1] /\ i \in Nat /\ i > 0
    BY <1>1, <1>2
  <2>5. 1 \in DOMAIN data
    BY <1>2
  <2>6. QueueInv'
    <3> SUFFICES ASSUME NEW i \in DOMAIN data', data'[i][1] = "pub"
                 PROVE  /\ data'[i][2] \in 1..pubs
                        /\ \A j \in DOMAIN data' : j > i /\ data'[j][1] = "pub" =>
                             data'[i][2] < data'[j][2]
      BY <1>1 DEF QueueInv
    <3> QED
      BY <2>4 DEF OrderInv, QueueInv
  <2>7. m[2] \in 1..pubs /\ \A i \in DOMAIN data' : data'[i][1] = "pub" => m[2] < data'[i][2]
    BY <1>2, <2>1, <2>4, <2>5 DEF OrderInv, QueueInv
  <2>8. AheadInv'
    BY <1>1, <2>2, <2>7 DEF AheadInv
  <2>9. GotInv'
    <3> SUFFICES ASSUME NEW b \in Clients, NEW k \in Range(got[b])
                 PROVE  /\ k \in 1..pubs
                        /\ \A i \in DOMAIN data' : data'[i][1] = "pub" => k < data'[i][2]
                        /\ k < m[2] /\ k <= m[2]
      BY <1>1, <2>2 DEF GotInv
    <3>1. /\ k \in 1..pubs
          /\ \A i \in DOMAIN data : data[i][1] = "pub" => k < data[i][2]
      BY DEF OrderInv, GotInv
    <3>2. k < m[2]
      BY <1>2, <2>1, <2>5, <3>1
    <3> QED
      BY <2>4, <2>7, <3>1, <3>2 DEF TypeInv
  <2>10. OnceInv'
    BY <1>1 DEF OrderInv, OnceInv
  <2>11. LinkInv'
    <3>1. Len(data') = Len(data) - 1
      BY <1>1, <1>2
    <3> QED
      BY <1>1, <1>2, <2>2, <2>4, <3>1 DEF LinkInv
  <2>12. DueInv'
    <3> SUFFICES ASSUME NEW d \in due PROVE Awaits(d[1], d[2])'
      BY <1>1 DEF DueInv
    <3>1. PICK c, id : c = d[1] /\ id = d[2]
      OBVIOUS
    <3>2. \/ \E i \in DOMAIN data : data[i][1] = "pub" /\ data[i][2] = id /\ Matches(c, data[i])
          \/ id \in Range(got[c])
      <4>1. Awaits(c, id)
        BY <3>1 DEF DueInv
      <4> QED
        BY <1>1, <1>4, <4>1 DEF Awaits
    <3>3. CASE id \in Range(got[c])
      BY <1>1, <3>1, <3>3 DEF Awaits
    <3>4. ASSUME NEW i \in DOMAIN data, data[i][1] = "pub", data[i][2] = id, Matches(c, data[i])
          PROVE  Awaits(c, id)'
      <4>1. CASE i = 1
        <5>1. Subscribed(subscribers[c].subs, m[3]) /\ m[2] = id
          BY <1>2, <3>4, <4>1 DEF Matches
        <5>2. Matches(c, hand)'
          BY <1>1, <2>2, <5>1 DEF Matches, Subscribed
        <5> QED
          BY <2>1, <2>2, <5>1, <5>2 DEF Awaits
      <4>2. CASE i # 1
        <5>1. i - 1 \in DOMAIN data' /\ data'[i - 1] = data[i]
          BY <1>1, <1>2, <4>2
        <5>2. Matches(c, data[i - 1])'
          BY <1>1, <3>4, <5>1 DEF Matches, Subscribed
        <5> QED
          BY <3>4, <5>1, <5>2 DEF Awaits
      <4> QED
        BY <4>1, <4>2
    <3> QED
      BY <3>1, <3>2, <3>3, <3>4
  <2> QED
    BY <1>3, <2>3, <2>6, <2>8, <2>9, <2>10, <2>11, <2>12 DEF OrderInv
<1> QED
  BY <1>5, <1>6

\* A new message comes last, and a subscriber to whom it is due matches it.
LEMMA PublishKeeps ==
  ASSUME IInv, NEW s \in Subjects, Publish(s)
  PROVE  IInv'
<1> USE DEF IInv
<1>0. PICK m, k, l : m = <<"pub", pubs + 1, s>> /\ k = pubs + 1 /\ l = Len(data) + 1
  OBVIOUS
<1>1. /\ UNCHANGED <<wants, conn, open, pipe, subscribers, streams, pc, hand, todo, link, got>>
      /\ link = "alive" /\ pubs' = k
      /\ data' = Append(data, m)
      /\ due' = due \cup {<<c, k>> :
              c \in {d \in open : /\ subscribers[d].conn = conn[d] /\ streams[d] = conn[d]
                                  /\ pipe[d][conn[d]] = <<>>
                                  /\ \E f \in PrefixesOf[s] \cap wants[d] :
                                        subscribers[d].subs[f] > 0}}
  BY <1>0 DEF Publish, clientVars, xpubVars, proxyVars
<1>2. /\ k \in Nat /\ pubs \in Nat /\ k = pubs + 1 /\ \A i \in 1..pubs : i \in 1..k /\ i < k
      /\ k \in 1..k
  BY <1>0 DEF TypeInv
<1>3. /\ m \in Publications /\ m[1] = "pub" /\ m[2] = k /\ m[3] = s /\ m # Lost
  BY <1>0, <1>2, MessagesBuilt, MessageKinds
<1>4. /\ data' \in Seq(Publications \cup {Lost})
      /\ Len(data) \in Nat /\ l \in DOMAIN data' /\ data'[l] = m
      /\ \A i \in DOMAIN data : i \in DOMAIN data' /\ data'[i] = data[i] /\ i < l /\ i \in Nat
      /\ \A i \in DOMAIN data' : i \in DOMAIN data \/ i = l
  <2>1. data \in Seq(Publications \cup {Lost}) /\ m \in Publications \cup {Lost}
    BY <1>3 DEF TypeInv
  <2>2. /\ Append(data, m) \in Seq(Publications \cup {Lost})
        /\ Len(data) \in Nat
        /\ DOMAIN data = 1..Len(data)
        /\ DOMAIN Append(data, m) = 1..(Len(data) + 1)
        /\ \A i \in 1..Len(data) : Append(data, m)[i] = data[i]
        /\ Append(data, m)[Len(data) + 1] = m
    BY <2>1, AppendFacts
  <2> QED
    BY <1>0, <1>1, <2>2
<1>5. ASSUME NEW d \in due' PROVE
        \/ d \in due
        \/ /\ d[1] \in Clients /\ d[2] = k /\ d \in Clients \X Nat
           /\ d[1] \in open
           /\ subscribers[d[1]].conn = conn[d[1]] /\ streams[d[1]] \in {0, conn[d[1]]}
           /\ pipe[d[1]][conn[d[1]]] = <<>>
           /\ Subscribed(subscribers[d[1]].subs, s)
  <2>1. CASE d \in due
    BY <2>1
  <2>2. CASE d \notin due
    <3>1. PICK c \in open : /\ d = <<c, k>>
                            /\ subscribers[c].conn = conn[c] /\ streams[c] = conn[c]
                            /\ pipe[c][conn[c]] = <<>>
                            /\ \E f \in PrefixesOf[s] \cap wants[c] : subscribers[c].subs[f] > 0
      BY <1>1, <1>5, <2>2
    <3>2. c \in Clients /\ d[1] = c /\ d[2] = k /\ d \in Clients \X Nat
      BY <1>2, <3>1 DEF TypeInv
    <3>3. Subscribed(subscribers[c].subs, s)
      BY <3>1 DEF Subscribed
    <3> QED
      BY <3>1, <3>2, <3>3
  <2> QED
    BY <2>1, <2>2
<1>6. due' \subseteq Clients \X Nat
  BY <1>5 DEF TypeInv
<1>7. TypeInv'
  BY <1>1, <1>2, <1>4, <1>6 DEF TypeInv
<1>8. HandInv' /\ OnceInv'
  BY <1>1 DEF OrderInv, HandInv, OnceInv
<1>9. QueueInv'
  <2> SUFFICES ASSUME NEW i \in DOMAIN data', data'[i][1] = "pub"
               PROVE  /\ data'[i][2] \in 1..k
                      /\ \A j \in DOMAIN data' : j > i /\ data'[j][1] = "pub" =>
                           data'[i][2] < data'[j][2]
    BY <1>1 DEF QueueInv
  <2>1. CASE i = l
    <3>1. \A j \in DOMAIN data' : ~ j > i
      BY <1>0, <1>4, <2>1
    <3> QED
      BY <1>2, <1>3, <1>4, <2>1, <3>1
  <2>2. CASE i \in DOMAIN data
    <3>1. data[i][2] \in 1..pubs /\ data'[i] = data[i]
      BY <1>4, <2>2 DEF OrderInv, QueueInv
    <3>2. ASSUME NEW j \in DOMAIN data', j > i, data'[j][1] = "pub" PROVE data'[i][2] < data'[j][2]
      <4>1. CASE j = l
        BY <1>2, <1>3, <1>4, <3>1, <4>1
      <4>2. CASE j \in DOMAIN data
        BY <1>4, <2>2, <3>2, <4>2 DEF OrderInv, QueueInv
      <4> QED
        BY <1>4, <4>1, <4>2
    <3> QED
      BY <1>2, <3>1, <3>2
  <2> QED
    BY <1>4, <2>1, <2>2
<1>10. AheadInv'
  <2> SUFFICES ASSUME hand[1] = "pub"
               PROVE  /\ hand[2] \in 1..k
                      /\ \A i \in DOMAIN data' : data'[i][1] = "pub" => hand[2] < data'[i][2]
    BY <1>1 DEF AheadInv
  <2>1. /\ hand[2] \in 1..pubs
        /\ \A i \in DOMAIN data : data[i][1] = "pub" => hand[2] < data[i][2]
    BY DEF OrderInv, AheadInv
  <2> QED
    BY <1>2, <1>3, <1>4, <2>1
<1>11. GotInv'
  <2> SUFFICES ASSUME NEW b \in Clients, NEW i \in Range(got[b])
               PROVE  /\ i \in 1..k
                      /\ \A j \in DOMAIN data' : data'[j][1] = "pub" => i < data'[j][2]
                      /\ hand[1] = "pub" => i <= hand[2] /\ (Pending(b) => i < hand[2])
    BY <1>1 DEF GotInv, Pending
  <2>1. /\ i \in 1..pubs
        /\ \A j \in DOMAIN data : data[j][1] = "pub" => i < data[j][2]
        /\ hand[1] = "pub" => i <= hand[2] /\ (Pending(b) => i < hand[2])
    BY DEF OrderInv, GotInv
  <2> QED
    BY <1>2, <1>3, <1>4, <2>1
<1>12. LinkInv'
  <2>1. \A i \in DOMAIN data : data[i] # Lost
    BY <1>1 DEF LinkInv
  <2> QED
    BY <1>1, <1>3, <1>4, <2>1 DEF LinkInv
<1>13. SteadyInv'
  <2> SUFFICES ASSUME NEW d \in due'
               PROVE  /\ d[1] \in open
                      /\ subscribers[d[1]].conn = conn[d[1]] /\ streams[d[1]] \in {0, conn[d[1]]}
                      /\ \A i \in DOMAIN pipe[d[1]][conn[d[1]]] :
                           pipe[d[1]][conn[d[1]]][i][1] \in {"sub", "data"}
    BY <1>1 DEF SteadyInv
  <2>1. CASE d \in due
    BY <2>1 DEF SteadyInv
  <2>2. CASE d \notin due
    <3>1. DOMAIN pipe[d[1]][conn[d[1]]] = {}
      BY <1>5, <2>2
    <3> QED
      BY <1>5, <2>2, <3>1
  <2> QED
    BY <2>1, <2>2
<1>14. DueInv'
  <2> SUFFICES ASSUME NEW d \in due' PROVE Awaits(d[1], d[2])'
    BY DEF DueInv
  <2>1. PICK c : c = d[1]
    OBVIOUS
  <2>2. PICK id : id = d[2]
    OBVIOUS
  <2>3. \A i \in DOMAIN data' : Subscribed(subscribers[c].subs, data'[i][3]) => Matches(c, data[i])'
    BY <1>1 DEF Matches, Subscribed
  <2>4. CASE d \in due
    <3>1. Awaits(c, id)
      BY <2>1, <2>2, <2>4 DEF DueInv
    <3>2. \A i \in DOMAIN data : Matches(c, data[i]) => Matches(c, data[i])'
      BY <1>4, <2>3 DEF Matches
    <3>3. Matches(c, hand) => Matches(c, hand)'
      BY <1>1 DEF Matches, Subscribed
    <3>4. Awaits(c, id)'
      BY <1>1, <1>4, <3>1, <3>2, <3>3 DEF Awaits
    <3> QED
      BY <2>1, <2>2, <3>4
  <2>5. CASE d \notin due
    <3>1. id = k /\ Subscribed(subscribers[c].subs, s)
      BY <1>5, <2>1, <2>2, <2>5
    <3>2. Matches(c, data[l])'
      BY <1>3, <1>4, <2>3, <3>1
    <3>3. Awaits(c, id)'
      BY <1>3, <1>4, <3>1, <3>2 DEF Awaits
    <3> QED
      BY <2>1, <2>2, <3>3
  <2> QED
    BY <2>4, <2>5
<1> QED
  BY <1>7, <1>8, <1>9, <1>10, <1>11, <1>12, <1>13, <1>14 DEF OrderInv

\* The end of the publisher's connection follows what it has sent.
LEMMA LinkLostKeeps ==
  ASSUME IInv, LinkLost
  PROVE  IInv'
<1> USE DEF IInv
<1>1. /\ UNCHANGED <<wants, conn, open, pipe, subscribers, streams, pc, hand, todo, pubs, got>>
      /\ link = "alive" /\ link' = "lost"
      /\ data' = Append(data, Lost) /\ due' = {}
  BY DEF LinkLost, clientVars, xpubVars, proxyVars
<1>2. /\ data' \in Seq(Publications \cup {Lost})
      /\ \A i \in DOMAIN data : data'[i] = data[i]
      /\ \A i \in DOMAIN data' : i \in DOMAIN data \/ (i = Len(data') /\ data'[i] = Lost)
  <2>1. data \in Seq(Publications \cup {Lost}) /\ Lost \in Publications \cup {Lost}
    BY DEF TypeInv
  <2>2. /\ Append(data, Lost) \in Seq(Publications \cup {Lost})
        /\ Len(data) \in Nat
        /\ DOMAIN data = 1..Len(data)
        /\ Len(Append(data, Lost)) = Len(data) + 1
        /\ DOMAIN Append(data, Lost) = 1..(Len(data) + 1)
        /\ \A i \in 1..Len(data) : Append(data, Lost)[i] = data[i]
        /\ Append(data, Lost)[Len(data) + 1] = Lost
    BY <2>1, AppendFacts
  <2> QED
    BY <1>1, <2>2
<1>3. TypeInv'
  BY <1>1, <1>2 DEF TypeInv
<1>4. SteadyInv' /\ DueInv'
  BY <1>1 DEF SteadyInv, DueInv
<1>5. LinkInv'
  <2>1. \A i \in DOMAIN data : data[i] # Lost
    BY <1>1 DEF LinkInv
  <2> QED
    BY <1>1, <1>2, <2>1 DEF LinkInv
<1>6. \A i \in DOMAIN data' : data'[i][1] = "pub" => i \in DOMAIN data /\ data'[i] = data[i]
  BY <1>2, MessageKinds
<1>7. HandInv' /\ OnceInv' /\ AheadInv'
  BY <1>1, <1>6 DEF OrderInv, HandInv, OnceInv, AheadInv
<1>8. QueueInv' /\ GotInv'
  BY <1>1, <1>6 DEF OrderInv, QueueInv, GotInv, Pending
<1> QED
  BY <1>3, <1>4, <1>5, <1>7, <1>8 DEF OrderInv

\* Nothing is due while the publisher is being replaced.
LEMMA ReplaceKeeps ==
  ASSUME IInv, Resync \/ Rejoin
  PROVE  IInv'
<1> USE DEF IInv
<1>1. /\ UNCHANGED <<wants, conn, open, pipe, subscribers, streams, pc, hand, todo, pubs, got, due>>
      /\ link \in {"none", "resync"}
      /\ data' = <<>> \/ (link' = "resync" /\ data' = data)
  BY DEF Resync, Rejoin, Resyncing, clientVars, xpubVars, proxyVars, history
<1>2. due' = {}
  BY <1>1 DEF LinkInv
<1>3. data' \in Seq(Publications \cup {Lost})
  <2>1. data \in Seq(Publications \cup {Lost}) /\ <<>> \in Seq(Publications \cup {Lost})
    BY DEF TypeInv
  <2> QED
    BY <1>1, <2>1
<1>4. TypeInv' /\ SteadyInv'
  BY <1>1, <1>3, ProxyFrame
<1>5. OrderInv'
  BY <1>1, OrderFrame
<1>6. LinkInv' /\ DueInv'
  BY <1>1, <1>2 DEF LinkInv, DueInv
<1> QED
  BY <1>4, <1>5, <1>6

-----------------------------------------------------------------------------
(* The specification *)

LEMMA InitIInv == Init => IInv
<1> SUFFICES ASSUME Init PROVE IInv
  OBVIOUS
<1>1. /\ 1 \in Numbers /\ 1 \in 0..MaxConns
      /\ <<>> \in Seq(Requests) /\ <<>> \in Seq(Nat)
      /\ <<>> \in Seq(Publications \cup {Lost})
      /\ DOMAIN <<>> = {}
  BY BoundsAssumption DEF Numbers
<1>2. \A c \in Clients : [conn |-> 1, subs |-> AllOf(IF c \in Early THEN 1 ELSE 0)]
        \in [conn : 0..MaxConns, subs : [Filters -> Nat]]
  BY <1>1 DEF AllOf
<1>3. /\ pipe \in [Clients -> [Numbers -> Seq(Requests)]]
      /\ subscribers \in [Clients -> [conn : 0..MaxConns, subs : [Filters -> Nat]]]
  BY <1>1, <1>2 DEF Init
<1>4. TypeInv
  BY <1>1, <1>3 DEF Init, TypeInv
<1>5. hand[1] # "pub" /\ hand = Nothing
  BY MessageKinds DEF Init
<1>6. OrderInv
  <2>1. HandInv /\ AheadInv
    BY <1>5 DEF Init, HandInv, AheadInv
  <2>2. \A c \in Clients : got[c] = <<>>
    BY DEF Init
  <2>3. \A c \in Clients : Range(got[c]) = {} /\ IsInjective(got[c])
    BY <1>1, <2>2 DEF Range, IsInjective
  <2>4. data = <<>>
    BY DEF Init
  <2> QED
    BY <1>1, <2>1, <2>3, <2>4 DEF OrderInv, QueueInv, GotInv, OnceInv
<1>7. LinkInv /\ SteadyInv /\ DueInv
  BY <1>1 DEF Init, LinkInv, SteadyInv, DueInv
<1> QED
  BY <1>4, <1>6, <1>7 DEF IInv

LEMMA StutterKeeps ==
  ASSUME IInv, UNCHANGED vars
  PROVE  IInv'
<1>1. UNCHANGED <<wants, conn, open, pipe, subscribers, streams, pc, hand, todo, data, pubs,
                  link, got, due>>
  BY DEF vars, clientVars, xpubVars, proxyVars, upVars, history
<1>2. TypeInv' /\ SteadyInv'
  BY <1>1, ProxyFrame DEF IInv, TypeInv
<1>3. OrderInv' /\ LinkInv'
  BY <1>1, OrderFrame, LinkFrame DEF IInv
<1>4. DueInv'
  BY <1>1, DueFrame DEF IInv, OrderInv
<1> QED
  BY <1>2, <1>3, <1>4 DEF IInv

LEMMA NextKeeps == IInv /\ [Next]_vars => IInv'
<1> SUFFICES ASSUME IInv, [Next]_vars PROVE IInv'
  OBVIOUS
<1>1. CASE ProxyStep
  <2>1. ASSUME NEW c \in Clients, RecvBackend(c) \/ RemoveEntry(c) \/ RemoveStream(c)
        PROVE  IInv'
    BY <2>1, StreamEndKeeps, ReadKeeps, RemoveEntryKeeps, RemoveStreamKeeps
  <2>2. ASSUME NEW c \in Clients, NEW n \in Numbers, WriteBackend(c, n) \/ WriteBackendFails(c, n)
        PROVE  IInv'
    BY <2>2, WriteBackendKeeps
  <2> QED
    BY <1>1, <2>1, <2>2, RecvFrontendKeeps, CaptureFailsKeeps, FrontendSendKeeps,
       WriteFrontendFailsKeeps, SendBackendKeeps, BackendSentKeeps DEF ProxyStep
<1>2. CASE AcceptStep
  BY <1>2, AcceptKeeps DEF AcceptStep
<1>3. CASE ClientStep
  <2>1. PICK c \in Clients :
          \/ \E f \in Filters : Subscribe(c, f) \/ Unsubscribe(c, f)
          \/ SendData(c) \/ Leave(c) \/ SeeClosed(c) \/ Return(c)
    BY <1>3 DEF ClientStep
  <2> QED
    BY <2>1, ClientSendsKeeps, ClientGoesKeeps, ReturnKeeps
<1>4. CASE \E s \in Subjects : Publish(s)
  BY <1>4, PublishKeeps
<1>5. CASE LinkLost \/ Resync \/ Rejoin
  BY <1>5, LinkLostKeeps, ReplaceKeeps
<1>6. CASE UNCHANGED vars
  BY <1>6, StutterKeeps
<1> QED
  BY <1>1, <1>2, <1>3, <1>4, <1>5, <1>6 DEF Next

\* The inductive invariant: what the proxy, the XPUB socket and the two ends hold of a
\* message that somebody is to get, in the order in which the messages were sent.
THEOREM ProxyInvariant == Spec => []IInv
  BY InitIInv, NextKeeps, PTL DEF Spec

\* XPubSocket::send behind the proxy serves every subscriber that stays, whoever else
\* is connected, leaves, returns or is removed in the middle of a send, and serves
\* nobody a message twice: for any number of subscribers, connections and messages.
THEOREM ProxyServesOnce == Spec => []XPubServesSubscribers
<1>1. IInv => XPubServesSubscribers
  <2> SUFFICES ASSUME IInv PROVE XPubServesSubscribers
    OBVIOUS
  <2>1. ASSUME NEW d \in due PROVE d[2] \in Range(got[d[1]]) \/ OnTheWay(d[2]) \/ pc = "ended"
    <3>1. Awaits(d[1], d[2])
      BY DEF IInv, DueInv
    <3> QED
      BY <3>1 DEF Awaits, OnTheWay
  <2>2. \A c \in Clients : IsInjective(got[c])
    BY DEF IInv, OrderInv, OnceInv
  <2> QED
    BY <2>1, <2>2 DEF XPubServesSubscribers
<1> QED
  BY <1>1, ProxyInvariant, PTL
-----------------------------------------------------------------------------
(* The publisher knows what the subscribers hold.                          *)
(*                                                                         *)
(* What the proxy has read of a connection is a set of filters.  It is not *)
(* in the state: an entry is emptied when a connection is replaced, while  *)
(* nothing takes back, towards the publisher, what the old connection had  *)
(* subscribed to.  So the invariant says that there are such sets, h[c][n] *)
(* for connection n of c, of which the entries hold at most, and the       *)
(* publisher at least, as many as there are connections with the filter.   *)

\* A message of a subscriber that holds the filters a leaves it with b: no filter is
\* subscribed to twice on a connection, nor taken back when it is not held.
Changes(a, m, b) ==
  CASE m[1] = "sub" -> m[2] \notin a /\ b = a \cup {m[2]}
    [] m[1] = "unsub" -> m[2] \in a /\ b = a \ {m[2]}
    [] OTHER -> b = a

\* The messages of s lead from the filters a to b.
Leads(a, s, b) ==
  \E k \in [1..(Len(s) + 1) -> SUBSET Filters] :
    /\ k[1] = a /\ k[Len(s) + 1] = b
    /\ \A i \in 1..Len(s) : Changes(k[i], s[i], k[i + 1])

Readings == [Clients -> [Numbers -> SUBSET Filters]]

\* What is still to be read of a client's latest connection leads to what its
\* application is subscribed to.
PipesInv(h) ==
  \A c \in Clients, n \in Numbers :
    /\ n = conn[c] => Leads(h[c][n], pipe[c][n], wants[c])
    /\ n < conn[c] => \E b \in SUBSET Filters : Leads(h[c][n], pipe[c][n], b)
    /\ n > conn[c] => h[c][n] = {} /\ pipe[c][n] = <<>>

\* Two readings differ at most in one connection.
ElsewhereSame(g, h, c, n) ==
  \A b \in Clients, i \in Numbers : b # c \/ i # n => g[b][i] = h[b][i]

Connections(h, c, f) == {n \in Numbers : f \in h[c][n]}
Holders(h, f) == {p \in Clients \X Numbers : f \in h[p[1]][p[2]]}

\* An entry has a filter at most once for each connection that subscribed to it.
EntriesInv(h) ==
  \A c \in Clients, f \in Filters :
    subscribers[c].subs[f] <= Cardinality(Connections(h, c, f))

One(b) == IF b THEN 1 ELSE 0
Asks(m, kind, f) == m[1] = kind /\ m[2] = f
Doing(step, kind, f) == pc = step /\ Asks(hand, kind, f)

\* Once the message in hand has been applied, as many subscriptions to a filter are
\* owed to the publisher as there are connections that hold it.
OwedInv(h) ==
  \A f \in Filters :
    owed[f] + One(Doing("forward", "sub", f)) >=
      Cardinality(Holders(h, f)) + One(Doing("forward", "unsub", f))

\* Once the message in hand has been written, the publisher has what it is owed.
TableInv ==
  link \in {"alive", "resync"} =>
    \A f \in Filters \ (thinned \cup missed) :
      table[f] + One(Doing("write", "sub", f)) >=
        owed[f] + One(Doing("write", "unsub", f))

\* The connection to the publisher, and the entries of clients that have none.
UpstreamInv ==
  /\ owed \in [Filters -> Nat] /\ table \in [Filters -> Nat]
  /\ link \in {"alive", "lost", "none", "resync"}
  /\ peer \in BOOLEAN /\ (peer <=> link \in {"alive", "lost"})
  /\ pc = "write" /\ hand[1] # "pub" => peer
  /\ \A c \in Clients : subscribers[c].conn = 0 => subscribers[c].subs = NoFilters

Accounted == \E h \in Readings : PipesInv(h) /\ EntriesInv(h) /\ OwedInv(h)
CoverInv == UpstreamInv /\ TableInv /\ (pc # "ended" => Accounted)

\* Nothing to read leads nowhere,
LEMMA LeadsNowhere ==
  ASSUME NEW a \in SUBSET Filters PROVE Leads(a, <<>>, a)
<1> DEFINE k == [i \in 1..1 |-> a]
<1>1. Len(<<>>) = 0 /\ 0 + 1 = 1
  OBVIOUS
<1>2. k \in [1..1 -> SUBSET Filters] /\ k[1] = a
  OBVIOUS
<1>3. \A i \in 1..0 : FALSE
  OBVIOUS
<1> HIDE DEF k
<1>4. \E x \in [1..1 -> SUBSET Filters] :
        /\ x[1] = a /\ x[1] = a
        /\ \A i \in 1..0 : Changes(x[i], <<>>[i], x[i + 1])
  BY <1>2, <1>3, Zenon
<1> QED
  BY <1>1, <1>4, Zenon DEF Leads

\* a message that is sent leads on,
LEMMA LeadsOn ==
  ASSUME NEW a \in SUBSET Filters, NEW b \in SUBSET Filters, NEW d \in SUBSET Filters,
         NEW s \in Seq(Requests), NEW m \in Requests, Leads(a, s, b), Changes(b, m, d)
  PROVE  Leads(a, Append(s, m), d)
<1>1. PICK t, l : t = Append(s, m) /\ l = Len(s)
  OBVIOUS
<1>2. /\ l \in Nat /\ Len(t) = l + 1 /\ t[l + 1] = m
      /\ \A i \in 1..l : t[i] = s[i]
  BY <1>1, AppendFacts
<1>3. PICK k \in [1..(l + 1) -> SUBSET Filters] :
        /\ k[1] = a /\ k[l + 1] = b
        /\ \A i \in 1..l : Changes(k[i], s[i], k[i + 1])
  BY <1>1 DEF Leads
<1> DEFINE j == [i \in 1..(l + 2) |-> IF i = l + 2 THEN d ELSE k[i]]
<1>4. /\ j \in [1..(l + 2) -> SUBSET Filters]
      /\ j[1] = a /\ j[l + 2] = d /\ j[l + 1] = b
      /\ \A i \in 1..(l + 1) : j[i] = k[i]
  BY <1>2, <1>3
<1>5. ASSUME NEW i \in 1..(l + 1) PROVE Changes(j[i], t[i], j[i + 1])
  <2>1. CASE i = l + 1
    <3>1. j[i] = b /\ t[i] = m /\ j[i + 1] = d
      BY <1>2, <1>4, <2>1
    <3> QED
      BY <3>1, Zenon
  <2>2. CASE i \in 1..l
    <3>1. j[i] = k[i] /\ t[i] = s[i] /\ j[i + 1] = k[i + 1]
      <4>1. i \in 1..(l + 1) /\ i + 1 \in 1..(l + 1)
        BY <1>2, <2>2
      <4> QED
        BY <1>2, <1>4, <2>2, <4>1
    <3>2. Changes(k[i], s[i], k[i + 1])
      BY <1>3, <2>2
    <3> QED
      BY <3>1, <3>2, Zenon
  <2> QED
    BY <1>2, <2>1, <2>2
<1>6. Len(t) + 1 = l + 2
  BY <1>2
<1> HIDE DEF j
<1>7. \E x \in [1..(l + 2) -> SUBSET Filters] :
        /\ x[1] = a /\ x[l + 2] = d
        /\ \A i \in 1..(l + 1) : Changes(x[i], t[i], x[i + 1])
  BY <1>4, <1>5, Zenon
<1> QED
  BY <1>1, <1>2, <1>6, <1>7 DEF Leads

\* and one that is read leaves the rest.
LEMMA LeadsFrom ==
  ASSUME NEW a \in SUBSET Filters, NEW b \in SUBSET Filters,
         NEW s \in Seq(Requests), s # <<>>, Leads(a, s, b)
  PROVE  \E d \in SUBSET Filters : Changes(a, Head(s), d) /\ Leads(d, Tail(s), b)
<1>1. PICK t, l : t = Tail(s) /\ l = Len(s)
  OBVIOUS
<1>2. /\ l \in Nat \ {0} /\ Len(t) = l - 1 /\ Head(s) = s[1]
      /\ \A i \in 1..(l - 1) : t[i] = s[i + 1]
  BY <1>1, TailFacts
<1>3. PICK k \in [1..(l + 1) -> SUBSET Filters] :
        /\ k[1] = a /\ k[l + 1] = b
        /\ \A i \in 1..l : Changes(k[i], s[i], k[i + 1])
  BY <1>1 DEF Leads
<1> DEFINE j == [i \in 1..l |-> k[i + 1]]
<1>4. /\ j \in [1..l -> SUBSET Filters] /\ j[1] = k[2] /\ j[l] = b
      /\ \A i \in 1..l : j[i] = k[i + 1]
  BY <1>2, <1>3
<1>5. ASSUME NEW i \in 1..(l - 1) PROVE Changes(j[i], t[i], j[i + 1])
  <2>1. i + 1 \in 1..l /\ i \in 1..l
    BY <1>2
  <2>2. j[i] = k[i + 1] /\ t[i] = s[i + 1] /\ j[i + 1] = k[(i + 1) + 1]
    BY <1>2, <1>4, <2>1
  <2>3. Changes(k[i + 1], s[i + 1], k[(i + 1) + 1])
    BY <1>3, <2>1
  <2> QED
    BY <2>2, <2>3, Zenon
<1>6. k[2] \in SUBSET Filters /\ Changes(a, Head(s), k[2])
  <2>1. 1 \in 1..l /\ 2 \in 1..(l + 1) /\ 1 + 1 = 2
    BY <1>2
  <2>2. Changes(k[1], s[1], k[1 + 1])
    BY <1>3, <2>1
  <2>3. k[1] = a /\ k[1 + 1] = k[2] /\ Head(s) = s[1]
    BY <1>2, <1>3, <2>1
  <2>4. k[2] \in SUBSET Filters
    BY <1>3, <2>1
  <2> QED
    BY <2>2, <2>3, <2>4, Zenon
<1> HIDE DEF j
<1>7. \E x \in [1..l -> SUBSET Filters] :
        /\ x[1] = k[2] /\ x[l] = b
        /\ \A i \in 1..(l - 1) : Changes(x[i], t[i], x[i + 1])
  BY <1>4, <1>5, Zenon
<1>8. Len(t) + 1 = l
  BY <1>2
<1>9. Leads(k[2], t, b)
  BY <1>2, <1>7, <1>8 DEF Leads
<1> QED
  BY <1>1, <1>6, <1>9

\* A new connection sends every filter once.
LEMMA LeadsAnew ==
  ASSUME NEW W \in SUBSET Filters
  PROVE  Leads({}, SetToSeq({<<"sub", f>> : f \in W}), W)
<1>1. PICK S : S = {<<"sub", f>> : f \in W}
  OBVIOUS
<1>2. PICK n : n = Cardinality(S)
  OBVIOUS
<1>3. PICK s : s = SetToSeq(S)
  OBVIOUS
<1>4. IsFiniteSet(S)
  <2>1. IsFiniteSet(W)
    BY FiltersAssumption, FS_Subset
  <2> DEFINE g == [f \in W |-> <<"sub", f>>]
  <2>2. g \in Surjection(W, S)
    BY <1>1 DEF Surjection
  <2> QED
    BY <2>1, <2>2, FS_Surjection
<1>5. n \in Nat /\ ExistsBijection(1..n, S)
  BY <1>2, <1>4, FS_CardinalityType
<1>6. \E l \in [1..n -> S] : IsInjective(l)
  BY <1>5 DEF ExistsBijection, Bijection, Injection
<1>7. s \in [1..n -> S] /\ IsInjective(s)
  BY <1>2, <1>3, <1>6, Zenon DEF SetToSeq
<1>8. s \in Surjection(1..n, S)
  <2>1. s \in Injection(1..n, S)
    BY <1>7 DEF Injection, IsInjective
  <2>2. Cardinality(1..n) = n
    BY <1>5, FS_Interval
  <2> QED
    BY <1>2, <1>4, <2>1, <2>2, FS_Injection
<1>9. Len(s) = n
  BY <1>5, <1>7
<1>10. \A i \in 1..n : s[i][1] = "sub" /\ s[i][2] \in W /\ s[i] = <<"sub", s[i][2]>>
  BY <1>1, <1>7
<1>11. \A f \in W : \E i \in 1..n : s[i][2] = f
  <2> SUFFICES ASSUME NEW f \in W PROVE \E i \in 1..n : s[i][2] = f
    OBVIOUS
  <2>1. <<"sub", f>> \in S
    BY <1>1
  <2>2. PICK i \in 1..n : s[i] = <<"sub", f>>
    BY <1>8, <2>1 DEF Surjection
  <2> QED
    BY <2>2
<1>12. \A i, j \in 1..n : s[i][2] = s[j][2] => i = j
  BY <1>7, <1>10 DEF IsInjective
<1> DEFINE k == [i \in 1..(n + 1) |-> {s[j][2] : j \in 1..(i - 1)}]
<1>13. /\ k \in [1..(n + 1) -> SUBSET Filters]
       /\ k[1] = {} /\ k[n + 1] = W
  <2>1. ASSUME NEW i \in 1..(n + 1) PROVE {s[j][2] : j \in 1..(i - 1)} \in SUBSET Filters
    <3>1. \A j \in 1..(i - 1) : j \in 1..n
      BY <1>5
    <3> QED
      BY <1>10, <3>1
  <2>2. k[1] = {s[j][2] : j \in 1..0} /\ k[n + 1] = {s[j][2] : j \in 1..n}
    BY <1>5
  <2>3. {s[j][2] : j \in 1..0} = {}
    OBVIOUS
  <2>4. {s[j][2] : j \in 1..n} = W
    BY <1>10, <1>11
  <2> QED
    BY <2>1, <2>2, <2>3, <2>4
<1>14. ASSUME NEW i \in 1..n PROVE Changes(k[i], s[i], k[i + 1])
  <2>1. /\ k[i] = {s[j][2] : j \in 1..(i - 1)} /\ k[i + 1] = {s[j][2] : j \in 1..i}
    BY <1>5
  <2>2. s[i][2] \notin k[i]
    BY <1>5, <1>12, <2>1
  <2>3. 1..i = 1..(i - 1) \cup {i}
    BY <1>5
  <2>4. k[i + 1] = k[i] \cup {s[i][2]}
    BY <2>1, <2>3
  <2>5. s[i][1] = "sub"
    BY <1>10
  <2> HIDE DEF k
  <2> QED
    BY <2>2, <2>4, <2>5 DEF Changes
<1> HIDE DEF k
<1>15. \E x \in [1..(n + 1) -> SUBSET Filters] :
         /\ x[1] = {} /\ x[n + 1] = W
         /\ \A i \in 1..n : Changes(x[i], s[i], x[i + 1])
  BY <1>13, <1>14, Zenon
<1>16. Leads({}, s, W)
  BY <1>9, <1>15 DEF Leads
<1> QED
  BY <1>1, <1>3, <1>16, Zenon

-----------------------------------------------------------------------------
(* Counting *)

\* The sets that are counted are finite.
LEMMA CountsAreNumbers ==
  ASSUME NEW h \in Readings, NEW f
  PROVE  /\ IsFiniteSet(Holders(h, f)) /\ Cardinality(Holders(h, f)) \in Nat
         /\ \A c \in Clients : /\ IsFiniteSet(Connections(h, c, f))
                               /\ Cardinality(Connections(h, c, f)) \in Nat
<1>1. IsFiniteSet(Numbers)
  BY BoundsAssumption, FS_Interval DEF Numbers
<1>2. IsFiniteSet(Clients \X Numbers)
  BY <1>1, EarlyAssumption, FS_Product
<1>3. Holders(h, f) \in SUBSET (Clients \X Numbers)
  BY DEF Holders
<1>4. \A c \in Clients : Connections(h, c, f) \in SUBSET Numbers
  BY DEF Connections
<1> QED
  BY <1>1, <1>2, <1>3, <1>4, FS_Subset, FS_CardinalityType

\* A message that was read makes one connection more hold its filter, or one less,
\* and leaves all others.
LEMMA ReadingCounts ==
  ASSUME NEW h \in Readings, NEW c \in Clients, NEW n \in Numbers, NEW m \in Requests,
         NEW g \in Readings, Changes(h[c][n], m, g[c][n]), ElsewhereSame(g, h, c, n)
  PROVE  \A f \in Filters :
           /\ Cardinality(Holders(g, f)) + One(Asks(m, "unsub", f)) =
                Cardinality(Holders(h, f)) + One(Asks(m, "sub", f))
           /\ Cardinality(Connections(g, c, f)) + One(Asks(m, "unsub", f)) =
                Cardinality(Connections(h, c, f)) + One(Asks(m, "sub", f))
           /\ \A b \in Clients \ {c} : Connections(g, b, f) = Connections(h, b, f)
<1> SUFFICES ASSUME NEW f \in Filters
             PROVE  /\ Cardinality(Holders(g, f)) + One(Asks(m, "unsub", f)) =
                         Cardinality(Holders(h, f)) + One(Asks(m, "sub", f))
                    /\ Cardinality(Connections(g, c, f)) + One(Asks(m, "unsub", f)) =
                         Cardinality(Connections(h, c, f)) + One(Asks(m, "sub", f))
                    /\ \A b \in Clients \ {c} : Connections(g, b, f) = Connections(h, b, f)
  OBVIOUS
<1>0. PICK d : d = g[c][n]
  OBVIOUS
<1>1. /\ \A b \in Clients, k \in Numbers : g[b][k] = IF b = c /\ k = n THEN d ELSE h[b][k]
      /\ h[c][n] \in SUBSET Filters /\ Changes(h[c][n], m, d)
  BY <1>0 DEF Readings, ElsewhereSame
<1>2. \A b \in Clients \ {c} : Connections(g, b, f) = Connections(h, b, f)
  BY <1>1 DEF Connections
<1>3. /\ IsFiniteSet(Holders(h, f)) /\ Cardinality(Holders(h, f)) \in Nat
      /\ IsFiniteSet(Connections(h, c, f)) /\ Cardinality(Connections(h, c, f)) \in Nat
  BY CountsAreNumbers
<1>4. CASE f \in h[c][n] <=> f \in d
  <2>1. ~Asks(m, "unsub", f) /\ ~Asks(m, "sub", f)
    BY <1>1, <1>4 DEF Changes, Asks
  <2>2. Holders(g, f) = Holders(h, f) /\ Connections(g, c, f) = Connections(h, c, f)
    BY <1>1, <1>4 DEF Holders, Connections
  <2>3. One(Asks(m, "sub", f)) = 0 /\ One(Asks(m, "unsub", f)) = 0
    BY <2>1 DEF One
  <2> QED
    BY <1>2, <1>3, <2>2, <2>3
<1>5. CASE f \notin h[c][n] /\ f \in d
  <2>1. m[1] = "sub" /\ m[2] = f
    <3>1. m[1] # "unsub" /\ m[1] = "sub"
      BY <1>1, <1>5 DEF Changes
    <3>2. d = h[c][n] \cup {m[2]}
      BY <1>1, <3>1 DEF Changes
    <3> QED
      BY <1>5, <3>1, <3>2
  <2>2. Asks(m, "sub", f) /\ ~Asks(m, "unsub", f)
    BY <2>1 DEF Asks
  <2>3. Holders(g, f) = Holders(h, f) \cup {<<c, n>>} /\ <<c, n>> \notin Holders(h, f)
    <3>1. <<c, n>> \notin Holders(h, f) /\ <<c, n>> \in Holders(g, f)
      BY <1>1, <1>5 DEF Holders
    <3>2. \A p \in Clients \X Numbers : p # <<c, n>> => (p \in Holders(g, f) <=> p \in Holders(h, f))
      BY <1>1 DEF Holders
    <3>3. Holders(g, f) \subseteq Clients \X Numbers /\ Holders(h, f) \subseteq Clients \X Numbers
      BY DEF Holders
    <3> QED
      BY <3>1, <3>2, <3>3
  <2>4. Connections(g, c, f) = Connections(h, c, f) \cup {n} /\ n \notin Connections(h, c, f)
    BY <1>1, <1>5 DEF Connections
  <2>5. /\ Cardinality(Holders(g, f)) = Cardinality(Holders(h, f)) + 1
        /\ Cardinality(Connections(g, c, f)) = Cardinality(Connections(h, c, f)) + 1
    BY <1>3, <2>3, <2>4, FS_AddElement
  <2>6. One(Asks(m, "sub", f)) = 1 /\ One(Asks(m, "unsub", f)) = 0
    BY <2>2 DEF One
  <2>7. Cardinality(Holders(g, f)) + One(Asks(m, "unsub", f)) =
          Cardinality(Holders(h, f)) + One(Asks(m, "sub", f))
    BY <1>3, <2>5, <2>6
  <2>8. Cardinality(Connections(g, c, f)) + One(Asks(m, "unsub", f)) =
          Cardinality(Connections(h, c, f)) + One(Asks(m, "sub", f))
    BY <1>3, <2>5, <2>6
  <2> QED
    BY <1>2, <2>7, <2>8, Zenon
<1>6. CASE f \in h[c][n] /\ f \notin d
  <2>1. m[1] = "unsub" /\ m[2] = f
    <3>1. m[1] # "sub" /\ m[1] = "unsub"
      BY <1>1, <1>6 DEF Changes
    <3>2. d = h[c][n] \ {m[2]}
      BY <1>1, <3>1 DEF Changes
    <3> QED
      BY <1>6, <3>1, <3>2
  <2>2. Asks(m, "unsub", f) /\ ~Asks(m, "sub", f)
    BY <2>1 DEF Asks
  <2>3. Holders(g, f) = Holders(h, f) \ {<<c, n>>} /\ <<c, n>> \in Holders(h, f)
    <3>1. <<c, n>> \in Holders(h, f) /\ <<c, n>> \notin Holders(g, f)
      BY <1>1, <1>6 DEF Holders
    <3>2. \A p \in Clients \X Numbers : p # <<c, n>> => (p \in Holders(g, f) <=> p \in Holders(h, f))
      BY <1>1 DEF Holders
    <3>3. Holders(g, f) \subseteq Clients \X Numbers /\ Holders(h, f) \subseteq Clients \X Numbers
      BY DEF Holders
    <3> QED
      BY <3>1, <3>2, <3>3
  <2>4. Connections(g, c, f) = Connections(h, c, f) \ {n} /\ n \in Connections(h, c, f)
    BY <1>1, <1>6 DEF Connections
  <2>5. /\ Cardinality(Holders(g, f)) = Cardinality(Holders(h, f)) - 1
        /\ Cardinality(Connections(g, c, f)) = Cardinality(Connections(h, c, f)) - 1
    <3>1. Cardinality(Holders(h, f) \ {<<c, n>>}) = Cardinality(Holders(h, f)) - 1
      BY <1>3, <2>3, FS_RemoveElement
    <3>2. Cardinality(Connections(h, c, f) \ {n}) = Cardinality(Connections(h, c, f)) - 1
      BY <1>3, <2>4, FS_RemoveElement
    <3> QED
      BY <2>3, <2>4, <3>1, <3>2
  <2>6. One(Asks(m, "sub", f)) = 0 /\ One(Asks(m, "unsub", f)) = 1
    BY <2>2 DEF One
  <2>7. Cardinality(Holders(g, f)) + One(Asks(m, "unsub", f)) =
          Cardinality(Holders(h, f)) + One(Asks(m, "sub", f))
    BY <1>3, <2>5, <2>6
  <2>8. Cardinality(Connections(g, c, f)) + One(Asks(m, "unsub", f)) =
          Cardinality(Connections(h, c, f)) + One(Asks(m, "sub", f))
    BY <1>3, <2>5, <2>6
  <2> QED
    BY <1>2, <2>7, <2>8, Zenon
<1> QED
  BY <1>4, <1>5, <1>6

\* What a message does to a count.
LEMMA AppliedCounts ==
  ASSUME NEW held \in [Filters -> Nat], NEW m \in Requests \cup {Nothing}
  PROVE  /\ Applied(held, m) \in [Filters -> Nat]
         /\ \A f \in Filters :
              LET new == Applied(held, m)[f]
              IN  /\ Asks(m, "sub", f) => new = held[f] + 1
                  /\ Asks(m, "unsub", f) => new = IF held[f] > 0 THEN held[f] - 1 ELSE 0
                  /\ ~Asks(m, "sub", f) /\ ~Asks(m, "unsub", f) => new = held[f]
<1>1. CASE m[1] = "sub"
  <2>1. m[2] \in Filters
    BY <1>1, MessageKinds
  <2>2. Applied(held, m) = [held EXCEPT ![m[2]] = held[m[2]] + 1]
    BY <1>1 DEF Applied
  <2> QED
    BY <1>1, <2>1, <2>2 DEF Asks
<1>2. CASE m[1] = "unsub"
  <2>1. m[2] \in Filters
    BY <1>2, MessageKinds
  <2>2. Applied(held, m) = [held EXCEPT ![m[2]] = IF held[m[2]] > 0 THEN held[m[2]] - 1 ELSE 0]
    BY <1>2 DEF Applied
  <2> QED
    BY <1>2, <2>1, <2>2 DEF Asks
<1>3. CASE m[1] \notin {"sub", "unsub"}
  <2>1. Applied(held, m) = held
    BY <1>3 DEF Applied
  <2> QED
    BY <1>3, <2>1 DEF Asks
<1> QED
  BY <1>1, <1>2, <1>3

-----------------------------------------------------------------------------
(* What steps keep that leave the account alone *)

\* The step leaves the subscription that the proxy has come so far with, if any.
Same(step) ==
  \A f \in Filters, kind \in {"sub", "unsub"} : Doing(step, kind, f)' <=> Doing(step, kind, f)

LEMMA SameFrame ==
  ASSUME NEW s \in {"forward", "write"},
         \/ UNCHANGED <<pc, hand>>
         \/ /\ pc # s \/ hand[1] \notin {"sub", "unsub"}
            /\ pc' # s \/ hand'[1] \notin {"sub", "unsub"}
  PROVE  Same(s)
  BY DEF Same, Doing, Asks

LEMMA AccountFrame ==
  ASSUME TypeInv, TypeInv', Accounted, UNCHANGED <<conn, wants, pipe, owed>>, Same("forward"),
         \A c \in Clients, f \in Filters : subscribers'[c].subs[f] <= subscribers[c].subs[f]
  PROVE  Accounted'
<1>1. PICK h \in Readings : PipesInv(h) /\ EntriesInv(h) /\ OwedInv(h)
  BY DEF Accounted
<1>2. PipesInv(h)'
  BY <1>1 DEF PipesInv
<1>3. EntriesInv(h)'
  <2> SUFFICES ASSUME NEW c \in Clients, NEW f \in Filters
               PROVE  subscribers'[c].subs[f] <= Cardinality(Connections(h, c, f))
    BY DEF EntriesInv
  <2>1. subscribers[c].subs[f] \in Nat /\ subscribers'[c].subs[f] \in Nat
    BY DEF TypeInv
  <2>2. Cardinality(Connections(h, c, f)) \in Nat
    BY CountsAreNumbers
  <2>3. subscribers[c].subs[f] <= Cardinality(Connections(h, c, f))
    BY <1>1 DEF EntriesInv
  <2> QED
    BY <2>1, <2>2, <2>3
<1>4. OwedInv(h)'
  BY <1>1 DEF OwedInv, Same, One
<1> QED
  BY <1>2, <1>3, <1>4 DEF Accounted

LEMMA TableFrame ==
  ASSUME TableInv, UNCHANGED <<table, owed, thinned, missed>>, Same("write"),
         link' \in {"alive", "resync"} => link \in {"alive", "resync"}
  PROVE  TableInv'
  BY DEF TableInv, Same, One

LEMMA UpstreamFrame ==
  ASSUME UpstreamInv, UNCHANGED <<table, owed, link, peer>>,
         pc' = "write" /\ hand'[1] # "pub" => pc = "write" /\ hand[1] # "pub",
         \A c \in Clients : subscribers'[c].conn = 0 =>
           subscribers'[c].subs = NoFilters \/ subscribers'[c] = subscribers[c]
  PROVE  UpstreamInv'
  BY DEF UpstreamInv

\* A removed or replaced entry has no filters.
LEMMA EmptiedEntries ==
  ASSUME TypeInv,
         \A c \in Clients : subscribers'[c] = subscribers[c] \/ subscribers'[c].subs = NoFilters
  PROVE  \A c \in Clients, f \in Filters : subscribers'[c].subs[f] <= subscribers[c].subs[f]
<1> SUFFICES ASSUME NEW c \in Clients, NEW f \in Filters
             PROVE  subscribers'[c].subs[f] <= subscribers[c].subs[f]
  OBVIOUS
<1>1. subscribers[c].subs[f] \in Nat
  BY DEF TypeInv
<1>2. NoFilters[f] = 0
  BY DEF NoFilters, AllOf
<1> QED
  BY <1>1, <1>2

-----------------------------------------------------------------------------
(* The subscribers *)

\* A message that is sent: what is to be read leads to what is wanted by then.
LEMMA SendAccounts ==
  ASSUME IInv, CoverInv, NEW c \in Clients, NEW m \in Requests,
         pipe' = [pipe EXCEPT ![c][conn[c]] = Append(pipe[c][conn[c]], m)],
         UNCHANGED <<conn, subscribers, pc, hand, owed, table, link, peer, thinned, missed>>,
         wants' \in [Clients -> SUBSET Filters], \A b \in Clients \ {c} : wants'[b] = wants[b],
         Changes(wants[c], m, wants'[c])
  PROVE  CoverInv'
<1>1. UpstreamInv' /\ TableInv'
  BY UpstreamFrame, TableFrame, SameFrame DEF CoverInv
<1>2. ASSUME NEW h \in Readings, PipesInv(h) PROVE PipesInv(h)'
  <2>1. /\ conn[c] \in Numbers /\ pipe \in [Clients -> [Numbers -> Seq(Requests)]]
        /\ pipe[c][conn[c]] \in Seq(Requests) /\ wants[c] \in SUBSET Filters
        /\ wants'[c] \in SUBSET Filters
    BY DEF IInv, TypeInv
  <2>2. /\ \A b \in Clients, n \in Numbers : b # c \/ n # conn[c] => pipe'[b][n] = pipe[b][n]
        /\ pipe'[c][conn[c]] = Append(pipe[c][conn[c]], m)
    BY <2>1
  <2>3. h[c][conn[c]] \in SUBSET Filters
    BY <2>1 DEF Readings
  <2>4. Leads(h[c][conn[c]], pipe[c][conn[c]], wants[c])
    BY <1>2, <2>1 DEF PipesInv
  <2>5. Leads(h[c][conn[c]], Append(pipe[c][conn[c]], m), wants'[c])
    BY <2>1, <2>3, <2>4, LeadsOn, Zenon
  <2> SUFFICES ASSUME NEW b \in Clients, NEW n \in Numbers
               PROVE  /\ n = conn[b] => Leads(h[b][n], pipe'[b][n], wants'[b])
                      /\ n < conn[b] => \E x \in SUBSET Filters : Leads(h[b][n], pipe'[b][n], x)
                      /\ n > conn[b] => h[b][n] = {} /\ pipe'[b][n] = <<>>
    BY DEF PipesInv
  <2>6. /\ n = conn[b] => Leads(h[b][n], pipe[b][n], wants[b])
        /\ n < conn[b] => \E x \in SUBSET Filters : Leads(h[b][n], pipe[b][n], x)
        /\ n > conn[b] => h[b][n] = {} /\ pipe[b][n] = <<>>
    BY <1>2 DEF PipesInv
  <2>7. CASE b = c /\ n = conn[c]
    <3>1. Leads(h[b][n], pipe'[b][n], wants'[b])
      BY <2>2, <2>5, <2>7
    <3>2. ~(n < conn[b]) /\ ~(n > conn[b])
      BY <2>1, <2>7 DEF Numbers
    <3> QED
      BY <3>1, <3>2
  <2>8. CASE b # c
    BY <2>2, <2>6, <2>8
  <2>9. CASE b = c /\ n # conn[c]
    BY <2>2, <2>6, <2>9
  <2> QED
    BY <2>7, <2>8, <2>9
<1>3. ASSUME NEW h \in Readings, EntriesInv(h), OwedInv(h) PROVE EntriesInv(h)' /\ OwedInv(h)'
  BY <1>3 DEF EntriesInv, OwedInv, Doing, Asks
<1>4. Accounted => Accounted'
  BY <1>2, <1>3 DEF Accounted
<1> QED
  BY <1>1, <1>4 DEF CoverInv

LEMMA ClientSendsCovers ==
  ASSUME IInv, CoverInv, NEW c \in Clients,
         SendData(c) \/ Leave(c) \/ \E f \in Filters : Subscribe(c, f) \/ Unsubscribe(c, f)
  PROVE  CoverInv'
<1>1. wants \in [Clients -> SUBSET Filters] /\ wants[c] \in SUBSET Filters
  BY DEF IInv, TypeInv
<1>2. CASE SendData(c)
  <2>1. /\ pipe' = [pipe EXCEPT ![c][conn[c]] = Append(pipe[c][conn[c]], <<"data">>)]
        /\ UNCHANGED <<conn, wants, subscribers, pc, hand, owed, table, link, peer, thinned, missed>>
    BY <1>2 DEF SendData, Send, xpubVars, proxyVars, upVars
  <2>2. Changes(wants[c], <<"data">>, wants[c]) /\ <<"data">> \in Requests
    BY MessagesBuilt DEF Changes
  <2> QED
    BY <1>1, <2>1, <2>2, SendAccounts
<1>3. CASE Leave(c)
  <2>1. /\ pipe' = [pipe EXCEPT ![c][conn[c]] = Append(pipe[c][conn[c]], Lost)]
        /\ UNCHANGED <<conn, wants, subscribers, pc, hand, owed, table, link, peer, thinned, missed>>
    BY <1>3 DEF Leave, xpubVars, proxyVars
  <2>2. Changes(wants[c], Lost, wants[c]) /\ Lost \in Requests
    BY MessagesBuilt, MessageKinds DEF Changes
  <2> QED
    BY <1>1, <2>1, <2>2, SendAccounts
<1>4. ASSUME NEW f \in Filters, Subscribe(c, f) PROVE CoverInv'
  <2>1. /\ pipe' = [pipe EXCEPT ![c][conn[c]] = Append(pipe[c][conn[c]], <<"sub", f>>)]
        /\ UNCHANGED <<conn, subscribers, pc, hand, owed, table, link, peer, thinned, missed>>
        /\ wants' = [wants EXCEPT ![c] = wants[c] \cup {f}] /\ f \notin wants[c]
    BY <1>4 DEF Subscribe, Send, xpubVars, proxyVars, upVars
  <2>2. /\ wants' \in [Clients -> SUBSET Filters] /\ wants'[c] = wants[c] \cup {f}
        /\ \A b \in Clients \ {c} : wants'[b] = wants[b]
    BY <1>1, <2>1
  <2>3. Changes(wants[c], <<"sub", f>>, wants'[c]) /\ <<"sub", f>> \in Requests
    BY <2>1, <2>2, MessagesBuilt DEF Changes
  <2> QED
    BY <2>1, <2>2, <2>3, SendAccounts
<1>5. ASSUME NEW f \in Filters, Unsubscribe(c, f) PROVE CoverInv'
  <2>1. /\ pipe' = [pipe EXCEPT ![c][conn[c]] = Append(pipe[c][conn[c]], <<"unsub", f>>)]
        /\ UNCHANGED <<conn, subscribers, pc, hand, owed, table, link, peer, thinned, missed>>
        /\ wants' = [wants EXCEPT ![c] = wants[c] \ {f}] /\ f \in wants[c]
    BY <1>5 DEF Unsubscribe, Send, xpubVars, proxyVars, upVars
  <2>2. /\ wants' \in [Clients -> SUBSET Filters] /\ wants'[c] = wants[c] \ {f}
        /\ \A b \in Clients \ {c} : wants'[b] = wants[b]
    BY <1>1, <2>1
  <2>3. Changes(wants[c], <<"unsub", f>>, wants'[c]) /\ <<"unsub", f>> \in Requests
    BY <2>1, <2>2, MessagesBuilt DEF Changes
  <2> QED
    BY <2>1, <2>2, <2>3, SendAccounts
<1> QED
  BY <1>2, <1>3, <1>4, <1>5

\* A new connection starts from nothing, and what is sent first on it is what its
\* client wants.
LEMMA ReturnCovers ==
  ASSUME IInv, CoverInv, NEW c \in Clients, Return(c)
  PROVE  CoverInv'
<1>0. PICK n, s : n = conn[c] + 1 /\ s = SetToSeq({<<"sub", f>> : f \in wants[c]})
  OBVIOUS
<1>1. /\ UNCHANGED <<wants, subscribers, pc, hand, owed, table, link, peer, thinned, missed>>
      /\ n \in Numbers /\ conn' = [conn EXCEPT ![c] = n]
      /\ pipe' = [pipe EXCEPT ![c][n] = s]
  BY <1>0, BoundsAssumption DEF Return, IInv, TypeInv, Numbers, proxyVars, upVars, history
<1>2. UpstreamInv' /\ TableInv'
  BY <1>1, UpstreamFrame, TableFrame, SameFrame DEF CoverInv
<1>3. /\ pipe \in [Clients -> [Numbers -> Seq(Requests)]] /\ wants[c] \in SUBSET Filters
      /\ conn \in [Clients -> Numbers] /\ conn[c] \in Numbers
  BY DEF IInv, TypeInv
<1>4. /\ \A b \in Clients, i \in Numbers : b # c \/ i # n => pipe'[b][i] = pipe[b][i]
      /\ pipe'[c][n] = s
      /\ conn'[c] = n /\ \A b \in Clients \ {c} : conn'[b] = conn[b]
  BY <1>1, <1>3
<1>5. Leads({}, s, wants[c])
  BY <1>0, <1>3, LeadsAnew, Zenon
<1>6. ASSUME NEW h \in Readings, PipesInv(h) PROVE PipesInv(h)'
  <2> SUFFICES ASSUME NEW b \in Clients, NEW i \in Numbers
               PROVE  /\ i = conn'[b] => Leads(h[b][i], pipe'[b][i], wants[b])
                      /\ i < conn'[b] => \E x \in SUBSET Filters : Leads(h[b][i], pipe'[b][i], x)
                      /\ i > conn'[b] => h[b][i] = {} /\ pipe'[b][i] = <<>>
    BY <1>1 DEF PipesInv
  <2>1. /\ i = conn[b] => Leads(h[b][i], pipe[b][i], wants[b])
        /\ i < conn[b] => \E x \in SUBSET Filters : Leads(h[b][i], pipe[b][i], x)
        /\ i > conn[b] => h[b][i] = {} /\ pipe[b][i] = <<>>
    BY <1>6 DEF PipesInv
  <2>2. CASE b # c
    BY <1>4, <2>1, <2>2
  <2>3. CASE b = c /\ i = n
    <3>1. i > conn[c]
      BY <1>0, <1>3, <2>3 DEF Numbers
    <3>2. h[b][i] = {}
      BY <2>1, <2>3, <3>1
    <3>3. Leads(h[b][i], pipe'[b][i], wants[b])
      BY <1>4, <1>5, <2>3, <3>2
    <3>4. ~(i < conn'[b]) /\ ~(i > conn'[b])
      BY <1>1, <1>4, <2>3 DEF Numbers
    <3> QED
      BY <3>3, <3>4
  <2>4. CASE b = c /\ i # n
    <3>1. pipe'[b][i] = pipe[b][i] /\ conn'[b] = n
      BY <1>4, <2>4
    <3>2. CASE i < n
      <4>1. i = conn[c] \/ i < conn[c]
        BY <1>0, <1>3, <3>2 DEF Numbers
      <4>2. \E x \in SUBSET Filters : Leads(h[b][i], pipe[b][i], x)
        BY <1>3, <2>1, <2>4, <4>1
      <4>3. ~(i > n)
        BY <1>1, <3>2 DEF Numbers
      <4> QED
        BY <2>4, <3>1, <4>2, <4>3
    <3>3. CASE i > n
      <4>1. i > conn[c] /\ ~(i < n)
        BY <1>0, <1>1, <1>3, <3>3 DEF Numbers
      <4> QED
        BY <2>1, <2>4, <3>1, <4>1
    <3> QED
      BY <1>1, <2>4, <3>2, <3>3 DEF Numbers
  <2> QED
    BY <2>2, <2>3, <2>4
<1>7. ASSUME NEW h \in Readings, EntriesInv(h), OwedInv(h) PROVE EntriesInv(h)' /\ OwedInv(h)'
  BY <1>1, <1>7 DEF EntriesInv, OwedInv, Doing, Asks
<1>8. Accounted => Accounted'
  BY <1>6, <1>7 DEF Accounted
<1> QED
  BY <1>1, <1>2, <1>8 DEF CoverInv

-----------------------------------------------------------------------------
(* The proxy reads from a subscriber *)

\* What is read of a connection is taken from what was to be read.
LEMMA PipesRead ==
  ASSUME IInv, NEW h \in Readings, PipesInv(h), NEW c \in Clients, NEW n \in Numbers,
         pipe[c][n] # <<>>, pipe' = [pipe EXCEPT ![c][n] = Tail(pipe[c][n])],
         UNCHANGED <<conn, wants>>
  PROVE  \E g \in Readings :
           /\ Changes(h[c][n], Head(pipe[c][n]), g[c][n]) /\ ElsewhereSame(g, h, c, n)
           /\ PipesInv(g)'
<1>1. /\ pipe \in [Clients -> [Numbers -> Seq(Requests)]] /\ pipe[c][n] \in Seq(Requests)
      /\ wants \in [Clients -> SUBSET Filters] /\ wants[c] \in SUBSET Filters
      /\ conn[c] \in Numbers
  BY DEF IInv, TypeInv
<1>2. h[c][n] \in SUBSET Filters
  BY DEF Readings
<1>3. PICK b \in SUBSET Filters :
        Leads(h[c][n], pipe[c][n], b) /\ (n = conn[c] => b = wants[c])
  <2>1. CASE n = conn[c]
    BY <1>1, <2>1 DEF PipesInv
  <2>2. CASE n < conn[c]
    <3>1. n # conn[c]
      BY <1>1, <2>2 DEF Numbers
    <3> QED
      BY <2>2, <3>1 DEF PipesInv
  <2>3. ~(n > conn[c])
    BY DEF PipesInv
  <2> QED
    BY <1>1, <2>1, <2>2, <2>3 DEF Numbers
<1>4. PICK d \in SUBSET Filters :
        Changes(h[c][n], Head(pipe[c][n]), d) /\ Leads(d, Tail(pipe[c][n]), b)
  BY <1>1, <1>2, <1>3, LeadsFrom, Zenon
<1>5. PICK g : g = [h EXCEPT ![c][n] = d]
  OBVIOUS
<1>6. /\ g \in Readings /\ g[c][n] = d
      /\ \A x \in Clients, i \in Numbers : x # c \/ i # n => g[x][i] = h[x][i]
  BY <1>5 DEF Readings
<1>7. /\ pipe'[c][n] = Tail(pipe[c][n])
      /\ \A x \in Clients, i \in Numbers : x # c \/ i # n => pipe'[x][i] = pipe[x][i]
  BY <1>1
<1>8. PipesInv(g)'
  <2> SUFFICES ASSUME NEW x \in Clients, NEW i \in Numbers
               PROVE  /\ i = conn[x] => Leads(g[x][i], pipe'[x][i], wants[x])
                      /\ i < conn[x] => \E y \in SUBSET Filters : Leads(g[x][i], pipe'[x][i], y)
                      /\ i > conn[x] => g[x][i] = {} /\ pipe'[x][i] = <<>>
    BY DEF PipesInv
  <2>1. CASE x # c \/ i # n
    <3>1. g[x][i] = h[x][i] /\ pipe'[x][i] = pipe[x][i]
      BY <1>6, <1>7, <2>1
    <3>2. /\ i = conn[x] => Leads(h[x][i], pipe[x][i], wants[x])
          /\ i < conn[x] => \E y \in SUBSET Filters : Leads(h[x][i], pipe[x][i], y)
          /\ i > conn[x] => h[x][i] = {} /\ pipe[x][i] = <<>>
      BY DEF PipesInv
    <3> QED
      BY <3>1, <3>2
  <2>2. CASE x = c /\ i = n
    <3>1. Leads(g[x][i], pipe'[x][i], b)
      BY <1>4, <1>6, <1>7, <2>2
    <3>2. ~(i > conn[x])
      BY <2>2 DEF PipesInv
    <3> QED
      BY <1>3, <2>2, <3>1, <3>2
  <2> QED
    BY <2>1, <2>2
<1>9. Changes(h[c][n], Head(pipe[c][n]), g[c][n]) /\ ElsewhereSame(g, h, c, n)
  BY <1>4, <1>6 DEF ElsewhereSame
<1> QED
  BY <1>6, <1>8, <1>9

\* The end of a stream asks for nothing.
LEMMA StreamEndCovers ==
  ASSUME IInv, IInv', CoverInv, NEW c \in Clients, RecvBackend(c),
         Head(pipe[c][streams[c]]) = Lost
  PROVE  CoverInv'
<1>0. PICK n : n = streams[c]
  OBVIOUS
<1>1. /\ pc = "select" /\ n # 0 /\ pipe[c][n] # <<>> /\ Head(pipe[c][n]) = Lost
      /\ UNCHANGED <<wants, conn, owed, table, link, peer, thinned, missed>>
      /\ pipe' = [pipe EXCEPT ![c][n] = Tail(pipe[c][n])]
  BY <1>0 DEF RecvBackend, upVars, history
<1>2. UNCHANGED <<subscribers, hand>> /\ pc' \in {"remove", "fail"}
  BY DEF RecvBackend
<1>3. hand[1] = "nothing"
  BY <1>1, MessageKinds DEF IInv, OrderInv, HandInv
<1>4. n \in Numbers
  BY <1>0, <1>1, BoundsAssumption DEF IInv, TypeInv, Numbers
<1>5. UpstreamInv' /\ TableInv'
  <2>1. Same("write") /\ pc' # "write"
    BY <1>1, <1>2, SameFrame
  <2> QED
    BY <1>1, <1>2, <2>1, UpstreamFrame, TableFrame DEF CoverInv
<1>6. Accounted'
  <2>1. pc # "ended"
    BY <1>1
  <2>2. PICK h \in Readings : PipesInv(h) /\ EntriesInv(h) /\ OwedInv(h)
    BY <2>1 DEF CoverInv, Accounted
  <2>3. PICK g \in Readings :
          /\ Changes(h[c][n], Head(pipe[c][n]), g[c][n]) /\ ElsewhereSame(g, h, c, n)
          /\ PipesInv(g)'
    BY <1>1, <1>4, <2>2, PipesRead
  <2>4. g[c][n] = h[c][n]
    BY <1>1, <2>3, MessageKinds DEF Changes
  <2>5. g = h
    <3>1. \A b \in Clients, i \in Numbers : g[b][i] = h[b][i]
      BY <2>3, <2>4 DEF ElsewhereSame
    <3> QED
      BY <3>1 DEF Readings
  <2>6. EntriesInv(h)'
    BY <1>2, <2>2 DEF EntriesInv
  <2>7. OwedInv(h)'
    BY <1>1, <1>2, <2>2 DEF OwedInv, Doing
  <2> QED
    BY <2>3, <2>5, <2>6, <2>7 DEF Accounted
<1> QED
  BY <1>5, <1>6 DEF CoverInv

\* A message that is read is applied to the entry, if there is one, and is then in
\* hand, to be applied to what the publisher is owed.
LEMMA ReadCovers ==
  ASSUME IInv, IInv', CoverInv, NEW c \in Clients, RecvBackend(c),
         Head(pipe[c][streams[c]]) # Lost
  PROVE  CoverInv'
<1>0. PICK n, m : n = streams[c] /\ m = Head(pipe[c][streams[c]])
  OBVIOUS
<1>1. /\ pc = "select" /\ n # 0 /\ pipe[c][n] # <<>> /\ m = Head(pipe[c][n])
      /\ UNCHANGED <<wants, conn, owed, table, link, peer, thinned, missed>>
      /\ pipe' = [pipe EXCEPT ![c][n] = Tail(pipe[c][n])]
      /\ subscribers' = message_received(c, m)
      /\ pc' = "forward" /\ hand' = m /\ m # Lost
  BY <1>0 DEF RecvBackend, Receive, upVars, history
<1>2. n \in Numbers
  BY <1>0, <1>1, BoundsAssumption DEF IInv, TypeInv, Numbers
<1>3. m \in Requests
  <2>1. pipe[c][n] \in Seq(Requests)
    BY <1>2 DEF IInv, TypeInv
  <2> QED
    BY <1>1, <2>1, TailFacts
<1>4. PICK held : held = subscribers[c].subs
  OBVIOUS
<1>5. held \in [Filters -> Nat] /\ subscribers \in [Clients -> [conn : 0..MaxConns, subs : [Filters -> Nat]]]
  BY <1>4 DEF IInv, TypeInv
<1>6. PICK new : new = Applied(held, m)
  OBVIOUS
<1>7. /\ new \in [Filters -> Nat]
      /\ \A f \in Filters :
           /\ Asks(m, "sub", f) => new[f] = held[f] + 1
           /\ Asks(m, "unsub", f) => new[f] = IF held[f] > 0 THEN held[f] - 1 ELSE 0
           /\ ~Asks(m, "sub", f) /\ ~Asks(m, "unsub", f) => new[f] = held[f]
  BY <1>3, <1>5, <1>6, AppliedCounts
<1>8. /\ \A b \in Clients \ {c} : subscribers'[b] = subscribers[b]
      /\ \/ subscribers'[c] = subscribers[c] /\ held = NoFilters
         \/ subscribers'[c].subs = new
      /\ \A b \in Clients : subscribers'[b].conn = 0 => subscribers'[b] = subscribers[b]
  <2>1. CASE subscribers[c].conn = 0
    <3>1. subscribers' = subscribers
      BY <1>1, <2>1 DEF message_received
    <3>2. held = NoFilters
      BY <1>4, <2>1 DEF CoverInv, UpstreamInv
    <3> QED
      BY <3>1, <3>2
  <2>2. CASE subscribers[c].conn # 0
    <3>1. subscribers' = [subscribers EXCEPT ![c].subs = new]
      BY <1>1, <1>4, <1>6, <2>2 DEF message_received
    <3> QED
      BY <1>5, <2>2, <3>1
  <2> QED
    BY <2>1, <2>2
<1>9. UpstreamInv' /\ TableInv'
  <2>1. Same("write") /\ pc' # "write"
    BY <1>1, SameFrame
  <2> QED
    BY <1>1, <1>8, <2>1, UpstreamFrame, TableFrame DEF CoverInv
<1>10. PICK h \in Readings : PipesInv(h) /\ EntriesInv(h) /\ OwedInv(h)
  BY <1>1 DEF CoverInv, Accounted
<1>11. PICK g \in Readings :
         Changes(h[c][n], m, g[c][n]) /\ ElsewhereSame(g, h, c, n) /\ PipesInv(g)'
  BY <1>1, <1>2, <1>10, PipesRead
<1>12. \A f \in Filters :
         /\ Cardinality(Holders(g, f)) + One(Asks(m, "unsub", f)) =
              Cardinality(Holders(h, f)) + One(Asks(m, "sub", f))
         /\ Cardinality(Connections(g, c, f)) + One(Asks(m, "unsub", f)) =
              Cardinality(Connections(h, c, f)) + One(Asks(m, "sub", f))
         /\ \A b \in Clients \ {c} : Connections(g, b, f) = Connections(h, b, f)
  BY <1>2, <1>3, <1>11, ReadingCounts
<1>13. EntriesInv(g)'
  <2> SUFFICES ASSUME NEW b \in Clients, NEW f \in Filters
               PROVE  subscribers'[b].subs[f] <= Cardinality(Connections(g, b, f))
    BY DEF EntriesInv
  <2>1. subscribers[b].subs[f] <= Cardinality(Connections(h, b, f))
    BY <1>10 DEF EntriesInv
  <2>2. CASE b # c
    BY <1>8, <1>12, <2>1, <2>2
  <2>3. CASE b = c
    <3>1. PICK x, y : x = Cardinality(Connections(h, c, f)) /\ y = Cardinality(Connections(g, c, f))
      OBVIOUS
    <3>2. x \in Nat /\ y \in Nat /\ held[f] \in Nat /\ new[f] \in Nat /\ held[f] <= x
      BY <1>4, <1>5, <1>7, <2>1, <2>3, <3>1, CountsAreNumbers
    <3>3. y + One(Asks(m, "unsub", f)) = x + One(Asks(m, "sub", f))
      BY <1>12, <3>1
    <3>4. ~(Asks(m, "unsub", f) /\ Asks(m, "sub", f))
      BY DEF Asks
    <3>5. new[f] <= y
      <4>1. CASE Asks(m, "sub", f)
        <5>1. y = x + 1 /\ new[f] = held[f] + 1
          BY <1>7, <3>2, <3>3, <3>4, <4>1 DEF One
        <5> QED
          BY <3>2, <5>1
      <4>2. CASE Asks(m, "unsub", f)
        <5>1. y + 1 = x /\ new[f] = IF held[f] > 0 THEN held[f] - 1 ELSE 0
          BY <1>7, <3>2, <3>3, <3>4, <4>2 DEF One
        <5> QED
          BY <3>2, <5>1
      <4>3. CASE ~Asks(m, "sub", f) /\ ~Asks(m, "unsub", f)
        <5>1. y = x /\ new[f] = held[f]
          BY <1>7, <3>2, <3>3, <4>3 DEF One
        <5> QED
          BY <3>2, <5>1
      <4> QED
        BY <4>1, <4>2, <4>3
    <3>6. subscribers'[c].subs[f] = new[f] \/ subscribers'[c].subs[f] = 0
      <4>1. NoFilters[f] = 0
        BY DEF NoFilters, AllOf
      <4> QED
        BY <1>4, <1>8, <4>1
    <3> QED
      BY <2>3, <3>1, <3>2, <3>5, <3>6
  <2> QED
    BY <2>2, <2>3
<1>14. OwedInv(g)'
  <2> SUFFICES ASSUME NEW f \in Filters
               PROVE  owed[f] + One(Asks(m, "sub", f)) >=
                        Cardinality(Holders(g, f)) + One(Asks(m, "unsub", f))
    <3>1. \A f \in Filters, k \in {"sub", "unsub"} : Doing("forward", k, f)' <=> Asks(m, k, f)
      BY <1>1 DEF Doing
    <3> QED
      BY <1>1, <3>1 DEF OwedInv, One
  <2>1. ~Doing("forward", "sub", f) /\ ~Doing("forward", "unsub", f)
    BY <1>1 DEF Doing
  <2>2. owed[f] + 0 >= Cardinality(Holders(h, f)) + 0
    BY <1>10, <2>1 DEF OwedInv, One
  <2>3. /\ Cardinality(Holders(h, f)) \in Nat /\ Cardinality(Holders(g, f)) \in Nat
        /\ owed[f] \in Nat
    BY CountsAreNumbers DEF CoverInv, UpstreamInv
  <2>4. One(Asks(m, "sub", f)) \in Nat /\ One(Asks(m, "unsub", f)) \in Nat
    BY DEF One
  <2>5. Cardinality(Holders(g, f)) + One(Asks(m, "unsub", f)) =
          Cardinality(Holders(h, f)) + One(Asks(m, "sub", f))
    BY <1>12
  <2> QED
    BY <2>2, <2>3, <2>4, <2>5
<1>15. Accounted'
  BY <1>11, <1>13, <1>14 DEF Accounted
<1> QED
  BY <1>9, <1>15 DEF CoverInv

-----------------------------------------------------------------------------
(* The proxy sends on to the publisher *)

\* SendFrontend: the message is applied to what is owed, and is to be written if the
\* publisher is connected; a subscription that goes to nobody is missed while the
\* connection is being set up.
LEMMA SendFrontendCovers ==
  ASSUME IInv, CoverInv, SendFrontend
  PROVE  CoverInv'
<1>1. /\ pc = "forward" /\ hand[1] # "pub"
      /\ owed' = Applied(owed, hand)
      /\ missed' = IF link = "resync" /\ hand[1] = "sub" THEN missed \cup {hand[2]} ELSE missed
      /\ UNCHANGED <<conn, wants, pipe, subscribers, peer, link, table, thinned>>
      /\ IF peer THEN pc' = "write" /\ hand' = hand ELSE pc' = "select" /\ hand' = Nothing
  BY DEF SendFrontend, Resyncing, Back, clientVars, xpubVars
<1>2. hand \in Requests \cup {Nothing}
  BY <1>1, MessageKinds DEF IInv, OrderInv, HandInv
<1>3. /\ owed \in [Filters -> Nat] /\ table \in [Filters -> Nat]
      /\ link \in {"alive", "lost", "none", "resync"}
      /\ peer \in BOOLEAN /\ (peer <=> link \in {"alive", "lost"})
  BY DEF CoverInv, UpstreamInv
<1>4. /\ owed' \in [Filters -> Nat]
      /\ \A f \in Filters :
           /\ Asks(hand, "sub", f) => owed'[f] = owed[f] + 1
           /\ Asks(hand, "unsub", f) => owed'[f] = IF owed[f] > 0 THEN owed[f] - 1 ELSE 0
           /\ ~Asks(hand, "sub", f) /\ ~Asks(hand, "unsub", f) => owed'[f] = owed[f]
  BY <1>1, <1>2, <1>3, AppliedCounts
<1>5. UpstreamInv'
  BY <1>1, <1>4 DEF CoverInv, UpstreamInv
<1>6. PICK h \in Readings : PipesInv(h) /\ EntriesInv(h) /\ OwedInv(h)
  BY <1>1 DEF CoverInv, Accounted
<1>7. \A f \in Filters : ~(Asks(hand, "sub", f) /\ Asks(hand, "unsub", f))
  BY DEF Asks
<1>8. \A f \in Filters :
        owed[f] + One(Asks(hand, "sub", f)) >= Cardinality(Holders(h, f)) + One(Asks(hand, "unsub", f))
  <2>1. ASSUME NEW f \in Filters
        PROVE  /\ One(Doing("forward", "sub", f)) = One(Asks(hand, "sub", f))
               /\ One(Doing("forward", "unsub", f)) = One(Asks(hand, "unsub", f))
    BY <1>1 DEF Doing, One
  <2> QED
    BY <1>6, <2>1 DEF OwedInv
<1>9. ASSUME NEW f \in Filters
      PROVE  /\ owed'[f] >= Cardinality(Holders(h, f))
             /\ owed'[f] + One(Asks(hand, "unsub", f)) = owed[f] + One(Asks(hand, "sub", f))
  <2>1. owed[f] \in Nat /\ Cardinality(Holders(h, f)) \in Nat
    BY <1>3, CountsAreNumbers
  <2>2. CASE Asks(hand, "sub", f)
    <3>1. owed'[f] = owed[f] + 1 /\ owed[f] + 1 >= Cardinality(Holders(h, f)) + 0
      BY <1>4, <1>7, <1>8, <2>2 DEF One
    <3>2. One(Asks(hand, "unsub", f)) = 0 /\ One(Asks(hand, "sub", f)) = 1
      BY <1>7, <2>2 DEF One
    <3> QED
      BY <2>1, <3>1, <3>2
  <2>3. CASE Asks(hand, "unsub", f)
    <3>1. /\ owed'[f] = IF owed[f] > 0 THEN owed[f] - 1 ELSE 0
          /\ owed[f] + 0 >= Cardinality(Holders(h, f)) + 1
      BY <1>4, <1>7, <1>8, <2>3 DEF One
    <3>2. One(Asks(hand, "unsub", f)) = 1 /\ One(Asks(hand, "sub", f)) = 0
      BY <1>7, <2>3 DEF One
    <3> QED
      BY <2>1, <3>1, <3>2
  <2>4. CASE ~Asks(hand, "sub", f) /\ ~Asks(hand, "unsub", f)
    <3>1. owed'[f] = owed[f] /\ owed[f] + 0 >= Cardinality(Holders(h, f)) + 0
      BY <1>4, <1>8, <2>4 DEF One
    <3>2. One(Asks(hand, "unsub", f)) = 0 /\ One(Asks(hand, "sub", f)) = 0
      BY <2>4 DEF One
    <3> QED
      BY <2>1, <3>1, <3>2
  <2> QED
    BY <2>2, <2>3, <2>4
<1>10. Accounted'
  <2>1. PipesInv(h)' /\ EntriesInv(h)'
    BY <1>1, <1>6 DEF PipesInv, EntriesInv
  <2>2. OwedInv(h)'
    <3> SUFFICES ASSUME NEW f \in Filters
                 PROVE  owed'[f] + One(Doing("forward", "sub", f)') >=
                          Cardinality(Holders(h, f)) + One(Doing("forward", "unsub", f)')
      BY DEF OwedInv, One
    <3>1. One(Doing("forward", "sub", f)') = 0 /\ One(Doing("forward", "unsub", f)') = 0
      BY <1>1 DEF Doing, One
    <3>2. owed'[f] \in Nat /\ Cardinality(Holders(h, f)) \in Nat
      BY <1>4, CountsAreNumbers
    <3> QED
      BY <1>9, <3>1, <3>2
  <2> QED
    BY <2>1, <2>2 DEF Accounted
<1>11. TableInv'
  <2> SUFFICES ASSUME link \in {"alive", "resync"}, NEW f \in Filters, f \notin thinned, f \notin missed'
               PROVE  table[f] + One(Doing("write", "sub", f)') >= owed'[f] + One(Doing("write", "unsub", f)')
    BY <1>1 DEF TableInv, One
  <2>1. f \notin missed
    BY <1>1
  <2>2. ~Doing("write", "sub", f) /\ ~Doing("write", "unsub", f)
    BY <1>1 DEF Doing
  <2>3. table[f] + 0 >= owed[f] + 0
    BY <2>1, <2>2 DEF CoverInv, TableInv, One
  <2>4. table[f] \in Nat /\ owed[f] \in Nat /\ owed'[f] \in Nat
    BY <1>3, <1>4
  <2>5. /\ One(Asks(hand, "sub", f)) \in Nat /\ One(Asks(hand, "unsub", f)) \in Nat
        /\ owed'[f] + One(Asks(hand, "unsub", f)) = owed[f] + One(Asks(hand, "sub", f))
    BY <1>9 DEF One
  <2>6. CASE link = "alive"
    <3>1. pc' = "write" /\ hand' = hand
      BY <1>1, <1>3, <2>6
    <3>2. /\ One(Doing("write", "sub", f)') = One(Asks(hand, "sub", f))
          /\ One(Doing("write", "unsub", f)') = One(Asks(hand, "unsub", f))
      BY <3>1 DEF One, Doing, Asks
    <3> QED
      BY <2>3, <2>4, <2>5, <3>2
  <2>7. CASE link = "resync"
    <3>1. pc' = "select"
      BY <1>1, <1>3, <2>7
    <3>2. One(Doing("write", "sub", f)') = 0 /\ One(Doing("write", "unsub", f)') = 0
      BY <3>1 DEF One, Doing
    <3>3. ~Asks(hand, "sub", f)
      BY <1>1, <2>7 DEF Asks
    <3>4. owed'[f] <= owed[f]
      BY <1>4, <2>4, <3>3
    <3> QED
      BY <2>3, <2>4, <3>2, <3>4
  <2> QED
    BY <2>6, <2>7
<1> QED
  BY <1>5, <1>10, <1>11 DEF CoverInv

\* The write brings the publisher what it is owed.
LEMMA WriteFrontendCovers ==
  ASSUME IInv, IInv', CoverInv, WriteFrontend
  PROVE  CoverInv'
<1>1. /\ pc = "write" /\ todo = {Publisher} /\ pc' = "select" /\ hand' = Nothing
      /\ table' = IF link = "alive" THEN Applied(table, hand) ELSE table
      /\ UNCHANGED <<conn, wants, pipe, subscribers, peer, link, owed, thinned, missed>>
  BY DEF WriteFrontend, Back, clientVars, xpubVars, history
<1>2. hand[1] # "pub"
  BY <1>1, PublisherIsNoPair DEF IInv, OrderInv, HandInv
<1>3. hand \in Requests \cup {Nothing}
  BY <1>2, MessageKinds DEF IInv, OrderInv, HandInv
<1>4. /\ owed \in [Filters -> Nat] /\ table \in [Filters -> Nat]
      /\ link \in {"alive", "lost"}
  BY <1>1, <1>2 DEF CoverInv, UpstreamInv
<1>5. Applied(table, hand) \in [Filters -> Nat]
  BY <1>3, <1>4, AppliedCounts
<1>6. UpstreamInv'
  BY <1>1, <1>4, <1>5 DEF CoverInv, UpstreamInv
<1>7. Accounted'
  <2>1. Same("forward")
    BY <1>1, SameFrame
  <2>2. \A c \in Clients, f \in Filters : subscribers'[c].subs[f] <= subscribers[c].subs[f]
    BY <1>1 DEF IInv, TypeInv
  <2> QED
    BY <1>1, <2>1, <2>2, AccountFrame DEF IInv, CoverInv
<1>8. TableInv'
  <2> SUFFICES ASSUME link = "alive", NEW f \in Filters, f \notin thinned, f \notin missed
               PROVE  table'[f] + One(Doing("write", "sub", f)') >= owed[f] + One(Doing("write", "unsub", f)')
    BY <1>1, <1>4 DEF TableInv, One
  <2>1. One(Doing("write", "sub", f)') = 0 /\ One(Doing("write", "unsub", f)') = 0
    BY <1>1 DEF One, Doing
  <2>2. table[f] + One(Asks(hand, "sub", f)) >= owed[f] + One(Asks(hand, "unsub", f))
    <3>1. /\ One(Doing("write", "sub", f)) = One(Asks(hand, "sub", f))
          /\ One(Doing("write", "unsub", f)) = One(Asks(hand, "unsub", f))
      BY <1>1 DEF Doing, One
    <3> QED
      BY <3>1 DEF CoverInv, TableInv
  <2>3. /\ Asks(hand, "sub", f) => table'[f] = table[f] + 1
        /\ Asks(hand, "unsub", f) => table'[f] = IF table[f] > 0 THEN table[f] - 1 ELSE 0
        /\ ~Asks(hand, "sub", f) /\ ~Asks(hand, "unsub", f) => table'[f] = table[f]
    BY <1>1, <1>3, <1>4, AppliedCounts
  <2>4. ~(Asks(hand, "sub", f) /\ Asks(hand, "unsub", f))
    BY DEF Asks
  <2>5. table[f] \in Nat /\ owed[f] \in Nat
    BY <1>4
  <2>6. table'[f] \in Nat /\ table'[f] >= owed[f]
    <3>1. CASE Asks(hand, "sub", f)
      <4>1. table'[f] = table[f] + 1 /\ table[f] + 1 >= owed[f] + 0
        BY <2>2, <2>3, <2>4, <3>1 DEF One
      <4> QED
        BY <2>5, <4>1
    <3>2. CASE Asks(hand, "unsub", f)
      <4>1. /\ table'[f] = IF table[f] > 0 THEN table[f] - 1 ELSE 0
            /\ table[f] + 0 >= owed[f] + 1
        BY <2>2, <2>3, <2>4, <3>2 DEF One
      <4> QED
        BY <2>5, <4>1
    <3>3. CASE ~Asks(hand, "sub", f) /\ ~Asks(hand, "unsub", f)
      <4>1. table'[f] = table[f] /\ table[f] + 0 >= owed[f] + 0
        BY <2>2, <2>3, <3>3 DEF One
      <4> QED
        BY <2>5, <4>1
    <3> QED
      BY <3>1, <3>2, <3>3
  <2> QED
    BY <2>1, <2>5, <2>6
<1> QED
  BY <1>6, <1>7, <1>8 DEF CoverInv

\* A write that fails, on a connection that is lost.
LEMMA WriteFrontendFailsCovers ==
  ASSUME IInv, IInv', CoverInv, WriteFrontendFails
  PROVE  CoverInv'
<1>1. /\ pc = "write" /\ link = "lost" /\ pc' \in {"select", "ended"} /\ hand' = Nothing
      /\ UNCHANGED <<conn, wants, pipe, subscribers, table, owed, thinned, missed>>
      /\ (peer' = FALSE /\ link' = "none") \/ UNCHANGED <<peer, link>>
  BY DEF WriteFrontendFails, End, Back, clientVars, xpubVars, history
<1>2. UpstreamInv' /\ TableInv'
  <2>1. CASE peer' = FALSE /\ link' = "none"
    BY <1>1, <2>1 DEF CoverInv, UpstreamInv, TableInv
  <2>2. CASE UNCHANGED <<peer, link>>
    <3>1. UpstreamInv'
      BY <1>1, <2>2, UpstreamFrame DEF CoverInv
    <3> QED
      BY <1>1, <2>2, <3>1 DEF TableInv
  <2> QED
    BY <1>1, <2>1, <2>2
<1>3. Accounted'
  <2>1. Same("forward")
    BY <1>1, SameFrame
  <2>2. \A c \in Clients, f \in Filters : subscribers'[c].subs[f] <= subscribers[c].subs[f]
    BY <1>1 DEF IInv, TypeInv
  <2> QED
    BY <1>1, <2>1, <2>2, AccountFrame DEF IInv, CoverInv
<1> QED
  BY <1>2, <1>3 DEF CoverInv

-----------------------------------------------------------------------------
(* The other steps *)

\* Steps that neither read from a subscriber nor send to the publisher.
LEMMA OtherStepCovers ==
  ASSUME IInv, IInv', CoverInv,
         UNCHANGED <<conn, wants, pipe, table, owed, thinned, missed, link, peer>>,
         \A c \in Clients : subscribers'[c] = subscribers[c] \/ subscribers'[c].subs = NoFilters,
         \/ UNCHANGED <<pc, hand>>
         \/ hand[1] \notin {"sub", "unsub"} /\ hand'[1] \in {"pub", "nothing"} /\ pc # "ended"
            /\ (hand'[1] = "nothing" => pc' # "write")
         \/ pc = "forward" /\ pc' = "ended"
  PROVE  CoverInv'
<1>1. UpstreamInv'
  BY UpstreamFrame DEF CoverInv
<1>2. Same("write")
  BY SameFrame
<1>3. TableInv'
  BY <1>2, TableFrame DEF CoverInv
<1>4. ASSUME pc' # "ended" PROVE Accounted'
  <2>1. Same("forward") /\ pc # "ended"
    BY <1>4, SameFrame
  <2>2. \A c \in Clients, f \in Filters : subscribers'[c].subs[f] <= subscribers[c].subs[f]
    BY EmptiedEntries DEF IInv
  <2> QED
    BY <2>1, <2>2, AccountFrame DEF IInv, CoverInv
<1> QED
  BY <1>1, <1>3, <1>4 DEF CoverInv

LEMMA QuietStepsCover ==
  ASSUME IInv, IInv', CoverInv,
         \/ \E c \in Clients : SeeClosed(c) \/ RemoveEntry(c) \/ RemoveStream(c)
         \/ \E c \in Clients, n \in Numbers :
              \/ Upsert(c, n) \/ InsertStream(c, n) \/ InsertOverwritten(c, n)
              \/ WriteBackend(c, n) \/ WriteBackendFails(c, n)
         \/ CaptureFails \/ SendBackend \/ BackendSent
         \/ \E s \in Subjects : Publish(s)
         \/ UNCHANGED vars
  PROVE  CoverInv'
<1>0. subscribers \in [Clients -> [conn : 0..MaxConns, subs : [Filters -> Nat]]]
  BY DEF IInv, TypeInv
<1>1. ASSUME NEW c \in Clients, SeeClosed(c) PROVE CoverInv'
  BY <1>1, OtherStepCovers DEF SeeClosed, xpubVars, proxyVars, upVars
<1>2. ASSUME NEW c \in Clients, NEW n \in Numbers, Upsert(c, n) PROVE CoverInv'
  <2>1. /\ UNCHANGED <<conn, wants, pipe, table, owed, thinned, missed, link, peer, pc, hand>>
        /\ subscribers' = [subscribers EXCEPT ![c] = [conn |-> n, subs |-> NoFilters]]
    BY <1>2 DEF Upsert, NoteOvertaken, clientVars, proxyVars, upVars
  <2>2. \A b \in Clients : subscribers'[b] = subscribers[b] \/ subscribers'[b].subs = NoFilters
    BY <1>0, <2>1
  <2> QED
    BY <2>1, <2>2, OtherStepCovers
<1>3. ASSUME NEW c \in Clients, NEW n \in Numbers, InsertStream(c, n) \/ InsertOverwritten(c, n)
      PROVE  CoverInv'
  BY <1>3, OtherStepCovers
     DEF InsertStream, InsertOverwritten, NoteOvertaken, clientVars, proxyVars, upVars
<1>4. ASSUME NEW c \in Clients, NEW n \in Numbers, WriteBackend(c, n) \/ WriteBackendFails(c, n)
      PROVE  CoverInv'
  BY <1>4, OtherStepCovers DEF WriteBackend, WriteBackendFails, clientVars, xpubVars, upVars, history
<1>5. CASE CaptureFails
  BY <1>5, OtherStepCovers DEF CaptureFails, End, clientVars, xpubVars, upVars, history
<1>6. CASE SendBackend
  BY <1>6, OtherStepCovers DEF SendBackend, clientVars, xpubVars, upVars, history
<1>7. CASE BackendSent
  <2>1. /\ UNCHANGED <<conn, wants, pipe, subscribers, table, owed, thinned, missed, link, peer>>
        /\ pc = "write" /\ hand[1] = "pub" /\ pc' # "write" /\ hand' = Nothing
    BY <1>7 DEF BackendSent, clientVars, xpubVars, upVars, history
  <2>2. hand'[1] = "nothing"
    BY <2>1, MessageKinds
  <2> QED
    BY <2>1, <2>2, OtherStepCovers
<1>10. ASSUME NEW c \in Clients, RemoveEntry(c) PROVE CoverInv'
  <2>1. /\ UNCHANGED <<conn, wants, pipe, table, owed, thinned, missed, link, peer, pc, hand>>
        /\ subscribers' = [subscribers EXCEPT ![c] = NoEntry]
    BY <1>10 DEF RemoveEntry, clientVars, upVars
  <2>2. \A b \in Clients : subscribers'[b] = subscribers[b] \/ subscribers'[b].subs = NoFilters
    BY <1>0, <2>1 DEF NoEntry
  <2> QED
    BY <2>1, <2>2, OtherStepCovers
<1>11. ASSUME NEW c \in Clients, RemoveStream(c) PROVE CoverInv'
  <2>1. /\ UNCHANGED <<conn, wants, pipe, subscribers, table, owed, thinned, missed, link, peer>>
        /\ pc \in {"remove", "fail"}
        /\ UNCHANGED <<pc, hand>> \/ (pc' \in {"select", "ended"} /\ hand' = Nothing)
    BY <1>11 DEF RemoveStream, End, Back, clientVars, upVars
  <2>2. hand[1] = "nothing" /\ Nothing[1] = "nothing"
    BY <2>1, MessageKinds DEF IInv, OrderInv, HandInv
  <2> QED
    BY <2>1, <2>2, OtherStepCovers
<1>8. ASSUME NEW s \in Subjects, Publish(s) PROVE CoverInv'
  BY <1>8, OtherStepCovers DEF Publish, clientVars, xpubVars, proxyVars
<1>9. CASE UNCHANGED vars
  BY <1>9, OtherStepCovers DEF vars, clientVars, xpubVars, proxyVars, upVars, history
<1> QED
  BY <1>1, <1>2, <1>3, <1>4, <1>5, <1>6, <1>7, <1>8, <1>9, <1>10, <1>11

\* What comes from the publisher, which may be the end of its connection.
LEMMA RecvFrontendCovers ==
  ASSUME IInv, IInv', CoverInv, RecvFrontend
  PROVE  CoverInv'
<1>1. PICK m : m = Head(data)
  OBVIOUS
<1>2. /\ pc = "select" /\ peer /\ data # <<>>
      /\ UNCHANGED <<conn, wants, pipe, subscribers, table, owed, thinned, missed>>
  BY DEF RecvFrontend, clientVars, xpubVars, history
<1>3. m \in Publications \cup {Lost} /\ hand = Nothing /\ hand[1] = "nothing"
  BY <1>1, <1>2, TailFacts, MessageKinds DEF IInv, TypeInv, OrderInv, HandInv
<1>4. CASE m = Lost
  <2>1. /\ peer' = FALSE /\ link' = "none"
        /\ (pc' = "ended" /\ hand' = Nothing) \/ UNCHANGED <<pc, hand>>
    BY <1>1, <1>4 DEF RecvFrontend, End
  <2>2. UpstreamInv' /\ TableInv'
    BY <1>2, <2>1 DEF CoverInv, UpstreamInv, TableInv
  <2>3. Same("forward")
    BY <1>2, <2>1, SameFrame
  <2>4. \A c \in Clients, f \in Filters : subscribers'[c].subs[f] <= subscribers[c].subs[f]
    BY <1>2 DEF IInv, TypeInv
  <2>5. Accounted'
    BY <1>2, <2>3, <2>4, AccountFrame DEF IInv, CoverInv
  <2> QED
    BY <2>2, <2>5 DEF CoverInv
<1>5. CASE m # Lost
  <2>1. pc' = "forward" /\ hand' = m /\ UNCHANGED <<peer, link>>
    BY <1>1, <1>5 DEF RecvFrontend, Receive
  <2>2. hand'[1] = "pub"
    BY <1>3, <1>5, <2>1, MessageKinds
  <2> QED
    BY <1>2, <1>3, <2>1, <2>2, OtherStepCovers
<1> QED
  BY <1>4, <1>5

\* The publisher goes; a new one is told the filters that are remembered, and those it
\* is told less often than it is owed are noted.
LEMMA LinkStepsCover ==
  ASSUME IInv, IInv', CoverInv, LinkLost \/ Resync \/ Rejoin, pc # "ended"
  PROVE  CoverInv'
<1>1. /\ UNCHANGED <<conn, wants, pipe, subscribers, pc, hand, owed, missed>>
      /\ LinkLost \/ Rejoin => thinned' = thinned
  BY DEF LinkLost, Resync, Rejoin, clientVars, xpubVars, proxyVars, history
<1>2. Accounted'
  <2>1. Same("forward")
    BY <1>1, SameFrame
  <2>2. \A c \in Clients, f \in Filters : subscribers'[c].subs[f] <= subscribers[c].subs[f]
    BY <1>1 DEF IInv, TypeInv
  <2> QED
    BY <1>1, <2>1, <2>2, AccountFrame DEF IInv, CoverInv
<1>3. CASE LinkLost
  <2>1. link = "alive" /\ link' = "lost" /\ table' = NoFilters /\ peer' = peer
    BY <1>3 DEF LinkLost
  <2> QED
    BY <1>1, <1>2, <2>1 DEF CoverInv, UpstreamInv, TableInv, NoFilters, AllOf
<1>4. CASE Resync
  <2>1. /\ link = "none" /\ link' = "resync" /\ peer' = peer
        /\ table' = [f \in Filters |-> IF f \in subs THEN 1 ELSE 0]
        /\ thinned' = thinned \cup {f \in Filters : owed[f] > table'[f]}
    BY <1>4 DEF Resync
  <2>2. table' \in [Filters -> Nat] /\ owed \in [Filters -> Nat]
    BY <2>1 DEF CoverInv, UpstreamInv
  <2>3. UpstreamInv'
    BY <1>1, <2>1, <2>2 DEF CoverInv, UpstreamInv
  <2>4. ~(pc = "write" /\ hand[1] \in {"sub", "unsub"})
    BY <2>1 DEF CoverInv, UpstreamInv
  <2>5. TableInv'
    <3> SUFFICES ASSUME NEW f \in Filters, f \notin thinned'
                 PROVE  table'[f] + One(Doing("write", "sub", f)') >= owed[f] + One(Doing("write", "unsub", f)')
      BY <1>1, <2>1 DEF TableInv, One
    <3>1. One(Doing("write", "sub", f)') = 0 /\ One(Doing("write", "unsub", f)') = 0
      BY <1>1, <2>4 DEF One, Doing, Asks
    <3>2. table'[f] \in Nat /\ owed[f] \in Nat /\ ~(owed[f] > table'[f])
      BY <2>1, <2>2
    <3> QED
      BY <3>1, <3>2
  <2> QED
    BY <1>2, <2>3, <2>5 DEF CoverInv
<1>5. CASE Rejoin
  <2>1. link = "resync" /\ link' = "alive" /\ peer' = TRUE /\ table' = table
    BY <1>5 DEF Rejoin, Resyncing
  <2>2. UpstreamInv'
    BY <1>1, <2>1 DEF CoverInv, UpstreamInv
  <2>3. TableInv'
    BY <1>1, <1>5, <2>1, TableFrame, SameFrame DEF CoverInv
  <2> QED
    BY <1>2, <2>2, <2>3 DEF CoverInv
<1> QED
  BY <1>3, <1>4, <1>5

-----------------------------------------------------------------------------
(* The specification *)

\* At the start the publisher has been told of every early subscription.
LEMMA InitCovers == Init => CoverInv
<1> SUFFICES ASSUME Init PROVE CoverInv
  OBVIOUS
<1>1. IsFiniteSet(Early) /\ Cardinality(Early) \in Nat
  BY EarlyAssumption, FS_Subset, FS_CardinalityType
<1>2. 1 \in Numbers
  BY BoundsAssumption DEF Numbers
<1>3. /\ pc = "select" /\ link = "alive" /\ peer = TRUE
      /\ \A f \in Filters : owed[f] = Cardinality(Early) /\ table[f] = Cardinality(Early)
      /\ owed \in [Filters -> Nat] /\ table \in [Filters -> Nat]
  BY <1>1 DEF Init, AllOf
<1>4. UpstreamInv
  <2>1. \A c \in Clients : subscribers[c].conn = 1
    BY DEF Init
  <2> QED
    BY <1>3, <2>1 DEF UpstreamInv
<1>5. TableInv
  <2> SUFFICES ASSUME NEW f \in Filters
               PROVE  table[f] + One(Doing("write", "sub", f)) >= owed[f] + One(Doing("write", "unsub", f))
    BY DEF TableInv
  <2>1. One(Doing("write", "sub", f)) = 0 /\ One(Doing("write", "unsub", f)) = 0
    BY <1>3 DEF One, Doing
  <2> QED
    BY <1>1, <1>3, <2>1
<1> DEFINE h == [c \in Clients |-> [n \in Numbers |-> IF c \in Early /\ n = 1 THEN Filters ELSE {}]]
<1>6. /\ h \in Readings
      /\ \A c \in Clients, n \in Numbers : h[c][n] = IF c \in Early /\ n = 1 THEN Filters ELSE {}
  BY DEF Readings
<1> HIDE DEF h
<1>7. PipesInv(h)
  <2> SUFFICES ASSUME NEW c \in Clients, NEW n \in Numbers
               PROVE  /\ n = conn[c] => Leads(h[c][n], pipe[c][n], wants[c])
                      /\ n < conn[c] => \E b \in SUBSET Filters : Leads(h[c][n], pipe[c][n], b)
                      /\ n > conn[c] => h[c][n] = {} /\ pipe[c][n] = <<>>
    BY DEF PipesInv
  <2>1. /\ conn[c] = 1 /\ pipe[c][n] = <<>>
        /\ wants[c] = IF c \in Early THEN Filters ELSE {}
    BY DEF Init
  <2>2. CASE n = 1
    <3>1. h[c][n] = wants[c] /\ wants[c] \in SUBSET Filters
      BY <1>6, <2>1, <2>2
    <3>2. Leads(wants[c], <<>>, wants[c])
      BY <3>1, LeadsNowhere
    <3> QED
      BY <2>1, <2>2, <3>1, <3>2
  <2>3. CASE n # 1
    <3>1. h[c][n] = {}
      BY <1>6, <2>3
    <3>2. ~(n < 1)
      BY BoundsAssumption DEF Numbers
    <3> QED
      BY <2>1, <2>3, <3>1, <3>2
  <2> QED
    BY <2>2, <2>3
<1>8. EntriesInv(h)
  <2> SUFFICES ASSUME NEW c \in Clients, NEW f \in Filters
               PROVE  subscribers[c].subs[f] <= Cardinality(Connections(h, c, f))
    BY DEF EntriesInv
  <2>1. subscribers[c].subs[f] = IF c \in Early THEN 1 ELSE 0
    BY DEF Init, AllOf
  <2>2. CASE c \in Early
    <3>1. Connections(h, c, f) = {1}
      BY <1>2, <1>6, <2>2 DEF Connections
    <3>2. Cardinality({1}) = 1
      BY FS_Singleton
    <3> QED
      BY <2>1, <2>2, <3>1, <3>2
  <2>3. CASE c \notin Early
    <3>1. Cardinality(Connections(h, c, f)) \in Nat
      BY <1>6, CountsAreNumbers
    <3> QED
      BY <2>1, <2>3, <3>1
  <2> QED
    BY <2>2, <2>3
<1>9. OwedInv(h)
  <2> SUFFICES ASSUME NEW f \in Filters
               PROVE  owed[f] + One(Doing("forward", "sub", f)) >=
                        Cardinality(Holders(h, f)) + One(Doing("forward", "unsub", f))
    BY DEF OwedInv
  <2>1. One(Doing("forward", "sub", f)) = 0 /\ One(Doing("forward", "unsub", f)) = 0
    BY <1>3 DEF One, Doing
  <2>2. Cardinality(Holders(h, f)) = Cardinality(Early)
    <3> DEFINE g == [c \in Early |-> <<c, 1>>]
    <3>1. Holders(h, f) = {<<c, 1>> : c \in Early}
      BY <1>2, <1>6, EarlyAssumption DEF Holders
    <3>2. g \in Bijection(Early, Holders(h, f))
      <4>1. g \in [Early -> Holders(h, f)]
        BY <3>1
      <4>2. \A a, b \in Early : g[a] = g[b] => a = b
        OBVIOUS
      <4>3. \A t \in Holders(h, f) : \E a \in Early : g[a] = t
        BY <3>1
      <4> HIDE DEF g
      <4>4. g \in Injection(Early, Holders(h, f))
        BY <4>1, <4>2, Zenon DEF Injection, IsInjective
      <4>5. g \in Surjection(Early, Holders(h, f))
        BY <4>1, <4>3, Zenon DEF Surjection
      <4> QED
        BY <4>4, <4>5, Zenon DEF Bijection
    <3>3. ExistsBijection(Early, Holders(h, f))
      BY <3>2, Zenon DEF ExistsBijection
    <3> QED
      BY <1>1, <3>3, FS_Bijection
  <2> QED
    BY <1>1, <1>3, <2>1, <2>2
<1>10. Accounted
  BY <1>6, <1>7, <1>8, <1>9 DEF Accounted
<1> QED
  BY <1>4, <1>5, <1>10 DEF CoverInv

LEMMA NextCovers == IInv /\ IInv' /\ CoverInv /\ [Next]_vars => CoverInv'
<1> SUFFICES ASSUME IInv, IInv', CoverInv, [Next]_vars PROVE CoverInv'
  OBVIOUS
<1>1. CASE ProxyStep
  <2>1. ASSUME NEW c \in Clients, RecvBackend(c) PROVE CoverInv'
    BY <2>1, StreamEndCovers, ReadCovers
  <2> QED
    BY <1>1, <2>1, RecvFrontendCovers, SendFrontendCovers, WriteFrontendCovers,
       WriteFrontendFailsCovers, QuietStepsCover DEF ProxyStep
<1>2. CASE AcceptStep
  BY <1>2, QuietStepsCover DEF AcceptStep
<1>3. CASE ClientStep
  <2>1. PICK c \in Clients :
          \/ \E f \in Filters : Subscribe(c, f) \/ Unsubscribe(c, f)
          \/ SendData(c) \/ Leave(c) \/ SeeClosed(c) \/ Return(c)
    BY <1>3 DEF ClientStep
  <2> QED
    BY <2>1, ClientSendsCovers, QuietStepsCover, ReturnCovers
<1>4. CASE \E s \in Subjects : Publish(s)
  BY <1>4, QuietStepsCover
<1>5. CASE Running /\ (LinkLost \/ Resync \/ Rejoin)
  BY <1>5, LinkStepsCover DEF Running
<1>6. CASE UNCHANGED vars
  BY <1>6, QuietStepsCover
<1> QED
  BY <1>1, <1>2, <1>3, <1>4, <1>5, <1>6 DEF Next

\* Entries, what the publisher is owed and what it has been told follow the
\* connections on which a filter was subscribed to.
THEOREM UpstreamAccount == Spec => []CoverInv
  BY ProxyInvariant, InitCovers, NextCovers, PTL DEF Spec

\* The publisher behind the proxy knows of every filter that a subscriber holds,
\* however many subscribers hold it, come, go and return, and whichever of their
\* connections is read, except for the filters sub_backend.rs resends too seldom or
\* sends while a new publisher is being set up.
THEOREM UpstreamKnowsFilters == Spec => []UpstreamCovers
<1>1. IInv /\ CoverInv => UpstreamCovers
  <2> SUFFICES ASSUME IInv, CoverInv, NEW c \in Clients, NEW f \in Filters, Settled(c, f),
                      f \notin thinned, f \notin missed
               PROVE  table[f] > 0
    BY DEF UpstreamCovers
  <2>1. subscribers[c].subs[f] > 0 /\ pc = "select" /\ link = "alive"
    BY DEF Settled
  <2>2. PICK h \in Readings : PipesInv(h) /\ EntriesInv(h) /\ OwedInv(h)
    BY <2>1 DEF CoverInv, Accounted
  <2>3. /\ subscribers[c].subs[f] \in Nat /\ owed[f] \in Nat /\ table[f] \in Nat
        /\ Cardinality(Connections(h, c, f)) \in Nat
        /\ IsFiniteSet(Holders(h, f)) /\ Cardinality(Holders(h, f)) \in Nat
    <3>1. subscribers[c].subs[f] \in Nat
      BY DEF IInv, TypeInv
    <3>2. owed[f] \in Nat /\ table[f] \in Nat
      BY DEF CoverInv, UpstreamInv
    <3> QED
      BY <3>1, <3>2, CountsAreNumbers
  <2>4. Cardinality(Connections(h, c, f)) > 0
    BY <2>1, <2>2, <2>3 DEF EntriesInv
  <2>5. PICK n : n \in Connections(h, c, f)
    BY <2>4, FS_EmptySet
  <2>6. <<c, n>> \in Holders(h, f)
    BY <2>5 DEF Connections, Holders
  <2>7. Cardinality(Holders(h, f)) > 0
    BY <2>3, <2>6, FS_EmptySet
  <2>8. owed[f] + 0 >= Cardinality(Holders(h, f)) + 0
    BY <2>1, <2>2 DEF OwedInv, Doing, One
  <2>9. table[f] + 0 >= owed[f] + 0
    BY <2>1 DEF CoverInv, TableInv, Doing, One
  <2> QED
    BY <2>3, <2>7, <2>8, <2>9
<1> QED
  BY <1>1, ProxyInvariant, UpstreamAccount, PTL
=============================================================================
