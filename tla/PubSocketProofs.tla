-------------------------- MODULE PubSocketProofs --------------------------
(***************************************************************************)
(* Proofs about PubSocket for any number of connections, identities and    *)
(* messages.  The wake protocol strands no message, as long as the loads   *)
(* of the worker do not overtake its stores; subscriber_count follows the  *)
(* map; a subscriber that stays gets every message, in order and once.     *)
(***************************************************************************)
EXTENDS PubSocket, FiniteSetTheorems, TLAPS

\* The part of the types that the argument needs.
ShapeInv ==
  /\ wakes \in Nat
  /\ worker = [at |-> worker.at, msg |-> worker.msg, todo |-> worker.todo,
               visited |-> worker.visited]

\* At most one store is under way, the one the worker has just made.
StoresInv ==
  \/ stores = <<>>
  \/ stores = <<"release">> /\ worker.at = "check"
  \/ stores = <<"reclaim">> /\ worker.at = "drain"

\* Once the worker has given wake_pending up, whoever sets it sends a token.
PendingInv ==
  (worker.at = "wait" \/ worker.at = "check") /\ stores = <<>> /\ wake_pending =>
    wakes > 0 \/ publisher = "wake"

WakeInv == ShapeInv /\ StoresInv /\ PendingInv /\ NoStrandedMessage

\* The invariant holds at the start.
LEMMA InitWake == Init => WakeInv
  BY DEF Init, WakeInv, ShapeInv, StoresInv, PendingInv, NoStrandedMessage, Waiting

\* A call of send keeps the invariant.
LEMMA SenderWake == WakeInv /\ (Send \/ SenderStep) => WakeInv'
<1> SUFFICES ASSUME WakeInv, Send \/ SenderStep PROVE WakeInv'
  OBVIOUS
<1> USE DEF WakeInv, ShapeInv, StoresInv, PendingInv, NoStrandedMessage, fanout
<1>1. CASE Send
  BY <1>1 DEF Send
<1>2. CASE Push
  BY <1>2 DEF Push
<1>3. CASE LoadPending
  BY <1>3 DEF LoadPending
<1>4. CASE SwapPending
  <2>1. CASE wake_pending
    BY <1>4, <2>1 DEF SwapPending
  <2>2. CASE ~wake_pending
    <3>1. publisher' = "wake" /\ UNCHANGED <<queue, stores, wakes, worker>>
      BY <1>4, <2>2 DEF SwapPending
    <3> QED
      BY <3>1
  <2> QED
    BY <2>1, <2>2
<1>5. CASE Wake
  BY <1>5 DEF Wake
<1> QED
  BY <1>1, <1>2, <1>3, <1>4, <1>5 DEF SenderStep

\* A step of the worker keeps the invariant: it sleeps only after a look at the
\* queue that follows its release of wake_pending.
LEMMA WorkerWake ==
  ASSUME StoreBuffer = FALSE, WakeInv, WorkerStep \/ DrainStore
  PROVE  WakeInv'
<1> USE DEF WakeInv, ShapeInv, StoresInv, PendingInv, NoStrandedMessage, fanout,
            others, senders
<1>1. CASE AwaitWake
  BY <1>1 DEF AwaitWake
<1>2. CASE WorkerEnds
  BY <1>2 DEF WorkerEnds
<1>3. CASE PopMessage
  BY <1>3 DEF PopMessage
<1>4. CASE \E k \in Keys : FanoutTo(k)
  BY <1>4 DEF FanoutTo
<1>5. CASE EndFanout
  BY <1>5 DEF EndFanout, Waiting
<1>6. CASE ReleasePending
  <2>1. stores = <<>> /\ stores' = <<"release">> /\ stores' # <<>>
    BY <1>6 DEF ReleasePending
  <2>2. worker'.at = "check" /\ ShapeInv'
    BY <1>6 DEF ReleasePending
  <2> QED
    BY <2>1, <2>2
<1>7. CASE CheckEmpty
  BY <1>7 DEF CheckEmpty
<1>8. CASE ReclaimPending
  <2>1. stores = <<>> /\ stores' = <<"reclaim">> /\ stores' # <<>>
    BY <1>8 DEF ReclaimPending
  <2>2. worker'.at = "drain" /\ ShapeInv'
    BY <1>8 DEF ReclaimPending
  <2> QED
    BY <2>1, <2>2
<1>9. CASE DrainStore
  <2>1. /\ Head(<<"release">>) = "release"
        /\ Tail(<<"release">>) = <<>> /\ Tail(<<"reclaim">>) = <<>>
    OBVIOUS
  <2>2. stores' = <<>> /\ ShapeInv' /\ worker' = worker /\ publisher' = publisher
    BY <1>9, <2>1 DEF DrainStore
  <2>3. worker.at = "check" => wake_pending' = FALSE
    BY <1>9, <2>1 DEF DrainStore
  <2>4. worker.at # "wait"
    BY <1>9 DEF DrainStore
  <2> QED
    BY <2>2, <2>3, <2>4
<1> QED
  BY <1>1, <1>2, <1>3, <1>4, <1>5, <1>6, <1>7, <1>8, <1>9 DEF WorkerStep

\* A change to the subscribers keeps the invariant: it leaves the protocol alone,
\* but for the entries the worker has still to visit and the end of the socket.
LEMMA SubscriberWake ==
  ASSUME WakeInv, UNCHANGED fanout,
         publisher' = publisher \/ publisher = "idle",
         \/ worker' = worker
         \/ \E todo : worker' = [worker EXCEPT !.todo = todo]
  PROVE  WakeInv'
  BY DEF WakeInv, ShapeInv, StoresInv, PendingInv, NoStrandedMessage, fanout

\* Every other step of the system is such a change.
LEMMA OtherSteps ==
  ASSUME Next, ~Send, ~SenderStep, ~WorkerStep, ~DrainStore
  PROVE  /\ UNCHANGED fanout
         /\ publisher' = publisher \/ publisher = "idle"
         /\ \/ worker' = worker
            \/ \E todo : worker' = [worker EXCEPT !.todo = todo]
<1> USE DEF mailbox, senders, fanout
<1>1. CASE \E c \in Conns : \/ Upsert(c) \/ SpawnTasks(c) \/ WriteMessage(c)
                           \/ WriteFails(c) \/ ReaderStops(c)
  BY <1>1 DEF Upsert, SpawnTasks, WriteMessage, WriteFails, ReaderStops
<1>2. CASE \E c \in Conns, t \in Topics : Subscribe(c, t) \/ Unsubscribe(c, t)
  BY <1>2 DEF Subscribe, Unsubscribe
<1>3. CASE \E c \in Conns : WriterDisconnects(c) \/ ReaderDisconnects(c)
  BY <1>3 DEF WriterDisconnects, ReaderDisconnects, RemoveEntry
<1>4. CASE \E t \in Tasks : UncountSubscriber(t)
  BY <1>4 DEF UncountSubscriber
<1>5. CASE DropSocket \/ ZeroCount
  BY <1>5 DEF DropSocket, ZeroCount
<1> QED
  BY <1>1, <1>2, <1>3, <1>4, <1>5 DEF Next

\* The worker never sleeps over a message that no token announces, for any number
\* of subscribers and messages and any capacity, if StoreBuffer is FALSE.
THEOREM NeverStrandsMessage ==
  ASSUME StoreBuffer = FALSE
  PROVE  Spec => []NoStrandedMessage
<1>1. Init => WakeInv
  BY InitWake
<1>2. WakeInv /\ [Next]_vars => WakeInv'
  <2> SUFFICES ASSUME WakeInv, [Next]_vars PROVE WakeInv'
    OBVIOUS
  <2>1. CASE Send \/ SenderStep
    BY <2>1, SenderWake
  <2>2. CASE WorkerStep \/ DrainStore
    BY <2>2, WorkerWake
  <2>3. CASE UNCHANGED vars
    BY <2>3, SubscriberWake DEF vars, senders
  <2>4. CASE Next /\ ~(Send \/ SenderStep) /\ ~(WorkerStep \/ DrainStore)
    BY <2>4, OtherSteps, SubscriberWake
  <2> QED
    BY <2>1, <2>2, <2>3, <2>4
<1>3. WakeInv => NoStrandedMessage
  BY DEF WakeInv
<1> QED
  BY <1>1, <1>2, <1>3, PTL DEF Spec

-----------------------------------------------------------------------------
(* Subscribers: the invariant *)

\* An entry of the map holds a connection that presented its identity.
EntryInv == \A k \in Keys : subscribers[k] # NoConn => identity[subscribers[k]] = k

\* A connection's tasks run peer_disconnected once each, after it was started.
TaskInv ==
  /\ \A c \in Conns : job[Connector(c)] \in {"upsert", "add", "spawn"} =>
                        writer[c] = "none" /\ reader[c] = "none"
  /\ \A c \in Conns : writer[c] # "failed" => job[Writer(c)] = "idle"
  /\ \A c \in Conns : reader[c] # "ended" => job[Reader(c)] = "idle"
  /\ publisher # "dropped" => job[Dropper] = "idle"

\* What the call of send pushes is a message.
PushInv == publisher = "push" => published \in Messages

\* The least number that a message not yet pushed can have.
Newest == IF publisher = "push" THEN published ELSE published + 1

\* Messages are queued in order, behind the one that is fanned out and those the
\* connections have got, and the iteration over the map meets no identity twice.
OrderInv ==
  /\ \A i \in 1..Len(queue) : queue[i] < Newest
  /\ \A i \in 1..Len(queue), j \in 1..Len(queue) : i < j => queue[i] < queue[j]
  /\ \A c \in Conns : got[c] < Newest /\ \A i \in 1..Len(queue) : got[c] < queue[i]
  /\ worker.at = "fanout" =>
       /\ worker.msg \in Messages /\ worker.msg < Newest
       /\ \A i \in 1..Len(queue) : worker.msg < queue[i]
       /\ \A c \in Conns :
            got[c] < worker.msg \/ (got[c] = worker.msg /\ identity[c] \in worker.visited)

\* What a connection is owed it deserves, and while a message is fanned out its
\* entry is still to be visited, or it has got the message.
OwedInv == \A c \in Conns : \A m \in owed[c] : Deserves(c, m)
ServedInv ==
  worker.at = "fanout" =>
    \A c \in Conns : worker.msg \in owed[c] =>
      identity[c] \in worker.todo \/ got[c] = worker.msg

SubscribersInv ==
  /\ TypeOK /\ PushInv /\ EntryInv /\ TaskInv /\ SubscriberCountExact
  /\ OrderInv /\ OwedInv /\ ServedInv

-----------------------------------------------------------------------------
(* Tasks and counting *)

LEMMA TaskFacts ==
  /\ \A c \in Conns : {Connector(c), Writer(c), Reader(c)} \subseteq Tasks
  /\ Dropper \in Tasks
  /\ \A c \in Conns : \A d \in Conns :
       /\ Connector(c) # Writer(d) /\ Connector(c) # Reader(d) /\ Writer(c) # Reader(d)
       /\ Connector(c) = Connector(d) => c = d
       /\ Writer(c) = Writer(d) => c = d
       /\ Reader(c) = Reader(d) => c = d
  /\ \A c \in Conns : Connector(c) # Dropper /\ Writer(c) # Dropper /\ Reader(c) # Dropper
  BY DEF Tasks, Connector, Writer, Reader, Dropper

LEMMA TasksFinite == IsFiniteSet(Tasks)
  <1> DEFINE Names == ((({"connector"} \cup {"writer"}) \cup {"reader"}) \cup {"dropper"})
  <1>1. IsFiniteSet({"connector"})
    BY FS_Singleton
  <1>2. IsFiniteSet(Names)
    BY <1>1, FS_AddElement
  <1>3. IsFiniteSet(Conns \cup {NoConn})
    BY ConnsAssumption, FS_AddElement
  <1>4. IsFiniteSet(Names \X (Conns \cup {NoConn}))
    BY <1>2, <1>3, FS_Product
  <1>5. Tasks \in SUBSET (Names \X (Conns \cup {NoConn}))
    BY DEF Tasks, Connector, Writer, Reader, Dropper
  <1> QED
    BY <1>4, <1>5, FS_Subset

\* The three sets that SubscriberCountExact counts are finite.
LEMMA CountedFinite ==
  /\ IsFiniteSet(Registered) /\ Cardinality(Registered) \in Nat
  /\ \A stage : IsFiniteSet(Uncounted(stage)) /\ Cardinality(Uncounted(stage)) \in Nat
  <1>1. Registered \in SUBSET Keys /\ \A stage : Uncounted(stage) \in SUBSET Tasks
    BY DEF Registered, Uncounted
  <1>2. IsFiniteSet(Registered) /\ \A stage : IsFiniteSet(Uncounted(stage))
    BY <1>1, KeysAssumption, TasksFinite, FS_Subset
  <1> QED
    BY <1>2, FS_CardinalityType

\* Division with remainder is unique.
LEMMA RemainderUnique ==
  ASSUME NEW M \in Nat \ {0}, NEW q \in Int, NEW r \in 0..M-1
  PROVE  (M * q + r) % M = r
  <1> DEFINE x == M * q + r
             p == x \div M
             s == x % M
  <1>1. x \in Int
    OBVIOUS
  <1>2. x = M * p + s /\ s \in 0..M-1 /\ p \in Int
    BY <1>1
  <1>3. M * (q - p) = s - r
    BY <1>2
  <1> HIDE DEF p, s, x
  <1>4. q - p < 1
    <2>1. q - p >= 1 => M * (q - p) >= M
      BY <1>2
    <2> QED
      BY <2>1, <1>2, <1>3
  <1>5. q - p > -1
    <2>1. q - p <= -1 => M * (q - p) <= -M
      BY <1>2
    <2> QED
      BY <2>1, <1>2, <1>3
  <1>6. q = p
    BY <1>2, <1>4, <1>5
  <1>7. s = r
    BY <1>2, <1>3, <1>6
  <1> QED
    BY <1>7 DEF s, x

\* Counting modulo M and then adding d, as fetch_add and fetch_sub do.
LEMMA AddModulo ==
  ASSUME NEW M \in Nat \ {0}, NEW a \in Int, NEW d \in Int
  PROVE  ((a % M) + d) % M = (a + d) % M
  <1> DEFINE q == a \div M
             y == (a % M) + d
             p == y \div M
             r == y % M
  <1>1. a = M * q + (a % M) /\ q \in Int /\ (a % M) \in Int
    OBVIOUS
  <1>2. y = M * p + r /\ r \in 0..M-1 /\ p \in Int
    BY <1>1
  <1>3. a + d = M * (q + p) + r
    <2> HIDE DEF q, p, r
    <2> QED
      BY <1>1, <1>2
  <1>4. q + p \in Int
    BY <1>1, <1>2
  <1> HIDE DEF q, p, r, y
  <1>5. (M * (q + p) + r) % M = r
    BY <1>2, <1>4, RemainderUnique
  <1> QED
    BY <1>3, <1>5 DEF r, y

\* A step that changes neither the map nor the count keeps SubscriberCountExact.
LEMMA CountFrame ==
  ASSUME SubscriberCountExact, UNCHANGED <<subscribers, subscriber_count>>,
         publisher' # "dropped" => publisher # "dropped",
         \A t \in Tasks : job'[t] # job[t] => {job'[t], job[t]} \cap {"sub", "add"} = {}
  PROVE  SubscriberCountExact'
  <1>1. Registered' = Registered
    BY DEF Registered
  <1>2. Uncounted("sub")' = Uncounted("sub") /\ Uncounted("add")' = Uncounted("add")
    BY DEF Uncounted
  <1> QED
    BY <1>1, <1>2 DEF SubscriberCountExact

-----------------------------------------------------------------------------
(* Every step keeps the types *)

LEMMA GotoMoves ==
  ASSUME TypeOK, NEW t \in Tasks, NEW s \in Stages, Goto(t, s)
  PROVE  job' \in [Tasks -> Stages] /\ job'[t] = s /\ \A u \in Tasks : u # t => job'[u] = job[u]
  BY DEF TypeOK, Goto

LEMMA NoTopicsType == NoTopics \in [Topics -> 0..MaxRepeats]
  BY BoundsAssumption DEF NoTopics

LEMMA InitSubscribers == Init => SubscribersInv
  <1> SUFFICES ASSUME Init PROVE SubscribersInv
    OBVIOUS
  <1>0. /\ queue = <<>> /\ wakes = 0 /\ stores = <<>> /\ published = 0 /\ subscriber_count = 0
        /\ subscribers = [k \in Keys |-> NoConn] /\ channel = [c \in Conns |-> 0]
        /\ got = [c \in Conns |-> 0] /\ owed = [c \in Conns |-> {}]
        /\ writer = [c \in Conns |-> "none"] /\ reader = [c \in Conns |-> "none"]
        /\ publisher = "idle" /\ worker = Waiting
    BY DEF Init
  <1>1. TypeOK
    <2>1. subscriptions \in [Keys -> [Topics -> 0..MaxRepeats]]
      BY NoTopicsType DEF Init
    <2>2. worker \in Workers
      BY <1>0, BoundsAssumption DEF Waiting, Workers
    <2>3. job \in [Tasks -> Stages]
      BY DEF Init, Stages
    <2>4. /\ queue \in Seq(Messages) /\ Len(queue) <= Capacity /\ wakes \in Nat
          /\ published \in 0..MaxMessages /\ subscriber_count \in 0..Modulus - 1
      BY <1>0, BoundsAssumption
    <2>5. wake_pending \in BOOLEAN /\ identity \in Handshakes
      BY DEF Init
    <2>6. /\ stores \in Seq({"release", "reclaim"})
          /\ publisher \in {"idle", "push", "load", "swap", "wake", "dropped"}
          /\ subscribers \in [Keys -> Conns \cup {NoConn}]
          /\ writer \in [Conns -> {"none", "running", "failed"}]
          /\ reader \in [Conns -> {"none", "running", "ended"}]
      BY <1>0
    <2>7. /\ channel \in [Conns -> Nat] /\ got \in [Conns -> 0..MaxMessages]
          /\ owed \in [Conns -> SUBSET Messages]
      BY <1>0, BoundsAssumption
    <2> QED
      BY <2>1, <2>2, <2>3, <2>4, <2>5, <2>6, <2>7 DEF TypeOK
  <1>2. EntryInv /\ PushInv
    BY <1>0 DEF EntryInv, PushInv
  <1>3. \A t \in Tasks : job[t] \in {"idle", "upsert"} /\ (t[1] # "connector" => job[t] = "idle")
    BY DEF Init
  <1>4. TaskInv
    BY <1>0, <1>3, TaskFacts DEF TaskInv, Writer, Reader, Dropper
  <1>5. SubscriberCountExact
    <2>1. Registered = {} /\ Uncounted("sub") = {} /\ Uncounted("add") = {}
      BY <1>0, <1>3 DEF Registered, Uncounted
    <2>2. Cardinality({}) = 0
      BY FS_EmptySet
    <2>3. (Modulus * 0 + 0) % Modulus = 0
      BY BoundsAssumption, RemainderUnique
    <2>4. (0 + 0 - 0) % Modulus = 0
      BY <2>3, BoundsAssumption
    <2> QED
      BY <1>0, <2>1, <2>2, <2>4 DEF SubscriberCountExact
  <1>6. OrderInv
    BY <1>0 DEF OrderInv, Newest, Waiting
  <1>7. OwedInv /\ ServedInv
    BY <1>0 DEF OwedInv, ServedInv, Waiting
  <1> QED
    BY <1>1, <1>2, <1>4, <1>5, <1>6, <1>7 DEF SubscribersInv

\* The call of send.
LEMMA SenderTypes ==
  ASSUME TypeOK, PushInv, Send \/ SenderStep
  PROVE  TypeOK' /\ PushInv'
  <1> USE DEF fanout, registry, tasks
  <1>1. CASE Send
    <2>1. published' \in Messages
      BY <1>1, BoundsAssumption DEF Send, TypeOK, Messages
    <2>2. publisher' \in {"idle", "push"} /\ UNCHANGED <<fanout, worker, registry, tasks, channel, identity, got, owed>>
      BY <1>1 DEF Send
    <2>3. Messages \subseteq 0..MaxMessages
      BY DEF Messages
    <2> QED
      BY <2>1, <2>2, <2>3 DEF TypeOK, PushInv
  <1>2. CASE Push
    <2>1. CASE Len(queue) = Capacity
      BY <1>2, <2>1 DEF Push, TypeOK, PushInv
    <2>2. CASE Len(queue) # Capacity
      <3>1. queue' = Append(queue, published) /\ published \in Messages
        BY <1>2, <2>2 DEF Push, PushInv
      <3>2. queue' \in Seq(Messages) /\ Len(queue') <= Capacity
        BY <2>2, <3>1, BoundsAssumption DEF TypeOK
      <3>3. owed' \in [Conns -> SUBSET Messages]
        BY <1>2, <2>2, <3>1 DEF Push, TypeOK
      <3>4. /\ publisher' = "load"
            /\ UNCHANGED <<wake_pending, stores, wakes, published, worker, registry, tasks,
                           channel, identity, got>>
        BY <1>2, <2>2 DEF Push
      <3> QED
        BY <3>2, <3>3, <3>4 DEF TypeOK, PushInv
    <2> QED
      BY <2>1, <2>2
  <1>3. CASE LoadPending
    BY <1>3 DEF LoadPending, TypeOK, PushInv
  <1>4. CASE SwapPending
    BY <1>4 DEF SwapPending, TypeOK, PushInv
  <1>5. CASE Wake
    BY <1>5 DEF Wake, TypeOK, PushInv
  <1> QED
    BY <1>1, <1>2, <1>3, <1>4, <1>5 DEF SenderStep

LEMMA WorkerMoves ==
  ASSUME TypeOK, NEW place \in {"wait", "drain", "fanout", "clear", "check", "reclaim", "ended"}
  PROVE  [worker EXCEPT !.at = place] \in Workers
  BY DEF TypeOK, Workers

\* The worker and its stores.
LEMMA WorkerTypes ==
  ASSUME TypeOK, PushInv, WorkerStep \/ DrainStore
  PROVE  TypeOK' /\ PushInv'
  <1> USE DEF fanout, registry, tasks, others, senders
  <1>0. PushInv'
    BY DEF PushInv, WorkerStep, AwaitWake, WorkerEnds, PopMessage, FanoutTo, EndFanout,
           ReleasePending, CheckEmpty, ReclaimPending, DrainStore
  <1> SUFFICES TypeOK'
    BY <1>0
  <1>1. CASE AwaitWake
    <2>1. worker' \in Workers /\ wakes' \in Nat
      BY <1>1, WorkerMoves DEF AwaitWake, TypeOK
    <2> QED
      BY <1>1, <2>1 DEF AwaitWake, TypeOK
  <1>2. CASE WorkerEnds
    BY <1>2 DEF WorkerEnds, TypeOK, Workers
  <1>3. CASE PopMessage
    <2>1. CASE queue = <<>>
      <3>1. worker' \in Workers
        BY <1>3, <2>1, WorkerMoves DEF PopMessage
      <3> QED
        BY <1>3, <2>1, <3>1 DEF PopMessage, TypeOK
    <2>2. CASE queue # <<>>
      <3>1. queue \in Seq(Messages) /\ Head(queue) \in Messages /\ Tail(queue) \in Seq(Messages)
            /\ Len(Tail(queue)) <= Capacity
        BY <2>2, BoundsAssumption DEF TypeOK
      <3>2. worker' \in Workers
        <4>1. worker' = [at |-> "fanout", msg |-> Head(queue), todo |-> Registered, visited |-> {}]
          BY <1>3, <2>2 DEF PopMessage
        <4>2. Head(queue) \in 0..MaxMessages /\ Registered \in SUBSET Keys
          BY <3>1 DEF Messages, Registered
        <4> QED
          BY <4>1, <4>2 DEF Workers
      <3> QED
        BY <1>3, <2>2, <3>1, <3>2 DEF PopMessage, TypeOK
    <2> QED
      BY <2>1, <2>2
  <1>4. ASSUME NEW k \in Keys, FanoutTo(k) PROVE TypeOK'
    <2>1. /\ worker.at = "fanout" /\ k \in Registered \ worker.visited
          /\ worker' = [worker EXCEPT !.todo = @ \ {k}, !.visited = @ \cup {k}]
          /\ UNCHANGED <<fanout, others, owed>>
      BY <1>4 DEF FanoutTo
    <2>2. worker' \in Workers
      BY <2>1 DEF TypeOK, Workers
    <2>3. channel' \in [Conns -> Nat] /\ got' \in [Conns -> 0..MaxMessages]
      <3>1. CASE channel' = channel /\ got' = got
        BY <3>1 DEF TypeOK
      <3>2. CASE SendToSubscriber(subscribers[k], worker.msg)
        <4>1. subscribers[k] \in Conns /\ worker.msg \in 0..MaxMessages
          BY <2>1 DEF TypeOK, Workers, Registered
        <4>2. \/ channel' = channel /\ got' = got
              \/ /\ channel' = [channel EXCEPT ![subscribers[k]] = @ + 1]
                 /\ got' = [got EXCEPT ![subscribers[k]] = worker.msg]
          BY <3>2 DEF SendToSubscriber
        <4>3. channel \in [Conns -> Nat] /\ got \in [Conns -> 0..MaxMessages]
          BY DEF TypeOK
        <4> QED
          BY <4>1, <4>2, <4>3
      <3> QED
        BY <1>4, <3>1, <3>2 DEF FanoutTo
    <2> QED
      BY <2>1, <2>2, <2>3 DEF TypeOK
  <1>5. CASE EndFanout
    <2>1. [Waiting EXCEPT !.at = "drain"] \in Workers
      BY BoundsAssumption DEF Waiting, Workers
    <2>2. owed' \in [Conns -> SUBSET Messages]
      BY <1>5 DEF EndFanout, TypeOK
    <2> QED
      BY <1>5, <2>1, <2>2 DEF EndFanout, TypeOK
  <1>6. CASE ReleasePending
    <2>1. worker' \in Workers /\ stores' \in Seq({"release", "reclaim"})
      BY <1>6, WorkerMoves DEF ReleasePending, TypeOK
    <2> QED
      BY <1>6, <2>1 DEF ReleasePending, TypeOK
  <1>7. CASE CheckEmpty
    BY <1>7 DEF CheckEmpty, TypeOK, Workers
  <1>8. CASE ReclaimPending
    <2>1. worker' \in Workers /\ stores' \in Seq({"release", "reclaim"})
      BY <1>8, WorkerMoves DEF ReclaimPending, TypeOK
    <2> QED
      BY <1>8, <2>1 DEF ReclaimPending, TypeOK
  <1>9. CASE DrainStore
    <2>1. stores' \in Seq({"release", "reclaim"}) /\ wake_pending' \in BOOLEAN
      BY <1>9 DEF DrainStore, TypeOK
    <2> QED
      BY <1>9, <2>1 DEF DrainStore, TypeOK
  <1> QED
    BY <1>1, <1>2, <1>3, <1>4, <1>5, <1>6, <1>7, <1>8, <1>9 DEF WorkerStep

-----------------------------------------------------------------------------
(* The life of a subscriber keeps the invariant *)

\* A step that leaves the queue alone and takes from what is owed and still to be
\* visited only what is no longer deserved.
LEMMA RegistryStep ==
  ASSUME SubscribersInv, TypeOK', EntryInv', TaskInv', SubscriberCountExact',
         UNCHANGED <<queue, published, got, identity>>,
         publisher' = publisher \/ (publisher = "idle" /\ publisher' = "dropped"),
         worker'.at = worker.at, worker'.msg = worker.msg, worker'.visited = worker.visited,
         \A k \in worker.todo : k \in worker'.todo \/ subscribers'[k] = NoConn,
         \A c \in Conns : \A m \in owed'[c] : m \in owed[c] /\ Deserves(c, m)'
  PROVE  SubscribersInv'
  <1>1. PushInv' /\ Newest' = Newest
    BY DEF SubscribersInv, PushInv, Newest
  <1>2. OrderInv'
    BY <1>1 DEF SubscribersInv, OrderInv
  <1>3. OwedInv'
    BY DEF OwedInv
  <1>4. ServedInv'
    <2> SUFFICES ASSUME worker'.at = "fanout", NEW c \in Conns, worker'.msg \in owed'[c]
                 PROVE  identity'[c] \in worker'.todo \/ got'[c] = worker'.msg
      BY DEF ServedInv
    <2>1. worker.msg \in owed[c] /\ Deserves(c, worker.msg)'
      OBVIOUS
    <2>2. identity[c] \in worker.todo \/ got[c] = worker.msg
      BY <2>1 DEF SubscribersInv, ServedInv
    <2>3. subscribers'[identity[c]] # NoConn
      BY <2>1, ConnsAssumption DEF Deserves
    <2> QED
      BY <2>2, <2>3
  <1> QED
    BY <1>1, <1>2, <1>3, <1>4 DEF SubscribersInv

\* KeepOwed takes away exactly what is no longer deserved.
LEMMA KeepOwedFacts ==
  ASSUME TypeOK, KeepOwed
  PROVE  /\ identity' = identity /\ owed' \in [Conns -> SUBSET Messages]
         /\ \A c \in Conns : \A m \in owed'[c] : m \in owed[c] /\ Deserves(c, m)'
  <1> DEFINE Still(c, m) == Deserves(c, m)'
  <1>1. identity' = identity /\ owed' = [c \in Conns |-> {m \in owed[c] : Still(c, m)}]
    BY DEF KeepOwed
  <1> HIDE DEF Still
  <1>2. owed \in [Conns -> SUBSET Messages]
    BY DEF TypeOK
  <1>3. \A c \in Conns : \A m \in owed'[c] : m \in owed[c] /\ Still(c, m)
    BY <1>1
  <1>4. owed' \in [Conns -> SUBSET Messages]
    BY <1>1, <1>2
  <1> QED
    BY <1>1, <1>3, <1>4 DEF Still

\* The identity a connection presented.
LEMMA IdentityType == ASSUME TypeOK, NEW c \in Conns PROVE identity[c] \in Keys
  BY HandshakesAssumption DEF TypeOK

\* A deserved message stays deserved if the registry does not change.
LEMMA OwedFrame ==
  ASSUME SubscribersInv, UNCHANGED <<subscribers, subscriptions, identity, owed>>,
         \A c \in Conns : Open(c) => Open(c)'
  PROVE  \A c \in Conns : \A m \in owed'[c] : m \in owed[c] /\ Deserves(c, m)'
  BY DEF SubscribersInv, OwedInv, Deserves, Subscribed

LEMMA UpsertKeeps ==
  ASSUME SubscribersInv, NEW c \in Conns, Upsert(c)
  PROVE  SubscribersInv'
  <1>0. PICK k \in Keys : k = identity[c]
    BY IdentityType DEF SubscribersInv
  <1>1. PICK t \in Tasks : t = Connector(c)
    BY TaskFacts
  <1>2. /\ job[t] = "upsert" /\ subscribers' = [subscribers EXCEPT ![k] = c]
        /\ subscriptions' = [subscriptions EXCEPT ![k] = NoTopics] /\ KeepOwed
        /\ UNCHANGED <<mailbox, worker, subscriber_count, channel, got, writer, reader>>
    BY <1>0, <1>1 DEF Upsert
  <1> DEFINE s == IF subscribers[k] = NoConn THEN "add" ELSE "spawn"
  <1>3. job' \in [Tasks -> Stages] /\ job'[t] = s /\ \A u \in Tasks : u # t => job'[u] = job[u]
    <2>1. s \in Stages /\ Goto(t, s)
      BY <1>0, <1>1 DEF Upsert, CountIfNew, Stages
    <2> QED
      BY <2>1, GotoMoves DEF SubscribersInv
  <1> HIDE DEF s
  <1>4. /\ identity' = identity /\ owed' \in [Conns -> SUBSET Messages]
        /\ \A d \in Conns : \A m \in owed'[d] : m \in owed[d] /\ Deserves(d, m)'
    BY <1>2, KeepOwedFacts DEF SubscribersInv
  <1> USE DEF mailbox, fanout, senders
  <1>5. TypeOK'
    BY <1>2, <1>3, <1>4, NoTopicsType DEF SubscribersInv, TypeOK
  <1>6. EntryInv'
    BY <1>0, <1>2, <1>4 DEF SubscribersInv, TypeOK, EntryInv
  <1>7. TaskInv'
    BY <1>1, <1>2, <1>3, TaskFacts DEF SubscribersInv, TaskInv
  <1>8. SubscriberCountExact'
    <2>1. Uncounted("sub")' = Uncounted("sub")
      BY <1>2, <1>3 DEF Uncounted, s
    <2>2. CASE subscribers[k] = NoConn
      <3>1. Registered' = Registered \cup {k} /\ k \notin Registered
        BY <1>2, <2>2, ConnsAssumption DEF Registered, SubscribersInv, TypeOK
      <3>2. Uncounted("add")' = Uncounted("add") \cup {t} /\ t \notin Uncounted("add")
        BY <1>2, <1>3, <2>2 DEF Uncounted, s
      <3>3. Cardinality(Registered') = Cardinality(Registered) + 1
        BY <3>1, CountedFinite, FS_AddElement
      <3>4. Cardinality(Uncounted("add")') = Cardinality(Uncounted("add")) + 1
        BY <3>2, CountedFinite, FS_AddElement
      <3>5. Cardinality(Registered') + Cardinality(Uncounted("sub")') - Cardinality(Uncounted("add")')
              = Cardinality(Registered) + Cardinality(Uncounted("sub")) - Cardinality(Uncounted("add"))
        BY <2>1, <3>3, <3>4, CountedFinite
      <3> QED
        BY <1>2, <3>5 DEF SubscribersInv, SubscriberCountExact
    <2>3. CASE subscribers[k] # NoConn
      <3>1. Registered' = Registered
        BY <1>2, <2>3, ConnsAssumption DEF Registered, SubscribersInv, TypeOK
      <3>2. Uncounted("add")' = Uncounted("add")
        BY <1>2, <1>3, <2>3 DEF Uncounted, s
      <3> QED
        BY <1>2, <2>1, <3>1, <3>2 DEF SubscribersInv, SubscriberCountExact
    <2> QED
      BY <2>2, <2>3
  <1> QED
    BY <1>2, <1>4, <1>5, <1>6, <1>7, <1>8, RegistryStep

LEMMA SpawnTasksKeeps ==
  ASSUME SubscribersInv, NEW c \in Conns, SpawnTasks(c)
  PROVE  SubscribersInv'
  <1>1. PICK t \in Tasks : t = Connector(c)
    BY TaskFacts
  <1>2. /\ job[t] \in {"add", "spawn"}
        /\ subscriber_count' = IF job[t] = "add" THEN (subscriber_count + 1) % Modulus
                                                 ELSE subscriber_count
        /\ writer' = [writer EXCEPT ![c] = "running"] /\ reader' = [reader EXCEPT ![c] = "running"]
        /\ UNCHANGED <<mailbox, identity, worker, subscribers, subscriptions, channel, got, owed>>
    BY <1>1 DEF SpawnTasks
  <1>3. job' \in [Tasks -> Stages] /\ job'[t] = "done" /\ \A u \in Tasks : u # t => job'[u] = job[u]
    <2>1. "done" \in Stages /\ Goto(t, "done")
      BY <1>1 DEF SpawnTasks, Stages
    <2> QED
      BY <2>1, GotoMoves DEF SubscribersInv
  <1>4. writer[c] = "none" /\ reader[c] = "none"
    BY <1>1, <1>2 DEF SubscribersInv, TaskInv
  <1> USE DEF mailbox, fanout, senders
  <1>5. TypeOK'
    <2>1. subscriber_count' \in 0..Modulus - 1
      BY <1>2, BoundsAssumption DEF SubscribersInv, TypeOK
    <2> QED
      BY <1>2, <1>3, <2>1 DEF SubscribersInv, TypeOK
  <1>6. EntryInv'
    BY <1>2 DEF SubscribersInv, EntryInv
  <1>7. TaskInv'
    <2>1. \A d \in Conns : d # c => /\ writer'[d] = writer[d] /\ reader'[d] = reader[d]
                                    /\ job'[Connector(d)] = job[Connector(d)]
      BY <1>1, <1>2, <1>3, TaskFacts DEF SubscribersInv, TypeOK
    <2>2. \A d \in Conns : job'[Writer(d)] = job[Writer(d)] /\ job'[Reader(d)] = job[Reader(d)]
      BY <1>1, <1>3, TaskFacts
    <2>3. job'[Dropper] = job[Dropper] /\ publisher' = publisher
      BY <1>1, <1>2, <1>3, TaskFacts
    <2>4. TaskInv
      BY DEF SubscribersInv
    <2> QED
      BY <1>1, <1>3, <1>4, <2>1, <2>2, <2>3, <2>4 DEF TaskInv
  <1>8. SubscriberCountExact'
    <2>1. CASE job[t] = "add"
      <3> DEFINE n == Cardinality(Registered) + Cardinality(Uncounted("sub"))
                        - Cardinality(Uncounted("add"))
      <3>1. Registered' = Registered /\ Uncounted("sub")' = Uncounted("sub")
        BY <1>2, <1>3 DEF Registered, Uncounted
      <3>2. Uncounted("add")' = Uncounted("add") \ {t} /\ t \in Uncounted("add")
        BY <1>3, <2>1 DEF Uncounted
      <3>3. Cardinality(Uncounted("add")') = Cardinality(Uncounted("add")) - 1
        BY <3>2, CountedFinite, FS_RemoveElement
      <3>4. n \in Int /\ Cardinality(Registered') + Cardinality(Uncounted("sub")')
                           - Cardinality(Uncounted("add")') = n + 1
        BY <3>1, <3>3, CountedFinite
      <3>5. publisher' # "dropped" => subscriber_count = n % Modulus
        BY <1>2 DEF SubscribersInv, SubscriberCountExact
      <3> HIDE DEF n
      <3>6. ((n % Modulus) + 1) % Modulus = (n + 1) % Modulus
        <4>1. n \in Int /\ 1 \in Int /\ Modulus \in Nat \ {0}
          BY <3>4, BoundsAssumption
        <4> QED
          BY <4>1, AddModulo, Zenon
      <3> QED
        BY <1>2, <2>1, <3>4, <3>5, <3>6 DEF SubscriberCountExact
    <2>2. CASE job[t] # "add"
      BY <1>2, <1>3, <2>2, CountFrame DEF SubscribersInv
    <2> QED
      BY <2>1, <2>2
  <1>9. \A d \in Conns : \A m \in owed'[d] : m \in owed[d] /\ Deserves(d, m)'
    <2>1. \A d \in Conns : Open(d) => Open(d)'
      BY <1>2 DEF Open, SubscribersInv, TypeOK
    <2> QED
      BY <1>2, <2>1, OwedFrame
  <1> QED
    BY <1>2, <1>5, <1>6, <1>7, <1>8, <1>9, RegistryStep

\* peer_disconnected, by a task that has no other disconnection to finish.
LEMMA RemoveEntryKeeps ==
  ASSUME SubscribersInv, NEW t \in Tasks, NEW k \in Keys, RemoveEntry(t, k), KeepOwed,
         job[t] \notin {"sub", "add"},
         UNCHANGED <<mailbox, subscriber_count, channel, got, writer>>,
         reader' \in [Conns -> {"none", "running", "ended"}], TaskInv'
  PROVE  SubscribersInv'
  <1> DEFINE s == IF k \in Registered THEN "sub" ELSE "done"
  <1>1. /\ subscribers' = [subscribers EXCEPT ![k] = NoConn]
        /\ subscriptions' = [subscriptions EXCEPT ![k] = NoTopics]
        /\ worker' = [worker EXCEPT !.todo = @ \ {k}]
    BY DEF RemoveEntry
  <1>2. job' \in [Tasks -> Stages] /\ job'[t] = s /\ \A u \in Tasks : u # t => job'[u] = job[u]
    <2>1. s \in Stages /\ Goto(t, s)
      BY DEF RemoveEntry, Stages
    <2> QED
      BY <2>1, GotoMoves DEF SubscribersInv
  <1> HIDE DEF s
  <1>3. /\ identity' = identity /\ owed' \in [Conns -> SUBSET Messages]
        /\ \A d \in Conns : \A m \in owed'[d] : m \in owed[d] /\ Deserves(d, m)'
    BY KeepOwedFacts DEF SubscribersInv
  <1>4. /\ worker' \in Workers /\ worker'.at = worker.at /\ worker'.msg = worker.msg
        /\ worker'.visited = worker.visited /\ worker'.todo = worker.todo \ {k}
    BY <1>1 DEF SubscribersInv, TypeOK, Workers
  <1>5. subscribers \in [Keys -> Conns \cup {NoConn}] /\ subscribers'[k] = NoConn
    BY <1>1 DEF SubscribersInv, TypeOK
  <1> USE DEF mailbox, fanout, senders
  <1>6. TypeOK'
    BY <1>1, <1>2, <1>3, <1>4, <1>5, NoTopicsType DEF SubscribersInv, TypeOK
  <1>7. EntryInv'
    BY <1>1, <1>3, <1>5 DEF SubscribersInv, EntryInv
  <1>8. SubscriberCountExact'
    <2>1. Uncounted("add")' = Uncounted("add")
      BY <1>2 DEF Uncounted, s
    <2>2. CASE k \in Registered
      <3>1. Registered' = Registered \ {k}
        BY <1>1, <1>5 DEF Registered
      <3>2. Uncounted("sub")' = Uncounted("sub") \cup {t} /\ t \notin Uncounted("sub")
        BY <1>2, <2>2 DEF Uncounted, s
      <3>3. Cardinality(Registered') = Cardinality(Registered) - 1
        BY <2>2, <3>1, CountedFinite, FS_RemoveElement
      <3>4. Cardinality(Uncounted("sub")') = Cardinality(Uncounted("sub")) + 1
        BY <3>2, CountedFinite, FS_AddElement
      <3>5. Cardinality(Registered') + Cardinality(Uncounted("sub")') - Cardinality(Uncounted("add")')
              = Cardinality(Registered) + Cardinality(Uncounted("sub")) - Cardinality(Uncounted("add"))
        BY <2>1, <3>3, <3>4, CountedFinite
      <3> QED
        BY <3>5 DEF SubscribersInv, SubscriberCountExact
    <2>3. CASE k \notin Registered
      <3>1. Registered' = Registered
        BY <1>1, <1>5, <2>3 DEF Registered
      <3>2. Uncounted("sub")' = Uncounted("sub")
        BY <1>2, <2>3 DEF Uncounted, s
      <3> QED
        BY <2>1, <3>1, <3>2 DEF SubscribersInv, SubscriberCountExact
    <2> QED
      BY <2>2, <2>3
  <1>9. \A j \in worker.todo : j \in worker'.todo \/ subscribers'[j] = NoConn
    BY <1>4, <1>5
  <1> QED
    BY <1>3, <1>4, <1>6, <1>7, <1>8, <1>9, RegistryStep

LEMMA DisconnectKeeps ==
  ASSUME SubscribersInv, NEW c \in Conns, WriterDisconnects(c) \/ ReaderDisconnects(c)
  PROVE  SubscribersInv'
  <1>1. identity[c] \in Keys
    BY IdentityType DEF SubscribersInv
  <1>2. {Writer(c), Reader(c)} \subseteq Tasks
    BY TaskFacts
  <1>3. ASSUME NEW t \in Tasks, RemoveEntry(t, identity[c])
        PROVE  \A u \in Tasks : u # t => job'[u] = job[u]
    BY <1>3 DEF RemoveEntry, Goto, SubscribersInv, TypeOK
  <1>4. publisher' = publisher
    BY DEF WriterDisconnects, ReaderDisconnects, mailbox, senders
  <1>5. CASE WriterDisconnects(c)
    <2>1. /\ job[Writer(c)] = "remove" /\ RemoveEntry(Writer(c), identity[c]) /\ KeepOwed
          /\ UNCHANGED <<mailbox, subscriber_count, channel, got, writer, reader>>
      BY <1>5 DEF WriterDisconnects
    <2>2. writer[c] = "failed"
      BY <2>1 DEF SubscribersInv, TaskInv
    <2>3. TaskInv'
      BY <1>2, <1>3, <1>4, <2>1, <2>2, TaskFacts DEF SubscribersInv, TaskInv
    <2>4. reader' \in [Conns -> {"none", "running", "ended"}]
      BY <2>1 DEF SubscribersInv, TypeOK
    <2> QED
      BY <1>1, <1>2, <2>1, <2>3, <2>4, RemoveEntryKeeps
  <1>6. CASE ReaderDisconnects(c)
    <2>1. /\ reader[c] = "running" /\ reader' = [reader EXCEPT ![c] = "ended"]
          /\ RemoveEntry(Reader(c), identity[c]) /\ KeepOwed
          /\ UNCHANGED <<mailbox, subscriber_count, channel, got, writer>>
      BY <1>6 DEF ReaderDisconnects
    <2>2. job[Reader(c)] = "idle" /\ reader' \in [Conns -> {"none", "running", "ended"}]
      BY <2>1 DEF SubscribersInv, TaskInv, TypeOK
    <2>3. reader'[c] = "ended" /\ \A d \in Conns : d # c => reader'[d] = reader[d]
      BY <2>1 DEF SubscribersInv, TypeOK
    <2>4. TaskInv'
      BY <1>2, <1>3, <1>4, <2>1, <2>3, TaskFacts DEF SubscribersInv, TaskInv
    <2> QED
      BY <1>1, <1>2, <2>1, <2>2, <2>4, RemoveEntryKeeps
  <1> QED
    BY <1>5, <1>6

LEMMA WriteMessageKeeps ==
  ASSUME SubscribersInv, NEW c \in Conns, WriteMessage(c)
  PROVE  SubscribersInv'
  <1>1. /\ channel[c] > 0 /\ channel' = [channel EXCEPT ![c] = @ - 1]
        /\ UNCHANGED <<mailbox, identity, worker, registry, tasks, got, owed>>
    BY DEF WriteMessage
  <1> USE DEF mailbox, fanout, senders, registry, tasks
  <1>2. TypeOK'
    <2>1. channel' \in [Conns -> Nat]
      BY <1>1 DEF SubscribersInv, TypeOK
    <2> QED
      BY <1>1, <2>1 DEF SubscribersInv, TypeOK
  <1>3. EntryInv' /\ TaskInv'
    BY <1>1 DEF SubscribersInv, EntryInv, TaskInv
  <1>4. SubscriberCountExact'
    BY <1>1, CountFrame DEF SubscribersInv
  <1>5. \A d \in Conns : \A m \in owed'[d] : m \in owed[d] /\ Deserves(d, m)'
    BY <1>1, OwedFrame DEF Open
  <1> QED
    BY <1>1, <1>2, <1>3, <1>4, <1>5, RegistryStep

LEMMA WriteFailsKeeps ==
  ASSUME SubscribersInv, NEW c \in Conns, WriteFails(c)
  PROVE  SubscribersInv'
  <1>1. /\ writer[c] = "running" /\ writer' = [writer EXCEPT ![c] = "failed"]
        /\ channel' = [channel EXCEPT ![c] = 0] /\ KeepOwed
        /\ UNCHANGED <<registry, reader, mailbox, worker, got>>
    BY DEF WriteFails
  <1>2. /\ job' \in [Tasks -> Stages] /\ job'[Writer(c)] = "remove"
        /\ \A u \in Tasks : u # Writer(c) => job'[u] = job[u]
    <2>1. Writer(c) \in Tasks /\ "remove" \in Stages /\ Goto(Writer(c), "remove")
      BY TaskFacts DEF Stages, WriteFails
    <2> QED
      BY <2>1, GotoMoves DEF SubscribersInv
  <1>3. /\ identity' = identity /\ owed' \in [Conns -> SUBSET Messages]
        /\ \A d \in Conns : \A m \in owed'[d] : m \in owed[d] /\ Deserves(d, m)'
    BY <1>1, KeepOwedFacts DEF SubscribersInv
  <1>4. job[Writer(c)] = "idle"
    BY <1>1 DEF SubscribersInv, TaskInv
  <1> USE DEF mailbox, fanout, senders, registry
  <1>5. TypeOK'
    BY <1>1, <1>2, <1>3 DEF SubscribersInv, TypeOK
  <1>6. EntryInv'
    BY <1>1, <1>3 DEF SubscribersInv, EntryInv
  <1>7. TaskInv'
    <2>1. writer'[c] = "failed" /\ \A d \in Conns : d # c => writer'[d] = writer[d]
      BY <1>1 DEF SubscribersInv, TypeOK
    <2>2. \A d \in Conns : /\ job'[Connector(d)] = job[Connector(d)]
                           /\ job'[Reader(d)] = job[Reader(d)]
                           /\ d # c => job'[Writer(d)] = job[Writer(d)]
      BY <1>2, TaskFacts
    <2>3. job'[Dropper] = job[Dropper]
      BY <1>2, TaskFacts
    <2> QED
      BY <1>1, <2>1, <2>2, <2>3 DEF SubscribersInv, TaskInv
  <1>8. SubscriberCountExact'
    BY <1>1, <1>2, <1>4, CountFrame DEF SubscribersInv
  <1> QED
    BY <1>1, <1>3, <1>5, <1>6, <1>7, <1>8, RegistryStep

LEMMA ReaderStopsKeeps ==
  ASSUME SubscribersInv, NEW c \in Conns, ReaderStops(c)
  PROVE  SubscribersInv'
  <1>1. /\ reader[c] = "running" /\ reader' = [reader EXCEPT ![c] = "ended"]
        /\ UNCHANGED <<mailbox, identity, worker, registry, job, writer, channel, got, owed>>
    BY DEF ReaderStops
  <1> USE DEF mailbox, fanout, senders, registry
  <1>2. TypeOK' /\ EntryInv'
    BY <1>1 DEF SubscribersInv, TypeOK, EntryInv
  <1>3. TaskInv'
    BY <1>1 DEF SubscribersInv, TypeOK, TaskInv
  <1>4. SubscriberCountExact'
    BY <1>1, CountFrame DEF SubscribersInv
  <1>5. \A d \in Conns : \A m \in owed'[d] : m \in owed[d] /\ Deserves(d, m)'
    BY <1>1, OwedFrame DEF Open
  <1> QED
    BY <1>1, <1>2, <1>3, <1>4, <1>5, RegistryStep

LEMMA SubscriptionKeeps ==
  ASSUME SubscribersInv, NEW c \in Conns, NEW p \in Topics, Subscribe(c, p) \/ Unsubscribe(c, p)
  PROVE  SubscribersInv'
  <1>0. PICK k \in Keys : k = identity[c]
    BY IdentityType DEF SubscribersInv
  <1>1. /\ \/ /\ subscriptions[k][p] < MaxRepeats
              /\ subscriptions' = [subscriptions EXCEPT ![k][p] = @ + 1] /\ owed' = owed
           \/ /\ subscriptions[k][p] > 0
              /\ subscriptions' = [subscriptions EXCEPT ![k][p] = @ - 1] /\ KeepOwed
        /\ UNCHANGED <<mailbox, identity, worker, subscribers, subscriber_count, tasks, channel, got>>
    BY <1>0 DEF Subscribe, Unsubscribe, KeepOwed
  <1>2. subscriptions \in [Keys -> [Topics -> 0..MaxRepeats]]
    BY DEF SubscribersInv, TypeOK
  <1> USE DEF mailbox, fanout, senders, tasks
  <1>3. subscriptions' \in [Keys -> [Topics -> 0..MaxRepeats]]
    <2>1. subscriptions[k][p] \in 0..MaxRepeats
      BY <1>2
    <2>2. PICK n \in 0..MaxRepeats : subscriptions' = [subscriptions EXCEPT ![k][p] = n]
      BY <1>1, <2>1, BoundsAssumption
    <2> QED
      BY <1>2, <2>2
  <1>4. /\ owed' \in [Conns -> SUBSET Messages]
        /\ \A d \in Conns : \A m \in owed'[d] : m \in owed[d] /\ Deserves(d, m)'
    <2>1. CASE KeepOwed
      BY <2>1, KeepOwedFacts DEF SubscribersInv
    <2>2. CASE subscriptions' = [subscriptions EXCEPT ![k][p] = @ + 1] /\ owed' = owed
      <3>1. \A j \in Keys : \A q \in Topics : subscriptions[j][q] > 0 => subscriptions'[j][q] > 0
        BY <1>2, <2>2
      <3>2. owed \in [Conns -> SUBSET Messages]
        BY DEF SubscribersInv, TypeOK
      <3>3. ASSUME NEW d \in Conns, NEW m \in owed[d] PROVE Deserves(d, m)'
        <4>1. m \in Messages /\ Deserves(d, m) /\ identity[d] \in Keys
          BY <3>2, IdentityType DEF SubscribersInv, OwedInv
        <4>2. Matches[m] \subseteq Topics
          BY <4>1, MatchesAssumption DEF Messages
        <4>3. Subscribed(identity[d], m)'
          BY <1>1, <3>1, <4>1, <4>2 DEF Deserves, Subscribed
        <4> QED
          BY <1>1, <4>1, <4>3 DEF Deserves, Open
      <3> QED
        BY <2>2, <3>2, <3>3
    <2> QED
      BY <1>1, <2>1, <2>2
  <1>5. TypeOK'
    BY <1>1, <1>3, <1>4 DEF SubscribersInv, TypeOK
  <1>6. EntryInv' /\ TaskInv'
    BY <1>1 DEF SubscribersInv, EntryInv, TaskInv
  <1>7. SubscriberCountExact'
    BY <1>1, CountFrame DEF SubscribersInv
  <1> QED
    BY <1>1, <1>4, <1>5, <1>6, <1>7, RegistryStep

LEMMA UncountKeeps ==
  ASSUME SubscribersInv, NEW t \in Tasks, UncountSubscriber(t)
  PROVE  SubscribersInv'
  <1>1. /\ job[t] = "sub" /\ subscriber_count' = (subscriber_count - 1) % Modulus
        /\ UNCHANGED <<mailbox, identity, worker, subscribers, subscriptions, writer, reader,
                       channel, got, owed>>
    BY DEF UncountSubscriber
  <1>2. job' \in [Tasks -> Stages] /\ job'[t] = "done" /\ \A u \in Tasks : u # t => job'[u] = job[u]
    <2>1. "done" \in Stages /\ Goto(t, "done")
      BY DEF UncountSubscriber, Stages
    <2> QED
      BY <2>1, GotoMoves DEF SubscribersInv
  <1> USE DEF mailbox, fanout, senders
  <1>3. TypeOK' /\ EntryInv'
    <2>1. subscriber_count' \in 0..Modulus - 1
      BY <1>1, BoundsAssumption DEF SubscribersInv, TypeOK
    <2> QED
      BY <1>1, <1>2, <2>1 DEF SubscribersInv, TypeOK, EntryInv
  <1>4. TaskInv'
    BY <1>1, <1>2, TaskFacts DEF SubscribersInv, TaskInv
  <1>5. SubscriberCountExact'
    <2> DEFINE n == Cardinality(Registered) + Cardinality(Uncounted("sub"))
                      - Cardinality(Uncounted("add"))
    <2>1. Registered' = Registered /\ Uncounted("add")' = Uncounted("add")
      BY <1>1, <1>2 DEF Registered, Uncounted
    <2>2. Uncounted("sub")' = Uncounted("sub") \ {t} /\ t \in Uncounted("sub")
      BY <1>1, <1>2 DEF Uncounted
    <2>3. Cardinality(Uncounted("sub")') = Cardinality(Uncounted("sub")) - 1
      BY <2>2, CountedFinite, FS_RemoveElement
    <2>4. n \in Int /\ Cardinality(Registered') + Cardinality(Uncounted("sub")')
                         - Cardinality(Uncounted("add")') = n + (-1)
      BY <2>1, <2>3, CountedFinite
    <2>5. publisher' # "dropped" => subscriber_count = n % Modulus
      BY <1>1 DEF SubscribersInv, SubscriberCountExact
    <2> HIDE DEF n
    <2>6. ((n % Modulus) + (-1)) % Modulus = (n + (-1)) % Modulus
      <3>1. n \in Int /\ (-1) \in Int /\ Modulus \in Nat \ {0}
        BY <2>4, BoundsAssumption
      <3> QED
        BY <3>1, AddModulo, Zenon
    <2>7. subscriber_count' = (subscriber_count + (-1)) % Modulus
      <3>1. subscriber_count - 1 = subscriber_count + (-1)
        BY BoundsAssumption DEF SubscribersInv, TypeOK
      <3> QED
        BY <1>1, <3>1
    <2> QED
      BY <2>4, <2>5, <2>6, <2>7 DEF SubscriberCountExact
  <1>6. \A d \in Conns : \A m \in owed'[d] : m \in owed[d] /\ Deserves(d, m)'
    BY <1>1, OwedFrame DEF Open
  <1> QED
    BY <1>1, <1>3, <1>4, <1>5, <1>6, RegistryStep

LEMMA DropSocketKeeps ==
  ASSUME SubscribersInv, DropSocket
  PROVE  SubscribersInv'
  <1>1. /\ publisher = "idle" /\ publisher' = "dropped" /\ KeepOwed
        /\ subscribers' = [k \in Keys |-> NoConn] /\ subscriptions' = [k \in Keys |-> NoTopics]
        /\ worker' = [worker EXCEPT !.todo = {}]
        /\ UNCHANGED <<fanout, published, subscriber_count, channel, got, writer, reader>>
    BY DEF DropSocket
  <1>2. /\ job' \in [Tasks -> Stages] /\ \A u \in Tasks : u # Dropper => job'[u] = job[u]
    <2>1. Dropper \in Tasks /\ "zero" \in Stages /\ Goto(Dropper, "zero")
      BY TaskFacts DEF DropSocket, Stages
    <2> QED
      BY <2>1, GotoMoves DEF SubscribersInv
  <1>3. /\ identity' = identity /\ owed' \in [Conns -> SUBSET Messages]
        /\ \A d \in Conns : \A m \in owed'[d] : m \in owed[d] /\ Deserves(d, m)'
    BY <1>1, KeepOwedFacts DEF SubscribersInv
  <1>4. /\ worker' \in Workers /\ worker'.at = worker.at /\ worker'.msg = worker.msg
        /\ worker'.visited = worker.visited /\ worker.todo \subseteq Keys
    BY <1>1 DEF SubscribersInv, TypeOK, Workers
  <1> USE DEF fanout
  <1>5. TypeOK'
    <2>1. subscriptions' \in [Keys -> [Topics -> 0..MaxRepeats]]
      BY <1>1, NoTopicsType
    <2> QED
      BY <1>1, <1>2, <1>3, <1>4, <2>1 DEF SubscribersInv, TypeOK
  <1>6. EntryInv' /\ SubscriberCountExact'
    BY <1>1 DEF EntryInv, SubscriberCountExact
  <1>7. TaskInv'
    BY <1>1, <1>2, TaskFacts DEF SubscribersInv, TaskInv
  <1>8. \A k \in worker.todo : subscribers'[k] = NoConn
    BY <1>1, <1>4
  <1> QED
    BY <1>1, <1>3, <1>4, <1>5, <1>6, <1>7, <1>8, RegistryStep

LEMMA ZeroCountKeeps ==
  ASSUME SubscribersInv, ZeroCount
  PROVE  SubscribersInv'
  <1>1. /\ job[Dropper] = "zero" /\ subscriber_count' = 0
        /\ UNCHANGED <<mailbox, identity, worker, subscribers, subscriptions, writer, reader,
                       channel, got, owed>>
    BY DEF ZeroCount
  <1>2. job' \in [Tasks -> Stages] /\ \A u \in Tasks : u # Dropper => job'[u] = job[u]
    <2>1. Dropper \in Tasks /\ "done" \in Stages /\ Goto(Dropper, "done")
      BY TaskFacts DEF ZeroCount, Stages
    <2> QED
      BY <2>1, GotoMoves DEF SubscribersInv
  <1>3. publisher = "dropped"
    BY <1>1 DEF SubscribersInv, TaskInv
  <1> USE DEF mailbox, fanout, senders
  <1>4. TypeOK' /\ EntryInv'
    BY <1>1, <1>2, BoundsAssumption DEF SubscribersInv, TypeOK, EntryInv
  <1>5. TaskInv' /\ SubscriberCountExact'
    BY <1>1, <1>2, <1>3, TaskFacts DEF SubscribersInv, TaskInv, SubscriberCountExact
  <1>6. \A d \in Conns : \A m \in owed'[d] : m \in owed[d] /\ Deserves(d, m)'
    BY <1>1, OwedFrame DEF Open
  <1> QED
    BY <1>1, <1>4, <1>5, <1>6, RegistryStep

-----------------------------------------------------------------------------
(* send and the worker keep the invariant *)

LEMMA QueuedAreIntegers ==
  ASSUME queue \in Seq(Messages)
  PROVE  Len(queue) \in Nat /\ \A i \in 1..Len(queue) : queue[i] \in Int
  <1>1. Len(queue) \in Nat /\ \A i \in 1..Len(queue) : queue[i] \in Messages
    OBVIOUS
  <1>2. \A m \in Messages : m \in Int
    BY DEF Messages
  <1> QED
    BY <1>1, <1>2

LEMMA SameRegistry ==
  ASSUME SubscribersInv, UNCHANGED <<registry, tasks, identity>>,
         publisher' # "dropped" => publisher # "dropped"
  PROVE  /\ EntryInv' /\ TaskInv' /\ SubscriberCountExact'
         /\ \A c \in Conns : \A m : Deserves(c, m) <=> Deserves(c, m)'
  <1> USE DEF registry, tasks
  <1>1. EntryInv' /\ TaskInv'
    BY DEF SubscribersInv, EntryInv, TaskInv
  <1>2. SubscriberCountExact'
    BY CountFrame DEF SubscribersInv
  <1>3. \A c \in Conns : \A m : Deserves(c, m) <=> Deserves(c, m)'
    BY DEF Deserves, Subscribed, Open
  <1> QED
    BY <1>1, <1>2, <1>3

\* A step that neither queues, takes nor hands on a message.
LEMMA QuietStep ==
  ASSUME SubscribersInv, TypeOK', PushInv',
         UNCHANGED <<registry, tasks, identity, queue, got, owed>>,
         publisher' # "dropped" => publisher # "dropped", Newest' >= Newest,
         worker' = worker \/ worker'.at # "fanout"
  PROVE  SubscribersInv'
  <1>1. /\ EntryInv' /\ TaskInv' /\ SubscriberCountExact'
        /\ \A c \in Conns : \A m : Deserves(c, m) <=> Deserves(c, m)'
    BY SameRegistry
  <1>2. OwedInv'
    BY <1>1 DEF SubscribersInv, OwedInv
  <1>3. ServedInv'
    BY DEF SubscribersInv, ServedInv
  <1>4. OrderInv'
    <2>1. Newest \in Int /\ Newest' \in Int /\ queue \in Seq(Messages) /\ got \in [Conns -> 0..MaxMessages]
      BY DEF SubscribersInv, TypeOK, Newest
    <2>2. \A i \in 1..Len(queue) : queue[i] \in Int
      BY <2>1, QueuedAreIntegers
    <2>3. worker.at = "fanout" => worker.msg \in Int
      BY DEF SubscribersInv, OrderInv, Messages
    <2> QED
      BY <2>1, <2>2, <2>3 DEF SubscribersInv, OrderInv
  <1> QED
    BY <1>1, <1>2, <1>3, <1>4 DEF SubscribersInv

LEMMA PushKeeps ==
  ASSUME SubscribersInv, Push, Len(queue) # Capacity
  PROVE  SubscribersInv'
  <1>1. /\ publisher = "push" /\ publisher' = "load" /\ queue' = Append(queue, published)
        /\ owed' = [c \in Conns |-> owed[c] \cup {m \in {published} : Deserves(c, m)}]
        /\ UNCHANGED <<wake_pending, stores, wakes, published, worker, registry, tasks, channel,
                       identity, got>>
    BY DEF Push
  <1>2. TypeOK' /\ PushInv'
    BY SenderTypes DEF SubscribersInv, SenderStep
  <1>3. /\ EntryInv' /\ TaskInv' /\ SubscriberCountExact'
        /\ \A c \in Conns : \A m : Deserves(c, m) <=> Deserves(c, m)'
    BY <1>1, SameRegistry
  <1>4. /\ published \in Messages /\ queue \in Seq(Messages) /\ got \in [Conns -> 0..MaxMessages]
        /\ Newest = published /\ Newest' = published + 1
    BY <1>1 DEF SubscribersInv, PushInv, TypeOK, Newest
  <1>5. OwedInv'
    BY <1>1, <1>3 DEF SubscribersInv, OwedInv
  <1>6. ServedInv'
    <2>1. worker.at = "fanout" => worker.msg # published
      BY <1>4 DEF SubscribersInv, OrderInv, Messages
    <2> QED
      BY <1>1, <2>1 DEF SubscribersInv, ServedInv
  <1>7. OrderInv'
    <2>1. /\ Len(queue') = Len(queue) + 1 /\ queue'[Len(queue) + 1] = published
          /\ \A i \in 1..Len(queue) : queue'[i] = queue[i] /\ queue[i] \in Int
          /\ Len(queue) \in Nat
      <3>1. Len(queue) \in Nat /\ \A i \in 1..Len(queue) : queue[i] \in Int
        BY <1>4, QueuedAreIntegers
      <3>2. /\ Len(queue') = Len(queue) + 1 /\ queue'[Len(queue) + 1] = published
            /\ \A i \in 1..Len(queue) : queue'[i] = queue[i]
        BY <1>1, <1>4
      <3> QED
        BY <3>1, <3>2
    <2>2. OrderInv
      BY DEF SubscribersInv
    <2>3. \A i \in 1..Len(queue') : queue'[i] < Newest'
      BY <1>4, <2>1, <2>2 DEF OrderInv, Messages
    <2>4. \A i \in 1..Len(queue'), j \in 1..Len(queue') : i < j => queue'[i] < queue'[j]
      <3>1. /\ \A i \in 1..Len(queue) : queue[i] < published
            /\ \A i \in 1..Len(queue), j \in 1..Len(queue) : i < j => queue[i] < queue[j]
        BY <1>4, <2>2 DEF OrderInv
      <3> SUFFICES ASSUME NEW i \in 1..Len(queue'), NEW j \in 1..Len(queue'), i < j
                   PROVE  queue'[i] < queue'[j]
        OBVIOUS
      <3>2. i \in 1..Len(queue) /\ queue'[i] = queue[i]
        BY <2>1
      <3>3. CASE j \in 1..Len(queue)
        BY <2>1, <3>1, <3>2, <3>3
      <3>4. CASE j = Len(queue) + 1
        BY <2>1, <3>1, <3>2, <3>4
      <3> QED
        BY <2>1, <3>3, <3>4
    <2>5. ASSUME NEW c \in Conns
          PROVE  got'[c] < Newest' /\ \A i \in 1..Len(queue') : got'[c] < queue'[i]
      <3>1. got[c] \in Int /\ got'[c] = got[c] /\ got[c] < published /\ published \in Int
        BY <1>1, <1>4, <2>2 DEF OrderInv, Messages
      <3> QED
        BY <1>4, <2>1, <2>2, <3>1 DEF OrderInv
    <2>6. ASSUME worker.at = "fanout"
          PROVE  worker.msg < Newest' /\ \A i \in 1..Len(queue') : worker.msg < queue'[i]
      <3>1. worker.msg \in Int /\ worker.msg < published /\ published \in Int
        BY <1>4, <2>2, <2>6 DEF OrderInv, Messages
      <3> QED
        BY <1>4, <2>1, <2>2, <2>6, <3>1 DEF OrderInv
    <2> QED
      BY <1>1, <2>2, <2>3, <2>4, <2>5, <2>6 DEF OrderInv
  <1> QED
    BY <1>2, <1>3, <1>5, <1>6, <1>7 DEF SubscribersInv

LEMMA SenderKeeps ==
  ASSUME SubscribersInv, Send \/ SenderStep
  PROVE  SubscribersInv'
  <1>1. TypeOK' /\ PushInv'
    BY SenderTypes DEF SubscribersInv
  <1>2. CASE Push /\ Len(queue) # Capacity
    BY <1>2, PushKeeps
  <1>3. CASE Push /\ Len(queue) = Capacity
    <2>1. Newest' >= Newest
      BY <1>3 DEF Push, Newest, SubscribersInv, TypeOK
    <2> QED
      BY <1>1, <1>3, <2>1, QuietStep DEF Push
  <1>4. CASE Send
    <2>1. Newest' >= Newest
      BY <1>4 DEF Send, Newest, SubscribersInv, TypeOK
    <2> QED
      BY <1>1, <1>4, <2>1, QuietStep DEF Send, fanout
  <1>5. CASE LoadPending \/ SwapPending \/ Wake
    <2>1. Newest' >= Newest
      BY <1>5 DEF LoadPending, SwapPending, Wake, Newest, SubscribersInv, TypeOK
    <2> QED
      BY <1>1, <1>5, <2>1, QuietStep DEF LoadPending, SwapPending, Wake, fanout
  <1> QED
    BY <1>2, <1>3, <1>4, <1>5 DEF SenderStep

LEMMA PopKeeps ==
  ASSUME SubscribersInv, PopMessage, queue # <<>>
  PROVE  SubscribersInv'
  <1>1. /\ worker.at = "drain" /\ queue' = Tail(queue)
        /\ worker' = [at |-> "fanout", msg |-> Head(queue), todo |-> Registered, visited |-> {}]
        /\ UNCHANGED <<others, channel, got, owed>>
    BY DEF PopMessage
  <1> USE DEF others, senders
  <1>2. TypeOK' /\ PushInv'
    BY WorkerTypes DEF SubscribersInv, WorkerStep
  <1>3. /\ EntryInv' /\ TaskInv' /\ SubscriberCountExact'
        /\ \A c \in Conns : \A m : Deserves(c, m) <=> Deserves(c, m)'
    BY <1>1, SameRegistry
  <1>4. OwedInv'
    BY <1>1, <1>3 DEF SubscribersInv, OwedInv
  <1>5. ServedInv'
    <2> SUFFICES ASSUME NEW c \in Conns, worker'.msg \in owed'[c] PROVE identity[c] \in Registered
      BY <1>1 DEF ServedInv
    <2>1. subscribers[identity[c]] = c /\ identity[c] \in Keys
      BY <1>1, IdentityType DEF SubscribersInv, OwedInv, Deserves
    <2> QED
      BY <2>1, ConnsAssumption DEF Registered
  <1>6. OrderInv'
    <2>1. queue \in Seq(Messages) /\ got \in [Conns -> 0..MaxMessages] /\ Newest' = Newest
      BY <1>1 DEF SubscribersInv, TypeOK, Newest
    <2>2. /\ Len(queue) \in Nat /\ Len(queue) >= 1 /\ Len(queue') = Len(queue) - 1
          /\ \A i \in 1..Len(queue') : queue'[i] = queue[i + 1]
          /\ Head(queue) = queue[1] /\ queue[1] \in Messages
      BY <1>1, <2>1
    <2>3. OrderInv
      BY DEF SubscribersInv
    <2>4. /\ \A i \in 1..Len(queue') : queue'[i] < Newest' /\ queue[1] < queue'[i]
          /\ \A i \in 1..Len(queue'), j \in 1..Len(queue') : i < j => queue'[i] < queue'[j]
          /\ \A c \in Conns : \A i \in 1..Len(queue') : got[c] < queue'[i]
      <3>1. \A i \in 1..Len(queue') : i + 1 \in 1..Len(queue) /\ i + 1 > 1
        BY <2>2
      <3>2. 1 \in 1..Len(queue)
        BY <2>2
      <3>3. \A i \in 1..Len(queue') : queue'[i] < Newest' /\ queue[1] < queue'[i]
        BY <2>1, <2>2, <2>3, <3>1, <3>2 DEF OrderInv
      <3>4. \A c \in Conns : \A i \in 1..Len(queue') : got[c] < queue'[i]
        BY <2>2, <2>3, <3>1 DEF OrderInv
      <3>5. ASSUME NEW i \in 1..Len(queue'), NEW j \in 1..Len(queue'), i < j
            PROVE  queue'[i] < queue'[j]
        <4>1. i + 1 < j + 1
          BY <2>2, <3>5
        <4> QED
          BY <2>2, <2>3, <3>1, <4>1 DEF OrderInv
      <3> QED
        BY <3>3, <3>4, <3>5
    <2>5. queue[1] < Newest /\ \A c \in Conns : got[c] < queue[1] /\ got[c] < Newest
      BY <2>2, <2>3 DEF OrderInv
    <2> QED
      BY <1>1, <2>1, <2>2, <2>4, <2>5 DEF OrderInv
  <1> QED
    BY <1>2, <1>3, <1>4, <1>5, <1>6 DEF SubscribersInv

\* The iteration meets the entry of k: its connection has not got the message yet.
LEMMA FanoutFacts ==
  ASSUME SubscribersInv, NEW k \in Keys, FanoutTo(k)
  PROVE  /\ worker.at = "fanout" /\ subscribers[k] \in Conns /\ identity[subscribers[k]] = k
         /\ got[subscribers[k]] < worker.msg
         /\ worker.msg \in Int /\ got \in [Conns -> 0..MaxMessages] /\ channel \in [Conns -> Nat]
         /\ \/ /\ ~(Subscribed(k, worker.msg) /\ Open(subscribers[k]))
               /\ channel' = channel /\ got' = got
            \/ /\ channel' = [channel EXCEPT ![subscribers[k]] = @ + 1]
               /\ got' = [got EXCEPT ![subscribers[k]] = worker.msg]
  <1>1. worker.at = "fanout" /\ k \in Registered /\ k \notin worker.visited
    BY DEF FanoutTo
  <1>2. subscribers[k] \in Conns /\ identity[subscribers[k]] = k
    BY <1>1 DEF Registered, SubscribersInv, TypeOK, EntryInv
  <1>3. got[subscribers[k]] < worker.msg /\ worker.msg \in Int
    BY <1>1, <1>2 DEF SubscribersInv, OrderInv, Messages
  <1>4. got \in [Conns -> 0..MaxMessages] /\ channel \in [Conns -> Nat]
    BY DEF SubscribersInv, TypeOK
  <1>5. \/ /\ ~(Subscribed(k, worker.msg) /\ Open(subscribers[k]))
           /\ channel' = channel /\ got' = got
        \/ /\ channel' = [channel EXCEPT ![subscribers[k]] = @ + 1]
           /\ got' = [got EXCEPT ![subscribers[k]] = worker.msg]
    BY DEF FanoutTo, SendToSubscriber
  <1> QED
    BY <1>1, <1>2, <1>3, <1>4, <1>5

LEMMA FanoutKeeps ==
  ASSUME SubscribersInv, NEW k \in Keys, FanoutTo(k)
  PROVE  SubscribersInv'
  <1>0. PICK c \in Conns : c = subscribers[k]
    BY FanoutFacts
  <1>1. /\ worker' = [worker EXCEPT !.todo = @ \ {k}, !.visited = @ \cup {k}]
        /\ UNCHANGED <<fanout, others, owed>>
    BY DEF FanoutTo
  <1> USE DEF others, senders, fanout
  <1>2. TypeOK' /\ PushInv'
    BY WorkerTypes DEF SubscribersInv, WorkerStep
  <1>3. /\ EntryInv' /\ TaskInv' /\ SubscriberCountExact'
        /\ \A d \in Conns : \A m : Deserves(d, m) <=> Deserves(d, m)'
    BY <1>1, SameRegistry
  <1>4. OwedInv'
    BY <1>1, <1>3 DEF SubscribersInv, OwedInv
  <1>5. /\ worker.at = "fanout" /\ worker'.at = worker.at /\ worker'.msg = worker.msg
        /\ worker'.todo = worker.todo \ {k} /\ worker'.visited = worker.visited \cup {k}
    BY <1>1, FanoutFacts DEF SubscribersInv, TypeOK, Workers
  <1>6. /\ \A d \in Conns : d # c => got'[d] = got[d]
        /\ got'[c] = got[c] \/ got'[c] = worker.msg
        /\ Subscribed(k, worker.msg) /\ Open(c) => got'[c] = worker.msg
    BY <1>0, FanoutFacts
  <1>7. identity[c] = k /\ got[c] < worker.msg /\ worker.msg \in Int /\ got[c] \in Int
    BY <1>0, FanoutFacts
  <1>8. ServedInv'
    <2> SUFFICES ASSUME NEW d \in Conns, worker.msg \in owed[d]
                 PROVE  identity[d] \in worker.todo \ {k} \/ got'[d] = worker.msg
      BY <1>1, <1>5 DEF ServedInv
    <2>1. Deserves(d, worker.msg) /\ (identity[d] \in worker.todo \/ got[d] = worker.msg)
      BY <1>5 DEF SubscribersInv, OwedInv, ServedInv
    <2>2. CASE d = c
      BY <1>6, <1>7, <2>1, <2>2 DEF Deserves
    <2>3. CASE d # c
      BY <1>0, <1>6, <2>1, <2>3 DEF Deserves
    <2> QED
      BY <2>2, <2>3
  <1>9. OrderInv'
    <2>1. OrderInv /\ Newest' = Newest /\ queue' = queue /\ identity' = identity
      BY <1>1 DEF SubscribersInv, Newest
    <2>2. \A d \in Conns : got'[d] < Newest' /\ \A i \in 1..Len(queue') : got'[d] < queue'[i]
      BY <1>5, <1>6, <2>1 DEF OrderInv
    <2>3. \A d \in Conns :
            got'[d] < worker.msg \/ (got'[d] = worker.msg /\ identity[d] \in worker'.visited)
      BY <1>5, <1>6, <1>7, <2>1 DEF OrderInv
    <2> QED
      BY <1>5, <2>1, <2>2, <2>3 DEF OrderInv
  <1> QED
    BY <1>2, <1>3, <1>4, <1>8, <1>9 DEF SubscribersInv

LEMMA EndFanoutKeeps ==
  ASSUME SubscribersInv, EndFanout
  PROVE  SubscribersInv'
  <1>1. /\ owed' = [c \in Conns |-> owed[c] \ {worker.msg}]
        /\ worker' = [Waiting EXCEPT !.at = "drain"]
        /\ UNCHANGED <<fanout, others, channel, got>>
    BY DEF EndFanout
  <1> USE DEF others, senders, fanout
  <1>2. TypeOK' /\ PushInv' /\ worker'.at # "fanout"
    BY <1>1, WorkerTypes DEF SubscribersInv, WorkerStep, Waiting
  <1>3. /\ EntryInv' /\ TaskInv' /\ SubscriberCountExact'
        /\ \A d \in Conns : \A m : Deserves(d, m) <=> Deserves(d, m)'
    BY <1>1, SameRegistry
  <1>4. OwedInv' /\ ServedInv'
    BY <1>1, <1>2, <1>3 DEF SubscribersInv, OwedInv, ServedInv
  <1>5. OrderInv'
    BY <1>1, <1>2 DEF SubscribersInv, OrderInv, Newest
  <1> QED
    BY <1>2, <1>3, <1>4, <1>5 DEF SubscribersInv

LEMMA WorkerKeeps ==
  ASSUME SubscribersInv, WorkerStep \/ DrainStore
  PROVE  SubscribersInv'
  <1>1. TypeOK' /\ PushInv'
    BY WorkerTypes DEF SubscribersInv
  <1>2. CASE PopMessage /\ queue # <<>>
    BY <1>2, PopKeeps
  <1>3. CASE \E k \in Keys : FanoutTo(k)
    BY <1>3, FanoutKeeps
  <1>4. CASE EndFanout
    BY <1>4, EndFanoutKeeps
  <1>5. CASE \/ AwaitWake \/ WorkerEnds \/ (PopMessage /\ queue = <<>>)
             \/ ReleasePending \/ CheckEmpty \/ ReclaimPending \/ DrainStore
    <2> USE DEF others, senders, fanout
    <2>1. UNCHANGED <<registry, tasks, identity, queue, got, owed, publisher, published>>
      BY <1>5 DEF AwaitWake, WorkerEnds, PopMessage, ReleasePending, CheckEmpty,
                  ReclaimPending, DrainStore
    <2>2. Newest' >= Newest
      BY <2>1 DEF Newest, SubscribersInv, TypeOK
    <2>3. worker' = worker \/ worker'.at # "fanout"
      BY <1>5 DEF AwaitWake, WorkerEnds, PopMessage, ReleasePending, CheckEmpty,
                  ReclaimPending, DrainStore, SubscribersInv, TypeOK, Workers
    <2> QED
      BY <1>1, <2>1, <2>2, <2>3, QuietStep
  <1> QED
    BY <1>2, <1>3, <1>4, <1>5 DEF WorkerStep

-----------------------------------------------------------------------------
LEMMA NextSubscribers == SubscribersInv /\ [Next]_vars => SubscribersInv'
  <1> SUFFICES ASSUME SubscribersInv, [Next]_vars PROVE SubscribersInv'
    OBVIOUS
  <1>1. CASE Send \/ SenderStep
    BY <1>1, SenderKeeps
  <1>2. CASE WorkerStep \/ DrainStore
    BY <1>2, WorkerKeeps
  <1>3. ASSUME NEW c \in Conns,
               \/ Upsert(c) \/ SpawnTasks(c) \/ WriteMessage(c) \/ WriteFails(c)
               \/ WriterDisconnects(c) \/ ReaderDisconnects(c) \/ ReaderStops(c)
               \/ \E t \in Topics : Subscribe(c, t) \/ Unsubscribe(c, t)
        PROVE  SubscribersInv'
    BY <1>3, UpsertKeeps, SpawnTasksKeeps, WriteMessageKeeps, WriteFailsKeeps, DisconnectKeeps,
       ReaderStopsKeeps, SubscriptionKeeps
  <1>4. CASE \E t \in Tasks : UncountSubscriber(t)
    BY <1>4, UncountKeeps
  <1>5. CASE DropSocket \/ ZeroCount
    BY <1>5, DropSocketKeeps, ZeroCountKeeps
  <1>6. CASE UNCHANGED vars
    <2> USE DEF vars, fanout, senders, registry, tasks
    <2>1. TypeOK' /\ PushInv'
      BY <1>6 DEF SubscribersInv, TypeOK, PushInv
    <2>2. Newest' >= Newest
      BY <1>6 DEF Newest, SubscribersInv, TypeOK
    <2> QED
      BY <1>6, <2>1, <2>2, QuietStep
  <1> QED
    BY <1>1, <1>2, <1>3, <1>4, <1>5, <1>6 DEF Next

LEMMA SubscribersInvHolds == Spec => []SubscribersInv
  BY InitSubscribers, NextSubscribers, PTL DEF Spec

\* Every state the PUB socket reaches is well typed.
THEOREM PubTypeCorrect == Spec => []TypeOK
  <1>1. SubscribersInv => TypeOK
    BY DEF SubscribersInv
  <1> QED
    BY <1>1, SubscribersInvHolds, PTL

\* For any number of connections and identities: subscriber_count, which fetch_add and
\* fetch_sub change after the map, differs from the map by exactly the changes under way.
THEOREM CountTracksMap == Spec => []SubscriberCountExact
  <1>1. SubscribersInv => SubscriberCountExact
    BY DEF SubscribersInv
  <1> QED
    BY <1>1, SubscribersInvHolds, PTL

\* For any number of subscribers and messages: a connection subscribed to a message from
\* the push to the end of its fanout has got it, whoever connects or leaves meanwhile.
THEOREM SteadySubscribersServed == Spec => []SteadySubscriberServed
  <1>1. SubscribersInv => SteadySubscriberServed
    BY DEF SubscribersInv, ServedInv, SteadySubscriberServed
  <1> QED
    BY <1>1, SubscribersInvHolds, PTL

\* For any number of subscribers and messages: no connection is handed a message twice, or
\* one that is older than what it has.
THEOREM FanoutInOrder == Spec => InOrder
  <1>1. ASSUME SubscribersInv, [Next]_vars
        PROVE  [\A c \in Conns : channel'[c] > channel[c] => got'[c] > got[c]]_vars
    <2>1. CASE \E k \in Keys : FanoutTo(k)
      <3>1. PICK k \in Keys : FanoutTo(k)
        BY <2>1
      <3>2. PICK d \in Conns : d = subscribers[k] /\ got[d] < worker.msg
        BY <1>1, <3>1, FanoutFacts
      <3>3. /\ worker.msg \in Int /\ got \in [Conns -> 0..MaxMessages] /\ channel \in [Conns -> Nat]
            /\ \/ channel' = channel
               \/ /\ channel' = [channel EXCEPT ![d] = @ + 1]
                  /\ got' = [got EXCEPT ![d] = worker.msg]
        BY <1>1, <3>1, <3>2, FanoutFacts
      <3> QED
        BY <3>2, <3>3
    <2>2. ASSUME channel' = channel \/ \E c \in Conns : channel' = [channel EXCEPT ![c] = @ - 1]
                                                        \/ channel' = [channel EXCEPT ![c] = 0]
          PROVE  \A c \in Conns : ~(channel'[c] > channel[c])
      <3>1. channel \in [Conns -> Nat]
        BY <1>1 DEF SubscribersInv, TypeOK
      <3> QED
        BY <2>2, <3>1
    <2>3. CASE Next /\ ~\E k \in Keys : FanoutTo(k)
      <3>1. CASE Send \/ SenderStep
        BY <2>2, <3>1 DEF Send, SenderStep, Push, LoadPending, SwapPending, Wake
      <3>2. CASE WorkerStep \/ DrainStore
        BY <2>2, <2>3, <3>2 DEF WorkerStep, AwaitWake, WorkerEnds, PopMessage, EndFanout,
                                ReleasePending, CheckEmpty, ReclaimPending, DrainStore
      <3>3. ASSUME NEW c \in Conns, Upsert(c) \/ SpawnTasks(c) \/ WriterDisconnects(c)
                                    \/ ReaderDisconnects(c) \/ ReaderStops(c)
            PROVE  channel' = channel
        BY <3>3 DEF Upsert, SpawnTasks, WriterDisconnects, ReaderDisconnects, ReaderStops
      <3>4. ASSUME NEW c \in Conns, WriteMessage(c) \/ WriteFails(c)
            PROVE  channel' = [channel EXCEPT ![c] = @ - 1] \/ channel' = [channel EXCEPT ![c] = 0]
        BY <3>4 DEF WriteMessage, WriteFails
      <3>5. ASSUME NEW c \in Conns, NEW t \in Topics, Subscribe(c, t) \/ Unsubscribe(c, t)
            PROVE  channel' = channel
        BY <3>5 DEF Subscribe, Unsubscribe
      <3>6. CASE (\E t \in Tasks : UncountSubscriber(t)) \/ DropSocket \/ ZeroCount
        BY <2>2, <3>6 DEF UncountSubscriber, DropSocket, ZeroCount
      <3> QED
        BY <2>2, <2>3, <3>1, <3>2, <3>3, <3>4, <3>5, <3>6 DEF Next
    <2> QED
      BY <1>1, <2>1, <2>3
  <1> QED
    BY <1>1, SubscribersInvHolds, PTL DEF Spec, InOrder
=============================================================================
