----------------------------- MODULE PubSocket -----------------------------
(***************************************************************************)
(* The PUB socket (src/src/pub.rs): the fanout queue between send and its  *)
(* worker task, the worker's fanout over the subscribers, and the life of  *)
(* a subscriber.                                                           *)
(*                                                                         *)
(* send never waits: it pushes onto a bounded lock-free queue and sends a  *)
(* wake token unless wake_pending says that one is on its way.  The worker *)
(* sleeps on the token channel, drains the queue, gives wake_pending up    *)
(* and looks at the queue once more.  One action is one access to shared   *)
(* memory.  The worker's stores of wake_pending (Release) go through a     *)
(* store buffer: with StoreBuffer its loads may overtake them, as they do  *)
(* on x86; its pops, which are read-modify-writes, wait for them.          *)
(*                                                                         *)
(* Messages are numbered in the order of the calls of send.  Not modelled: *)
(* messages without a frame, which send ignores, malformed subscription    *)
(* messages, which message_received ignores, and the monitor, which        *)
(* peer_disconnected tells at every call.                                  *)
(***************************************************************************)
EXTENDS Integers, Sequences, FiniteSets

CONSTANTS
  Keys,         \* peer identities
  Conns,        \* connections; each completes one handshake
  NoConn,       \* no connection
  Handshakes,   \* the ways the connections may present identities
  Topics,       \* subscription prefixes
  Matches,      \* Matches[m]: the prefixes of the first frame of message m
  Capacity,     \* bound: PUB_SEND_QUEUE_CAPACITY, of the queue and of a channel
  MaxMessages,  \* bound: calls of send
  MaxRepeats,   \* bound: subscriptions of one peer to the same prefix
  Modulus,      \* usize counts modulo this
  StoreBuffer   \* loads of the worker may overtake its stores

ASSUME ConnsAssumption == NoConn \notin Conns /\ IsFiniteSet(Conns)
ASSUME KeysAssumption == IsFiniteSet(Keys)
ASSUME HandshakesAssumption == Handshakes \subseteq [Conns -> Keys]
ASSUME BoundsAssumption ==
  /\ Capacity \in Nat \ {0} /\ MaxMessages \in Nat /\ MaxRepeats \in Nat
  /\ Modulus \in Nat \ {0}
ASSUME MatchesAssumption == Matches \in [1..MaxMessages -> SUBSET Topics]
ASSUME StoreBufferAssumption == StoreBuffer \in BOOLEAN

VARIABLES
  \* PubFanoutQueue and its worker
  queue,             \* queue: messages to fan out
  wake_pending,      \* wake_pending, in memory
  stores,            \* the worker's stores of wake_pending not yet in memory
  wakes,             \* tokens in the channel of wake_sender
  publisher,         \* where the call of send is
  published,         \* the message of the last call of send
  worker,            \* where the worker is, and what it fans out
  \* PubSocketBackend
  subscribers,       \* subscribers: the connection registered for each identity
  subscriptions,     \* subscriptions[k]: how often each prefix was subscribed
  subscriber_count,  \* subscriber_count
  job,               \* job[t]: where task t is in its procedure
  writer,            \* writer[c]: c's writer task
  reader,            \* reader[c]: c's subscription task
  channel,           \* channel[c]: how many messages wait for c's writer
  identity,          \* identity[c]: what the handshake of c presented
  \* history
  got,               \* got[c]: the last message put in c's channel
  owed               \* owed[c]: the messages accepted while c was subscribed to
                     \* them, as long as it stays so and they are not fanned out

fanout == <<queue, wake_pending, stores, wakes>>
senders == <<publisher, published>>
registry == <<subscribers, subscriptions, subscriber_count>>
tasks == <<job, writer, reader>>
vars == <<fanout, senders, worker, registry, tasks, channel, identity,
          got, owed>>

-----------------------------------------------------------------------------
Connector(c) == <<"connector", c>>
Writer(c) == <<"writer", c>>
Reader(c) == <<"reader", c>>
Dropper == <<"dropper", NoConn>>
Tasks == {Connector(c) : c \in Conns} \cup {Writer(c) : c \in Conns}
           \cup {Reader(c) : c \in Conns} \cup {Dropper}

\* add, sub: the entry is in the map, or out of it, and subscriber_count is not
\* changed yet.  zero: the last step of shutdown.
Stages == {"idle", "upsert", "add", "spawn", "remove", "sub", "zero", "done"}
Messages == 1..MaxMessages
Workers == [at : {"wait", "drain", "fanout", "clear", "check", "reclaim", "ended"},
            msg : 0..MaxMessages, todo : SUBSET Keys, visited : SUBSET Keys]

TypeOK ==
  /\ queue \in Seq(Messages) /\ Len(queue) <= Capacity
  /\ wake_pending \in BOOLEAN
  /\ stores \in Seq({"release", "reclaim"})
  /\ wakes \in Nat
  /\ publisher \in {"idle", "push", "load", "swap", "wake", "dropped"}
  /\ published \in 0..MaxMessages
  /\ worker \in Workers
  /\ subscribers \in [Keys -> Conns \cup {NoConn}]
  /\ subscriptions \in [Keys -> [Topics -> 0..MaxRepeats]]
  /\ subscriber_count \in 0..Modulus - 1
  /\ job \in [Tasks -> Stages]
  /\ writer \in [Conns -> {"none", "running", "failed"}]
  /\ reader \in [Conns -> {"none", "running", "ended"}]
  /\ channel \in [Conns -> Nat]
  /\ identity \in Handshakes
  /\ got \in [Conns -> 0..MaxMessages]
  /\ owed \in [Conns -> SUBSET Messages]

NoTopics == [t \in Topics |-> 0]
Waiting == [at |-> "wait", msg |-> 0, todo |-> {}, visited |-> {}]

Init ==
  /\ queue = <<>> /\ wake_pending = FALSE /\ stores = <<>> /\ wakes = 0
  /\ publisher = "idle" /\ published = 0
  /\ worker = Waiting
  /\ subscribers = [k \in Keys |-> NoConn]
  /\ subscriptions = [k \in Keys |-> NoTopics]
  /\ subscriber_count = 0
  /\ job = [t \in Tasks |-> IF t[1] = "connector" THEN "upsert" ELSE "idle"]
  /\ writer = [c \in Conns |-> "none"] /\ reader = [c \in Conns |-> "none"]
  /\ channel = [c \in Conns |-> 0]
  /\ identity \in Handshakes
  /\ got = [c \in Conns |-> 0] /\ owed = [c \in Conns |-> {}]

Registered == {k \in Keys : subscribers[k] # NoConn}
\* The receiving end of c's channel exists.
Open(c) == writer[c] \in {"none", "running"}
\* subscription_matches
Subscribed(k, m) == \E t \in Matches[m] : subscriptions[k][t] > 0
\* Connection c is registered, subscribed to m and able to receive.
Deserves(c, m) ==
  subscribers[identity[c]] = c /\ Subscribed(identity[c], m) /\ Open(c)

-----------------------------------------------------------------------------
(* send and publish *)

Send ==
  /\ publisher = "idle" /\ published < MaxMessages
  /\ published' = published + 1
  /\ publisher' = IF subscriber_count = 0 THEN "idle" ELSE "push"
  /\ UNCHANGED <<fanout, worker, registry, tasks, channel, identity, got, owed>>

\* A full queue drops the message.
Push ==
  /\ publisher = "push"
  /\ IF Len(queue) = Capacity
       THEN publisher' = "idle" /\ UNCHANGED <<queue, owed>>
       ELSE /\ publisher' = "load"
            /\ queue' = Append(queue, published)
            /\ owed' = [c \in Conns |->
                 owed[c] \cup {m \in {published} : Deserves(c, m)}]
  /\ UNCHANGED <<wake_pending, stores, wakes, published, worker, registry, tasks,
                 channel, identity, got>>

LoadPending ==
  /\ publisher = "load"
  /\ publisher' = IF wake_pending THEN "idle" ELSE "swap"
  /\ UNCHANGED <<fanout, published, worker, registry, tasks, channel, identity, got, owed>>

SwapPending ==
  /\ publisher = "swap"
  /\ wake_pending' = TRUE
  /\ publisher' = IF wake_pending THEN "idle" ELSE "wake"
  /\ UNCHANGED <<queue, stores, wakes, published, worker, registry, tasks, channel,
                 identity, got, owed>>

Wake ==
  /\ publisher = "wake"
  /\ wakes' = wakes + 1
  /\ publisher' = "idle"
  /\ UNCHANGED <<queue, wake_pending, stores, published, worker, registry, tasks,
                 channel, identity, got, owed>>

-----------------------------------------------------------------------------
(* The worker *)

others == <<senders, registry, tasks, identity>>

\* while wake_receiver.next().await.is_some()
AwaitWake ==
  /\ worker.at = "wait"
  /\ wakes > 0
  /\ wakes' = wakes - 1
  /\ worker' = [worker EXCEPT !.at = "drain"]
  /\ UNCHANGED <<queue, wake_pending, stores, others, channel, got, owed>>

\* The token channel ends when the socket is gone and its tokens are used up.
WorkerEnds ==
  /\ worker.at = "wait"
  /\ wakes = 0 /\ job[Dropper] = "done"
  /\ worker' = [worker EXCEPT !.at = "ended"]
  /\ UNCHANGED <<fanout, others, channel, got, owed>>

PopNewest ==
  /\ worker.at = "drain"
  /\ stores = <<>>
  /\ IF queue = <<>>
       THEN worker' = [worker EXCEPT !.at = "clear"] /\ UNCHANGED queue
       ELSE /\ worker' = [at |-> "fanout", msg |-> queue[Len(queue)],
                          todo |-> Registered, visited |-> {}]
            /\ queue' = SubSeq(queue, 1, Len(queue) - 1)
  /\ UNCHANGED <<wake_pending, stores, wakes, others, channel, got, owed>>

PopMessage ==
  /\ worker.at = "drain"
  /\ stores = <<>>
  /\ IF queue = <<>>
       THEN worker' = [worker EXCEPT !.at = "clear"] /\ UNCHANGED queue
       ELSE /\ worker' = [at |-> "fanout", msg |-> Head(queue),
                          todo |-> Registered, visited |-> {}]
            /\ queue' = Tail(queue)
  /\ UNCHANGED <<wake_pending, stores, wakes, others, channel, got, owed>>

\* Each message goes out through a clone of the subscriber's sender, and a sender
\* that has not sent yet has a slot of its own: the channel is never full for it.
SendToSubscriber(c, m) ==
  IF Open(c)
    THEN /\ channel' = [channel EXCEPT ![c] = @ + 1]
         /\ got' = [got EXCEPT ![c] = m]
    ELSE UNCHANGED <<channel, got>>

FanoutStopsAtClosed(k) ==
  /\ worker.at = "fanout"
  /\ k \in Registered \ worker.visited
  /\ IF Subscribed(k, worker.msg)
       THEN SendToSubscriber(subscribers[k], worker.msg) ELSE UNCHANGED <<channel, got>>
  /\ worker' = [worker EXCEPT !.todo = IF Open(subscribers[k]) THEN @ \ {k} ELSE {},
                              !.visited = @ \cup {k}]
  /\ UNCHANGED <<fanout, others, owed>>

\* One entry of the map: todo are the entries that were there when the iteration
\* began, and an entry that came later is met or not.
FanoutTo(k) ==
  /\ worker.at = "fanout"
  /\ k \in Registered \ worker.visited
  /\ IF Subscribed(k, worker.msg)
       THEN SendToSubscriber(subscribers[k], worker.msg) ELSE UNCHANGED <<channel, got>>
  /\ worker' = [worker EXCEPT !.todo = @ \ {k}, !.visited = @ \cup {k}]
  /\ UNCHANGED <<fanout, others, owed>>

EndFanout ==
  /\ worker.at = "fanout"
  /\ worker.todo = {}
  /\ owed' = [c \in Conns |-> owed[c] \ {worker.msg}]
  /\ worker' = [Waiting EXCEPT !.at = "drain"]
  /\ UNCHANGED <<fanout, others, channel, got>>

KeepPending ==
  /\ worker.at = "clear"
  /\ worker' = [worker EXCEPT !.at = "check"]
  /\ UNCHANGED <<fanout, others, channel, got, owed>>

ReleasePending ==
  /\ worker.at = "clear"
  /\ stores' = Append(stores, "release")
  /\ worker' = [worker EXCEPT !.at = "check"]
  /\ UNCHANGED <<queue, wake_pending, wakes, others, channel, got, owed>>

SleepUnchecked ==
  /\ worker.at = "check"
  /\ stores = <<>>
  /\ worker' = [worker EXCEPT !.at = "wait"]
  /\ UNCHANGED <<fanout, others, channel, got, owed>>

\* The look at the queue before the worker sleeps.
CheckEmpty ==
  /\ worker.at = "check"
  /\ stores = <<>> \/ StoreBuffer
  /\ worker' = [worker EXCEPT !.at = IF queue = <<>> THEN "wait" ELSE "reclaim"]
  /\ UNCHANGED <<fanout, others, channel, got, owed>>

ReclaimPending ==
  /\ worker.at = "reclaim"
  /\ stores' = Append(stores, "reclaim")
  /\ worker' = [worker EXCEPT !.at = "drain"]
  /\ UNCHANGED <<queue, wake_pending, wakes, others, channel, got, owed>>

\* A store of the worker reaches memory.
DrainStore ==
  /\ stores # <<>>
  /\ wake_pending' = (Head(stores) = "reclaim")
  /\ stores' = Tail(stores)
  /\ UNCHANGED <<queue, wakes, worker, others, channel, got, owed>>

-----------------------------------------------------------------------------
(* The life of a subscriber *)

Goto(t, stage) == job' = [job EXCEPT ![t] = stage]
mailbox == <<fanout, senders>>

\* A connection is owed what it deserves without a break.
KeepOwed ==
  /\ identity' = identity
  /\ owed' = [c \in Conns |-> {m \in owed[c] : Deserves(c, m)'}]

CountAlways(c) == Goto(Connector(c), "add")
\* Only a new entry counts.
CountIfNew(c) ==
  Goto(Connector(c), IF subscribers[identity[c]] = NoConn THEN "add" ELSE "spawn")

\* peer_connected: a connection of a known identity replaces the entry, and with
\* it the old connection's sender and the stop signal of its subscription task.
Upsert(c) ==
  LET k == identity[c] IN
  /\ job[Connector(c)] = "upsert"
  /\ subscribers' = [subscribers EXCEPT ![k] = c]
  /\ subscriptions' = [subscriptions EXCEPT ![k] = NoTopics]
  /\ CountIfNew(c)
  /\ UNCHANGED <<writer, reader>>
  /\ KeepOwed
  /\ UNCHANGED <<mailbox, worker, subscriber_count, channel, got>>

\* fetch_add for a new entry, then the writer and the subscription task start.
SpawnTasks(c) ==
  /\ job[Connector(c)] \in {"add", "spawn"}
  /\ subscriber_count' = IF job[Connector(c)] = "add"
                            THEN (subscriber_count + 1) % Modulus ELSE subscriber_count
  /\ writer' = [writer EXCEPT ![c] = "running"]
  /\ reader' = [reader EXCEPT ![c] = "running"]
  /\ Goto(Connector(c), "done")
  /\ UNCHANGED <<mailbox, identity, worker, subscribers, subscriptions, channel, got, owed>>

\* The writer of c: write_message_queue.  Dropping the receiving end of the
\* channel drops what it still holds.  A writer that has no sender left ends,
\* and nothing follows from it.
WriteMessage(c) ==
  /\ writer[c] = "running" /\ channel[c] > 0
  /\ channel' = [channel EXCEPT ![c] = @ - 1]
  /\ UNCHANGED <<mailbox, identity, worker, registry, tasks, got, owed>>

WriteFails(c) ==
  /\ writer[c] = "running" /\ channel[c] > 0
  /\ writer' = [writer EXCEPT ![c] = "failed"]
  /\ channel' = [channel EXCEPT ![c] = 0]
  /\ Goto(Writer(c), "remove")
  /\ UNCHANGED <<registry, reader>>
  /\ KeepOwed
  /\ UNCHANGED <<mailbox, worker, got>>

\* The subscription task of c: message_received applies to the entry of its
\* identity, whichever connection that is.
Subscribe(c, t) ==
  LET k == identity[c] IN
  /\ reader[c] = "running"
  /\ k \in Registered /\ subscriptions[k][t] < MaxRepeats
  /\ subscriptions' = [subscriptions EXCEPT ![k][t] = @ + 1]
  /\ UNCHANGED <<mailbox, identity, worker, subscribers, subscriber_count, tasks, channel, got, owed>>

Unsubscribe(c, t) ==
  LET k == identity[c] IN
  /\ reader[c] = "running"
  /\ k \in Registered /\ subscriptions[k][t] > 0
  /\ subscriptions' = [subscriptions EXCEPT ![k][t] = @ - 1]
  /\ UNCHANGED <<subscribers, subscriber_count, tasks>>
  /\ KeepOwed
  /\ UNCHANGED <<mailbox, worker, channel, got>>

\* The stop signal was dropped with the entry; select! may take a message first.
ReaderStops(c) ==
  /\ reader[c] = "running" /\ subscribers[identity[c]] # c
  /\ reader' = [reader EXCEPT ![c] = "ended"]
  /\ UNCHANGED <<mailbox, identity, worker, registry, job, writer, channel, got, owed>>

\* peer_disconnected: by the writer after a failed write, by the subscription
\* task when the connection ended or failed.
RemoveEntry(t, k) ==
  /\ subscribers' = [subscribers EXCEPT ![k] = NoConn]
  /\ subscriptions' = [subscriptions EXCEPT ![k] = NoTopics]
  /\ worker' = [worker EXCEPT !.todo = @ \ {k}]
  /\ Goto(t, IF k \in Registered THEN "sub" ELSE "done")

WriterDisconnects(c) ==
  /\ job[Writer(c)] = "remove"
  /\ RemoveEntry(Writer(c), identity[c])
  /\ UNCHANGED <<writer, reader>>
  /\ KeepOwed
  /\ UNCHANGED <<mailbox, subscriber_count, channel, got>>

ReaderDisconnects(c) ==
  /\ reader[c] = "running"
  /\ reader' = [reader EXCEPT ![c] = "ended"]
  /\ RemoveEntry(Reader(c), identity[c])
  /\ UNCHANGED writer
  /\ KeepOwed
  /\ UNCHANGED <<mailbox, subscriber_count, channel, got>>

UncountSubscriber(t) ==
  /\ job[t] = "sub"
  /\ subscriber_count' = (subscriber_count - 1) % Modulus
  /\ Goto(t, "done")
  /\ UNCHANGED <<mailbox, identity, worker, subscribers, subscriptions, writer, reader,
                 channel, got, owed>>

\* The socket is dropped between two calls of send: shutdown clears the map, then
\* the count; the token channel's sender goes last.
DropSocket ==
  /\ publisher = "idle"
  /\ publisher' = "dropped"
  /\ subscribers' = [k \in Keys |-> NoConn]
  /\ subscriptions' = [k \in Keys |-> NoTopics]
  /\ worker' = [worker EXCEPT !.todo = {}]
  /\ Goto(Dropper, "zero")
  /\ UNCHANGED <<writer, reader>>
  /\ KeepOwed
  /\ UNCHANGED <<fanout, published, subscriber_count, channel, got>>

ZeroCount ==
  /\ job[Dropper] = "zero"
  /\ subscriber_count' = 0
  /\ Goto(Dropper, "done")
  /\ UNCHANGED <<mailbox, identity, worker, subscribers, subscriptions, writer, reader,
                 channel, got, owed>>

-----------------------------------------------------------------------------
SenderStep == Push \/ LoadPending \/ SwapPending \/ Wake
WorkerStep == AwaitWake \/ WorkerEnds \/ PopMessage \/ (\E k \in Keys : FanoutTo(k))
              \/ EndFanout \/ ReleasePending \/ CheckEmpty \/ ReclaimPending

Next ==
  \/ Send \/ SenderStep \/ WorkerStep \/ DrainStore
  \/ \E c \in Conns :
       \/ Upsert(c) \/ SpawnTasks(c)
       \/ WriteMessage(c) \/ WriteFails(c) \/ WriterDisconnects(c)
       \/ ReaderDisconnects(c) \/ ReaderStops(c)
       \/ \E t \in Topics : Subscribe(c, t) \/ Unsubscribe(c, t)
  \/ \E t \in Tasks : UncountSubscriber(t)
  \/ DropSocket \/ ZeroCount

Spec == Init /\ [][Next]_vars

\* A call of send runs to its end, the worker task is scheduled, and a store
\* reaches memory.
Fairness == WF_vars(SenderStep) /\ WF_vars(WorkerStep) /\ WF_vars(DrainStore)
FairSpec == Spec /\ Fairness

-----------------------------------------------------------------------------
(* Properties *)

\* subscriber_count is the number of subscribers, up to the changes that tasks
\* have made to the map and not yet to the count, modulo the width of usize: it
\* wraps below zero when a disconnection overtakes the connection it follows.
Uncounted(stage) == {t \in Tasks : job[t] = stage}
SubscriberCountExact ==
  publisher # "dropped" =>
    subscriber_count = (Cardinality(Registered) + Cardinality(Uncounted("sub"))
                          - Cardinality(Uncounted("add"))) % Modulus

\* A connection gets messages in the order they were sent, none of them twice.
InOrder ==
  [][\A c \in Conns : channel'[c] > channel[c] => got'[c] > got[c]]_vars

\* When a message has been fanned out, every connection that was subscribed to
\* it from the moment send took it, and stayed so, has got it.
SteadySubscriberServed ==
  worker.at = "fanout" /\ worker.todo = {} =>
    \A c \in Conns :
      worker.msg \in owed[c] => got[c] = worker.msg

\* The worker fans out every message that the queue took.
EveryMessageFannedOut ==
  \A m \in Messages :
    (\E i \in DOMAIN queue : queue[i] = m) ~> (\A i \in DOMAIN queue : queue[i] # m)

\* The worker does not sleep while a message waits, unless a token is on its way
\* or the call of send that will see to it has not returned.
NoStrandedMessage ==
  queue # <<>> /\ worker.at = "wait" =>
    wakes > 0 \/ publisher \in {"load", "swap", "wake"}

\* A slow subscriber loses messages: its channel stays within its capacity and
\* the slot of the sender.
ChannelBounded == \A c \in Conns : channel[c] <= Capacity + 1
=============================================================================
