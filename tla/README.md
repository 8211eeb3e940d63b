# A TLA+ verification of zmq.rs

zmq.rs is a native Rust implementation of ZeroMQ on asynchronous runtimes. This
directory holds TLA+ modules translated from its source (`src/src/`), the TLC
configurations that check them on small instances, and TLAPS proofs of the
properties that matter most.

`PROJECT.json` is the index: the components, the runs, for each property a
mutation of the code that breaks it, the source lines behind each definition,
the disagreements found, the hazards and the theorems.

## 1. The system

A **socket** (PUSH, PULL, PUB, SUB, REQ, REP, DEALER, ROUTER, XPUB, XSUB) owns a
**backend**, the registry of its connected peers, which is shared with
background tasks: accept loops, reconnect tasks, one writer task per peer, and
for PUB a worker and one subscription reader per peer. A new connection goes
through the handshake (greeting, READY) and is given to the backend by
`peer_connected`, which spreads its two halves: the read half goes to the
socket's **fair queue**, the write half to a **writer task** behind a bounded
channel (for REQ, REP, SUB: into the registry itself). A lost connection comes
back as `peer_disconnected`, called by whoever notices first.

`send` and `recv` borrow the socket mutably, so an application has at most one
of each under way on a socket (DEALER and ROUTER can be split in two halves),
but it may drop either future at any await, and the background tasks run on
other threads.

| Component | State | Operations | Talks to | What is hard | What makes it correct |
|---|---|---|---|---|---|
| fair queue (`fair_queue.rs`) | heap of ready events, set of queued keys, map of streams, waker of the receiver | `insert`, `remove`, `clear`, `poll_next`, `wake_by_ref` | every `recv`; backends; the reactor | the lock is released while a stream is polled, and the stream is out of the map; wakers of replaced streams stay alive | no wakeup lost, no stream lost, no peer starved, events bounded |
| generic backend (`backend.rs`) | `peers` map, `round_robin`, `peer_count`, `single_peer` | `peer_connected`, `peer_disconnected`, `send_round_robin`, `send_to_peer`, `shutdown` | writer tasks, fair queue, monitor | four structures without a common lock; map guards held across an await; dropped sends | cache agrees with the map, rotation complete, one event per disconnection, sends return |
| writer task (`write_queue.rs`) | a channel and a connection | write and flush in batches | backend | fails after its peer was replaced | as above |
| PUB (`pub.rs`) | lock-free fanout queue, `wake_pending`, wake tokens, subscribers, `subscriber_count` | `send`, worker loop, `peer_connected`, `message_received`, `peer_disconnected`, shutdown | worker, writers, readers | the wake protocol; fanout during joins and leaves; a slow subscriber | accepted messages reach steady subscribers in order; the worker never sleeps on a message; count exact |
| SUB, XSUB (`sub_backend.rs`, `sub.rs`, `xsub.rs`) | `subs`, `peers`, notifiers, streams | `subscribe`, `unsubscribe`, `peer_connected` with its replay, `peer_disconnected` | reconnect task, fair queue | a subscription during a replay | peers know the subscriptions |
| reconnect task (`reconnect.rs`) | current peer, backoff | wait, back off, connect, register, stop | SUB backend | the connection is lost before anyone listens | reconnects, once; stops with the socket |
| codec (`codec/`) | decoder state, `waiting_for`, partial message | encode, decode greetings, commands and messages | framed reader | any split of the bytes, lengths at the limits | what was sent is what is read |
| framed reader (`codec/framed.rs`) | buffer, `read_chunk_size`, `short_reads` | `poll_next`, `poll_read_into_buffer` | codec, transport | adaptive reads, end of stream inside a frame | lengths in range, streams end, chunk shrinks only when it should |
| REQ, REP (`req.rs`, `rep.rs`) | current request, rotation; current peer and envelope | `send`, `recv`, `peer_connected`, `peer_disconnected` | each other, over connections | dropped futures, reconnections, envelopes | replies match, once, to whom asked |
| XPUB (`xpub.rs`) | subscribers with their filters and write halves, streams | `send`, `recv`, `peer_connected`, `peer_disconnected` | fair queue, proxy | every write is awaited; an entry and its stream change in two steps, by identity | every steady subscriber is served once, every subscription is passed on |
| handshake (`util.rs`, `lib.rs`) | none | greeting and READY exchange, compatibility, timeout | codec | both ends at once, silent or foreign peers, cuts, types beyond the matrix | the ends agree on whether their types go together, and on names; nobody waits for ever |
| bind, accept, connect (`lib.rs`, `transport/`, `task_handle.rs`) | bound endpoints, stop handles, listeners, socket files | `bind`, `bind_listener`, `unbind`, `close`, drop, split, accept loops, `connect` with its retries | handshake, backend | unbind, drop and cancellation while connections are accepted and set up; connect before bind | listeners are what the calls left; everything is let go of in the end |
| proxy (`lib.rs`) | a message in hand | receive on either side, capture, send on | two sockets | one task for both directions; errors of either side end it | subscriptions and messages pass |
| endpoints (`endpoint/`) | none | `FromStr`, `Display` | bind, connect | IPv6 brackets, chosen ports, unnamed sockets | the text of an endpoint leads to it |
| messages, errors, runtimes | none | conversions | all | none | none beyond data |

## 2. The modules

Names follow the source. An action is one step that other tasks can observe: a
lock section, an access to a concurrent map or atomic, an await that may wait.
Each module's header says what it leaves out. Mutated forms of definitions
(such as `PushReadyLifo` before `push_ready`) stand directly before the
definition they vary and are used by nothing else.

**FairQueue** models `FairQueue`, `QueueInner` and `StreamWaker`. `pc` is the place in
`poll_next`: `BeginPoll` is the first lock section (store the waker, count the
events), `PopEvent` the section that pops an event and takes the stream out,
`PollStream` the poll outside of the lock, then `ReturnItem`, `StreamEnded` (with
the socket's disconnect callback: the backends remove the key, REP's does not)
or `StreamPending`, and `ReturnPending`. The reactor is `Arrive`, `ArrivePartial`,
`RemoteClose` and `wake_by_ref`; backends run `insert`, `remove` and `clear`; the
application may drop the future (`CancelRecv`) and the runtime may poll without
cause (`SpuriousPoll`). The heap orders (priority, key) by a growing counter, so
it is a sequence.

**GenericBackend** models `GenericSocketBackend` with the send paths and the
writer tasks. `job[t]` is the place of a task in `peer_connected` or
`peer_disconnected`, one action per access: `Upsert`, `ReadLen`, `StoreCount`,
`UpdateCache`, `SpawnWriter`, `JoinSocket`; `RemovePeer`, the same refresh,
`Notify`. `send` is the place of the sender in the cached path (`TrySendCached`,
`FinishCachedSend`, `FlushCached`) or the map path (`PopRotation`, `GetPeer`,
`FinishSend`, `Flush`). A sender that waits in the map path holds the guard of
the entry (`EntryHeld`), and tasks that need that entry wait.

**PubSocket** models `pub.rs`: `Send`, `Push`, `LoadPending`, `SwapPending`, `Wake` for the
publisher; `AwaitWake`, `PopMessage`, `FanoutTo`, `EndFanout`, `ReleasePending`,
`CheckEmpty`, `ReclaimPending` for the worker; the life of subscribers and the
drop of the socket. With `StoreBuffer` the worker's stores of `wake_pending` take
effect late (`DrainStore`), as a Release store followed by a load may on x86 and
ARM. `subscriber_count` is a number modulo `Modulus`, the width of `usize`.

**SubSocket** models `SubSocketBackend` and the reconnect task: `SnapshotSubs`, `Resend`,
`Upsert`, `InsertStream` are `peer_connected`; `Register`, `AwaitNotice`,
`TryReconnect`, `StopReconnecting` the task; `Subscribe`, `Collect`, `SendControl`,
`EndBroadcast`, `RecvEnd`, `RemovePeer`, `NotifyReconnect` the calls of the
application, of which `DropCall` drops a broadcast at any of its awaits. An attempt to
reconnect begins with `TryReconnect` and ends with `Connected` or `AttemptFails`, or not at
all: the code has no timeout for it and does not look at the shutdown signal meanwhile.

**Wire** and **Codec** model the bytes. `Wire` has the encoder and the parsers of
greetings and commands as operators; the loop over a command's properties is the
recursive function `PropertiesFrom`, from the place where a property starts to the
properties from there on. `Codec` the decoder's states (`DecodeGreeting`,
`DecodeHeader`, `DecodeLen`, `DecodeFrame`, `NeedMore`) and the reader
(`ReadSome` with its adaptive chunk, `ReadEnd`, `ReadPending`, `ReadFails`). The
number of values of a byte and the widths of fields are constants.

**ReqRep** composes REQ (or DEALER) clients and REP servers over connections with a
write buffer and a queue of messages in each direction. `ReqSend` feeds and
`ReqFlush` flushes, so that a dropped send leaves its message in the buffer;
`RepRecv` splits the envelope off, `RepSend` prepends it. A send dropped while it looks its
peer up is `ReqDropLookup`. A server that lets go of the write half of a connection, or of
the read half, closes it only with the second of the two (`DropHalf`). The fair queue is an
arbitrary choice among readable streams here.

**Peering** and **Handshake** model the set-up of a connection. Peering is abstract: two
ends, each of which joins, is refused or fails, once; they can only join when their
types go together, and then know each other by the names they gave. Handshake has the
messages: `SendGreeting`, `ReadGreeting` are `greet_exchange`, `SendReady`, `ReadReady` are
`ready_exchange` with its checks in their order (`ReadyVerdict`), `Broken` is the error of
any of their awaits, `Timeout` is `run_with_timeout` around `connect`. Frames are what the
codec yields. An end that does not run zmq.rs sends any prefix of a script and may
close. `compatible` indexes the matrix as the code does, so that type STREAM reads
the cell of another row, or panics. `Setup` is the refinement mapping: `agree` says
that every end that runs zmq.rs would accept what the other announces; `named` is the
name announced; a timeout and a panic are failures.

**Endpoint** has `FromStr` and `Display` of endpoints over tokens, and **Lifecycle** extends it
with a socket's life. `app` is the place of the application: `open`, inside `unbind` or
`close`, `split` or with one `half` left, then the stages of dropping (`ClearPeers` and
`ClearStreams` are `shutdown`, `DropFields` drops the stop handles). A `slot` is a listener
with its accept task: `Accept` and `AcceptError` are one branch of its `select!`,
`AcceptStops` the other, `RemoveFile` what an IPC listener does afterwards. The task that
is spawned for a connection goes through `Register` (the entry), `SpawnWriter`, `InsertStream`
and `ReportAccepted`, or `HandshakeFails`; nobody holds its handle, so it goes on when the
socket is gone, and shutdown may come between any two of these. `DropBackend` is the end of
the last reference to the backend, which drops what was put into the fair queue since. `binds` maps endpoints
to slots as the socket's map does to handles, so that inserting an equal endpoint
drops, and thereby stops, the one before. Clients `Connect` by text and retry
until they succeed or `connect` times out (`ConnectTimesOut`).

**XPubProxy** composes the proxy with an XSUB and an XPUB socket. The proxy is one task:
`RecvBackend` and `RecvFrontend` are the two branches of its `select!`, `CaptureFails` the
capture socket, then `SendFrontend`, `WriteFrontend`, `WriteFrontendFails` (XSUB: a subscription is
remembered and broadcast, its error ends the proxy; other messages are fanned out and
errors logged) or `SendBackend`, `WriteBackend`, `WriteBackendFails`, `BackendSent` (XPUB:
targets first, one awaited write each, dead peers at the end). `Upsert` and
`InsertStream` are XPUB's `peer_connected`, `RemoveEntry` and `RemoveStream` its
`peer_disconnected`, by identity, so that accept tasks of other threads come between the two
steps of either (`InsertOverwritten`: the fair queue puts the older stream that it was polling
back over the one inserted);
`Resync` and `Rejoin` are `peer_connected` of the SUB backend towards a new publisher.
Subscribers, publisher and network are the environment.

**FairQueueProofs**, **GenericBackendProofs**, **PubSocketProofs**, **SubSocketProofs**,
**CodecProofs**, **ReqRepProofs**, **ConnectionProofs** (Handshake and Lifecycle) and
**XPubProxyProofs** hold the theorems.
The `MC...` modules give constants their values.

## 3. The runs

| Run | Instance | States | Checks |
|---|---|---|---|
| `fair_queue` | 3 connections, 2 identities, one of which connects twice; 1 unread message per connection; 1 removal | 289,276 | `TypeOK`, `NoLostWakeup`, `QueuedHasEvent`, `PopFindsEvent`, `EventsBounded`, `UnfinishedStreamKept`, `NoStarvation`, `PollReturns` |
| `backend` | 2 connections with any identities; channels of 1 (+1), 2 failures; symmetry | 1.8 million | `CacheMatchesUnlessOverlap`, `MonitorExact`, `RotationComplete` |
| `backend_live` | 1 connection | 4,300 | `SendReturnsUnlessUnspawned`, `DisconnectCompletes` |
| `pub` | 2 connections of one or two identities, 1 topic, queue of 2; 2 messages, or 3 while one connection has not come | 796,356 | `SubscriberCountExact`, `SteadySubscriberServed`, `NoStrandedMessage`, `InOrder`, `EveryMessageFannedOut` |
| `pub_stores` | 1 connection, store buffer | violated | `NoStrandedMessage` |
| `pub_slow` | 1 connection, 3 messages | violated | `ChannelBounded` |
| `sub` | 2 topics subscribed up to twice, 3 connections in turn | 320,556 | `SubscriptionsReachPeersUnlessRaced`, `OneConnection`, `ReconnectsUnlessUnheard`, `ReconnectTaskStops` |
| `codec` | 8 scripts of bytes of base 8; chunks from 2 to 8 | 22,581 | `YieldsWhatWasSent`, `ErrorsAreReal`, `ReadsInRange`, `ShrinksOnlyAfterShortReads`, `StreamEnds` |
| `req_rep` | 2 connections in 7 arrangements, 2 requests per client, 1 dropped future | 1,295,474 | `ReplyMatchesUnlessMixed`, `AnsweredOnce`, `RepliesAddressed`, `RequestNeverLost` |
| `handshake` | all 10 socket types, 1 name, 15 scripts of foreign peers, with and without timeout | 164,640 | `PeeringHolds` (refinement), `HandshakeSettles` |
| `lifecycle` | 6 scenes: up to 2 listeners and 2 clients; TCP with a name, an IPv6 address and a chosen port; IPC with a path, without one and with one that is not UTF-8; PUSH, PULL, DEALER | 433,134 | `BindsMatchListeners`, `DisplayReaches`, `LateBindReached`, `ResourcesReleased` |
| `proxy` | 2 subscribers, one of which is subscribed at the start, 1 filter, 3 connections each, 2 losses and 1 message of subscribers or 1 and 2, 1 published | 327,181 | `UpstreamCovers`, `XPubServesSubscribers`, `SubscriptionArrives` |

What the passing runs show:

- `fair_queue`: whatever order polls, wakes, insertions, removals and cancellations
  take, a sleeping receiver with a readable stream has a wake on the way; every
  key that `push_ready` would skip has an event; the loop never pops an empty heap;
  a key has one event, and one more for each removal or ended stream at most; a stream leaves
  the queue only by its end, a removal or its successor; nobody starves, and one
  call of `poll_next` ends even when streams are woken again and again.
- `backend`, `backend_live`: three tasks reporting the same lost peer cause one
  event; a rotation loses an identity only by a dropped send; a send returns.
- `pub`: a subscriber registered from the push to the end of the fanout, with a
  matching subscription, gets every accepted message, once and in order; the
  worker never sleeps on a message; the count is right up to changes under way.
- `sub`: every peer has every subscription, the endpoint has one connection, and
  the task comes back and stops, up to the races, dropped calls and endless attempts
  of section 4.
- `codec`: however the bytes are split or cut, what comes out is a prefix of what
  went in, multipart messages whole, and an error has a cause.
- `req_rep`: no reply is crossed, doubled or lost without a broken connection. All
  envelopes are a single delimiter here, as REQ and DEALER clients write them, so a
  reply under another client's envelope shows by its data only; and a server knows
  its clients apart by their identities (`IdentitiesAssumption`).
- `handshake`: every behaviour of two ends, seen through `Setup`, is one of Peering: the
  two matrices of the ends agree, an end joins only a peer that is not older and whose
  type goes with its own, under its name; and both ends get to an end, since both send
  before they read, or since `connect` has a timeout. An end that accepts has none,
  and waits for a silent foreign peer as long as that keeps the connection.
- `lifecycle`: whatever is accepted, cancelled or dropped meanwhile, a listener works from
  its bind to its unbind, and when unbind has returned, its task, its address and its
  socket file are gone; the text of a bound endpoint leads to it; a client that
  connects before the bind gets through, unless the timeout of `connect` comes first
  (the property is about `connect_forever`); and a dropped socket stops its accept tasks
  and releases its connections, up to the exceptions of section 4.
- `proxy`: whatever a subscriber holds at the XPUB socket is held at the publisher;
  subscribers that stay are served every message once, whoever else breaks in the
  middle of a send; and a subscription gets through in the end.

**Bounds and why they are enough.** Two connections of one identity are what
replacement needs, and two identities what any confusion of peers needs; the
fair queue has both at once. One unread message per stream separates empty from
non-empty, which is all `poll_next` sees; the count never enters a guard. Channels
of one message make every send meet a full channel. Two messages in a queue
of two let the order in which the worker takes them matter, and let a second message
race with the worker's going to sleep; a third makes the queue overflow. It is sent only
while one of the two connections has not come (`Small` of `MCPubSocket`): the queue does not
know of connections. The same invariants were checked once with three messages and both
connections (4,235,906 states), which is too large for the liveness property. Three connections in turn let a SUB socket lose a first
and a later connection and still settle. The scripts of `codec` hold every kind of
frame: short, long, empty, multipart, commands with one and two properties, a
frame above twice the largest chunk (the headroom rule), a length just above what
the buffer may hold, and commands cut short. Two requests are a request and the
one that follows a lost or late reply. For the handshake, two frames are all an end
reads, so longer scripts differ in nothing; the scripts hold greetings of an older, the
same and a newer version, every field of READY that a check looks at, and frames of
the wrong kind. Two listeners are what an equal endpoint or a second bind of an
address needs. Two subscribers with one filter are what counting needs; three
connections of one identity let the accept task of one come after that of the next,
when there is an entry to replace (with two, the first of which is registered at the
start, no task is overtaken); two losses let a subscriber and
the publisher be lost, or the publisher twice, and two messages let a second subscriber
take a filter and one of them leave it again. `Small` of `MCXPubProxy` has not both
at once; the invariants were checked once with both (1,934,927 states), and have proofs. Bounded counters (`MaxRemovals`,
`MaxFailures`, `MaxBacklog`, `MaxRepeats`, `MaxRequests`, `MaxDrops`, `MaxLosses`, `MaxConns`, `MaxOps`, `MaxPubs`) only stop the
environment from going on. `CHECK_DEADLOCK FALSE` appears where a bounded instance
comes to rest: all connections were used, or the socket was dropped. `codec` keeps
the deadlock check and stutters only once its stream is over.

**Fairness.** `FairQueue`: a runtime polls a task that was woken, the application
calls `recv` after each item, and a reactor that began a wake ends it; spurious polls,
cancellations, arrivals and removals are not assumed. `GenericBackend`: tasks are
scheduled, writes end or fail, and those who wait for a lock of the map get it in the
end (strong fairness, since a send takes and leaves the same lock repeatedly);
`remove_sync` blocks a thread, so this includes that the runtime has another.
`PubSocket`: a call of `send` runs on, the worker is scheduled, stores become visible.
`SubSocket`: the task is scheduled, and a `select!` that finds the shutdown signal ready
time and again takes it (strong fairness: between two backoffs there is an attempt);
nothing is assumed of the server during an attempt. Calls return, or are dropped, and
the application calls `recv` repeatedly (strong fairness: `recv` alternates with
other calls), which is how a SUB socket notices a lost peer. `Codec`: the stream is
polled until it is over, and a transport that has bytes does not answer Pending for
ever. `Handshake`: tasks that can go on do, and timers fire. `Lifecycle`: `select!` chooses
among ready branches at random, so a stop signal is seen; handshakes settle (the run
`handshake`; a silent foreign peer would hold its task and nothing else); attempts to
connect are repeated; an application finishes what it has begun. `XPubProxy`: the proxy
and the accept tasks are scheduled, subscribers read what is written to them (one that
does not stalls the proxy, which awaits each write), and a client whose connection is
dropped at the other end sees it. The assumptions on peers are the two named above, that
foreign peers of `Lifecycle` settle their handshakes and that subscribers of `XPubProxy` read
what is written to them, and that writes end or fail, in `GenericBackend` and in the calls
of `SubSocket`. No connection need ever break or recover, and no peer need ever answer or
send.

## 4. Where the code and its documentation disagree

Two have a run that TLC must find violated and an entry in `PROJECT.json` with the
quotation:

1. `pub_stores`: the worker's `store(false, Release)` and its `is_empty` may be
   reordered; a publisher in between sees `true` and sends no token. The worker then
   sleeps with a message queued until the next publish. Under sequential
   consistency the protocol is right (and proved so).
2. `pub_slow`: the fanout clones the channel's sender for every message, and each
   clone of a futures channel has a slot of its own, so the channel of a slow
   subscriber grows where the comment says that messages are dropped.

Others are exceptions that a passing property names, in a history variable or an
operator that describes exactly the case. Without the exception, TLC finds the property
violated:

3. Two peers that connect at the same time can leave `peer_count = 1` and a cached
   peer while the map has two, since `refresh_single_peer_cache` reads the length,
   stores it and sets the cache in separate steps (`overlapped`). The unit test at
   `backend.rs:432` expects a count of 2, but connects one after the other.
4. A subscription made while a new peer's replay is under way misses that peer for
   good (`missed`), where `sub_backend.rs:42` promises the full set. The same holds when the
   future of `subscribe` is dropped in its broadcast: the topic is remembered, and the
   peers whose turn had not come are not told (`sub_backend.rs:212`).
5. A connection lost before its notifier is registered, or during its replay, is
   never reconnected (`unheard`).
6. `ReconnectHandle::shutdown` is to stop the task after "its current iteration"
   (`reconnect.rs:54`). The iteration need not end: `try_reconnect` is awaited without a
   timeout and without a look at the shutdown signal, so a server that accepts and stays
   silent keeps the task, and the backend it holds, after the socket is gone
   (`AwaitsServer`).
7. `bind_listener` promises that a listener "remains bound until the returned endpoint
   is unbound or the socket is closed" (`lib.rs:556`). Two Unix listeners without a
   path have the same endpoint, `Ipc(None)`, and adopting the second drops the stop
   handle of the first, which ends it (`replaced`).
8. `close` is to block "until resources are released" (`lib.rs:644`). A PULL socket has no
   `Drop`: its map holds the senders of the writer tasks, and these hold the map, so
   connections and tasks stay. For the other sockets the same holds for a peer that
   registers after `shutdown` has cleared the map (`late`), and for a stream that is
   inserted after `shutdown` while such a peer keeps the fair queue alive.
9. `peer_connected` of XPUB replaces the entry of an identity, then its stream. If the
   older stream ends in between, `peer_disconnected` takes the new entry with the write
   half away; the new stream is read from then on, and the client, whose connection
   stays open, is never served. And when a client connects twice in quick succession,
   the accept task of the older connection may come last and replace what the newer one
   has registered. `peer_disconnected` takes two steps as well: a client that returns and
   is registered between them, entry and stream, loses the stream to the second step, so
   that its connection stays open and nothing it sends is read (`crossed`, all three).
10. XSUB remembers a set of filters, while PUB and XPUB count subscriptions. After the
   publisher was replaced, a filter that two subscribers behind a proxy hold counts
   once there, and the first to leave it takes it from both (`thinned`). A
   subscription forwarded while a publisher is being set up reaches nobody (`missed`).

Other behaviours the models show and the properties allow for, by name:

- A send that waits for room in the channel of a peer whose connector has yet to
  lock the entry for the cache, before it spawns the writer, waits for ever with
  that connector (`SenderMeetsConnector`).
- One torn stream of a subscriber, or one failed broadcast of a subscription, ends the
  whole proxy with the message in hand; a failed fanout or XPUB write does not. A
  subscriber that disconnects never unsubscribes upstream, so the publisher's count
  only grows.
- A peer of type STREAM makes `compatible` read the next row's first cell; for XSUB, the
  last row, the index is out of range and the task panics.
- A dropped `send_round_robin` forgets the identity it popped (`forgotten`).
- A REQ `send` dropped while it looks its peer up has popped the identity from the
  rotation and forgets it; if it was the only one, later sends find no peer.
- A REQ `send` dropped between feed and flush shifts all later replies of that
  connection by one; a reconnection under the same identity can mix two requests
  (`mixed`). A REP application that drops its send, or receives the next request
  first, leaves a client waiting, and so does a REQ socket that replaces the
  connection it waits on (`stuck`).
- A late disconnection of a replaced connection removes the entry of its
  successor (generic backend and PUB), and a fair queue may put the older stream
  of an identity back over the newer.
- End of stream after a frame's header or length, or between two parts of a
  message, is reported as a clean end.
- Nothing calls REQ's `peer_disconnected`: a dead server stays in the rotation. A
  torn frame on a REP connection leaves its stream in the fair queue.
- `poll_next` wakes its own task when events are left over at its end. The wake is
  redundant: whoever pushed the event has already woken the task, and `fair_queue`
  passes without it. PUB's surplus wake tokens are harmless in the same way.

## 5. The proofs

All hold for every value of the constants that satisfies the named assumptions of
the modules; TLC evaluates the same assumptions in each run.

**FairQueueProofs** (`TypeCorrect`, `LosesNoWakeup`, `QueuedIsAccurate`,
`PopAlwaysFindsEvent`; from `ConnsAssumption`, `KeyOfAssumption`,
`BoundsAssumption`). `NoLostWakeup` speaks of the sleeping receiver only and is not
inductive. The invariant `IInv` adds that every stream in the map is `Watched`: it
has an event in the heap, an armed waker, or a waker being called (`WatchedInv`;
`PendingInv` says the same of the stream that was just polled and is out of the
map); that an armed waker means an unreadable stream (`ArmedInv`); that a receiver
that sleeps unnotified left its waker and an empty heap (`SleepInv`); and the shape
facts `StreamKeyInv` and `TakenInv`. Then a readable stream of a sleeping receiver
has no event and no armed waker, so its waker is being called. `QueuedHasEvent`
keeps `push_ready` from skipping a needed event; `PopFindsEvent` bounds the loop's
counter by the heap. There is one lemma per action. On top of `IInv`, `LeaveInv` is
about streams that leave (`TurnsBounded`, `KeepsUnfinishedStreams`). `EventsBounded`
counts events of a key against removals and ended streams; `CountInv` sharpens it by
what `queued` adds, so that a push that sets the flag and a removal that drops it
balance. `FreeInv`, `PlaceInv` and `EndedInv` say where the stream that is polled
is: in no map, and past its end only when it has been read out. Then a step that
makes an unfinished stream disappear is one of those that may.

**GenericBackendProofs** (`BackendTypeCorrect`, `MonitorToldOnce`,
`RotationLosesNoPeer`, `CacheAgreesUnlessOverlap`; from `ConnsAssumption` and
`KeysAssumption`, which say that there are finitely many of both,
`HandshakesAssumption`, `BoundsAssumption`). `JobInv` says what a task can be doing:
a writer task disconnects once, after it failed; a connector never does. With it
`MonitorExact`, an equation between cardinalities, is inductive: each `Upsert` and
`RemovePeer` moves one entry from one side to the other. `RotationComplete` needs
`SendInv`, which ties a send to the peer it popped. `CacheInv` is why the cache
agrees: unless two refreshes overlapped, at most one task is refreshing, and from
its reading of the length on what it has read and stored stays true of the map,
since whoever changes the map is a refresher itself.

**PubSocketProofs** (`NeverStrandsMessage`). Under the hypothesis `StoreBuffer =
FALSE`, which run `pub_stores` shows to be necessary, `WakeInv` is inductive: at
most the worker's own last store is under way (`StoresInv`), and once the worker has
given `wake_pending` up, whoever sets it sends a token (`PendingInv`). Steps of
subscribers touch none of it. The other theorems (`PubTypeCorrect`,
`CountTracksMap`, `SteadySubscribersServed`, `FanoutInOrder`) need no such
hypothesis, only finitely many connections and identities. `SubscribersInv` adds to
the count that entries and tasks belong to their connections (`EntryInv`, `TaskInv`:
each task disconnects once); that message numbers increase from what a connection
has got over the message that is fanned out to the queue (`OrderInv`), which makes
the iteration over the map, that may meet an identity whose connection has changed,
deliver in order and once; and that a connection to which the message is owed still
deserves it and is among the entries to visit or has got it (`OwedInv`,
`ServedInv`).

**SubSocketProofs** (`SubTypeCorrect`, `ConnectsOnce`, `SubscriptionsReachPeers`;
from `BoundsAssumption`). `LatestInv` says that only the last connection is a peer
or has a notifier, and that a notice ends both: the task can therefore not start a
second connection beside one that is registered. `ConnsInv` keeps calls that are
under way from touching a connection whose set-up is not over, `NotifyInv` from
notifying for a peer that is still registered. `ReplayInv` and `PeersKnowInv` follow
a subscription: it is in the snapshot, or on record as missed (which is where a dropped
call leaves it), or the call under way still has to tell the peer (`ToldLater`); `ForgottenInv` excludes that an
unsubscription under way takes away what is remembered.

**CodecProofs** (`TypeCorrect`, `ReadsStayInRange`, `ShrinksSafely`, `YieldsExactly`,
`ErrorsOnlyReal`; from `OptionsAssumption`, which is what `SocketOptions` and
`read_buffer` enforce, `PowersAssumption`, `WidthAssumption` (a length that a word
holds fits into the eight bytes of a long frame), `ScriptsAssumption` and the
assumptions of `Wire`). `IInv` ties
`waiting_for` to the decoder's state and keeps it at least a chunk below `IsizeMax`
(`WaitingInv`), and says that the transport is read only when the buffer falls short
(`ReadingInv`): hence no read has an empty slice, which would look like the end of
the stream, and no length overflows.

`YieldsWhatWasSent` and `ErrorsAreReal` hold for every script that a peer may write: a
greeting, then any multipart messages and READY commands whose frames a buffer can
hold, and, wherever another implementation wrote them, bytes that the decoder must
refuse (`RefusedGreeting`, `RefusedFrame`: a wrong signature or mechanism, a length
beyond `MaxLen`, a malformed command). Property names are UTF-8 and shorter than
`Base`, values no longer than a `u32` says; the code does not check these when it
encodes, its own names and values are short. The proof has three layers.

- *The encoder's inverse.* `BigEndianRoundTrip` (a number that fits is read back),
  `WrittenFrameAt` (a frame, short or long, at the front of any bytes has the flags,
  length and body it was written with), `GreetingRoundTrip` and `CommandRoundTrip` (the
  properties, in whatever order the map gives them, are parsed into the same map). What
  the recursive functions behind these compute is shown by the least counterexample:
  `LeastNumber`, from the library's `WFMin`, needs no operator as a parameter.
- *The bytes ahead.* `Ahead(s, k, j)` is what a peer still writes after `k` items and
  `j` frames of the next one. `AheadMessage`, `AheadCommand` and `AheadRaw` say which
  frame it starts with.
- *The stream.* `StreamInv`: the items yielded are the first ones of the script
  (`YieldedInv`), the frames collected are the first ones of the next message and not
  all of them (`PartsInv`), the decoder's state is about the frame at the front of what
  is ahead (`StageInv`), and buffer and wire together hold what is ahead, without the
  bytes of that frame already used and, after a cut, without some end of it
  (`BytesInv`). A read moves bytes between the two; a decoder step uses up what it
  reads.

**ReqRepProofs** (`ReqRepTypeCorrect`, `NoSecondAnswer`, `RepliesReachTheirClient`,
`RecvMatchesSend`, `AwaitedRequestTraced`; from `TopologiesAssumption`,
`DealersAssumption`, `NoneAssumption`, `BoundsAssumption` and
`IdentitiesAssumption`). The last says that a server knows no two clients under one
identity. It is an assumption on the environment: identities are chosen by clients,
or drawn at random, and the code does not check them. A message is known by the
request it belongs to. `FormatInv` says that what is on a connection are requests
and answers of its client; `QueuesInv` and `PlaceInv` that a request is in one place
at most, on a connection or with a server; `AnswersInv` ties the place to how often
it was answered, which gives `AnsweredOnce`. For a client outside `mixed`, `OnlyInv`
says that its connection is the only one under its identity and `WireInv` that
nothing but the request it waits for and its answer is on the way; so the answer it
gets is the one. `RoutedInv`, `FlushInv` and `TraceInv` say where that request is,
unless its connection broke.

**ConnectionProofs**, the handshake (`HandshakeImplementsPeering`; from `NamesAssumption`,
`VersionAssumption`, `TypesAssumption` and `ScriptsAssumption`). Every behaviour of
Handshake is one of Peering, for any names, versions, socket types and scripts of
foreign peers. The step that joins needs to know that the frame it reads is what the
peer announced: `WireInv` says that the frames an end has read, followed by those on
its wire, are the first ones of all its peer ever sends, and that an end is past the
greeting only when the version was acceptable. `JoinSymmetric` shows that
`compatible` answers true for a pair exactly when it does for the pair swapped,
STREAM included, so the verdict of one end is that of both; `VersionOrder` that
comparing pairs of bytes is comparing 16-bit numbers. Each action is then a `Join`,
`Refuse` or `Fail` of Peering or a stutter.

**ConnectionProofs**, the life of a socket (`ListenersMatchBinds`,
`ShownEndpointsReach`, with the inductive `ListenInvariant`). `HandlesInv` says that
the map of handles holds different listeners, all at work and none told to stop;
`LiveInv` that whatever was bound and not unbound has its handle there, unless an equal
endpoint took its place; `TasksInv` that an accept task that still runs has a handle,
lost it, or is the one `unbind` waits for. The last is why the socket keeps no listener
that an application has unbound: there is nobody else who could hold it. `AddressInv`
says that the endpoint a listener is filed under gives its address. That its text
leads back to it is then a fact about operators, `EndpointRoundTrip`: the last colon
that `Display` writes is the one that `FromStr` cuts at, the brackets of an IPv6
address come off again, and a name is shown as it was parsed and so is parsed as it
was. Of the standard library this takes `ShowAssumption` (an address or port that is
shown parses as itself, and no IPv4 address begins with a bracket); of the scenes,
that texts are texts, listeners that are handed over have an address, and the system
picks ports of 16 bits (`ScenesAssumption`, `ListenersAssumption`, `PortsAssumption`).

**XPubProxyProofs** (`ProxyServesOnce`; from `EarlyAssumption`, `PrefixAssumption`,
`FiltersAssumption` and `BoundsAssumption`: finitely many clients and filters).
Where a due message is: `DueInv` says that it is in the publisher's stream or in the
proxy's hand with an entry that matches it, or among the writes to do under the
client's open connection, or received, or the proxy has ended. For that, `SteadyInv`
says that a client to whom something is due has its latest connection registered, by its
entry, that its stream is that connection's or none (it may have lost it to the second
step of a disconnection), and that it has sent nothing that takes a subscription back; `LinkInv`
that nothing is due once the publisher's connection is lost, and that its end is the
last item of its stream. That nobody is served twice follows from the numbers of
messages: those in the stream increase (`QueueInv`), the one in hand is smaller
(`AheadInv`), what a client has is smaller still while a write to it is to do
(`GotInv`), and there is one such write at most (`HandInv`). The proof, which is for
any number of connections, brought the overtaken accept task of section 4, item 9,
to light.

Also there: `UpstreamKnowsFilters` (with `UpstreamAccount`, its invariant `CoverInv`).
`UpstreamCovers` compares what the publisher counts with what subscribers hold, and
between the two are pipes, entries and the proxy's hand. The invariant speaks of
*readings*: what each connection has asked for in the part of its pipe that the proxy
has read. No variable of the model holds them, so `Accounted` says that there are
some: what is left of a pipe leads from its reading to what the application wants
(`PipesInv`), an entry counts no more than the readings under its identity
(`EntriesInv`), and the subscriptions passed on are at least the readings that have
the filter, with the message in hand on either side of the account (`OwedInv`). The
publisher has what was passed on, but for the filters that a new one was sent too few
times or missed (`TableInv`). Each step of a client or of the proxy keeps the
readings or changes one of them, and the proofs give the changed one.

**Only model-checked.** Liveness under fairness, which this prover does not cover
(`NoStarvation`, `PollReturns`, `SendReturnsUnlessUnspawned`, `DisconnectCompletes`,
`EveryMessageFannedOut`, `ReconnectsUnlessUnheard`, `ReconnectTaskStops`,
`StreamEnds`, `HandshakeSettles`, `LateBindReached`, `ResourcesReleased`,
`SubscriptionArrives`). Every invariant and every action property of the runs that
pass has a theorem.

## 6. Not modelled

The proxy between other sockets than XSUB and XPUB, which runs the same loop; ROUTER's identity frame and clones of its send half; failing calls of bind; the lengths of
backoffs and timeouts; batching of writes (a batch is its single
writes); monitors other than the generic backend's. Error types and re-exports of the runtimes
have no state worth a model. Of the libraries, modelled from their use:
the concurrent map with its entry guards, channels of the futures crate, the bounded
lock-free queue, wakers and the transport.

## 7. Plan

Done, in this order: FairQueue with its proofs (every `recv` rests on it),
GenericBackend, PubSocket with its wake proof, SubSocket, Wire and Codec with their
proofs, ReqRep; Handshake with Peering and the proof of the refinement, Endpoint and Lifecycle, XPubProxy;
then the proofs of the safety properties of GenericBackend, PubSocket, SubSocket, ReqRep,
XPubProxy and Lifecycle, of how streams leave the fair queue, and of the codec's round trip.

Next, by importance:

1. Abstract specifications: a mailbox per peer that FairQueue implements, a
   request-reply channel that ReqRep implements for clients outside `mixed`.
2. The heap of (priority, key) with its comparison, against the sequence.
3. A codec shared by Codec and Handshake, so that the handshake's messages are the
   frames of `Wire`.
