--------------------------- MODULE GenericBackend ---------------------------
(***************************************************************************)
(* The peer registry of PUSH, PULL, DEALER and ROUTER sockets              *)
(* (GenericSocketBackend, src/src/backend.rs) with its send paths.         *)
(*                                                                         *)
(* The registry is four structures that no common lock protects: the peers *)
(* map, the round_robin queue of identities, the peer_count atomic and the *)
(* single_peer cache that lets a socket with one peer skip the other       *)
(* three.  They are changed by concurrent tasks, each of which runs one    *)
(* procedure at a time:                                                    *)
(*   connector of c   peer_connected, after the handshake of connection c  *)
(*   writer of c      write_message_queue, then peer_disconnected if a     *)
(*                    write failed                                         *)
(*   receiver         peer_disconnected, when a stream of the fair queue   *)
(*                    ended or yielded an error                            *)
(*   sender           send_round_robin or send_to_peer (send borrows the   *)
(*                    socket mutably, so there is one), which calls        *)
(*                    peer_disconnected when a send fails                  *)
(* One action is one access to the registry; pushing an identity and       *)
(* handing its stream to the fair queue, which nothing else relates, are   *)
(* one step, and so are dropping the stream and telling the monitor.       *)
(*                                                                         *)
(* A connection stands for its mpsc channel too: peers[k] = c means that   *)
(* the entry of k holds a sender of c's channel.  Messages are counted,    *)
(* not named.                                                            *)
(***************************************************************************)
EXTENDS Integers, Sequences, FiniteSets

CONSTANTS
  Keys,      \* peer identities
  Conns,     \* connections; each completes one handshake
  NoConn,    \* no connection
  NoKey,     \* no identity
  Handshakes,  \* the ways the connections may present identities
  Capacity,    \* bound: messages in a channel that make a sender wait
  MaxBacklog,  \* bound: messages in a channel, those of cancelled sends included
  MaxFailures  \* bound: writes that fail and streams that end

ASSUME ConnsAssumption == NoConn \notin Conns /\ IsFiniteSet(Conns)
ASSUME KeysAssumption == NoKey \notin Keys /\ IsFiniteSet(Keys)
ASSUME HandshakesAssumption == Handshakes \subseteq [Conns -> Keys]
ASSUME BoundsAssumption ==
  Capacity \in Nat \ {0} /\ MaxBacklog \in Nat /\ MaxBacklog > Capacity /\ MaxFailures \in Nat

VARIABLES
  peers,         \* peers: the connection registered for each identity
  round_robin,   \* round_robin
  peer_count,    \* peer_count
  single_peer,   \* single_peer
  job,           \* job[t]: where task t is in its procedure
  writer,        \* writer[c]: c's writer task
  queued,        \* queued[c]: messages in c's channel
  reading,       \* reading[k]: the connection whose stream the fair queue holds
  send,          \* the sender's call
  identity,      \* identity[c]: what the handshake of c presented
  router,        \* the socket addresses its sends: it is a ROUTER
  failures,      \* writes that failed and streams that ended
  \* history
  joined,        \* joined[k]: times an entry of k was created
  left,          \* left[k]: Disconnected(k) events given to the monitor
  overlapped,    \* another task was refreshing the cache when the last one began
  forgotten      \* identities a cancelled send kept out of the rotation

registry == <<peers, round_robin, peer_count, single_peer>>
channels == <<writer, queued>>
history == <<joined, left, overlapped, forgotten>>
environment == <<identity, router, failures>>
vars == <<registry, job, channels, reading, send, environment, history>>

-----------------------------------------------------------------------------
Connector(c) == <<"connector", c>>
Writer(c) == <<"writer", c>>
Receiver == <<"receiver", NoConn>>
Sender == <<"sender", NoConn>>
Tasks == {Connector(c) : c \in Conns} \cup {Writer(c) : c \in Conns}
           \cup {Receiver, Sender}

\* idle, then upsert (a connector) or remove (peer_disconnected), then the three
\* steps of refresh_single_peer_cache, then the rest of the procedure.
Stages == {"idle", "upsert", "remove", "len", "store", "cache",
           "spawn", "join", "done", "notify"}
\* count: the length refresh_single_peer_cache read.  removed: peer_removed.
Jobs == [stage : Stages, key : Keys \cup {NoKey}, count : 0..Cardinality(Keys),
         removed : BOOLEAN]

\* try: where the call is; full and flush wait for the channel, with the map's
\* entry guarded, cached_flush waits with a sender of its own.  to: the identity
\* send_to_peer was given, NoKey for send_round_robin.  key: the identity taken
\* from round_robin.  conn: the connection whose channel the call waits for.
Tries == {"idle", "cached", "cached_full", "cached_flush", "pop", "get", "full",
          "flush", "failed"}
Sends == [try : Tries, to : Keys \cup {NoKey}, key : Keys \cup {NoKey},
          conn : Conns \cup {NoConn}]

TypeOK ==
  /\ peers \in [Keys -> Conns \cup {NoConn}]
  /\ round_robin \in Seq(Keys)
  /\ peer_count \in 0..Cardinality(Keys)
  /\ single_peer \in Conns \cup {NoConn}
  /\ job \in [Tasks -> Jobs]
  /\ writer \in [Conns -> {"none", "running", "failed", "ended"}]
  /\ queued \in [Conns -> Nat]
  /\ reading \in [Keys -> Conns \cup {NoConn}]
  /\ send \in Sends
  /\ identity \in Handshakes
  /\ router \in BOOLEAN
  /\ failures \in 0..MaxFailures
  /\ joined \in [Keys -> Nat] /\ left \in [Keys -> Nat]
  /\ overlapped \in BOOLEAN
  /\ forgotten \subseteq Keys

NoJob == [stage |-> "idle", key |-> NoKey, count |-> 0, removed |-> FALSE]
NoSend == [try |-> "idle", to |-> NoKey, key |-> NoKey, conn |-> NoConn]

Init ==
  /\ identity \in Handshakes
  /\ peers = [k \in Keys |-> NoConn]
  /\ round_robin = <<>>
  /\ peer_count = 0
  /\ single_peer = NoConn
  /\ job = [t \in Tasks |->
              IF \E c \in Conns : t = Connector(c)
                THEN [NoJob EXCEPT !.stage = "upsert", !.key = identity[t[2]]]
                ELSE NoJob]
  /\ writer = [c \in Conns |-> "none"]
  /\ queued = [c \in Conns |-> 0]
  /\ reading = [k \in Keys |-> NoConn]
  /\ send = NoSend
  /\ router \in BOOLEAN
  /\ failures = 0
  /\ joined = [k \in Keys |-> 0]
  /\ left = [k \in Keys |-> 0]
  /\ overlapped = FALSE
  /\ forgotten = {}

Registered == {k \in Keys : peers[k] # NoConn}
EntryHeldByAnySend(k) == send.try # "idle"
\* A sender that waits for a full channel keeps its guard on the map's entry.
EntryHeld(k) == send.try \in {"full", "flush"} /\ send.key = k
\* Some sender of c's channel exists.
HasSender(c) == peers[identity[c]] = c \/ single_peer = c \/ send.conn = c
Refreshing(t) == job[t].stage \in {"store", "cache"}
Goto(t, s) == job' = [job EXCEPT ![t].stage = s]

-----------------------------------------------------------------------------
(* refresh_single_peer_cache, by a connector or by whoever runs            *)
(* peer_disconnected                                                       *)

ReadLen(t) ==
  /\ job[t].stage = "len"
  /\ job' = [job EXCEPT ![t].stage = "store", ![t].count = Cardinality(Registered)]
  /\ overlapped' = \E u \in Tasks \ {t} : Refreshing(u)
  /\ UNCHANGED <<registry, channels, reading, send, joined, left, forgotten,
                 environment>>

StoreCount(t) ==
  /\ job[t].stage = "store"
  /\ peer_count' = job[t].count
  /\ Goto(t, "cache")
  /\ UNCHANGED <<peers, round_robin, single_peer, channels, reading, send,
                 history, environment>>

KeepCacheUnlessSingle(t) ==
  IF job[t].count = 1
    THEN IF Registered = {} THEN single_peer' = NoConn
         ELSE \E k \in Registered : single_peer' = peers[k]
    ELSE UNCHANGED single_peer

\* begin_sync gives some entry the map holds then, if any, once it has locked it.
Recache(t) ==
  IF job[t].count = 1 /\ Registered # {}
    THEN \E k \in Registered : ~EntryHeld(k) /\ single_peer' = peers[k]
    ELSE single_peer' = NoConn

UpdateCache(t) ==
  /\ job[t].stage = "cache"
  /\ Recache(t)
  /\ job' = [job EXCEPT ![t].stage = IF t[1] = "connector" THEN "spawn" ELSE "notify",
                        ![t].count = 0]
  /\ UNCHANGED <<peers, round_robin, peer_count, channels, reading, send,
                 history, environment>>

-----------------------------------------------------------------------------
(* peer_connected *)

\* A connection of a known identity replaces the entry, and with it the last
\* sender of the old connection's channel.
Upsert(c) ==
  LET k == identity[c] IN
  /\ job[Connector(c)].stage = "upsert"
  /\ ~EntryHeld(k)
  /\ peers' = [peers EXCEPT ![k] = c]
  /\ joined' = IF peers[k] = NoConn
                 THEN [joined EXCEPT ![k] = @ + 1] ELSE joined
  /\ Goto(Connector(c), "len")
  /\ UNCHANGED <<round_robin, peer_count, single_peer, channels, reading, send,
                 left, overlapped, forgotten, environment>>

SpawnWriter(c) ==
  /\ job[Connector(c)].stage = "spawn"
  /\ writer' = [writer EXCEPT ![c] = "running"]
  /\ Goto(Connector(c), "join")
  /\ UNCHANGED <<registry, queued, reading, send, history, environment>>

\* Then the identity joins the rotation and the fair queue gets the stream.
JoinSocket(c) ==
  /\ job[Connector(c)].stage = "join"
  /\ round_robin' = Append(round_robin, identity[c])
  /\ reading' = [reading EXCEPT ![identity[c]] = c]
  /\ forgotten' = forgotten \ {identity[c]}
  /\ Goto(Connector(c), "done")
  /\ UNCHANGED <<peers, peer_count, single_peer, channels, send, joined, left,
                 overlapped, environment>>

-----------------------------------------------------------------------------
(* peer_disconnected *)

Disconnecting(k) == [NoJob EXCEPT !.stage = "remove", !.key = k]

RemoveUnconditionally(t) ==
  /\ peers' = [peers EXCEPT ![job[t].key] = NoConn]
  /\ job' = [job EXCEPT ![t].stage = "len", ![t].removed = TRUE]

TakeEntry(t) ==
  /\ peers' = [peers EXCEPT ![job[t].key] = NoConn]
  /\ job' = [job EXCEPT ![t].stage = "len", ![t].removed = job[t].key \in Registered]

\* remove_sync waits, blocking its thread, for a guard on the entry.
RemovePeer(t) ==
  /\ job[t].stage = "remove"
  /\ ~EntryHeld(job[t].key)
  /\ TakeEntry(t)
  /\ forgotten' = forgotten \ {job[t].key}
  /\ UNCHANGED <<round_robin, peer_count, single_peer, channels, reading, send,
                 joined, left, overlapped, environment>>

\* The fair queue forgets the stream and the monitor is told once an entry.
Notify(t) ==
  LET k == job[t].key IN
  /\ job[t].stage = "notify"
  /\ reading' = [reading EXCEPT ![k] = NoConn]
  /\ left' = IF job[t].removed THEN [left EXCEPT ![k] = @ + 1] ELSE left
  /\ job' = [job EXCEPT ![t] = NoJob]
  /\ send' = IF t = Sender THEN NoSend ELSE send
  /\ UNCHANGED <<registry, channels, joined, overlapped, forgotten, environment>>

-----------------------------------------------------------------------------
(* The writer of c: write_message_queue.  Dropping the receiving end of the  *)
(* channel drops what it still holds.                                        *)

WriteMessage(c) ==
  /\ writer[c] = "running" /\ queued[c] > 0
  /\ queued' = [queued EXCEPT ![c] = @ - 1]
  /\ UNCHANGED <<registry, job, writer, reading, send, history, environment>>

WriteFails(c) ==
  /\ failures < MaxFailures
  /\ failures' = failures + 1
  /\ writer[c] = "running" /\ queued[c] > 0
  /\ writer' = [writer EXCEPT ![c] = "failed"]
  /\ queued' = [queued EXCEPT ![c] = 0]
  /\ job' = [job EXCEPT ![Writer(c)] = Disconnecting(identity[c])]
  /\ UNCHANGED <<registry, reading, send, history, identity, router>>

WriterEnds(c) ==
  /\ writer[c] = "running" /\ queued[c] = 0
  /\ ~HasSender(c)
  /\ writer' = [writer EXCEPT ![c] = "ended"]
  /\ UNCHANGED <<registry, job, queued, reading, send, history, environment>>

\* The fair queue's receiver finds the end of a stream or an error in it.
StreamGone(k) ==
  /\ failures < MaxFailures
  /\ failures' = failures + 1
  /\ job[Receiver].stage = "idle"
  /\ reading[k] # NoConn
  /\ reading' = [reading EXCEPT ![k] = NoConn]
  /\ job' = [job EXCEPT ![Receiver] = Disconnecting(k)]
  /\ UNCHANGED <<registry, channels, send, history, identity, router>>

-----------------------------------------------------------------------------
(* The sender *)

\* A channel takes messages until Capacity wait in it, and one more from each
\* sender that has not waited yet; it is closed once the writer is gone.
Open(c) == writer[c] \in {"none", "running"}
Full(c) == queued[c] >= Capacity

\* CachedSend::Miss: go on with the rotation or the map.
Missed(to) == [NoSend EXCEPT !.try = IF to = NoKey THEN "pop" ELSE "get",
                             !.to = to, !.key = to]

\* send_round_robin, or send_to_peer, loads peer_count.
StartSend(to) ==
  /\ send.try = "idle"
  /\ to \in IF router THEN Keys ELSE {NoKey}
  /\ send' = IF peer_count = 1 THEN [NoSend EXCEPT !.try = "cached", !.to = to]
                               ELSE Missed(to)
  /\ UNCHANGED <<registry, job, channels, reading, history, environment>>

\* The channel takes the message and the call goes on in the state then.
Enqueue(c, then) ==
  /\ queued' = [queued EXCEPT ![c] = @ + 1]
  /\ send' = then
  /\ UNCHANGED job

\* Nothing is enqueued and the call goes on in the state then.
GoOn(then) == send' = then /\ UNCHANGED <<queued, job>>

\* The channel is closed: the call disconnects identity k and returns an error.
Fail(k) ==
  /\ send' = [NoSend EXCEPT !.try = "failed"]
  /\ job' = [job EXCEPT ![Sender] = Disconnecting(k)]
  /\ UNCHANGED queued

UsableCache == single_peer # NoConn /\ send.to \in {NoKey, identity[single_peer]}

\* try_send through the cached sender.
TrySendCached ==
  LET c == single_peer IN
  /\ send.try = "cached"
  /\ \/ ~UsableCache /\ GoOn(Missed(send.to))
     \/ UsableCache /\ Open(c) /\ ~Full(c) /\ Enqueue(c, NoSend)
     \/ UsableCache /\ Open(c) /\ Full(c)
          /\ GoOn([send EXCEPT !.try = "cached_full", !.conn = c])
     \/ UsableCache /\ ~Open(c) /\ Fail(identity[c])
  /\ UNCHANGED <<registry, writer, reading, history, environment>>

\* A clone of the cached sender has not waited yet: its message is taken at
\* once, and the call waits until the channel has drained, with no lock held.
FinishCachedSend ==
  LET c == send.conn IN
  /\ send.try = "cached_full"
  /\ \/ Open(c) /\ Enqueue(c, [send EXCEPT !.try = "cached_flush"])
     \/ ~Open(c) /\ Fail(identity[c])
  /\ UNCHANGED <<registry, writer, reading, history, environment>>

FlushCached ==
  /\ send.try = "cached_flush"
  /\ ~Full(send.conn) \/ ~Open(send.conn)
  /\ GoOn(NoSend)
  /\ UNCHANGED <<registry, writer, reading, history, environment>>

PopRotation ==
  /\ send.try = "pop"
  /\ IF round_robin = <<>>
       THEN send' = NoSend /\ UNCHANGED round_robin
       ELSE /\ send' = [send EXCEPT !.try = "get", !.key = Head(round_robin)]
            /\ round_robin' = Tail(round_robin)
  /\ UNCHANGED <<peers, peer_count, single_peer, job, channels, reading,
                 history, environment>>

NeverRejoins == UNCHANGED round_robin
\* send_round_robin pushes the identity back after a success.
Rejoin == round_robin' = IF send.to = NoKey THEN Append(round_robin, send.key)
                                            ELSE round_robin

\* try_send through the entry of the map.  An identity whose peer is gone is
\* skipped by send_round_robin, an error for send_to_peer.
GetPeer ==
  LET c == peers[send.key] IN
  /\ send.try = "get"
  /\ \/ c = NoConn /\ UNCHANGED round_robin
          /\ GoOn(IF send.to = NoKey THEN [send EXCEPT !.try = "pop", !.key = NoKey]
                                     ELSE NoSend)
     \/ c # NoConn /\ Open(c) /\ ~Full(c) /\ Enqueue(c, NoSend) /\ Rejoin
     \/ c # NoConn /\ Open(c) /\ Full(c) /\ UNCHANGED round_robin
          /\ GoOn([send EXCEPT !.try = "full", !.conn = c])
     \/ c # NoConn /\ ~Open(c) /\ Fail(send.key) /\ UNCHANGED round_robin
  /\ UNCHANGED <<peers, peer_count, single_peer, writer, reading, history, environment>>

FinishSendIgnoresClose ==
  /\ send.try = "full"
  /\ Open(send.conn) /\ ~Full(send.conn)
  /\ Enqueue(send.conn, [send EXCEPT !.try = "flush"])
  /\ UNCHANGED <<registry, writer, reading, history, environment>>

\* send_queue.send waits for room, then until the channel has drained.
FinishSend ==
  LET c == send.conn IN
  /\ send.try = "full"
  /\ \/ Open(c) /\ ~Full(c) /\ Enqueue(c, [send EXCEPT !.try = "flush"])
     \/ ~Open(c) /\ Fail(send.key)
  /\ UNCHANGED <<registry, writer, reading, history, environment>>

Flush ==
  /\ send.try = "flush"
  /\ ~Full(send.conn) \/ ~Open(send.conn)
  /\ GoOn(NoSend)
  /\ Rejoin
  /\ UNCHANGED <<peers, peer_count, single_peer, writer, reading, history, environment>>

\* The send future is dropped while it waits; the identity it popped stays out
\* of round_robin.  What the clone of the cached sender enqueued stays there, on
\* top of Capacity.
CancelSend ==
  /\ send.try \in {"cached_flush", "full", "flush"}
  /\ send.try = "cached_flush" => queued[send.conn] < MaxBacklog
  /\ send' = NoSend
  /\ forgotten' = IF send.try # "cached_flush" /\ send.to = NoKey
                    THEN forgotten \cup {send.key} ELSE forgotten
  /\ UNCHANGED <<registry, job, channels, reading, joined, left, overlapped,
                 environment>>

-----------------------------------------------------------------------------
TaskStep(t) ==
  \/ ReadLen(t) \/ StoreCount(t) \/ UpdateCache(t) \/ RemovePeer(t) \/ Notify(t)
  \/ \E c \in Conns : t = Connector(c) /\ (Upsert(c) \/ SpawnWriter(c) \/ JoinSocket(c))
SenderStep == TrySendCached \/ FinishCachedSend \/ FlushCached \/ PopRotation
              \/ GetPeer \/ FinishSend \/ Flush

Next ==
  \/ \E c \in Conns : WriteMessage(c) \/ WriteFails(c) \/ WriterEnds(c)
  \/ \E t \in Tasks : TaskStep(t)
  \/ \E k \in Keys : StreamGone(k)
  \/ \E to \in Keys \cup {NoKey} : StartSend(to)
  \/ SenderStep
  \/ CancelSend

Spec == Init /\ [][Next]_vars

\* Every task is scheduled, on a thread that no other task blocks, a write to a
\* connection ends or fails, and the map's locks go to those who wait for them.
Fairness ==
  /\ \A t \in Tasks : SF_vars(TaskStep(t))
  /\ \A c \in Conns : WF_vars(WriteMessage(c) \/ WriteFails(c))
  /\ WF_vars(SenderStep)
FairSpec == Spec /\ Fairness

-----------------------------------------------------------------------------
(* Properties *)

\* No task is inside peer_connected or peer_disconnected with a change of the
\* map behind it and its refresh not done.
Settled ==
  \A t \in Tasks : job[t].stage \notin {"len", "store", "cache"}
CacheAccurate ==
  /\ peer_count = Cardinality(Registered)
  /\ IF Cardinality(Registered) = 1
       THEN \E k \in Registered : single_peer = peers[k]
       ELSE single_peer = NoConn

\* When every refresh has finished, peer_count is the number of peers and the
\* cache names the peer if it is the only one, as the unit tests assert, whatever
\* changed the map while a refresh ran.  Excepted are refreshes that overlapped:
\* refresh_single_peer_cache is right but not atomic.
CacheMatchesUnlessOverlap == Settled /\ ~overlapped => CacheAccurate

\* The monitor hears of exactly one Disconnected for every entry that was
\* created and is gone, however many tasks report the same disconnection.
PendingEvents(k) == Cardinality({t \in Tasks : job[t].key = k /\ job[t].removed})
MonitorExact ==
  \A k \in Keys :
    joined[k] = left[k] + PendingEvents(k) + IF k \in Registered THEN 1 ELSE 0

\* send_round_robin drops no connected peer from the rotation: its identity is
\* queued, or the sender holds it, or the peer is about to be removed, or a
\* cancelled send forgot it.
RotationComplete ==
  \A k \in Registered :
    job[Connector(peers[k])].stage = "done" =>
      \/ \E i \in DOMAIN round_robin : round_robin[i] = k
      \/ send.to = NoKey /\ send.try \in {"get", "full", "flush"} /\ send.key = k
      \/ \E t \in Tasks : job[t].stage = "remove" /\ job[t].key = k
      \/ k \in forgotten

\* The sender waits, with the entry guarded, for the writer that the connector
\* spawns after it has locked that entry: neither moves again.
SenderMeetsConnector ==
  /\ send.try \in {"full", "flush"}
  /\ job[Connector(send.conn)].stage = "cache"
  /\ job[Connector(send.conn)].count = 1

\* A send returns, whatever happens to the peers meanwhile, unless it fills the
\* channel of a peer whose connector has not spawned the writer yet.
SendReturnsUnlessUnspawned ==
  send.try # "idle" ~> (send.try = "idle" \/ SenderMeetsConnector)

\* A disconnection is completed, even if a sender guards the entry, with the
\* same exception.
DisconnectCompletes ==
  \A t \in Tasks :
    job[t].stage = "remove" ~> (job[t].stage # "remove" \/ SenderMeetsConnector)
=============================================================================
