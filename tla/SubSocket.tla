----------------------------- MODULE SubSocket -----------------------------
(***************************************************************************)
(* A SUB or XSUB socket connected to one endpoint: the subscriptions and   *)
(* peers of SubSocketBackend (src/src/sub_backend.rs) and the task that    *)
(* reconnects to the endpoint (src/src/reconnect.rs).                      *)
(*                                                                         *)
(* Two tasks share the backend.  The application calls connect, subscribe, *)
(* unsubscribe and recv, one at a time because each borrows the socket     *)
(* mutably, and drops it.  The reconnect task waits for the notice that    *)
(* peer_disconnected sends through the notifier of the lost peer, backs    *)
(* off, connects, replays the subscriptions and registers a notifier for   *)
(* the new peer.  The first connection takes the same steps inside the     *)
(* call of connect.                                                        *)
(*                                                                         *)
(* Every connection gets an identity of its own, so a connection stands    *)
(* for its peer.  The wire is abstracted to remote[c], the subscriptions   *)
(* the peer holds once it has read all that was sent; a send on a lost     *)
(* connection fails or is lost.  An attempt to reconnect lasts as long as  *)
(* the server lets it.  The application may drop the future of subscribe   *)
(* or unsubscribe while it broadcasts.  Not modelled: the lengths of the   *)
(* backoffs, a connect that is dropped or fails, which leaves nothing, and *)
(* the monitor.                                                            *)
(***************************************************************************)
EXTENDS Integers, FiniteSets

CONSTANTS
  Topics,      \* subscription prefixes
  MaxConns,    \* bound: connections to the endpoint
  MaxRepeats   \* bound: a peer's subscriptions to a prefix when it is subscribed again

ASSUME BoundsAssumption == MaxConns \in Nat \ {0} /\ MaxRepeats \in Nat

Conns == 1..MaxConns

VARIABLES
  subs,        \* subs: the subscriptions remembered
  peers,       \* peers: the connections that broadcasts reach
  reading,     \* the connections whose streams the fair queue holds
  notifiers,   \* disconnect_notifiers: the connections that have one
  notices,     \* notices in the reconnect task's channel
  alive,       \* the connections that are up
  remote,      \* remote[c][t]: how often c's peer is subscribed to t
  app,         \* the application's call
  recon,       \* the reconnect task
  \* history
  missed,      \* missed[c]: topics remembered that the call did not tell c's peer,
               \* which was being set up or had its turn after the call was dropped
  unheard      \* connections lost with nobody left to reconnect

vars == <<subs, peers, reading, notifiers, notices, alive, remote, app, recon,
          missed, unheard>>

\* op: the call, or the step of it; topic, kind: what is broadcast; todo: the
\* peers it has still to reach; dead: those to disconnect.
Calls == [op : {"connect", "idle", "collect", "broadcast", "remove", "notify", "dropped"},
          kind : {"none", "subscribe", "unsubscribe"},
          topic : SUBSET Topics, todo : SUBSET Conns, dead : SUBSET Conns]
\* at: where the task is; conn: its last connection; snapshot: the subscriptions
\* it replays; todo: those still to be sent.
Attempts == [at : {"snapshot", "resend", "insert", "register", "wait",
                   "backoff", "connecting", "stopped"},
             conn : Conns, snapshot : SUBSET Topics, todo : SUBSET Topics]

TypeOK ==
  /\ subs \subseteq Topics
  /\ peers \subseteq Conns /\ reading \subseteq Conns
  /\ notifiers \subseteq Conns /\ notices \in Nat
  /\ alive \subseteq Conns
  /\ remote \in [Conns -> [Topics -> Nat]]
  /\ app \in Calls
  /\ recon \in Attempts
  /\ missed \in [Conns -> SUBSET Topics]
  /\ unheard \subseteq Conns

NoTopics == [t \in Topics |-> 0]
Idle == [op |-> "idle", kind |-> "none", topic |-> {}, todo |-> {}, dead |-> {}]

\* The application subscribed to something or nothing and called connect, which
\* has made a connection.
Init ==
  /\ subs \in SUBSET Topics
  /\ peers = {} /\ reading = {} /\ notifiers = {} /\ notices = 0
  /\ alive = {1}
  /\ remote = [c \in Conns |-> NoTopics]
  /\ app = [Idle EXCEPT !.op = "connect"]
  /\ recon = [at |-> "snapshot", conn |-> 1, snapshot |-> {}, todo |-> {}]
  /\ missed = [c \in Conns |-> {}] /\ unheard = {}

-----------------------------------------------------------------------------
(* peer_connected, by connect or by the reconnect task *)

backend == <<subs, peers, reading, notifiers, notices, remote>>
history == <<missed, unheard>>

SnapshotSubs ==
  /\ recon.at = "snapshot"
  /\ recon' = [recon EXCEPT !.at = "resend", !.snapshot = subs, !.todo = subs]
  /\ UNCHANGED <<backend, alive, app, history>>

\* A send on a lost connection may seem to succeed.
Resend(t) ==
  /\ recon.at = "resend" /\ t \in recon.todo
  /\ remote' = IF recon.conn \in alive
                 THEN [remote EXCEPT ![recon.conn][t] = @ + 1] ELSE remote
  /\ recon' = [recon EXCEPT !.todo = @ \ {t}]
  /\ UNCHANGED <<subs, peers, reading, notifiers, notices, alive, app, history>>

\* peer_connected returns without registering the peer; its caller goes on.
ResendFails ==
  /\ recon.at = "resend" /\ recon.todo # {}
  /\ recon.conn \notin alive
  /\ unheard' = unheard \cup {recon.conn}
  /\ recon' = [recon EXCEPT !.at = "register", !.snapshot = {}, !.todo = {}]
  /\ UNCHANGED <<backend, alive, app, missed>>

UpsertEarly ==
  /\ recon.at = "resend"
  /\ peers' = peers \cup {recon.conn}
  /\ recon' = [recon EXCEPT !.at = "insert", !.snapshot = {}, !.todo = {}]
  /\ UNCHANGED <<subs, reading, notifiers, notices, remote, alive, app, history>>

Upsert ==
  /\ recon.at = "resend" /\ recon.todo = {}
  /\ peers' = peers \cup {recon.conn}
  /\ recon' = [recon EXCEPT !.at = "insert", !.snapshot = {}]
  /\ UNCHANGED <<subs, reading, notifiers, notices, remote, alive, app, history>>

InsertStream ==
  /\ recon.at = "insert"
  /\ reading' = reading \cup {recon.conn}
  /\ recon' = [recon EXCEPT !.at = "register"]
  /\ UNCHANGED <<subs, peers, notifiers, notices, remote, alive, app, history>>

-----------------------------------------------------------------------------
(* The reconnect task *)

\* register_disconnect_fn; at the first connection it ends the call of connect.
Register ==
  /\ recon.at = "register"
  /\ notifiers' = notifiers \cup {recon.conn}
  /\ recon' = [recon EXCEPT !.at = "wait"]
  /\ app' = IF app.op = "connect" THEN Idle ELSE app
  /\ UNCHANGED <<subs, peers, reading, notices, remote, alive, history>>

AwaitNotice ==
  /\ recon.at = "wait" /\ notices > 0
  /\ notices' = notices - 1
  /\ recon' = [recon EXCEPT !.at = "backoff"]
  /\ UNCHANGED <<subs, peers, reading, notifiers, remote, alive, app, history>>

\* The backoff is over: try_reconnect connects and shakes hands.  It has no
\* timeout and does not look at the shutdown signal.
TryReconnect ==
  /\ recon.at = "backoff"
  /\ recon' = [recon EXCEPT !.at = "connecting"]
  /\ UNCHANGED <<backend, alive, app, history>>

\* The handshake succeeds, and try_reconnect calls peer_connected.
Connected ==
  /\ recon.at = "connecting" /\ recon.conn < MaxConns
  /\ recon' = [recon EXCEPT !.at = "snapshot", !.conn = @ + 1]
  /\ alive' = alive \cup {recon.conn + 1}
  /\ UNCHANGED <<backend, app, history>>

\* Nobody listens, or the handshake fails: the task backs off again.
AttemptFails ==
  /\ recon.at = "connecting"
  /\ recon' = [recon EXCEPT !.at = "backoff"]
  /\ UNCHANGED <<backend, alive, app, history>>

StopsWhenWaiting ==
  /\ recon.at = "wait" /\ app.op = "dropped"
  /\ recon' = [recon EXCEPT !.at = "stopped"]
  /\ UNCHANGED <<backend, alive, app, history>>

\* select! sees the shutdown signal while it waits or backs off.
StopReconnecting ==
  /\ recon.at \in {"wait", "backoff"} /\ app.op = "dropped"
  /\ recon' = [recon EXCEPT !.at = "stopped"]
  /\ UNCHANGED <<backend, alive, app, history>>

-----------------------------------------------------------------------------
(* The application *)

\* remember_subscription
Subscribe(t) ==
  /\ app.op = "idle"
  /\ \A c \in Conns : remote[c][t] < MaxRepeats
  /\ subs' = subs \cup {t}
  /\ app' = [Idle EXCEPT !.op = "collect", !.kind = "subscribe", !.topic = {t}]
  /\ UNCHANGED <<peers, reading, notifiers, notices, remote, alive, recon, history>>

\* forget_subscription
Unsubscribe(t) ==
  /\ app.op = "idle"
  /\ subs' = subs \ {t}
  /\ app' = [Idle EXCEPT !.op = "collect", !.kind = "unsubscribe", !.topic = {t}]
  /\ UNCHANGED <<peers, reading, notifiers, notices, remote, alive, recon, history>>

\* broadcast_control_message reads the peers, sends to each in turn, and then
\* disconnects those whose pipe was broken.
Collect ==
  /\ app.op = "collect"
  /\ app' = [app EXCEPT !.op = "broadcast", !.todo = peers]
  /\ missed' = IF recon.at = "resend" /\ app.kind = "subscribe"
                 THEN [missed EXCEPT ![recon.conn] = @ \cup (app.topic \ recon.snapshot)]
                 ELSE missed
  /\ UNCHANGED <<backend, alive, recon, unheard>>

Told(n) == CASE app.kind = "subscribe" -> n + 1
             [] OTHER -> IF n > 0 THEN n - 1 ELSE 0

SendControl(c) ==
  /\ app.op = "broadcast" /\ c \in app.todo
  /\ app' = [app EXCEPT !.todo = @ \ {c}]
  /\ remote' = IF c \in alive
                 THEN [remote EXCEPT ![c] = [t \in Topics |->
                         IF t \in app.topic THEN Told(@[t]) ELSE @[t]]]
                 ELSE remote
  /\ UNCHANGED <<subs, peers, reading, notifiers, notices, alive, recon, history>>

BrokenPipe(c) ==
  /\ app.op = "broadcast" /\ c \in app.todo \ alive
  /\ app' = [app EXCEPT !.todo = @ \ {c}, !.dead = @ \cup {c}]
  /\ UNCHANGED <<backend, alive, recon, history>>

EndBroadcast ==
  /\ app.op = "broadcast" /\ app.todo = {}
  /\ app' = IF app.dead = {} THEN Idle
            ELSE [Idle EXCEPT !.op = "remove", !.dead = app.dead]
  /\ UNCHANGED <<backend, alive, recon, history>>

\* The peers that the call under way has still to tell what it is about, and the one
\* whose peer_connected read subs before.
Untold == IF app.op = "collect" THEN peers ELSE app.todo
Racing == {c \in Conns : recon.at = "resend" /\ c = recon.conn}

\* The future of subscribe or unsubscribe is dropped before its broadcast is over.
\* Peers found broken are left to recv.  A message left in a peer's write buffer
\* goes out before the next one: the peer counts as told, or as untold.
DropCall ==
  /\ app.op \in {"collect", "broadcast"}
  /\ app' = Idle
  /\ missed' = IF app.kind = "subscribe"
                 THEN [c \in Conns |-> missed[c] \cup
                         (IF c \in Untold THEN app.topic ELSE {}) \cup
                         (IF c \in Racing THEN app.topic \ recon.snapshot ELSE {})]
                 ELSE missed
  /\ UNCHANGED <<backend, alive, recon, unheard>>

\* recv finds the end of a stream, or an error in it.
RecvEnd(c) ==
  /\ app.op = "idle" /\ c \in reading \ alive
  /\ app' = [Idle EXCEPT !.op = "remove", !.dead = {c}]
  /\ UNCHANGED <<backend, alive, recon, history>>

NotifyForever(c) ==
  IF c \in notifiers THEN notices' = notices + 1 /\ UNCHANGED notifiers
                     ELSE UNCHANGED <<notices, notifiers>>
DropNotifier(c) == notifiers' = notifiers \ {c} /\ UNCHANGED notices
\* The notifier of a peer serves once.
UseNotifier(c) ==
  IF c \in notifiers
    THEN notices' = notices + 1 /\ notifiers' = notifiers \ {c}
    ELSE UNCHANGED <<notices, notifiers>>

\* peer_disconnected
RemovePeer(c) ==
  /\ app.op = "remove" /\ c \in app.dead
  /\ peers' = peers \ {c}
  /\ reading' = reading \ {c}
  /\ app' = [app EXCEPT !.op = "notify", !.todo = {c}]
  /\ UNCHANGED <<subs, notifiers, notices, remote, alive, recon, history>>

NotifyReconnect(c) ==
  /\ app.op = "notify" /\ c \in app.todo
  /\ UseNotifier(c)
  /\ unheard' = IF c \in notifiers THEN unheard ELSE unheard \cup {c}
  /\ app' = IF app.dead = {c} THEN Idle
            ELSE [Idle EXCEPT !.op = "remove", !.dead = app.dead \ {c}]
  /\ UNCHANGED <<subs, peers, reading, remote, alive, recon, missed>>

\* Drop tells the reconnect task to stop and shuts the backend down.
DropSocket ==
  /\ app.op = "idle"
  /\ app' = [Idle EXCEPT !.op = "dropped"]
  /\ peers' = {} /\ reading' = {}
  /\ UNCHANGED <<subs, notifiers, notices, remote, alive, recon, history>>

\* The connection breaks, and with it ends what its peer knew.
ConnectionLost(c) ==
  /\ c \in alive
  /\ alive' = alive \ {c}
  /\ remote' = [remote EXCEPT ![c] = NoTopics]
  /\ UNCHANGED <<subs, peers, reading, notifiers, notices, app, recon, history>>

-----------------------------------------------------------------------------
\* Steps of the task that wait for the server, and the others.
AttemptStep == Connected \/ AttemptFails \/ \E t \in Topics : Resend(t)
ReconnectStep ==
  \/ SnapshotSubs \/ ResendFails \/ Upsert \/ InsertStream \/ Register \/ AwaitNotice
  \/ TryReconnect \/ StopReconnecting
CallStep ==
  \/ Collect \/ EndBroadcast
  \/ \E c \in Conns : SendControl(c) \/ BrokenPipe(c) \/ RemovePeer(c) \/ NotifyReconnect(c)

Next ==
  \/ ReconnectStep \/ AttemptStep
  \/ CallStep \/ DropCall
  \/ \E c \in Conns : RecvEnd(c) \/ ConnectionLost(c)
  \/ \E t \in Topics : Subscribe(t) \/ Unsubscribe(t)
  \/ DropSocket

Spec == Init /\ [][Next]_vars

\* The reconnect task is scheduled, and a select! that finds the shutdown signal
\* ready time and again takes it; nothing is assumed of the server it connects to.
\* Calls return or are dropped, and the application calls recv again and again.
FairSpec ==
  /\ Spec
  /\ WF_vars(ReconnectStep) /\ SF_vars(StopReconnecting)
  /\ WF_vars(CallStep)
  /\ SF_vars(\E c \in Conns : RecvEnd(c))

-----------------------------------------------------------------------------
(* Properties *)

Knows(c, t) == remote[c][t] > 0

\* Between two calls, every peer that is connected has every subscription the
\* socket remembers: new peers get them all, broadcasts reach the others.  Excepted
\* are those remembered after peer_connected read subs and broadcast before it
\* registered the peer, and those whose subscribe was dropped before the peer's turn.
SubscriptionsReachPeersUnlessRaced ==
  app.op = "idle" =>
    \A c \in peers \cap alive : \A t \in subs : Knows(c, t) \/ t \in missed[c]

\* The endpoint is never connected twice: an old peer is gone before the task
\* reconnects, and no disconnection sets it off twice.
OneConnection == Cardinality(peers) <= 1 /\ notices + Cardinality(notifiers) <= 1

\* When the connection is lost, the task sets out to reconnect, unless it was lost
\* while its peer was being registered, before there was a notifier.
ReconnectsUnlessUnheard ==
  recon.at = "wait" /\ recon.conn \notin alive
    ~> recon.at # "wait" \/ app.op = "dropped" \/ recon.conn \in unheard

\* The task waits for the server: for the connection, for its part of the handshake
\* or for room to write.
AwaitsServer ==
  \/ recon.at = "connecting"
  \/ recon.at = "resend" /\ recon.todo # {} /\ recon.conn \in alive

\* Dropping the socket ends the reconnect task, whether it waits, backs off or is in
\* the middle of an attempt, however many attempts fail first, unless that attempt
\* never ends because the server is silent.
ReconnectTaskStops ==
  app.op = "dropped" ~> (recon.at = "stopped" \/ []AwaitsServer)
=============================================================================
