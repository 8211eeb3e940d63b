-------------------------- MODULE SubSocketProofs --------------------------
(***************************************************************************)
(* A SUB socket keeps one connection to its endpoint, and the peer of that *)
(* connection has every subscription the socket remembers, up to the ones  *)
(* that race with its set-up or whose call was dropped.                    *)
(***************************************************************************)
EXTENDS SubSocket, FiniteSetTheorems, TLAPS

\* The connection is being set up: nobody but the task knows of it.
SettingUp == recon.at \in {"snapshot", "resend"}

\* The task has a notice and has not registered the next peer.
Between == recon.at \in {"backoff", "connecting", "snapshot", "resend"}

\* Everything the backend and the calls hold is a connection the task has
\* registered, at the latest the last one.
KnownConn(c) == c \in 1..recon.conn /\ (SettingUp => c # recon.conn)
ConnsInv == \A c \in peers \cup reading \cup app.todo \cup app.dead : KnownConn(c)

\* Only the last connection is a peer or has a notifier, and neither outlives the
\* notice.
LatestInv ==
  /\ peers \subseteq {recon.conn}
  /\ notifiers \subseteq {recon.conn}
  /\ Between => peers = {}
  /\ recon.at \notin {"wait", "stopped"} => notifiers = {} /\ notices = 0
  /\ notices = 0 \/ (notices = 1 /\ notifiers = {} /\ peers = {})

\* The notifier is called for a peer that is no longer registered.
NotifyInv == app.op = "notify" => app.todo \cap peers = {}

\* The application is in the middle of subscribing to t, and c is still to be told.
ToldLater(c, t) ==
  /\ app.kind = "subscribe" /\ t \in app.topic
  /\ app.op = "collect" \/ (app.op = "broadcast" /\ c \in app.todo)

\* What is replayed covers what is remembered, but for what was broadcast meanwhile.
ReplayInv ==
  recon.at = "resend" =>
    /\ recon.conn \in alive =>
         \A t \in recon.snapshot \ recon.todo : Knows(recon.conn, t)
    /\ \A t \in subs : \/ t \in recon.snapshot
                       \/ t \in missed[recon.conn]
                       \/ app.op = "collect" /\ ToldLater(recon.conn, t)

\* A registered peer has what is remembered, or will be told by the call under way.
PeersKnowInv ==
  \A c \in peers \cap alive : \A t \in subs :
    Knows(c, t) \/ t \in missed[c] \/ ToldLater(c, t)

\* What a call is about and does not subscribe to is forgotten already.
ForgottenInv == app.kind # "subscribe" => app.topic \cap subs = {}

IInv ==
  /\ TypeOK /\ ConnsInv /\ LatestInv /\ NotifyInv /\ ReplayInv /\ PeersKnowInv
  /\ ForgottenInv

-----------------------------------------------------------------------------
(* One lemma per action *)

\* Reading the subscriptions for the replay keeps the invariant.
LEMMA SnapshotSubsKeeps == ASSUME IInv, SnapshotSubs PROVE IInv'
<1> USE DEF IInv
<1>1. TypeOK'
  BY DEF TypeOK, Attempts, SnapshotSubs, backend, history
<1>2. ConnsInv'
  BY DEF ConnsInv, KnownConn, SettingUp, SnapshotSubs, backend
<1>3. LatestInv'
  BY DEF LatestInv, Between, SnapshotSubs, backend
<1>4. NotifyInv'
  BY DEF NotifyInv, SnapshotSubs, backend
<1>5. ReplayInv'
  BY DEF ReplayInv, SnapshotSubs, backend
<1>6. PeersKnowInv'
  BY DEF LatestInv, Between, PeersKnowInv, SnapshotSubs, backend
<1>7. ForgottenInv'
  BY DEF ForgottenInv, SnapshotSubs, backend
<1> QED
  BY <1>1, <1>2, <1>3, <1>4, <1>5, <1>6, <1>7

\* Replaying one subscription keeps the invariant.
LEMMA ResendKeeps == ASSUME IInv, NEW t \in Topics, Resend(t) PROVE IInv'
<1> USE DEF IInv
<1>1. TypeOK'
  <2>1. recon.conn \in Conns
    BY DEF TypeOK, Attempts
  <2>2. remote' \in [Conns -> [Topics -> Nat]]
    BY <2>1 DEF TypeOK, Resend
  <2>3. recon' \in Attempts
    BY DEF TypeOK, Attempts, Resend
  <2> QED
    BY <2>2, <2>3 DEF TypeOK, Resend, history
<1>2. ConnsInv'
  BY DEF ConnsInv, KnownConn, SettingUp, Resend
<1>3. LatestInv'
  BY DEF LatestInv, Between, Resend
<1>4. NotifyInv'
  BY DEF NotifyInv, Resend
<1>5. ReplayInv'
  BY DEF TypeOK, ReplayInv, ToldLater, Knows, Resend, history
<1>6. PeersKnowInv'
  BY DEF LatestInv, Between, PeersKnowInv, Resend
<1>7. ForgottenInv'
  BY DEF ForgottenInv, Resend
<1> QED
  BY <1>1, <1>2, <1>3, <1>4, <1>5, <1>6, <1>7

\* Giving the replay up keeps the invariant.
LEMMA ResendFailsKeeps == ASSUME IInv, ResendFails PROVE IInv'
<1> USE DEF IInv
<1>1. TypeOK'
  BY DEF TypeOK, Attempts, ResendFails, backend
<1>2. ConnsInv'
  BY DEF ConnsInv, KnownConn, SettingUp, ResendFails, backend
<1>3. LatestInv'
  BY DEF LatestInv, Between, ResendFails, backend
<1>4. NotifyInv'
  BY DEF NotifyInv, ResendFails, backend
<1>5. ReplayInv'
  BY DEF ReplayInv, ResendFails
<1>6. PeersKnowInv'
  BY DEF TypeOK, Calls, Attempts, ForgottenInv, LatestInv, Between, ReplayInv,
       PeersKnowInv, ToldLater, Knows, ResendFails, backend, history
<1>7. ForgottenInv'
  BY DEF ForgottenInv, ResendFails, backend
<1> QED
  BY <1>1, <1>2, <1>3, <1>4, <1>5, <1>6, <1>7

\* Registering the peer keeps the invariant.
LEMMA UpsertKeeps == ASSUME IInv, Upsert PROVE IInv'
<1> USE DEF IInv
<1>1. TypeOK'
  BY DEF TypeOK, Attempts, Upsert, history
<1>2. ConnsInv'
  BY DEF TypeOK, Attempts, Conns, ConnsInv, KnownConn, SettingUp, Upsert
<1>3. LatestInv'
  BY DEF LatestInv, Between, Upsert
<1>4. NotifyInv'
  BY DEF ConnsInv, NotifyInv, KnownConn, SettingUp, Upsert
<1>5. ReplayInv'
  BY DEF ReplayInv, Upsert
<1>6. PeersKnowInv'
  BY DEF ReplayInv, PeersKnowInv, ToldLater, Knows, Upsert, history
<1>7. ForgottenInv'
  BY DEF ForgottenInv, Upsert
<1> QED
  BY <1>1, <1>2, <1>3, <1>4, <1>5, <1>6, <1>7

\* Handing the stream to the fair queue keeps the invariant.
LEMMA InsertStreamKeeps == ASSUME IInv, InsertStream PROVE IInv'
<1> USE DEF IInv
<1>1. TypeOK'
  BY DEF TypeOK, Attempts, InsertStream, history
<1>2. ConnsInv'
  BY DEF TypeOK, Attempts, Conns, ConnsInv, KnownConn, SettingUp, InsertStream
<1>3. LatestInv'
  BY DEF LatestInv, Between, InsertStream
<1>4. NotifyInv'
  BY DEF NotifyInv, InsertStream
<1>5. ReplayInv'
  BY DEF ReplayInv, InsertStream
<1>6. PeersKnowInv'
  BY DEF PeersKnowInv, ToldLater, Knows, InsertStream, history
<1>7. ForgottenInv'
  BY DEF ForgottenInv, InsertStream
<1> QED
  BY <1>1, <1>2, <1>3, <1>4, <1>5, <1>6, <1>7

\* Registering the notifier keeps the invariant.
LEMMA RegisterKeeps == ASSUME IInv, Register PROVE IInv'
<1> USE DEF IInv
<1>1. TypeOK'
  BY DEF TypeOK, Calls, Attempts, Register, Idle, history
<1>2. ConnsInv'
  BY DEF ConnsInv, KnownConn, SettingUp, Register, Idle
<1>3. LatestInv'
  BY DEF LatestInv, Between, Register
<1>4. NotifyInv'
  BY DEF NotifyInv, Register, Idle
<1>5. ReplayInv'
  BY DEF ReplayInv, Register
<1>6. PeersKnowInv'
  BY DEF PeersKnowInv, ToldLater, Knows, Register, history
<1>7. ForgottenInv'
  BY DEF ForgottenInv, Register, Idle
<1> QED
  BY <1>1, <1>2, <1>3, <1>4, <1>5, <1>6, <1>7

\* Taking a notice keeps the invariant.
LEMMA AwaitNoticeKeeps == ASSUME IInv, AwaitNotice PROVE IInv'
<1> USE DEF IInv
<1>1. TypeOK'
  <2>1. notices' \in Nat
    BY DEF TypeOK, AwaitNotice
  <2>2. recon' \in Attempts
    BY DEF TypeOK, Attempts, AwaitNotice
  <2> QED
    BY <2>1, <2>2 DEF TypeOK, AwaitNotice, history
<1>2. ConnsInv'
  BY DEF ConnsInv, KnownConn, SettingUp, AwaitNotice
<1>3. LatestInv'
  BY DEF LatestInv, AwaitNotice
<1>4. NotifyInv'
  BY DEF NotifyInv, AwaitNotice
<1>5. ReplayInv'
  BY DEF ReplayInv, AwaitNotice
<1>6. PeersKnowInv'
  BY DEF LatestInv, PeersKnowInv, AwaitNotice
<1>7. ForgottenInv'
  BY DEF ForgottenInv, AwaitNotice
<1> QED
  BY <1>1, <1>2, <1>3, <1>4, <1>5, <1>6, <1>7

\* Starting an attempt keeps the invariant.
LEMMA TryReconnectKeeps == ASSUME IInv, TryReconnect PROVE IInv'
<1> USE DEF IInv
<1>1. TypeOK'
  BY DEF TypeOK, Attempts, TryReconnect, backend, history
<1>2. ConnsInv'
  BY DEF ConnsInv, KnownConn, SettingUp, TryReconnect, backend
<1>3. LatestInv'
  BY DEF LatestInv, Between, TryReconnect, backend
<1>4. NotifyInv'
  BY DEF NotifyInv, TryReconnect, backend
<1>5. ReplayInv'
  BY DEF ReplayInv, TryReconnect
<1>6. PeersKnowInv'
  BY DEF LatestInv, Between, PeersKnowInv, TryReconnect, backend
<1>7. ForgottenInv'
  BY DEF ForgottenInv, TryReconnect, backend
<1> QED
  BY <1>1, <1>2, <1>3, <1>4, <1>5, <1>6, <1>7

\* A connection that comes about keeps the invariant.
LEMMA ConnectedKeeps == ASSUME IInv, Connected PROVE IInv'
<1> USE DEF IInv
<1>1. TypeOK'
  <2>1. recon.conn + 1 \in Conns
    BY BoundsAssumption DEF TypeOK, Attempts, Conns, Connected
  <2>2. recon' \in Attempts /\ alive' \subseteq Conns
    BY <2>1 DEF TypeOK, Attempts, Connected
  <2> QED
    BY <2>2 DEF TypeOK, Connected, backend, history
<1>2. ConnsInv'
  BY DEF TypeOK, Attempts, Conns, ConnsInv, KnownConn, Connected, backend
<1>3. LatestInv'
  BY DEF LatestInv, Between, Connected, backend
<1>4. NotifyInv'
  BY DEF NotifyInv, Connected, backend
<1>5. ReplayInv'
  BY DEF ReplayInv, Connected
<1>6. PeersKnowInv'
  BY DEF LatestInv, Between, PeersKnowInv, Connected, backend
<1>7. ForgottenInv'
  BY DEF ForgottenInv, Connected, backend
<1> QED
  BY <1>1, <1>2, <1>3, <1>4, <1>5, <1>6, <1>7

\* A failed attempt keeps the invariant.
LEMMA AttemptFailsKeeps == ASSUME IInv, AttemptFails PROVE IInv'
<1> USE DEF IInv
<1>1. TypeOK'
  BY DEF TypeOK, Attempts, AttemptFails, backend, history
<1>2. ConnsInv'
  BY DEF ConnsInv, KnownConn, SettingUp, AttemptFails, backend
<1>3. LatestInv'
  BY DEF LatestInv, Between, AttemptFails, backend
<1>4. NotifyInv'
  BY DEF NotifyInv, AttemptFails, backend
<1>5. ReplayInv'
  BY DEF ReplayInv, AttemptFails
<1>6. PeersKnowInv'
  BY DEF LatestInv, Between, PeersKnowInv, AttemptFails, backend
<1>7. ForgottenInv'
  BY DEF ForgottenInv, AttemptFails, backend
<1> QED
  BY <1>1, <1>2, <1>3, <1>4, <1>5, <1>6, <1>7

\* Stopping the task keeps the invariant.
LEMMA StopReconnectingKeeps == ASSUME IInv, StopReconnecting PROVE IInv'
<1> USE DEF IInv
<1>1. TypeOK'
  BY DEF TypeOK, Attempts, StopReconnecting, backend, history
<1>2. ConnsInv'
  BY DEF ConnsInv, KnownConn, SettingUp, StopReconnecting, backend
<1>3. LatestInv'
  BY DEF LatestInv, Between, StopReconnecting, backend
<1>4. NotifyInv'
  BY DEF NotifyInv, StopReconnecting
<1>5. ReplayInv'
  BY DEF ReplayInv, StopReconnecting
<1>6. PeersKnowInv'
  BY DEF PeersKnowInv, ToldLater, Knows, StopReconnecting, backend, history
<1>7. ForgottenInv'
  BY DEF ForgottenInv, StopReconnecting, backend
<1> QED
  BY <1>1, <1>2, <1>3, <1>4, <1>5, <1>6, <1>7

\* Reading the peers to broadcast to keeps the invariant.
LEMMA CollectKeeps == ASSUME IInv, Collect PROVE IInv'
<1> USE DEF IInv
<1>1. TypeOK'
  BY DEF TypeOK, Calls, Collect, backend
<1>2. ConnsInv'
  BY DEF ConnsInv, KnownConn, SettingUp, Collect, backend
<1>3. LatestInv'
  BY DEF LatestInv, Between, Collect, backend
<1>4. NotifyInv'
  BY DEF NotifyInv, Collect
<1>5. ReplayInv'
  BY DEF TypeOK, Attempts, ReplayInv, ToldLater, Knows, Collect, backend
<1>6. PeersKnowInv'
  BY DEF PeersKnowInv, ToldLater, Knows, Collect, backend
<1>7. ForgottenInv'
  BY DEF ForgottenInv, Collect, backend
<1> QED
  BY <1>1, <1>2, <1>3, <1>4, <1>5, <1>6, <1>7

\* Telling one peer keeps the invariant.
LEMMA SendControlKeeps == ASSUME IInv, NEW c \in Conns, SendControl(c) PROVE IInv'
<1> USE DEF IInv
<1>1. TypeOK'
  <2>1. \A n \in Nat : Told(n) \in Nat
    BY DEF Told
  <2>2. remote' \in [Conns -> [Topics -> Nat]]
    BY <2>1 DEF TypeOK, SendControl
  <2>3. app' \in Calls
    BY DEF TypeOK, Calls, SendControl
  <2> QED
    BY <2>2, <2>3 DEF TypeOK, SendControl, history
<1>2. ConnsInv'
  BY DEF ConnsInv, KnownConn, SettingUp, SendControl
<1>3. LatestInv'
  BY DEF LatestInv, Between, SendControl
<1>4. NotifyInv'
  BY DEF NotifyInv, SendControl
<1>5. ReplayInv'
  BY DEF ConnsInv, KnownConn, SettingUp, ReplayInv, Knows, SendControl, history
<1>6. PeersKnowInv'
  <2> SUFFICES ASSUME NEW d \in peers \cap alive, NEW t \in subs
               PROVE  Knows(d, t)' \/ t \in missed[d] \/ ToldLater(d, t)'
    BY DEF PeersKnowInv, SendControl, history
  <2>1. Knows(d, t) \/ t \in missed[d] \/ ToldLater(d, t)
    BY DEF PeersKnowInv
  <2>2. d \in Conns /\ t \in Topics /\ c \in Conns /\ remote[d][t] \in Nat
    BY DEF TypeOK
  <2>3. /\ app'.op = app.op /\ app'.kind = app.kind /\ app'.topic = app.topic
        /\ app'.todo = app.todo \ {c}
    BY DEF SendControl
  <2>4. CASE d # c
    <3>1. remote'[d] = remote[d]
      BY <2>2, <2>4 DEF SendControl
    <3> QED
      BY <2>1, <2>3, <2>4, <3>1 DEF Knows, ToldLater
  <2>5. CASE d = c
    <3>1. remote'[d][t] = IF t \in app.topic THEN Told(remote[d][t]) ELSE remote[d][t]
      BY <2>2, <2>5 DEF TypeOK, SendControl
    <3>2. CASE t \in app.topic
      <4>1. app.kind = "subscribe"
        BY <3>2 DEF ForgottenInv
      <4> QED
        BY <2>2, <3>1, <3>2, <4>1 DEF Told, Knows
    <3>3. CASE t \notin app.topic
      BY <2>1, <3>1, <3>3 DEF Knows, ToldLater
    <3> QED
      BY <3>2, <3>3
  <2> QED
    BY <2>4, <2>5
<1>7. ForgottenInv'
  BY DEF ForgottenInv, SendControl
<1> QED
  BY <1>1, <1>2, <1>3, <1>4, <1>5, <1>6, <1>7

\* A failed send of a broadcast keeps the invariant.
LEMMA BrokenPipeKeeps == ASSUME IInv, NEW c \in Conns, BrokenPipe(c) PROVE IInv'
<1> USE DEF IInv
<1>1. TypeOK'
  BY BoundsAssumption DEF TypeOK, Calls, Attempts, Conns, BrokenPipe, backend, history
<1>2. ConnsInv'
  BY DEF ConnsInv, KnownConn, SettingUp, BrokenPipe, backend
<1>3. LatestInv'
  BY DEF LatestInv, Between, BrokenPipe, backend
<1>4. NotifyInv'
  BY DEF NotifyInv, BrokenPipe
<1>5. ReplayInv'
  BY DEF ReplayInv, Knows, BrokenPipe, backend, history
<1>6. PeersKnowInv'
  BY DEF PeersKnowInv, ToldLater, Knows, BrokenPipe, backend, history
<1>7. ForgottenInv'
  BY DEF TypeOK, Calls, Attempts, ForgottenInv, BrokenPipe, backend, history
<1> QED
  BY <1>1, <1>2, <1>3, <1>4, <1>5, <1>6, <1>7

\* The end of a broadcast keeps the invariant.
LEMMA EndBroadcastKeeps == ASSUME IInv, EndBroadcast PROVE IInv'
<1> USE DEF IInv
<1>1. TypeOK'
  BY DEF TypeOK, Calls, EndBroadcast, Idle, backend, history
<1>2. ConnsInv'
  BY DEF ConnsInv, KnownConn, SettingUp, EndBroadcast, Idle, backend
<1>3. LatestInv'
  BY DEF LatestInv, Between, EndBroadcast, backend
<1>4. NotifyInv'
  BY DEF NotifyInv, EndBroadcast, Idle
<1>5. ReplayInv'
  BY DEF ReplayInv, Knows, EndBroadcast, backend, history
<1>6. PeersKnowInv'
  BY DEF PeersKnowInv, ToldLater, Knows, EndBroadcast, backend, history
<1>7. ForgottenInv'
  BY DEF ForgottenInv, EndBroadcast, Idle
<1> QED
  BY <1>1, <1>2, <1>3, <1>4, <1>5, <1>6, <1>7

\* Dropping a call of subscribe or unsubscribe keeps the invariant: what it did not
\* tell is on record.
LEMMA DropCallKeeps == ASSUME IInv, DropCall PROVE IInv'
<1> USE DEF IInv
<1>1. TypeOK'
  <2>1. app.topic \subseteq Topics /\ missed \in [Conns -> SUBSET Topics]
    BY DEF TypeOK, Calls
  <2>2. missed' \in [Conns -> SUBSET Topics]
    BY <2>1 DEF DropCall
  <2>3. app' \in Calls
    BY DEF Calls, DropCall, Idle
  <2> QED
    BY <2>2, <2>3 DEF TypeOK, DropCall, backend
<1>2. ConnsInv'
  BY DEF ConnsInv, KnownConn, SettingUp, DropCall, Idle, backend
<1>3. LatestInv'
  BY DEF LatestInv, Between, DropCall, backend
<1>4. NotifyInv'
  BY DEF NotifyInv, DropCall, Idle
<1>5. ReplayInv'
  BY DEF TypeOK, Attempts, ReplayInv, ToldLater, Knows, Racing, DropCall, backend
<1>6. PeersKnowInv'
  BY DEF TypeOK, PeersKnowInv, ToldLater, Knows, Untold, DropCall, backend
<1>7. ForgottenInv'
  BY DEF ForgottenInv, DropCall, Idle
<1> QED
  BY <1>1, <1>2, <1>3, <1>4, <1>5, <1>6, <1>7

\* Finding the end of a stream keeps the invariant.
LEMMA RecvEndKeeps == ASSUME IInv, NEW c \in Conns, RecvEnd(c) PROVE IInv'
<1> USE DEF IInv
<1>1. TypeOK'
  BY DEF TypeOK, Calls, RecvEnd, Idle, backend, history
<1>2. ConnsInv'
  BY DEF ConnsInv, KnownConn, SettingUp, RecvEnd, Idle, backend
<1>3. LatestInv'
  BY DEF LatestInv, Between, RecvEnd, backend
<1>4. NotifyInv'
  BY DEF NotifyInv, RecvEnd
<1>5. ReplayInv'
  BY DEF ReplayInv, Knows, RecvEnd, backend, history
<1>6. PeersKnowInv'
  BY DEF PeersKnowInv, ToldLater, Knows, RecvEnd, backend, history
<1>7. ForgottenInv'
  BY DEF ForgottenInv, RecvEnd, Idle
<1> QED
  BY <1>1, <1>2, <1>3, <1>4, <1>5, <1>6, <1>7

\* Removing a lost peer keeps the invariant.
LEMMA RemovePeerKeeps == ASSUME IInv, NEW c \in Conns, RemovePeer(c) PROVE IInv'
<1> USE DEF IInv
<1>1. TypeOK'
  BY DEF TypeOK, Calls, RemovePeer, history
<1>2. ConnsInv'
  BY DEF ConnsInv, KnownConn, SettingUp, RemovePeer
<1>3. LatestInv'
  BY DEF LatestInv, Between, RemovePeer
<1>4. NotifyInv'
  BY DEF NotifyInv, RemovePeer
<1>5. ReplayInv'
  BY DEF ReplayInv, Knows, RemovePeer, history
<1>6. PeersKnowInv'
  BY DEF PeersKnowInv, ToldLater, Knows, RemovePeer, history
<1>7. ForgottenInv'
  BY DEF ForgottenInv, RemovePeer
<1> QED
  BY <1>1, <1>2, <1>3, <1>4, <1>5, <1>6, <1>7

\* Calling the notifier of a lost peer keeps the invariant.
LEMMA NotifyReconnectKeeps == ASSUME IInv, NEW c \in Conns, NotifyReconnect(c) PROVE IInv'
<1> USE DEF IInv
<1>1. TypeOK'
  <2>1. notices' \in Nat /\ notifiers' \subseteq Conns
    BY DEF TypeOK, NotifyReconnect, UseNotifier
  <2>2. app' \in Calls
    BY DEF TypeOK, Calls, NotifyReconnect, Idle
  <2>3. unheard' \subseteq Conns
    BY DEF TypeOK, NotifyReconnect
  <2> QED
    BY <2>1, <2>2, <2>3 DEF TypeOK, NotifyReconnect
<1>2. ConnsInv'
  BY DEF ConnsInv, KnownConn, SettingUp, NotifyReconnect, Idle
<1>3. LatestInv'
  BY DEF LatestInv, NotifyInv, Between, NotifyReconnect, UseNotifier
<1>4. NotifyInv'
  BY DEF NotifyInv, NotifyReconnect, Idle
<1>5. ReplayInv'
  BY DEF ReplayInv, Knows, NotifyReconnect
<1>6. PeersKnowInv'
  BY DEF PeersKnowInv, ToldLater, Knows, NotifyReconnect
<1>7. ForgottenInv'
  BY DEF ForgottenInv, NotifyReconnect, Idle
<1> QED
  BY <1>1, <1>2, <1>3, <1>4, <1>5, <1>6, <1>7

\* Remembering a subscription keeps the invariant.
LEMMA SubscribeKeeps == ASSUME IInv, NEW t \in Topics, Subscribe(t) PROVE IInv'
<1> USE DEF IInv
<1>1. TypeOK'
  BY DEF TypeOK, Calls, Subscribe, Idle, history
<1>2. ConnsInv'
  BY DEF ConnsInv, KnownConn, SettingUp, Subscribe, Idle
<1>3. LatestInv'
  BY DEF LatestInv, Between, Subscribe
<1>4. NotifyInv'
  BY DEF NotifyInv, Subscribe
<1>5. ReplayInv'
  BY DEF ReplayInv, ToldLater, Knows, Subscribe, history
<1>6. PeersKnowInv'
  BY DEF PeersKnowInv, ToldLater, Knows, Subscribe, history
<1>7. ForgottenInv'
  BY DEF ForgottenInv, Subscribe
<1> QED
  BY <1>1, <1>2, <1>3, <1>4, <1>5, <1>6, <1>7

\* Forgetting a subscription keeps the invariant.
LEMMA UnsubscribeKeeps == ASSUME IInv, NEW t \in Topics, Unsubscribe(t) PROVE IInv'
<1> USE DEF IInv
<1>1. TypeOK'
  BY DEF TypeOK, Calls, Unsubscribe, Idle, history
<1>2. ConnsInv'
  BY DEF ConnsInv, KnownConn, SettingUp, Unsubscribe, Idle
<1>3. LatestInv'
  BY DEF LatestInv, Between, Unsubscribe
<1>4. NotifyInv'
  BY DEF NotifyInv, Unsubscribe
<1>5. ReplayInv'
  BY DEF ReplayInv, Knows, Unsubscribe, history
<1>6. PeersKnowInv'
  BY DEF PeersKnowInv, ToldLater, Knows, Unsubscribe, history
<1>7. ForgottenInv'
  BY DEF ForgottenInv, Unsubscribe
<1> QED
  BY <1>1, <1>2, <1>3, <1>4, <1>5, <1>6, <1>7

\* Dropping the socket keeps the invariant.
LEMMA DropSocketKeeps == ASSUME IInv, DropSocket PROVE IInv'
<1> USE DEF IInv
<1>1. TypeOK'
  BY DEF TypeOK, Calls, DropSocket, Idle, history
<1>2. ConnsInv'
  BY DEF ConnsInv, DropSocket, Idle
<1>3. LatestInv'
  BY DEF LatestInv, DropSocket
<1>4. NotifyInv'
  BY DEF NotifyInv, DropSocket
<1>5. ReplayInv'
  BY DEF ReplayInv, Knows, DropSocket, history
<1>6. PeersKnowInv'
  BY DEF PeersKnowInv, DropSocket
<1>7. ForgottenInv'
  BY DEF ForgottenInv, DropSocket, Idle
<1> QED
  BY <1>1, <1>2, <1>3, <1>4, <1>5, <1>6, <1>7

\* Losing a connection keeps the invariant.
LEMMA ConnectionLostKeeps == ASSUME IInv, NEW c \in Conns, ConnectionLost(c) PROVE IInv'
<1> USE DEF IInv
<1>1. TypeOK'
  BY DEF TypeOK, ConnectionLost, NoTopics, history
<1>2. ConnsInv'
  BY DEF ConnsInv, KnownConn, SettingUp, ConnectionLost
<1>3. LatestInv'
  BY DEF LatestInv, Between, ConnectionLost
<1>4. NotifyInv'
  BY DEF NotifyInv, ConnectionLost
<1>5. ReplayInv'
  BY DEF ReplayInv, ToldLater, Knows, ConnectionLost, history
<1>6. PeersKnowInv'
  BY DEF PeersKnowInv, ToldLater, Knows, ConnectionLost, history
<1>7. ForgottenInv'
  BY DEF ForgottenInv, ConnectionLost
<1> QED
  BY <1>1, <1>2, <1>3, <1>4, <1>5, <1>6, <1>7

-----------------------------------------------------------------------------
(* The theorems *)

\* The invariant holds when connect has made its first connection.
LEMMA InitInv == Init => IInv
<1> SUFFICES ASSUME Init PROVE IInv
  OBVIOUS
<1>1. TypeOK
  BY BoundsAssumption DEF Init, TypeOK, Calls, Attempts, Conns, Idle, NoTopics
<1>2. ConnsInv /\ LatestInv /\ NotifyInv
  BY DEF Init, Idle, ConnsInv, LatestInv, Between, NotifyInv
<1>3. ReplayInv /\ PeersKnowInv /\ ForgottenInv
  BY DEF Init, Idle, ReplayInv, PeersKnowInv, ForgottenInv
<1> QED
  BY <1>1, <1>2, <1>3 DEF IInv

\* Every step keeps the invariant.
LEMMA NextInv == IInv /\ [Next]_vars => IInv'
<1> SUFFICES ASSUME IInv, [Next]_vars PROVE IInv'
  OBVIOUS
<1>1. CASE ReconnectStep
  BY <1>1, SnapshotSubsKeeps, ResendFailsKeeps, UpsertKeeps, InsertStreamKeeps,
     RegisterKeeps, AwaitNoticeKeeps, TryReconnectKeeps, StopReconnectingKeeps
     DEF ReconnectStep
<1>7. CASE AttemptStep
  BY <1>7, ConnectedKeeps, AttemptFailsKeeps, ResendKeeps DEF AttemptStep
<1>8. CASE DropCall
  BY <1>8, DropCallKeeps
<1>2. CASE CallStep
  BY <1>2, CollectKeeps, EndBroadcastKeeps, SendControlKeeps, BrokenPipeKeeps,
     RemovePeerKeeps, NotifyReconnectKeeps DEF CallStep
<1>3. CASE \E c \in Conns : RecvEnd(c) \/ ConnectionLost(c)
  BY <1>3, RecvEndKeeps, ConnectionLostKeeps
<1>4. CASE \E t \in Topics : Subscribe(t) \/ Unsubscribe(t)
  BY <1>4, SubscribeKeeps, UnsubscribeKeeps
<1>5. CASE DropSocket
  BY <1>5, DropSocketKeeps
<1>6. CASE UNCHANGED vars
  BY <1>6 DEF vars, IInv, TypeOK, ConnsInv, KnownConn, SettingUp, LatestInv, Between,
     NotifyInv, ReplayInv, PeersKnowInv, ToldLater, Knows, ForgottenInv
<1> QED
  BY <1>1, <1>2, <1>3, <1>4, <1>5, <1>6, <1>7, <1>8 DEF Next

\* The invariant holds in every state of a SUB socket and its reconnect task.
THEOREM SubscriptionsInvariant == Spec => []IInv
  BY InitInv, NextInv, PTL DEF Spec

\* The state of the backend, the reconnect task and the calls is well typed, for any
\* topics and any number of connections.
THEOREM SubTypeCorrect == Spec => []TypeOK
<1>1. IInv => TypeOK
  BY DEF IInv
<1> QED
  BY <1>1, SubscriptionsInvariant, PTL

\* However disconnections, failed broadcasts and reconnections interleave, a socket
\* never has two peers for its endpoint, and peer_disconnected sets the reconnect task
\* off at most once per connection.
THEOREM ConnectsOnce == Spec => []OneConnection
<1>1. IInv => OneConnection
  <2> SUFFICES ASSUME IInv PROVE OneConnection
    OBVIOUS
  <2>1. peers = {} \/ peers = {recon.conn}
    BY DEF IInv, LatestInv
  <2>2. notifiers = {} \/ notifiers = {recon.conn}
    BY DEF IInv, LatestInv
  <2>3. Cardinality({}) = 0 /\ Cardinality({recon.conn}) = 1
    BY FS_EmptySet, FS_Singleton
  <2>4. Cardinality(peers) = 0 \/ Cardinality(peers) = 1
    BY <2>1, <2>3
  <2>5. Cardinality(notifiers) = 0 \/ (Cardinality(notifiers) = 1 /\ notifiers # {})
    BY <2>2, <2>3
  <2> QED
    BY <2>4, <2>5 DEF IInv, LatestInv, OneConnection
<1> QED
  BY <1>1, SubscriptionsInvariant, PTL

\* Between two calls, the registered peer has every subscription the socket
\* remembers, replayed by peer_connected or broadcast by subscribe, but for those
\* broadcast while its replay was under way or dropped before its turn.
THEOREM SubscriptionsReachPeers == Spec => []SubscriptionsReachPeersUnlessRaced
<1>1. IInv => SubscriptionsReachPeersUnlessRaced
  BY DEF IInv, PeersKnowInv, ToldLater, SubscriptionsReachPeersUnlessRaced
<1> QED
  BY <1>1, SubscriptionsInvariant, PTL
=============================================================================
