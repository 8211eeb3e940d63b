------------------------ MODULE GenericBackendProofs ------------------------
(***************************************************************************)
(* Proofs about GenericBackend for any peers, connections and bounds: the  *)
(* monitor hears of every disconnection once, the rotation loses no peer,  *)
(* and peer_count and single_peer agree with the map once refreshes that   *)
(* did not overlap are done.                                               *)
(***************************************************************************)
EXTENDS GenericBackend, FiniteSetTheorems, TLAPS

-----------------------------------------------------------------------------
(* Tasks *)

LEMMA TaskFacts ==
  /\ \A c \in Conns : Connector(c) \in Tasks /\ Writer(c) \in Tasks
  /\ Receiver \in Tasks /\ Sender \in Tasks /\ Receiver # Sender
  /\ \A c \in Conns : \A d \in Conns : Connector(c) # Writer(d)
  /\ \A c \in Conns : Connector(c) # Receiver /\ Connector(c) # Sender
  /\ \A c \in Conns : Writer(c) # Receiver /\ Writer(c) # Sender
  /\ \A c \in Conns : \A d \in Conns : Connector(c) = Connector(d) => c = d
  /\ \A c \in Conns : \A d \in Conns : Writer(c) = Writer(d) => c = d
  /\ \A t \in Tasks : t[1] = "connector" => \E c \in Conns : t = Connector(c)
  BY DEF Tasks, Connector, Writer, Receiver, Sender

LEMMA TasksFinite == IsFiniteSet(Tasks)
  <1> DEFINE Names == ((({"connector"} \cup {"writer"}) \cup {"receiver"}) \cup {"sender"})
  <1>1. IsFiniteSet({"connector"})
    BY FS_Singleton
  <1>2. IsFiniteSet(Names)
    BY <1>1, FS_AddElement
  <1>3. IsFiniteSet(Conns \cup {NoConn})
    BY ConnsAssumption, FS_AddElement
  <1>4. IsFiniteSet(Names \X (Conns \cup {NoConn}))
    BY <1>2, <1>3, FS_Product
  <1>5. Tasks \in SUBSET (Names \X (Conns \cup {NoConn}))
    BY DEF Tasks, Connector, Writer, Receiver, Sender
  <1> QED
    BY <1>4, <1>5, FS_Subset

LEMMA KeysCount == Cardinality(Keys) \in Nat
  BY KeysAssumption, FS_CardinalityType

LEMMA RegisteredCount ==
  /\ IsFiniteSet(Registered)
  /\ Cardinality(Registered) \in 0..Cardinality(Keys)
  <1>1. Registered \in SUBSET Keys
    BY DEF Registered
  <1>2. IsFiniteSet(Registered) /\ Cardinality(Registered) <= Cardinality(Keys)
    BY <1>1, KeysAssumption, FS_Subset
  <1>3. Cardinality(Registered) \in Nat
    BY <1>2, FS_CardinalityType
  <1> QED
    BY <1>2, <1>3, KeysCount

-----------------------------------------------------------------------------
(* The inductive invariant *)

\* An entry of the map holds a connection that presented its identity.
EntryInv == \A k \in Keys : peers[k] # NoConn => identity[peers[k]] = k

\* A task begins peer_disconnected when it has no other to finish.
JobInv ==
  /\ \A t \in Tasks : job[t].removed => job[t].stage \in {"len", "store", "cache", "notify"}
  /\ job[Sender].stage # "idle" => send.try = "failed"
  /\ \A c \in Conns : writer[c] # "failed" => job[Writer(c)].stage = "idle"
  /\ \A c \in Conns :
       job[Connector(c)].stage \in {"upsert", "len", "store", "cache", "spawn"} => writer[c] = "none"
  /\ \A c \in Conns : job[Connector(c)].stage # "remove" /\ ~job[Connector(c)].removed
  /\ \A t \in Tasks : job[t].stage # "idle" => job[t].key \in Keys

\* What a call of send carries along.
SendInv ==
  /\ send.try = "pop" => send.to = NoKey
  /\ send.try \in {"get", "full", "flush"} => send.key \in Keys
  /\ send.try \in {"cached_full", "cached_flush", "full", "flush"} => send.conn \in Conns

\* While refreshes do not overlap there is at most one, and unless another change of
\* the map waits for its refresh, what it has read and stored is still true.
CacheInv ==
  ~overlapped =>
    /\ \A t \in Tasks : \A u \in Tasks : Refreshing(t) /\ Refreshing(u) => t = u
    /\ (\A t \in Tasks : job[t].stage # "len") =>
         /\ \A t \in Tasks : Refreshing(t) =>
              /\ job[t].count = Cardinality(Registered)
              /\ job[t].stage = "cache" => peer_count = Cardinality(Registered)
         /\ (\A t \in Tasks : ~Refreshing(t)) => CacheAccurate

IInv ==
  /\ TypeOK /\ EntryInv /\ JobInv /\ SendInv
  /\ MonitorExact /\ RotationComplete /\ CacheInv

\* The four reasons RotationComplete admits.
Kept(k) ==
  \/ \E i \in DOMAIN round_robin : round_robin[i] = k
  \/ send.to = NoKey /\ send.try \in {"get", "full", "flush"} /\ send.key = k
  \/ \E t \in Tasks : job[t].stage = "remove" /\ job[t].key = k
  \/ k \in forgotten

-----------------------------------------------------------------------------
(* What a step must leave alone to keep a part of the invariant *)

LEMMA MonitorFrame ==
  ASSUME MonitorExact, UNCHANGED <<peers, joined, left>>,
         \A t \in Tasks : \/ job'[t].key = job[t].key /\ (job'[t].removed <=> job[t].removed)
                          \/ ~job[t].removed /\ ~job'[t].removed
  PROVE  MonitorExact'
  <1>1. \A k \in Keys : PendingEvents(k)' = PendingEvents(k)
    <2> TAKE k \in Keys
    <2>1. {t \in Tasks : job'[t].key = k /\ job'[t].removed}
            = {t \in Tasks : job[t].key = k /\ job[t].removed}
      OBVIOUS
    <2> QED
      BY <2>1 DEF PendingEvents
  <1> QED
    BY <1>1 DEF MonitorExact, Registered

LEMMA RotationFrame ==
  ASSUME RotationComplete, UNCHANGED peers, TypeOK,
         \A c \in Conns : job'[Connector(c)].stage = "done" => job[Connector(c)].stage = "done",
         \A k \in Keys : Kept(k) => Kept(k)'
  PROVE  RotationComplete'
  BY DEF RotationComplete, Kept, Registered, TypeOK

LEMMA CacheFrame ==
  ASSUME CacheInv, UNCHANGED <<peers, peer_count, single_peer, overlapped>>,
         \A t \in Tasks :
           \/ job'[t].stage = job[t].stage /\ job'[t].count = job[t].count
           \/ /\ job[t].stage \notin {"len", "store", "cache"}
              /\ job'[t].stage \notin {"len", "store", "cache"}
  PROVE  CacheInv'
  BY DEF CacheInv, Refreshing, Registered, CacheAccurate

\* A step that leaves the jobs and the map alone.
LEMMA SameJobs ==
  ASSUME IInv, TypeOK', SendInv', UNCHANGED <<peers, peer_count, single_peer, job, writer,
         identity, joined, left, overlapped>>,
         send.try = "failed" => send'.try = "failed",
         \A k \in Keys : Kept(k) => Kept(k)'
  PROVE  IInv'
  <1>1. EntryInv'
    BY DEF IInv, EntryInv
  <1>2. JobInv'
    BY DEF IInv, JobInv
  <1>3. MonitorExact'
    <2>1. \A t \in Tasks : job'[t].key = job[t].key /\ (job'[t].removed <=> job[t].removed)
      OBVIOUS
    <2>2. MonitorExact /\ peers' = peers /\ joined' = joined /\ left' = left
      BY DEF IInv
    <2> QED
      BY <2>1, <2>2, MonitorFrame
  <1>4. RotationComplete'
    BY RotationFrame DEF IInv
  <1>5. CacheInv'
    BY CacheFrame DEF IInv
  <1> QED
    BY <1>1, <1>2, <1>3, <1>4, <1>5 DEF IInv

\* A task that was idle begins peer_disconnected.
LEMMA BeginsDisconnecting ==
  ASSUME IInv, TypeOK', SendInv',
         UNCHANGED <<peers, peer_count, single_peer, identity, joined, left, overlapped>>,
         NEW t \in Tasks, NEW key \in Keys,
         job[t].stage = "idle", \A c \in Conns : t # Connector(c),
         job' = [job EXCEPT ![t] = Disconnecting(key)],
         t = Sender => send'.try = "failed",
         t # Sender => send' = send,
         \A c \in Conns : writer'[c] = writer[c] \/ (t = Writer(c) /\ writer'[c] = "failed"
                                                     /\ writer[c] # "none"),
         \A c \in Conns : t = Writer(c) => writer'[c] = "failed",
         \A k \in Keys : k # key /\ Kept(k) => Kept(k)'
  PROVE  IInv'
  <1>1. job'[t].stage = "remove" /\ job'[t].key = key /\ ~job'[t].removed
    BY DEF IInv, TypeOK, Disconnecting, NoJob
  <1>2. \A u \in Tasks : u # t => job'[u] = job[u]
    BY DEF IInv, TypeOK
  <1>3. ~job[t].removed
    BY DEF IInv, JobInv
  <1>4. EntryInv'
    BY DEF IInv, EntryInv
  <1>5. JobInv'
    BY <1>1, <1>2, TaskFacts DEF IInv, JobInv
  <1>6. MonitorExact'
    <2>1. \A u \in Tasks : \/ job'[u].key = job[u].key /\ (job'[u].removed <=> job[u].removed)
                           \/ ~job[u].removed /\ ~job'[u].removed
      BY <1>1, <1>2, <1>3
    <2> QED
      BY <2>1, MonitorFrame DEF IInv
  <1>7. Kept(key)'
    BY <1>1 DEF Kept
  <1>8. \A c \in Conns : job'[Connector(c)] = job[Connector(c)]
    BY <1>2, TaskFacts
  <1>9. RotationComplete'
    BY <1>7, <1>8, RotationFrame DEF IInv
  <1>10. CacheInv'
    BY <1>1, <1>2, CacheFrame DEF IInv
  <1> QED
    BY <1>4, <1>5, <1>6, <1>9, <1>10 DEF IInv

-----------------------------------------------------------------------------
LEMMA InitInv == Init => IInv
  <1> SUFFICES ASSUME Init PROVE IInv
    OBVIOUS
  <1>0. /\ failures = 0 /\ peer_count = 0 /\ single_peer = NoConn /\ overlapped = FALSE
        /\ queued = [c \in Conns |-> 0] /\ joined = [k \in Keys |-> 0] /\ left = [k \in Keys |-> 0]
        /\ writer = [c \in Conns |-> "none"]
        /\ peers = [k \in Keys |-> NoConn] /\ reading = [k \in Keys |-> NoConn]
        /\ round_robin = <<>> /\ forgotten = {}
    BY DEF Init
  <1>1. TypeOK
    <2>1. identity \in [Conns -> Keys]
      BY HandshakesAssumption DEF Init
    <2>2. NoJob \in Jobs /\ NoSend \in Sends
      BY KeysCount DEF NoJob, NoSend, Jobs, Sends, Stages, Tries
    <2>3. ASSUME NEW c \in Conns
          PROVE  [NoJob EXCEPT !.stage = "upsert", !.key = identity[Connector(c)[2]]] \in Jobs
      <3>1. Connector(c)[2] = c /\ identity[c] \in Keys
        BY <2>1 DEF Connector
      <3>2. NoJob \in Jobs
        BY <2>2
      <3>3. "upsert" \in Stages
        BY DEF Stages
      <3> QED
        BY <3>1, <3>2, <3>3 DEF Jobs
    <2>4. job \in [Tasks -> Jobs]
      BY <2>2, <2>3 DEF Init
    <2>5. failures \in 0..MaxFailures /\ peer_count \in 0..Cardinality(Keys)
      BY <1>0, KeysCount, BoundsAssumption
    <2>6. overlapped \in BOOLEAN /\ router \in BOOLEAN
      BY DEF Init
    <2>7. /\ queued \in [Conns -> Nat] /\ joined \in [Keys -> Nat] /\ left \in [Keys -> Nat]
          /\ writer \in [Conns -> {"none", "running", "failed", "ended"}]
          /\ peers \in [Keys -> Conns \cup {NoConn}] /\ reading \in [Keys -> Conns \cup {NoConn}]
          /\ round_robin \in Seq(Keys) /\ forgotten \subseteq Keys
      BY <1>0
    <2> QED
      BY <2>2, <2>4, <2>5, <2>6, <2>7 DEF Init, TypeOK
  <1>2. \A t \in Tasks : /\ ~job[t].removed /\ job[t].stage \in {"idle", "upsert"}
                          /\ ((\A c \in Conns : t # Connector(c)) => job[t].stage = "idle")
    BY DEF Init, NoJob
  <1>9. \A t \in Tasks : job[t].stage # "idle" => job[t].key \in Keys
    <2> SUFFICES ASSUME NEW t \in Tasks, job[t].stage # "idle" PROVE job[t].key \in Keys
      OBVIOUS
    <2>1. PICK c \in Conns : t = Connector(c)
      BY <1>2
    <2>2. job[t].key = identity[t[2]] /\ t[2] = c
      BY <2>1 DEF Init, NoJob, Connector
    <2> QED
      BY <2>2, HandshakesAssumption DEF Init
  <1>3. Registered = {} /\ Cardinality(Registered) = 0
    BY FS_EmptySet DEF Init, Registered
  <1>4. EntryInv /\ SendInv
    BY DEF Init, EntryInv, SendInv, NoSend
  <1>5. JobInv
    BY <1>2, <1>9, TaskFacts DEF JobInv, Init
  <1>6. MonitorExact
    <2>1. \A k \in Keys : {t \in Tasks : job[t].key = k /\ job[t].removed} = {}
      BY <1>2
    <2>2. \A k \in Keys : PendingEvents(k) = 0 /\ joined[k] = 0 /\ left[k] = 0 /\ k \notin Registered
      BY <2>1, <1>0, <1>3, FS_EmptySet DEF PendingEvents
    <2> QED
      BY <2>2 DEF MonitorExact
  <1>7. RotationComplete
    BY <1>3 DEF RotationComplete
  <1>8. CacheInv
    BY <1>0, <1>2, <1>3 DEF CacheInv, Refreshing, CacheAccurate
  <1> QED
    BY <1>1, <1>4, <1>5, <1>6, <1>7, <1>8 DEF IInv

-----------------------------------------------------------------------------
(* refresh_single_peer_cache *)

\* What Goto does to the jobs.
LEMMA GotoMoves ==
  ASSUME IInv, NEW t \in Tasks, NEW s \in Stages, Goto(t, s)
  PROVE  /\ job' \in [Tasks -> Jobs]
         /\ job'[t].stage = s /\ job'[t].count = job[t].count /\ job'[t].key = job[t].key
         /\ job'[t].removed = job[t].removed
         /\ \A u \in Tasks : u # t => job'[u] = job[u]
  BY DEF IInv, TypeOK, Jobs, Goto

LEMMA ReadLenKeeps ==
  ASSUME IInv, NEW t \in Tasks, ReadLen(t)
  PROVE  IInv'
  <1>1. Cardinality(Registered) \in 0..Cardinality(Keys)
    BY RegisteredCount
  <1>2. /\ job' \in [Tasks -> Jobs]
        /\ job'[t].stage = "store" /\ job'[t].count = Cardinality(Registered)
        /\ job'[t].key = job[t].key /\ job'[t].removed = job[t].removed
        /\ \A u \in Tasks : u # t => job'[u] = job[u]
    <2>1. "store" \in Stages
      BY DEF Stages
    <2> QED
      BY <1>1, <2>1 DEF IInv, TypeOK, Jobs, ReadLen
  <1>3. overlapped' = \E u \in Tasks \ {t} : Refreshing(u)
    BY DEF ReadLen
  <1>4. UNCHANGED <<registry, channels, reading, send, joined, left, forgotten, environment>>
        /\ job[t].stage = "len"
    BY DEF ReadLen
  <1> USE DEF registry, channels, environment
  <1>5. TypeOK'
    <2>1. overlapped' \in BOOLEAN
      BY <1>3, Zenon
    <2> QED
      BY <1>2, <1>4, <2>1 DEF IInv, TypeOK
  <1>6. EntryInv' /\ SendInv'
    BY <1>4 DEF IInv, EntryInv, SendInv
  <1>7. JobInv'
    BY <1>2, <1>4, TaskFacts DEF IInv, JobInv
  <1>8. MonitorExact'
    <2>1. \A u \in Tasks : job'[u].key = job[u].key /\ (job'[u].removed <=> job[u].removed)
      BY <1>2
    <2> QED
      BY <2>1, <1>4, MonitorFrame DEF IInv
  <1>9. \A k \in Keys : Kept(k) => Kept(k)'
    BY <1>2, <1>4 DEF Kept
  <1>10. \A c \in Conns : job'[Connector(c)].stage = "done" => job[Connector(c)].stage = "done"
    BY <1>2, TaskFacts
  <1>11. RotationComplete'
    BY <1>4, <1>9, <1>10, RotationFrame DEF IInv
  <1>12. CacheInv'
    <2>1. ASSUME ~overlapped' PROVE \A u \in Tasks : u # t => job'[u].stage \notin {"store", "cache"}
      BY <1>2, <1>3, <2>1 DEF Refreshing
    <2> QED
      BY <1>2, <1>4, <2>1 DEF CacheInv, Refreshing, Registered
  <1> QED
    BY <1>5, <1>6, <1>7, <1>8, <1>11, <1>12 DEF IInv

LEMMA StoreCountKeeps ==
  ASSUME IInv, NEW t \in Tasks, StoreCount(t)
  PROVE  IInv'
  <1>1. "cache" \in Stages
    BY DEF Stages
  <1>2. /\ job' \in [Tasks -> Jobs]
        /\ job'[t].stage = "cache" /\ job'[t].count = job[t].count
        /\ job'[t].key = job[t].key /\ job'[t].removed = job[t].removed
        /\ \A u \in Tasks : u # t => job'[u] = job[u]
    BY <1>1, GotoMoves DEF StoreCount
  <1>3. UNCHANGED <<peers, round_robin, single_peer, channels, reading, send, history, environment>>
        /\ job[t].stage = "store" /\ peer_count' = job[t].count
    BY DEF StoreCount
  <1> USE DEF channels, environment, history
  <1>4. TypeOK'
    <2>1. job[t].count \in 0..Cardinality(Keys)
      BY DEF IInv, TypeOK, Jobs
    <2> QED
      BY <1>2, <1>3, <2>1 DEF IInv, TypeOK
  <1>5. EntryInv' /\ SendInv'
    BY <1>3 DEF IInv, EntryInv, SendInv
  <1>6. JobInv'
    BY <1>2, <1>3, TaskFacts DEF IInv, JobInv
  <1>7. MonitorExact'
    <2>1. \A u \in Tasks : job'[u].key = job[u].key /\ (job'[u].removed <=> job[u].removed)
      BY <1>2
    <2> QED
      BY <2>1, <1>3, MonitorFrame DEF IInv
  <1>8. \A k \in Keys : Kept(k) => Kept(k)'
    BY <1>2, <1>3 DEF Kept
  <1>9. \A c \in Conns : job'[Connector(c)].stage = "done" => job[Connector(c)].stage = "done"
    BY <1>2, TaskFacts
  <1>10. RotationComplete'
    BY <1>3, <1>8, <1>9, RotationFrame DEF IInv
  <1>11. CacheInv'
    BY <1>2, <1>3 DEF IInv, CacheInv, Refreshing, Registered
  <1> QED
    BY <1>4, <1>5, <1>6, <1>7, <1>10, <1>11 DEF IInv

LEMMA UpdateCacheKeeps ==
  ASSUME IInv, NEW t \in Tasks, UpdateCache(t)
  PROVE  IInv'
  <1> DEFINE s == IF t[1] = "connector" THEN "spawn" ELSE "notify"
  <1>1. s \in Stages /\ s \in {"spawn", "notify"} /\ 0 \in 0..Cardinality(Keys)
    BY KeysCount DEF Stages
  <1>2. /\ job' \in [Tasks -> Jobs]
        /\ job'[t].stage = s /\ job'[t].key = job[t].key /\ job'[t].removed = job[t].removed
        /\ \A u \in Tasks : u # t => job'[u] = job[u]
    <2>1. job' = [job EXCEPT ![t].stage = s, ![t].count = 0]
      BY DEF UpdateCache
    <2> HIDE DEF s
    <2> QED
      BY <1>1, <2>1 DEF IInv, TypeOK, Jobs
  <1>3. UNCHANGED <<peers, round_robin, peer_count, channels, reading, send, history, environment>>
        /\ job[t].stage = "cache" /\ Recache(t)
    BY DEF UpdateCache
  <1>4. s = "spawn" => \E c \in Conns : t = Connector(c)
    BY TaskFacts
  <1> HIDE DEF s
  <1> USE DEF channels, environment, history
  <1>5. TypeOK'
    <2>1. single_peer' \in Conns \cup {NoConn}
      BY <1>3 DEF Recache, Registered, IInv, TypeOK
    <2> QED
      BY <1>2, <1>3, <2>1 DEF IInv, TypeOK
  <1>6. EntryInv' /\ SendInv'
    BY <1>3 DEF IInv, EntryInv, SendInv
  <1>7. JobInv'
    BY <1>1, <1>2, <1>3, <1>4, TaskFacts DEF IInv, JobInv
  <1>8. MonitorExact'
    <2>1. \A u \in Tasks : job'[u].key = job[u].key /\ (job'[u].removed <=> job[u].removed)
      BY <1>2
    <2> QED
      BY <2>1, <1>3, MonitorFrame DEF IInv
  <1>9. \A k \in Keys : Kept(k) => Kept(k)'
    BY <1>2, <1>3 DEF Kept
  <1>10. \A c \in Conns : job'[Connector(c)].stage = "done" => job[Connector(c)].stage = "done"
    BY <1>1, <1>2, TaskFacts
  <1>11. RotationComplete'
    BY <1>3, <1>9, <1>10, RotationFrame DEF IInv
  <1>12. CacheInv'
    <2> SUFFICES ASSUME ~overlapped' PROVE
                   /\ \A u \in Tasks : ~Refreshing(u)'
                   /\ (\A u \in Tasks : job'[u].stage # "len") => CacheAccurate'
      BY DEF CacheInv
    <2>1. \A u \in Tasks : ~Refreshing(u)'
      BY <1>1, <1>2, <1>3 DEF IInv, CacheInv, Refreshing
    <2>2. ASSUME \A u \in Tasks : job'[u].stage # "len" PROVE CacheAccurate'
      <3>1. \A u \in Tasks : job[u].stage # "len"
        BY <1>2, <1>3, <2>2
      <3>2. job[t].count = Cardinality(Registered) /\ peer_count = Cardinality(Registered)
        BY <1>3, <3>1 DEF IInv, CacheInv, Refreshing
      <3>3. Cardinality(Registered) = 1 => Registered # {}
        BY FS_EmptySet
      <3>4. Registered' = Registered /\ peer_count' = peer_count
        BY <1>3 DEF Registered
      <3>5. IF Cardinality(Registered) = 1
              THEN \E k \in Registered : single_peer' = peers[k]
              ELSE single_peer' = NoConn
        BY <1>3, <3>2, <3>3 DEF Recache
      <3> QED
        BY <1>3, <3>2, <3>4, <3>5 DEF CacheAccurate
    <2> QED
      BY <2>1, <2>2
  <1> QED
    BY <1>5, <1>6, <1>7, <1>8, <1>11, <1>12 DEF IInv

-----------------------------------------------------------------------------
(* peer_connected *)

LEMMA UpsertKeeps ==
  ASSUME IInv, NEW c \in Conns, Upsert(c)
  PROVE  IInv'
  <1> DEFINE t == Connector(c)
             k == identity[c]
  <1>1. t \in Tasks /\ "len" \in Stages /\ k \in Keys
    BY TaskFacts, HandshakesAssumption DEF Stages, IInv, TypeOK
  <1>2. /\ job' \in [Tasks -> Jobs]
        /\ job'[t].stage = "len" /\ job'[t].key = job[t].key /\ job'[t].removed = job[t].removed
        /\ \A u \in Tasks : u # t => job'[u] = job[u]
    BY <1>1, GotoMoves DEF Upsert
  <1>3. /\ UNCHANGED <<round_robin, peer_count, single_peer, channels, reading, send, left,
                       overlapped, forgotten, environment>>
        /\ job[t].stage = "upsert" /\ peers' = [peers EXCEPT ![k] = c]
        /\ joined' = IF peers[k] = NoConn THEN [joined EXCEPT ![k] = @ + 1] ELSE joined
    BY DEF Upsert
  <1>4. c # NoConn
    BY ConnsAssumption
  <1> HIDE DEF t, k
  <1> USE DEF channels, environment
  <1>5. TypeOK'
    BY <1>1, <1>2, <1>3 DEF IInv, TypeOK
  <1>6. EntryInv' /\ SendInv'
    BY <1>1, <1>3 DEF IInv, TypeOK, EntryInv, SendInv, k
  <1>7. JobInv'
    BY <1>2, <1>3, TaskFacts DEF IInv, JobInv, t
  <1>8. MonitorExact'
    <2>1. \A j \in Keys : PendingEvents(j)' = PendingEvents(j)
      <3> TAKE j \in Keys
      <3>1. {u \in Tasks : job'[u].key = j /\ job'[u].removed}
              = {u \in Tasks : job[u].key = j /\ job[u].removed}
        BY <1>2
      <3> QED
        BY <3>1 DEF PendingEvents
    <2>2. \A j \in Keys : j # k => (j \in Registered' <=> j \in Registered) /\ joined'[j] = joined[j]
      BY <1>1, <1>3 DEF Registered, IInv, TypeOK
    <2>3. k \in Registered' /\ joined'[k] = IF k \in Registered THEN joined[k] ELSE joined[k] + 1
      BY <1>1, <1>3, <1>4 DEF Registered, IInv, TypeOK
    <2>4. \A j \in Keys : PendingEvents(j) \in Nat
      <3> TAKE j \in Keys
      <3>1. IsFiniteSet({u \in Tasks : job[u].key = j /\ job[u].removed})
        BY TasksFinite, FS_Subset
      <3> QED
        BY <3>1, FS_CardinalityType DEF PendingEvents
    <2>5. \A j \in Keys : joined[j] \in Nat /\ left[j] \in Nat /\ left'[j] = left[j]
      BY <1>3 DEF IInv, TypeOK
    <2> QED
      BY <1>1, <2>1, <2>2, <2>3, <2>4, <2>5 DEF IInv, MonitorExact
  <1>9. RotationComplete'
    <2> SUFFICES ASSUME NEW j \in Registered', job'[Connector(peers'[j])].stage = "done"
                 PROVE  Kept(j)'
      BY DEF RotationComplete, Kept
    <2>1. j \in Keys /\ j # k
      BY <1>1, <1>2, <1>3 DEF Registered, IInv, TypeOK, t
    <2>2. peers'[j] = peers[j] /\ j \in Registered /\ peers[j] \in Conns /\ peers[j] # c
      BY <1>1, <1>2, <1>3, <2>1 DEF Registered, IInv, TypeOK, t
    <2>3. job[Connector(peers[j])].stage = "done"
      BY <1>1, <1>2, <2>2, TaskFacts DEF t
    <2>4. Kept(j)
      BY <2>2, <2>3 DEF IInv, RotationComplete, Kept
    <2> QED
      BY <1>2, <1>3, <2>4 DEF Kept
  <1>10. CacheInv'
    BY <1>1, <1>2, <1>3 DEF IInv, CacheInv, Refreshing
  <1> QED
    BY <1>5, <1>6, <1>7, <1>8, <1>9, <1>10 DEF IInv

LEMMA SpawnWriterKeeps ==
  ASSUME IInv, NEW c \in Conns, SpawnWriter(c)
  PROVE  IInv'
  <1> DEFINE t == Connector(c)
  <1>1. t \in Tasks /\ "join" \in Stages
    BY TaskFacts DEF Stages
  <1>2. /\ job' \in [Tasks -> Jobs]
        /\ job'[t].stage = "join" /\ job'[t].key = job[t].key /\ job'[t].removed = job[t].removed
        /\ \A u \in Tasks : u # t => job'[u] = job[u]
    BY <1>1, GotoMoves DEF SpawnWriter
  <1>3. /\ UNCHANGED <<registry, queued, reading, send, history, environment>>
        /\ job[t].stage = "spawn" /\ writer' = [writer EXCEPT ![c] = "running"]
    BY DEF SpawnWriter
  <1> HIDE DEF t
  <1> USE DEF registry, history, environment
  <1>5. TypeOK'
    BY <1>1, <1>2, <1>3 DEF IInv, TypeOK
  <1>6. EntryInv' /\ SendInv'
    BY <1>3 DEF IInv, EntryInv, SendInv
  <1>4. /\ writer[c] = "none" /\ job[Writer(c)].stage = "idle" /\ job[t].stage # "idle"
        /\ \A d \in Conns : d # c => writer'[d] = writer[d]
        /\ \A d \in Conns : job'[Writer(d)] = job[Writer(d)] /\ Writer(d) # t
        /\ \A d \in Conns : d # c => job'[Connector(d)] = job[Connector(d)]
        /\ job'[Sender] = job[Sender]
    BY <1>2, <1>3, TaskFacts DEF IInv, TypeOK, JobInv, t
  <1>7. JobInv'
    <2>1. JobInv /\ send' = send
      BY <1>3 DEF IInv
    <2>2. \A u \in Tasks : /\ job'[u].removed => job'[u].stage \in {"len", "store", "cache", "notify"}
                           /\ job'[u].stage # "idle" => job'[u].key \in Keys
      BY <1>1, <1>2, <1>3, <1>4, <2>1 DEF JobInv, t
    <2>3. \A d \in Conns : writer'[d] # "failed" => job'[Writer(d)].stage = "idle"
      BY <1>4, <2>1 DEF JobInv
    <2>4. \A d \in Conns : job'[Connector(d)].stage \in {"upsert", "len", "store", "cache", "spawn"}
                             => writer'[d] = "none"
      BY <1>2, <1>4, <2>1 DEF JobInv, t
    <2>5. \A d \in Conns : job'[Connector(d)].stage # "remove" /\ ~job'[Connector(d)].removed
      BY <1>2, <1>4, <2>1 DEF JobInv, t
    <2> QED
      BY <1>4, <2>1, <2>2, <2>3, <2>4, <2>5 DEF JobInv
  <1>8. MonitorExact'
    <2>1. \A u \in Tasks : job'[u].key = job[u].key /\ (job'[u].removed <=> job[u].removed)
      BY <1>2
    <2> QED
      BY <2>1, <1>3, MonitorFrame DEF IInv
  <1>9. \A k \in Keys : Kept(k) => Kept(k)'
    BY <1>2, <1>3 DEF Kept
  <1>10. \A d \in Conns : job'[Connector(d)].stage = "done" => job[Connector(d)].stage = "done"
    BY <1>2, TaskFacts DEF t
  <1>11. RotationComplete'
    BY <1>3, <1>9, <1>10, RotationFrame DEF IInv
  <1>12. CacheInv'
    <2>1. \A u \in Tasks :
            \/ job'[u].stage = job[u].stage /\ job'[u].count = job[u].count
            \/ /\ job[u].stage \notin {"len", "store", "cache"}
               /\ job'[u].stage \notin {"len", "store", "cache"}
      BY <1>2, <1>3
    <2> QED
      BY <1>3, <2>1, CacheFrame DEF IInv
  <1> QED
    BY <1>5, <1>6, <1>7, <1>8, <1>11, <1>12 DEF IInv

LEMMA JoinSocketKeeps ==
  ASSUME IInv, NEW c \in Conns, JoinSocket(c)
  PROVE  IInv'
  <1> DEFINE t == Connector(c)
             k == identity[c]
  <1>1. t \in Tasks /\ "done" \in Stages /\ k \in Keys
    BY TaskFacts, HandshakesAssumption DEF Stages, IInv, TypeOK
  <1>2. /\ job' \in [Tasks -> Jobs]
        /\ job'[t].stage = "done" /\ job'[t].key = job[t].key /\ job'[t].removed = job[t].removed
        /\ \A u \in Tasks : u # t => job'[u] = job[u]
    BY <1>1, GotoMoves DEF JoinSocket
  <1>3. /\ UNCHANGED <<peers, peer_count, single_peer, channels, send, joined, left,
                       overlapped, environment>>
        /\ job[t].stage = "join" /\ round_robin' = Append(round_robin, k)
        /\ reading' = [reading EXCEPT ![k] = c] /\ forgotten' = forgotten \ {k}
    BY DEF JoinSocket
  <1> HIDE DEF t, k
  <1> USE DEF channels, environment
  <1>4. /\ round_robin \in Seq(Keys) /\ round_robin' \in Seq(Keys)
        /\ \A i \in DOMAIN round_robin : i \in DOMAIN round_robin' /\ round_robin'[i] = round_robin[i]
        /\ \E i \in DOMAIN round_robin' : round_robin'[i] = k
    <2>1. round_robin \in Seq(Keys)
      BY DEF IInv, TypeOK
    <2>2. Len(round_robin) + 1 \in DOMAIN round_robin' /\ round_robin'[Len(round_robin) + 1] = k
      BY <1>1, <1>3, <2>1
    <2> QED
      BY <1>1, <1>3, <2>1, <2>2
  <1>5. TypeOK'
    BY <1>1, <1>2, <1>3, <1>4 DEF IInv, TypeOK
  <1>6. EntryInv' /\ SendInv'
    BY <1>3 DEF IInv, EntryInv, SendInv
  <1>7. JobInv'
    BY <1>2, <1>3, TaskFacts DEF IInv, JobInv, t
  <1>8. MonitorExact'
    <2>1. \A u \in Tasks : job'[u].key = job[u].key /\ (job'[u].removed <=> job[u].removed)
      BY <1>2
    <2> QED
      BY <2>1, <1>3, MonitorFrame DEF IInv
  <1>9. \A j \in Keys : Kept(j) => Kept(j)'
    <2> SUFFICES ASSUME NEW j \in Keys, Kept(j) PROVE Kept(j)'
      OBVIOUS
    <2>1. CASE j = k
      BY <1>4, <2>1 DEF Kept
    <2>2. CASE j # k
      BY <1>2, <1>3, <1>4, <2>2 DEF Kept
    <2> QED
      BY <2>1, <2>2
  <1>10. RotationComplete'
    <2> SUFFICES ASSUME NEW j \in Registered', job'[Connector(peers'[j])].stage = "done"
                 PROVE  Kept(j)'
      BY DEF RotationComplete, Kept
    <2>1. j \in Registered /\ j \in Keys /\ peers[j] \in Conns /\ peers'[j] = peers[j]
      BY <1>3 DEF Registered, IInv, TypeOK
    <2>2. CASE peers[j] = c
      <3>1. j = k
        BY <2>1, <2>2 DEF IInv, EntryInv, Registered, k
      <3> QED
        BY <1>4, <3>1 DEF Kept
    <2>3. CASE peers[j] # c
      <3>1. job[Connector(peers[j])].stage = "done"
        BY <1>2, <2>1, <2>3, TaskFacts DEF t
      <3>2. Kept(j)
        BY <2>1, <3>1 DEF IInv, RotationComplete, Kept
      <3> QED
        BY <1>9, <2>1, <3>2
    <2> QED
      BY <2>2, <2>3
  <1>11. CacheInv'
    <2>1. \A u \in Tasks :
            \/ job'[u].stage = job[u].stage /\ job'[u].count = job[u].count
            \/ /\ job[u].stage \notin {"len", "store", "cache"}
               /\ job'[u].stage \notin {"len", "store", "cache"}
      BY <1>2, <1>3
    <2> QED
      BY <1>3, <2>1, CacheFrame DEF IInv
  <1> QED
    BY <1>5, <1>6, <1>7, <1>8, <1>10, <1>11 DEF IInv

-----------------------------------------------------------------------------
(* peer_disconnected *)

\* The set PendingEvents counts.
Owing(k) == {t \in Tasks : job[t].key = k /\ job[t].removed}

LEMMA OwingFinite ==
  ASSUME NEW k
  PROVE  /\ IsFiniteSet(Owing(k)) /\ PendingEvents(k) = Cardinality(Owing(k))
         /\ PendingEvents(k) \in Nat
  <1>1. IsFiniteSet(Owing(k))
    BY TasksFinite, FS_Subset DEF Owing
  <1>2. PendingEvents(k) = Cardinality(Owing(k))
    BY DEF Owing, PendingEvents
  <1> QED
    BY <1>1, <1>2, FS_CardinalityType

LEMMA RemovePeerKeeps ==
  ASSUME IInv, NEW t \in Tasks, RemovePeer(t)
  PROVE  IInv'
  <1>0. PICK k \in Keys : k = job[t].key
    BY DEF RemovePeer, IInv, JobInv
  <1> DEFINE gone == k \in Registered
  <1>1. k \in Keys /\ ~job[t].removed /\ job[t].stage = "remove" /\ \A c \in Conns : t # Connector(c)
    BY DEF RemovePeer, IInv, JobInv
  <1>2. /\ UNCHANGED <<round_robin, peer_count, single_peer, channels, reading, send, joined, left,
                       overlapped, environment>>
        /\ peers' = [peers EXCEPT ![k] = NoConn] /\ forgotten' = forgotten \ {k}
    BY <1>0 DEF RemovePeer, TakeEntry
  <1>3. /\ job' \in [Tasks -> Jobs]
        /\ job'[t].stage = "len" /\ job'[t].key = k /\ (job'[t].removed <=> gone)
        /\ \A u \in Tasks : u # t => job'[u] = job[u]
    <2>1. job' = [job EXCEPT ![t].stage = "len", ![t].removed = gone]
      BY <1>0 DEF RemovePeer, TakeEntry
    <2>2. "len" \in Stages /\ gone \in BOOLEAN
      BY DEF Stages
    <2> HIDE DEF gone
    <2> QED
      BY <1>0, <2>1, <2>2 DEF IInv, TypeOK, Jobs
  <1> USE DEF channels, environment
  <1>4. TypeOK'
    BY <1>1, <1>2, <1>3 DEF IInv, TypeOK
  <1>5. EntryInv' /\ SendInv'
    BY <1>1, <1>2 DEF IInv, TypeOK, EntryInv, SendInv
  <1>6. JobInv'
    <2>1. job[t].stage # "idle"
      BY <1>1
    <2> QED
      BY <1>1, <1>2, <1>3, <2>1, TaskFacts DEF IInv, JobInv
  <1>7. MonitorExact'
    <2>1. \A j \in Keys : j # k => Owing(j)' = Owing(j)
      BY <1>0, <1>3 DEF Owing
    <2>2. gone => Owing(k)' = Owing(k) \cup {t}
      BY <1>0, <1>3 DEF Owing
    <2>3. ~gone => Owing(k)' = Owing(k)
      BY <1>0, <1>1, <1>3 DEF Owing
    <2>4. t \notin Owing(k)
      BY <1>1 DEF Owing
    <2>5. \A j \in Keys : /\ IsFiniteSet(Owing(j)) /\ PendingEvents(j) = Cardinality(Owing(j))
                          /\ PendingEvents(j) \in Nat
      BY OwingFinite
    <2>6. \A j : PendingEvents(j)' = Cardinality(Owing(j)')
      BY DEF PendingEvents, Owing
    <2>7. \A j \in Keys : j # k => PendingEvents(j)' = PendingEvents(j)
      BY <2>1, <2>5, <2>6
    <2>8. PendingEvents(k)' = IF gone THEN PendingEvents(k) + 1 ELSE PendingEvents(k)
      <3>1. CASE gone
        <4>1. Cardinality(Owing(k) \cup {t}) = Cardinality(Owing(k)) + 1
          BY <1>1, <2>4, <2>5, FS_AddElement
        <4> QED
          BY <1>1, <2>2, <2>5, <2>6, <3>1, <4>1
      <3>2. CASE ~gone
        BY <1>1, <2>3, <2>5, <2>6, <3>2
      <3> QED
        BY <3>1, <3>2
    <2>9. \A j \in Keys : j \in Registered' <=> (j # k /\ j \in Registered)
      BY <1>1, <1>2 DEF Registered, IInv, TypeOK
    <2>10. \A j \in Keys : /\ joined[j] \in Nat /\ left[j] \in Nat
                           /\ left'[j] = left[j] /\ joined'[j] = joined[j]
      BY <1>2 DEF IInv, TypeOK
    <2>11. MonitorExact
      BY DEF IInv
    <2> HIDE DEF gone
    <2>12. ASSUME NEW j \in Keys, j # k
           PROVE  joined'[j] = left'[j] + PendingEvents(j)' + IF j \in Registered' THEN 1 ELSE 0
      BY <2>7, <2>9, <2>10, <2>11, <2>12 DEF MonitorExact
    <2>13. joined'[k] = left'[k] + PendingEvents(k)' + IF k \in Registered' THEN 1 ELSE 0
      BY <1>1, <2>5, <2>8, <2>9, <2>10, <2>11 DEF MonitorExact, gone
    <2> QED
      BY <2>12, <2>13 DEF MonitorExact
  <1>8. RotationComplete'
    <2> SUFFICES ASSUME NEW j \in Registered', job'[Connector(peers'[j])].stage = "done"
                 PROVE  Kept(j)'
      BY DEF RotationComplete, Kept
    <2>1. j \in Keys /\ j # k /\ j \in Registered /\ peers'[j] = peers[j] /\ peers[j] \in Conns
      BY <1>1, <1>2 DEF Registered, IInv, TypeOK
    <2>2. job[Connector(peers[j])].stage = "done"
      BY <1>1, <1>3, <2>1, TaskFacts
    <2>3. Kept(j)
      BY <2>1, <2>2 DEF IInv, RotationComplete, Kept
    <2> QED
      BY <1>0, <1>2, <1>3, <2>1, <2>3 DEF Kept
  <1>9. CacheInv'
    BY <1>1, <1>2, <1>3 DEF IInv, CacheInv, Refreshing
  <1> QED
    BY <1>4, <1>5, <1>6, <1>7, <1>8, <1>9 DEF IInv

LEMMA NotifyKeeps ==
  ASSUME IInv, NEW t \in Tasks, Notify(t)
  PROVE  IInv'
  <1>0. PICK k \in Keys : k = job[t].key
    BY DEF Notify, IInv, JobInv
  <1>1. k \in Keys /\ job[t].stage = "notify" /\ job[t].removed \in BOOLEAN
    BY DEF Notify, IInv, JobInv, TypeOK, Jobs
  <1>2. /\ UNCHANGED <<registry, channels, joined, overlapped, forgotten, environment>>
        /\ reading' = [reading EXCEPT ![k] = NoConn]
        /\ left' = IF job[t].removed THEN [left EXCEPT ![k] = @ + 1] ELSE left
        /\ send' = IF t = Sender THEN NoSend ELSE send
    BY <1>0 DEF Notify
  <1>3. /\ job' \in [Tasks -> Jobs]
        /\ job'[t].stage = "idle" /\ ~job'[t].removed
        /\ \A u \in Tasks : u # t => job'[u] = job[u]
    <2>1. job' = [job EXCEPT ![t] = NoJob]
      BY DEF Notify
    <2>2. NoJob \in Jobs /\ NoJob.stage = "idle" /\ ~NoJob.removed
      BY KeysCount DEF Jobs, NoJob, Stages
    <2> QED
      BY <2>1, <2>2 DEF IInv, TypeOK
  <1> USE DEF registry, channels, environment
  <1>4. TypeOK'
    <2>1. NoSend \in Sends
      BY DEF NoSend, Sends, Tries
    <2>2. left' \in [Keys -> Nat]
      BY <1>1, <1>2 DEF IInv, TypeOK
    <2>3. reading' \in [Keys -> Conns \cup {NoConn}] /\ send' \in Sends
      BY <1>1, <1>2, <2>1 DEF IInv, TypeOK
    <2> QED
      BY <1>2, <1>3, <2>2, <2>3 DEF IInv, TypeOK
  <1>5. EntryInv' /\ SendInv'
    BY <1>2 DEF IInv, EntryInv, SendInv, NoSend
  <1>6. JobInv'
    BY <1>2, <1>3, TaskFacts DEF IInv, JobInv
  <1>7. MonitorExact'
    <2>1. \A j \in Keys : j # k => Owing(j)' = Owing(j)
      BY <1>0, <1>3 DEF Owing
    <2>2. Owing(k)' = Owing(k) \ {t}
      BY <1>0, <1>3 DEF Owing
    <2>3. t \in Owing(k) <=> job[t].removed
      BY <1>0 DEF Owing
    <2>5. \A j \in Keys : /\ IsFiniteSet(Owing(j)) /\ PendingEvents(j) = Cardinality(Owing(j))
                          /\ PendingEvents(j) \in Nat
      BY OwingFinite
    <2>6. \A j : PendingEvents(j)' = Cardinality(Owing(j)')
      BY DEF PendingEvents, Owing
    <2>7. \A j \in Keys : j # k => PendingEvents(j)' = PendingEvents(j)
      BY <2>1, <2>5, <2>6
    <2>8. PendingEvents(k)' = IF job[t].removed THEN PendingEvents(k) - 1 ELSE PendingEvents(k)
      <3>1. CASE job[t].removed
        <4>1. Cardinality(Owing(k) \ {t}) = Cardinality(Owing(k)) - 1
          BY <1>1, <2>3, <2>5, <3>1, FS_RemoveElement
        <4> QED
          BY <1>1, <2>2, <2>5, <2>6, <3>1, <4>1
      <3>2. CASE ~job[t].removed
        <4>1. Owing(k) \ {t} = Owing(k)
          BY <2>3, <3>2
        <4> QED
          BY <1>1, <2>2, <2>5, <2>6, <3>2, <4>1
      <3> QED
        BY <3>1, <3>2
    <2>9. Registered' = Registered
      BY <1>2 DEF Registered
    <2>10. \A j \in Keys : /\ joined[j] \in Nat /\ left[j] \in Nat
                           /\ joined'[j] = joined[j]
                           /\ j # k => left'[j] = left[j]
      BY <1>2 DEF IInv, TypeOK
    <2>14. left'[k] = IF job[t].removed THEN left[k] + 1 ELSE left[k]
      BY <1>1, <1>2 DEF IInv, TypeOK
    <2>11. MonitorExact
      BY DEF IInv
    <2>12. ASSUME NEW j \in Keys, j # k
           PROVE  joined'[j] = left'[j] + PendingEvents(j)' + IF j \in Registered' THEN 1 ELSE 0
      BY <2>7, <2>9, <2>10, <2>11, <2>12 DEF MonitorExact
    <2>13. joined'[k] = left'[k] + PendingEvents(k)' + IF k \in Registered' THEN 1 ELSE 0
      BY <1>1, <2>5, <2>8, <2>9, <2>10, <2>11, <2>14 DEF MonitorExact
    <2> QED
      BY <2>12, <2>13 DEF MonitorExact
  <1>8. \A j \in Keys : Kept(j) => Kept(j)'
    <2>1. t = Sender => send.try = "failed"
      BY <1>1 DEF IInv, JobInv
    <2> QED
      BY <1>1, <1>2, <1>3, <2>1 DEF Kept
  <1>9. \A c \in Conns : job'[Connector(c)].stage = "done" => job[Connector(c)].stage = "done"
    BY <1>3, TaskFacts
  <1>10. RotationComplete'
    BY <1>2, <1>8, <1>9, RotationFrame DEF IInv
  <1>11. CacheInv'
    <2>1. \A u \in Tasks :
            \/ job'[u].stage = job[u].stage /\ job'[u].count = job[u].count
            \/ /\ job[u].stage \notin {"len", "store", "cache"}
               /\ job'[u].stage \notin {"len", "store", "cache"}
      BY <1>1, <1>3
    <2> QED
      BY <1>2, <2>1, CacheFrame DEF IInv
  <1> QED
    BY <1>4, <1>5, <1>6, <1>7, <1>10, <1>11 DEF IInv

-----------------------------------------------------------------------------
(* Writers and the receiver *)

LEMMA DisconnectingType ==
  ASSUME TypeOK, NEW t \in Tasks, NEW k \in Keys, job' = [job EXCEPT ![t] = Disconnecting(k)]
  PROVE  job' \in [Tasks -> Jobs]
  <1>1. Disconnecting(k) \in Jobs
    <2>1. NoJob \in Jobs
      BY KeysCount DEF NoJob, Jobs, Stages
    <2>2. "remove" \in Stages
      BY DEF Stages
    <2> QED
      BY <2>1, <2>2 DEF Disconnecting, Jobs
  <1> QED
    BY <1>1 DEF TypeOK

LEMMA WriteMessageKeeps ==
  ASSUME IInv, NEW c \in Conns, WriteMessage(c)
  PROVE  IInv'
  <1>1. /\ UNCHANGED <<registry, job, writer, reading, send, history, environment>>
        /\ queued' = [queued EXCEPT ![c] = @ - 1] /\ queued[c] > 0
    BY DEF WriteMessage
  <1> USE DEF registry, history, environment
  <1>2. TypeOK'
    <2>1. queued' \in [Conns -> Nat]
      BY <1>1 DEF IInv, TypeOK
    <2> QED
      BY <1>1, <2>1 DEF IInv, TypeOK
  <1>3. SendInv'
    BY <1>1 DEF IInv, SendInv
  <1>4. \A k \in Keys : Kept(k) => Kept(k)'
    BY <1>1 DEF Kept
  <1> QED
    BY <1>1, <1>2, <1>3, <1>4, SameJobs

LEMMA WriterEndsKeeps ==
  ASSUME IInv, NEW c \in Conns, WriterEnds(c)
  PROVE  IInv'
  <1>1. /\ UNCHANGED <<registry, job, queued, reading, send, history, environment>>
        /\ writer' = [writer EXCEPT ![c] = "ended"] /\ writer[c] = "running"
    BY DEF WriterEnds
  <1> USE DEF registry, history, environment
  <1>2. TypeOK'
    BY <1>1 DEF IInv, TypeOK
  <1>3. EntryInv' /\ SendInv'
    BY <1>1 DEF IInv, EntryInv, SendInv
  <1>4. JobInv'
    BY <1>1 DEF IInv, TypeOK, JobInv
  <1>5. MonitorExact'
    <2>1. \A u \in Tasks : job'[u].key = job[u].key /\ (job'[u].removed <=> job[u].removed)
      BY <1>1
    <2> QED
      BY <2>1, <1>1, MonitorFrame DEF IInv
  <1>6. \A k \in Keys : Kept(k) => Kept(k)'
    BY <1>1 DEF Kept
  <1>7. RotationComplete'
    BY <1>1, <1>6, RotationFrame DEF IInv
  <1>8. CacheInv'
    BY <1>1, CacheFrame DEF IInv
  <1> QED
    BY <1>2, <1>3, <1>4, <1>5, <1>7, <1>8 DEF IInv

LEMMA WriteFailsKeeps ==
  ASSUME IInv, NEW c \in Conns, WriteFails(c)
  PROVE  IInv'
  <1> DEFINE t == Writer(c)
             k == identity[c]
  <1>1. /\ UNCHANGED <<registry, reading, send, history, identity, router>>
        /\ writer[c] = "running" /\ writer' = [writer EXCEPT ![c] = "failed"]
        /\ queued' = [queued EXCEPT ![c] = 0]
        /\ job' = [job EXCEPT ![t] = Disconnecting(k)]
        /\ failures < MaxFailures /\ failures' = failures + 1
    BY DEF WriteFails
  <1>2. t \in Tasks /\ k \in Keys /\ t # Sender /\ \A d \in Conns : t # Connector(d)
    BY TaskFacts, HandshakesAssumption DEF IInv, TypeOK
  <1>3. \A d \in Conns : t = Writer(d) <=> d = c
    BY TaskFacts
  <1>4. job[t].stage = "idle"
    BY <1>1 DEF IInv, JobInv
  <1> HIDE DEF t, k
  <1> USE DEF registry, history
  <1>5. TypeOK'
    <2>1. job' \in [Tasks -> Jobs]
      BY <1>1, <1>2, DisconnectingType DEF IInv
    <2>2. failures' \in 0..MaxFailures
      BY <1>1, BoundsAssumption DEF IInv, TypeOK
    <2> QED
      BY <1>1, <2>1, <2>2 DEF IInv, TypeOK
  <1>6. SendInv'
    BY <1>1 DEF IInv, SendInv
  <1>7. \A u \in Tasks : u # t => job'[u] = job[u]
    BY <1>1 DEF IInv, TypeOK
  <1>8. \A j \in Keys : j # k /\ Kept(j) => Kept(j)'
    BY <1>1, <1>4, <1>7 DEF Kept
  <1>9. \A d \in Conns : writer'[d] = writer[d]
                         \/ (t = Writer(d) /\ writer'[d] = "failed" /\ writer[d] # "none")
    BY <1>1, <1>3 DEF IInv, TypeOK
  <1>10. \A d \in Conns : t = Writer(d) => writer'[d] = "failed"
    BY <1>1, <1>3 DEF IInv, TypeOK
  <1> QED
    BY <1>1, <1>2, <1>4, <1>5, <1>6, <1>8, <1>9, <1>10, BeginsDisconnecting

LEMMA StreamGoneKeeps ==
  ASSUME IInv, NEW k \in Keys, StreamGone(k)
  PROVE  IInv'
  <1>1. /\ UNCHANGED <<registry, channels, send, history, identity, router>>
        /\ job[Receiver].stage = "idle" /\ job' = [job EXCEPT ![Receiver] = Disconnecting(k)]
        /\ reading' = [reading EXCEPT ![k] = NoConn]
        /\ failures < MaxFailures /\ failures' = failures + 1
    BY DEF StreamGone
  <1>2. Receiver \in Tasks /\ Receiver # Sender
        /\ \A d \in Conns : Receiver # Connector(d) /\ Receiver # Writer(d)
    BY TaskFacts
  <1> USE DEF registry, channels, history
  <1>3. TypeOK'
    <2>1. job' \in [Tasks -> Jobs]
      BY <1>1, <1>2, DisconnectingType DEF IInv
    <2>2. failures' \in 0..MaxFailures
      BY <1>1, BoundsAssumption DEF IInv, TypeOK
    <2> QED
      BY <1>1, <2>1, <2>2 DEF IInv, TypeOK
  <1>4. SendInv'
    BY <1>1 DEF IInv, SendInv
  <1>5. \A u \in Tasks : u # Receiver => job'[u] = job[u]
    BY <1>1 DEF IInv, TypeOK
  <1>6. \A j \in Keys : j # k /\ Kept(j) => Kept(j)'
    BY <1>1, <1>5 DEF Kept
  <1> QED
    BY <1>1, <1>2, <1>3, <1>4, <1>6, BeginsDisconnecting

-----------------------------------------------------------------------------
(* The sender *)

\* What a send step leaves alone, round_robin apart.
sendFrame == <<peers, peer_count, single_peer, writer, reading, history, environment>>

\* A send step that reports no failure: the call goes on in the state then.
LEMMA SendGoesOn ==
  ASSUME IInv, NEW then \in Sends, send' = then, then.try # "failed",
         send.try # "failed", UNCHANGED <<sendFrame, job>>,
         queued' \in [Conns -> Nat], round_robin' \in Seq(Keys),
         SendInv', \A k \in Keys : Kept(k) => Kept(k)'
  PROVE  IInv'
  <1> USE DEF sendFrame, history, environment
  <1>1. TypeOK'
    BY DEF IInv, TypeOK
  <1> QED
    BY <1>1, SameJobs

\* A send step that finds the channel closed and disconnects identity k.
LEMMA SendFails ==
  ASSUME IInv, NEW k \in Keys, Fail(k), send.try # "failed", UNCHANGED <<sendFrame, round_robin>>,
         send.try \in {"get", "full", "flush"} => send.key = k
  PROVE  IInv'
  <1> USE DEF sendFrame, history, environment
  <1>1. /\ send' = [NoSend EXCEPT !.try = "failed"] /\ queued' = queued
        /\ job' = [job EXCEPT ![Sender] = Disconnecting(k)]
    BY DEF Fail
  <1>2. send' \in Sends /\ send'.try = "failed"
    BY <1>1 DEF NoSend, Sends, Tries
  <1>3. Sender \in Tasks /\ \A d \in Conns : Sender # Connector(d) /\ Sender # Writer(d)
    BY TaskFacts
  <1>4. job[Sender].stage = "idle"
    BY DEF IInv, JobInv
  <1>5. TypeOK'
    <2>1. job' \in [Tasks -> Jobs]
      BY <1>1, <1>3, DisconnectingType DEF IInv
    <2> QED
      BY <1>1, <1>2, <2>1 DEF IInv, TypeOK
  <1>6. SendInv'
    BY <1>2 DEF SendInv
  <1>7. \A u \in Tasks : u # Sender => job'[u] = job[u]
    BY <1>1 DEF IInv, TypeOK
  <1>8. \A j \in Keys : j # k /\ Kept(j) => Kept(j)'
    BY <1>1, <1>4, <1>7 DEF Kept
  <1> QED
    BY <1>1, <1>2, <1>3, <1>4, <1>5, <1>6, <1>8, BeginsDisconnecting

LEMMA SendStates ==
  /\ NoSend \in Sends /\ NoSend.try = "idle"
  /\ \A to \in Keys \cup {NoKey} :
       /\ Missed(to) \in Sends /\ Missed(to).to = to /\ Missed(to).key = to
       /\ Missed(to).try \in {"pop", "get"}
       /\ to = NoKey => Missed(to).try = "pop"
       /\ to # NoKey => Missed(to).try = "get"
       /\ [NoSend EXCEPT !.try = "cached", !.to = to] \in Sends
       /\ [NoSend EXCEPT !.try = "cached", !.to = to].try = "cached"
  BY DEF NoSend, Missed, Sends, Tries

LEMMA EnqueueFacts ==
  ASSUME IInv, NEW c \in Conns, NEW then, Enqueue(c, then)
  PROVE  queued' \in [Conns -> Nat] /\ send' = then /\ job' = job
  BY DEF IInv, TypeOK, Enqueue

LEMMA StartSendKeeps ==
  ASSUME IInv, NEW to \in Keys \cup {NoKey}, StartSend(to)
  PROVE  IInv'
  <1>1. /\ UNCHANGED <<registry, job, channels, reading, history, environment>>
        /\ send.try = "idle"
    BY DEF StartSend
  <1>2. \/ send' = [NoSend EXCEPT !.try = "cached", !.to = to]
        \/ send' = Missed(to)
    BY DEF StartSend
  <1>3. /\ send' \in Sends /\ send'.try \in {"cached", "pop", "get"}
        /\ send'.try = "pop" => send'.to = NoKey
        /\ send'.try = "get" => send'.key \in Keys
    <2>1. CASE send' = [NoSend EXCEPT !.try = "cached", !.to = to]
      BY <2>1, SendStates
    <2>2. CASE send' = Missed(to)
      BY <2>2, SendStates
    <2> QED
      BY <1>2, <2>1, <2>2
  <1> USE DEF registry, channels, sendFrame, history
  <1>4. SendInv'
    BY <1>3 DEF SendInv
  <1>5. \A k \in Keys : Kept(k) => Kept(k)'
    BY <1>1 DEF Kept
  <1>6. queued' \in [Conns -> Nat] /\ round_robin' \in Seq(Keys)
    BY <1>1 DEF IInv, TypeOK
  <1> QED
    BY <1>1, <1>3, <1>4, <1>5, <1>6, SendGoesOn

LEMMA TrySendCachedKeeps ==
  ASSUME IInv, TrySendCached
  PROVE  IInv'
  <1> DEFINE c == single_peer
  <1>1. send.try = "cached" /\ UNCHANGED <<registry, writer, reading, history, environment>>
    BY DEF TrySendCached
  <1>2. \/ ~UsableCache /\ GoOn(Missed(send.to))
        \/ UsableCache /\ Enqueue(c, NoSend)
        \/ UsableCache /\ GoOn([send EXCEPT !.try = "cached_full", !.conn = c])
        \/ UsableCache /\ Fail(identity[c])
    BY DEF TrySendCached
  <1>3. UsableCache => c \in Conns /\ identity[c] \in Keys
    BY HandshakesAssumption DEF UsableCache, IInv, TypeOK
  <1>4. round_robin' \in Seq(Keys) /\ queued \in [Conns -> Nat] /\ send \in Sends
    BY <1>1 DEF IInv, TypeOK, registry
  <1> HIDE DEF c
  <1> USE DEF registry, sendFrame, history
  <1>5. CASE ~UsableCache /\ GoOn(Missed(send.to))
    <2>1. send.to \in Keys \cup {NoKey}
      BY <1>4 DEF Sends
    <2>2. send' = Missed(send.to) /\ queued' = queued /\ job' = job
      BY <1>5 DEF GoOn
    <2>3. /\ Missed(send.to) \in Sends /\ send'.try \in {"pop", "get"}
          /\ send'.try = "pop" => send'.to = NoKey
          /\ send'.try = "get" => send'.key \in Keys
      BY <2>1, <2>2, SendStates
    <2>4. SendInv'
      BY <2>3 DEF SendInv
    <2>5. \A k \in Keys : Kept(k) => Kept(k)'
      BY <1>1, <2>2 DEF Kept
    <2> QED
      BY <1>1, <1>4, <2>2, <2>3, <2>4, <2>5, SendGoesOn
  <1>6. CASE UsableCache /\ Enqueue(c, NoSend)
    <2>1. queued' \in [Conns -> Nat] /\ send' = NoSend /\ job' = job
      BY <1>3, <1>6, EnqueueFacts
    <2>2. SendInv'
      BY <2>1, SendStates DEF SendInv
    <2>3. \A k \in Keys : Kept(k) => Kept(k)'
      BY <1>1, <2>1 DEF Kept
    <2> QED
      BY <1>1, <1>4, <2>1, <2>2, <2>3, SendStates, SendGoesOn
  <1>7. CASE UsableCache /\ GoOn([send EXCEPT !.try = "cached_full", !.conn = c])
    <2>1. /\ send' = [send EXCEPT !.try = "cached_full", !.conn = c]
          /\ queued' = queued /\ job' = job
      BY <1>7 DEF GoOn
    <2>2. send' \in Sends /\ send'.try = "cached_full" /\ send'.conn \in Conns
      BY <1>3, <1>4, <1>7, <2>1 DEF Sends, Tries
    <2>3. SendInv'
      BY <2>2 DEF SendInv
    <2>4. \A k \in Keys : Kept(k) => Kept(k)'
      BY <1>1, <2>1 DEF Kept
    <2> QED
      BY <1>1, <1>4, <2>1, <2>2, <2>3, <2>4, SendGoesOn
  <1>8. CASE UsableCache /\ Fail(identity[c])
    BY <1>1, <1>3, <1>8, SendFails
  <1> QED
    BY <1>2, <1>5, <1>6, <1>7, <1>8

LEMMA FinishCachedSendKeeps ==
  ASSUME IInv, FinishCachedSend
  PROVE  IInv'
  <1>0. PICK c \in Conns : c = send.conn
    BY DEF FinishCachedSend, IInv, SendInv
  <1>1. send.try = "cached_full" /\ UNCHANGED <<registry, writer, reading, history, environment>>
    BY DEF FinishCachedSend
  <1>2. \/ Enqueue(c, [send EXCEPT !.try = "cached_flush"])
        \/ Fail(identity[c])
    BY <1>0 DEF FinishCachedSend
  <1>3. identity[c] \in Keys /\ round_robin' \in Seq(Keys) /\ send \in Sends
    BY <1>1, HandshakesAssumption DEF IInv, TypeOK, registry
  <1> USE DEF registry, sendFrame, history
  <1>4. CASE Enqueue(c, [send EXCEPT !.try = "cached_flush"])
    <2>1. /\ queued' \in [Conns -> Nat] /\ send' = [send EXCEPT !.try = "cached_flush"]
          /\ job' = job
      BY <1>4, EnqueueFacts
    <2>2. send' \in Sends /\ send'.try = "cached_flush" /\ send'.conn = c
      BY <1>0, <1>3, <2>1 DEF Sends, Tries
    <2>3. SendInv'
      BY <2>2 DEF SendInv
    <2>4. \A k \in Keys : Kept(k) => Kept(k)'
      BY <1>1, <2>1 DEF Kept
    <2> QED
      BY <1>1, <1>3, <2>1, <2>2, <2>3, <2>4, SendGoesOn
  <1>5. CASE Fail(identity[c])
    BY <1>1, <1>3, <1>5, SendFails
  <1> QED
    BY <1>2, <1>4, <1>5

LEMMA FlushCachedKeeps ==
  ASSUME IInv, FlushCached
  PROVE  IInv'
  <1>1. /\ send.try = "cached_flush" /\ send' = NoSend
        /\ UNCHANGED <<registry, writer, reading, history, environment, queued, job>>
    BY DEF FlushCached, GoOn
  <1> USE DEF registry, sendFrame, history
  <1>2. round_robin' \in Seq(Keys) /\ queued' \in [Conns -> Nat]
    BY <1>1 DEF IInv, TypeOK
  <1>3. SendInv'
    BY <1>1, SendStates DEF SendInv
  <1>4. \A k \in Keys : Kept(k) => Kept(k)'
    BY <1>1 DEF Kept
  <1> QED
    BY <1>1, <1>2, <1>3, <1>4, SendStates, SendGoesOn

LEMMA PopRotationKeeps ==
  ASSUME IInv, PopRotation
  PROVE  IInv'
  <1>1. /\ send.try = "pop"
        /\ UNCHANGED <<peers, peer_count, single_peer, job, channels, reading, history, environment>>
    BY DEF PopRotation
  <1>2. send.to = NoKey /\ round_robin \in Seq(Keys) /\ send \in Sends /\ queued \in [Conns -> Nat]
    BY <1>1 DEF IInv, SendInv, TypeOK
  <1> USE DEF sendFrame, channels, history
  <1>3. CASE round_robin = <<>>
    <2>1. send' = NoSend /\ round_robin' = round_robin
      BY <1>3 DEF PopRotation
    <2>2. SendInv'
      BY <2>1, SendStates DEF SendInv
    <2>3. \A k \in Keys : Kept(k) => Kept(k)'
      BY <1>1, <2>1 DEF Kept
    <2> QED
      BY <1>1, <1>2, <2>1, <2>2, <2>3, SendStates, SendGoesOn
  <1>4. CASE round_robin # <<>>
    <2>1. /\ send' = [send EXCEPT !.try = "get", !.key = Head(round_robin)]
          /\ round_robin' = Tail(round_robin)
      BY <1>4 DEF PopRotation
    <2>2. Head(round_robin) \in Keys /\ round_robin' \in Seq(Keys) /\ Head(round_robin) = round_robin[1]
      BY <1>2, <1>4, <2>1
    <2>3. /\ send' \in Sends /\ send'.try = "get" /\ send'.to = NoKey
          /\ send'.key = round_robin[1] /\ send'.key \in Keys
      BY <1>2, <2>1, <2>2 DEF Sends, Tries
    <2>4. SendInv'
      BY <2>3 DEF SendInv
    <2>5. ASSUME NEW i \in DOMAIN round_robin, i # 1
          PROVE  \E j \in DOMAIN round_robin' : round_robin'[j] = round_robin[i]
      <3>1. i - 1 \in DOMAIN round_robin' /\ round_robin'[i - 1] = round_robin[i]
        BY <1>2, <1>4, <2>1, <2>5
      <3> QED
        BY <3>1
    <2>6. \A k \in Keys : Kept(k) => Kept(k)'
      BY <1>1, <2>3, <2>5 DEF Kept
    <2> QED
      BY <1>1, <1>2, <2>2, <2>3, <2>4, <2>6, SendGoesOn
  <1> QED
    BY <1>3, <1>4

\* Pushing the identity back keeps in the rotation what the call held.
LEMMA RejoinKeeps ==
  ASSUME IInv, Rejoin, send.key \in Keys, UNCHANGED <<job, forgotten>>
  PROVE  round_robin' \in Seq(Keys) /\ \A k \in Keys : Kept(k) => Kept(k)'
  <1>1. round_robin \in Seq(Keys)
    BY DEF IInv, TypeOK
  <1>2. CASE send.to = NoKey
    <2>1. round_robin' = Append(round_robin, send.key)
      BY <1>2 DEF Rejoin
    <2>2. Len(round_robin) + 1 \in DOMAIN round_robin' /\ round_robin'[Len(round_robin) + 1] = send.key
      BY <1>1, <2>1
    <2>3. \A i \in DOMAIN round_robin : i \in DOMAIN round_robin' /\ round_robin'[i] = round_robin[i]
      BY <1>1, <2>1
    <2>4. round_robin' \in Seq(Keys)
      BY <1>1, <2>1
    <2> QED
      BY <2>2, <2>3, <2>4 DEF Kept
  <1>3. CASE send.to # NoKey
    BY <1>1, <1>3 DEF Rejoin, Kept
  <1> QED
    BY <1>2, <1>3

LEMMA GetPeerKeeps ==
  ASSUME IInv, GetPeer
  PROVE  IInv'
  <1> DEFINE c == peers[send.key]
             skipped == IF send.to = NoKey THEN [send EXCEPT !.try = "pop", !.key = NoKey] ELSE NoSend
  <1>1. /\ send.try = "get"
        /\ UNCHANGED <<peers, peer_count, single_peer, writer, reading, history, environment>>
    BY DEF GetPeer
  <1>2. \/ c = NoConn /\ UNCHANGED round_robin /\ GoOn(skipped)
        \/ c # NoConn /\ Enqueue(c, NoSend) /\ Rejoin
        \/ c # NoConn /\ UNCHANGED round_robin /\ GoOn([send EXCEPT !.try = "full", !.conn = c])
        \/ c # NoConn /\ Fail(send.key) /\ UNCHANGED round_robin
    BY DEF GetPeer
  <1>3. /\ send.key \in Keys /\ c \in Conns \cup {NoConn} /\ round_robin \in Seq(Keys)
        /\ send \in Sends /\ queued \in [Conns -> Nat]
    BY <1>1 DEF IInv, TypeOK, SendInv
  <1> HIDE DEF c
  <1> USE DEF sendFrame, history
  <1>4. CASE c = NoConn /\ UNCHANGED round_robin /\ GoOn(skipped)
    <2>1. send' = skipped /\ queued' = queued /\ job' = job
      BY <1>4 DEF GoOn
    <2>2. /\ send' \in Sends /\ send'.try \in {"pop", "idle"}
          /\ send'.try = "pop" => send'.to = NoKey
      <3>1. CASE send.to = NoKey
        BY <1>3, <2>1, <3>1 DEF Sends, Tries
      <3>2. CASE send.to # NoKey
        BY <2>1, <3>2, SendStates
      <3> QED
        BY <3>1, <3>2
    <2>3. SendInv'
      BY <2>2 DEF SendInv
    <2>4. RotationComplete'
      <3> SUFFICES ASSUME NEW k \in Registered', job'[Connector(peers'[k])].stage = "done"
                   PROVE  Kept(k)'
        BY DEF RotationComplete, Kept
      <3>1. k \in Registered /\ k # send.key /\ job[Connector(peers[k])].stage = "done"
        BY <1>1, <1>4, <2>1 DEF Registered, c
      <3>2. Kept(k)
        BY <3>1 DEF IInv, RotationComplete, Kept
      <3> QED
        BY <1>1, <1>4, <2>1, <3>1, <3>2 DEF Kept
    <2>5. TypeOK'
      BY <1>1, <1>3, <1>4, <2>1, <2>2 DEF IInv, TypeOK, environment
    <2>6. EntryInv'
      BY <1>1 DEF IInv, EntryInv, environment
    <2>7. JobInv'
      BY <1>1, <2>1 DEF IInv, JobInv
    <2>8. MonitorExact'
      <3>1. \A t \in Tasks : job'[t].key = job[t].key /\ (job'[t].removed <=> job[t].removed)
        BY <2>1
      <3> QED
        BY <1>1, <3>1, MonitorFrame DEF IInv
    <2>9. CacheInv'
      BY <1>1, <2>1, CacheFrame DEF IInv
    <2> QED
      BY <2>3, <2>4, <2>5, <2>6, <2>7, <2>8, <2>9 DEF IInv
  <1>5. CASE c # NoConn /\ Enqueue(c, NoSend) /\ Rejoin
    <2>1. queued' \in [Conns -> Nat] /\ send' = NoSend /\ job' = job
      BY <1>3, <1>5, EnqueueFacts
    <2>2. round_robin' \in Seq(Keys) /\ \A k \in Keys : Kept(k) => Kept(k)'
      BY <1>1, <1>3, <1>5, <2>1, RejoinKeeps
    <2>3. SendInv'
      BY <2>1, SendStates DEF SendInv
    <2> QED
      BY <1>1, <2>1, <2>2, <2>3, SendStates, SendGoesOn
  <1>6. CASE c # NoConn /\ UNCHANGED round_robin /\ GoOn([send EXCEPT !.try = "full", !.conn = c])
    <2>1. /\ send' = [send EXCEPT !.try = "full", !.conn = c]
          /\ queued' = queued /\ job' = job
      BY <1>6 DEF GoOn
    <2>2. /\ send' \in Sends /\ send'.try = "full" /\ send'.conn \in Conns
          /\ send'.to = send.to /\ send'.key = send.key
      BY <1>3, <1>6, <2>1 DEF Sends, Tries
    <2>3. SendInv'
      BY <1>3, <2>2 DEF SendInv
    <2>4. \A k \in Keys : Kept(k) => Kept(k)'
      BY <1>1, <1>6, <2>1, <2>2 DEF Kept
    <2> QED
      BY <1>1, <1>3, <1>6, <2>1, <2>2, <2>3, <2>4, SendGoesOn
  <1>7. CASE c # NoConn /\ Fail(send.key) /\ UNCHANGED round_robin
    BY <1>1, <1>3, <1>7, SendFails
  <1> QED
    BY <1>2, <1>4, <1>5, <1>6, <1>7

LEMMA FinishSendKeeps ==
  ASSUME IInv, FinishSend
  PROVE  IInv'
  <1>0. PICK c \in Conns : c = send.conn
    BY DEF FinishSend, IInv, SendInv
  <1>1. send.try = "full" /\ UNCHANGED <<registry, writer, reading, history, environment>>
    BY DEF FinishSend
  <1>2. Enqueue(c, [send EXCEPT !.try = "flush"]) \/ Fail(send.key)
    BY <1>0 DEF FinishSend
  <1>3. send.key \in Keys /\ round_robin \in Seq(Keys) /\ send \in Sends
    BY <1>1 DEF IInv, TypeOK, SendInv
  <1> USE DEF registry, sendFrame, history
  <1>4. CASE Enqueue(c, [send EXCEPT !.try = "flush"])
    <2>1. /\ queued' \in [Conns -> Nat] /\ send' = [send EXCEPT !.try = "flush"] /\ job' = job
      BY <1>4, EnqueueFacts
    <2>2. /\ send' \in Sends /\ send'.try = "flush" /\ send'.conn = c
          /\ send'.to = send.to /\ send'.key = send.key
      BY <1>0, <1>3, <2>1 DEF Sends, Tries
    <2>3. SendInv'
      BY <1>3, <2>2 DEF SendInv
    <2>4. \A k \in Keys : Kept(k) => Kept(k)'
      BY <1>1, <2>1, <2>2 DEF Kept
    <2> QED
      BY <1>1, <1>3, <2>1, <2>2, <2>3, <2>4, SendGoesOn
  <1>5. CASE Fail(send.key)
    BY <1>1, <1>3, <1>5, SendFails
  <1> QED
    BY <1>2, <1>4, <1>5

LEMMA FlushKeeps ==
  ASSUME IInv, Flush
  PROVE  IInv'
  <1>1. /\ send.try = "flush" /\ send' = NoSend /\ Rejoin
        /\ UNCHANGED <<peers, peer_count, single_peer, writer, reading, history, environment, queued, job>>
    BY DEF Flush, GoOn
  <1> USE DEF sendFrame, history
  <1>2. send.key \in Keys /\ queued' \in [Conns -> Nat]
    BY <1>1 DEF IInv, TypeOK, SendInv
  <1>3. round_robin' \in Seq(Keys) /\ \A k \in Keys : Kept(k) => Kept(k)'
    BY <1>1, <1>2, RejoinKeeps
  <1>4. SendInv'
    BY <1>1, SendStates DEF SendInv
  <1> QED
    BY <1>1, <1>2, <1>3, <1>4, SendStates, SendGoesOn

LEMMA CancelSendKeeps ==
  ASSUME IInv, CancelSend
  PROVE  IInv'
  <1>1. /\ send.try \in {"cached_flush", "full", "flush"} /\ send' = NoSend
        /\ forgotten' = IF send.try # "cached_flush" /\ send.to = NoKey
                          THEN forgotten \cup {send.key} ELSE forgotten
        /\ UNCHANGED <<registry, job, channels, reading, joined, left, overlapped, environment>>
    BY DEF CancelSend
  <1> USE DEF registry, channels, environment
  <1>2. send.try \in {"full", "flush"} => send.key \in Keys
    BY DEF IInv, SendInv
  <1>3. TypeOK'
    BY <1>1, <1>2, SendStates DEF IInv, TypeOK
  <1>4. SendInv'
    BY <1>1, SendStates DEF SendInv
  <1>5. \A k \in Keys : Kept(k) => Kept(k)'
    BY <1>1 DEF Kept
  <1> QED
    BY <1>1, <1>3, <1>4, <1>5, SameJobs

-----------------------------------------------------------------------------
LEMMA NextInv == IInv /\ [Next]_vars => IInv'
  <1> SUFFICES ASSUME IInv, [Next]_vars PROVE IInv'
    OBVIOUS
  <1>1. ASSUME NEW t \in Tasks, TaskStep(t) PROVE IInv'
    BY <1>1, ReadLenKeeps, StoreCountKeeps, UpdateCacheKeeps, RemovePeerKeeps, NotifyKeeps,
       UpsertKeeps, SpawnWriterKeeps, JoinSocketKeeps DEF TaskStep
  <1>2. ASSUME NEW c \in Conns, WriteMessage(c) \/ WriteFails(c) \/ WriterEnds(c) PROVE IInv'
    BY <1>2, WriteMessageKeeps, WriteFailsKeeps, WriterEndsKeeps
  <1>3. CASE SenderStep
    BY <1>3, TrySendCachedKeeps, FinishCachedSendKeeps, FlushCachedKeeps, PopRotationKeeps,
       GetPeerKeeps, FinishSendKeeps, FlushKeeps DEF SenderStep
  <1>4. CASE UNCHANGED vars
    <2> USE DEF vars, registry, channels, environment, history
    <2>1. TypeOK' /\ SendInv'
      BY <1>4 DEF IInv, TypeOK, SendInv
    <2>2. \A k \in Keys : Kept(k) => Kept(k)'
      BY <1>4 DEF Kept
    <2> QED
      BY <1>4, <2>1, <2>2, SameJobs
  <1> QED
    BY <1>1, <1>2, <1>3, <1>4, StreamGoneKeeps, StartSendKeeps, CancelSendKeeps DEF Next

LEMMA InvHolds == Spec => []IInv
  BY InitInv, NextInv, PTL DEF Spec

\* Every state the backend reaches is well typed.
THEOREM BackendTypeCorrect == Spec => []TypeOK
  <1>1. IInv => TypeOK
    BY DEF IInv
  <1> QED
    BY <1>1, InvHolds, PTL

\* For any number of peers and tasks: the entries peer_connected created are those the
\* monitor was told are gone, those a task is about to tell it of, and those still there.
THEOREM MonitorToldOnce == Spec => []MonitorExact
  <1>1. IInv => MonitorExact
    BY DEF IInv
  <1> QED
    BY <1>1, InvHolds, PTL

\* For any number of peers and tasks: send_round_robin keeps every connected peer in the
\* rotation, unless a cancelled send forgot it or its removal is under way.
THEOREM RotationLosesNoPeer == Spec => []RotationComplete
  <1>1. IInv => RotationComplete
    BY DEF IInv
  <1> QED
    BY <1>1, InvHolds, PTL

\* For any number of peers and tasks: once every refresh_single_peer_cache is done,
\* peer_count and single_peer agree with the map, unless two refreshes overlapped.
THEOREM CacheAgreesUnlessOverlap == Spec => []CacheMatchesUnlessOverlap
  <1>1. IInv => CacheMatchesUnlessOverlap
    BY DEF IInv, CacheInv, CacheMatchesUnlessOverlap, Settled, Refreshing
  <1> QED
    BY <1>1, InvHolds, PTL
=============================================================================
