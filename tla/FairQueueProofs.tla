--------------------------- MODULE FairQueueProofs ---------------------------
(***************************************************************************)
(* Proofs about FairQueue for every set of identities and connections and  *)
(* every bound: type correctness, that no wakeup is lost, that poll_next's *)
(* bookkeeping (queued, ready_queue, remaining_ready) agrees, that a key's *)
(* turns are bounded, and that no unfinished stream is lost.               *)
(***************************************************************************)
EXTENDS FairQueue, FiniteSetTheorems, TLAPS

USE ConnsAssumption, KeyOfAssumption, BoundsAssumption

-----------------------------------------------------------------------------
(* Sequences *)

\* What appending an event does to the events of ready_queue.
LEMMA AppendFacts ==
  ASSUME NEW S, NEW s \in Seq(S), NEW e \in S
  PROVE  /\ Append(s, e) \in Seq(S)
         /\ Len(Append(s, e)) = Len(s) + 1
         /\ \A i \in 1..Len(s) : Append(s, e)[i] = s[i]
         /\ Append(s, e)[Len(s) + 1] = e
         /\ DOMAIN s = 1..Len(s)
         /\ DOMAIN Append(s, e) = 1..(Len(s) + 1)
  OBVIOUS

\* What popping the oldest event leaves.
LEMMA TailFacts ==
  ASSUME NEW S, NEW s \in Seq(S), s # <<>>
  PROVE  /\ Head(s) \in S
         /\ Head(s) = s[1]
         /\ Tail(s) \in Seq(S)
         /\ Len(s) \in Nat \ {0}
         /\ Len(Tail(s)) = Len(s) - 1
         /\ \A i \in 1..(Len(s) - 1) : Tail(s)[i] = s[i + 1]
         /\ DOMAIN s = 1..Len(s)
         /\ DOMAIN Tail(s) = 1..(Len(s) - 1)
  OBVIOUS

\* push_ready(k) keeps every event, and afterwards k has one.
LEMMA PushReadyFacts ==
  ASSUME TypeOK, QueuedHasEvent, NEW k \in Keys, push_ready(k)
  PROVE  /\ ready_queue' \in Seq(Keys)
         /\ queued' \subseteq Keys
         /\ \A j \in Keys : HasEvent(j) => HasEvent(j)'
         /\ HasEvent(k)'
         /\ QueuedHasEvent'
         /\ Len(ready_queue') >= Len(ready_queue)
  <1>1. CASE k \in queued
    BY <1>1 DEF TypeOK, push_ready, QueuedHasEvent, HasEvent
  <1>2. CASE k \notin queued
    <2>1. ready_queue' = Append(ready_queue, k) /\ queued' = queued \cup {k}
      BY <1>2 DEF push_ready
    <2>2. ready_queue \in Seq(Keys)
      BY DEF TypeOK
    <2>3. /\ DOMAIN ready_queue = 1..Len(ready_queue)
          /\ DOMAIN ready_queue' = 1..(Len(ready_queue) + 1)
          /\ \A i \in 1..Len(ready_queue) : ready_queue'[i] = ready_queue[i]
          /\ ready_queue'[Len(ready_queue) + 1] = k
          /\ Len(ready_queue) \in Nat
          /\ Len(ready_queue') = Len(ready_queue) + 1
          /\ ready_queue' \in Seq(Keys)
      BY <2>1, <2>2, AppendFacts
    <2>4. \A j \in Keys : HasEvent(j) => HasEvent(j)'
      BY <2>3 DEF HasEvent
    <2>5. HasEvent(k)'
      BY <2>3 DEF HasEvent
    <2> QED
      BY <2>1, <2>3, <2>4, <2>5 DEF TypeOK, QueuedHasEvent
  <1> QED BY <1>1, <1>2

-----------------------------------------------------------------------------
(* The inductive invariant *)

\* The receiver polls a stream soon, or the reactor will tell it to.
Watched(c) == HasEvent(KeyOf[c]) \/ armed[c] \/ c \in waking

\* While the receiver sleeps and was not woken, there is no event to handle and
\* its waker is stored, so that the next event wakes it.
SleepInv == pc = "parked" /\ ~notified => waker /\ ready_queue = <<>>
StreamKeyInv == \A k \in Keys : streams[k] # NoConn => KeyOf[streams[k]] = k
TakenInv == pc \in {"poll", "ready", "ended", "pending"} => taken # NoConn
WatchedInv == \A k \in Keys : streams[k] # NoConn => Watched(streams[k])
PendingInv == pc = "pending" => Watched(taken)
ArmedInv == \A c \in Conns : armed[c] => ~Readable(c)

IInv ==
  /\ TypeOK
  /\ QueuedHasEvent
  /\ PopFindsEvent
  /\ SleepInv
  /\ StreamKeyInv
  /\ TakenInv
  /\ WatchedInv
  /\ PendingInv
  /\ ArmedInv

\* The empty queue of FairQueue::new satisfies the invariant.
LEMMA InitIInv == Init => IInv
  <1> SUFFICES ASSUME Init PROVE IInv
    OBVIOUS
  <1>1. TypeOK
    <2>1. /\ waker \in BOOLEAN /\ notified \in BOOLEAN /\ closed \in BOOLEAN
          /\ eof \in [Conns -> BOOLEAN] /\ armed \in [Conns -> BOOLEAN]
      BY Zenon DEF Init
    <2>2. inbox \in [Conns -> 0..MaxInbox] /\ removals \in 0..MaxRemovals
      BY DEF Init
    <2>3. streams \in [Keys -> Conns \cup {NoConn}] /\ pc \in PC
      BY DEF Init, PC
    <2> QED
      BY <2>1, <2>2, <2>3 DEF Init, TypeOK
  <1> QED
    BY <1>1 DEF Init, IInv, QueuedHasEvent, PopFindsEvent, SleepInv, StreamKeyInv,
             TakenInv, WatchedInv, PendingInv, ArmedInv

\* insert() announces the new stream with an event and wakes the receiver.
LEMMA InsertIInv ==
  ASSUME IInv, NEW c \in Conns, insert(c)
  PROVE  IInv'
  <1> DEFINE k == KeyOf[c]
  <1>1. k \in Keys /\ push_ready(k) /\ TypeOK /\ QueuedHasEvent
    BY DEF IInv, insert
  <1>2. /\ ready_queue' \in Seq(Keys)
        /\ queued' \subseteq Keys
        /\ \A j \in Keys : HasEvent(j) => HasEvent(j)'
        /\ HasEvent(k)'
        /\ QueuedHasEvent'
        /\ Len(ready_queue') >= Len(ready_queue)
    BY <1>1, PushReadyFacts
  <1>3. TypeOK'
    BY <1>1, <1>2 DEF TypeOK, insert
  <1>4. PopFindsEvent'
    BY <1>1, <1>2, <1>3 DEF IInv, PopFindsEvent, insert, TypeOK
  <1>5. SleepInv'
    BY <1>1 DEF IInv, SleepInv, insert, TypeOK
  <1>6. StreamKeyInv' /\ TakenInv'
    BY <1>1 DEF IInv, StreamKeyInv, TakenInv, insert, TypeOK
  <1>7. WatchedInv'
    BY <1>1, <1>2 DEF IInv, WatchedInv, Watched, insert, TypeOK, StreamKeyInv
  <1>8. PendingInv'
    BY <1>1, <1>2 DEF IInv, PendingInv, Watched, insert, TypeOK, TakenInv
  <1>9. ArmedInv'
    BY DEF IInv, ArmedInv, Readable, insert
  <1> QED
    BY <1>2, <1>3, <1>4, <1>5, <1>6, <1>7, <1>8, <1>9 DEF IInv

\* remove() takes the stream and its queued mark but leaves its event behind.
LEMMA RemoveIInv ==
  ASSUME IInv, NEW k \in Keys, remove(k)
  PROVE  IInv'
  <1> USE DEF remove, RemoveStream, receiverVars
  <1>1. \A j \in Keys : HasEvent(j)' <=> HasEvent(j)
    BY DEF HasEvent
  <1>2. TypeOK'
    BY DEF IInv, TypeOK
  <1>3. QueuedHasEvent'
    BY <1>1 DEF IInv, QueuedHasEvent, TypeOK
  <1>4. PopFindsEvent' /\ SleepInv' /\ TakenInv'
    BY DEF IInv, PopFindsEvent, SleepInv, TakenInv
  <1>5. StreamKeyInv'
    BY DEF IInv, StreamKeyInv, TypeOK
  <1>6. WatchedInv'
    BY <1>1 DEF IInv, WatchedInv, Watched, TypeOK, StreamKeyInv
  <1>7. PendingInv'
    BY <1>1 DEF IInv, PendingInv, Watched, TypeOK, TakenInv
  <1>8. ArmedInv'
    BY DEF IInv, ArmedInv, Readable
  <1> QED
    BY <1>2, <1>3, <1>4, <1>5, <1>6, <1>7, <1>8 DEF IInv

\* clear() runs only when no recv() is pending and leaves nothing to wait for.
LEMMA ClearIInv ==
  ASSUME IInv, clear
  PROVE  IInv'
  <1> USE DEF clear, NoRecvPending, WakeTask, connVars
  <1>1. TypeOK'
    <2>1. waker' \in BOOLEAN /\ notified' \in BOOLEAN /\ closed' \in BOOLEAN
      BY Zenon
    <2>2. streams' \in [Keys -> Conns \cup {NoConn}]
      OBVIOUS
    <2> QED
      BY <2>1, <2>2 DEF IInv, TypeOK
  <1>2. QueuedHasEvent' /\ PopFindsEvent' /\ SleepInv' /\ TakenInv' /\ PendingInv'
    BY DEF IInv, QueuedHasEvent, PopFindsEvent, SleepInv, TakenInv, PendingInv
  <1>3. StreamKeyInv' /\ WatchedInv'
    BY DEF StreamKeyInv, WatchedInv
  <1>4. ArmedInv'
    BY DEF IInv, ArmedInv, Readable
  <1> QED
    BY <1>1, <1>2, <1>3, <1>4 DEF IInv

\* Arrive, ArrivePartial and RemoteClose: data appears on one connection and
\* its registered waker fires.
LEMMA ReactorIInv ==
  ASSUME IInv, NEW c \in Conns, Arrive(c) \/ ArrivePartial(c) \/ RemoteClose(c)
  PROVE  IInv'
  <1> USE DEF Arrive, ArrivePartial, RemoteClose, Fire, queueVars, receiverVars
  <1>1. \A j \in Keys : HasEvent(j)' <=> HasEvent(j)
    BY DEF HasEvent
  <1>2. TypeOK'
    <2>1. eof' \in [Conns -> BOOLEAN]
      BY DEF IInv, TypeOK
    <2>2. armed' \in [Conns -> BOOLEAN]
      BY DEF IInv, TypeOK
    <2>3. inbox' \in [Conns -> 0..MaxInbox]
      <3>1. inbox \in [Conns -> 0..MaxInbox] /\ inbox[c] \in Nat
        BY DEF IInv, TypeOK
      <3>2. CASE Arrive(c)
        <4>1. inbox[c] + 1 \in 0..MaxInbox
          BY <3>1, <3>2
        <4> QED
          BY <3>1, <3>2, <4>1
      <3>3. CASE UNCHANGED inbox
        BY <3>1, <3>3
      <3> QED
        BY <3>2, <3>3
    <2>4. waking' \subseteq Conns
      BY DEF IInv, TypeOK
    <2> QED
      BY <2>1, <2>2, <2>3, <2>4 DEF IInv, TypeOK
  <1>3. QueuedHasEvent'
    BY <1>1 DEF IInv, QueuedHasEvent, TypeOK
  <1>4. PopFindsEvent' /\ SleepInv' /\ TakenInv' /\ StreamKeyInv'
    BY DEF IInv, PopFindsEvent, SleepInv, TakenInv, StreamKeyInv
  <1>5. \A d \in Conns : Watched(d) => Watched(d)'
    BY <1>1 DEF IInv, TypeOK, Watched
  <1>6. WatchedInv' /\ PendingInv'
    BY <1>5 DEF IInv, WatchedInv, PendingInv, TypeOK, TakenInv
  <1>7. ArmedInv'
    BY DEF IInv, ArmedInv, Readable, TypeOK
  <1> QED
    BY <1>2, <1>3, <1>4, <1>6, <1>7 DEF IInv

\* StreamWaker::wake_by_ref pushes an event and wakes the receiver.
LEMMA WakeIInv ==
  ASSUME IInv, NEW c \in Conns, wake_by_ref(c)
  PROVE  IInv'
  <1> USE DEF wake_by_ref, WakeTask
  <1>1. KeyOf[c] \in Keys /\ push_ready(KeyOf[c]) /\ TypeOK /\ QueuedHasEvent
    BY DEF IInv
  <1>2. /\ ready_queue' \in Seq(Keys)
        /\ queued' \subseteq Keys
        /\ \A j \in Keys : HasEvent(j) => HasEvent(j)'
        /\ HasEvent(KeyOf[c])'
        /\ QueuedHasEvent'
        /\ Len(ready_queue') >= Len(ready_queue)
    BY <1>1, PushReadyFacts
  <1>3. TypeOK'
    BY <1>1, <1>2 DEF TypeOK
  <1>4. PopFindsEvent'
    BY <1>1, <1>2, <1>3 DEF IInv, PopFindsEvent, TypeOK
  <1>5. SleepInv' /\ StreamKeyInv' /\ TakenInv'
    BY <1>1 DEF IInv, SleepInv, StreamKeyInv, TakenInv, TypeOK
  <1>6. \A d \in Conns : Watched(d) => Watched(d)'
    BY <1>2 DEF Watched
  <1>7. WatchedInv' /\ PendingInv'
    BY <1>1, <1>6 DEF IInv, WatchedInv, PendingInv, TypeOK, TakenInv
  <1>8. ArmedInv'
    BY DEF IInv, ArmedInv, Readable
  <1> QED
    BY <1>2, <1>3, <1>4, <1>5, <1>7, <1>8 DEF IInv

\* poll_next stores the waker and counts the events before it looks at one.
LEMMA BeginPollIInv ==
  ASSUME IInv, BeginPoll
  PROVE  IInv'
  <1> USE DEF BeginPoll, connVars
  <1>1. \A j \in Keys : HasEvent(j)' <=> HasEvent(j)
    BY DEF HasEvent
  <1>2. TypeOK'
    <2>1. waker' \in BOOLEAN /\ notified' \in BOOLEAN
      BY Zenon
    <2>2. remaining_ready' \in Nat /\ pc' \in PC
      BY DEF IInv, TypeOK, PC
    <2> QED
      BY <2>1, <2>2 DEF IInv, TypeOK
  <1>3. QueuedHasEvent'
    BY <1>1 DEF IInv, QueuedHasEvent, TypeOK
  <1>4. PopFindsEvent' /\ SleepInv' /\ TakenInv' /\ PendingInv' /\ StreamKeyInv'
    BY DEF IInv, TypeOK, PopFindsEvent, SleepInv, TakenInv, PendingInv, StreamKeyInv
  <1>5. WatchedInv' /\ ArmedInv'
    BY <1>1 DEF IInv, WatchedInv, Watched, ArmedInv, Readable, TypeOK
  <1> QED
    BY <1>2, <1>3, <1>4, <1>5 DEF IInv

\* A dropped recv() leaves its waker and every event in place.
LEMMA CancelIInv ==
  ASSUME IInv, CancelRecv
  PROVE  IInv'
  <1> USE DEF CancelRecv, queueVars, connVars
  <1>1. \A j \in Keys : HasEvent(j)' <=> HasEvent(j)
    BY DEF HasEvent
  <1>2. TypeOK'
    BY DEF IInv, TypeOK, PC
  <1>3. QueuedHasEvent'
    BY <1>1 DEF IInv, QueuedHasEvent, TypeOK
  <1>4. PopFindsEvent' /\ SleepInv' /\ TakenInv' /\ PendingInv' /\ StreamKeyInv'
    BY DEF IInv, PopFindsEvent, SleepInv, TakenInv, PendingInv, StreamKeyInv
  <1>5. WatchedInv' /\ ArmedInv'
    BY <1>1 DEF IInv, WatchedInv, Watched, ArmedInv, Readable, TypeOK
  <1> QED
    BY <1>2, <1>3, <1>4, <1>5 DEF IInv

\* The early return on an empty heap is impossible, so the step pops an event.
LEMMA PopEventIInv ==
  ASSUME IInv, PopEvent
  PROVE  IInv'
  <1> DEFINE k == Head(ready_queue)
  <1> USE DEF PopEvent, LoopContinues, CountDown, TakeOut, connVars
  <1>1. /\ ready_queue \in Seq(Keys)
        /\ remaining_ready \in Nat \ {0}
        /\ remaining_ready <= Len(ready_queue)
        /\ Len(ready_queue) \in Nat
    BY DEF IInv, TypeOK, PopFindsEvent
  <1>2. ready_queue # <<>>
    BY <1>1
  <1>3. /\ k \in Keys
        /\ k = ready_queue[1]
        /\ ready_queue' = Tail(ready_queue)
        /\ ready_queue' \in Seq(Keys)
        /\ Len(ready_queue') = Len(ready_queue) - 1
        /\ DOMAIN ready_queue = 1..Len(ready_queue)
        /\ DOMAIN ready_queue' = 1..(Len(ready_queue) - 1)
        /\ \A i \in 1..(Len(ready_queue) - 1) : ready_queue'[i] = ready_queue[i + 1]
    <2>1. ready_queue' = Tail(ready_queue)
      BY <1>2
    <2> QED
      BY <1>1, <1>2, <2>1, TailFacts
  <1>4. /\ queued' = queued \ {k}
        /\ streams' = [streams EXCEPT ![k] = NoConn]
        /\ taken' = streams[k]
        /\ pc' = IF streams[k] = NoConn THEN "loop" ELSE "poll"
    BY <1>2
  <1>5. \A j \in Keys : j # k /\ HasEvent(j) => HasEvent(j)'
    <2> SUFFICES ASSUME NEW j \in Keys, j # k, HasEvent(j) PROVE HasEvent(j)'
      OBVIOUS
    <2>1. PICK i \in 1..Len(ready_queue) : ready_queue[i] = j
      BY <1>3 DEF HasEvent
    <2>2. i - 1 \in 1..(Len(ready_queue) - 1) /\ i = (i - 1) + 1
      BY <1>1, <1>3, <2>1
    <2>3. ready_queue'[i - 1] = j
      BY <1>3, <2>1, <2>2
    <2> QED
      BY <1>3, <2>2, <2>3 DEF HasEvent
  <1>6. TypeOK'
    <2>1. streams' \in [Keys -> Conns \cup {NoConn}] /\ taken' \in Conns \cup {NoConn}
      BY <1>3, <1>4 DEF IInv, TypeOK
    <2>2. remaining_ready' \in Nat /\ pc' \in PC
      BY <1>1, <1>4 DEF PC
    <2>3. waker' \in BOOLEAN
      BY Zenon
    <2> QED
      BY <1>3, <1>4, <2>1, <2>2, <2>3 DEF IInv, TypeOK
  <1>7. QueuedHasEvent'
    BY <1>4, <1>5 DEF IInv, QueuedHasEvent, TypeOK
  <1>8. PopFindsEvent'
    BY <1>1, <1>3 DEF PopFindsEvent
  <1>9. SleepInv' /\ TakenInv' /\ PendingInv'
    BY <1>4 DEF SleepInv, TakenInv, PendingInv
  <1>10. StreamKeyInv'
    BY <1>3, <1>4 DEF IInv, StreamKeyInv, TypeOK
  <1>11. WatchedInv'
    BY <1>3, <1>4, <1>5 DEF IInv, WatchedInv, Watched, StreamKeyInv, TypeOK
  <1>12. ArmedInv'
    BY DEF IInv, ArmedInv, Readable
  <1> QED
    BY <1>6, <1>7, <1>8, <1>9, <1>10, <1>11, <1>12 DEF IInv

\* A stream that is polled registers a waker unless it can be read.
LEMMA PollStreamIInv ==
  ASSUME IInv, PollStream
  PROVE  IInv'
  <1> USE DEF PollStream, queueVars
  <1>1. taken \in Conns /\ pc = "poll"
    BY DEF IInv, TypeOK, TakenInv
  <1>2. \A j \in Keys : HasEvent(j)' <=> HasEvent(j)
    BY DEF HasEvent
  <1>3. TypeOK'
    <2>1. armed' \in [Conns -> BOOLEAN]
      BY <1>1 DEF IInv, TypeOK
    <2>2. inbox' \in [Conns -> 0..MaxInbox]
      <3>1. inbox \in [Conns -> 0..MaxInbox] /\ inbox[taken] \in 0..MaxInbox
        BY <1>1 DEF IInv, TypeOK
      <3>2. CASE inbox[taken] > 0 /\ inbox' = [inbox EXCEPT ![taken] = @ - 1]
        <4>1. inbox[taken] - 1 \in 0..MaxInbox
          BY <3>1, <3>2
        <4> QED
          BY <3>1, <3>2, <4>1
      <3>3. CASE UNCHANGED inbox
        BY <3>1, <3>3
      <3> QED
        BY <3>2, <3>3
    <2>3. pc' \in PC
      BY DEF PC
    <2> QED
      BY <2>1, <2>2, <2>3 DEF IInv, TypeOK
  <1>4. QueuedHasEvent'
    BY <1>2 DEF IInv, QueuedHasEvent, TypeOK
  <1>5. PopFindsEvent' /\ SleepInv' /\ TakenInv' /\ StreamKeyInv'
    BY <1>1 DEF IInv, PopFindsEvent, SleepInv, TakenInv, StreamKeyInv
  <1>6. \A d \in Conns : Watched(d) => Watched(d)'
    BY <1>1, <1>2 DEF IInv, TypeOK, Watched
  <1>7. WatchedInv'
    BY <1>6 DEF IInv, WatchedInv, TypeOK
  <1>8. PendingInv'
    BY <1>1 DEF IInv, PendingInv, Watched, TypeOK
  <1>9. ArmedInv'
    BY <1>1 DEF IInv, ArmedInv, Readable, TypeOK
  <1> QED
    BY <1>3, <1>4, <1>5, <1>7, <1>8, <1>9 DEF IInv

\* A stream that yielded an item goes back with an event of its own.
LEMMA ReturnItemIInv ==
  ASSUME IInv, ReturnItem
  PROVE  IInv'
  <1> USE DEF ReturnItem, PutBack, connVars
  <1>0. taken \in Conns
    BY DEF IInv, TypeOK, TakenInv
  \* taken changes in this step: name its key before it does.
  <1> PICK k \in Keys : k = KeyOf[taken]
    BY <1>0
  <1>1. taken \in Conns /\ push_ready(k) /\ TypeOK /\ QueuedHasEvent
    BY <1>0 DEF IInv
  <1>2. /\ ready_queue' \in Seq(Keys)
        /\ queued' \subseteq Keys
        /\ \A j \in Keys : HasEvent(j) => HasEvent(j)'
        /\ HasEvent(k)'
        /\ QueuedHasEvent'
    BY <1>1, PushReadyFacts
  <1>3. TypeOK'
    BY <1>1, <1>2 DEF TypeOK, PC
  <1>4. PopFindsEvent' /\ SleepInv' /\ TakenInv' /\ PendingInv'
    BY DEF PopFindsEvent, SleepInv, TakenInv, PendingInv
  <1>5. StreamKeyInv'
    BY <1>1 DEF IInv, StreamKeyInv, TypeOK
  <1>6. WatchedInv'
    BY <1>1, <1>2 DEF IInv, WatchedInv, Watched, StreamKeyInv, TypeOK
  <1>7. ArmedInv'
    BY DEF IInv, ArmedInv, Readable
  <1> QED
    BY <1>2, <1>3, <1>4, <1>5, <1>6, <1>7 DEF IInv

\* A stream that ended needs no event any more.
LEMMA StreamEndedIInv ==
  ASSUME IInv, StreamEnded
  PROVE  IInv'
  <1> USE DEF StreamEnded, on_disconnect, RemoveStream, connVars
  <1>1. taken \in Conns /\ KeyOf[taken] \in Keys
    BY DEF IInv, TypeOK, TakenInv
  <1>2. \A j \in Keys : HasEvent(j)' <=> HasEvent(j)
    BY DEF HasEvent
  <1>3. TypeOK'
    BY <1>1 DEF IInv, TypeOK, PC
  <1>4. QueuedHasEvent'
    BY <1>2 DEF IInv, QueuedHasEvent, TypeOK
  <1>5. PopFindsEvent' /\ SleepInv' /\ TakenInv' /\ PendingInv'
    BY DEF IInv, PopFindsEvent, SleepInv, TakenInv, PendingInv
  <1>6. StreamKeyInv'
    BY <1>1 DEF IInv, StreamKeyInv, TypeOK
  <1>7. WatchedInv'
    BY <1>1, <1>2 DEF IInv, WatchedInv, Watched, StreamKeyInv, TypeOK
  <1>8. ArmedInv'
    BY DEF IInv, ArmedInv, Readable
  <1> QED
    BY <1>3, <1>4, <1>5, <1>6, <1>7, <1>8 DEF IInv

\* A stream that is pending goes back without an event: its waker is armed.
LEMMA StreamPendingIInv ==
  ASSUME IInv, StreamPending
  PROVE  IInv'
  <1> USE DEF StreamPending, PutBack, connVars
  <1>1. taken \in Conns /\ KeyOf[taken] \in Keys /\ Watched(taken)
    BY DEF IInv, TypeOK, TakenInv, PendingInv
  <1>2. \A j \in Keys : HasEvent(j)' <=> HasEvent(j)
    BY DEF HasEvent
  <1>3. TypeOK'
    BY <1>1 DEF IInv, TypeOK, PC
  <1>4. QueuedHasEvent'
    BY <1>2 DEF IInv, QueuedHasEvent, TypeOK
  <1>5. PopFindsEvent' /\ SleepInv' /\ TakenInv' /\ PendingInv'
    BY DEF IInv, PopFindsEvent, SleepInv, TakenInv, PendingInv
  <1>6. StreamKeyInv'
    BY <1>1 DEF IInv, StreamKeyInv, TypeOK
  <1>7. WatchedInv'
    BY <1>1, <1>2 DEF IInv, WatchedInv, Watched, StreamKeyInv, TypeOK
  <1>8. ArmedInv'
    BY DEF IInv, ArmedInv, Readable
  <1> QED
    BY <1>3, <1>4, <1>5, <1>6, <1>7, <1>8 DEF IInv

\* poll_next gives up only with its waker stored, waking itself if events came.
LEMMA ReturnPendingIInv ==
  ASSUME IInv, ReturnPending
  PROVE  IInv'
  <1> USE DEF ReturnPending, connVars
  <1>1. \A j \in Keys : HasEvent(j)' <=> HasEvent(j)
    BY DEF HasEvent
  <1>2. TypeOK'
    <2>1. waker' \in BOOLEAN /\ notified' \in BOOLEAN
      BY Zenon
    <2> QED
      BY <2>1 DEF IInv, TypeOK, PC
  <1>3. QueuedHasEvent'
    BY <1>1 DEF IInv, QueuedHasEvent, TypeOK
  <1>4. SleepInv'
    BY <1>2 DEF IInv, SleepInv, TypeOK
  <1>5. PopFindsEvent' /\ TakenInv' /\ PendingInv' /\ StreamKeyInv'
    BY DEF IInv, PopFindsEvent, TakenInv, PendingInv, StreamKeyInv
  <1>6. WatchedInv' /\ ArmedInv'
    BY <1>1 DEF IInv, WatchedInv, Watched, ArmedInv, Readable, TypeOK
  <1> QED
    BY <1>2, <1>3, <1>4, <1>5, <1>6 DEF IInv

\* A step that changes nothing.
LEMMA StutterIInv ==
  ASSUME IInv, UNCHANGED vars
  PROVE  IInv'
  BY DEF vars, queueVars, receiverVars, connVars, IInv, TypeOK, QueuedHasEvent,
         HasEvent, PopFindsEvent, SleepInv, StreamKeyInv, TakenInv, WatchedInv,
         PendingInv, Watched, ArmedInv, Readable

\* Every step preserves the invariant.
LEMMA NextIInv == IInv /\ [Next]_vars => IInv'
  <1> SUFFICES ASSUME IInv, [Next]_vars PROVE IInv'
    OBVIOUS
  <1>1. CASE \E c \in Conns : insert(c) \/ Arrive(c) \/ ArrivePartial(c)
                              \/ RemoteClose(c) \/ wake_by_ref(c)
    BY <1>1, InsertIInv, ReactorIInv, WakeIInv
  <1>2. CASE \E k \in Keys : remove(k)
    BY <1>2, RemoveIInv
  <1>3. CASE clear \/ CancelRecv
    BY <1>3, ClearIInv, CancelIInv
  <1>4. CASE CallRecv \/ Repoll \/ SpuriousPoll
    BY <1>4, BeginPollIInv DEF CallRecv, Repoll, SpuriousPoll
  <1>5. CASE PopEvent \/ PollStream
    BY <1>5, PopEventIInv, PollStreamIInv
  <1>6. CASE ReturnItem \/ StreamEnded \/ StreamPending \/ ReturnPending
    BY <1>6, ReturnItemIInv, StreamEndedIInv, StreamPendingIInv, ReturnPendingIInv
  <1>7. CASE UNCHANGED vars
    BY <1>7, StutterIInv
  <1> QED
    BY <1>1, <1>2, <1>3, <1>4, <1>5, <1>6, <1>7 DEF Next, Receiver

\* IInv holds in every reachable state.
THEOREM Invariance == Spec => []IInv
  BY InitIInv, NextIInv, PTL DEF Spec

\* The state of the queue, the receiver and the connections is well-typed: in
\* particular remaining_ready, a usize, never underflows.
THEOREM TypeCorrect == Spec => []TypeOK
  <1>1. IInv => TypeOK
    BY DEF IInv
  <1> QED
    BY <1>1, Invariance, PTL

\* poll_next, insert and StreamWaker::wake_by_ref lose no wakeup, whatever the
\* interleaving with removal, reconnection and cancellation.
THEOREM LosesNoWakeup == Spec => []NoLostWakeup
  <1>1. IInv => NoLostWakeup
    <2> SUFFICES ASSUME IInv, pc = "parked", ~notified, NEW k \in Keys,
                        streams[k] # NoConn, Readable(streams[k])
                 PROVE  streams[k] \in waking
      BY DEF NoLostWakeup
    <2>1. ready_queue = <<>> /\ streams[k] \in Conns
      BY DEF IInv, SleepInv, TypeOK
    <2>2. ~HasEvent(KeyOf[streams[k]])
      BY <2>1 DEF HasEvent
    <2> QED
      BY <2>1, <2>2 DEF IInv, WatchedInv, Watched, ArmedInv
  <1> QED
    BY <1>1, Invariance, PTL

\* A key marked as queued has an event, so that push_ready never skips a key
\* that nothing else would poll.
THEOREM QueuedIsAccurate == Spec => []QueuedHasEvent
  <1>1. IInv => QueuedHasEvent
    BY DEF IInv
  <1> QED
    BY <1>1, Invariance, PTL

\* poll_next never finds the heap empty inside its loop.
THEOREM PopAlwaysFindsEvent == Spec => []PopFindsEvent
  <1>1. IInv => PopFindsEvent
    BY DEF IInv
  <1> QED
    BY <1>1, Invariance, PTL

-----------------------------------------------------------------------------
(* Streams that leave and the events they leave behind *)

\* poll_next has a stream in its hands only while it polls it and puts it back.
FreeInv == pc \in {"idle", "parked", "loop"} => taken = NoConn
\* A stream is in one place: taken out, or in the map.
PlaceInv == taken # NoConn => streams[KeyOf[taken]] # taken
\* Only streams that were inserted are held.
InsertedInv == \A c \in Conns : Held(c) => c \in inserted
\* A stream that answered None has ended and stays so.
EndedInv == pc = "ended" => eof[taken] /\ inbox[taken] = 0

Events(k) == {i \in DOMAIN ready_queue : ready_queue[i] = k}
\* Connections of k that ended and left the queue for good.
Gone(k) == {c \in inserted : KeyOf[c] = k /\ eof[c] /\ ~Held(c)}
\* A key has the event that queued stands for, and one that each remove or each
\* ended stream can have left behind.
Flag(k) == IF k \in queued THEN 1 ELSE 0
CountInv ==
  \A k \in Keys :
    Cardinality(Events(k)) <= Flag(k) + removals + Cardinality(Gone(k))

LeaveInv == FreeInv /\ PlaceInv /\ InsertedInv /\ EndedInv /\ CountInv

\* The sets that CountInv counts are finite.
LEMMA PositionsFinite ==
  ASSUME NEW q \in Seq(Keys), NEW k
  PROVE  LET P == {i \in DOMAIN q : q[i] = k}
         IN  IsFiniteSet(P) /\ Cardinality(P) \in Nat
  <1> DEFINE P == {i \in DOMAIN q : q[i] = k}
  <1>1. DOMAIN q = 1..Len(q) /\ Len(q) \in Nat
    OBVIOUS
  <1>2. IsFiniteSet(DOMAIN q)
    BY <1>1, FS_Interval
  <1>3. P \in SUBSET DOMAIN q
    OBVIOUS
  <1>4. IsFiniteSet(P)
    BY <1>2, <1>3, FS_Subset
  <1> QED
    BY <1>4, FS_CardinalityType

LEMMA ConnsFinite ==
  ASSUME NEW P \in SUBSET Conns PROVE IsFiniteSet(P) /\ Cardinality(P) \in Nat
  BY FS_Subset, FS_CardinalityType

LEMMA CountsFinite ==
  ASSUME TypeOK, NEW k \in Keys
  PROVE  /\ IsFiniteSet(Events(k)) /\ Cardinality(Events(k)) \in Nat
         /\ Cardinality(Gone(k)) \in Nat
         /\ removals \in Nat /\ Flag(k) \in 0..1
  <1>1. IsFiniteSet(Events(k)) /\ Cardinality(Events(k)) \in Nat
    <2>1. ready_queue \in Seq(Keys)
      BY DEF TypeOK
    <2> QED
      BY <2>1, PositionsFinite, Zenon DEF Events
  <1>2. Gone(k) \in SUBSET Conns
    BY DEF TypeOK, Gone
  <1> QED
    BY <1>1, <1>2, ConnsFinite DEF TypeOK, Flag

\* push_ready adds one event, of a key that had no flag, or none.
LEMMA PushCount ==
  ASSUME TypeOK, NEW k \in Keys, push_ready(k), NEW j \in Keys
  PROVE  Cardinality(Events(j))' + Flag(j) <= Cardinality(Events(j)) + Flag(j)'
  <1>1. IsFiniteSet(Events(j)) /\ Cardinality(Events(j)) \in Nat
    BY CountsFinite
  <1>2. CASE k \in queued
    <2>1. ready_queue' = ready_queue /\ queued' = queued
      BY <1>2 DEF push_ready
    <2> QED
      BY <1>1, <2>1 DEF Events, Flag
  <1>3. CASE k \notin queued
    <2>1. ready_queue' = Append(ready_queue, k) /\ queued' = queued \cup {k}
      BY <1>3 DEF push_ready
    <2>2. /\ DOMAIN ready_queue = 1..Len(ready_queue)
          /\ DOMAIN ready_queue' = 1..(Len(ready_queue) + 1)
          /\ \A i \in 1..Len(ready_queue) : ready_queue'[i] = ready_queue[i]
          /\ ready_queue'[Len(ready_queue) + 1] = k
          /\ Len(ready_queue) \in Nat
      BY <2>1, AppendFacts DEF TypeOK
    <2>3. CASE j = k
      <3>1. Events(j)' = Events(j) \cup {Len(ready_queue) + 1}
        BY <2>2, <2>3 DEF Events
      <3>2. Len(ready_queue) + 1 \notin Events(j)
        BY <2>2 DEF Events
      <3>3. Cardinality(Events(j)') = Cardinality(Events(j)) + 1
        BY <1>1, <3>1, <3>2, FS_AddElement, Zenon
      <3>4. Flag(j) = 0 /\ Flag(j)' = 1
        BY <1>3, <2>1, <2>3 DEF Flag
      <3> QED
        BY <1>1, <3>3, <3>4
    <2>4. CASE j # k
      <3>1. Events(j)' = Events(j)
        BY <2>2, <2>4 DEF Events
      <3>2. Flag(j)' = Flag(j)
        BY <2>1, <2>4 DEF Flag
      <3> QED
        BY <1>1, <3>1, <3>2 DEF Flag
    <2> QED
      BY <2>3, <2>4
  <1> QED
    BY <1>2, <1>3

\* Popping takes one event of the popped key away, and adds none.
LEMMA PopCount ==
  ASSUME TypeOK, ready_queue # <<>>, ready_queue' = Tail(ready_queue), NEW j \in Keys
  PROVE  /\ Cardinality(Events(j))' <= Cardinality(Events(j))
         /\ j = Head(ready_queue) => Cardinality(Events(j))' + 1 <= Cardinality(Events(j))
  <1> DEFINE rest == Events(j) \ {1}
             f == [i \in Events(j)' |-> i + 1]
  <1>1. /\ Head(ready_queue) = ready_queue[1]
        /\ Len(ready_queue) \in Nat \ {0}
        /\ \A i \in 1..(Len(ready_queue) - 1) : ready_queue'[i] = ready_queue[i + 1]
        /\ DOMAIN ready_queue = 1..Len(ready_queue)
        /\ DOMAIN ready_queue' = 1..(Len(ready_queue) - 1)
    BY TailFacts DEF TypeOK
  <1>2. IsFiniteSet(Events(j)) /\ Cardinality(Events(j)) \in Nat
    BY CountsFinite
  <1>3. \A i \in Events(j)' : i \in Nat /\ i + 1 \in rest
    BY <1>1 DEF Events
  <1>4. f \in Injection(Events(j)', rest)
    <2>1. f \in [Events(j)' -> rest]
      BY <1>3
    <2>2. IsInjective(f)
      BY <1>3 DEF IsInjective
    <2> QED
      BY <2>1, <2>2 DEF Injection
  <1>5. /\ IsFiniteSet(rest)
        /\ Cardinality(rest) = IF 1 \in Events(j) THEN Cardinality(Events(j)) - 1
                                                  ELSE Cardinality(Events(j))
    BY <1>2, FS_RemoveElement
  <1>6. IsFiniteSet(Events(j)') /\ Cardinality(Events(j)') <= Cardinality(rest)
    BY <1>4, <1>5, FS_Injection
  <1>7. Cardinality(Events(j)') \in Nat
    BY <1>6, FS_CardinalityType
  <1>8. j = Head(ready_queue) => 1 \in Events(j)
    BY <1>1 DEF Events
  <1> QED
    BY <1>2, <1>5, <1>6, <1>7, <1>8

\* After a step the events can be counted too.
LEMMA EventsNat == ASSUME TypeOK', NEW k \in Keys PROVE Cardinality(Events(k))' \in Nat
  <1>1. ready_queue' \in Seq(Keys)
    BY DEF TypeOK
  <1> QED
    BY <1>1, PositionsFinite, Zenon DEF Events

\* A step keeps the bound of a key when no ended connection comes back and every new
\* event is paid for by a flag or a removal.
LEMMA CountStep ==
  ASSUME TypeOK, TypeOK', CountInv, NEW k \in Keys,
         inserted \subseteq inserted',
         \A c \in inserted : (eof[c] => eof'[c]) /\ (~Held(c) => ~Held(c)'),
         Cardinality(Events(k))' + Flag(k) + removals
           <= Cardinality(Events(k)) + Flag(k)' + removals'
  PROVE  Cardinality(Events(k))' <= Flag(k)' + removals' + Cardinality(Gone(k))'
  <1>1. /\ Cardinality(Events(k)) \in Nat /\ Cardinality(Gone(k)) \in Nat
        /\ removals \in Nat /\ Flag(k) \in 0..1
    BY CountsFinite
  <1>2. /\ Cardinality(Events(k))' \in Nat /\ Cardinality(Gone(k))' \in Nat
        /\ removals' \in Nat /\ Flag(k)' \in 0..1 /\ IsFiniteSet(Gone(k)')
    <2>1. Cardinality(Events(k))' \in Nat
      BY EventsNat
    <2>2. Gone(k)' \in SUBSET Conns
      BY DEF TypeOK, Gone
    <2> QED
      BY <2>1, <2>2, ConnsFinite DEF TypeOK, Flag
  <1>3. Gone(k) \subseteq Gone(k)'
    BY DEF Gone
  <1>4. Cardinality(Gone(k)) <= Cardinality(Gone(k)')
    BY <1>2, <1>3, FS_Subset
  <1>5. Cardinality(Events(k)) <= Flag(k) + removals + Cardinality(Gone(k))
    BY DEF CountInv
  <1> QED
    BY <1>1, <1>2, <1>4, <1>5

\* The same for steps that leave the heap, the flags and the removals alone.
LEMMA CountFrame ==
  ASSUME TypeOK, TypeOK', CountInv, UNCHANGED <<ready_queue, queued, removals, inserted>>,
         \A c \in inserted : (eof[c] => eof'[c]) /\ (~Held(c) => ~Held(c)')
  PROVE  CountInv'
  <1> SUFFICES ASSUME NEW k \in Keys
               PROVE  Cardinality(Events(k))' <= Flag(k)' + removals' + Cardinality(Gone(k))'
    BY DEF CountInv
  <1>1. Events(k)' = Events(k) /\ Flag(k)' = Flag(k) /\ removals' = removals
    BY DEF Events, Flag
  <1>2. /\ Cardinality(Events(k)) \in Nat /\ removals \in Nat /\ Flag(k) \in 0..1
    BY CountsFinite
  <1>3. Cardinality(Events(k))' + Flag(k) + removals
          <= Cardinality(Events(k)) + Flag(k)' + removals'
    BY <1>1, <1>2
  <1> QED
    BY <1>3, CountStep

\* The empty queue of FairQueue::new has nothing to count.
LEMMA InitLeave == Init => LeaveInv
  <1> SUFFICES ASSUME Init PROVE LeaveInv
    OBVIOUS
  <1>1. FreeInv /\ PlaceInv /\ InsertedInv /\ EndedInv
    BY DEF Init, FreeInv, PlaceInv, InsertedInv, EndedInv, Held
  <1>2. TypeOK
    BY InitIInv DEF IInv
  <1>3. CountInv
    <2> SUFFICES ASSUME NEW k \in Keys
                 PROVE  Cardinality(Events(k)) <= Flag(k) + removals + Cardinality(Gone(k))
      BY DEF CountInv
    <2>1. Events(k) = {}
      BY DEF Init, Events
    <2>2. Cardinality(Events(k)) = 0
      BY <2>1, FS_EmptySet
    <2> QED
      BY <1>2, <2>2, CountsFinite
  <1> QED
    BY <1>1, <1>3 DEF LeaveInv

\* insert() and wake_by_ref() pay for their event with the flag.
LEMMA PushLeave ==
  ASSUME IInv, IInv', LeaveInv, NEW c \in Conns, insert(c) \/ wake_by_ref(c)
  PROVE  LeaveInv'
  <1>1. TypeOK /\ TypeOK' /\ KeyOf[c] \in Keys /\ push_ready(KeyOf[c]) /\ removals' = removals
    BY DEF IInv, insert, wake_by_ref
  <1>2. FreeInv' /\ EndedInv'
    BY DEF LeaveInv, FreeInv, EndedInv, insert, wake_by_ref
  <1>3. PlaceInv'
    BY <1>1 DEF TypeOK, LeaveInv, PlaceInv, InsertedInv, Held, insert, wake_by_ref
  <1>4. InsertedInv'
    BY <1>1 DEF TypeOK, LeaveInv, InsertedInv, Held, insert, wake_by_ref
  <1>5. /\ inserted \subseteq inserted'
        /\ \A d \in inserted : (eof[d] => eof'[d]) /\ (~Held(d) => ~Held(d)')
    BY <1>1 DEF TypeOK, Held, insert, wake_by_ref
  <1>6. CountInv'
    <2> SUFFICES ASSUME NEW k \in Keys
                 PROVE  Cardinality(Events(k))' <= Flag(k)' + removals' + Cardinality(Gone(k))'
      BY DEF CountInv
    <2>1. Cardinality(Events(k))' + Flag(k) <= Cardinality(Events(k)) + Flag(k)'
      BY <1>1, PushCount
    <2>2. Cardinality(Events(k)) \in Nat /\ removals \in Nat /\ Flag(k) \in 0..1
      BY <1>1, CountsFinite
    <2>3. Cardinality(Events(k))' \in Nat /\ Flag(k)' \in 0..1
      BY <1>1, EventsNat DEF Flag
    <2>4. Cardinality(Events(k))' + Flag(k) + removals
            <= Cardinality(Events(k)) + Flag(k)' + removals'
      BY <1>1, <2>1, <2>2, <2>3
    <2> QED
      BY <1>1, <1>5, <2>4, CountStep DEF LeaveInv
  <1> QED
    BY <1>2, <1>3, <1>4, <1>6 DEF LeaveInv

\* remove() leaves at most one event behind, and counts itself.
LEMMA RemoveLeave ==
  ASSUME IInv, IInv', LeaveInv, NEW k \in Keys, remove(k)
  PROVE  LeaveInv'
  <1>1. TypeOK /\ TypeOK' /\ removals' = removals + 1
    BY DEF IInv, remove
  <1>2. FreeInv' /\ EndedInv'
    BY DEF LeaveInv, FreeInv, EndedInv, remove, receiverVars
  <1>3. PlaceInv' /\ InsertedInv'
    BY <1>1 DEF TypeOK, LeaveInv, PlaceInv, InsertedInv, Held, remove, RemoveStream, receiverVars
  <1>4. /\ inserted \subseteq inserted'
        /\ \A d \in inserted : (eof[d] => eof'[d]) /\ (~Held(d) => ~Held(d)')
    BY <1>1 DEF TypeOK, Held, remove, RemoveStream, receiverVars
  <1>5. CountInv'
    <2> SUFFICES ASSUME NEW j \in Keys
                 PROVE  Cardinality(Events(j))' <= Flag(j)' + removals' + Cardinality(Gone(j))'
      BY DEF CountInv
    <2>1. Events(j)' = Events(j) /\ Flag(j)' \in 0..1
      BY DEF remove, RemoveStream, Events, Flag
    <2>2. Cardinality(Events(j)) \in Nat /\ removals \in Nat /\ Flag(j) \in 0..1
      BY <1>1, CountsFinite
    <2>3. Cardinality(Events(j))' + Flag(j) + removals
            <= Cardinality(Events(j)) + Flag(j)' + removals'
      BY <1>1, <2>1, <2>2
    <2> QED
      BY <1>1, <1>4, <2>3, CountStep DEF LeaveInv
  <1> QED
    BY <1>2, <1>3, <1>5 DEF LeaveInv

\* clear() leaves no event.
LEMMA ClearLeave ==
  ASSUME IInv, IInv', LeaveInv, clear
  PROVE  LeaveInv'
  <1>1. TypeOK' /\ taken = NoConn
    BY DEF IInv, LeaveInv, FreeInv, clear, NoRecvPending
  <1>2. FreeInv' /\ EndedInv' /\ PlaceInv' /\ InsertedInv'
    BY <1>1 DEF LeaveInv, FreeInv, EndedInv, PlaceInv, InsertedInv, Held, clear,
                NoRecvPending, connVars
  <1>3. CountInv'
    <2> SUFFICES ASSUME NEW j \in Keys
                 PROVE  Cardinality(Events(j))' <= Flag(j)' + removals' + Cardinality(Gone(j))'
      BY DEF CountInv
    <2>1. Events(j)' = {}
      BY DEF clear, Events
    <2>2. Cardinality(Events(j))' = 0
      BY <2>1, FS_EmptySet
    <2>3. Gone(j)' \in SUBSET Conns
      BY <1>1 DEF TypeOK, Gone
    <2>4. Cardinality(Gone(j))' \in Nat
      BY <2>3, ConnsFinite
    <2> QED
      BY <1>1, <2>2, <2>4 DEF TypeOK, Flag
  <1> QED
    BY <1>2, <1>3 DEF LeaveInv

\* The reactor moves no stream and no event.
LEMMA ReactorLeave ==
  ASSUME IInv, IInv', LeaveInv, NEW c \in Conns,
         Arrive(c) \/ ArrivePartial(c) \/ RemoteClose(c)
  PROVE  LeaveInv'
  <1>1. /\ TypeOK /\ TypeOK'
        /\ UNCHANGED <<ready_queue, queued, streams, pc, taken, removals, inserted>>
    BY DEF IInv, Arrive, ArrivePartial, RemoteClose, queueVars, receiverVars
  <1>2. \A d \in Conns : (eof[d] => eof'[d]) /\ (eof[d] => inbox'[d] = inbox[d])
    BY <1>1 DEF TypeOK, Arrive, ArrivePartial, RemoteClose
  <1>3. FreeInv' /\ PlaceInv' /\ InsertedInv'
    BY <1>1 DEF LeaveInv, FreeInv, PlaceInv, InsertedInv, Held
  <1>4. EndedInv'
    BY <1>1, <1>2 DEF IInv, TypeOK, TakenInv, LeaveInv, EndedInv
  <1>5. \A d \in inserted : (eof[d] => eof'[d]) /\ (~Held(d) => ~Held(d)')
    BY <1>1, <1>2 DEF TypeOK, Held
  <1>6. CountInv'
    BY <1>1, <1>5, CountFrame DEF LeaveInv
  <1> QED
    BY <1>3, <1>4, <1>6 DEF LeaveInv

\* Steps of poll_next that neither push nor pop, and a dropped future.
LEMMA PollLeave ==
  ASSUME IInv, IInv', LeaveInv,
         (BeginPoll /\ pc \in {"idle", "parked"}) \/ CancelRecv \/ PollStream \/ StreamPending
           \/ ReturnPending
  PROVE  LeaveInv'
  <1>1. /\ TypeOK /\ TypeOK'
        /\ UNCHANGED <<ready_queue, queued, removals, inserted, eof>>
    BY DEF IInv, BeginPoll, CancelRecv, PollStream, StreamPending, ReturnPending, queueVars,
           connVars
  <1>2. CASE StreamPending
    <2>1. /\ taken \in Conns /\ taken' = NoConn /\ pc' = "loop"
          /\ streams' = [streams EXCEPT ![KeyOf[taken]] = taken]
      BY <1>1, <1>2 DEF IInv, TypeOK, TakenInv, StreamPending, PutBack
    <2>2. FreeInv' /\ PlaceInv' /\ EndedInv'
      BY <2>1 DEF FreeInv, PlaceInv, EndedInv
    <2>3. \A d \in Conns : Held(d)' => Held(d)
      BY <1>1, <2>1 DEF TypeOK, Held
    <2> QED
      BY <1>1, <2>2, <2>3, CountFrame DEF TypeOK, LeaveInv, InsertedInv
  <1>3. CASE ~StreamPending
    <2>1. UNCHANGED <<streams, taken>>
      BY <1>3 DEF BeginPoll, CancelRecv, PollStream, ReturnPending, queueVars
    <2>2. PlaceInv' /\ InsertedInv'
      BY <1>1, <2>1 DEF LeaveInv, PlaceInv, InsertedInv, Held
    <2>3. FreeInv'
      BY <1>3, <2>1 DEF IInv, TakenInv, LeaveInv, FreeInv, BeginPoll, CancelRecv, PollStream,
                  ReturnPending
    <2>4. EndedInv'
      BY <1>3, <2>1 DEF LeaveInv, EndedInv, BeginPoll, CancelRecv, PollStream, ReturnPending
    <2>5. CountInv'
      BY <1>1, <2>1, CountFrame DEF LeaveInv, Held
    <2> QED
      BY <2>2, <2>3, <2>4, <2>5 DEF LeaveInv
  <1> QED
    BY <1>2, <1>3

\* Popping an event takes the flag of its key away with it.
LEMMA PopLeave ==
  ASSUME IInv, IInv', LeaveInv, PopEvent
  PROVE  LeaveInv'
  <1>1. TypeOK /\ TypeOK' /\ pc = "loop" /\ taken = NoConn /\ UNCHANGED connVars
    BY DEF IInv, LeaveInv, FreeInv, PopEvent
  <1>2. UNCHANGED <<removals, inserted, eof, inbox>>
    BY <1>1 DEF connVars
  <1>3. CASE ready_queue = <<>>
    <2>1. UNCHANGED <<ready_queue, queued, streams, taken>> /\ pc' = "parked"
      BY <1>3 DEF PopEvent
    <2>2. FreeInv' /\ PlaceInv' /\ InsertedInv' /\ EndedInv'
      BY <1>1, <1>2, <2>1 DEF LeaveInv, FreeInv, PlaceInv, InsertedInv, EndedInv, Held
    <2>3. CountInv'
      BY <1>1, <1>2, <2>1, CountFrame DEF LeaveInv, Held
    <2> QED
      BY <2>2, <2>3 DEF LeaveInv
  <1>4. CASE ready_queue # <<>>
    <2>0. Head(ready_queue) \in Keys
      BY <1>1, <1>4, TailFacts DEF TypeOK
    <2>1. PICK k \in Keys : k = Head(ready_queue)
      BY <2>0
    <2>2. /\ ready_queue' = Tail(ready_queue) /\ queued' = queued \ {k}
          /\ streams' = [streams EXCEPT ![k] = NoConn] /\ taken' = streams[k]
          /\ pc' = IF streams[k] = NoConn THEN "loop" ELSE "poll"
      BY <1>4, <2>1 DEF PopEvent, TakeOut
    <2>3. streams[k] # NoConn => streams[k] \in Conns /\ KeyOf[streams[k]] = k
      BY <1>1 DEF IInv, TypeOK, StreamKeyInv
    <2>4. FreeInv' /\ EndedInv'
      BY <2>2 DEF FreeInv, EndedInv
    <2>5. PlaceInv'
      BY <1>1, <2>2, <2>3 DEF TypeOK, PlaceInv
    <2>6. \A d \in Conns : Held(d)' => Held(d)
      BY <1>1, <2>2, <2>3 DEF TypeOK, Held
    <2>7. InsertedInv'
      BY <1>2, <2>6 DEF LeaveInv, InsertedInv
    <2>8. CountInv'
      <3> SUFFICES ASSUME NEW j \in Keys
                   PROVE  Cardinality(Events(j))' <= Flag(j)' + removals' + Cardinality(Gone(j))'
        BY DEF CountInv
      <3>1. /\ Cardinality(Events(j))' <= Cardinality(Events(j))
            /\ j = k => Cardinality(Events(j))' + 1 <= Cardinality(Events(j))
        BY <1>1, <1>4, <2>1, <2>2, PopCount
      <3>2. Cardinality(Events(j)) \in Nat /\ removals \in Nat /\ Flag(j) \in 0..1
        BY <1>1, CountsFinite
      <3>3. Cardinality(Events(j))' \in Nat
        BY <1>1, EventsNat
      <3>4. Flag(j)' = IF j = k THEN 0 ELSE Flag(j)
        BY <2>2 DEF Flag
      <3>5. Cardinality(Events(j))' + Flag(j) + removals
              <= Cardinality(Events(j)) + Flag(j)' + removals'
        BY <1>2, <3>1, <3>2, <3>3, <3>4
      <3>6. \A d \in inserted : (eof[d] => eof'[d]) /\ (~Held(d) => ~Held(d)')
        BY <1>1, <1>2, <2>6 DEF TypeOK
      <3> QED
        BY <1>1, <1>2, <3>5, <3>6, CountStep DEF LeaveInv
    <2> QED
      BY <2>4, <2>5, <2>7, <2>8 DEF LeaveInv
  <1> QED
    BY <1>3, <1>4

\* Returning an item puts the stream back and pays for its event with the flag.
LEMMA ReturnItemLeave ==
  ASSUME IInv, IInv', LeaveInv, ReturnItem
  PROVE  LeaveInv'
  <1>1. /\ TypeOK /\ TypeOK' /\ taken \in Conns /\ taken' = NoConn /\ pc' = "idle"
        /\ streams' = [streams EXCEPT ![KeyOf[taken]] = taken]
        /\ KeyOf[taken] \in Keys /\ push_ready(KeyOf[taken])
        /\ UNCHANGED <<inserted, eof, removals>>
    BY DEF IInv, TypeOK, TakenInv, ReturnItem, PutBack, connVars
  <1>2. FreeInv' /\ PlaceInv' /\ EndedInv'
    BY <1>1 DEF FreeInv, PlaceInv, EndedInv
  <1>3. \A d \in Conns : Held(d)' => Held(d)
    BY <1>1 DEF TypeOK, Held
  <1>4. InsertedInv'
    BY <1>1, <1>3 DEF LeaveInv, InsertedInv
  <1>5. CountInv'
    <2> SUFFICES ASSUME NEW k \in Keys
                 PROVE  Cardinality(Events(k))' <= Flag(k)' + removals' + Cardinality(Gone(k))'
      BY DEF CountInv
    <2>1. Cardinality(Events(k))' + Flag(k) <= Cardinality(Events(k)) + Flag(k)'
      BY <1>1, PushCount
    <2>2. Cardinality(Events(k)) \in Nat /\ removals \in Nat /\ Flag(k) \in 0..1
      BY <1>1, CountsFinite
    <2>3. Cardinality(Events(k))' \in Nat /\ Flag(k)' \in 0..1
      BY <1>1, EventsNat DEF Flag
    <2>4. Cardinality(Events(k))' + Flag(k) + removals
            <= Cardinality(Events(k)) + Flag(k)' + removals'
      BY <1>1, <2>1, <2>2, <2>3
    <2>5. \A d \in inserted : (eof[d] => eof'[d]) /\ (~Held(d) => ~Held(d)')
      BY <1>1, <1>3 DEF TypeOK
    <2> QED
      BY <1>1, <2>4, <2>5, CountStep DEF LeaveInv
  <1> QED
    BY <1>2, <1>4, <1>5 DEF LeaveInv

\* A stream that ended may leave one event behind, and is gone for good.
LEMMA StreamEndedLeave ==
  ASSUME IInv, IInv', LeaveInv, StreamEnded
  PROVE  LeaveInv'
  <1>0. PICK e \in Conns : e = taken
    BY DEF IInv, TypeOK, TakenInv, StreamEnded
  <1>1. PICK k \in Keys : k = KeyOf[e]
    OBVIOUS
  <1>2. /\ TypeOK /\ TypeOK' /\ e = taken /\ taken # NoConn /\ KeyOf[e] = k
        /\ taken' = NoConn /\ pc' = "loop"
        /\ eof[e] /\ streams[k] # e /\ e \in inserted
        /\ UNCHANGED <<ready_queue, inserted, eof, removals>>
    BY <1>0, <1>1 DEF IInv, TypeOK, TakenInv, LeaveInv, EndedInv, PlaceInv, InsertedInv, Held,
                StreamEnded, on_disconnect, RemoveStream, connVars
  <1>3. \/ UNCHANGED <<queued, streams>>
        \/ queued' = queued \ {k} /\ streams' = [streams EXCEPT ![k] = NoConn]
    BY <1>0, <1>1 DEF StreamEnded, on_disconnect, RemoveStream
  <1>4. FreeInv' /\ PlaceInv' /\ EndedInv'
    BY <1>2 DEF FreeInv, PlaceInv, EndedInv
  <1>5. (\A d \in Conns : Held(d)' => Held(d)) /\ ~Held(e)'
    <2>1. \A d \in Conns : streams'[KeyOf[d]] = d => streams[KeyOf[d]] = d
      BY <1>2, <1>3 DEF TypeOK
    <2> QED
      BY <1>2, <2>1 DEF Held
  <1>6. InsertedInv'
    BY <1>2, <1>5 DEF LeaveInv, InsertedInv
  <1>7. \A d \in inserted : (eof[d] => eof'[d]) /\ (~Held(d) => ~Held(d)')
    BY <1>2, <1>5 DEF TypeOK
  <1>8. CountInv'
    <2> SUFFICES ASSUME NEW j \in Keys
                 PROVE  Cardinality(Events(j))' <= Flag(j)' + removals' + Cardinality(Gone(j))'
      BY DEF CountInv
    <2>1. Events(j)' = Events(j) /\ removals' = removals
      BY <1>2 DEF Events
    <2>2. /\ Cardinality(Events(j)) \in Nat /\ Cardinality(Gone(j)) \in Nat
          /\ removals \in Nat /\ Flag(j) \in 0..1
      BY <1>2, CountsFinite
    <2>3. CASE j # k
      <3>1. Flag(j)' = Flag(j)
        BY <1>3, <2>3 DEF Flag
      <3>2. Cardinality(Events(j))' + Flag(j) + removals
              <= Cardinality(Events(j)) + Flag(j)' + removals'
        BY <2>1, <2>2, <3>1
      <3> QED
        BY <1>2, <1>7, <3>2, CountStep DEF LeaveInv
    <2>4. CASE j = k
      <3>1. Gone(j) \in SUBSET Conns /\ Gone(j)' \in SUBSET Conns
        BY <1>2 DEF TypeOK, Gone
      <3>2. Gone(j) \cup {e} \subseteq Gone(j)' /\ e \notin Gone(j)
        BY <1>2, <1>5, <1>7, <2>4 DEF Gone, Held
      <3>3. /\ IsFiniteSet(Gone(j)) /\ IsFiniteSet(Gone(j)') /\ Cardinality(Gone(j)') \in Nat
        BY <3>1, ConnsFinite
      <3>4. Cardinality(Gone(j) \cup {e}) = Cardinality(Gone(j)) + 1
        BY <3>2, <3>3, FS_AddElement, Zenon
      <3>5. Cardinality(Gone(j) \cup {e}) <= Cardinality(Gone(j)')
        BY <3>2, <3>3, FS_Subset
      <3>6. Cardinality(Events(j)) <= Flag(j) + removals + Cardinality(Gone(j))
        BY DEF LeaveInv, CountInv
      <3>7. Flag(j)' \in 0..1
        BY DEF Flag
      <3> QED
        BY <2>1, <2>2, <3>3, <3>4, <3>5, <3>6, <3>7
    <2> QED
      BY <2>3, <2>4
  <1> QED
    BY <1>4, <1>6, <1>8 DEF LeaveInv

\* Every step keeps what is said of leaving streams.
LEMMA NextLeave == IInv /\ IInv' /\ LeaveInv /\ [Next]_vars => LeaveInv'
  <1> SUFFICES ASSUME IInv, IInv', LeaveInv, [Next]_vars PROVE LeaveInv'
    OBVIOUS
  <1>1. CASE \E c \in Conns : insert(c) \/ wake_by_ref(c)
    BY <1>1, PushLeave
  <1>2. CASE \E c \in Conns : Arrive(c) \/ ArrivePartial(c) \/ RemoteClose(c)
    BY <1>2, ReactorLeave
  <1>3. CASE \E k \in Keys : remove(k)
    BY <1>3, RemoveLeave
  <1>4. CASE clear
    BY <1>4, ClearLeave
  <1>5. CASE \/ SpuriousPoll \/ CallRecv \/ Repoll \/ CancelRecv \/ PollStream
             \/ StreamPending \/ ReturnPending
    BY <1>5, PollLeave DEF SpuriousPoll, CallRecv, Repoll
  <1>6. CASE PopEvent
    BY <1>6, PopLeave
  <1>7. CASE ReturnItem
    BY <1>7, ReturnItemLeave
  <1>8. CASE StreamEnded
    BY <1>8, StreamEndedLeave
  <1>9. CASE UNCHANGED vars
    BY <1>9 DEF vars, queueVars, receiverVars, connVars, LeaveInv, FreeInv, PlaceInv,
                InsertedInv, EndedInv, CountInv, Events, Flag, Gone, Held
  <1> QED
    BY <1>1, <1>2, <1>3, <1>4, <1>5, <1>6, <1>7, <1>8, <1>9 DEF Next, Receiver

\* The invariant on leaving streams holds in every state.
THEOREM LeavingStreams == Spec => []LeaveInv
  BY InitLeave, NextLeave, Invariance, PTL DEF Spec

\* A peer's turns per round are bounded: push_ready's flag keeps a key to one event, and
\* only a removal or the end of a stream, which drop the flag and leave the event in the
\* heap, can add another.
THEOREM TurnsBounded == Spec => []EventsBounded
  <1>1. IInv /\ LeaveInv => EventsBounded
    <2> SUFFICES ASSUME TypeOK, CountInv, NEW k \in Keys
                 PROVE  Cardinality(Events(k))
                          <= 1 + removals + Cardinality({c \in Conns : KeyOf[c] = k /\ eof[c]})
      BY DEF IInv, LeaveInv, EventsBounded, Events
    <2> DEFINE Ended == {c \in Conns : KeyOf[c] = k /\ eof[c]}
    <2>1. Gone(k) \in SUBSET Ended /\ Ended \in SUBSET Conns
      BY DEF TypeOK, Gone
    <2>2. IsFiniteSet(Ended) /\ Cardinality(Ended) \in Nat
      BY <2>1, ConnsFinite
    <2>3. Cardinality(Gone(k)) <= Cardinality(Ended)
      BY <2>1, <2>2, FS_Subset
    <2>4. /\ Cardinality(Events(k)) \in Nat /\ Cardinality(Gone(k)) \in Nat
          /\ removals \in Nat /\ Flag(k) \in 0..1
      BY CountsFinite
    <2>5. Cardinality(Events(k)) <= Flag(k) + removals + Cardinality(Gone(k))
      BY DEF CountInv
    <2> QED
      BY <2>2, <2>3, <2>4, <2>5
  <1> QED
    BY <1>1, LeavingStreams, Invariance, PTL

\* A step of the queue takes a stream away only when it has ended, when its key is
\* removed or the queue cleared, or for another connection of the same identity.
LEMMA StepKeepsStream ==
  ASSUME IInv, LeaveInv, Next, NEW c \in Conns, Held(c), ~Held(c)'
  PROVE  \/ eof[c] /\ inbox[c] = 0
         \/ remove(KeyOf[c]) \/ clear
         \/ \E d \in Conns \ {c} : KeyOf[d] = KeyOf[c] /\ (Held(d) \/ Held(d)')
  <1>0. TypeOK /\ KeyOf[c] \in Keys
    BY DEF IInv
  <1>1. CASE \E d \in Conns : insert(d)
    <2>1. PICK d \in Conns : insert(d)
      BY <1>1
    <2>2. streams' = [streams EXCEPT ![KeyOf[d]] = d] /\ taken' = taken
      BY <2>1 DEF insert
    <2>3. Held(d)'
      BY <1>0, <2>2 DEF TypeOK, Held
    <2>4. KeyOf[d] = KeyOf[c]
      BY <1>0, <2>2 DEF TypeOK, Held
    <2> QED
      BY <2>3, <2>4
  <1>2. CASE \E d \in Conns : Arrive(d) \/ ArrivePartial(d) \/ RemoteClose(d) \/ wake_by_ref(d)
    BY <1>2 DEF Held, Arrive, ArrivePartial, RemoteClose, wake_by_ref, queueVars, receiverVars
  <1>3. CASE \E k \in Keys : remove(k)
    <2>1. PICK k \in Keys : remove(k)
      BY <1>3
    <2>2. streams' = [streams EXCEPT ![k] = NoConn] /\ taken' = taken
      BY <2>1 DEF remove, RemoveStream, receiverVars
    <2>3. KeyOf[c] = k
      BY <1>0, <2>2 DEF TypeOK, Held
    <2> QED
      BY <2>1, <2>3
  <1>4. CASE SpuriousPoll \/ CallRecv \/ Repoll \/ CancelRecv \/ PollStream \/ ReturnPending
    BY <1>4 DEF Held, SpuriousPoll, CallRecv, Repoll, BeginPoll, CancelRecv, PollStream,
                ReturnPending, queueVars
  <1>5. CASE PopEvent
    <2>1. taken = NoConn
      BY <1>5 DEF LeaveInv, FreeInv, PopEvent
    <2>2. streams[KeyOf[c]] = c
      BY <2>1 DEF Held
    <2>3. ready_queue # <<>>
      BY <1>5 DEF Held, PopEvent
    <2>4. Head(ready_queue) \in Keys
      BY <1>0, <2>3, TailFacts DEF TypeOK
    <2>5. PICK k \in Keys : k = Head(ready_queue)
      BY <2>4
    <2>6. streams' = [streams EXCEPT ![k] = NoConn] /\ taken' = streams[k]
      BY <1>5, <2>3, <2>5 DEF PopEvent, TakeOut
    <2>7. Held(c)'
      BY <1>0, <2>2, <2>6 DEF TypeOK, Held
    <2> QED
      BY <2>7
  <1>6. CASE ReturnItem \/ StreamPending
    <2>1. taken \in Conns /\ streams' = [streams EXCEPT ![KeyOf[taken]] = taken]
      BY <1>0, <1>6 DEF IInv, TypeOK, TakenInv, ReturnItem, StreamPending, PutBack
    <2>2. streams'[KeyOf[taken]] = taken /\ KeyOf[taken] \in Keys
      BY <1>0, <2>1 DEF TypeOK
    <2>3. taken # c
      BY <2>2 DEF Held
    <2>4. KeyOf[taken] = KeyOf[c]
      BY <1>0, <2>1, <2>3 DEF TypeOK, Held
    <2> QED
      BY <2>1, <2>3, <2>4 DEF Held
  <1>7. CASE StreamEnded
    <2>1. taken \in Conns /\ eof[taken] /\ inbox[taken] = 0
      BY <1>0, <1>7 DEF IInv, TypeOK, TakenInv, LeaveInv, EndedInv, StreamEnded
    <2>2. CASE taken = c
      BY <2>1, <2>2
    <2>3. CASE taken # c
      <3>1. KeyOf[taken] = KeyOf[c]
        BY <1>0, <1>7, <2>1, <2>3 DEF TypeOK, Held, StreamEnded, on_disconnect, RemoveStream
      <3> QED
        BY <2>1, <2>3, <3>1 DEF Held
    <2> QED
      BY <2>2, <2>3
  <1> QED
    BY <1>1, <1>2, <1>3, <1>4, <1>5, <1>6, <1>7 DEF Next, Receiver

\* No stream is lost: whatever poll_next, dropped futures, wakeups and reconnections do
\* meanwhile, a stream that has not ended stays with the queue until its key is removed,
\* the queue is cleared or another connection of the identity replaces it.
THEOREM KeepsUnfinishedStreams == Spec => UnfinishedStreamKept
  <1> DEFINE Kept ==
        \A c \in Conns :
          Held(c) /\ ~Held(c)' =>
            \/ eof[c] /\ inbox[c] = 0
            \/ remove(KeyOf[c]) \/ clear
            \/ \E d \in Conns \ {c} : KeyOf[d] = KeyOf[c] /\ (Held(d) \/ Held(d)')
  <1>1. IInv /\ LeaveInv /\ [Next]_vars => [Kept]_vars
    BY StepKeepsStream
  <1> QED
    BY <1>1, Invariance, LeavingStreams, PTL DEF Spec, UnfinishedStreamKept
=============================================================================
