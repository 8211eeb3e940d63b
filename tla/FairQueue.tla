------------------------------ MODULE FairQueue ------------------------------
(***************************************************************************)
(* The fair queue of src/src/fair_queue.rs: it merges the read halves of   *)
(* all connections of a socket into one stream, and its poll_next is what  *)
(* every recv() of the library awaits.                                     *)
(*                                                                         *)
(* Three parties run concurrently, and only the QueueInner mutex orders    *)
(* them.  The receiver is the one task that calls recv() (recv takes       *)
(* &mut self) and steps through poll_next, one action per lock section or  *)
(* unlocked call.  Backend tasks insert and remove streams.  The I/O       *)
(* reactor makes data appear on connections and calls the StreamWaker that *)
(* a stream registered when it was last polled.                            *)
(*                                                                         *)
(* A connection is a member of Conns and belongs to the peer identity      *)
(* KeyOf[c].  Several connections may have the same identity: a peer that  *)
(* reconnects under its configured identity does.  Payloads are left out;  *)
(* inbox[c] counts the complete messages a connection's stream can yield.  *)
(*                                                                         *)
(* ready_queue is a heap of (priority, key) whose priorities come from a   *)
(* counter that only grows, so popping the smallest priority is popping    *)
(* the event pushed first: here it is a sequence of keys.                  *)
(***************************************************************************)
EXTENDS Integers, Sequences, FiniteSets

CONSTANTS
  Keys,          \* peer identities
  Conns,         \* connections; a connection is inserted at most once
  NoConn,        \* no stream
  KeyOf,         \* the identity each connection presented in its handshake
  MaxInbox,      \* bound: unread messages of a connection
  MaxRemovals    \* bound: calls of remove() from outside the receiver

ASSUME ConnsAssumption == NoConn \notin Conns /\ IsFiniteSet(Conns)
ASSUME KeyOfAssumption == KeyOf \in [Conns -> Keys]
ASSUME BoundsAssumption == MaxInbox \in Nat \ {0} /\ MaxRemovals \in Nat

VARIABLES
  \* QueueInner
  ready_queue,      \* keys to poll, the oldest event first
  queued,           \* keys push_ready regards as having an event already
  streams,          \* the stream held for each key, or NoConn
  waker,            \* TRUE when a task's waker is stored
  \* the receiver
  pc,               \* where the receiver is, see PC
  remaining_ready,  \* loop counter of poll_next
  taken,            \* the connection whose stream poll_next took out
  notified,         \* the receiver's task was woken since it last began a poll
  closed,           \* the socket was dropped: clear() ran
  \* connections
  inserted,         \* connections handed to insert()
  inbox,            \* complete messages the stream can yield
  eof,              \* the remote end closed the connection
  armed,            \* a StreamWaker is registered with the reactor
  waking,           \* the reactor is about to call that StreamWaker
  removals          \* calls of remove() made from outside the receiver

queueVars == <<ready_queue, queued, streams, waker>>
receiverVars == <<pc, remaining_ready, taken, notified, closed>>
connVars == <<inserted, inbox, eof, armed, waking, removals>>
vars == <<queueVars, receiverVars, connVars>>

-----------------------------------------------------------------------------
(* idle: no recv() is pending.  parked: poll_next returned Pending and the  *)
(* task sleeps.  loop: between two iterations.  poll: a stream was taken    *)
(* out and is about to be polled, unlocked.  ready, ended, pending: that    *)
(* poll's result, before the receiver takes the lock again.                 *)
PC == {"idle", "parked", "loop", "poll", "ready", "ended", "pending"}

TypeOK ==
  /\ ready_queue \in Seq(Keys)
  /\ queued \subseteq Keys
  /\ streams \in [Keys -> Conns \cup {NoConn}]
  /\ waker \in BOOLEAN
  /\ pc \in PC
  /\ remaining_ready \in Nat
  /\ taken \in Conns \cup {NoConn}
  /\ notified \in BOOLEAN
  /\ closed \in BOOLEAN
  /\ inserted \subseteq Conns
  /\ inbox \in [Conns -> 0..MaxInbox]
  /\ eof \in [Conns -> BOOLEAN]
  /\ armed \in [Conns -> BOOLEAN]
  /\ waking \subseteq Conns
  /\ removals \in 0..MaxRemovals

Init ==
  /\ ready_queue = <<>>
  /\ queued = {}
  /\ streams = [k \in Keys |-> NoConn]
  /\ waker = FALSE
  /\ pc = "idle"
  /\ remaining_ready = 0
  /\ taken = NoConn
  /\ notified = FALSE
  /\ closed = FALSE
  /\ inserted = {}
  /\ inbox = [c \in Conns |-> 0]
  /\ eof = [c \in Conns |-> FALSE]
  /\ armed = [c \in Conns |-> FALSE]
  /\ waking = {}
  /\ removals = 0

HasEvent(k) == \E i \in DOMAIN ready_queue : ready_queue[i] = k
Held(c) == taken = c \/ streams[KeyOf[c]] = c
Readable(c) == inbox[c] > 0 \/ eof[c]

-----------------------------------------------------------------------------
(* Backend tasks *)

PushReadyUnchecked(k) ==
  /\ queued' = queued \cup {k}
  /\ ready_queue' = Append(ready_queue, k)

PushReadyLifo(k) ==
  /\ queued' = queued \cup {k}
  /\ ready_queue' = IF k \in queued THEN ready_queue ELSE <<k>> \o ready_queue

push_ready(k) ==
  /\ queued' = queued \cup {k}
  /\ ready_queue' = IF k \in queued THEN ready_queue ELSE Append(ready_queue, k)

\* peer_connected hands over the read half.  Waking leaves the waker in place.
insert(c) ==
  /\ c \notin inserted
  /\ inserted' = inserted \cup {c}
  /\ streams' = [streams EXCEPT ![KeyOf[c]] = c]
  /\ push_ready(KeyOf[c])
  /\ notified' = (notified \/ waker)
  /\ UNCHANGED <<waker, pc, remaining_ready, taken, closed, inbox, eof, armed,
                 waking, removals>>

\* The key's event stays in ready_queue.
RemoveStream(k) ==
  /\ streams' = [streams EXCEPT ![k] = NoConn]
  /\ queued' = queued \ {k}
  /\ UNCHANGED ready_queue

\* peer_disconnected, from a writer task or from a failed send.
remove(k) ==
  /\ \E c \in inserted : KeyOf[c] = k
  /\ removals < MaxRemovals
  /\ removals' = removals + 1
  /\ RemoveStream(k)
  /\ UNCHANGED <<waker, receiverVars, inserted, inbox, eof, armed, waking>>

ForgetTask == waker' = FALSE /\ UNCHANGED notified
\* Take the stored waker and wake its task.
WakeTask == waker' = FALSE /\ notified' = (notified \/ waker)

DroppedAnyTime == TRUE
\* clear() comes from the socket's Drop, and a recv() future borrows the socket.
NoRecvPending == pc = "idle"

clear ==
  /\ NoRecvPending /\ ~closed
  /\ closed' = TRUE
  /\ streams' = [k \in Keys |-> NoConn]
  /\ ready_queue' = <<>>
  /\ queued' = {}
  /\ WakeTask
  /\ UNCHANGED <<pc, remaining_ready, taken, connVars>>

-----------------------------------------------------------------------------
(* The reactor.  Dropping a stream closes its connection, and what arrives   *)
(* before insert() is found by the first poll as if it came right after it. *)

\* The registered StreamWaker is consumed and its call is under way.
Fire(c) ==
  /\ armed' = [armed EXCEPT ![c] = FALSE]
  /\ waking' = IF armed[c] THEN waking \cup {c} ELSE waking

\* A complete message arrives.
Arrive(c) ==
  /\ Held(c) /\ ~eof[c]
  /\ inbox[c] < MaxInbox
  /\ inbox' = [inbox EXCEPT ![c] = @ + 1]
  /\ Fire(c)
  /\ UNCHANGED <<queueVars, receiverVars, inserted, eof, removals>>

\* Bytes arrive that complete no message: the stream is woken for nothing.
ArrivePartial(c) ==
  /\ Held(c) /\ ~eof[c]
  /\ armed[c]
  /\ Fire(c)
  /\ UNCHANGED <<queueVars, receiverVars, inserted, inbox, eof, removals>>

RemoteClose(c) ==
  /\ Held(c) /\ ~eof[c]
  /\ eof' = [eof EXCEPT ![c] = TRUE]
  /\ Fire(c)
  /\ UNCHANGED <<queueVars, receiverVars, inserted, inbox, removals>>

\* StreamWaker: queue the key, then take and wake the stored waker.
wake_by_ref(c) ==
  /\ c \in waking
  /\ waking' = waking \ {c}
  /\ push_ready(KeyOf[c])
  /\ WakeTask
  /\ UNCHANGED <<streams, pc, remaining_ready, taken, closed, inserted, inbox,
                 eof, armed, removals>>

-----------------------------------------------------------------------------
(* The receiver: poll_next *)

BeginPoll ==
  /\ ~closed
  /\ waker' = TRUE
  /\ remaining_ready' = Len(ready_queue)
  /\ pc' = "loop"
  /\ notified' = FALSE
  /\ UNCHANGED <<ready_queue, queued, streams, taken, closed, connVars>>

\* The application calls recv() and its future is polled for the first time.
CallRecv == pc = "idle" /\ BeginPoll
\* The runtime polls a task that was woken.
Repoll == pc = "parked" /\ notified /\ BeginPoll
\* The future is polled because another branch of a select! was woken.
SpuriousPoll == pc = "parked" /\ ~notified /\ BeginPoll

\* The recv() future is dropped while it waits: a timeout or a select!.
CancelRecv ==
  /\ pc = "parked"
  /\ pc' = "idle"
  /\ UNCHANGED <<queueVars, remaining_ready, taken, notified, closed, connVars>>

LoopWhileEvents == ready_queue # <<>>
\* The loop is limited to the events that were there when the poll began.
LoopContinues == remaining_ready > 0

CountNothing == remaining_ready
CountDown == remaining_ready - 1

TakeOutStaysQueued(k) ==
  /\ UNCHANGED queued
  /\ streams' = [streams EXCEPT ![k] = NoConn]
  /\ taken' = streams[k]

TakeOut(k) ==
  /\ queued' = queued \ {k}
  /\ streams' = [streams EXCEPT ![k] = NoConn]
  /\ taken' = streams[k]

\* One lock section: pop the oldest event and take its stream out.  An event
\* whose stream is gone is skipped.
PopEvent ==
  /\ pc = "loop" /\ LoopContinues
  /\ remaining_ready' = CountDown
  /\ waker' = TRUE
  /\ IF ready_queue = <<>>
       THEN pc' = "parked" /\ UNCHANGED <<ready_queue, queued, streams, taken>>
       ELSE LET k == Head(ready_queue) IN
            /\ ready_queue' = Tail(ready_queue)
            /\ TakeOut(k)
            /\ pc' = IF streams[k] = NoConn THEN "loop" ELSE "poll"
  /\ UNCHANGED <<notified, closed, connVars>>

\* io_stream.poll_next, outside the lock.  A stream that has nothing to yield
\* registers the StreamWaker before it answers Pending.
PollStream ==
  /\ pc = "poll"
  /\ LET c == taken IN
     \/ /\ inbox[c] > 0
        /\ inbox' = [inbox EXCEPT ![c] = @ - 1]
        /\ pc' = "ready"
        /\ UNCHANGED armed
     \/ /\ inbox[c] = 0 /\ eof[c]
        /\ pc' = "ended"
        /\ UNCHANGED <<inbox, armed>>
     \/ /\ ~Readable(c)
        /\ armed' = [armed EXCEPT ![c] = TRUE]
        /\ pc' = "pending"
        /\ UNCHANGED inbox
  /\ UNCHANGED <<queueVars, remaining_ready, taken, notified, closed, inserted,
                 eof, waking, removals>>

DropTaken == taken' = NoConn /\ UNCHANGED streams
PutBack ==
  /\ streams' = [streams EXCEPT ![KeyOf[taken]] = taken]
  /\ taken' = NoConn

\* Ready(Some(item)): put the stream back, queue its key again, return the item.
ReturnItem ==
  /\ pc = "ready"
  /\ PutBack
  /\ push_ready(KeyOf[taken])
  /\ pc' = "idle"
  /\ UNCHANGED <<waker, remaining_ready, notified, closed, connVars>>

\* The callback of most sockets ends in remove() of the key; the one of REP
\* leaves the queue alone.
on_disconnect(k) == RemoveStream(k) \/ UNCHANGED <<ready_queue, queued, streams>>

\* Ready(None): the stream is dropped and on_disconnect called without the lock.
StreamEnded ==
  /\ pc = "ended"
  /\ on_disconnect(KeyOf[taken])
  /\ taken' = NoConn
  /\ pc' = "loop"
  /\ UNCHANGED <<waker, remaining_ready, notified, closed, connVars>>

\* Pending: put the stream back and go on.
StreamPending ==
  /\ pc = "pending"
  /\ PutBack
  /\ pc' = "loop"
  /\ UNCHANGED <<ready_queue, queued, waker, remaining_ready, notified, closed,
                 connVars>>

\* The loop is done: return Pending, and wake the own task if events were
\* pushed meanwhile.
ReturnPending ==
  /\ pc = "loop" /\ ~LoopContinues
  /\ waker' = TRUE
  /\ notified' = (notified \/ ready_queue # <<>>)
  /\ pc' = "parked"
  /\ UNCHANGED <<ready_queue, queued, streams, remaining_ready, taken, closed,
                 connVars>>

-----------------------------------------------------------------------------
Receiver ==
  \/ CallRecv \/ Repoll \/ PopEvent \/ PollStream \/ ReturnItem
  \/ StreamEnded \/ StreamPending \/ ReturnPending

Next ==
  \/ \E c \in Conns : insert(c) \/ Arrive(c) \/ ArrivePartial(c)
                      \/ RemoteClose(c) \/ wake_by_ref(c)
  \/ \E k \in Keys : remove(k)
  \/ clear
  \/ SpuriousPoll \/ CancelRecv
  \/ Receiver

Spec == Init /\ [][Next]_vars

\* The runtime keeps polling a task that was woken, the application calls
\* recv() again after each item, and the reactor completes the wake it began.
Fairness == WF_vars(Receiver) /\ \A c \in Conns : WF_vars(wake_by_ref(c))
FairSpec == Spec /\ Fairness

-----------------------------------------------------------------------------
(* Properties *)

\* No wakeup is lost (poll_next, StreamWaker::wake_by_ref, insert): while the
\* receiver sleeps and nothing has woken it, a stream of the queue that could
\* yield a message or its end has a waker call on the way.
NoLostWakeup ==
  pc = "parked" /\ ~notified =>
    \A k \in Keys : LET c == streams[k] IN
      c # NoConn /\ Readable(c) => c \in waking

\* push_ready skips a key only if the queue really holds an event of it: a key
\* wrongly marked as queued would never be polled again.
QueuedHasEvent == \A k \in queued : HasEvent(k)

\* poll_next never pops from an empty heap: its early return there is dead code
\* because only the receiver pops and clear() runs when no recv() is pending.
PopFindsEvent == pc \notin {"idle", "parked"} => remaining_ready <= Len(ready_queue)

\* A key has more than one event only as a remnant of remove(), which leaves
\* the event behind: two events give a peer two turns a round.
EventsBounded ==
  \A k \in Keys :
    Cardinality({i \in DOMAIN ready_queue : ready_queue[i] = k})
      <= 1 + removals + Cardinality({c \in Conns : KeyOf[c] = k /\ eof[c]})

\* No stream is lost (poll_next, cancellation of recv): a stream that has not
\* ended leaves the queue only by remove() of its key, by clear(), or because
\* the queue holds another connection of the same identity.
UnfinishedStreamKept ==
  [][\A c \in Conns :
       Held(c) /\ ~Held(c)' =>
         \/ eof[c] /\ inbox[c] = 0
         \/ remove(KeyOf[c]) \/ clear
         \/ \E d \in Conns \ {c} : KeyOf[d] = KeyOf[c] /\ (Held(d) \/ Held(d)')]_vars

\* No connection is starved, however much data the others have: a stream with
\* a complete message yields it, unless the stream or the socket is dropped.
NoStarvation ==
  \A c \in Conns :
    (Held(c) /\ inbox[c] > 0) ~> ((pc = "ready" /\ taken = c) \/ ~Held(c) \/ closed)

\* poll_next returns, even if streams keep being woken while it runs.
PollReturns == pc = "loop" ~> pc \in {"idle", "parked"}
=============================================================================
