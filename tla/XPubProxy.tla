----------------------------- MODULE XPubProxy -----------------------------
(***************************************************************************)
(* `proxy` (src/src/lib.rs) between an XSUB and an XPUB socket, as in      *)
(* src/examples/xsub_xpub_proxy.rs: subscribers connect to the XPUB socket *)
(* (src/src/xpub.rs), whose recv hands their subscriptions to the proxy;   *)
(* the proxy sends them on the XSUB socket (src/src/xsub.rs over           *)
(* src/src/sub_backend.rs) to a publisher, and what the publisher sends    *)
(* comes back the same way.                                                *)
(*                                                                         *)
(* The proxy is one task that receives on either side, offers the message  *)
(* to the capture socket and then awaits every write.  Tasks beside it     *)
(* register connections.  A subscriber keeps its identity over its         *)
(* connections, so an entry or a stream of an older one may still be       *)
(* there when it returns.                                                  *)
(*                                                                         *)
(* The publisher holds a count per filter, as PUB and XPUB do; what is     *)
(* sent to it is applied at once.  A fair queue yields the next item of    *)
(* any of its streams (FairQueue), and notices are not lost (SubSocket).   *)
(***************************************************************************)
EXTENDS Naturals, Sequences, FiniteSets, SequencesExt

CONSTANTS
  Clients,     \* identities of the subscribers
  Early,       \* those that have subscribed to every filter at the start
  Filters,     \* subscription prefixes
  Subjects,    \* first frames of published messages
  PrefixesOf,  \* PrefixesOf[s]: the filters that are prefixes of s
  MaxLosses,   \* bound: connections lost, of subscribers and publisher
  MaxConns,    \* bound: connections of a subscriber
  MaxOps,      \* bound: messages sent by subscribers
  MaxPubs      \* bound: messages published

ASSUME EarlyAssumption == IsFiniteSet(Clients) /\ Early \subseteq Clients
ASSUME PrefixAssumption == PrefixesOf \in [Subjects -> SUBSET Filters]
ASSUME FiltersAssumption == IsFiniteSet(Filters)
ASSUME BoundsAssumption ==
  /\ MaxLosses \in Nat /\ MaxConns \in Nat \ {0}
  /\ MaxOps \in Nat /\ MaxPubs \in Nat

VARIABLES
  \* the subscribers
  wants,       \* wants[c]: the filters the application of c is subscribed to
  conn,        \* conn[c]: number of c's latest connection
  open,        \* the clients that hold their latest connection open
  pipe,        \* pipe[c][n]: what c sent on connection n, not yet read
  ops,         \* messages sent by subscribers
  \* the XPUB socket
  task,        \* task[c][n]: the accept task of a connection, in peer_connected
  subscribers, \* subscribers[c]: the entry: its connection, 0 if none, and filters
  streams,     \* streams[c]: the connection whose read half the fair queue has, or 0
  \* the proxy
  pc,          \* its step
  hand,        \* the message in hand
  todo,        \* the peers the send has still to write to
  dead,        \* the peers to disconnect
  half,        \* the one of them whose entry is removed, and its stream not yet
  \* the XSUB socket and the publisher
  subs,        \* subs of SubSocketBackend
  peer,        \* whether the peers map and the fair queue hold the publisher
  link,        \* the connection to the publisher
  losses,      \* connections lost
  table,       \* table[f]: how often the publisher is subscribed to f
  data,        \* what the publisher sent, not yet read
  pubs,        \* messages published
  \* history
  got,         \* got[c]: the published messages c received
  due,         \* <<c, id>>: c was subscribed throughout since id was published
  crossed,     \* clients whose registration an older connection undid
  owed,        \* owed[f]: table[f], had the publisher never been replaced
  thinned,     \* filters resent less often than owed
  missed       \* filters sent while a new publisher was being set up

clientVars == <<wants, conn, open, pipe, ops>>
xpubVars == <<task, subscribers, streams>>
proxyVars == <<pc, hand, todo, dead, half>>
upVars == <<subs, peer, link, losses, table, data, pubs>>
history == <<got, due, crossed, owed, thinned, missed>>
vars == <<clientVars, xpubVars, proxyVars, upVars, history>>

AllOf(n) == [f \in Filters |-> n]
NoFilters == AllOf(0)
Numbers == 1..MaxConns
NoEntry == [conn |-> 0, subs |-> NoFilters]
Publisher == <<"publisher">>
Nothing == <<"nothing">>
Lost == <<"lost">>   \* ends a stream, which then yields its end or an error

\* The subscribers are connected, the publisher too, and the early subscriptions
\* have reached it.
Init ==
  /\ wants = [c \in Clients |-> IF c \in Early THEN Filters ELSE {}]
  /\ conn = [c \in Clients |-> 1]
  /\ open = Clients /\ ops = 0
  /\ pipe = [c \in Clients |-> [n \in Numbers |-> <<>>]]
  /\ task = [c \in Clients |-> [n \in Numbers |-> IF n = 1 THEN "done" ELSE "none"]]
  /\ subscribers = [c \in Clients |->
                      [conn |-> 1, subs |-> AllOf(IF c \in Early THEN 1 ELSE 0)]]
  /\ streams = [c \in Clients |-> 1]
  /\ pc = "select" /\ hand = Nothing /\ todo = {} /\ dead = {} /\ half = {}
  /\ subs = (IF Early = {} THEN {} ELSE Filters)
  /\ peer = TRUE /\ link = "alive" /\ losses = 0
  /\ table = AllOf(Cardinality(Early)) /\ data = <<>> /\ pubs = 0
  /\ got = [c \in Clients |-> <<>>] /\ due = {} /\ crossed = {}
  /\ owed = table /\ thinned = {} /\ missed = {}

-----------------------------------------------------------------------------
(* The subscribers, which are not part of the proxy's process *)

Send(c, msg) ==
  /\ c \in open /\ ops < MaxOps
  /\ ops' = ops + 1
  /\ pipe' = [pipe EXCEPT ![c][conn[c]] = Append(@, msg)]
  /\ UNCHANGED <<conn, open, xpubVars, proxyVars, upVars, got, crossed, owed, thinned, missed>>

Subscribe(c, f) ==
  /\ f \notin wants[c]
  /\ wants' = [wants EXCEPT ![c] = @ \cup {f}]
  /\ Send(c, <<"sub", f>>)
  /\ UNCHANGED due

Unsubscribe(c, f) ==
  /\ f \in wants[c]
  /\ wants' = [wants EXCEPT ![c] = @ \ {f}]
  /\ Send(c, <<"unsub", f>>)
  /\ due' = {d \in due : d[1] # c}

\* A message of an XSUB subscriber that is not a subscription.
SendData(c) ==
  /\ Send(c, <<"data">>)
  /\ UNCHANGED <<wants, due>>

\* The connection ends or breaks.
Leave(c) ==
  /\ c \in open /\ losses < MaxLosses
  /\ open' = open \ {c} /\ losses' = losses + 1
  /\ pipe' = [pipe EXCEPT ![c][conn[c]] = Append(@, Lost)]
  /\ due' = {d \in due : d[1] # c}
  /\ UNCHANGED <<wants, conn, ops, xpubVars, proxyVars, subs, peer, link, table, data, pubs,
                 got, crossed, owed, thinned, missed>>

\* Both halves of the connection are dropped: the client sees it closed.
SeeClosed(c) ==
  /\ c \in open /\ task[c][conn[c]] = "done"
  /\ conn[c] \notin {streams[c], subscribers[c].conn}
  /\ open' = open \ {c}
  /\ due' = {d \in due : d[1] # c}
  /\ UNCHANGED <<wants, conn, pipe, ops, xpubVars, proxyVars, upVars, got, crossed, owed,
                 thinned, missed>>

\* The client connects again and sends its subscriptions.
Return(c) ==
  /\ c \notin open /\ conn[c] < MaxConns
  /\ LET n == conn[c] + 1
     IN  /\ conn' = [conn EXCEPT ![c] = n]
         /\ task' = [task EXCEPT ![c][n] = "upsert"]
         /\ pipe' = [pipe EXCEPT ![c][n] = SetToSeq({<<"sub", f>> : f \in wants[c]})]
  /\ open' = open \cup {c}
  /\ UNCHANGED <<wants, ops, subscribers, streams, proxyVars, upVars, history>>

-----------------------------------------------------------------------------
(* XPubSocketBackend *)

\* The task of an older connection comes after that of a newer one.
Overtaken(c, n) == subscribers[c].conn > n \/ streams[c] > n
NoteOvertaken(c, n) ==
  /\ crossed' = IF Overtaken(c, n) THEN crossed \cup {c} ELSE crossed
  /\ UNCHANGED <<got, owed, thinned, missed>>

\* peer_connected replaces the entry, and then the stream, of the identity.
Upsert(c, n) ==
  /\ task[c][n] = "upsert"
  /\ task' = [task EXCEPT ![c][n] = "insert"]
  /\ subscribers' = [subscribers EXCEPT ![c] = [conn |-> n, subs |-> NoFilters]]
  /\ due' = {d \in due : d[1] # c}
  /\ NoteOvertaken(c, n)
  /\ UNCHANGED <<clientVars, streams, proxyVars, upVars>>

InsertStream(c, n) ==
  /\ task[c][n] = "insert"
  /\ task' = [task EXCEPT ![c][n] = "done"]
  /\ streams' = [streams EXCEPT ![c] = n]
  /\ due' = {d \in due : d[1] # c}
  /\ NoteOvertaken(c, n)
  /\ UNCHANGED <<clientVars, subscribers, proxyVars, upVars>>

\* The stream of an older connection is with the fair queue, to be polled, when the
\* newer one's is inserted, and is put back over it.
InsertOverwritten(c, n) ==
  /\ task[c][n] = "insert" /\ pc = "select" /\ streams[c] # 0
  /\ task' = [task EXCEPT ![c][n] = "done"]
  /\ due' = {d \in due : d[1] # c}
  /\ NoteOvertaken(c, n)
  /\ UNCHANGED <<clientVars, subscribers, streams, proxyVars, upVars>>

AppliedToAll(held, msg) ==
  CASE msg[1] = "sub" -> [held EXCEPT ![msg[2]] = @ + 1]
    [] msg[1] = "unsub" -> [held EXCEPT ![msg[2]] = 0]
    [] OTHER -> held

\* The filters are a vector: a subscription is pushed, and of equal ones the
\* first is removed.  Anything else is ignored.
Applied(held, msg) ==
  CASE msg[1] = "sub" -> [held EXCEPT ![msg[2]] = @ + 1]
    [] msg[1] = "unsub" -> [held EXCEPT ![msg[2]] = IF @ > 0 THEN @ - 1 ELSE 0]
    [] OTHER -> held

message_received(c, msg) ==
  IF subscribers[c].conn = 0 THEN subscribers
  ELSE [subscribers EXCEPT ![c].subs = Applied(@, msg)]

Subscribed(held, subject) == \E f \in PrefixesOf[subject] : held[f] > 0

-----------------------------------------------------------------------------
(* The proxy receives *)

Receive(msg) == pc' = "forward" /\ hand' = msg
End == pc' = "ended" /\ hand' = Nothing
Back == pc' = "select" /\ hand' = Nothing

\* recv of XPubSocket returns every message, and tells the backend of it first.
\* At the end of a stream the fair queue, which has taken it out, calls
\* peer_disconnected and goes on; an error is returned after peer_disconnected, and
\* ends the proxy.
RecvBackend(c) ==
  /\ pc = "select" /\ streams[c] # 0 /\ pipe[c][streams[c]] # <<>>
  /\ LET msg == Head(pipe[c][streams[c]])
     IN  CASE msg = Lost -> /\ \/ pc' = "remove" /\ streams' = [streams EXCEPT ![c] = 0]
                               \/ pc' = "fail" /\ UNCHANGED streams
                            /\ dead' = {c}
                            /\ UNCHANGED <<subscribers, hand>>
           [] OTHER -> /\ subscribers' = message_received(c, msg)
                       /\ Receive(msg)
                       /\ UNCHANGED <<streams, dead>>
  /\ pipe' = [pipe EXCEPT ![c][streams[c]] = Tail(@)]
  /\ UNCHANGED <<wants, conn, open, ops, task, todo, half, upVars, history>>

\* peer_disconnected of XPubSocketBackend removes the entry of the identity, whatever
\* connection it is of by now,
RemoveEntry(c) ==
  /\ pc \in {"remove", "fail"} /\ half = {} /\ c \in dead
  /\ subscribers' = [subscribers EXCEPT ![c] = NoEntry]
  /\ half' = {c}
  /\ due' = {d \in due : d[1] # c}
  /\ UNCHANGED <<clientVars, task, streams, pc, hand, todo, dead, upVars, got, crossed, owed,
                 thinned, missed>>

\* and then the stream.  A connection that was being registered meanwhile keeps one
\* half: its stream, if its entry was there to be removed and the stream comes later,
\* or its entry, if both came between the two steps.
KeepsOneHalf(c) ==
  \/ subscribers[c].conn = 0 /\ \E n \in Numbers : task[c][n] = "insert"
  \/ subscribers[c].conn # 0 /\ task[c][subscribers[c].conn] = "done"

KeepStream(c) ==
  /\ pc \in {"remove", "fail"} /\ half = {c}
  /\ half' = {} /\ dead' = dead \ {c}
  /\ crossed' = IF KeepsOneHalf(c) THEN crossed \cup {c} ELSE crossed
  /\ IF dead' # {} THEN UNCHANGED <<pc, hand>> ELSE IF pc = "fail" THEN End ELSE Back
  /\ UNCHANGED <<clientVars, task, subscribers, streams, todo, upVars, got, due, owed, thinned, missed>>

RemoveStream(c) ==
  /\ pc \in {"remove", "fail"} /\ half = {c}
  /\ streams' = [streams EXCEPT ![c] = 0]
  /\ half' = {} /\ dead' = dead \ {c}
  /\ crossed' = IF KeepsOneHalf(c) THEN crossed \cup {c} ELSE crossed
  /\ IF dead' # {} THEN UNCHANGED <<pc, hand>> ELSE IF pc = "fail" THEN End ELSE Back
  /\ UNCHANGED <<clientVars, task, subscribers, todo, upVars, got, due, owed, thinned, missed>>

\* recv of XSubSocket; peer_disconnected sets the reconnect task going.
RecvFrontend ==
  /\ pc = "select" /\ peer /\ data # <<>>
  /\ data' = Tail(data)
  /\ LET msg == Head(data)
     IN  CASE msg = Lost -> peer' = FALSE /\ link' = "none" /\ (End \/ UNCHANGED <<pc, hand>>)
           [] OTHER -> Receive(msg) /\ UNCHANGED <<peer, link>>
  /\ UNCHANGED <<clientVars, xpubVars, todo, dead, half, subs, losses, table, pubs, history>>

\* capture.send(message.clone()) comes before the message is sent on, if there is
\* a capture socket; its error ends the proxy.
CaptureFails ==
  /\ pc = "forward"
  /\ End
  /\ UNCHANGED <<clientVars, xpubVars, todo, dead, half, upVars, history>>

-----------------------------------------------------------------------------
(* XSubSocket::send *)

Resyncing == link = "resync"

\* apply_subscription_message, and the peers that the message goes to.
SendFrontend ==
  /\ pc = "forward" /\ hand[1] # "pub"
  /\ subs' = CASE hand[1] = "sub" -> subs \cup {hand[2]}
               [] hand[1] = "unsub" -> subs \ {hand[2]}
               [] OTHER -> subs
  /\ owed' = Applied(owed, hand)
  /\ missed' = IF Resyncing /\ hand[1] = "sub" THEN missed \cup {hand[2]} ELSE missed
  /\ IF peer THEN pc' = "write" /\ todo' = {Publisher} /\ UNCHANGED hand
     ELSE Back /\ UNCHANGED todo
  /\ UNCHANGED <<clientVars, xpubVars, dead, half, peer, link, losses, table, data, pubs,
                 got, due, crossed, thinned>>

\* A write on a lost connection may seem to succeed.
WriteFrontend ==
  /\ pc = "write" /\ todo = {Publisher}
  /\ todo' = {}
  /\ table' = IF link = "alive" THEN Applied(table, hand) ELSE table
  /\ Back
  /\ UNCHANGED <<clientVars, xpubVars, dead, half, subs, peer, link, losses, data, pubs, history>>

\* Which of the two sends of XSubSocket the message takes.
IsSubscription(msg) == msg[1] \in {"sub", "unsub"}

\* A broken pipe disconnects the publisher; any other error leaves it.  After
\* broadcast_message_reliably the error is returned and ends the proxy; after
\* fanout_message it is only logged.
WriteFrontendFails ==
  /\ pc = "write" /\ todo = {Publisher} /\ link = "lost"
  /\ todo' = {}
  /\ \/ peer' = FALSE /\ link' = "none" /\ data' = <<>>
     \/ UNCHANGED <<peer, link, data>>
  /\ IF IsSubscription(hand) THEN End ELSE Back
  /\ UNCHANGED <<clientVars, xpubVars, dead, half, subs, losses, table, pubs, history>>

-----------------------------------------------------------------------------
(* XPubSocket::send *)

SendBackend ==
  /\ pc = "forward" /\ hand[1] = "pub"
  /\ todo' = {<<c, subscribers[c].conn>> :
                c \in {d \in Clients : Subscribed(subscribers[d].subs, hand[3])}}
  /\ pc' = "write"
  /\ UNCHANGED <<clientVars, xpubVars, hand, dead, half, upVars, history>>

Usable(c, n) == c \in open /\ n = conn[c]

\* The write is awaited, and the step taken once the subscriber has read.  A
\* write on a closed connection may seem to succeed.
WriteBackend(c, n) ==
  /\ pc = "write" /\ hand[1] = "pub" /\ <<c, n>> \in todo
  /\ todo' = todo \ {<<c, n>>}
  /\ got' = IF Usable(c, n) THEN [got EXCEPT ![c] = Append(@, hand[2])] ELSE got
  /\ UNCHANGED <<clientVars, xpubVars, pc, hand, dead, half, upVars, due, crossed, owed,
                 thinned, missed>>

WriteBackendStops(c, n) ==
  /\ pc = "write" /\ hand[1] = "pub" /\ <<c, n>> \in todo /\ ~Usable(c, n)
  /\ todo' = {} /\ dead' = dead \cup {c}
  /\ UNCHANGED <<clientVars, xpubVars, pc, hand, half, upVars, history>>

\* A broken pipe marks the peer dead; any other error is logged.
WriteBackendFails(c, n) ==
  /\ pc = "write" /\ hand[1] = "pub" /\ <<c, n>> \in todo /\ ~Usable(c, n)
  /\ todo' = todo \ {<<c, n>>} /\ dead' = dead \cup {c}
  /\ UNCHANGED <<clientVars, xpubVars, pc, hand, half, upVars, history>>

\* The dead peers are disconnected by their identities.
BackendSent ==
  /\ pc = "write" /\ hand[1] = "pub" /\ todo = {}
  /\ pc' = IF dead = {} THEN "select" ELSE "remove"
  /\ hand' = Nothing
  /\ UNCHANGED <<clientVars, xpubVars, todo, dead, half, upVars, history>>

-----------------------------------------------------------------------------
(* The publisher, and the task that reconnects to it *)

\* A subscriber is due the message if the whole way is open to it.
Publish(subject) ==
  /\ link = "alive" /\ pubs < MaxPubs
  /\ Subscribed(table, subject)
  /\ pubs' = pubs + 1
  /\ data' = Append(data, <<"pub", pubs + 1, subject>>)
  /\ due' = due \cup {<<c, pubs + 1>> :
              c \in {d \in open : /\ subscribers[d].conn = conn[d] /\ streams[d] = conn[d]
                                  /\ pipe[d][conn[d]] = <<>>
                                  /\ \E f \in PrefixesOf[subject] \cap wants[d] :
                                        subscribers[d].subs[f] > 0}}
  /\ UNCHANGED <<clientVars, xpubVars, proxyVars, subs, peer, link, losses, table, got,
                 crossed, owed, thinned, missed>>

\* The publisher goes; what it sent can still be read, unless the pipe breaks.
LinkLost ==
  /\ link = "alive" /\ losses < MaxLosses
  /\ link' = "lost" /\ losses' = losses + 1
  /\ table' = NoFilters
  /\ data' = Append(data, Lost)
  /\ due' = {}
  /\ UNCHANGED <<clientVars, xpubVars, proxyVars, subs, peer, pubs, got, crossed, owed,
                 thinned, missed>>

\* peer_connected of SubSocketBackend sends the subscriptions that are remembered,
Resync ==
  /\ link = "none"
  /\ link' = "resync"
  /\ table' = [f \in Filters |-> IF f \in subs THEN 1 ELSE 0]
  /\ thinned' = thinned \cup {f \in Filters : owed[f] > table'[f]}
  /\ UNCHANGED <<clientVars, xpubVars, proxyVars, subs, peer, losses, data, pubs, got, due,
                 crossed, owed, missed>>

\* and then enters the peer and its stream.
Rejoin ==
  /\ Resyncing
  /\ link' = "alive" /\ peer' = TRUE /\ data' = <<>>
  /\ UNCHANGED <<clientVars, xpubVars, proxyVars, subs, losses, table, pubs, history>>

-----------------------------------------------------------------------------
ProxyStep ==
  \/ RecvFrontend \/ CaptureFails
  \/ SendFrontend \/ WriteFrontend \/ WriteFrontendFails
  \/ SendBackend \/ BackendSent
  \/ \E c \in Clients : RecvBackend(c) \/ RemoveEntry(c) \/ RemoveStream(c)
  \/ \E c \in Clients, n \in Numbers : WriteBackend(c, n) \/ WriteBackendFails(c, n)

AcceptStep ==
  \E c \in Clients, n \in Numbers :
    Upsert(c, n) \/ InsertStream(c, n) \/ InsertOverwritten(c, n)

ClientStep ==
  \E c \in Clients :
    \/ \E f \in Filters : Subscribe(c, f) \/ Unsubscribe(c, f)
    \/ SendData(c) \/ Leave(c) \/ SeeClosed(c) \/ Return(c)

\* When the proxy ends, it drops its two sockets.
Running == pc # "ended"

Next ==
  \/ ProxyStep
  \/ Running /\ AcceptStep
  \/ Running /\ ClientStep
  \/ Running /\ \E s \in Subjects : Publish(s)
  \/ Running /\ (LinkLost \/ Resync \/ Rejoin)

\* The runtime polls the tasks that can go on, the subscribers read, and a closed
\* connection is seen at its other end.
Fairness ==
  /\ WF_vars(ProxyStep) /\ WF_vars(Running /\ AcceptStep)
  /\ WF_vars(Running /\ \E c \in Clients : SeeClosed(c))

Spec == Init /\ [][Next]_vars /\ Fairness

-----------------------------------------------------------------------------
(* Properties *)

\* Whatever a subscriber asked for has reached the XPUB socket.
Settled(c, f) ==
  /\ c \in open /\ f \in wants[c]
  /\ subscribers[c].subs[f] > 0
  /\ pc = "select" /\ link = "alive" /\ peer

\* The publisher knows of every filter that a subscriber holds, however many
\* subscribers come and go with it: xpub.rs passes every subscription on, so the
\* publisher counts them.  Excepted are the filters sub_backend.rs resent to a new
\* publisher less often than they are held (it remembers a set, so that the first
\* of two subscribers to leave a filter takes it from both), and those sent while
\* a new publisher was being set up, which reach nobody.
UpstreamCovers ==
  \A c \in Clients, f \in Filters :
    Settled(c, f) => table[f] > 0 \/ f \in thinned \/ f \in missed

OnTheWay(id) ==
  \/ hand[1] = "pub" /\ hand[2] = id
  \/ \E i \in DOMAIN data : data[i][1] = "pub" /\ data[i][2] = id

\* XPubSocket::send serves every subscriber that stays subscribed while a message
\* passes, whatever happens to the others' connections in the middle of the send,
\* and nobody is served a message twice.
XPubServesSubscribers ==
  /\ \A d \in due : d[2] \in Range(got[d[1]]) \/ OnTheWay(d[2]) \/ pc = "ended"
  /\ \A c \in Clients : IsInjective(got[c])

Demand(c, f) == c \in open /\ f \in wants[c] /\ pc # "ended" /\ link = "alive"

\* In the end the way is open from the publisher to whoever subscribed, although the
\* proxy handles one message at a time and waits for every write, and connections
\* come and go.  Excepted, beside the filters above, is a subscriber that was removed
\* while peer_connected of xpub.rs was registering it.  peer_disconnected removes its
\* entry before its stream is inserted: the write half is gone, and the stream is read
\* for ever.  Or it removes the stream of a connection that was entered and inserted
\* after the entry of the older one was removed: the entry stays, and nothing it sends
\* is read.  Either way it sees no end of the connection.  Excepted is also one whose
\* older connection was registered after the newer.
SubscriptionArrives ==
  \A c \in Clients, f \in Filters :
    Demand(c, f) ~> \/ ~Demand(c, f)
                    \/ table[f] > 0 /\ subscribers[c].subs[f] > 0
                    \/ f \in thinned \cup missed \/ c \in crossed
=============================================================================
