----------------------------- MODULE Lifecycle -----------------------------
(***************************************************************************)
(* A socket's listeners and connections from bind to drop: bind_inner and  *)
(* the trait Socket of lib.rs, the accept loops of src/transport with      *)
(* their TaskHandle, connect_forever of util.rs, and shutdown of the       *)
(* generic backend.                                                        *)
(*                                                                         *)
(* The application owns the socket and calls one operation at a time.  One *)
(* task per listener accepts connections and spawns, for each of them, a   *)
(* task that runs the handshake and registers the peer; nobody keeps a     *)
(* handle of the latter.  Clients connect by the text of an endpoint, and  *)
(* repeat attempts that fail because nothing is bound yet.                 *)
(*                                                                         *)
(* Left out: failing calls of bind and unbind, which change nothing; the   *)
(* lengths of the backoff; the lookup of a path "*", which is not          *)
(* implemented; the messages of the handshake (Handshake has them; here it *)
(* is a verdict, as in Peering); a monitor that is full.                   *)
(***************************************************************************)
EXTENDS Endpoint

CONSTANTS
    MaxSlots,    \* bound on the number of listeners, in the order in which they are bound
    Clients,     \* connections
    Scenes,      \* who takes part: the kind of socket, how often it binds, the clients, the
                 \* texts bind and connect are called with, the listeners to adopt
    Dns,         \* address of each name that can be looked up
    Ephemeral    \* ports that the system picks for port 0

ASSUME SlotsAssumption == MaxSlots \in Nat
ASSUME ScenesAssumption ==
    \A sc \in Scenes :
        /\ sc.kind \in {"PUSH", "PULL", "DEALER"}
        /\ sc.binds <= MaxSlots /\ sc.clients \subseteq Clients
        /\ sc.texts \subseteq Seq(STRING)
ASSUME PortsAssumption == Ephemeral \subseteq DOMAIN ShowPort
\* A listener that is handed over has an IP address and a port, a path, or neither.
ASSUME ListenersAssumption ==
    \A sc \in Scenes : \A addr \in sc.listeners :
        \/ /\ addr = <<"tcp", addr[2], addr[3]>>
           /\ \/ \E t \in DOMAIN ParseV4 : addr[2] = ParseV4[t]
              \/ \E t \in DOMAIN ParseV6 : addr[2] = ParseV6[t]
           /\ addr[3] \in DOMAIN ShowPort
        \/ addr = <<"path", addr[2], 0>> /\ addr[2] \in Seq(STRING) \ {Unnamed}
        \/ addr[1] = "abstract"

Slots == 1 .. MaxSlots

VARIABLES
    scene,      \* who takes part
    app,        \* what the application does
    waiting,    \* the slot whose task unbind waits for, or 0
    todo,       \* endpoints unbind_all has yet to unbind
    binds,      \* the socket's map of endpoints to stop handles
    slot,       \* state, address and stop signal of each listener
    files,      \* socket files that exist
    client,     \* state of each connection, its target and its listener
    left,       \* connections that the client has closed
    peers,      \* registered connections
    streams,    \* connections whose read half is in the fair queue
    writers,    \* connections whose writer task runs
    events,     \* what the monitor was told
    \* history
    live,       \* slots bound and not unbound
    replaced,   \* slots whose handle the insertion of an equal endpoint dropped
    detached,   \* slots whose unbind was dropped before its end
    late        \* connections registered after shutdown

socketVars == <<scene, app, waiting, todo, binds>>
listenVars == <<slot, files>>
peerVars == <<peers, streams, writers>>
history == <<live, replaced, detached, late>>
lifeVars == <<socketVars, listenVars, client, left, peerVars, events, history>>

---------------------------------------------------------------------------
(* Addresses of the operating system *)

Resolve(host) == IF host.kind = "domain" THEN Dns[host.addr] ELSE host.addr

Resolvable(ep) ==
    ep.transport = "tcp" => (ep.host.kind = "domain" => ep.host.addr \in DOMAIN Dns)

OsAddr(ep) ==
    IF ep.transport = "tcp" THEN <<"tcp", Resolve(ep.host), ep.port>>
    ELSE <<"path", ep.path, 0>>

IsPath(addr) == addr[1] = "path"

ListensAt(addr) == {s \in Slots : slot[s].state = "listening" /\ slot[s].addr = addr}

\* A TCP address is taken while somebody listens there, a path while its file exists.
Taken(addr) == IF IsPath(addr) THEN addr[2] \in files ELSE ListensAt(addr) # {}

---------------------------------------------------------------------------
Free == [state |-> "free", addr |-> <<"none", <<>>, 0>>, stop |-> FALSE]
Idle == [state |-> "idle", target |-> ParseError, at |-> 0]

LifeInit ==
    /\ scene \in Scenes
    /\ app = "open" /\ waiting = 0 /\ todo = {} /\ binds = <<>>
    /\ slot = [s \in Slots |-> Free]
    /\ files = {}
    /\ client = [c \in Clients |-> Idle]
    /\ left = {} /\ peers = {} /\ streams = {} /\ writers = {} /\ events = {}
    /\ live = {} /\ replaced = {} /\ detached = {} /\ late = {}

\* The application has the socket, or a half of it.
Usable == app \in {"open", "split", "half"}

SetClient(c, state) == client' = [client EXCEPT ![c].state = state]

---------------------------------------------------------------------------
(* The application *)

NextSlot(s) ==
    /\ s <= scene.binds /\ slot[s].state = "free"
    /\ \A r \in Slots : r < s => slot[r].state # "free"

\* bind_inner once the transport has a listener: the accept task starts, the monitor
\* is told, and the handle goes into the map.  An equal key drops the old handle,
\* and with it the sender of the stop channel of the old listener.
BeginAccept(s, ep, addr) ==
    LET old == IF ep \in DOMAIN binds THEN {binds[ep]} ELSE {} IN
    /\ slot' = [r \in Slots |->
           IF r = s THEN [state |-> "listening", addr |-> addr, stop |-> FALSE]
           ELSE IF r \in old THEN [slot[r] EXCEPT !.stop = TRUE] ELSE slot[r]]
    /\ files' = IF IsPath(addr) THEN files \cup {addr[2]} ELSE files
    /\ events' = events \cup {<<"listening", s>>}
    /\ binds' = [e \in DOMAIN binds \cup {ep} |-> IF e = ep THEN s ELSE binds[e]]
    /\ live' = live \cup {s}
    /\ replaced' = replaced \cup old
    /\ UNCHANGED <<scene, app, waiting, todo, client, left, peerVars, detached, late>>

\* The endpoints that begin_accept of each transport may return: port 0 is resolved
\* by the system, the host stays as it was written, and so does a path.
BoundTcp(ep) == IF ep.port = 0 THEN {[ep EXCEPT !.port = p] : p \in Ephemeral} ELSE {ep}
BoundIpc(ep) == {ep}
begin_accept(ep) == IF ep.transport = "tcp" THEN BoundTcp(ep) ELSE BoundIpc(ep)

Bind(s, text) ==
    LET ep == FromStr(text) IN
    /\ app = "open" /\ NextSlot(s)
    /\ ep.transport # "error" /\ Resolvable(ep)
    /\ \E bound \in begin_accept(ep) :
           ~Taken(OsAddr(bound)) /\ BeginAccept(s, bound, OsAddr(bound))

\* begin_accept_listener: the endpoint comes from the address of the caller's
\* listener, which for a Unix socket may have no path.
pathname_from_unix_addr(addr) == IF IsPath(addr) THEN addr[2] ELSE Unnamed
AdoptedTcp(addr) == from_tcp_addr(addr[2], addr[3])
AdoptedIpc(addr) == Ipc(pathname_from_unix_addr(addr))
begin_accept_listener(addr) == IF addr[1] = "tcp" THEN AdoptedTcp(addr) ELSE AdoptedIpc(addr)

BindListener(s, addr) ==
    /\ app = "open" /\ NextSlot(s)
    /\ \A r \in Slots : slot[r].addr # addr   \* each is adopted once
    /\ ~Taken(addr)
    /\ BeginAccept(s, begin_accept_listener(addr), addr)

\* The first part of unbind: take the handle out of the map and send the signal.
StopListener(ep) ==
    LET s == binds[ep] IN
    /\ slot' = [slot EXCEPT ![s].stop = TRUE]
    /\ binds' = [e \in DOMAIN binds \ {ep} |-> binds[e]]
    /\ waiting' = s
    /\ live' = live \ ({s} \cup replaced)
    /\ UNCHANGED <<scene, files, client, left, peerVars, events, replaced, detached, late>>

Unbind(ep) ==
    /\ app = "open"
    /\ StopListener(ep)
    /\ app' = "unbinding"
    /\ UNCHANGED todo

\* The shutdown of the handle does not wait for the task.
TaskJoinedEarly(s) == TRUE

\* TaskHandle::shutdown awaits the join handle of the accept task.
TaskJoined(s) == slot[s].state = "ended"

UnbindReturns ==
    /\ app \in {"unbinding", "closing"} /\ waiting # 0
    /\ TaskJoined(waiting)
    /\ waiting' = 0
    /\ app' = IF app = "unbinding" THEN "open" ELSE app
    /\ UNCHANGED <<scene, todo, binds, listenVars, client, left, peerVars, events, history>>

\* The application drops the future of unbind: the task is on its own.
CancelUnbind ==
    /\ app = "unbinding"
    /\ app' = "open"
    /\ waiting' = 0
    /\ detached' = detached \cup {waiting}
    /\ UNCHANGED <<scene, todo, binds, listenVars, client, left, peerVars, events,
                   live, replaced, late>>

\* close calls unbind_all, which unbinds the endpoints of a snapshot of the map.
Close ==
    /\ app = "open"
    /\ app' = "closing"
    /\ todo' = DOMAIN binds
    /\ UNCHANGED <<scene, waiting, binds, listenVars, client, left, peerVars, events, history>>

UnbindNext(ep) ==
    /\ app = "closing" /\ waiting = 0 /\ ep \in todo
    /\ StopListener(ep)
    /\ todo' = todo \ {ep}
    /\ UNCHANGED app

\* split of DEALER and ROUTER: both halves share the fields; the socket that is
\* dropped in the end has a backend without peers instead.  Nothing can be bound
\* or unbound from then on.
Split ==
    /\ app = "open" /\ scene.kind = "DEALER"
    /\ app' = "split"
    /\ UNCHANGED <<scene, waiting, todo, binds, listenVars, client, left, peerVars, events,
                   history>>

\* The first half to go leaves everything to the other.
DropHalf ==
    /\ app = "split"
    /\ app' = "half"
    /\ UNCHANGED <<scene, waiting, todo, binds, listenVars, client, left, peerVars, events,
                   history>>

\* The socket goes out of scope: after close, with its future, or without, or with
\* the last of its halves.
Drop ==
    /\ \/ app \in {"open", "half"}
       \/ app = "closing" /\ waiting = 0 /\ todo = {}
       \/ app = "closing" /\ waiting # 0
    /\ app' = "dropping"
    /\ waiting' = 0
    /\ todo' = {}
    /\ detached' = IF waiting # 0 THEN detached \cup {waiting} ELSE detached
    /\ UNCHANGED <<scene, binds, listenVars, client, left, peerVars, events,
                   live, replaced, late>>

\* PushSocket and DealerSocket shut their backend down in Drop; PullSocket has no Drop.
ShutsDown == scene.kind # "PULL"

\* The map is left as it is, as without a Drop.
KeepPeers ==
    /\ app = "dropping"
    /\ app' = "clearing"
    /\ UNCHANGED <<scene, waiting, todo, binds, listenVars, client, left, peerVars, events,
                   history>>

\* shutdown clears the map with its senders, then the fair queue.
ClearPeers ==
    /\ app = "dropping"
    /\ app' = "clearing"
    /\ peers' = IF ShutsDown THEN {} ELSE peers
    /\ UNCHANGED <<scene, waiting, todo, binds, listenVars, client, left, streams, writers,
                   events, history>>

ClearStreams ==
    /\ app = "clearing"
    /\ app' = "shut"
    /\ streams' = IF ShutsDown THEN {} ELSE streams
    /\ UNCHANGED <<scene, waiting, todo, binds, listenVars, client, left, peers, writers,
                   events, history>>

\* The fields go: the handles in the map drop their stop channels.
DropFields ==
    /\ app = "shut"
    /\ app' = "gone"
    /\ slot' = [s \in Slots |->
           IF \E ep \in DOMAIN binds : binds[ep] = s
           THEN [slot[s] EXCEPT !.stop = TRUE] ELSE slot[s]]
    /\ binds' = <<>>
    /\ live' = {}
    /\ UNCHANGED <<scene, waiting, todo, files, client, left, peerVars, events, replaced,
                   detached, late>>

---------------------------------------------------------------------------
(* Accept tasks and the handshakes they spawn *)

\* The loop ends; connections that were not accepted are reset.  The file of an IPC
\* listener is still there.
AcceptStops(s) ==
    /\ slot[s].state = "listening" /\ slot[s].stop
    /\ slot' = [slot EXCEPT ![s].state = IF IsPath(slot[s].addr) THEN "closing" ELSE "ended"]
    /\ client' = [c \in Clients |->
           IF client[c].state = "queued" /\ client[c].at = s
           THEN [client[c] EXCEPT !.state = "failed"] ELSE client[c]]
    /\ UNCHANGED <<socketVars, files, left, peerVars, events, history>>

RemoveFile(s) ==
    /\ slot[s].state = "closing"
    /\ slot' = [slot EXCEPT ![s].state = "ended"]
    /\ files' = files \ {slot[s].addr[2]}
    /\ UNCHANGED <<socketVars, client, left, peerVars, events, history>>

\* select! takes either branch when both are ready: also after the stop signal.
Accept(s, c) ==
    /\ slot[s].state = "listening"
    /\ client[c].state = "queued" /\ client[c].at = s
    /\ SetClient(c, "accepted")
    /\ UNCHANGED <<socketVars, listenVars, left, peerVars, events, history>>

\* accept itself fails: the callback gets the error.
AcceptError(s) ==
    /\ slot[s].state = "listening"
    /\ events' = events \cup {<<"accept failed", 0>>}
    /\ UNCHANGED <<socketVars, listenVars, client, left, peerVars, history>>

\* The handshake concludes well, and peer_connected registers the peer, whatever
\* became of the socket: it enters the peer with the sender of its channel,
Register(c) ==
    /\ client[c].state = "accepted"
    /\ SetClient(c, "entered")
    /\ peers' = peers \cup {c}
    /\ late' = IF app \in {"clearing", "shut", "gone"} THEN late \cup {c} ELSE late
    /\ UNCHANGED <<socketVars, listenVars, left, streams, writers, events, live, replaced,
                   detached>>

\* spawns its writer,
SpawnWriter(c) ==
    /\ client[c].state = "entered"
    /\ SetClient(c, "spawned")
    /\ writers' = writers \cup {c}
    /\ UNCHANGED <<socketVars, listenVars, left, peers, streams, events, history>>

\* and gives the read half to the fair queue, which a PUSH socket has not.
InsertStream(c) ==
    /\ client[c].state = "spawned"
    /\ SetClient(c, "registered")
    /\ streams' = IF scene.kind = "PUSH" THEN streams ELSE streams \cup {c}
    /\ UNCHANGED <<socketVars, listenVars, left, peers, writers, events, history>>

ReportAccepted(c) ==
    /\ client[c].state = "registered"
    /\ SetClient(c, "up")
    /\ events' = events \cup {<<"accepted", c>>}
    /\ UNCHANGED <<socketVars, listenVars, left, peerVars, history>>

\* The handshake fails, and the connection is dropped.
HandshakeFails(c) ==
    /\ client[c].state = "accepted"
    /\ SetClient(c, "failed")
    /\ events' = events \cup {<<"accept failed", c>>}
    /\ UNCHANGED <<socketVars, listenVars, left, peerVars, history>>

\* The end of the stream, or a failing write, is noticed by recv or send.
PeerDisconnected(c) ==
    /\ Usable
    /\ c \in left \cap (peers \cup streams)
    /\ peers' = peers \ {c}
    /\ streams' = streams \ {c}
    /\ events' = IF c \in peers THEN events \cup {<<"disconnected", c>>} ELSE events
    /\ UNCHANGED <<socketVars, listenVars, client, left, writers, history>>

\* A writer task ends with the last sender of its channel, which is in the map.  It
\* holds the backend, so that a map that is not cleared keeps its writers for ever.
WriterEnds(c) ==
    /\ c \in writers \ peers
    /\ writers' = writers \ {c}
    /\ UNCHANGED <<socketVars, listenVars, client, left, peers, streams, events, history>>

\* The last task that holds the backend ends, and with it goes the fair queue, in
\* which only streams can be that were inserted after shutdown and never polled.
Registering(c) == client[c].state \in {"accepted", "entered", "spawned"}
DropBackend ==
    /\ app = "gone" /\ ShutsDown /\ writers = {} /\ streams # {}
    /\ \A s \in Slots : slot[s].state # "listening"
    /\ \A c \in Clients : ~Registering(c) /\ client[c].state # "registered"
    /\ streams' = {}
    /\ UNCHANGED <<socketVars, listenVars, client, left, peers, writers, events, history>>

---------------------------------------------------------------------------
(* Clients *)

Connect(c, text) ==
    /\ client[c].state = "idle"
    /\ FromStr(text).transport # "error"
    /\ client' = [client EXCEPT ![c] =
           [state |-> "connecting", target |-> FromStr(text), at |-> 0]]
    /\ UNCHANGED <<socketVars, listenVars, left, peerVars, events, history>>

\* transport::connect: what an attempt over each transport comes to.
AttemptTcp(ep) ==
    IF ~Resolvable(ep) THEN "Other"
    ELSE IF ListensAt(OsAddr(ep)) # {} THEN "Ok" ELSE "ConnectionRefused"

AttemptIpc(ep) ==
    IF ep.path \notin files THEN "NotFound"
    ELSE IF ListensAt(OsAddr(ep)) # {} THEN "Ok" ELSE "ConnectionRefused"

Attempt(ep) == IF ep.transport = "tcp" THEN AttemptTcp(ep) ELSE AttemptIpc(ep)

\* The missing file of an IPC endpoint is forgotten.
RetryRefused(ep, error) == error = "ConnectionRefused"

is_retryable_connect_error(ep, error) ==
    \/ error = "ConnectionRefused"
    \/ ep.transport = "ipc" /\ error = "NotFound"

ConnectSucceeds(c) ==
    /\ client[c].state = "connecting"
    /\ Attempt(client[c].target) = "Ok"
    /\ client' = [client EXCEPT ![c].state = "queued",
                                ![c].at = CHOOSE s \in ListensAt(OsAddr(client[c].target)) : TRUE]
    /\ UNCHANGED <<socketVars, listenVars, left, peerVars, events, history>>

\* connect_forever gives up; attempts that can be repeated leave the state alone.
ConnectFails(c) ==
    LET error == Attempt(client[c].target) IN
    /\ client[c].state = "connecting"
    /\ error # "Ok" /\ ~is_retryable_connect_error(client[c].target, error)
    /\ SetClient(c, "failed")
    /\ UNCHANGED <<socketVars, listenVars, left, peerVars, events, history>>

\* The timeout of connect ends connect_forever between two attempts.
ConnectTimesOut(c) ==
    /\ client[c].state = "connecting"
    /\ SetClient(c, "timed out")
    /\ UNCHANGED <<socketVars, listenVars, left, peerVars, events, history>>

\* The client closes: a handshake that times out or a socket that is dropped.
ClientLeaves(c) ==
    /\ client[c].state \in {"queued", "accepted", "entered", "spawned", "registered", "up"}
    /\ c \notin left
    /\ left' = left \cup {c}
    /\ UNCHANGED <<socketVars, listenVars, client, peerVars, events, history>>

---------------------------------------------------------------------------
AppStep ==
    \/ \E s \in Slots, text \in scene.texts : Bind(s, text)
    \/ \E s \in Slots, addr \in scene.listeners : BindListener(s, addr)
    \/ \E ep \in DOMAIN binds : Unbind(ep) \/ UnbindNext(ep)
    \/ UnbindReturns \/ CancelUnbind \/ Close \/ Split
    \/ DropHalf \/ Drop \/ ClearPeers \/ ClearStreams \/ DropFields

CallbackStep(c) ==
    \/ Register(c) \/ SpawnWriter(c) \/ InsertStream(c) \/ ReportAccepted(c)
    \/ HandshakeFails(c)

LifeNext ==
    \/ AppStep
    \/ \E s \in Slots : AcceptStops(s) \/ RemoveFile(s) \/ AcceptError(s)
    \/ \E s \in Slots, c \in Clients : Accept(s, c)
    \/ \E c \in Clients : CallbackStep(c) \/ PeerDisconnected(c) \/ WriterEnds(c)
    \/ DropBackend
    \/ \E c \in Clients : ConnectSucceeds(c) \/ ConnectFails(c) \/ ConnectTimesOut(c)
                          \/ ClientLeaves(c)
    \/ \E c \in scene.clients, text \in scene.texts : Connect(c, text)

\* Tasks that can proceed do.  select! chooses among ready branches at random, so a
\* stop signal is seen in the end.  Handshakes settle (HandshakeSettles).  What the
\* application has begun it finishes, but it need not begin anything.
LifeFairness ==
    /\ \A s \in Slots : WF_lifeVars(AcceptStops(s)) /\ WF_lifeVars(RemoveFile(s))
    /\ \A c \in Clients : /\ WF_lifeVars(CallbackStep(c)) /\ WF_lifeVars(WriterEnds(c))
                          /\ WF_lifeVars(ConnectSucceeds(c))
    /\ WF_lifeVars(UnbindReturns) /\ WF_lifeVars(ClearPeers) /\ WF_lifeVars(ClearStreams)
    /\ WF_lifeVars(DropFields) /\ WF_lifeVars(DropBackend)

LifeSpec == LifeInit /\ [][LifeNext]_lifeVars /\ LifeFairness

---------------------------------------------------------------------------
(* Properties *)

\* The listeners of a socket in use, split or not, are those its calls of bind and unbind leave: a
\* listener accepts from bind_inner until its unbind, and when unbind has returned
\* neither its task nor its address is in use, so that the endpoint can be bound
\* again.  The exceptions: a handle dropped by an equal endpoint (two listeners
\* without a path are both Ipc(None)), and an unbind whose future was dropped.
BindsMatchListeners ==
    Usable =>
        /\ \A s \in live \ replaced : slot[s].state = "listening" /\ ~slot[s].stop
        /\ \A s \in Slots : slot[s].state \in {"listening", "closing"} =>
               s \in live \cup replaced \cup detached

\* A client that connects by the text of an endpoint that bind returned reaches the
\* listener behind it: Display, FromStr and the lookup of the host agree.  The
\* exceptions are listeners without a path and paths that are not UTF-8.
DisplayReaches ==
    \A ep \in DOMAIN binds :
        ~(ep.transport = "ipc" /\ ep.path \in {Unnamed} \cup DOMAIN Lossy) =>
            /\ FromStr(Display(ep)) = ep
            /\ OsAddr(FromStr(Display(ep))) = slot[binds[ep]].addr

\* connect_forever reaches an endpoint that is bound only after the call, as long as
\* it then stays bound and the timeout of connect, if there is one, does not come first.
Reachable(c) ==
    client[c].state # "idle" /\ Resolvable(client[c].target)
    /\ ListensAt(OsAddr(client[c].target)) # {}

LateBindReached ==
    \A c \in Clients : <>[]Reachable(c) => <>(client[c].at # 0 \/ client[c].state = "timed out")

\* When the socket is gone, its accept tasks end, their files are removed and its
\* connections are closed, although clients stay and handshakes and registrations are
\* under way.  The exceptions: a peer that enters the map after shutdown, and every peer
\* of a PULL socket, whose writer and map keep each other alive, and with them the fair
\* queue and a stream that is inserted after shutdown.
Held(c) == c \in writers \cup streams \/ Registering(c)

ResourcesReleased ==
    app = "gone" ~> /\ \A s \in Slots : slot[s].state \in {"free", "ended"}
                    /\ \A c \in Clients :
                           Held(c) => \/ scene.kind = "PULL" \/ c \in late
                                      \/ c \in streams /\ late # {}
=============================================================================
