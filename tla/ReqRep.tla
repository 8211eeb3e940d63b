-------------------------------- MODULE ReqRep -------------------------------
(***************************************************************************)
(* REQ and REP sockets (src/src/req.rs, src/src/rep.rs) talking to each    *)
(* other over connections that may break, with applications that may drop  *)
(* any pending send or recv future and may connect again.                  *)
(*                                                                         *)
(* Unlike the other sockets these two write to the connection themselves:  *)
(* send() feeds the FramedWrite of the peer and flushes it, so a dropped   *)
(* send() leaves its message in the write buffer, where the next send to   *)
(* the same peer will flush it.                                            *)
(*                                                                         *)
(* A connection l joins link[l].client to link[l].server.  The client      *)
(* knows the server as link[l].skey and the server the client as           *)
(* link[l].ckey; a peer with a configured identity has the same key on     *)
(* all its connections.  A message is a sequence of frames, <<>> being the *)
(* empty one; request n of client c has a frame <<c, n>>, and a server     *)
(* application answers with the data it received.                          *)
(***************************************************************************)
EXTENDS Integers, Sequences, FiniteSets

CONSTANTS
  Clients, Servers, Links, Keys, NoKey, NoLink,
  Dealers,         \* the clients that are DEALER sockets, not REQ sockets
  Topologies,      \* how Links join Clients and Servers
  MaxRequests,     \* bound: requests of a client
  MaxDrops         \* bound: futures dropped, requests skipped

Ends == [client : Clients, server : Servers, ckey : Keys, skey : Keys]
ASSUME TopologiesAssumption == Topologies \subseteq [Links -> Ends]
ASSUME DealersAssumption == Dealers \subseteq Clients
ASSUME NoneAssumption == NoKey \notin Keys /\ NoLink \notin Links
ASSUME BoundsAssumption == MaxRequests \in Nat /\ MaxDrops \in Nat
\* A server knows no two clients under one identity.
ASSUME IdentitiesAssumption ==
  \A t \in Topologies : \A l, m \in Links :
    t[l].server = t[m].server /\ t[l].ckey = t[m].ckey => t[l].client = t[m].client

VARIABLES
  \* ReqSocket c
  peers, round_robin, current_request,
  req,            \* where its send or recv future is
  \* RepSocket s
  rep_peers, streams, rep_request, envelope,
  rep,            \* where its send future is
  data,           \* what its application received last
  \* connection l
  link,
  connected,      \* how far the two peer_connected calls are
  up, down,       \* bytes on the way to the server and to the client
  up_buf, down_buf,   \* the FramedWrites' buffers
  broken,
  \* history
  sent,           \* requests made by client c
  got,            \* what its last recv returned, and for which request
  answers,        \* replies written for each request
  drops, mixed, stuck

reqVars == <<peers, round_robin, current_request, req>>
repVars == <<rep_peers, streams, rep_request, envelope, rep, data>>
wires == <<up, down, up_buf, down_buf, broken>>
history == <<sent, got, answers, drops, mixed, stuck>>
vars == <<reqVars, repVars, link, connected, wires, history>>

Reqs == Clients \ Dealers
Frames == {<<>>} \cup (Clients \X (1..MaxRequests))
Requests == Clients \X (1..MaxRequests)

TypeOK ==
  /\ peers \in [Clients -> [Keys -> Links \cup {NoLink}]]
  /\ round_robin \in [Clients -> Seq(Keys)]
  /\ current_request \in [Clients -> Keys \cup {NoKey}]
  /\ req \in [Clients -> [at : {"idle", "flush", "recv"}, key : Keys \cup {NoKey}]]
  /\ rep_peers \in [Servers -> [Keys -> Links \cup {NoLink}]]
  /\ streams \in [Servers -> [Keys -> Links \cup {NoLink}]]
  /\ rep_request \in [Servers -> Keys \cup {NoKey}]
  /\ envelope \in [Servers -> Seq(Frames)] /\ data \in [Servers -> Seq(Frames)]
  /\ rep \in [Servers -> [at : {"idle", "flush"}, key : Keys \cup {NoKey}]]
  /\ link \in Topologies
  /\ connected \in [Links -> [client : BOOLEAN, server : {"new", "upserted", "inserted"}]]
  /\ up \in [Links -> Seq(Seq(Frames))] /\ down \in [Links -> Seq(Seq(Frames))]
  /\ up_buf \in [Links -> Seq(Seq(Frames))] /\ down_buf \in [Links -> Seq(Seq(Frames))]
  /\ broken \in [Links -> {"no", "clean", "torn"}]
  /\ sent \in [Clients -> 0..MaxRequests]
  /\ answers \in [Requests -> Nat]
  /\ DOMAIN got = Clients
  /\ drops \in 0..MaxDrops
  /\ mixed \subseteq Clients /\ stuck \subseteq Clients

Init ==
  /\ peers = [c \in Clients |-> [k \in Keys |-> NoLink]]
  /\ round_robin = [c \in Clients |-> <<>>]
  /\ current_request = [c \in Clients |-> NoKey]
  /\ req = [c \in Clients |-> [at |-> "idle", key |-> NoKey]]
  /\ rep_peers = [s \in Servers |-> [k \in Keys |-> NoLink]]
  /\ streams = [s \in Servers |-> [k \in Keys |-> NoLink]]
  /\ rep_request = [s \in Servers |-> NoKey]
  /\ envelope = [s \in Servers |-> <<>>] /\ data = [s \in Servers |-> <<>>]
  /\ rep = [s \in Servers |-> [at |-> "idle", key |-> NoKey]]
  /\ link \in Topologies
  /\ connected = [l \in Links |-> [client |-> FALSE, server |-> "new"]]
  /\ up = [l \in Links |-> <<>>] /\ down = [l \in Links |-> <<>>]
  /\ up_buf = [l \in Links |-> <<>>] /\ down_buf = [l \in Links |-> <<>>]
  /\ broken = [l \in Links |-> "no"]
  /\ sent = [c \in Clients |-> 0]
  /\ got = [c \in Clients |-> <<>>]
  /\ answers = [r \in Requests |-> 0]
  /\ drops = 0 /\ mixed = {} /\ stuck = {}

-----------------------------------------------------------------------------
(* Messages *)

\* What client c passes to its nth send: one frame, or an empty frame first.
Payload(c, n) == IF n % 2 = 1 THEN << <<c, n>> >> ELSE << <<>>, <<c, n>> >>

\* ReqSocket::send puts an empty delimiter in front; a DEALER writes what it is
\* given, which may be too short for a REP socket.
Request(c, n) == IF c \in Dealers THEN Payload(c, n) ELSE << <<>> >> \o Payload(c, n)

\* The length of the envelope: everything up to the first empty frame (rep.rs:165-172).
EnvelopeLen(m) ==
  LET empty == {i \in DOMAIN m : m[i] = <<>>}
  IN IF empty = {} THEN 1 ELSE CHOOSE i \in empty : \A j \in empty : i <= j

Rest(m, n) == SubSeq(m, n + 1, Len(m))
Client(s, k) == {link[l].client : l \in {l \in Links : link[l].server = s /\ link[l].ckey = k}}

-----------------------------------------------------------------------------
(* peer_connected.  The entry of a peer is locked while a send or recv to  *)
(* it is pending.  An entry that is replaced drops what it has of its      *)
(* connection.                                                             *)

Close(l) == broken' = IF l # NoLink /\ broken[l] = "no" THEN [broken EXCEPT ![l] = "clean"] ELSE broken

\* RepPeer has the write half of a connection and the fair queue the read half, once
\* peer_connected has inserted it: the connection is closed with the second of them.
DropHalf(l, other) ==
  IF l # NoLink /\ (l = other \/ connected[l].server = "upserted") THEN UNCHANGED broken
  ELSE Close(l)

\* ReqSocketBackend::peer_connected; a request that waits for a reply on the
\* connection it replaces will not get it there.
ReqConnected(l) ==
  LET c == link[l].client  k == link[l].skey
  IN /\ ~connected[l].client /\ c \in Reqs
     /\ req[c].key # k
     /\ peers' = [peers EXCEPT ![c][k] = l]
     /\ Close(peers[c][k])
     /\ round_robin' = [round_robin EXCEPT ![c] = Append(@, k)]
     /\ connected' = [connected EXCEPT ![l].client = TRUE]
     /\ stuck' = IF current_request[c] = k THEN stuck \cup {c} ELSE stuck
     /\ UNCHANGED <<current_request, req, repVars, link, up, down, up_buf, down_buf,
                    sent, got, answers, drops, mixed>>

DealerConnected(l) ==
  /\ ~connected[l].client /\ link[l].client \in Dealers
  /\ connected' = [connected EXCEPT ![l].client = TRUE]
  /\ UNCHANGED <<reqVars, repVars, link, wires, history>>

\* RepSocketBackend::peer_connected, first the entry and then the stream.
RepUpsert(l) ==
  LET s == link[l].server  k == link[l].ckey
  IN /\ connected[l].server = "new"
     /\ rep[s].key # k
     /\ rep_peers' = [rep_peers EXCEPT ![s][k] = l]
     /\ DropHalf(rep_peers[s][k], streams[s][k])
     /\ connected' = [connected EXCEPT ![l].server = "upserted"]
     \* a request of an older connection may be answered on this one
     /\ IF \E m \in Links : /\ link[m].server = s /\ link[m].ckey = k
                           /\ connected[m].server # "new"
        THEN mixed' = mixed \cup Client(s, k) /\ stuck' = stuck \cup Client(s, k)
        ELSE UNCHANGED <<mixed, stuck>>
     /\ UNCHANGED <<reqVars, streams, rep_request, envelope, rep, data, link,
                    up, down, up_buf, down_buf, sent, got, answers, drops>>

RepInsert(l) ==
  LET s == link[l].server  k == link[l].ckey
  IN /\ connected[l].server = "upserted"
     /\ streams' = [streams EXCEPT ![s][k] = l]
     /\ DropHalf(streams[s][k], rep_peers[s][k])
     /\ connected' = [connected EXCEPT ![l].server = "inserted"]
     /\ UNCHANGED <<reqVars, rep_peers, rep_request, envelope, rep, data, link,
                    up, down, up_buf, down_buf, history>>

-----------------------------------------------------------------------------
(* ReqSocket *)

\* The peer of the next request goes to the end of the rotation.
NextPeer(c) == round_robin' = [round_robin EXCEPT ![c] = Append(Tail(@), Head(@))]

\* send: the rotation has a peer, and its entry exists, as no caller of
\* ReqSocketBackend::peer_disconnected removes one.
ReqSend(c) ==
  LET k == Head(round_robin[c])  l == peers[c][k]
  IN /\ req[c].at = "idle" /\ current_request[c] = NoKey
     /\ round_robin[c] # <<>> /\ sent[c] < MaxRequests
     /\ NextPeer(c)
     /\ sent' = [sent EXCEPT ![c] = @ + 1]
     /\ up_buf' = [up_buf EXCEPT ![l] = Append(@, Request(c, sent'[c]))]
     /\ req' = [req EXCEPT ![c] = [at |-> "flush", key |-> k]]
     /\ UNCHANGED <<peers, current_request, repVars, link, connected, up, down, down_buf,
                    broken, got, answers, drops, mixed, stuck>>

\* A send that is dropped while it waits for the entry, which peer_connected may have
\* locked, has taken the peer from the rotation and does not put it back.
ReqDropLookup(c) ==
  /\ req[c].at = "idle" /\ current_request[c] = NoKey
  /\ round_robin[c] # <<>> /\ drops < MaxDrops
  /\ round_robin' = [round_robin EXCEPT ![c] = Tail(@)]
  /\ drops' = drops + 1
  /\ UNCHANGED <<peers, current_request, req, repVars, link, connected, wires,
                 sent, got, answers, mixed, stuck>>

ReqIdle(c) == req' = [req EXCEPT ![c] = [at |-> "idle", key |-> NoKey]]

ReqFeedOnly(c) ==
  /\ req[c].at = "flush"
  /\ current_request' = [current_request EXCEPT ![c] = req[c].key]
  /\ ReqIdle(c)
  /\ UNCHANGED <<peers, round_robin, repVars, link, connected, wires, history>>

\* The flush completes; bytes given to a broken connection are lost.
ReqFlush(c) ==
  LET l == peers[c][req[c].key]
  IN /\ req[c].at = "flush"
     /\ up' = IF broken[l] = "no" THEN [up EXCEPT ![l] = @ \o up_buf[l]] ELSE up
     /\ up_buf' = [up_buf EXCEPT ![l] = <<>>]
     /\ current_request' = [current_request EXCEPT ![c] = req[c].key]
     /\ ReqIdle(c)
     /\ UNCHANGED <<peers, round_robin, repVars, link, connected, down, down_buf, broken, history>>

ReqFlushFails(c) ==
  /\ req[c].at = "flush" /\ broken[peers[c][req[c].key]] # "no"
  /\ ReqIdle(c)
  /\ UNCHANGED <<peers, round_robin, current_request, repVars, link, connected, wires, history>>

\* The application drops a send that waits for the transport: the message
\* stays in the buffer and the socket takes another request.
ReqDropSend(c) ==
  /\ req[c].at = "flush" /\ drops < MaxDrops
  /\ ReqIdle(c)
  /\ drops' = drops + 1
  /\ mixed' = mixed \cup {c}
  /\ UNCHANGED <<peers, round_robin, current_request, repVars, link, connected, wires,
                 sent, got, answers, stuck>>

ReqRecvTakes(c) ==
  /\ req[c].at = "idle" /\ current_request[c] # NoKey
  /\ req' = [req EXCEPT ![c] = [at |-> "recv", key |-> current_request[c]]]
  /\ current_request' = [current_request EXCEPT ![c] = NoKey]
  /\ UNCHANGED <<peers, round_robin, repVars, link, connected, wires, history>>

\* recv: the request stays current until a reply or the end of the stream.
ReqRecv(c) ==
  /\ req[c].at = "idle" /\ current_request[c] # NoKey
  /\ req' = [req EXCEPT ![c] = [at |-> "recv", key |-> current_request[c]]]
  /\ UNCHANGED <<peers, round_robin, current_request, repVars, link, connected, wires, history>>

\* A reply of fewer than two frames, or without the delimiter, is an error.
ReplyData(m) == IF Len(m) < 2 \/ Head(m) # <<>> THEN <<>> ELSE Tail(m)

ReqReply(c) ==
  LET l == peers[c][req[c].key]
  IN /\ req[c].at = "recv" /\ down[l] # <<>>
     /\ got' = [got EXCEPT ![c] = <<sent[c], ReplyData(Head(down[l]))>>]
     /\ down' = [down EXCEPT ![l] = Tail(@)]
     /\ current_request' = [current_request EXCEPT ![c] = NoKey]
     /\ ReqIdle(c)
     /\ UNCHANGED <<peers, round_robin, repVars, link, connected, up, up_buf, down_buf, broken,
                    sent, answers, drops, mixed, stuck>>

\* The connection ended: recv returns an error and the request is over.
ReqRecvEnd(c) ==
  /\ req[c].at = "recv"
  /\ LET l == peers[c][req[c].key] IN down[l] = <<>> /\ broken[l] # "no"
  /\ current_request' = [current_request EXCEPT ![c] = NoKey]
  /\ ReqIdle(c)
  /\ UNCHANGED <<peers, round_robin, repVars, link, connected, wires, history>>

ReqDropRecv(c) ==
  /\ req[c].at = "recv" /\ drops < MaxDrops
  /\ ReqIdle(c)
  /\ drops' = drops + 1
  /\ UNCHANGED <<peers, round_robin, current_request, repVars, link, connected, wires,
                 sent, got, answers, mixed, stuck>>

\* A DEALER client writes a request whenever it likes.
DealerSend(l) ==
  LET c == link[l].client
  IN /\ connected[l].client /\ c \in Dealers /\ broken[l] = "no" /\ sent[c] < MaxRequests
     /\ sent' = [sent EXCEPT ![c] = @ + 1]
     /\ up' = [up EXCEPT ![l] = Append(@, Request(c, sent'[c]))]
     /\ UNCHANGED <<reqVars, repVars, link, connected, down, up_buf, down_buf, broken,
                    got, answers, drops, mixed, stuck>>

-----------------------------------------------------------------------------
(* RepSocket *)

RememberFirst(s, k, m) ==
  /\ rep_request' = [rep_request EXCEPT ![s] = k]
  /\ IF Len(m) < 2 THEN UNCHANGED <<envelope, data>>
     ELSE /\ envelope' = [envelope EXCEPT ![s] = SubSeq(m, 1, EnvelopeLen(m))]
          /\ data' = [data EXCEPT ![s] = Rest(m, EnvelopeLen(m))]

\* A message of one frame is an error that leaves the current request alone.
Remember(s, k, m) ==
  IF Len(m) < 2 THEN UNCHANGED <<rep_request, envelope, data>>
  ELSE /\ rep_request' = [rep_request EXCEPT ![s] = k]
       /\ envelope' = [envelope EXCEPT ![s] = SubSeq(m, 1, EnvelopeLen(m))]
       /\ data' = [data EXCEPT ![s] = Rest(m, EnvelopeLen(m))]

\* recv takes a message of the stream of peer k.  An application that calls it
\* again before it has answered gives up the earlier request.
RepRecv(s, k) ==
  LET l == streams[s][k]
      skips == rep_request[s] # NoKey
  IN /\ rep[s].at = "idle" /\ l # NoLink /\ up[l] # <<>>
     /\ skips => drops < MaxDrops
     /\ Remember(s, k, Head(up[l]))
     /\ up' = [up EXCEPT ![l] = Tail(@)]
     /\ drops' = IF skips THEN drops + 1 ELSE drops
     /\ stuck' = IF skips /\ Len(Head(up[l])) >= 2 THEN stuck \cup Client(s, rep_request[s]) ELSE stuck
     /\ UNCHANGED <<reqVars, rep_peers, streams, rep, link, connected, down, up_buf, down_buf,
                    broken, sent, got, answers, mixed>>

\* The stream of peer k is over: a clean end removes it from the fair queue
\* and disconnects the peer; a torn frame is an error that only disconnects
\* the peer, and is found again by the next recv.
RepStreamEnd(s, k) ==
  LET l == streams[s][k]
  IN /\ rep[s].at = "idle" /\ l # NoLink
     /\ up[l] = <<>> /\ broken[l] # "no"
     /\ rep_peers' = [rep_peers EXCEPT ![s][k] = NoLink]
     /\ streams' = IF broken[l] = "clean" THEN [streams EXCEPT ![s][k] = NoLink] ELSE streams
     /\ DropHalf(rep_peers[s][k], streams'[s][k])
     /\ UNCHANGED <<reqVars, rep_request, envelope, rep, data, link, connected,
                    up, down, up_buf, down_buf, history>>

KeepRequest(s) == UNCHANGED rep_request
TakeRequest(s) == rep_request' = [rep_request EXCEPT ![s] = NoKey]

\* send answers the current request; without a peer the reply is returned.
RepSend(s) ==
  LET k == rep_request[s]  l == rep_peers[s][k]  r == data[s][Len(data[s])]
  IN /\ rep[s].at = "idle" /\ k # NoKey
     /\ TakeRequest(s)
     /\ IF l = NoLink
        THEN /\ stuck' = stuck \cup Client(s, k)
             /\ UNCHANGED <<down_buf, envelope, rep, answers>>
        ELSE /\ down_buf' = [down_buf EXCEPT ![l] = Append(@, envelope[s] \o data[s])]
             /\ envelope' = [envelope EXCEPT ![s] = <<>>]
             /\ rep' = [rep EXCEPT ![s] = [at |-> "flush", key |-> k]]
             /\ answers' = [answers EXCEPT ![r] = @ + 1]
             /\ UNCHANGED stuck
     /\ UNCHANGED <<reqVars, rep_peers, streams, data, link, connected, up, down, up_buf, broken,
                    sent, got, drops, mixed>>

RepIdle(s) == rep' = [rep EXCEPT ![s] = [at |-> "idle", key |-> NoKey]]

\* The flush completes, or fails on a broken connection; either way the bytes
\* reach only a connection that is not broken.
RepFlush(s) ==
  LET l == rep_peers[s][rep[s].key]
  IN /\ rep[s].at = "flush"
     /\ down' = IF broken[l] = "no" THEN [down EXCEPT ![l] = @ \o down_buf[l]] ELSE down
     /\ down_buf' = [down_buf EXCEPT ![l] = <<>>]
     /\ RepIdle(s)
     /\ UNCHANGED <<reqVars, rep_peers, streams, rep_request, envelope, data, link, connected,
                    up, up_buf, broken, history>>

RepDropSend(s) ==
  /\ rep[s].at = "flush" /\ drops < MaxDrops
  /\ RepIdle(s)
  /\ drops' = drops + 1
  /\ stuck' = stuck \cup Client(s, rep[s].key)
  /\ UNCHANGED <<reqVars, rep_peers, streams, rep_request, envelope, data, link, connected,
                 wires, sent, got, answers, mixed>>

-----------------------------------------------------------------------------
(* The network *)

\* A connection breaks and some of the bytes on the way are lost; the server
\* may be left with a part of a frame.
Break(l) ==
  /\ broken[l] = "no" /\ connected[l].client
  /\ \E how \in {"clean", "torn"} : broken' = [broken EXCEPT ![l] = how]
  /\ \E m \in 0..Len(up[l]), n \in 0..Len(down[l]) :
       /\ up' = [up EXCEPT ![l] = SubSeq(@, 1, m)]
       /\ down' = [down EXCEPT ![l] = SubSeq(@, 1, n)]
  /\ UNCHANGED <<reqVars, repVars, link, connected, up_buf, down_buf, history>>

-----------------------------------------------------------------------------
Next ==
  \/ \E l \in Links : \/ ReqConnected(l) \/ DealerConnected(l) \/ RepUpsert(l) \/ RepInsert(l)
                      \/ DealerSend(l) \/ Break(l)
  \/ \E c \in Reqs : \/ ReqSend(c) \/ ReqFlush(c) \/ ReqFlushFails(c) \/ ReqDropSend(c)
                     \/ ReqDropLookup(c)
                     \/ ReqRecv(c) \/ ReqReply(c) \/ ReqRecvEnd(c) \/ ReqDropRecv(c)
  \/ \E s \in Servers : \/ RepSend(s) \/ RepFlush(s) \/ RepDropSend(s)
                        \/ \E k \in Keys : RepRecv(s, k) \/ RepStreamEnd(s, k)

Spec == Init /\ [][Next]_vars

-----------------------------------------------------------------------------
(* Properties *)

\* What recv returns to a REQ application is the answer to the request it sent
\* last, although connections break, recv is dropped and called again and
\* requests are skipped.  It can be another one only after a dropped send
\* (req.rs:63) or a reconnection under the same identity (rep.rs:90).
ReplyMatchesUnlessMixed ==
  \A c \in Reqs \ mixed : got[c] # <<>> => got[c][2] = Payload(c, got[c][1])

\* No request is answered twice.
AnsweredOnce == \A r \in Requests : answers[r] <= 1

\* What a server is working on was asked by the peer it will answer, and what
\* is written to a connection, delimiter included, answers a request of the
\* client at its other end: envelopes and replies are never crossed.
Asked(c, n) == IF c \in Dealers THEN << <<c, n>> >> ELSE Payload(c, n)
RepliesAddressed ==
  /\ \A s \in Servers : rep_request[s] # NoKey =>
       \E c \in Client(s, rep_request[s]) : \E n \in 1..sent[c] :
         data[s] = Asked(c, n) /\ envelope[s] = << <<>> >>
  /\ \A l \in Links : \A i \in DOMAIN (down[l] \o down_buf[l]) :
       \E n \in 1..sent[link[l].client] :
         (down[l] \o down_buf[l])[i] = << <<>> >> \o Asked(link[l].client, n)

\* A request that a REQ socket waits for is never lost without a trace: until
\* its connection breaks, it is on its way, or being served, or its reply is on
\* its way, and the server can still read from and answer to that connection.
\* The exceptions are requests given up by the server's application and
\* reconnections under the same identity.
Carries(messages, r) == \E i \in DOMAIN messages : messages[i][Len(messages[i])] = r
RequestNeverLost ==
  \A c \in Reqs \ (mixed \cup stuck) : current_request[c] # NoKey =>
    LET l == peers[c][current_request[c]]
        s == link[l].server
        k == link[l].ckey
        r == <<c, sent[c]>>
    IN \/ broken[l] # "no"
       \/ /\ \/ Carries(up[l], r)
             \/ rep_request[s] = k /\ data[s][Len(data[s])] = r
             \/ rep[s].at = "flush" /\ Carries(down_buf[l], r)
             \/ Carries(down[l], r)
          /\ connected[l].server # "new" => rep_peers[s][k] = l
          /\ connected[l].server = "inserted" => streams[s][k] = l
=============================================================================
