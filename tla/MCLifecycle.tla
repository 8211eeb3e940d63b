---------------------------- MODULE MCLifecycle ----------------------------
(***************************************************************************)
(* Two listeners, and one client or two.  The texts make one bind pick a   *)
(* port, one need a lookup and one a file; one cannot be looked up.  Of    *)
(* the listeners to adopt, one has an IPv6 address, two have no path and   *)
(* one a path that is not UTF-8.                                           *)
(***************************************************************************)
EXTENDS Lifecycle, TLC

CONSTANTS c1, c2

V6 == <<":", ":", "1">>
MCLowerCase == {"tcp", "ipc", "localhost", "nowhere", "sock"}
MCNumber == ("0" :> 0) @@ ("80" :> 80) @@ ("1" :> 1)
MCParseV4 == <<"127.0.0.1">> :> <<"loopback">>
MCParseV6 == V6 :> <<"loopback6">>
MCShowIp == (<<"loopback">> :> <<"127.0.0.1">>) @@ (<<"loopback6">> :> V6)
MCShowPort == (0 :> "0") @@ (80 :> "80") @@ (1 :> "1")
MCLossy == <<"sock?">> :> <<"sock", "replacement">>
MCDns == <<"localhost">> :> <<"loopback">>
MCEphemeral == {1}

Local == <<"tcp", "://", "localhost", ":", "80">>
AnyPort == <<"tcp", "://">> \o V6 \o <<":", "0">>
Named == <<"ipc", "://", "sock">>
Unknown == <<"tcp", "://", "nowhere", ":", "80">>

NoPath(name) == <<"abstract", <<name>>, 0>>
NotUtf8 == <<"path", <<"sock?">>, 0>>
Adopted == <<"tcp", <<"loopback6">>, 80>>

Scene(kind, n, clients, texts, listeners) ==
    [kind |-> kind, binds |-> n, clients |-> clients, texts |-> texts, listeners |-> listeners]

MCScenes ==
    {Scene("DEALER", 2, {c1}, {Local, Named}, {}),
     Scene("DEALER", 2, {c1}, {AnyPort, Unknown}, {NotUtf8, Adopted}),
     Scene("PULL", 2, {c1}, {Named}, {NoPath("a"), NoPath("b")})}
    \cup {Scene(kind, 1, Clients, {Named}, {}) : kind \in {"PUSH", "PULL", "DEALER"}}
=============================================================================
