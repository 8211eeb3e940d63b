------------------------------ MODULE Endpoint ------------------------------
(***************************************************************************)
(* Endpoints and their text: FromStr and Display of Endpoint, Host and     *)
(* Transport in src/endpoint.                                              *)
(*                                                                         *)
(* A text is a sequence of tokens: the marks "://", ":", "[", "]", words,  *)
(* and runs of digits.  What the standard library makes of the texts of    *)
(* IP addresses and paths is given by constants.                           *)
(***************************************************************************)
EXTENDS Naturals, Sequences

CONSTANTS
    LowerCase,   \* words of lower-case letters
    Number,      \* value of each run of digits
    ParseV4,     \* the address of each text of an IPv4 address
    ParseV6,     \* the address of each text of an IPv6 address
    ShowIp,      \* the canonical text of each address
    ShowPort,    \* the digits of each port
    Lossy        \* how Path::display shows each path that is not UTF-8

MaxPort == 2 ^ 16 - 1

\* The text that the standard library shows of an address or a port parses as it.  No
\* text of an IPv4 address begins with a bracket, and one of an IPv6 address has colons.
ASSUME ShowAssumption ==
    /\ \A t \in DOMAIN ParseV4 :
           /\ t \in Seq(STRING) /\ Len(t) >= 1 /\ t[1] # "["
           /\ ShowIp[ParseV4[t]] \in DOMAIN ParseV4
           /\ ParseV4[ShowIp[ParseV4[t]]] = ParseV4[t]
    /\ \A t \in DOMAIN ParseV6 :
           /\ t \in Seq(STRING) /\ Len(t) >= 2
           /\ ShowIp[ParseV6[t]] \in DOMAIN ParseV6
           /\ ParseV6[ShowIp[ParseV6[t]]] = ParseV6[t]
    /\ \A n \in DOMAIN ShowPort :
           n \in 0 .. MaxPort /\ ShowPort[n] \in DOMAIN Number /\ Number[ShowPort[n]] = n
    /\ \A d \in DOMAIN Number :
           /\ d \in STRING /\ Number[d] \in Nat
           /\ Number[d] <= MaxPort => Number[d] \in DOMAIN ShowPort
ASSUME WordsAssumption == {"tcp", "ipc"} \subseteq LowerCase
\* True of any strings, and stated because no prover knows it of a literal.
ASSUME MarksAssumption == {"[", "]", ":", "://", "tcp", "ipc"} \subseteq STRING

Tcp(host, port) == [transport |-> "tcp", host |-> host, port |-> port]
Ipc(path) == [transport |-> "ipc", path |-> path]

Unnamed == <<>>                 \* the path of Ipc(None); no other path is empty
ParseError == [transport |-> "error"]

Transports == {"tcp", "ipc"}    \* those that Transport::from_str knows

\* The endpoint of a socket address.
FromIp(a) ==
    [kind |-> IF \E t \in DOMAIN ParseV4 : ParseV4[t] = a THEN "v4" ELSE "v6", addr |-> a]
from_tcp_addr(ip, port) == Tcp(FromIp(ip), port)

\* Host::try_from(String): IPv4, then IPv6 with or without brackets, then a name.
InBrackets(text) == Len(text) >= 4 /\ text[1] = "[" /\ text[Len(text)] = "]"

\* Brackets are not taken off.
BracketsKept(text) == text

Unbracketed(text) == IF InBrackets(text) THEN SubSeq(text, 2, Len(text) - 1) ELSE text

HostOf(text) ==
    IF text \in DOMAIN ParseV4 THEN [kind |-> "v4", addr |-> ParseV4[text]]
    ELSE IF Unbracketed(text) \in DOMAIN ParseV6
    THEN [kind |-> "v6", addr |-> ParseV6[Unbracketed(text)]]
    ELSE [kind |-> "domain", addr |-> text]

\* HOST_PORT_REGEX: the last colon ends the host, and digits follow it.
HasHostPort(text) ==
    Len(text) >= 3 /\ text[Len(text)] \in DOMAIN Number /\ text[Len(text) - 1] = ":"

FromStrTcp(text) ==
    IF ~HasHostPort(text) \/ Number[text[Len(text)]] > MaxPort THEN ParseError
    ELSE Tcp(HostOf(SubSeq(text, 1, Len(text) - 2)), Number[text[Len(text)]])

\* Endpoint::from_str: TRANSPORT_REGEX, the transport, and the address after it.
FromStr(text) ==
    LET address == SubSeq(text, 3, Len(text)) IN
    IF ~(Len(text) >= 3 /\ text[1] \in LowerCase /\ text[2] = "://") THEN ParseError
    ELSE IF text[1] \notin Transports THEN ParseError
    ELSE IF text[1] = "tcp" THEN FromStrTcp(address) ELSE Ipc(address)

HostText(host) == IF host.kind = "domain" THEN host.addr ELSE ShowIp[host.addr]

HostPortText(host, port) ==
    (IF host.kind = "v6" THEN <<"[">> \o HostText(host) \o <<"]">> ELSE HostText(host))
    \o <<":", ShowPort[port]>>

PathText(path) ==
    IF path = Unnamed THEN <<"????">>
    ELSE IF path \in DOMAIN Lossy THEN Lossy[path] ELSE path

\* Display for Endpoint.
Display(ep) ==
    <<ep.transport, "://">> \o
    (IF ep.transport = "tcp" THEN HostPortText(ep.host, ep.port) ELSE PathText(ep.path))
=============================================================================
