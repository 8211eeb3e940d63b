-------------------------------- MODULE Wire ---------------------------------
(***************************************************************************)
(* The bytes of a ZMTP connection: what ZmqCodec's encoder writes for a    *)
(* greeting, a command and a message (src/src/codec/zmq_codec.rs,          *)
(* command.rs, greeting.rs), and how the contents of a greeting and of a   *)
(* command are read back.  The decoder that cuts a stream of bytes into    *)
(* frames is module Codec.                                                 *)
(*                                                                         *)
(* A byte is a number below Base, 256 in the code; a flags byte needs      *)
(* three bits, so 8 is the smallest Base.  The lengths of the fixed-size   *)
(* fields are constants too, so that a short stream has every kind of      *)
(* frame.  The fields of a greeting (signature, version, mechanism, server *)
(* flag) take one byte each, and the padding is left out.                  *)
(***************************************************************************)
EXTENDS Integers, SequencesExt

CONSTANTS
  Base,          \* number of values of a byte (256)
  U64,           \* bytes of a long frame length (8)
  U32,           \* bytes of a property's value length (4)
  ReadyName,     \* the bytes of "READY"
  Mechanisms     \* the bytes that name a mechanism

Byte == 0..(Base - 1)

ASSUME BaseAssumption == Base \in Nat /\ Base >= 8
ASSUME FieldsAssumption == U64 \in Nat \ {0} /\ U32 \in Nat \ {0}
ASSUME NamesAssumption ==
  ReadyName \in Seq(Byte) /\ Len(ReadyName) < Base /\ Mechanisms \subseteq Byte

-----------------------------------------------------------------------------
(* Numbers *)

\* n shifted to the right by m bytes, for m up to width.
Shifted(n, width) ==
  LET shifted[m \in 0..width] == IF m = 0 THEN n ELSE shifted[m - 1] \div Base IN shifted

\* n as width bytes, the most significant first (to_be_bytes, put_u64, put_u32).
BigEndian(n, width) == [i \in 1..width |-> Shifted(n, width)[width - i] % Base]

Fits(n, width) == Shifted(n, width)[width] = 0

\* The number that the bytes b stand for (get_u64, get_u32).
FromBigEndian(b) ==
  LET value[i \in 0..Len(b)] == IF i = 0 THEN 0 ELSE value[i - 1] * Base + b[i]
  IN value[Len(b)]

-----------------------------------------------------------------------------
(* Frames.  Bit 0 of the flags byte is MORE, bit 1 LONG, bit 2 COMMAND. *)

Flags(b) == [command |-> (b \div 4) % 2 = 1, long |-> (b \div 2) % 2 = 1, more |-> b % 2 = 1]

FrameOf(body, flags) ==
  IF Len(body) > Base - 1 THEN <<flags + 2>> \o BigEndian(Len(body), U64) \o body
                          ELSE <<flags, Len(body)>> \o body

\* A frame of a message; every frame but the last has MORE set.
encode_frame(body, more) == FrameOf(body, IF more THEN 1 ELSE 0)

EncodeMessage(frames) ==
  FlattenSeq([i \in DOMAIN frames |-> encode_frame(frames[i], i # Len(frames))])

-----------------------------------------------------------------------------
(* Greetings *)

SignatureBytes == <<Base - 1, Base - 2>>    \* 0xff and 0x7f
greeting_len == 5                           \* 64 in the code

EncodeGreeting(g) == SignatureBytes \o <<g.version, g.mechanism, IF g.as_server THEN 1 ELSE 0>>

NoGreeting == [kind |-> "error"]
ParseGreeting(b) ==
  IF Len(b) = greeting_len /\ SubSeq(b, 1, 2) = SignatureBytes /\ b[4] \in Mechanisms
  THEN [kind |-> "greeting", version |-> b[3], mechanism |-> b[4], as_server |-> b[5] = 1]
  ELSE NoGreeting

-----------------------------------------------------------------------------
(* Commands.  READY is the only one; its properties are a HashMap, here a  *)
(* function from names to values, written in some order.                   *)

EncodeProperty(name, value) ==
  <<Len(name)>> \o name \o BigEndian(Len(value), U32) \o value

CommandBody(props) ==
  LET names == SetToSeq(DOMAIN props)
  IN <<Len(ReadyName)>> \o ReadyName
       \o FlattenSeq([i \in DOMAIN names |-> EncodeProperty(names[i], props[names[i]])])

EncodeCommand(props) == FrameOf(CommandBody(props), 4)

Drop(b, n) == SubSeq(b, n + 1, Len(b))
NoCommand == [kind |-> "error"]

\* Base - 1 stands for the bytes that no UTF-8 text contains.
IsUtf8(name) == Base - 1 \notin Range(name)

\* HashMap::insert of a property that comes before the ones in props: a name
\* given twice keeps its last value.
InsertBefore(props, name, value) ==
  [n \in DOMAIN props \cup {name} |-> IF n \in DOMAIN props THEN props[n] ELSE value]

NoProperties == [n \in {} |-> <<>>]

\* The property at place i of a command's body: a byte for the length of its name,
\* the name, U32 bytes for the length of its value, the value.
NameEnd(b, i) == i + b[i]
NameAt(b, i) == SubSeq(b, i + 1, NameEnd(b, i))
ValueEnd(b, i) ==
  NameEnd(b, i) + U32 + FromBigEndian(SubSeq(b, NameEnd(b, i) + 1, NameEnd(b, i) + U32))
ValueAt(b, i) == SubSeq(b, NameEnd(b, i) + U32 + 1, ValueEnd(b, i))

Malformed(b, i) ==
  \/ Len(b) < NameEnd(b, i) + U32 \/ ~IsUtf8(NameAt(b, i))
  \/ Len(b) < ValueEnd(b, i)

\* The properties from place i on, and whether they are well formed.
PropertiesFrom(b) ==
  LET from[i \in 1..(Len(b) + 1)] ==
        IF i = Len(b) + 1 THEN [ok |-> TRUE, props |-> NoProperties]
        ELSE IF Malformed(b, i) THEN [ok |-> FALSE, props |-> NoProperties]
        ELSE LET rest == from[ValueEnd(b, i) + 1]
             IN [ok |-> rest.ok, props |-> InsertBefore(rest.props, NameAt(b, i), ValueAt(b, i))]
  IN from

ParseCommand(b) ==
  IF b = <<>> \/ Len(b) < 1 + b[1] \/ SubSeq(b, 2, 1 + b[1]) # ReadyName
  THEN NoCommand
  ELSE LET parsed == PropertiesFrom(b)[2 + b[1]]
       IN IF parsed.ok THEN [kind |-> "command", props |-> parsed.props] ELSE NoCommand

-----------------------------------------------------------------------------
(* What the encoder writes for one item.  A "raw" item is bytes of another *)
(* implementation, which need not form a frame this library accepts.       *)

Encode(item) ==
  CASE item.kind = "greeting" -> EncodeGreeting(item)
    [] item.kind = "command" -> EncodeCommand(item.props)
    [] item.kind = "message" -> EncodeMessage(item.frames)
    [] item.kind = "raw" -> item.bytes

Encoded(items) == FlattenSeq([i \in DOMAIN items |-> Encode(items[i])])
=============================================================================
