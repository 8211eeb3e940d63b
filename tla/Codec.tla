-------------------------------- MODULE Codec --------------------------------
(***************************************************************************)
(* The receiving half of a connection: ZmqCodec's decoder                  *)
(* (src/src/codec/zmq_codec.rs) inside ZmqFramedRead                       *)
(* (src/src/codec/framed.rs), which reads the transport in chunks of an    *)
(* adaptive size and cuts the bytes into greetings, commands and           *)
(* multipart messages.                                                     *)
(*                                                                         *)
(* The peer writes the bytes of one of Scripts.  The transport hands them  *)
(* over in pieces of any size, with Pending answers in between, and the    *)
(* connection may be cut after any byte.  poll_next is one action per      *)
(* decoder iteration and per read of the transport; its state survives a   *)
(* Pending answer.  The model ends with the first None or error: polling   *)
(* a failed stream again, as REP does, is part of ReqRep.                  *)
(***************************************************************************)
EXTENDS Wire

CONSTANTS
  Scripts,          \* what a peer may write: sequences of items
  initial_size,     \* SocketOptions::read_buffer_initial_size
  max_size,         \* SocketOptions::read_buffer_max_size
  short_limit,      \* SocketOptions::read_buffer_short_reads
  IsizeMax,         \* isize::MAX: no buffer is larger
  PowersOfTwo       \* the powers of two a usize holds

\* What SocketOptions::read_buffer asserts, and a word that can hold a greeting.
ASSUME OptionsAssumption ==
  /\ initial_size \in Nat /\ max_size \in Nat /\ short_limit \in Nat /\ IsizeMax \in Nat
  /\ 0 < initial_size /\ initial_size <= max_size /\ 2 * max_size <= IsizeMax
  /\ short_limit > 0
  /\ \A n \in {greeting_len, U64, Base - 1} : n + max_size <= IsizeMax
ASSUME PowersAssumption ==
  /\ PowersOfTwo \subseteq Nat
  /\ \A n \in 1..max_size : \E p \in PowersOfTwo : n <= p /\ p < 2 * n
\* A length is a number of U64 bytes.
ASSUME WidthAssumption == \A n \in 0..IsizeMax : Fits(n, U64)

MaxLen == IsizeMax - max_size     \* of a frame that is received

IsGreeting(item) ==
  item \in [kind : {"greeting"}, version : Byte, mechanism : Mechanisms, as_server : BOOLEAN]

IsMessage(item) ==
  /\ item \in [kind : {"message"}, frames : Seq(Seq(Byte)) \ {<<>>}]
  /\ \A i \in DOMAIN item.frames : Len(item.frames[i]) <= MaxLen

IsProperties(props) ==
  /\ IsFiniteSet(DOMAIN props)
  /\ \A n \in DOMAIN props :
       /\ n \in Seq(Byte) /\ Len(n) < Base /\ IsUtf8(n)
       /\ props[n] \in Seq(Byte) /\ Fits(Len(props[n]), U32)

IsCommand(item) ==
  /\ item.kind = "command" /\ item = [kind |-> "command", props |-> item.props]
  /\ item.props = [n \in DOMAIN item.props |-> item.props[n]]
  /\ IsProperties(item.props)
  /\ Len(CommandBody(item.props)) <= MaxLen

\* Bytes of another implementation that the decoder refuses as a greeting, or as a
\* frame: for the length that a long frame claims, or for the body of a command.
RefusedGreeting(b) ==
  Len(b) >= greeting_len /\ ParseGreeting(SubSeq(b, 1, greeting_len)) = NoGreeting

HeaderOf(b) == Flags(b[1])
LenWidth(b) == IF HeaderOf(b).long THEN U64 ELSE 1
LenOf(b) == IF HeaderOf(b).long THEN FromBigEndian(SubSeq(b, 2, 1 + U64)) ELSE b[2]
BodyOf(b) == SubSeq(b, 2 + LenWidth(b), 1 + LenWidth(b) + LenOf(b))

RefusedFrame(b) ==
  /\ Len(b) >= 1 /\ Len(b) >= 1 + LenWidth(b)
  /\ \/ HeaderOf(b).long /\ LenOf(b) > MaxLen
     \/ /\ HeaderOf(b).command
        /\ Len(b) >= 1 + LenWidth(b) + LenOf(b)
        /\ ParseCommand(BodyOf(b)) = NoCommand

IsRaw(item) == item \in [kind : {"raw"}, bytes : Seq(Byte)]

\* A peer writes a greeting, then commands and messages.
ASSUME ScriptsAssumption ==
  \A s \in Scripts :
    /\ s \in Seq(Range(s))
    /\ s # <<>> => IsGreeting(s[1]) \/ (IsRaw(s[1]) /\ RefusedGreeting(s[1].bytes))
    /\ \A i \in 2..Len(s) :
         \/ IsMessage(s[i]) \/ IsCommand(s[i])
         \/ IsRaw(s[i]) /\ RefusedFrame(s[i].bytes)

VARIABLES
  \* ZmqCodec
  state,              \* decoder state; a frame's flags ride along in frame
  frame,              \* flags of the frame being decoded
  waiting_for,        \* bytes needed for the next decoder step
  buffered_message,   \* frames of a multipart message so far
  \* ZmqFramedRead
  buffer,             \* bytes read and not decoded
  read_chunk_size, short_reads,
  poll,               \* where poll_next is
  \* the connection
  wire,               \* bytes the peer wrote that are not read yet
  cut,                \* the connection broke before everything was written
  \* what was observed
  script, yielded, outcome

decoder == <<state, frame, waiting_for, buffered_message>>
reader == <<read_chunk_size, short_reads>>
connection == <<wire, cut, script>>
vars == <<decoder, buffer, reader, poll, connection, yielded, outcome>>

\* "decode" is the decode before the first read, "decode_read" the one after a
\* read of n > 0 bytes and "decode_end" the one after a read of none.
Polls == {"idle", "decode", "decode_read", "decode_end", "read"}
NoFrame == Flags(0)

TypeOK ==
  /\ state \in {"Greeting", "FrameHeader", "FrameLen", "Frame"}
  /\ frame \in [command : BOOLEAN, long : BOOLEAN, more : BOOLEAN]
  /\ waiting_for \in Nat
  /\ buffered_message \in Seq(Seq(Byte))
  /\ buffer \in Seq(Byte)
  /\ read_chunk_size \in initial_size..max_size
  /\ short_reads \in 0..(short_limit - 1)
  /\ poll \in Polls
  /\ wire \in Seq(Byte)
  /\ cut \in BOOLEAN
  /\ script \in Scripts
  /\ outcome \in {"open", "clean", "error"}

Init ==
  /\ state = "Greeting" /\ frame = NoFrame
  /\ waiting_for = greeting_len
  /\ buffered_message = <<>>
  /\ buffer = <<>>
  /\ read_chunk_size = initial_size /\ short_reads = 0
  /\ poll = "idle"
  /\ script \in Scripts
  /\ wire = Encoded(script)
  /\ cut = FALSE
  /\ yielded = <<>> /\ outcome = "open"

-----------------------------------------------------------------------------
(* poll_next *)

Poll ==
  /\ poll = "idle" /\ outcome = "open"
  /\ poll' = "decode"
  /\ UNCHANGED <<decoder, buffer, reader, connection, yielded, outcome>>

Decoding == poll \in {"decode", "decode_read", "decode_end"}

\* poll_next returns an item, or an error.
Yield(item) ==
  /\ poll' = "idle"
  /\ IF item.kind = "error" THEN outcome' = "error" /\ UNCHANGED yielded
                            ELSE yielded' = Append(yielded, item) /\ UNCHANGED outcome

GoOn == UNCHANGED <<poll, yielded, outcome>>

\* The decoder moves to state s, where it needs n bytes, having used k bytes.
Advance(s, n, k) ==
  /\ state' = s
  /\ waiting_for' = n
  /\ buffer' = Drop(buffer, k)

\* A decoder iteration with enough bytes in the buffer.
HasBytes == Decoding /\ Len(buffer) >= waiting_for

DecodeGreeting ==
  /\ HasBytes /\ state = "Greeting"
  /\ IF Head(buffer) # Base - 1
     THEN UNCHANGED <<decoder, buffer>> /\ Yield(NoGreeting)
     ELSE /\ Advance("FrameHeader", 1, greeting_len)
          /\ Yield(ParseGreeting(SubSeq(buffer, 1, greeting_len)))
          /\ UNCHANGED <<frame, buffered_message>>
  /\ UNCHANGED <<reader, connection>>

DecodeHeader ==
  /\ HasBytes /\ state = "FrameHeader"
  /\ frame' = Flags(Head(buffer))
  /\ Advance("FrameLen", IF frame'.long THEN U64 ELSE 1, 1)
  /\ GoOn
  /\ UNCHANGED <<buffered_message, reader, connection>>

RepresentableAlone(len) == len \in 0..IsizeMax
\* A long frame is refused unless it and a chunk after it fit a buffer.
Representable(len) == len \in 0..(IsizeMax - max_size)

DecodeLen ==
  /\ HasBytes /\ state = "FrameLen"
  /\ LET len == IF frame.long THEN FromBigEndian(SubSeq(buffer, 1, U64)) ELSE Head(buffer)
     IN IF frame.long /\ ~Representable(len)
        THEN /\ buffer' = Drop(buffer, U64)
             /\ UNCHANGED <<state, waiting_for>>
             /\ Yield([kind |-> "error"])
        ELSE /\ Advance("Frame", len, waiting_for)
             /\ GoOn
  /\ UNCHANGED <<frame, buffered_message, reader, connection>>

DecodeFrameKeepsMessage ==
  /\ HasBytes /\ state = "Frame"
  /\ Advance("FrameHeader", 1, waiting_for)
  /\ LET data == SubSeq(buffer, 1, waiting_for)
         frames == Append(buffered_message, data)
     IN IF frame.command
        THEN Yield(ParseCommand(data)) /\ UNCHANGED buffered_message
        ELSE /\ buffered_message' = frames
             /\ IF frame.more THEN GoOn ELSE Yield([kind |-> "message", frames |-> frames])
  /\ UNCHANGED <<frame, reader, connection>>

DecodeFrame ==
  /\ HasBytes /\ state = "Frame"
  /\ Advance("FrameHeader", 1, waiting_for)
  /\ LET data == SubSeq(buffer, 1, waiting_for)
         frames == Append(buffered_message, data)
     IN \/ /\ frame.command
           /\ Yield(ParseCommand(data))
           /\ UNCHANGED buffered_message
        \/ /\ ~frame.command /\ ~frame.more
           /\ Yield([kind |-> "message", frames |-> frames])
           /\ buffered_message' = <<>>
        \/ /\ ~frame.command /\ frame.more
           /\ buffered_message' = frames
           /\ GoOn
  /\ UNCHANGED <<frame, reader, connection>>

NeedMoreAfterShortRead ==
  /\ Decoding /\ Len(buffer) < waiting_for
  /\ IF poll # "decode"
     THEN poll' = "idle" /\ outcome' = IF buffer = <<>> THEN "clean" ELSE "error"
     ELSE poll' = "read" /\ UNCHANGED outcome
  /\ UNCHANGED <<decoder, buffer, reader, connection, yielded>>

NeedMoreForever ==
  /\ Decoding /\ Len(buffer) < waiting_for
  /\ poll' = "read"
  /\ UNCHANGED <<decoder, buffer, reader, connection, yielded, outcome>>

\* The decoder returns None: read more, or at the end of the transport finish
\* (decode_eof is decode, which returns None again on the same bytes).
NeedMore ==
  /\ Decoding /\ Len(buffer) < waiting_for
  /\ IF poll = "decode_end"
     THEN poll' = "idle" /\ outcome' = IF buffer = <<>> THEN "clean" ELSE "error"
     ELSE poll' = "read" /\ UNCHANGED outcome
  /\ UNCHANGED <<decoder, buffer, reader, connection, yielded>>

-----------------------------------------------------------------------------
(* poll_read_into_buffer *)

AtMost(m, n) == IF m < n THEN m ELSE n
AtLeast(m, n) == IF m < n THEN n ELSE m

bytes_needed == AtLeast(waiting_for - Len(buffer), 0)
read_size == AtMost(AtLeast(read_chunk_size, bytes_needed), max_size)

\* What decode asks the buffer to hold before it returns None.
reserve_to == IF waiting_for > 2 * max_size THEN waiting_for + max_size ELSE waiting_for

next_power_of_two(n) == CHOOSE p \in PowersOfTwo : n <= p /\ p < 2 * n

\* The chunk after a read of n bytes that may have filled the space asked for.
Grown(n) == IF n >= read_size /\ read_chunk_size < max_size
            THEN AtMost(2 * read_chunk_size, max_size)
            ELSE read_chunk_size

ShrunkNoFloor(n) == AtMost(2 * next_power_of_two(n), Grown(n))
\* Recovery from a burst: room above what was read, never above the chunk.
Shrunk(n) == AtMost(AtLeast(2 * next_power_of_two(n), 2 * initial_size), Grown(n))

Adapt(n) ==
  IF n < Grown(n) \div 2
  THEN IF short_reads + 1 = short_limit
       THEN read_chunk_size' = Shrunk(n) /\ short_reads' = 0
       ELSE read_chunk_size' = Grown(n) /\ short_reads' = short_reads + 1
  ELSE read_chunk_size' = Grown(n) /\ short_reads' = 0

\* The transport fills n bytes of the space.
Read(n) ==
  /\ poll = "read"
  /\ n \in 1..AtMost(read_size, Len(wire))
  /\ buffer' = buffer \o SubSeq(wire, 1, n)
  /\ wire' = Drop(wire, n)
  /\ Adapt(n)
  /\ poll' = "decode_read"
  /\ UNCHANGED <<decoder, cut, script, yielded, outcome>>

ReadSome == \E n \in 1..max_size : Read(n)

\* A read of zero bytes is taken for the end of the transport, which it is
\* when nothing is left, or when no space was offered.
ReadEnd ==
  /\ poll = "read"
  /\ wire = <<>> \/ read_size = 0
  /\ poll' = "decode_end"
  /\ UNCHANGED <<decoder, buffer, reader, connection, yielded, outcome>>

ReadPending ==
  /\ poll = "read" /\ wire # <<>>
  /\ poll' = "idle"
  /\ UNCHANGED <<decoder, buffer, reader, connection, yielded, outcome>>

\* A reset connection may answer with an error instead of an end.
ReadFails ==
  /\ poll = "read" /\ cut
  /\ poll' = "idle"
  /\ outcome' = "error"
  /\ UNCHANGED <<decoder, buffer, reader, connection, yielded>>

\* The connection breaks: of the unread bytes only the first n arrive.
Cut ==
  /\ ~cut /\ outcome = "open"
  /\ \E n \in 0..(Len(wire) - 1) : wire' = SubSeq(wire, 1, n)
  /\ cut' = TRUE
  /\ UNCHANGED <<decoder, buffer, reader, poll, script, yielded, outcome>>

Decode == DecodeGreeting \/ DecodeHeader \/ DecodeLen \/ DecodeFrame \/ NeedMore

\* The stream is over.
Ended == outcome # "open" /\ UNCHANGED vars

Next == Poll \/ Decode \/ ReadSome \/ ReadEnd \/ ReadPending \/ ReadFails \/ Cut \/ Ended

Spec == Init /\ [][Next]_vars

\* The task is polled until the stream is over, and a transport that has bytes
\* does not answer Pending for ever: its waker fires when it can be read.
FairSpec == Spec /\ WF_vars(Poll \/ Decode) /\ SF_vars(ReadSome \/ ReadEnd)

-----------------------------------------------------------------------------
(* Properties *)

\* However the transport chops the bytes, poll_next yields exactly the items
\* the peer encoded, in order, multipart messages whole, and a stream that was
\* not cut ends with all of them.
YieldsWhatWasSent ==
  /\ IsPrefix(yielded, script)
  /\ outcome = "clean" /\ ~cut => yielded = script

\* A stream ends with an error only when the connection was cut or the next
\* item is one that this library does not accept (rejected lengths, truncated
\* command bodies): a frame's boundaries are never misjudged.
ErrorsAreReal ==
  outcome = "error" => cut \/ script[Len(yielded) + 1].kind = "raw"

\* The space prepared for a read is never empty (an empty read would be taken
\* for the end of the stream, framed.rs:122) and no buffer length that decode
\* reserves or the reader prepares exceeds isize::MAX ("preparing this slice
\* cannot overflow its length", framed.rs:66).
ReadsInRange ==
  poll = "read" => /\ read_size > 0
                   /\ Len(buffer) + read_size <= IsizeMax
                   /\ reserve_to <= IsizeMax

\* A chunk never shrinks in a read that filled the space, and never below
\* twice the initial size unless it was smaller (lib.rs:377).
ShrinksOnlyAfterShortReads ==
  [][read_chunk_size' < read_chunk_size =>
       /\ short_reads = short_limit - 1
       /\ read_chunk_size' >= 2 * initial_size
       /\ Len(buffer') - Len(buffer) < read_chunk_size']_vars

\* Every stream comes to an end.
StreamEnds == <>(outcome # "open")
=============================================================================
