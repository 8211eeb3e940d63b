------------------------------- MODULE MCCodec -------------------------------
(***************************************************************************)
(* Codec with bytes of three bits: lengths up to 7 are short, a long one   *)
(* takes two bytes, and chunks grow from 2 to 8 bytes.                     *)
(***************************************************************************)
EXTENDS Codec

Hello == [kind |-> "greeting", version |-> 3, mechanism |-> 1, as_server |-> FALSE]
Alien == [kind |-> "raw", bytes |-> <<7, 6, 3, 2, 0>>]          \* unknown mechanism
Ready(props) == [kind |-> "command", props |-> props]
Msg(frames) == [kind |-> "message", frames |-> frames]
Long == [i \in 1..17 |-> i % 8]                                 \* over 2 * max_size

MCReadyName == <<6>>

MCScripts == {
  \* a short and a long READY, then an empty-delimiter envelope
  <<Hello, Ready(<<1>> :> <<2>>), Msg(<< <<>>, <<5>> >>)>>,
  <<Hello, Ready((<<1>> :> <<2, 2>>) @@ (<<2, 3>> :> <<4>>)), Msg(<< <<>> >>)>>,
  \* a frame longer than the headroom threshold, followed by short ones
  <<Hello, Msg(<<Long, <<0>> >>), Msg(<< <<4>> >>)>>,
  \* bodies that look like headers
  <<Hello, Msg(<< <<1, 1>>, <<>>, <<7>> >>), Msg(<< <<2, 0, 7>> >>)>>,
  \* what other implementations may write: a length at the limit, a
  \* command body that ends early, another command, another mechanism
  <<Hello, [kind |-> "raw", bytes |-> <<2, 3, 6>>]>>,
  <<Hello, [kind |-> "raw", bytes |-> <<4, 4, 1, 6, 1, 1>>], Msg(<< <<1>> >>)>>,
  <<Hello, [kind |-> "raw", bytes |-> <<4, 2, 1, 5>>], Msg(<< <<1>> >>)>>,
  <<Alien>> }
=============================================================================
