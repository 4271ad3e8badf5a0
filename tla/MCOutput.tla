------------------------------- MODULE MCOutput ------------------------------
(* Instances of PrepareOutput.  The buffers hold two mspackets, so
   that a packet straddles transfers. *)
EXTENDS OutputEncoder

(* Packets that end where a message ends, or that hold at least three bytes of
   a sysex they begin. *)
WholePackets == {
  <<144, 60, 64>>,                        \* note on
  <<192, 5, 248, 242, 1, 2>>,             \* program change, clock, song pointer
  <<240, 1, 2, 3, 4, 247>>,               \* a sysex
  <<240, 5, 6>>, <<7, 247>>,              \* one in two packets
  <<244, 9, 10, 246>> }                   \* an undefined message, tune request

(* A sysex in two packets, the first of which holds two bytes. *)
ShortPackets == { <<240, 126>>, <<127, 247>> }

(* What RoundTrip is proved under holds of the former and not of the latter. *)
ASSUME PacketsAreWhole ==
  /\ WholeWords(WholePackets) /\ NoStrayData(WholePackets)
  /\ ~WholeWords(ShortPackets)
=============================================================================
