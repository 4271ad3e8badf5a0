------------------------------ MODULE MCInput -------------------------------
(* Instances of the input side: note on (90), program change (C0), a sysex
   (F0, F7), a song pointer (F2) and the clock (F8), on one or two ports. *)
EXTENDS InputParser
=============================================================================
