----------------------------- MODULE MCWritePath -----------------------------
(* Instances of the write path: a device with one OUT endpoint (MIDISPORT 1x1,
   Oxygen 8: port 0) and one with two (2x2: ports 0 and 1).  The buffers hold
   two or three words instead of 8 or 16, so that packets straddle them, that
   the null word just fits and that one buffer fills before the other. *)
EXTENDS WritePath
=============================================================================
