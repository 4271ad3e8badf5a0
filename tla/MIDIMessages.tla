---------------------------- MODULE MIDIMessages -----------------------------
(***************************************************************************)
(* Bytes of the MIDI protocol as the driver tells them apart.              *)
(***************************************************************************)
EXTENDS Integers

Data == 0..127
Status == 128..255
ChannelStatus == 128..239             \* channel voice and mode messages
Byte == Data \cup Status

SysexStart == 240                     \* F0
SysexEnd == 247                       \* F7
RealTime == {248, 250, 251, 252, 254, 255}
Illegal == {244, 245, 249, 253}       \* the system messages MIDI leaves undefined

(* How many data bytes follow a status byte; -1 is the start of a sysex, an
   illegal status byte counts as a message of one byte. *)
MIDIDataBytes(status) ==
  CASE status \in 192..223 -> 1
    [] status \in ChannelStatus \ (192..223) -> 2
    [] status = SysexStart -> -1
    [] status \in {241, 243} -> 1
    [] status = 242 -> 2
    [] OTHER -> 0
=============================================================================
