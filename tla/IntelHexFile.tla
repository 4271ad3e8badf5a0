---------------------------- MODULE IntelHexFile ----------------------------
(***************************************************************************)
(* IntelHexFile::ReadFirmwareFromHexFile.  A file is the sequence of its   *)
(* lines, and a line is told apart by what the reader does with it:        *)
(*   "comment"  its first character that is no space is #: skipped         *)
(*   "record"   a well formed record: appended                             *)
(*   "noColon"  it does not start with a colon (a blank line neither), and *)
(*   "badSum"   its checksum is wrong, and                                 *)
(*   "long"     it has more than MAX_INTEL_HEX_RECORD_LENGTH bytes: the    *)
(*              reader returns false                                       *)
(*   "short"    a field is missing or is no hexadecimal number: substr or  *)
(*              stoi throws, and nobody catches it                         *)
(* A file that cannot be opened has no lines: the stream is not tested.    *)
(***************************************************************************)
EXTENDS SequencesExt

Accepted == {"comment", "record"}

(* The position of the first line that ends the reading, or 0. *)
StopsAt(lines) ==
  SelectInSeq(lines, LAMBDA line : line.kind \notin Accepted)

(* What the reader returns, and the records it has appended by then. *)
ReadFirmwareFromHexFile(lines) ==
  LET stop == StopsAt(lines)
      read == IF stop = 0 THEN lines ELSE SubSeq(lines, 1, stop - 1)
      records == SelectSeq(read, LAMBDA line : line.kind = "record")
  IN  [result   |-> IF stop = 0 THEN "true"
                    ELSE IF lines[stop].kind = "short" THEN "throws"
                    ELSE "false",
       firmware |-> [i \in DOMAIN records |-> records[i].record]]
=============================================================================
