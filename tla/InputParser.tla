----------------------------- MODULE InputParser -----------------------------
(***************************************************************************)
(* The input side: the device fills mReadBuf with mspackets of one to      *)
(* three MIDI bytes of one of its ports, ReadCallback hands the buffer to  *)
(* HandleInput, which cuts the bytes of each port into MIDI packets for    *)
(* the clients of that port's source, and DoRead starts the next read.     *)
(*                                                                         *)
(* A buffer is taken byte by byte.  Where an mspacket ends matters only if *)
(* the next one comes from another port, so that a step stands for a byte  *)
(* and, if its port is a new one, for the head of its mspacket.            *)
(***************************************************************************)
EXTENDS MIDIMessages, SequencesExt

CONSTANTS Devices,      \* the interfaces whose reads run on the I/O run loop
          NoDevice,     \* no buffer is being parsed
          Ports,        \* the MIDI IN ports of a device
          StatusBytes,  \* the status bytes the players of the ports use
          Intrusions,   \* what the input may break into, see MaySend
          MaxBytes,     \* bound: bytes sent to one port
          MaxFaults     \* bound: reads that fail

ASSUME InputParserAssumption ==
  /\ NoDevice \notin Devices
  /\ Ports \subseteq Nat
  /\ StatusBytes \subseteq Status
  /\ Intrusions \subseteq {"message", "sysex", "noise"}
  /\ MaxBytes \in Nat /\ MaxFaults \in Nat

VARIABLES
  readPending,        \* per device: a read of mReadBuf is outstanding
  parse,              \* per port, the static variables of HandleInput
  reading,            \* the device whose buffer HandleInput is working on
  prevInputPort,      \* its local variables; -1: no port yet
  preservedMsgCount,
  pktlist,            \* the packets added to the packet list so far
  received,           \* history: packets each source passed to its clients
  sent,               \* history: bytes that reached each port, with the
                      \* status byte of a running status message filled in
  due,                \* data bytes the port's current message still needs;
                      \* -1 inside a sysex
  running,            \* the status byte a player may leave out, or 0
  sysexBytes,         \* bytes of the current sysex, modulo three
  faults              \* history: reads that failed

locals == <<reading, prevInputPort, preservedMsgCount, pktlist>>
player == <<sent, due, running, sysexBytes>>
vars == <<readPending, parse, locals, received, player, faults>>

ParseState == [inSysex : BOOLEAN, runningStatus : Status, remaining : Int,
               message : Seq(Byte)]

TypeOK ==
  /\ readPending \in [Devices -> BOOLEAN]
  /\ parse \in [Ports -> ParseState]
  /\ reading \in Devices \cup {NoDevice}
  /\ prevInputPort \in Ports \cup {-1}
  /\ preservedMsgCount \in Int
  /\ pktlist \in Seq(Seq(Byte))
  /\ received \in [Devices -> [Ports -> Seq(Seq(Byte))]]
  /\ sent \in [Devices -> [Ports -> Seq(Byte)]]
  /\ due \in [Devices -> [Ports -> -1..2]]
  /\ running \in [Devices -> [Ports -> 0..239]]
  /\ sysexBytes \in [Devices -> [Ports -> 0..2]]
  /\ faults \in 0..MaxFaults

PerPort(x) == [d \in Devices |-> [p \in Ports |-> x]]

Init ==
  /\ readPending = [d \in Devices |-> TRUE]
  /\ parse = [p \in Ports |-> [inSysex |-> FALSE, runningStatus |-> 144,
                               remaining |-> 0, message |-> <<>>]]
  /\ reading = NoDevice
  /\ prevInputPort = -1
  /\ preservedMsgCount = 0
  /\ pktlist = <<>>
  /\ received = PerPort(<<>>)
  /\ sent = PerPort(<<>>)
  /\ due = PerPort(0)
  /\ running = PerPort(0)
  /\ sysexBytes = PerPort(0)
  /\ faults = 0

-----------------------------------------------------------------------------
(* One byte of a port.  s is the state of the port with the two local
   variables a byte can change, preserved and pktlist. *)
WithLocals(s, preserved, packets) ==
  [inSysex |-> s.inSysex, runningStatus |-> s.runningStatus,
   remaining |-> s.remaining, message |-> s.message,
   preserved |-> preserved, pktlist |-> packets]

Statics(s) == [inSysex |-> s.inSysex, runningStatus |-> s.runningStatus,
               remaining |-> s.remaining, message |-> s.message]

(* A status byte starts a message.  The count of a message it interrupts is
   kept if it is a message of its own; the message's bytes are not. *)
TakeStatus(s, b) ==
  LET count == MIDIDataBytes(b) IN
  [inSysex |-> b = SysexStart \/ (b # SysexEnd /\ s.inSysex),
   runningStatus |-> IF b < SysexStart THEN b ELSE s.runningStatus,
   remaining |-> count,
   message |-> <<b>>,
   preserved |-> IF s.remaining > 0 /\ count = 0 THEN s.remaining ELSE 0,
   pktlist |-> IF b = SysexEnd /\ s.message # <<>>
                 THEN Append(s.pktlist, s.message) ELSE s.pktlist]

(* Mutant: running status forgets that one data byte has come already. *)
TakeDataRunsOn(s, b) ==
  IF s.remaining > 0
    THEN [s EXCEPT !.remaining = @ - 1, !.message = Append(@, b)]
  ELSE IF s.inSysex
    THEN [s EXCEPT !.message = Append(@, b)]
  ELSE [s EXCEPT !.message = <<s.runningStatus, b>>,
                 !.remaining = MIDIDataBytes(s.runningStatus)]

(* A data byte belongs to the message under way, to a sysex, or else starts a
   message with running status. *)
TakeData(s, b) ==
  IF s.remaining > 0
    THEN [s EXCEPT !.remaining = @ - 1, !.message = Append(@, b)]
  ELSE IF s.inSysex
    THEN [s EXCEPT !.message = Append(@, b)]
  ELSE [s EXCEPT !.message = <<s.runningStatus, b>>,
                 !.remaining = MIDIDataBytes(s.runningStatus) - 1]

(* Mutant: only complete messages are shipped, however long they get. *)
ShipComplete(s) ==
  IF s.remaining = 0
    THEN [s EXCEPT !.pktlist = Append(@, s.message), !.message = <<>>]
    ELSE s

(* A message is shipped when it is complete or its three bytes are in use. *)
Ship(s) ==
  IF s.remaining = 0 \/ Len(s.message) >= 3
    THEN [s EXCEPT !.pktlist = Append(@, s.message), !.message = <<>>]
    ELSE s

Restore(s) == IF s.preserved # 0 THEN [s EXCEPT !.remaining = s.preserved] ELSE s

TakeByte(s, b) == Restore(Ship(IF b \in Status THEN TakeStatus(s, b) ELSE TakeData(s, b)))

-----------------------------------------------------------------------------
(* What reaches a port (external): messages of the bytes in StatusBytes, with
   running status or without, and at any time the next byte of the message
   under way.  A real-time byte comes between two messages or, in a sysex,
   between two mspackets; it may break into a message if "message" is in
   Intrusions.  Another port's bytes may follow an unfinished sysex in the
   same buffer if "sysex" is in Intrusions.  With "noise" any byte may come
   at any time, as from a cable that is plugged in while its other end
   plays. *)
WellFormed(d, p, b) ==
  /\ CASE b \in Data -> due[d][p] # 0 \/ running[d][p] # 0
       [] b = SysexEnd -> due[d][p] = -1
       [] b \in RealTime -> \/ due[d][p] = 0
                            \/ due[d][p] = -1 /\ sysexBytes[d][p] = 0
                            \/ "message" \in Intrusions
       [] OTHER -> due[d][p] = 0
  /\ p # prevInputPort /\ prevInputPort # -1 /\ "sysex" \notin Intrusions =>
       due[d][prevInputPort] # -1

MaySend(d, p, b) == "noise" \in Intrusions \/ WellFormed(d, p, b)

Send(d, p, b) ==
  LET starts == b \in Data /\ due[d][p] = 0 IN
  /\ MaySend(d, p, b)
  /\ sent' = [sent EXCEPT ![d][p] = IF starts THEN @ \o <<running[d][p], b>>
                                              ELSE Append(@, b)]
  /\ Len(sent'[d][p]) <= MaxBytes
  /\ due' = [due EXCEPT ![d][p] =
       IF b \in RealTime THEN @
       ELSE IF b \in Status THEN MIDIDataBytes(b)
       ELSE IF starts THEN MIDIDataBytes(running[d][p]) - 1
       ELSE IF @ = -1 THEN -1 ELSE @ - 1]
  /\ running' = [running EXCEPT ![d][p] =
       IF b \in Data \cup RealTime THEN @ ELSE IF b < SysexStart THEN b ELSE 0]
  /\ sysexBytes' = [sysexBytes EXCEPT ![d][p] =
       IF b = SysexStart THEN 1 ELSE IF due[d][p] = -1 /\ b \in Data THEN (@ + 1) % 3
       ELSE @]

-----------------------------------------------------------------------------
(* Mutant: the next read is started before the buffer is parsed. *)
ReadCallbackChainsFirst(d) ==
  /\ reading = NoDevice
  /\ readPending[d]
  /\ reading' = d
  /\ prevInputPort' = -1
  /\ preservedMsgCount' = 0
  /\ pktlist' = <<>>
  /\ UNCHANGED <<readPending, parse, received, player, faults>>

(* A read has completed: HandleInput starts on the buffer. *)
ReadCallback(d) ==
  /\ reading = NoDevice
  /\ readPending[d]
  /\ readPending' = [readPending EXCEPT ![d] = FALSE]
  /\ reading' = d
  /\ prevInputPort' = -1
  /\ preservedMsgCount' = 0
  /\ pktlist' = <<>>
  /\ UNCHANGED <<parse, received, player, faults>>

(* A read has failed or was aborted: no other one is started. *)
ReadFailed(d) ==
  /\ reading = NoDevice
  /\ readPending[d]
  /\ faults < MaxFaults
  /\ faults' = faults + 1
  /\ readPending' = [readPending EXCEPT ![d] = FALSE]
  /\ UNCHANGED <<parse, locals, received, player>>

(* The packets in pktlist go to the clients of the source of port p. *)
MIDIReceived(d, p) == received' = [received EXCEPT ![d][p] = @ \o pktlist]

(* Mutant: a change of port does not flush the packet list. *)
HandleByteNoFlush(d, p, b) ==
  LET switched == prevInputPort # -1 /\ p # prevInputPort
      before == IF switched THEN [parse EXCEPT ![prevInputPort].inSysex = FALSE] ELSE parse
      after == TakeByte(WithLocals(before[p], preservedMsgCount, pktlist), b)
  IN
  /\ reading = d
  /\ Send(d, p, b)
  /\ UNCHANGED received
  /\ parse' = [before EXCEPT ![p] = Statics(after)]
  /\ preservedMsgCount' = after.preserved
  /\ pktlist' = after.pktlist
  /\ prevInputPort' = p
  /\ UNCHANGED <<readPending, reading, faults>>

(* A byte of port p.  If the previous one came from another port, the packet
   list is flushed to that port's source and its sysex is given up. *)
HandleByte(d, p, b) ==
  LET switched == prevInputPort # -1 /\ p # prevInputPort
      before == IF switched THEN [parse EXCEPT ![prevInputPort].inSysex = FALSE] ELSE parse
      after == TakeByte(WithLocals(before[p], preservedMsgCount,
                                   IF switched THEN <<>> ELSE pktlist), b)
  IN
  /\ reading = d
  /\ Send(d, p, b)
  /\ IF switched THEN MIDIReceived(d, prevInputPort) ELSE UNCHANGED received
  /\ parse' = [before EXCEPT ![p] = Statics(after)]
  /\ preservedMsgCount' = after.preserved
  /\ pktlist' = after.pktlist
  /\ prevInputPort' = p
  /\ UNCHANGED <<readPending, reading, faults>>

(* Mutant: what is left in the packet list is not handed over. *)
EndOfBufferKeeps(d) ==
  /\ reading = d
  /\ reading' = NoDevice
  /\ readPending' = [readPending EXCEPT ![d] = TRUE]
  /\ UNCHANGED <<parse, prevInputPort, preservedMsgCount, pktlist, received,
                 player, faults>>

(* A null mspacket or the end of the buffer; DoRead chains another read,
   which can be refused. *)
EndOfBuffer(d) ==
  /\ reading = d
  /\ reading' = NoDevice
  /\ IF pktlist # <<>> /\ prevInputPort # -1 THEN MIDIReceived(d, prevInputPort)
                                            ELSE UNCHANGED received
  /\ \/ readPending' = [readPending EXCEPT ![d] = TRUE] /\ UNCHANGED faults
     \/ faults < MaxFaults /\ faults' = faults + 1 /\ UNCHANGED readPending
  /\ UNCHANGED <<parse, prevInputPort, preservedMsgCount, pktlist, player>>

(* The values of a port's data bytes tell them apart by their position. *)
NextData(d, p) == Len(sent[d][p]) % 128

Next == \E d \in Devices :
  \/ ReadCallback(d)
  \/ ReadFailed(d)
  \/ \E p \in Ports, b \in StatusBytes : HandleByte(d, p, b)
  \/ \E p \in Ports : HandleByte(d, p, NextData(d, p))
  \/ EndOfBuffer(d)

Spec == Init /\ [][Next]_vars

-----------------------------------------------------------------------------
(* The bytes that the clients of a source have received. *)
Received(d, p) == FlattenSeq(received[d][p])

(* Every source passes on the bytes of its own port, in order and without
   loss: those that the clients do not have yet are in the packet list being
   filled or are the beginning of a message or of three bytes of a sysex. *)
BytesKept == \A d \in Devices, p \in Ports :
  sent[d][p] = Received(d, p)
                 \o (IF reading = d /\ prevInputPort = p THEN FlattenSeq(pktlist) ELSE <<>>)
                 \o parse[p].message

(* When a buffer has been parsed, the clients have everything up to the last
   message that is complete: no message waits for a later buffer. *)
CompleteIsDelivered == \A d \in Devices, p \in Ports :
  reading # d /\ due[d][p] = 0 => Received(d, p) = sent[d][p]

(* A MIDI packet holds one whole message, or at most three bytes of a sysex:
   a message split over two mspackets, buffers or reads is put together. *)
Whole(m) ==
  IF m[1] \in Status \ {SysexStart}
    THEN Len(m) = 1 + MIDIDataBytes(m[1]) /\ \A i \in 2..Len(m) : m[i] \in Data
    ELSE Len(m) \in 1..3 /\ \A i \in 2..Len(m) : m[i] \in Data

WholeMessages == \A d \in Devices, p \in Ports :
  \A i \in 1..Len(received[d][p]) : Whole(received[d][p][i])

(* mReadBuf is not handed to a new read while HandleInput works on it. *)
BufferNotShared == \A d \in Devices : reading = d => ~readPending[d]

(* A real-time byte "can occur within another message": without the real-time
   bytes the clients see what reached the port. *)
WithoutRealTime(s) == SelectSeq(s, LAMBDA b : b \notin RealTime)

RealTimeTransparent == \A d \in Devices, p \in Ports :
  IsPrefix(WithoutRealTime(Received(d, p)), WithoutRealTime(sent[d][p]))

(* Whatever bytes arrive, between two of them at most two bytes of a message
   are held, so that the next one fits into completeMessage. *)
NoOverrun ==
  /\ preservedMsgCount \in 0..2
  /\ \A p \in Ports : /\ Len(parse[p].message) <= 2
                      /\ parse[p].remaining \in -1..2
                      /\ parse[p].runningStatus < SysexStart

(* On well-formed input the parser knows where in a message each port is. *)
Synced == \A d \in Devices, p \in Ports :
  LET s == parse[p] IN
  /\ preservedMsgCount = 0
  /\ running[d][p] # 0 => s.runningStatus = running[d][p]
  /\ due[d][p] = 0 => s.remaining = 0 /\ s.message = <<>> /\ ~s.inSysex
  /\ due[d][p] > 0 => s.remaining = due[d][p] /\ s.message # <<>>
  /\ due[d][p] = -1 => /\ s.inSysex /\ s.remaining \in {-1, 0}
                       /\ Len(s.message) = IF s.remaining = 0 THEN 0 ELSE sysexBytes[d][p]
=============================================================================
