-------------------------- MODULE InputParserProofs --------------------------
(* What holds of the input side: for any number of devices and ports and for
   whatever bytes arrive, the parser never holds more than it has room for;
   and for one device whose players keep to MIDI, no byte is lost. *)
EXTENDS InputParser, SequenceLemmas

(* The range of MIDIDataBytes, for the statuses that can be running too. *)
LEMMA DataBytesRange ==
  ASSUME NEW b \in Byte
  PROVE  /\ MIDIDataBytes(b) \in -1..2
         /\ b \in Status /\ b < SysexStart => MIDIDataBytes(b) \in 1..2
BY DEF MIDIDataBytes, ChannelStatus, Byte, Data, Status, SysexStart

(* A message with running status has one or two data bytes. *)
LEMMA RunningBytes ==
  ASSUME NEW b \in ChannelStatus
  PROVE  b \in Byte /\ b \in Status /\ MIDIDataBytes(b) \in 1..2
<1>1. b \in Byte /\ b \in Status
  BY DEF Byte, Status, ChannelStatus
<1>2. b < SysexStart
  BY DEF SysexStart, ChannelStatus
<1> QED
  BY <1>1, <1>2, DataBytesRange

(* A data byte is no status: none follow it. *)
LEMMA NoDataBytes ==
  ASSUME NEW n \in 0..127
  PROVE  MIDIDataBytes(n) = 0
<1>1. /\ n \notin 192..223 /\ n \notin ChannelStatus \ (192..223)
      /\ n # SysexStart /\ n \notin {241, 243} /\ n # 242
  BY DEF ChannelStatus, SysexStart
<1> QED
  BY <1>1 DEF MIDIDataBytes

(* A port's state with the locals, as HandleByte passes it to TakeByte. *)
Held == [inSysex : BOOLEAN, runningStatus : ChannelStatus, remaining : -1..2,
         message : Seq(Byte), preserved : 0..2, pktlist : Seq(Seq(Byte))]

(* The changes that the steps of TakeByte make to it. *)
LEMMA MessageHeld ==
  ASSUME NEW s \in Held, NEW m \in Seq(Byte), NEW n \in -1..2
  PROVE  /\ [s EXCEPT !.message = m, !.remaining = n] \in Held
         /\ [s EXCEPT !.message = m, !.remaining = n].message = m
<1>1. [s EXCEPT !.message = m, !.remaining = n] \in Held
  BY DEF Held
<1>2. [s EXCEPT !.message = m, !.remaining = n].message = m
  BY DEF Held
<1> QED
  BY <1>1, <1>2

(* Shipping. *)
LEMMA PacketHeld ==
  ASSUME NEW s \in Held, NEW m \in Seq(Byte), NEW q \in Seq(Seq(Byte))
  PROVE  /\ [s EXCEPT !.pktlist = q, !.message = m] \in Held
         /\ [s EXCEPT !.pktlist = q, !.message = m].message = m
<1>1. [s EXCEPT !.pktlist = q, !.message = m] \in Held
  BY DEF Held
<1>2. [s EXCEPT !.pktlist = q, !.message = m].message = m
  BY DEF Held
<1> QED
  BY <1>1, <1>2

(* Restoring a count. *)
LEMMA CountHeld ==
  ASSUME NEW s \in Held, NEW n \in -1..2
  PROVE  /\ [s EXCEPT !.remaining = n] \in Held
         /\ [s EXCEPT !.remaining = n].message = s.message
<1>1. [s EXCEPT !.remaining = n] \in Held
  BY DEF Held
<1>2. [s EXCEPT !.remaining = n].message = s.message
  BY DEF Held
<1> QED
  BY <1>1, <1>2

(* A status byte leaves a message of one byte. *)
LEMMA StatusHeld ==
  ASSUME NEW s \in Held, NEW b \in Status
  PROVE  /\ TakeStatus(s, b) \in Held
         /\ TakeStatus(s, b).message = <<b>>
<1>1. MIDIDataBytes(b) \in -1..2 /\ b \in Byte
  BY DataBytesRange DEF Byte
<1>2. Append(s.pktlist, s.message) \in Seq(Seq(Byte)) /\ <<b>> \in Seq(Byte)
  BY <1>1, AppendProperties DEF Held
<1>3. (IF b < SysexStart THEN b ELSE s.runningStatus) \in ChannelStatus
  BY DEF Held, ChannelStatus, Status, SysexStart
<1>4. (b = SysexStart \/ (b # SysexEnd /\ s.inSysex)) \in BOOLEAN
  OBVIOUS
<1>5. (IF s.remaining > 0 /\ MIDIDataBytes(b) = 0 THEN s.remaining ELSE 0) \in 0..2
  BY DEF Held
<1> QED
  BY <1>1, <1>2, <1>3, <1>4, <1>5 DEF TakeStatus, Held

(* A data byte makes a message of at most three. *)
LEMMA DataHeld ==
  ASSUME NEW s \in Held, NEW b \in Data, Len(s.message) <= 2
  PROVE  /\ TakeData(s, b) \in Held
         /\ Len(TakeData(s, b).message) <= 3
<1>1. b \in Byte /\ s.message \in Seq(Byte) /\ s.runningStatus \in ChannelStatus
  BY DEF Held, Byte
<1>2. Append(s.message, b) \in Seq(Byte) /\ Len(Append(s.message, b)) <= 3
  BY <1>1, AppendProperties
<1>3. <<s.runningStatus, b>> \in Seq(Byte) /\ Len(<<s.runningStatus, b>>) = 2
  BY <1>1, RunningBytes
<1>4. MIDIDataBytes(s.runningStatus) - 1 \in -1..2
  <2>1. MIDIDataBytes(s.runningStatus) \in 1..2
    BY <1>1, RunningBytes
  <2> QED
    BY <2>1
<1>5. CASE s.remaining > 0
  <2>1. s.remaining - 1 \in -1..2
    BY <1>5 DEF Held
  <2> QED
    BY <1>2, <1>5, <2>1 DEF TakeData, Held
<1>6. CASE ~(s.remaining > 0) /\ s.inSysex
  BY <1>2, <1>6 DEF TakeData, Held
<1>7. CASE ~(s.remaining > 0) /\ ~s.inSysex
  <2> DEFINE m == <<s.runningStatus, b>>
             n == MIDIDataBytes(s.runningStatus) - 1
  <2>1. TakeData(s, b) = [s EXCEPT !.message = m, !.remaining = n]
    BY <1>7 DEF TakeData
  <2>2. Len(m) <= 3 /\ m \in Seq(Byte) /\ n \in -1..2
    BY <1>3, <1>4
  <2> HIDE DEF m, n
  <2>3. /\ [s EXCEPT !.message = m, !.remaining = n] \in Held
        /\ [s EXCEPT !.message = m, !.remaining = n].message = m
    BY <2>2, MessageHeld
  <2>4. TakeData(s, b) \in Held /\ TakeData(s, b).message = m
    BY <2>1, <2>3, Zenon
  <2> QED
    BY <2>2, <2>4
<1> QED
  BY <1>5, <1>6, <1>7

(* After shipping at most two bytes are held. *)
LEMMA ShipHeld ==
  ASSUME NEW s \in Held, Len(s.message) <= 3
  PROVE  Ship(s) \in Held /\ Len(Ship(s).message) <= 2
<1>1. Append(s.pktlist, s.message) \in Seq(Seq(Byte)) /\ <<>> \in Seq(Byte) /\ Len(<<>>) = 0
  BY AppendProperties DEF Held
<1>2. Len(s.message) \in Nat
  BY DEF Held
<1>3. CASE s.remaining = 0 \/ Len(s.message) >= 3
  <2> DEFINE m == <<>>
             q == Append(s.pktlist, s.message)
  <2>1. Ship(s) = [s EXCEPT !.pktlist = q, !.message = m]
    BY <1>3 DEF Ship
  <2>2. q \in Seq(Seq(Byte)) /\ m \in Seq(Byte)
    BY <1>1
  <2> HIDE DEF m, q
  <2>3. /\ [s EXCEPT !.pktlist = q, !.message = m] \in Held
        /\ [s EXCEPT !.pktlist = q, !.message = m].message = m
    BY <2>2, PacketHeld
  <2>4. Ship(s) \in Held /\ Ship(s).message = <<>>
    BY <2>1, <2>3, Zenon DEF m
  <2> QED
    BY <1>1, <2>4
<1>4. CASE ~(s.remaining = 0 \/ Len(s.message) >= 3)
  BY <1>2, <1>4 DEF Ship
<1> QED
  BY <1>3, <1>4

(* A byte leaves the state in bounds. *)
LEMMA ByteHeld ==
  ASSUME NEW s \in Held, Len(s.message) <= 2, NEW b \in Byte
  PROVE  TakeByte(s, b) \in Held /\ Len(TakeByte(s, b).message) <= 2
<1> DEFINE taken == IF b \in Status THEN TakeStatus(s, b) ELSE TakeData(s, b)
<1>1. taken \in Held /\ Len(taken.message) <= 3
  <2>1. CASE b \in Status
    <3>1. Len(<<b>>) <= 3
      OBVIOUS
    <3> QED
      BY <2>1, <3>1, StatusHeld
  <2>2. CASE b \notin Status
    BY <2>2, DataHeld DEF Byte
  <2> QED
    BY <2>1, <2>2
<1>2. TakeByte(s, b) = Restore(Ship(taken))
  BY DEF TakeByte
<1> HIDE DEF taken
<1>3. Ship(taken) \in Held /\ Len(Ship(taken).message) <= 2
  BY <1>1, ShipHeld
<1> DEFINE shipped == Ship(taken)
<1> HIDE DEF shipped
<1>4. shipped \in Held /\ Len(shipped.message) <= 2 /\ TakeByte(s, b) = Restore(shipped)
  BY <1>2, <1>3 DEF shipped
<1>5. CASE shipped.preserved = 0
  BY <1>4, <1>5 DEF Restore
<1>6. CASE shipped.preserved # 0
  <2>1. Restore(shipped) = [shipped EXCEPT !.remaining = shipped.preserved]
    BY <1>6 DEF Restore
  <2>2. shipped.preserved \in -1..2
    BY <1>4 DEF Held
  <2>3. Restore(shipped) \in Held /\ Restore(shipped).message = shipped.message
    BY <1>4, <2>1, <2>2, CountHeld
  <2> QED
    BY <1>4, <2>3
<1> QED
  BY <1>5, <1>6

-----------------------------------------------------------------------------
IInv == TypeOK /\ NoOverrun

(* The statuses below the system messages. *)
LEMMA ChannelRange ==
  ASSUME NEW x
  PROVE  x \in ChannelStatus <=> x \in Status /\ x < SysexStart
BY DEF ChannelStatus, Status, SysexStart

(* The state of a port in the invariant is what TakeByte takes and gives. *)
LEMMA PortHeld ==
  ASSUME IInv, NEW p \in Ports, NEW b \in BOOLEAN, NEW q \in Seq(Seq(Byte))
  PROVE  LET s == WithLocals([parse[p] EXCEPT !.inSysex = b], preservedMsgCount, q)
             u == WithLocals(parse[p], preservedMsgCount, q)
         IN  s \in Held /\ Len(s.message) <= 2 /\ u \in Held /\ Len(u.message) <= 2
<1>1. parse[p] \in ParseState /\ preservedMsgCount \in 0..2
  BY DEF IInv, TypeOK, NoOverrun
<1>2. /\ Len(parse[p].message) <= 2 /\ parse[p].remaining \in -1..2
      /\ parse[p].runningStatus \in ChannelStatus
  <2>1. parse[p].runningStatus \in Status
    BY <1>1 DEF ParseState
  <2>2. /\ Len(parse[p].message) <= 2 /\ parse[p].remaining \in -1..2
        /\ parse[p].runningStatus < SysexStart
    BY DEF IInv, NoOverrun
  <2> QED
    BY <2>1, <2>2, ChannelRange
<1> QED
  BY <1>1, <1>2 DEF WithLocals, Held, ParseState

(* What HandleByte stores of it is a port's state again. *)
LEMMA StaticsOfHeld ==
  ASSUME NEW s \in Held, Len(s.message) <= 2
  PROVE  /\ Statics(s) \in ParseState
         /\ Len(Statics(s).message) <= 2 /\ Statics(s).remaining \in -1..2
         /\ Statics(s).runningStatus < SysexStart
<1>1. s.runningStatus \in Status /\ s.runningStatus < SysexStart
  <2>1. s.runningStatus \in ChannelStatus
    BY DEF Held
  <2> QED
    BY <2>1, ChannelRange
<1> QED
  BY <1>1 DEF Statics, Held, ParseState

(* What a player sends keeps the types of the history and of the player. *)
LEMMA PlayerType ==
  ASSUME TypeOK, NEW d \in Devices, NEW p \in Ports, NEW b \in Byte, Send(d, p, b)
  PROVE  /\ sent' \in [Devices -> [Ports -> Seq(Byte)]]
         /\ due' \in [Devices -> [Ports -> -1..2]]
         /\ running' \in [Devices -> [Ports -> 0..239]]
         /\ sysexBytes' \in [Devices -> [Ports -> 0..2]]
<1>1. sent[d][p] \in Seq(Byte) /\ running[d][p] \in 0..239 /\ due[d][p] \in -1..2
      /\ sysexBytes[d][p] \in 0..2
  BY DEF TypeOK
<1>2. running[d][p] \in Byte
  BY <1>1 DEF Byte, Data, Status
<1>3. Append(sent[d][p], b) \in Seq(Byte) /\ sent[d][p] \o <<running[d][p], b>> \in Seq(Byte)
  BY <1>1, <1>2
<1>4. sent' \in [Devices -> [Ports -> Seq(Byte)]]
  BY <1>3 DEF Send, TypeOK
<1>5. due' \in [Devices -> [Ports -> -1..2]]
  <2> DEFINE n == IF b \in RealTime THEN due[d][p]
                  ELSE IF b \in Status THEN MIDIDataBytes(b)
                  ELSE IF b \in Data /\ due[d][p] = 0 THEN MIDIDataBytes(running[d][p]) - 1
                  ELSE IF due[d][p] = -1 THEN -1 ELSE due[d][p] - 1
  <2>1. MIDIDataBytes(b) \in -1..2
    BY DataBytesRange
  <2>2. MIDIDataBytes(running[d][p]) - 1 \in -1..2
    <3>1. CASE running[d][p] \in ChannelStatus
      <4>1. MIDIDataBytes(running[d][p]) \in 1..2
        BY <3>1, RunningBytes
      <4> QED
        BY <4>1
    <3>2. CASE running[d][p] \notin ChannelStatus
      <4>1. running[d][p] \in 0..127
        BY <1>1, <3>2 DEF ChannelStatus
      <4>2. MIDIDataBytes(running[d][p]) = 0
        BY <4>1, NoDataBytes
      <4> QED
        BY <4>2
    <3> QED
      BY <3>1, <3>2
  <2>3. due[d][p] # 0 /\ due[d][p] # -1 => due[d][p] - 1 \in -1..2
    BY <1>1
  <2>4. b \in Status \/ b \in Data
    BY DEF Byte
  <2>5. n \in -1..2
    BY <1>1, <2>1, <2>2, <2>3, <2>4
  <2>6. due' = [due EXCEPT ![d][p] = n]
    BY DEF Send
  <2> HIDE DEF n
  <2> QED
    BY <2>5, <2>6 DEF TypeOK
<1>6. running' \in [Devices -> [Ports -> 0..239]]
  <2> DEFINE n == IF b \in Data \cup RealTime THEN running[d][p]
                  ELSE IF b < SysexStart THEN b ELSE 0
  <2>1. n \in 0..239
    BY <1>1 DEF Byte, Data, Status, SysexStart
  <2>2. running' = [running EXCEPT ![d][p] = n]
    BY DEF Send
  <2> HIDE DEF n
  <2> QED
    BY <2>1, <2>2 DEF TypeOK
<1>7. sysexBytes' \in [Devices -> [Ports -> 0..2]]
  <2> DEFINE n == IF b = SysexStart THEN 1
                  ELSE IF due[d][p] = -1 /\ b \in Data THEN (sysexBytes[d][p] + 1) % 3
                  ELSE sysexBytes[d][p]
  <2>1. n \in 0..2
    BY <1>1
  <2>2. sysexBytes' = [sysexBytes EXCEPT ![d][p] = n]
    BY DEF Send
  <2> HIDE DEF n
  <2> QED
    BY <2>1, <2>2 DEF TypeOK
<1> QED
  BY <1>4, <1>5, <1>6, <1>7

(* What MIDIReceived passes on keeps the type of the history. *)
LEMMA ReceivedType ==
  ASSUME TypeOK, NEW d \in Devices, NEW p \in Ports, MIDIReceived(d, p)
  PROVE  received' \in [Devices -> [Ports -> Seq(Seq(Byte))]]
<1>1. received[d][p] \o pktlist \in Seq(Seq(Byte))
  BY ConcatProperties DEF TypeOK
<1> QED
  BY <1>1 DEF TypeOK, MIDIReceived

(* A byte of any value, at any time, keeps the bounds. *)
LEMMA ByteStep ==
  ASSUME IInv, NEW d \in Devices, NEW p \in Ports, NEW b \in Byte, HandleByte(d, p, b)
  PROVE  IInv'
<1> DEFINE switched == prevInputPort # -1 /\ p # prevInputPort
           before == IF switched THEN [parse EXCEPT ![prevInputPort].inSysex = FALSE] ELSE parse
           list == IF switched THEN <<>> ELSE pktlist
           held == WithLocals(before[p], preservedMsgCount, list)
           after == TakeByte(held, b)
<1>0. TypeOK /\ NoOverrun
  BY DEF IInv
<1>1. /\ parse' = [before EXCEPT ![p] = Statics(after)]
      /\ preservedMsgCount' = after.preserved
      /\ pktlist' = after.pktlist
      /\ prevInputPort' = p
      /\ UNCHANGED <<readPending, reading, faults>>
      /\ IF switched THEN MIDIReceived(d, prevInputPort) ELSE UNCHANGED received
      /\ Send(d, p, b)
  BY DEF HandleByte
<1>2. list \in Seq(Seq(Byte))
  BY <1>0 DEF TypeOK
<1>3. before[p] = parse[p]
  BY <1>0 DEF TypeOK
<1>4. held \in Held /\ Len(held.message) <= 2
  <2> HIDE DEF list, before
  <2>1. FALSE \in BOOLEAN
    OBVIOUS
  <2> QED
    BY <1>2, <1>3, <2>1, PortHeld
<1>5. after \in Held /\ Len(after.message) <= 2
  <2> HIDE DEF held
  <2> QED
    BY <1>4, ByteHeld
<1>6. /\ before \in [Ports -> ParseState]
      /\ \A q \in Ports : /\ before[q].message = parse[q].message
                          /\ before[q].remaining = parse[q].remaining
                          /\ before[q].runningStatus = parse[q].runningStatus
  <2>1. parse \in [Ports -> ParseState]
    BY <1>0 DEF TypeOK
  <2>2. CASE switched
    <3>1. prevInputPort \in Ports /\ before = [parse EXCEPT ![prevInputPort].inSysex = FALSE]
      BY <1>0, <2>2 DEF TypeOK
    <3>2. [parse[prevInputPort] EXCEPT !.inSysex = FALSE] \in ParseState
      BY <2>1, <3>1 DEF ParseState
    <3>3. before = [parse EXCEPT ![prevInputPort] = [parse[prevInputPort] EXCEPT !.inSysex = FALSE]]
      BY <3>1
    <3> HIDE DEF before
    <3>4. before \in [Ports -> ParseState]
      BY <2>1, <3>1, <3>2, <3>3
    <3>5. \A q \in Ports : before[q] = IF q = prevInputPort
                                         THEN [parse[q] EXCEPT !.inSysex = FALSE] ELSE parse[q]
      BY <2>1, <3>3
    <3>6. ASSUME NEW q \in Ports
          PROVE  /\ before[q].message = parse[q].message
                 /\ before[q].remaining = parse[q].remaining
                 /\ before[q].runningStatus = parse[q].runningStatus
      <4>1. parse[q] \in ParseState
        BY <2>1
      <4> QED
        BY <3>5, <4>1 DEF ParseState
    <3> QED
      BY <3>4, <3>6
  <2>3. CASE ~switched
    <3>1. before = parse
      BY <2>3
    <3> HIDE DEF before
    <3> QED
      BY <2>1, <3>1
  <2> QED
    BY <2>2, <2>3
<1>7. /\ Statics(after) \in ParseState
      /\ Len(Statics(after).message) <= 2 /\ Statics(after).remaining \in -1..2
      /\ Statics(after).runningStatus < SysexStart
  <2> HIDE DEF after
  <2> QED
    BY <1>5, StaticsOfHeld
<1>8. after.preserved \in 0..2 /\ after.pktlist \in Seq(Seq(Byte))
  <2> HIDE DEF after
  <2> QED
    BY <1>5 DEF Held
<1>9. received' \in [Devices -> [Ports -> Seq(Seq(Byte))]]
  <2>1. CASE switched
    BY <1>0, <1>1, <2>1, ReceivedType DEF TypeOK
  <2>2. CASE ~switched
    BY <1>0, <1>1, <2>2 DEF TypeOK
  <2> QED
    BY <2>1, <2>2
<1> DEFINE static == Statics(after)
<1> HIDE DEF before, after, static
<1>10. parse' = [before EXCEPT ![p] = static]
  BY <1>1 DEF static
<1>11. \A q \in Ports : parse'[q] = IF q = p THEN static ELSE before[q]
  BY <1>6, <1>10
<1>12. static \in ParseState /\ Len(static.message) <= 2 /\ static.remaining \in -1..2
       /\ static.runningStatus < SysexStart
  BY <1>7 DEF static
<1>13. NoOverrun'
  BY <1>0, <1>1, <1>6, <1>8, <1>11, <1>12 DEF NoOverrun
<1>14. parse' \in [Ports -> ParseState]
  BY <1>6, <1>10, <1>12
<1>15. TypeOK'
  <2>1. /\ sent' \in [Devices -> [Ports -> Seq(Byte)]]
        /\ due' \in [Devices -> [Ports -> -1..2]]
        /\ running' \in [Devices -> [Ports -> 0..239]]
        /\ sysexBytes' \in [Devices -> [Ports -> 0..2]]
    BY <1>0, <1>1, PlayerType
  <2>2. preservedMsgCount' \in Int /\ pktlist' \in Seq(Seq(Byte)) /\ prevInputPort' \in Ports \cup {-1}
    BY <1>1, <1>8
  <2>3. /\ readPending' \in [Devices -> BOOLEAN] /\ reading' \in Devices \cup {NoDevice}
        /\ faults' \in 0..MaxFaults
    BY <1>0, <1>1 DEF TypeOK
  <2> QED
    BY <1>9, <1>14, <2>1, <2>2, <2>3 DEF TypeOK
<1> QED
  BY <1>13, <1>15 DEF IInv

(* Every step keeps them. *)
LEMMA StepIInv == IInv /\ [Next]_vars => IInv'
<1> SUFFICES ASSUME IInv, [Next]_vars
             PROVE  IInv'
  OBVIOUS
<1>0. TypeOK /\ NoOverrun
  BY DEF IInv
<1>1. ASSUME NEW d \in Devices, ReadCallback(d)
      PROVE  IInv'
  BY <1>0, <1>1 DEF IInv, TypeOK, NoOverrun, ReadCallback, player
<1>2. ASSUME NEW d \in Devices, ReadFailed(d)
      PROVE  IInv'
  BY <1>0, <1>2, InputParserAssumption, SMTT(30) DEF IInv, TypeOK, NoOverrun, ReadFailed, player, locals
<1>3. ASSUME NEW d \in Devices, NEW p \in Ports, NEW b \in StatusBytes, HandleByte(d, p, b)
      PROVE  IInv'
  BY <1>3, ByteStep, InputParserAssumption DEF Byte
<1>4. ASSUME NEW d \in Devices, NEW p \in Ports, HandleByte(d, p, NextData(d, p))
      PROVE  IInv'
  <2>1. Len(sent[d][p]) \in Nat
    BY <1>0 DEF TypeOK
  <2>2. NextData(d, p) \in Byte
    <3> DEFINE n == Len(sent[d][p])
    <3> HIDE DEF n
    <3>1. n \in Nat
      BY <2>1 DEF n
    <3>2. n % 128 \in 0..127
      BY <3>1
    <3> QED
      BY <3>2 DEF NextData, Byte, Data, n
  <2> QED
    BY <1>4, <2>2, ByteStep
<1>5. ASSUME NEW d \in Devices, EndOfBuffer(d)
      PROVE  IInv'
  <2>1. received' \in [Devices -> [Ports -> Seq(Seq(Byte))]]
    <3>1. CASE MIDIReceived(d, prevInputPort) /\ prevInputPort \in Ports
      BY <1>0, <3>1, ReceivedType
    <3>2. CASE UNCHANGED received
      BY <1>0, <3>2 DEF TypeOK
    <3> QED
      BY <1>0, <1>5, <3>1, <3>2 DEF EndOfBuffer, TypeOK
  <2>2. faults' \in 0..MaxFaults /\ readPending' \in [Devices -> BOOLEAN]
    <3>1. faults \in 0..MaxFaults /\ readPending \in [Devices -> BOOLEAN] /\ MaxFaults \in Nat
      BY <1>0, InputParserAssumption DEF TypeOK
    <3>2. CASE readPending' = [readPending EXCEPT ![d] = TRUE] /\ UNCHANGED faults
      BY <3>1, <3>2
    <3>3. CASE faults < MaxFaults /\ faults' = faults + 1 /\ UNCHANGED readPending
      BY <3>1, <3>3
    <3> QED
      BY <1>5, <3>2, <3>3 DEF EndOfBuffer
  <2>3. UNCHANGED <<parse, prevInputPort, preservedMsgCount, pktlist, player>> /\ reading' = NoDevice
    BY <1>5 DEF EndOfBuffer
  <2>4. TypeOK'
    BY <1>0, <2>1, <2>2, <2>3 DEF TypeOK, player
  <2> QED
    BY <1>0, <2>3, <2>4 DEF IInv, NoOverrun
<1>6. CASE UNCHANGED vars
  BY <1>0, <1>6 DEF IInv, TypeOK, NoOverrun, vars, locals, player
<1> QED
  BY <1>1, <1>2, <1>3, <1>4, <1>5, <1>6 DEF Next

(* They hold at the start. *)
LEMMA InitIInv == Init => IInv
<1> SUFFICES ASSUME Init
             PROVE  IInv
  OBVIOUS
<1>1. /\ received \in [Devices -> [Ports -> Seq(Seq(Byte))]]
      /\ sent \in [Devices -> [Ports -> Seq(Byte)]]
  BY DEF Init, PerPort
<1>2. parse \in [Ports -> ParseState]
  BY DEF Init, ParseState, Status
<1>3. TypeOK
  BY <1>1, <1>2, InputParserAssumption DEF TypeOK, Init, PerPort
<1>4. NoOverrun
  BY DEF NoOverrun, Init, SysexStart
<1> QED
  BY <1>3, <1>4 DEF IInv

(* The variables keep their types and the parser never overruns its buffer:
   NoOverrun for any devices, any ports and any stream of bytes. *)
THEOREM ParserInBounds == Spec => [](TypeOK /\ NoOverrun)
<1>1. IInv => TypeOK /\ NoOverrun
  BY DEF IInv
<1> QED
  BY <1>1, InitIInv, StepIInv, PTL DEF Spec

(* A read is only started again when its buffer has been parsed:
   BufferNotShared for any devices, ports and stream of bytes. *)
THEOREM ReadAfterParse == Spec => []BufferNotShared
<1>1. Init => BufferNotShared
  BY InputParserAssumption DEF Init, BufferNotShared
<1>2. TypeOK /\ BufferNotShared /\ [Next]_vars => BufferNotShared'
  <2> SUFFICES ASSUME TypeOK, BufferNotShared, [Next]_vars
               PROVE  BufferNotShared'
    OBVIOUS
  <2> USE InputParserAssumption DEF TypeOK, BufferNotShared
  <2>1. ASSUME NEW d \in Devices, ReadCallback(d) \/ ReadFailed(d)
        PROVE  BufferNotShared'
    BY <2>1 DEF ReadCallback, ReadFailed, locals
  <2>2. ASSUME NEW d \in Devices, NEW p, NEW b, HandleByte(d, p, b)
        PROVE  BufferNotShared'
    BY <2>2 DEF HandleByte
  <2>3. ASSUME NEW d \in Devices, EndOfBuffer(d)
        PROVE  BufferNotShared'
    BY <2>3 DEF EndOfBuffer
  <2>4. CASE UNCHANGED vars
    BY <2>4 DEF vars, locals
  <2> QED
    BY <2>1, <2>2, <2>3, <2>4 DEF Next
<1> QED
  BY <1>1, <1>2, ParserInBounds, PTL DEF Spec

-----------------------------------------------------------------------------
(* What else holds on well-formed input: one device reads, because HandleInput
   keeps the state of a port in static variables that the devices share, and
   its players keep to MIDI. *)
Clean == Intrusions = {} /\ \A d, e \in Devices : d = e

(* m is what has come of a message that needs n more bytes. *)
Begun(m, n) ==
  /\ m # <<>> /\ m[1] \in Status \ {SysexStart}
  /\ Len(m) + n = 1 + MIDIDataBytes(m[1])
  /\ \A i \in 2..Len(m) : m[i] \in Data

(* m is what is held of a sysex. *)
SysexPart(m) ==
  /\ m # <<>> => m[1] \in Data \cup {SysexStart}
  /\ \A i \in 2..Len(m) : m[i] \in Data

(* The parser's state s of a port is where the player is in its message. *)
InPlace(s, due0, running0, sysex) ==
  /\ running0 \in ChannelStatus \cup {0}
  /\ running0 # 0 => s.runningStatus = running0
  /\ due0 = 0 => s.remaining = 0 /\ s.message = <<>> /\ ~s.inSysex
  /\ due0 > 0 => s.remaining = due0 /\ ~s.inSysex /\ Begun(s.message, due0)
  /\ due0 = -1 => /\ s.inSysex /\ s.remaining \in {-1, 0} /\ SysexPart(s.message)
                  /\ Len(s.message) = IF s.remaining = 0 THEN 0 ELSE sysex

(* Every packet of a list is a whole message. *)
AllWhole(q) == \A i \in 1..Len(q) : Whole(q[i])

(* The parser is in place at every port and ships whole messages only. *)
PlaceInv ==
  /\ preservedMsgCount = 0
  /\ \A d \in Devices, p \in Ports :
       InPlace(parse[p], due[d][p], running[d][p], sysexBytes[d][p])
  /\ AllWhole(pktlist) /\ WholeMessages

(* What the steps of TakeByte do to each field. *)
LEMMA ShipFields ==
  ASSUME NEW s \in Held
  PROVE  /\ Ship(s).inSysex = s.inSysex /\ Ship(s).runningStatus = s.runningStatus
         /\ Ship(s).remaining = s.remaining /\ Ship(s).preserved = s.preserved
         /\ s.remaining = 0 \/ Len(s.message) >= 3 =>
              Ship(s).message = <<>> /\ Ship(s).pktlist = Add(s.pktlist, s.message)
         /\ ~(s.remaining = 0 \/ Len(s.message) >= 3) =>
              Ship(s).message = s.message /\ Ship(s).pktlist = s.pktlist
<1>1. PICK q : q = Add(s.pktlist, s.message)
  OBVIOUS
<1>2. CASE s.remaining = 0 \/ Len(s.message) >= 3
  <2>1. Ship(s) = [s EXCEPT !.pktlist = q, !.message = <<>>]
    BY <1>1, <1>2 DEF Ship, Add
  <2>2. /\ Ship(s).inSysex = s.inSysex /\ Ship(s).runningStatus = s.runningStatus
        /\ Ship(s).remaining = s.remaining /\ Ship(s).preserved = s.preserved
        /\ Ship(s).message = <<>> /\ Ship(s).pktlist = q
    BY <2>1 DEF Held
  <2> QED
    BY <1>1, <1>2, <2>2
<1>3. CASE ~(s.remaining = 0 \/ Len(s.message) >= 3)
  BY <1>3 DEF Ship
<1> QED
  BY <1>2, <1>3

(* A data byte. *)
LEMMA DataFields ==
  ASSUME NEW s \in Held, NEW b
  PROVE  /\ TakeData(s, b).inSysex = s.inSysex
         /\ TakeData(s, b).runningStatus = s.runningStatus
         /\ TakeData(s, b).preserved = s.preserved /\ TakeData(s, b).pktlist = s.pktlist
         /\ s.remaining > 0 => /\ TakeData(s, b).remaining = s.remaining - 1
                               /\ TakeData(s, b).message = Add(s.message, b)
         /\ ~(s.remaining > 0) /\ s.inSysex =>
              /\ TakeData(s, b).remaining = s.remaining
              /\ TakeData(s, b).message = Add(s.message, b)
         /\ ~(s.remaining > 0) /\ ~s.inSysex =>
              /\ TakeData(s, b).remaining = MIDIDataBytes(s.runningStatus) - 1
              /\ TakeData(s, b).message = <<s.runningStatus, b>>
<1>1. PICK m, c, n : /\ m = Add(s.message, b) /\ c = <<s.runningStatus, b>>
                     /\ n = MIDIDataBytes(s.runningStatus) - 1
  OBVIOUS
<1>2. CASE s.remaining > 0
  <2>1. TakeData(s, b) = [s EXCEPT !.remaining = s.remaining - 1, !.message = m]
    BY <1>1, <1>2 DEF TakeData, Add, Held
  <2>2. /\ TakeData(s, b).inSysex = s.inSysex
        /\ TakeData(s, b).runningStatus = s.runningStatus
        /\ TakeData(s, b).preserved = s.preserved /\ TakeData(s, b).pktlist = s.pktlist
        /\ TakeData(s, b).remaining = s.remaining - 1 /\ TakeData(s, b).message = m
    BY <2>1 DEF Held
  <2> QED
    BY <1>1, <1>2, <2>2
<1>3. CASE ~(s.remaining > 0) /\ s.inSysex
  <2>1. TakeData(s, b) = [s EXCEPT !.message = m]
    BY <1>1, <1>3 DEF TakeData, Add, Held
  <2>2. /\ TakeData(s, b).inSysex = s.inSysex
        /\ TakeData(s, b).runningStatus = s.runningStatus
        /\ TakeData(s, b).preserved = s.preserved /\ TakeData(s, b).pktlist = s.pktlist
        /\ TakeData(s, b).remaining = s.remaining /\ TakeData(s, b).message = m
    BY <2>1 DEF Held
  <2> QED
    BY <1>1, <1>3, <2>2
<1>4. CASE ~(s.remaining > 0) /\ ~s.inSysex
  <2>1. TakeData(s, b) = [s EXCEPT !.message = c, !.remaining = n]
    BY <1>1, <1>4 DEF TakeData
  <2>2. /\ TakeData(s, b).inSysex = s.inSysex
        /\ TakeData(s, b).runningStatus = s.runningStatus
        /\ TakeData(s, b).preserved = s.preserved /\ TakeData(s, b).pktlist = s.pktlist
        /\ TakeData(s, b).remaining = n /\ TakeData(s, b).message = c
    BY <2>1 DEF Held
  <2> QED
    BY <1>1, <1>4, <2>2
<1> QED
  BY <1>2, <1>3, <1>4

(* A status byte. *)
LEMMA StatusFields ==
  ASSUME NEW s \in Held, NEW b
  PROVE  /\ TakeStatus(s, b).inSysex = (b = SysexStart \/ (b # SysexEnd /\ s.inSysex))
         /\ TakeStatus(s, b).runningStatus = IF b < SysexStart THEN b ELSE s.runningStatus
         /\ TakeStatus(s, b).remaining = MIDIDataBytes(b)
         /\ TakeStatus(s, b).message = <<b>>
         /\ ~(s.remaining > 0 /\ MIDIDataBytes(b) = 0) => TakeStatus(s, b).preserved = 0
         /\ TakeStatus(s, b).pktlist = IF b = SysexEnd /\ s.message # <<>>
                                         THEN Add(s.pktlist, s.message) ELSE s.pktlist
BY DEF TakeStatus, Add

(* Nothing preserved, the byte is taken and shipped. *)
LEMMA TakenShipped ==
  ASSUME NEW s \in Held, Len(s.message) <= 2, NEW b \in Byte, s.preserved = 0,
         b \in Status => ~(s.remaining > 0 /\ MIDIDataBytes(b) = 0)
  PROVE  \E t \in Held : /\ Len(t.message) <= 3 /\ TakeByte(s, b) = Ship(t)
                         /\ TakeByte(s, b).preserved = 0
                         /\ b \in Status => t = TakeStatus(s, b)
                         /\ b \in Data => t = TakeData(s, b)
<1>1. PICK t : t = IF b \in Status THEN TakeStatus(s, b) ELSE TakeData(s, b)
  OBVIOUS
<1>2. b \in Status <=> b \notin Data
  BY DEF Byte, Data, Status
<1>3. t \in Held /\ Len(t.message) <= 3
  <2>1. CASE b \in Status
    <3>1. Len(<<b>>) <= 3
      OBVIOUS
    <3> QED
      BY <1>1, <2>1, <3>1, StatusHeld
  <2>2. CASE b \notin Status
    BY <1>1, <2>2, DataHeld DEF Byte
  <2> QED
    BY <2>1, <2>2
<1>4. t.preserved = 0
  BY <1>1, <1>2, StatusFields, DataFields
<1>5. Ship(t).preserved = 0
  BY <1>3, <1>4, ShipFields
<1>6. TakeByte(s, b) = Restore(Ship(t))
  BY <1>1 DEF TakeByte
<1>7. TakeByte(s, b) = Ship(t)
  BY <1>5, <1>6 DEF Restore
<1> QED
  BY <1>1, <1>2, <1>3, <1>5, <1>7

-----------------------------------------------------------------------------
(* What Send makes of a player's state and of the bytes sent. *)
NextDue(n, r, b) ==
  IF b \in RealTime THEN n
  ELSE IF b \in Status THEN MIDIDataBytes(b)
  ELSE IF b \in Data /\ n = 0 THEN MIDIDataBytes(r) - 1
  ELSE IF n = -1 THEN -1 ELSE n - 1

NextRunning(r, b) ==
  IF b \in Data \cup RealTime THEN r ELSE IF b < SysexStart THEN b ELSE 0

NextSysex(n, x, b) ==
  IF b = SysexStart THEN 1 ELSE IF n = -1 /\ b \in Data THEN (x + 1) % 3 ELSE x

NewBytes(n, r, b) == IF b \in Data /\ n = 0 THEN <<r, b>> ELSE <<b>>

(* What WellFormed asks of the byte b of a port. *)
Expected(n, r, x, b) ==
  CASE b \in Data -> n # 0 \/ r # 0
    [] b = SysexEnd -> n = -1
    [] b \in RealTime -> \/ n = 0
                         \/ n = -1 /\ x = 0
    [] OTHER -> n = 0

(* Shipping moves bytes and loses none; what it adds is whole if the message is. *)
LEMMA ShippedBytes ==
  ASSUME NEW t \in Held
  PROVE  Cat(FlattenSeq(Ship(t).pktlist), Ship(t).message)
           = Cat(FlattenSeq(t.pktlist), t.message)
<1>1. t.pktlist \in Seq(Seq(Byte)) /\ t.message \in Seq(Byte)
  BY DEF Held
<1>2. CASE t.remaining = 0 \/ Len(t.message) >= 3
  <2>1. Ship(t).message = <<>> /\ Ship(t).pktlist = Add(t.pktlist, t.message)
    BY <1>2, ShipFields
  <2>2. /\ FlattenSeq(t.pktlist) \in Seq(Byte)
        /\ FlattenSeq(Add(t.pktlist, t.message)) = Cat(FlattenSeq(t.pktlist), t.message)
    BY <1>1, FlattenAdd
  <2>3. Cat(FlattenSeq(t.pktlist), t.message) \in Seq(Byte)
    BY <1>1, <2>2, CatProperties
  <2>4. Cat(Cat(FlattenSeq(t.pktlist), t.message), <<>>) = Cat(FlattenSeq(t.pktlist), t.message)
    BY <1>1, <2>3, CatProperties
  <2> QED
    BY <2>1, <2>2, <2>4
<1>3. CASE ~(t.remaining = 0 \/ Len(t.message) >= 3)
  BY <1>3, ShipFields
<1> QED
  BY <1>2, <1>3

(* A whole message added to a list of whole messages. *)
LEMMA WholeAdded ==
  ASSUME NEW q \in Seq(Seq(Byte)), NEW m \in Seq(Byte), AllWhole(q), Whole(m)
  PROVE  AllWhole(Add(q, m))
<1>1. /\ Len(Add(q, m)) = Len(q) + 1 /\ Len(q) \in Nat
      /\ \A i \in 1..Len(q) : Add(q, m)[i] = q[i]
      /\ Add(q, m)[Len(q) + 1] = m
  BY AppendProperties DEF Add
<1>2. PICK r : r = Add(q, m)
  OBVIOUS
<1>3. ASSUME NEW i \in 1..Len(r)
      PROVE  Whole(r[i])
  <2>1. CASE i \in 1..Len(q)
    <3>1. r[i] = q[i] /\ Whole(q[i])
      BY <1>1, <1>2, <2>1 DEF AllWhole
    <3> QED
      BY <3>1
  <2>2. CASE i = Len(q) + 1
    <3>1. r[i] = m
      BY <1>1, <1>2, <2>2
    <3> QED
      BY <3>1
  <2> QED
    BY <1>1, <1>2, <2>1, <2>2
<1> QED
  BY <1>2, <1>3 DEF AllWhole

(* What is shipped is whole, if the message is. *)
LEMMA ShippedWhole ==
  ASSUME NEW t \in Held, AllWhole(t.pktlist),
         t.remaining = 0 \/ Len(t.message) >= 3 => Whole(t.message)
  PROVE  AllWhole(Ship(t).pktlist)
<1>1. t.pktlist \in Seq(Seq(Byte)) /\ t.message \in Seq(Byte)
  BY DEF Held
<1>2. CASE t.remaining = 0 \/ Len(t.message) >= 3
  <2>1. Ship(t).pktlist = Add(t.pktlist, t.message)
    BY <1>2, ShipFields
  <2>2. AllWhole(Add(t.pktlist, t.message))
    BY <1>1, <1>2, WholeAdded
  <2> QED
    BY <2>1, <2>2
<1>3. CASE ~(t.remaining = 0 \/ Len(t.message) >= 3)
  BY <1>3, ShipFields
<1> QED
  BY <1>2, <1>3

(* The classes of bytes do not overlap. *)
LEMMA ByteClasses ==
  ASSUME NEW b \in Byte
  PROVE  /\ b \in Data <=> b \notin Status
         /\ b \in RealTime => b \in Status /\ b > SysexEnd /\ MIDIDataBytes(b) = 0
         /\ b \in Data => b # SysexStart /\ b # SysexEnd /\ b \notin RealTime
         /\ MIDIDataBytes(SysexEnd) = 0 /\ MIDIDataBytes(SysexStart) = -1
         /\ SysexEnd \in Status /\ SysexStart \in Status /\ SysexEnd \notin RealTime
         /\ ~(SysexEnd < SysexStart) /\ SysexStart # SysexEnd
         /\ b \in Status /\ b # SysexStart => MIDIDataBytes(b) \in 0..2
         /\ b \in ChannelStatus <=> b \in Status /\ b < SysexStart
<1> USE DEF Byte, Data, Status, RealTime, SysexStart, SysexEnd, ChannelStatus
<1>1. b \in RealTime => MIDIDataBytes(b) = 0
  BY DEF MIDIDataBytes
<1>2. MIDIDataBytes(SysexEnd) = 0 /\ MIDIDataBytes(SysexStart) = -1
  BY DEF MIDIDataBytes
<1>3. b \in Status /\ b # SysexStart => MIDIDataBytes(b) \in 0..2
  BY DEF MIDIDataBytes
<1> QED
  BY <1>1, <1>2, <1>3

(* The bytes in Append. *)
LEMMA AddedByte ==
  ASSUME NEW m \in Seq(Byte), NEW b \in Byte
  PROVE  /\ Add(m, b) = Cat(m, <<b>>) /\ Add(m, b) \in Seq(Byte)
         /\ Len(Add(m, b)) = Len(m) + 1 /\ Add(m, b) # <<>>
         /\ \A i \in 1..Len(m) : Add(m, b)[i] = m[i]
         /\ Add(m, b)[Len(m) + 1] = b
<1>1. /\ Len(Add(m, b)) = Len(m) + 1 /\ Add(m, b) \in Seq(Byte)
      /\ \A i \in 1..Len(m) : Add(m, b)[i] = m[i]
      /\ Add(m, b)[Len(m) + 1] = b
  BY AppendProperties DEF Add
<1>2. Add(m, b) = Cat(m, <<b>>)
  BY AppendIsConcat DEF Add, Cat
<1>3. Len(m) + 1 # 0
  BY LenProperties
<1> QED
  BY <1>1, <1>2, <1>3

(* What a byte that the parser expects does to a port's state. *)
Followed(s, n, r, x, b, u) ==
  /\ u.preserved = 0
  /\ InPlace(u, NextDue(n, r, b), NextRunning(r, b), NextSysex(n, x, b))
  /\ AllWhole(u.pktlist)
  /\ Cat(FlattenSeq(u.pktlist), u.message)
       = Cat(Cat(FlattenSeq(s.pktlist), s.message), NewBytes(n, r, b))

(* The bytes of the messages, by what TakeStatus and TakeData leave. *)
LEMMA BytesTaken ==
  ASSUME NEW s \in Held, NEW m \in Seq(Byte), NEW t \in Held, t.pktlist = s.pktlist,
         t.message = Cat(s.message, m)
  PROVE  Cat(FlattenSeq(Ship(t).pktlist), Ship(t).message)
           = Cat(Cat(FlattenSeq(s.pktlist), s.message), m)
<1>1. s.pktlist \in Seq(Seq(Byte)) /\ s.message \in Seq(Byte)
  BY DEF Held
<1>2. FlattenSeq(s.pktlist) \in Seq(Byte)
  BY <1>1, FlattenAdd
<1>3. Cat(Cat(FlattenSeq(s.pktlist), s.message), m)
        = Cat(FlattenSeq(s.pktlist), Cat(s.message, m))
  BY <1>1, <1>2, CatProperties
<1> QED
  BY <1>3, ShippedBytes

(* A data byte of a message under way. *)
LEMMA DataOfMessage ==
  ASSUME NEW s \in Held, Len(s.message) <= 2, s.preserved = 0, AllWhole(s.pktlist),
         NEW n \in 1..2, NEW r, NEW x, InPlace(s, n, r, x), NEW b \in Data
  PROVE  Followed(s, n, r, x, b, TakeByte(s, b))
<1>1. b \in Byte /\ b \notin Status /\ b \notin RealTime
  BY ByteClasses DEF Byte
<1>2. /\ s.remaining = n /\ s.remaining > 0 /\ ~s.inSysex /\ Begun(s.message, n)
      /\ r # 0 => s.runningStatus = r
      /\ r \in ChannelStatus \cup {0}
  BY DEF InPlace
<1>3. s.message \in Seq(Byte) /\ Len(s.message) \in Nat
  BY DEF Held
<1>4. PICK t \in Held : /\ Len(t.message) <= 3 /\ TakeByte(s, b) = Ship(t)
                        /\ TakeByte(s, b).preserved = 0 /\ t = TakeData(s, b)
  BY <1>1, TakenShipped
<1>5. /\ t.inSysex = s.inSysex /\ t.runningStatus = s.runningStatus
      /\ t.pktlist = s.pktlist /\ t.remaining = n - 1 /\ t.message = Add(s.message, b)
  BY <1>2, <1>4, DataFields
<1>6. Begun(t.message, n - 1)
  <2>1. /\ Len(t.message) = Len(s.message) + 1 /\ t.message # <<>>
        /\ \A i \in 1..Len(s.message) : t.message[i] = s.message[i]
        /\ t.message[Len(s.message) + 1] = b
    <3>1. PICK a : a = Add(s.message, b)
      OBVIOUS
    <3>2. /\ Len(a) = Len(s.message) + 1 /\ a # <<>>
          /\ \A i \in 1..Len(s.message) : a[i] = s.message[i]
          /\ a[Len(s.message) + 1] = b
      BY <1>1, <1>3, <3>1, AddedByte, Zenon
    <3>3. t.message = a
      BY <1>5, <3>1
    <3> QED
      BY <3>2, <3>3
  <2>2. /\ s.message # <<>> /\ s.message[1] \in Status \ {SysexStart}
        /\ Len(s.message) + n = 1 + MIDIDataBytes(s.message[1])
        /\ \A i \in 2..Len(s.message) : s.message[i] \in Data
    BY <1>2 DEF Begun
  <2>3. 1 \in 1..Len(s.message)
    BY <1>3, <2>2
  <2>4. t.message[1] = s.message[1]
    BY <2>1, <2>3
  <2>5. Len(t.message) + (n - 1) = 1 + MIDIDataBytes(t.message[1])
    BY <1>3, <2>1, <2>2, <2>4
  <2>6. ASSUME NEW i \in 2..Len(t.message) PROVE t.message[i] \in Data
    <3>1. i \in 2..Len(s.message) \/ i = Len(s.message) + 1
      BY <1>3, <2>1
    <3> QED
      BY <1>3, <2>1, <2>2, <3>1
  <2> QED
    BY <2>1, <2>2, <2>4, <2>5, <2>6 DEF Begun
<1>7. /\ MIDIDataBytes(t.message[1]) \in 0..2
      /\ Len(t.message) + (n - 1) = 1 + MIDIDataBytes(t.message[1])
      /\ t.message[1] \in Status \ {SysexStart}
      /\ \A i \in 2..Len(t.message) : t.message[i] \in Data
  <2>1. /\ t.message[1] \in Status \ {SysexStart}
        /\ Len(t.message) + (n - 1) = 1 + MIDIDataBytes(t.message[1])
        /\ \A i \in 2..Len(t.message) : t.message[i] \in Data
    BY <1>6 DEF Begun
  <2>2. t.message[1] \in Byte
    BY <2>1 DEF Byte
  <2> QED
    BY <2>1, <2>2, ByteClasses
<1>8. Len(t.message) \in Nat /\ (t.remaining = 0 \/ Len(t.message) >= 3 => n - 1 = 0)
  <2>1. Len(t.message) \in Nat
    BY DEF Held
  <2>2. Len(t.message) >= 3 => n - 1 = 0
    BY <1>7, <2>1
  <2> QED
    BY <1>5, <2>1, <2>2
<1>9. n - 1 = 0 => Whole(t.message)
  BY <1>7, <1>8 DEF Whole
<1>10. AllWhole(Ship(t).pktlist)
  BY <1>5, <1>8, <1>9, ShippedWhole
<1>11. Cat(FlattenSeq(Ship(t).pktlist), Ship(t).message)
         = Cat(Cat(FlattenSeq(s.pktlist), s.message), <<b>>)
  <2>1. <<b>> \in Seq(Byte)
    BY <1>1
  <2>2. t.message = Cat(s.message, <<b>>)
    BY <1>1, <1>3, <1>5, AddedByte
  <2> QED
    BY <1>5, <2>1, <2>2, BytesTaken
<1>12. NextDue(n, r, b) = n - 1 /\ NextRunning(r, b) = r /\ NewBytes(n, r, b) = <<b>>
  BY <1>1 DEF NextDue, NextRunning, NewBytes
<1>13. InPlace(Ship(t), n - 1, r, NextSysex(n, x, b))
  <2>1. /\ Ship(t).inSysex = s.inSysex /\ Ship(t).runningStatus = s.runningStatus
        /\ Ship(t).remaining = n - 1
    BY <1>5, ShipFields
  <2>2. n - 1 = 0 => Ship(t).message = <<>>
    BY <1>5, ShipFields
  <2>3. n - 1 # 0 => Ship(t).message = t.message
    BY <1>8, ShipFields
  <2> QED
    BY <1>2, <1>6, <2>1, <2>2, <2>3 DEF InPlace
<1> QED
  BY <1>4, <1>10, <1>11, <1>12, <1>13 DEF Followed

(* A data byte of a sysex. *)
LEMMA DataOfSysex ==
  ASSUME NEW s \in Held, Len(s.message) <= 2, s.preserved = 0, AllWhole(s.pktlist),
         NEW r, NEW x \in 0..2, InPlace(s, -1, r, x), NEW b \in Data
  PROVE  Followed(s, -1, r, x, b, TakeByte(s, b))
<1>1. b \in Byte /\ b \notin Status /\ b \notin RealTime /\ b # SysexStart
  BY ByteClasses DEF Byte
<1>2. /\ s.inSysex /\ s.remaining \in {-1, 0} /\ ~(s.remaining > 0)
      /\ SysexPart(s.message) /\ Len(s.message) = IF s.remaining = 0 THEN 0 ELSE x
      /\ r # 0 => s.runningStatus = r
      /\ r \in ChannelStatus \cup {0}
  BY DEF InPlace
<1>3. s.message \in Seq(Byte) /\ Len(s.message) \in Nat
  BY DEF Held
<1>4. PICK t \in Held : /\ Len(t.message) <= 3 /\ TakeByte(s, b) = Ship(t)
                        /\ TakeByte(s, b).preserved = 0 /\ t = TakeData(s, b)
  BY <1>1, TakenShipped
<1>5. /\ t.inSysex = s.inSysex /\ t.runningStatus = s.runningStatus
      /\ t.pktlist = s.pktlist /\ t.remaining = s.remaining /\ t.message = Add(s.message, b)
  BY <1>2, <1>4, DataFields
<1>6. Len(t.message) = Len(s.message) + 1 /\ SysexPart(t.message)
      /\ t.message[1] \in Data \cup {SysexStart}
  <2>1. /\ Len(t.message) = Len(s.message) + 1 /\ t.message # <<>>
        /\ \A i \in 1..Len(s.message) : t.message[i] = s.message[i]
        /\ t.message[Len(s.message) + 1] = b
    <3>1. PICK a : a = Add(s.message, b)
      OBVIOUS
    <3>2. /\ Len(a) = Len(s.message) + 1 /\ a # <<>>
          /\ \A i \in 1..Len(s.message) : a[i] = s.message[i]
          /\ a[Len(s.message) + 1] = b
      BY <1>1, <1>3, <3>1, AddedByte, Zenon
    <3>3. t.message = a
      BY <1>5, <3>1
    <3> QED
      BY <3>2, <3>3
  <2>2. /\ s.message # <<>> => s.message[1] \in Data \cup {SysexStart}
        /\ \A i \in 2..Len(s.message) : s.message[i] \in Data
    BY <1>2 DEF SysexPart
  <2>3. t.message[1] \in Data \cup {SysexStart}
    <3>1. CASE Len(s.message) = 0
      BY <2>1, <3>1
    <3>2. CASE Len(s.message) # 0
      <4>1. 1 \in 1..Len(s.message) /\ s.message # <<>>
        BY <1>3, <3>2
      <4> QED
        BY <2>1, <2>2, <4>1
    <3> QED
      BY <3>1, <3>2
  <2>4. ASSUME NEW i \in 2..Len(t.message) PROVE t.message[i] \in Data
    <3>1. i \in 2..Len(s.message) \/ i = Len(s.message) + 1
      BY <1>3, <2>1
    <3> QED
      BY <1>3, <2>1, <2>2, <3>1
  <2> QED
    BY <2>1, <2>3, <2>4 DEF SysexPart
<1>7. Whole(t.message)
  <2>1. t.message[1] \notin Status \ {SysexStart}
    <3>1. PICK a : a = t.message[1]
      OBVIOUS
    <3>2. a \in Data \cup {SysexStart}
      BY <1>6, <3>1
    <3>3. a \notin Status \ {SysexStart}
      BY <3>2 DEF Data, Status
    <3> QED
      BY <3>1, <3>3
  <2>2. Len(t.message) \in 1..3
    BY <1>3, <1>4, <1>6
  <2> QED
    BY <1>6, <2>1, <2>2 DEF Whole, SysexPart
<1>10. AllWhole(Ship(t).pktlist)
  BY <1>5, <1>7, ShippedWhole
<1>11. Cat(FlattenSeq(Ship(t).pktlist), Ship(t).message)
         = Cat(Cat(FlattenSeq(s.pktlist), s.message), <<b>>)
  <2>1. <<b>> \in Seq(Byte)
    BY <1>1
  <2>2. t.message = Cat(s.message, <<b>>)
    BY <1>1, <1>3, <1>5, AddedByte
  <2> QED
    BY <1>5, <2>1, <2>2, BytesTaken
<1>12. /\ NextDue(-1, r, b) = -1 /\ NextRunning(r, b) = r /\ NewBytes(-1, r, b) = <<b>>
       /\ NextSysex(-1, x, b) = (x + 1) % 3
  BY <1>1 DEF NextDue, NextRunning, NewBytes, NextSysex
<1>13. InPlace(Ship(t), -1, r, (x + 1) % 3)
  <2>1. /\ Ship(t).inSysex = s.inSysex /\ Ship(t).runningStatus = s.runningStatus
        /\ Ship(t).remaining = s.remaining
    BY <1>5, ShipFields
  <2>2. CASE s.remaining = 0 \/ Len(t.message) >= 3
    <3>1. Ship(t).message = <<>>
      BY <1>5, <2>2, ShipFields
    <3>2. Len(<<>>) = 0 /\ SysexPart(<<>>)
      BY DEF SysexPart
    <3>3. s.remaining # 0 => (x + 1) % 3 = 0
      <4>1. s.remaining # 0 => x = 2
        BY <1>2, <1>3, <1>4, <1>6, <2>2
      <4> QED
        BY <4>1
    <3> QED
      BY <1>2, <2>1, <3>1, <3>2, <3>3 DEF InPlace
  <2>3. CASE ~(s.remaining = 0 \/ Len(t.message) >= 3)
    <3>1. Ship(t).message = t.message
      BY <1>5, <2>3, ShipFields
    <3>2. Len(t.message) = x + 1 /\ x + 1 < 3
      BY <1>2, <1>3, <1>6, <2>3
    <3>3. (x + 1) % 3 = x + 1
      <4>1. x = 0 \/ x = 1
        BY <3>2
      <4> QED
        BY <4>1
    <3> QED
      BY <1>2, <1>6, <2>1, <2>3, <3>1, <3>2, <3>3 DEF InPlace
  <2> QED
    BY <2>2, <2>3
<1> QED
  BY <1>4, <1>10, <1>11, <1>12, <1>13 DEF Followed

-----------------------------------------------------------------------------
(* The first data byte of a message with running status. *)
LEMMA DataOfRunning ==
  ASSUME NEW s \in Held, Len(s.message) <= 2, s.preserved = 0, AllWhole(s.pktlist),
         NEW r, r # 0, NEW x, InPlace(s, 0, r, x), NEW b \in Data
  PROVE  Followed(s, 0, r, x, b, TakeByte(s, b))
<1>1. b \in Byte /\ b \notin Status /\ b \notin RealTime
  BY ByteClasses DEF Byte
<1>2. /\ s.remaining = 0 /\ ~(s.remaining > 0) /\ ~s.inSysex /\ s.message = <<>>
      /\ s.runningStatus = r /\ r \in ChannelStatus
  BY DEF InPlace
<1>3. r \in Byte /\ r \in Status \ {SysexStart} /\ MIDIDataBytes(r) \in 1..2
  <2>1. SysexStart \notin ChannelStatus
    BY DEF SysexStart, ChannelStatus
  <2> QED
    BY <1>2, <2>1, RunningBytes
<1>4. PICK t \in Held : /\ TakeByte(s, b) = Ship(t)
                        /\ TakeByte(s, b).preserved = 0 /\ t = TakeData(s, b)
  BY <1>1, TakenShipped
<1>5. PICK m : m = <<r, b>>
  OBVIOUS
<1>6. /\ t.inSysex = s.inSysex /\ t.runningStatus = s.runningStatus
      /\ t.pktlist = s.pktlist /\ t.remaining = MIDIDataBytes(r) - 1 /\ t.message = m
  BY <1>2, <1>4, <1>5, DataFields
<1>7. /\ m \in Seq(Byte) /\ Len(m) = 2 /\ m # <<>> /\ m[1] = r
      /\ \A i \in 2..2 : m[i] \in Data
  BY <1>1, <1>3, <1>5
<1>8. MIDIDataBytes(r) = 1 => Whole(m)
  BY <1>3, <1>7 DEF Whole
<1>9. AllWhole(Ship(t).pktlist)
  <2>1. t.remaining = 0 \/ Len(t.message) >= 3 => MIDIDataBytes(r) = 1
    BY <1>3, <1>6, <1>7
  <2> QED
    BY <1>6, <1>8, <2>1, ShippedWhole
<1>10. Cat(FlattenSeq(Ship(t).pktlist), Ship(t).message)
         = Cat(Cat(FlattenSeq(s.pktlist), s.message), m)
  <2>1. Cat(<<>>, m) = m
    BY <1>7, CatProperties
  <2> QED
    BY <1>2, <1>6, <1>7, <2>1, BytesTaken
<1>11. /\ NextDue(0, r, b) = MIDIDataBytes(r) - 1 /\ NextRunning(r, b) = r
       /\ NewBytes(0, r, b) = m
  BY <1>1, <1>5 DEF NextDue, NextRunning, NewBytes
<1>12. InPlace(Ship(t), MIDIDataBytes(r) - 1, r, NextSysex(0, x, b))
  <2>1. /\ Ship(t).inSysex = s.inSysex /\ Ship(t).runningStatus = s.runningStatus
        /\ Ship(t).remaining = MIDIDataBytes(r) - 1
    BY <1>6, ShipFields
  <2>2. CASE MIDIDataBytes(r) = 1
    <3>1. Ship(t).message = <<>>
      BY <1>6, <2>2, ShipFields
    <3> QED
      BY <1>2, <2>1, <2>2, <3>1 DEF InPlace
  <2>3. CASE MIDIDataBytes(r) = 2
    <3>1. Ship(t).message = m
      <4>1. ~(t.remaining = 0 \/ Len(t.message) >= 3)
        BY <1>6, <1>7, <2>3
      <4> QED
        BY <1>6, <4>1, ShipFields
    <3>2. Begun(m, 1)
      BY <1>3, <1>7, <2>3 DEF Begun
    <3> QED
      BY <1>2, <2>1, <2>3, <3>1, <3>2 DEF InPlace
  <2> QED
    BY <1>3, <2>2, <2>3
<1> QED
  BY <1>4, <1>9, <1>10, <1>11, <1>12 DEF Followed

(* A message of one byte. *)
LEMMA OneByte ==
  ASSUME NEW b \in Byte
  PROVE  /\ <<b>> \in Seq(Byte) /\ Len(<<b>>) = 1 /\ <<b>> # <<>>
         /\ b \in Status /\ b # SysexStart => Begun(<<b>>, MIDIDataBytes(b))
         /\ b \in Status /\ b # SysexStart /\ MIDIDataBytes(b) = 0 => Whole(<<b>>)
         /\ SysexPart(<<SysexStart>>)
<1>1. PICK m : m = <<b>>
  OBVIOUS
<1>2. m \in Seq(Byte) /\ Len(m) = 1 /\ m # <<>> /\ m[1] = b /\ \A i \in 2..1 : m[i] \in Data
  BY <1>1
<1>3. b \in Status /\ b # SysexStart => MIDIDataBytes(b) \in 0..2
  BY ByteClasses
<1>4. b \in Status /\ b # SysexStart => Begun(m, MIDIDataBytes(b))
  BY <1>2, <1>3 DEF Begun
<1>5. b \in Status /\ b # SysexStart /\ MIDIDataBytes(b) = 0 => Whole(m)
  BY <1>2 DEF Whole
<1>6. SysexPart(<<SysexStart>>)
  BY DEF SysexPart
<1> QED
  BY <1>1, <1>2, <1>4, <1>5, <1>6

(* The end of a sysex: what is held of it becomes a packet. *)
LEMMA EndOfSysex ==
  ASSUME NEW s \in Held, Len(s.message) <= 2, s.preserved = 0, AllWhole(s.pktlist),
         NEW r, NEW x \in 0..2, InPlace(s, -1, r, x), NEW b, b = SysexEnd
  PROVE  Followed(s, -1, r, x, b, TakeByte(s, b))
<1>1. /\ b \in Byte /\ b \in Status /\ b \notin Data /\ b \notin RealTime /\ b # SysexStart
      /\ MIDIDataBytes(b) = 0 /\ ~(b < SysexStart)
  <2>1. b \in Byte
    BY DEF Byte, Data, Status, SysexEnd
  <2> QED
    BY <2>1, ByteClasses
<1>2. /\ s.inSysex /\ s.remaining \in {-1, 0} /\ ~(s.remaining > 0)
      /\ SysexPart(s.message)
  BY DEF InPlace
<1>3. s.message \in Seq(Byte) /\ Len(s.message) \in Nat /\ s.pktlist \in Seq(Seq(Byte))
  BY DEF Held
<1>4. PICK t \in Held : /\ TakeByte(s, b) = Ship(t)
                        /\ TakeByte(s, b).preserved = 0 /\ t = TakeStatus(s, b)
  BY <1>1, <1>2, TakenShipped
<1>5. PICK m : m = <<b>>
  OBVIOUS
<1>6. /\ ~t.inSysex /\ t.remaining = 0 /\ t.message = m
      /\ s.message # <<>> => t.pktlist = Add(s.pktlist, s.message)
      /\ s.message = <<>> => t.pktlist = s.pktlist
  <2>1. /\ t.inSysex = (b = SysexStart \/ (b # SysexEnd /\ s.inSysex))
        /\ t.remaining = MIDIDataBytes(b) /\ t.message = <<b>>
        /\ t.pktlist = IF b = SysexEnd /\ s.message # <<>>
                         THEN Add(s.pktlist, s.message) ELSE s.pktlist
    BY <1>4, StatusFields
  <2>2. ~t.inSysex
    BY <1>1, <2>1, Zenon
  <2>3. t.remaining = 0 /\ t.message = m
    BY <1>1, <1>5, <2>1
  <2> QED
    BY <2>1, <2>2, <2>3
<1>7. m \in Seq(Byte) /\ Whole(m)
  BY <1>1, <1>5, OneByte
<1>8. s.message # <<>> => Whole(s.message)
  <2> SUFFICES ASSUME s.message # <<>> PROVE Whole(s.message)
    OBVIOUS
  <2>1. Len(s.message) \in 1..3
    <3>1. Len(s.message) # 0
      BY <1>3, EmptySeq
    <3>2. PICK k \in Nat : k = Len(s.message)
      BY <1>3
    <3>3. k # 0 /\ k <= 2
      BY <3>1, <3>2
    <3>4. k \in 1..3
      BY <3>3
    <3> QED
      BY <3>2, <3>4
  <2>2. PICK a : a = s.message[1]
    OBVIOUS
  <2>3. a \in Data \cup {SysexStart} /\ \A i \in 2..Len(s.message) : s.message[i] \in Data
    BY <1>2, <2>2 DEF SysexPart
  <2>4. a \notin Status \ {SysexStart}
    <3>1. a \in Data \cup {SysexStart}
      BY <2>3
    <3> QED
      BY <3>1 DEF Data, Status
  <2> QED
    BY <2>1, <2>2, <2>3, <2>4 DEF Whole
<1>9. AllWhole(Ship(t).pktlist)
  <2>1. AllWhole(t.pktlist)
    BY <1>3, <1>6, <1>8, WholeAdded
  <2> QED
    BY <1>6, <1>7, <2>1, ShippedWhole
<1>10. Cat(FlattenSeq(Ship(t).pktlist), Ship(t).message)
         = Cat(Cat(FlattenSeq(s.pktlist), s.message), m)
  <2>1. FlattenSeq(t.pktlist) = Cat(FlattenSeq(s.pktlist), s.message)
    <3>1. CASE s.message # <<>>
      BY <1>3, <1>6, <3>1, FlattenAdd
    <3>2. CASE s.message = <<>>
      <4>1. FlattenSeq(s.pktlist) \in Seq(Byte)
        BY <1>3, FlattenAdd
      <4>2. Cat(FlattenSeq(s.pktlist), <<>>) = FlattenSeq(s.pktlist)
        BY <1>7, <4>1, CatProperties
      <4> QED
        BY <1>6, <3>2, <4>2
    <3> QED
      BY <3>1, <3>2
  <2>2. Cat(FlattenSeq(Ship(t).pktlist), Ship(t).message) = Cat(FlattenSeq(t.pktlist), m)
    BY <1>6, ShippedBytes
  <2> QED
    BY <2>1, <2>2
<1>11. NextDue(-1, r, b) = 0 /\ NextRunning(r, b) = 0 /\ NewBytes(-1, r, b) = m
  BY <1>1, <1>5 DEF NextDue, NextRunning, NewBytes
<1>12. InPlace(Ship(t), 0, 0, NextSysex(-1, x, b))
  <2>1. ~Ship(t).inSysex /\ Ship(t).remaining = 0 /\ Ship(t).message = <<>>
    BY <1>6, ShipFields
  <2> QED
    BY <2>1 DEF InPlace
<1> QED
  BY <1>4, <1>9, <1>10, <1>11, <1>12 DEF Followed

(* Any other status byte: nothing is held, and a message of one byte is shipped. *)
LEMMA StatusAlone ==
  ASSUME NEW s \in Held, s.preserved = 0, AllWhole(s.pktlist), s.message = <<>>,
         s.remaining \in {-1, 0}, NEW n, NEW r, NEW b \in Status, b # SysexEnd
  PROVE  LET u == TakeByte(s, b) IN
         /\ u.preserved = 0 /\ AllWhole(u.pktlist)
         /\ u.inSysex = (b = SysexStart \/ s.inSysex)
         /\ u.runningStatus = IF b < SysexStart THEN b ELSE s.runningStatus
         /\ u.remaining = MIDIDataBytes(b)
         /\ u.message = IF MIDIDataBytes(b) = 0 THEN <<>> ELSE <<b>>
         /\ Cat(FlattenSeq(u.pktlist), u.message)
              = Cat(Cat(FlattenSeq(s.pktlist), s.message), NewBytes(n, r, b))
<1>1. /\ b \in Byte /\ b \notin Data /\ (b # SysexStart => MIDIDataBytes(b) \in 0..2)
      /\ (b = SysexStart => MIDIDataBytes(b) = -1)
  <2>1. b \in Byte
    BY DEF Byte
  <2> QED
    BY <2>1, ByteClasses
<1>2. Len(s.message) <= 2 /\ ~(s.remaining > 0)
  BY DEF Held
<1>3. PICK t \in Held : /\ TakeByte(s, b) = Ship(t)
                        /\ TakeByte(s, b).preserved = 0 /\ t = TakeStatus(s, b)
  BY <1>1, <1>2, TakenShipped
<1>4. PICK m : m = <<b>>
  OBVIOUS
<1>5. /\ t.inSysex = (b = SysexStart \/ s.inSysex) /\ t.remaining = MIDIDataBytes(b)
      /\ t.runningStatus = IF b < SysexStart THEN b ELSE s.runningStatus
      /\ t.message = m /\ t.pktlist = s.pktlist
  BY <1>3, <1>4, StatusFields
<1>6. m \in Seq(Byte) /\ Len(m) = 1 /\ (b # SysexStart /\ MIDIDataBytes(b) = 0 => Whole(m))
  BY <1>1, <1>4, OneByte
<1>7. t.remaining = 0 \/ Len(t.message) >= 3 <=> MIDIDataBytes(b) = 0
  BY <1>5, <1>6
<1>8. AllWhole(Ship(t).pktlist)
  <2>1. MIDIDataBytes(b) = 0 => Whole(m)
    BY <1>1, <1>6
  <2>2. t.remaining = 0 \/ Len(t.message) >= 3 => Whole(t.message)
    BY <1>5, <1>7, <2>1
  <2>3. AllWhole(t.pktlist)
    BY <1>5
  <2> QED
    BY <2>2, <2>3, ShippedWhole
<1>9. Cat(FlattenSeq(Ship(t).pktlist), Ship(t).message)
         = Cat(Cat(FlattenSeq(s.pktlist), s.message), m)
  <2>1. Cat(<<>>, m) = m
    BY <1>6, CatProperties
  <2> QED
    BY <1>5, <1>6, <2>1, BytesTaken
<1>10. NewBytes(n, r, b) = m
  BY <1>1, <1>4 DEF NewBytes
<1>11. /\ Ship(t).inSysex = t.inSysex /\ Ship(t).runningStatus = t.runningStatus
       /\ Ship(t).remaining = t.remaining
       /\ Ship(t).message = IF MIDIDataBytes(b) = 0 THEN <<>> ELSE m
  BY <1>5, <1>7, ShipFields
<1> QED
  BY <1>3, <1>4, <1>5, <1>8, <1>9, <1>10, <1>11

(* A status byte between two messages, or a real-time byte in a sysex. *)
LEMMA StatusOfMessage ==
  ASSUME NEW s \in Held, Len(s.message) <= 2, s.preserved = 0, AllWhole(s.pktlist),
         NEW n \in {-1, 0}, NEW r, NEW x \in 0..2, InPlace(s, n, r, x),
         NEW b \in Status, b # SysexEnd, n = -1 => x = 0 /\ b \in RealTime
  PROVE  Followed(s, n, r, x, b, TakeByte(s, b))
<1> DEFINE u == TakeByte(s, b)
<1>1. /\ b \in Byte /\ b \notin Data /\ (b # SysexStart => MIDIDataBytes(b) \in 0..2)
      /\ (b = SysexStart => MIDIDataBytes(b) = -1 /\ b \notin RealTime /\ ~(b < SysexStart))
      /\ (b \in RealTime => MIDIDataBytes(b) = 0 /\ b # SysexStart /\ ~(b < SysexStart))
      /\ (b < SysexStart => b \in ChannelStatus)
  <2>1. b \in Byte
    BY DEF Byte
  <2>2. b \in RealTime => ~(b < SysexStart) /\ b # SysexStart
    BY DEF RealTime, SysexStart
  <2>3. ~(SysexStart < SysexStart) /\ SysexStart \notin RealTime
    BY DEF RealTime, SysexStart
  <2>4. b \in RealTime => MIDIDataBytes(b) = 0
    BY <2>1, ByteClasses
  <2>5. b < SysexStart => b \in ChannelStatus
    BY <2>1, ByteClasses
  <2>6. b \notin Data /\ (b # SysexStart => MIDIDataBytes(b) \in 0..2)
        /\ (b = SysexStart => MIDIDataBytes(b) = -1)
    BY <2>1, ByteClasses
  <2> QED
    BY <2>1, <2>2, <2>3, <2>4, <2>5, <2>6
<1>2. /\ s.remaining \in {-1, 0} /\ s.message = <<>>
      /\ r # 0 => s.runningStatus = r
      /\ r \in ChannelStatus \cup {0}
      /\ n = -1 <=> s.inSysex
  <2>1. Len(s.message) = 0 => s.message = <<>>
    BY DEF Held
  <2> QED
    BY <2>1 DEF InPlace
<1>3. /\ u.preserved = 0 /\ AllWhole(u.pktlist)
      /\ u.inSysex = (b = SysexStart \/ s.inSysex)
      /\ u.runningStatus = IF b < SysexStart THEN b ELSE s.runningStatus
      /\ u.remaining = MIDIDataBytes(b)
      /\ u.message = IF MIDIDataBytes(b) = 0 THEN <<>> ELSE <<b>>
      /\ Cat(FlattenSeq(u.pktlist), u.message)
              = Cat(Cat(FlattenSeq(s.pktlist), s.message), NewBytes(n, r, b))
  BY <1>2, StatusAlone
<1> HIDE DEF u
<1>4. CASE b \in RealTime
  <2>1. NextDue(n, r, b) = n /\ NextRunning(r, b) = r /\ NextSysex(n, x, b) = x
    BY <1>1, <1>4 DEF NextDue, NextRunning, NextSysex
  <2>2. Len(<<>>) = 0 /\ SysexPart(<<>>)
    BY DEF SysexPart
  <2>3. u.message = <<>> /\ u.remaining = 0 /\ u.inSysex = s.inSysex
        /\ u.runningStatus = s.runningStatus
    <3>1. MIDIDataBytes(b) = 0 /\ b # SysexStart /\ ~(b < SysexStart)
      BY <1>1, <1>4
    <3>2. s.inSysex \in BOOLEAN
      BY DEF Held
    <3>3. u.inSysex = s.inSysex
      BY <1>3, <3>1, <3>2, Zenon
    <3> QED
      BY <1>3, <3>1, <3>3
  <2>4. InPlace(u, n, r, x)
    BY <1>2, <2>2, <2>3 DEF InPlace
  <2> QED
    BY <1>3, <2>1, <2>4 DEF Followed, u
<1>5. CASE b = SysexStart
  <2>1. NextDue(n, r, b) = -1 /\ NextRunning(r, b) = 0 /\ NextSysex(n, x, b) = 1
    BY <1>1, <1>5 DEF NextDue, NextRunning, NextSysex
  <2>2. Len(<<b>>) = 1 /\ SysexPart(<<b>>)
    BY <1>1, <1>5, OneByte
  <2>3. u.message = <<b>> /\ u.remaining = -1 /\ u.inSysex
    BY <1>1, <1>3, <1>5
  <2>4. InPlace(u, -1, 0, 1)
    BY <2>2, <2>3 DEF InPlace
  <2> QED
    BY <1>3, <2>1, <2>4 DEF Followed, u
<1>6. CASE b \notin RealTime /\ b # SysexStart
  <2>1. NextDue(n, r, b) = MIDIDataBytes(b) /\ n = 0
        /\ NextRunning(r, b) = IF b < SysexStart THEN b ELSE 0
    BY <1>1, <1>6 DEF NextDue, NextRunning
  <2>2. u.inSysex = s.inSysex /\ ~s.inSysex
    <3>1. s.inSysex \in BOOLEAN
      BY DEF Held
    <3>2. u.inSysex = s.inSysex
      BY <1>3, <1>6, <3>1, Zenon
    <3> QED
      BY <1>2, <2>1, <3>2
  <2>3. Begun(<<b>>, MIDIDataBytes(b))
    BY <1>1, <1>6, OneByte
  <2>4. MIDIDataBytes(b) \in 0..2
    BY <1>1, <1>6
  <2>5. /\ NextRunning(r, b) \in ChannelStatus \cup {0}
        /\ NextRunning(r, b) # 0 => u.runningStatus = NextRunning(r, b)
    BY <1>1, <1>3, <2>1
  <2>6. InPlace(u, MIDIDataBytes(b), NextRunning(r, b), NextSysex(n, x, b))
    BY <1>3, <2>2, <2>3, <2>4, <2>5 DEF InPlace
  <2> QED
    BY <1>3, <2>1, <2>6 DEF Followed, u
<1> QED
  BY <1>4, <1>5, <1>6

(* Every byte that MIDI allows where a port's player is. *)
LEMMA ByteFollowed ==
  ASSUME NEW s \in Held, Len(s.message) <= 2, s.preserved = 0, AllWhole(s.pktlist),
         NEW n \in -1..2, NEW r, NEW x \in 0..2, InPlace(s, n, r, x),
         NEW b \in Byte, Expected(n, r, x, b)
  PROVE  Followed(s, n, r, x, b, TakeByte(s, b))
<1>1. /\ b \in Data <=> b \notin Status
      /\ b \in Data => b # SysexEnd /\ b \notin RealTime
      /\ SysexEnd \notin RealTime
  BY ByteClasses
<1>2. CASE b \in Data /\ n \in 1..2
  BY <1>2, DataOfMessage
<1>3. CASE b \in Data /\ n = -1
  BY <1>3, DataOfSysex
<1>4. CASE b \in Data /\ n = 0
  <2>1. r # 0
    <3>1. b \in Data
      BY <1>4
    <3>2. n # 0 \/ r # 0
      BY <1>1, <3>1 DEF Expected
    <3> QED
      BY <1>4, <3>2
  <2> QED
    BY <1>4, <2>1, DataOfRunning
<1>5. CASE b = SysexEnd
  <2>1. n = -1
    BY <1>1, <1>5 DEF Expected
  <2> QED
    BY <1>5, <2>1, EndOfSysex
<1>6. CASE b \in Status /\ b # SysexEnd
  <2>1. n \in {-1, 0} /\ (n = -1 => x = 0 /\ b \in RealTime)
    BY <1>1, <1>6 DEF Expected
  <2> QED
    BY <1>6, <2>1, StatusOfMessage
<1> QED
  BY <1>1, <1>2, <1>3, <1>4, <1>5, <1>6

-----------------------------------------------------------------------------
(* Bytes that the packet list holds for a port. *)
Pending(d, p) == IF reading = d /\ prevInputPort = p THEN FlattenSeq(pktlist) ELSE <<>>

(* BytesKept: the clients, the packet list and the message hold what was sent. *)
BytesAre == \A d \in Devices, p \in Ports :
  sent[d][p] = Cat(Cat(FlattenSeq(received[d][p]), Pending(d, p)), parse[p].message)

(* BytesKept, with concatenation by name. *)
LEMMA BytesByName == BytesKept <=> BytesAre
BY DEF BytesKept, BytesAre, Pending, Received, Cat

(* Two lists of whole messages. *)
LEMMA WholeCat ==
  ASSUME NEW q \in Seq(Seq(Byte)), NEW r \in Seq(Seq(Byte)), AllWhole(q), AllWhole(r)
  PROVE  AllWhole(Cat(q, r))
<1>1. PICK c : c = Cat(q, r)
  OBVIOUS
<1>2. /\ Len(c) = Len(q) + Len(r)
      /\ \A i \in 1..(Len(q) + Len(r)) : c[i] = IF i <= Len(q) THEN q[i] ELSE r[i - Len(q)]
  BY <1>1, ConcatProperties DEF Cat
<1>3. Len(q) \in Nat /\ Len(r) \in Nat
  OBVIOUS
<1>4. ASSUME NEW i \in 1..Len(c)
      PROVE  Whole(c[i])
  <2>1. CASE i <= Len(q)
    <3>1. i \in 1..Len(q) /\ c[i] = q[i]
      BY <1>2, <1>3, <2>1
    <3> QED
      BY <3>1 DEF AllWhole
  <2>2. CASE ~(i <= Len(q))
    <3>1. i - Len(q) \in 1..Len(r) /\ c[i] = r[i - Len(q)]
      BY <1>2, <1>3, <2>2
    <3> QED
      BY <3>1 DEF AllWhole
  <2> QED
    BY <2>1, <2>2
<1> QED
  BY <1>1, <1>4 DEF AllWhole

(* No packets, no bytes. *)
LEMMA FlattenEmpty == FlattenSeq(<<>>) = <<>>
BY DEF FlattenSeq

(* Send, in the terms of Followed. *)
LEMMA SentByte ==
  ASSUME Clean, TypeOK, NEW d \in Devices, NEW p \in Ports, NEW b \in Byte, Send(d, p, b)
  PROVE  /\ Expected(due[d][p], running[d][p], sysexBytes[d][p], b)
         /\ prevInputPort \in Ports /\ p # prevInputPort => due[d][prevInputPort] # -1
         /\ sent'[d][p] = Cat(sent[d][p], NewBytes(due[d][p], running[d][p], b))
         /\ due'[d][p] = NextDue(due[d][p], running[d][p], b)
         /\ running'[d][p] = NextRunning(running[d][p], b)
         /\ sysexBytes'[d][p] = NextSysex(due[d][p], sysexBytes[d][p], b)
         /\ \A q \in Ports \ {p} : /\ sent'[d][q] = sent[d][q] /\ due'[d][q] = due[d][q]
                                   /\ running'[d][q] = running[d][q]
                                   /\ sysexBytes'[d][q] = sysexBytes[d][q]
<1>1. WellFormed(d, p, b) /\ Intrusions = {} /\ Ports \subseteq Nat
  BY InputParserAssumption DEF Send, MaySend, Clean
<1>2. Expected(due[d][p], running[d][p], sysexBytes[d][p], b)
  BY <1>1 DEF WellFormed, Expected
<1>3. prevInputPort \in Ports /\ p # prevInputPort => due[d][prevInputPort] # -1
  BY <1>1 DEF WellFormed
<1>4. /\ sent'[d][p] = Cat(sent[d][p], NewBytes(due[d][p], running[d][p], b))
      /\ \A q \in Ports \ {p} : sent'[d][q] = sent[d][q]
  <2>1. sent[d][p] \in Seq(Byte)
    BY DEF TypeOK
  <2>2. PICK v : v = IF b \in Data /\ due[d][p] = 0 THEN sent[d][p] \o <<running[d][p], b>>
                     ELSE Append(sent[d][p], b)
    OBVIOUS
  <2>3. sent' = [sent EXCEPT ![d][p] = v]
    BY <2>2 DEF Send
  <2>4. sent'[d][p] = v /\ \A q \in Ports \ {p} : sent'[d][q] = sent[d][q]
    BY <2>3 DEF TypeOK
  <2>5. v = Cat(sent[d][p], NewBytes(due[d][p], running[d][p], b))
    <3>1. CASE b \in Data /\ due[d][p] = 0
      BY <2>2, <3>1 DEF Cat, NewBytes
    <3>2. CASE ~(b \in Data /\ due[d][p] = 0)
      <4>1. Append(sent[d][p], b) = sent[d][p] \o <<b>>
        BY <2>1, AppendIsConcat
      <4> QED
        BY <2>2, <3>2, <4>1 DEF Cat, NewBytes
    <3> QED
      BY <3>1, <3>2
  <2> QED
    BY <2>4, <2>5
<1>5. /\ due'[d][p] = NextDue(due[d][p], running[d][p], b)
      /\ \A q \in Ports \ {p} : due'[d][q] = due[d][q]
  <2>1. PICK v : v = NextDue(due[d][p], running[d][p], b)
    OBVIOUS
  <2>2. due' = [due EXCEPT ![d][p] = v]
    BY <2>1 DEF Send, NextDue
  <2> QED
    BY <2>1, <2>2 DEF TypeOK
<1>6. /\ running'[d][p] = NextRunning(running[d][p], b)
      /\ \A q \in Ports \ {p} : running'[d][q] = running[d][q]
  <2>1. PICK v : v = NextRunning(running[d][p], b)
    OBVIOUS
  <2>2. running' = [running EXCEPT ![d][p] = v]
    BY <2>1 DEF Send, NextRunning
  <2> QED
    BY <2>1, <2>2 DEF TypeOK
<1>7. /\ sysexBytes'[d][p] = NextSysex(due[d][p], sysexBytes[d][p], b)
      /\ \A q \in Ports \ {p} : sysexBytes'[d][q] = sysexBytes[d][q]
  <2>1. PICK v : v = NextSysex(due[d][p], sysexBytes[d][p], b)
    OBVIOUS
  <2>2. sysexBytes' = [sysexBytes EXCEPT ![d][p] = v]
    BY <2>1 DEF Send, NextSysex
  <2> QED
    BY <2>1, <2>2 DEF TypeOK
<1> QED
  BY <1>2, <1>3, <1>4, <1>5, <1>6, <1>7

(* Flushing the packet list to the source of the port it was filled for. *)
LEMMA Flushed ==
  ASSUME TypeOK, BytesAre, WholeMessages, AllWhole(pktlist),
         NEW d \in Devices, reading = d, NEW p \in Ports, p = prevInputPort,
         MIDIReceived(d, p)
  PROVE  /\ sent[d][p] = Cat(FlattenSeq(received'[d][p]), parse[p].message)
         /\ AllWhole(received'[d][p])
         /\ \A q \in Ports \ {p} : received'[d][q] = received[d][q]
<1>1. /\ received[d][p] \in Seq(Seq(Byte)) /\ pktlist \in Seq(Seq(Byte))
      /\ \A q \in Ports \ {p} : received'[d][q] = received[d][q]
      /\ received'[d][p] = Cat(received[d][p], pktlist)
  <2>1. received' = [received EXCEPT ![d][p] = Cat(received[d][p], pktlist)]
    BY DEF MIDIReceived, Cat
  <2> QED
    BY <2>1 DEF TypeOK
<1>2. FlattenSeq(received'[d][p]) = Cat(FlattenSeq(received[d][p]), FlattenSeq(pktlist))
  BY <1>1, FlattenCat
<1>3. Pending(d, p) = FlattenSeq(pktlist)
  BY DEF Pending
<1>4. AllWhole(received[d][p])
  BY DEF WholeMessages, AllWhole
<1>5. AllWhole(received'[d][p])
  BY <1>1, <1>4, WholeCat
<1> QED
  BY <1>1, <1>2, <1>3, <1>5 DEF BytesAre

(* Nothing is pending for the other ports. *)
LEMMA NotPending ==
  ASSUME TypeOK, BytesAre, NEW d \in Devices, NEW p \in Ports,
         reading # d \/ prevInputPort # p
  PROVE  sent[d][p] = Cat(FlattenSeq(received[d][p]), parse[p].message)
<1>1. Pending(d, p) = <<>>
  BY DEF Pending
<1>2. FlattenSeq(received[d][p]) \in Seq(Byte)
  <2>1. received[d][p] \in Seq(Seq(Byte)) /\ <<>> \in Seq(Byte)
    BY DEF TypeOK
  <2> QED
    BY <2>1, FlattenAdd
<1>3. Cat(FlattenSeq(received[d][p]), <<>>) = FlattenSeq(received[d][p])
  BY <1>2, CatProperties
<1> QED
  BY <1>1, <1>3 DEF BytesAre

-----------------------------------------------------------------------------
(* The inductive invariant.  Before the first byte of a buffer the packet list
   is empty, so that EndOfBuffer may leave it when there was none. *)
GoodInv == /\ IInv /\ PlaceInv /\ BytesAre
           /\ reading \in Devices /\ prevInputPort = -1 => pktlist = <<>>

(* On well-formed input no sysex is given up at a change of port. *)
LEMMA NoneGivenUp ==
  ASSUME TypeOK, PlaceInv, NEW d \in Devices, prevInputPort \in Ports,
         due[d][prevInputPort] # -1
  PROVE  [parse EXCEPT ![prevInputPort].inSysex = FALSE] = parse
<1>1. PICK o \in Ports : o = prevInputPort
  OBVIOUS
<1>2. InPlace(parse[o], due[d][o], running[d][o], sysexBytes[d][o])
  BY DEF PlaceInv
<1>3. parse[o] \in ParseState /\ due[d][o] \in -1..2 /\ due[d][o] # -1
  BY <1>1 DEF TypeOK
<1>4. parse[o].inSysex = FALSE
  <2>1. due[d][o] = 0 \/ due[d][o] > 0
    BY <1>3
  <2>2. ~parse[o].inSysex
    BY <1>2, <2>1 DEF InPlace
  <2>3. parse[o].inSysex \in BOOLEAN
    BY <1>3 DEF ParseState
  <2> QED
    BY <2>2, <2>3
<1>5. [parse[o] EXCEPT !.inSysex = FALSE] = parse[o]
  BY <1>3, <1>4 DEF ParseState
<1>6. parse \in [Ports -> ParseState]
  BY DEF TypeOK
<1>7. [parse EXCEPT ![o] = parse[o]] = parse
  BY <1>6
<1>8. [parse EXCEPT ![o].inSysex = FALSE] = [parse EXCEPT ![o] = [parse[o] EXCEPT !.inSysex = FALSE]]
  OBVIOUS
<1>9. [parse EXCEPT ![o].inSysex = FALSE] = parse
  BY <1>5, <1>7, <1>8
<1> QED
  BY <1>1, <1>9

(* The port of a byte, before and after it. *)
LEMMA ByteInPlace ==
  ASSUME GoodInv, Clean, NEW d \in Devices, NEW p \in Ports, NEW b \in Byte,
         HandleByte(d, p, b)
  PROVE  /\ IInv' /\ preservedMsgCount' = 0 /\ AllWhole(pktlist')
         /\ InPlace(parse'[p], due'[d][p], running'[d][p], sysexBytes'[d][p])
         /\ sent'[d][p] = Cat(Cat(FlattenSeq(received[d][p]), FlattenSeq(pktlist')), parse'[p].message)
         /\ \A q \in Ports \ {p} : parse'[q] = parse[q]
         /\ IF prevInputPort # -1 /\ p # prevInputPort
              THEN MIDIReceived(d, prevInputPort) ELSE UNCHANGED received
         /\ reading = d /\ reading' = d /\ prevInputPort' = p
<1>1. /\ IInv /\ TypeOK /\ NoOverrun /\ PlaceInv /\ BytesAre
      /\ reading \in Devices /\ prevInputPort = -1 => pktlist = <<>>
  BY DEF GoodInv, IInv
<1>2. IInv'
  BY <1>1, ByteStep
<1>3. PICK switched \in BOOLEAN : switched = (prevInputPort # -1 /\ p # prevInputPort)
  OBVIOUS
<1>4. PICK list : list = IF switched THEN <<>> ELSE pktlist
  OBVIOUS
<1>5. reading = d /\ Send(d, p, b) /\ reading' = d /\ prevInputPort' = p
      /\ IF prevInputPort # -1 /\ p # prevInputPort
           THEN MIDIReceived(d, prevInputPort) ELSE UNCHANGED received
  BY DEF HandleByte
<1>6. /\ Expected(due[d][p], running[d][p], sysexBytes[d][p], b)
      /\ prevInputPort \in Ports /\ p # prevInputPort => due[d][prevInputPort] # -1
      /\ sent'[d][p] = Cat(sent[d][p], NewBytes(due[d][p], running[d][p], b))
      /\ due'[d][p] = NextDue(due[d][p], running[d][p], b)
      /\ running'[d][p] = NextRunning(running[d][p], b)
      /\ sysexBytes'[d][p] = NextSysex(due[d][p], sysexBytes[d][p], b)
  BY <1>1, <1>5, SentByte
<1>7. (IF switched THEN [parse EXCEPT ![prevInputPort].inSysex = FALSE] ELSE parse) = parse
  <2>1. CASE switched
    <3>1. prevInputPort \in Ports /\ p # prevInputPort
      BY <1>1, <1>3, <2>1 DEF TypeOK
    <3>2. [parse EXCEPT ![prevInputPort].inSysex = FALSE] = parse
      BY <1>1, <1>6, <3>1, NoneGivenUp
    <3> QED
      BY <2>1, <3>2
  <2>2. CASE ~switched
    BY <2>2
  <2> QED
    BY <2>1, <2>2
<1>8. PICK s, u : s = WithLocals(parse[p], 0, list) /\ u = TakeByte(s, b)
  OBVIOUS
<1>9. /\ parse' = [parse EXCEPT ![p] = Statics(u)]
      /\ preservedMsgCount' = u.preserved /\ pktlist' = u.pktlist
  <2>0. preservedMsgCount = 0
    BY <1>1 DEF PlaceInv
  <2>1. \E before, l :
          /\ before = IF prevInputPort # -1 /\ p # prevInputPort
                        THEN [parse EXCEPT ![prevInputPort].inSysex = FALSE] ELSE parse
          /\ l = IF prevInputPort # -1 /\ p # prevInputPort THEN <<>> ELSE pktlist
          /\ LET w == TakeByte(WithLocals(before[p], preservedMsgCount, l), b) IN
             /\ parse' = [before EXCEPT ![p] = Statics(w)]
             /\ preservedMsgCount' = w.preserved /\ pktlist' = w.pktlist
    BY Zenon DEF HandleByte
  <2>2. PICK before, l :
          /\ before = IF prevInputPort # -1 /\ p # prevInputPort
                        THEN [parse EXCEPT ![prevInputPort].inSysex = FALSE] ELSE parse
          /\ l = IF prevInputPort # -1 /\ p # prevInputPort THEN <<>> ELSE pktlist
          /\ LET w == TakeByte(WithLocals(before[p], preservedMsgCount, l), b) IN
             /\ parse' = [before EXCEPT ![p] = Statics(w)]
             /\ preservedMsgCount' = w.preserved /\ pktlist' = w.pktlist
    BY <2>1, Zenon
  <2>3. before = parse
    <3>1. CASE switched
      BY <1>3, <1>7, <2>2, <3>1, Zenon
    <3>2. CASE ~switched
      BY <1>3, <2>2, <3>2, Zenon
    <3> QED
      BY <3>1, <3>2
  <2>4. l = list
    BY <1>3, <1>4, <2>2, Zenon
  <2>5. /\ parse' = [before EXCEPT ![p] = Statics(u)]
        /\ preservedMsgCount' = u.preserved /\ pktlist' = u.pktlist
    BY <1>8, <2>0, <2>2, <2>3, <2>4, Zenon
  <2> QED
    BY <2>3, <2>5
<1>10. /\ list \in Seq(Seq(Byte)) /\ AllWhole(list)
       /\ sent[d][p] = Cat(Cat(FlattenSeq(received[d][p]), FlattenSeq(list)), parse[p].message)
  <2>1. pktlist \in Seq(Seq(Byte)) /\ AllWhole(pktlist)
    BY <1>1 DEF TypeOK, PlaceInv
  <2>2. <<>> \in Seq(Seq(Byte)) /\ AllWhole(<<>>)
    BY DEF AllWhole
  <2>3. FlattenSeq(list) = Pending(d, p)
    <3>1. CASE prevInputPort = p
      <4>1. list = pktlist
        BY <1>3, <1>4, <3>1
      <4> QED
        BY <1>5, <3>1, <4>1 DEF Pending
    <3>2. CASE prevInputPort # p
      <4>1. list = <<>>
        BY <1>1, <1>3, <1>4, <1>5, <3>2
      <4> QED
        BY <3>2, <4>1, FlattenEmpty DEF Pending
    <3> QED
      BY <3>1, <3>2
  <2> QED
    BY <1>1, <1>4, <2>1, <2>2, <2>3 DEF BytesAre
<1>11. s \in Held /\ Len(s.message) <= 2
  <2>0. preservedMsgCount = 0 /\ parse[p] \in ParseState /\ FALSE \in BOOLEAN
    BY <1>1 DEF PlaceInv, TypeOK
  <2>1. s = WithLocals(parse[p], preservedMsgCount, list)
    BY <1>8, <2>0
  <2> QED
    BY <1>1, <1>10, <2>0, <2>1, PortHeld
<1>12. /\ s.preserved = 0 /\ s.pktlist = list /\ s.message = parse[p].message
       /\ InPlace(s, due[d][p], running[d][p], sysexBytes[d][p])
  <2>1. InPlace(parse[p], due[d][p], running[d][p], sysexBytes[d][p])
    BY <1>1 DEF PlaceInv
  <2>2. /\ s.inSysex = parse[p].inSysex /\ s.runningStatus = parse[p].runningStatus
        /\ s.remaining = parse[p].remaining /\ s.message = parse[p].message
        /\ s.preserved = 0 /\ s.pktlist = list
    BY <1>8 DEF WithLocals
  <2> QED
    BY <2>1, <2>2 DEF InPlace
<1>13. Followed(s, due[d][p], running[d][p], sysexBytes[d][p], b, u)
  <2>1. due[d][p] \in -1..2 /\ sysexBytes[d][p] \in 0..2
    BY <1>1 DEF TypeOK
  <2>2. AllWhole(s.pktlist)
    BY <1>10, <1>12
  <2> QED
    BY <1>6, <1>8, <1>11, <1>12, <2>1, <2>2, ByteFollowed
<1>14. /\ u.preserved = 0 /\ AllWhole(u.pktlist)
       /\ InPlace(u, due'[d][p], running'[d][p], sysexBytes'[d][p])
       /\ Cat(FlattenSeq(u.pktlist), u.message)
            = Cat(Cat(FlattenSeq(list), parse[p].message), NewBytes(due[d][p], running[d][p], b))
  BY <1>6, <1>12, <1>13 DEF Followed
<1>15. parse'[p] = Statics(u) /\ \A q \in Ports \ {p} : parse'[q] = parse[q]
  BY <1>1, <1>9 DEF TypeOK
<1>16. InPlace(parse'[p], due'[d][p], running'[d][p], sysexBytes'[d][p])
       /\ parse'[p].message = u.message
  <2>1. PICK v : v = Statics(u)
    OBVIOUS
  <2>2. /\ v.inSysex = u.inSysex /\ v.runningStatus = u.runningStatus
        /\ v.remaining = u.remaining /\ v.message = u.message
    BY <2>1 DEF Statics
  <2>3. PICK n, r, x : n = due'[d][p] /\ r = running'[d][p] /\ x = sysexBytes'[d][p]
    OBVIOUS
  <2>4. InPlace(u, n, r, x)
    BY <1>14, <2>3
  <2>5. InPlace(v, n, r, x)
    BY <2>2, <2>4 DEF InPlace
  <2> QED
    BY <1>15, <2>1, <2>2, <2>3, <2>5
<1>17. sent'[d][p] = Cat(Cat(FlattenSeq(received[d][p]), FlattenSeq(pktlist')), parse'[p].message)
  <2>1. PICK R, L, m, c, U, w : /\ R = FlattenSeq(received[d][p]) /\ L = FlattenSeq(list)
                                /\ m = parse[p].message
                                /\ c = NewBytes(due[d][p], running[d][p], b)
                                /\ U = FlattenSeq(u.pktlist) /\ w = u.message
    OBVIOUS
  <2>2. R \in Seq(Byte) /\ L \in Seq(Byte) /\ m \in Seq(Byte)
    <3>1. /\ received[d][p] \in Seq(Seq(Byte)) /\ parse[p].message \in Seq(Byte)
          /\ <<>> \in Seq(Byte)
      BY <1>1 DEF TypeOK, ParseState
    <3> QED
      BY <1>10, <2>1, <3>1, FlattenAdd
  <2>3. U \in Seq(Byte) /\ w \in Seq(Byte)
    <3>1. u \in Held
      BY <1>8, <1>11, ByteHeld
    <3>2. u.pktlist \in Seq(Seq(Byte)) /\ u.message \in Seq(Byte)
      BY <3>1 DEF Held
    <3> QED
      BY <2>1, <3>2, FlattenAdd
  <2>4. c \in Seq(Byte)
    <3>1. due[d][p] = 0 /\ b \in Data => running[d][p] \in Byte
      <4>1. running[d][p] \in ChannelStatus \cup {0}
        BY <1>1 DEF PlaceInv, InPlace
      <4> QED
        BY <4>1 DEF ChannelStatus, Byte, Data, Status
    <3> QED
      BY <2>1, <3>1 DEF NewBytes
  <2>5. sent'[d][p] = Cat(Cat(Cat(R, L), m), c)
    BY <1>6, <1>10, <2>1
  <2>6. Cat(U, w) = Cat(Cat(L, m), c)
    BY <1>14, <2>1
  <2>7. Cat(Cat(R, L), m) = Cat(R, Cat(L, m)) /\ Cat(L, m) \in Seq(Byte)
    BY <2>2, CatProperties
  <2>8. Cat(Cat(R, Cat(L, m)), c) = Cat(R, Cat(Cat(L, m), c))
    BY <2>2, <2>4, <2>7, CatProperties
  <2>9. Cat(Cat(R, U), w) = Cat(R, Cat(U, w))
    BY <2>2, <2>3, CatProperties
  <2>10. sent'[d][p] = Cat(Cat(R, U), w)
    BY <2>5, <2>6, <2>7, <2>8, <2>9
  <2> QED
    BY <1>9, <1>16, <2>1, <2>10
<1> QED
  BY <1>2, <1>5, <1>9, <1>14, <1>15, <1>16, <1>17

(* A byte keeps the invariant, for its own port and for the others. *)
LEMMA ByteGood ==
  ASSUME GoodInv, Clean, NEW d \in Devices, NEW p \in Ports, NEW b \in Byte,
         HandleByte(d, p, b)
  PROVE  GoodInv'
<1>1. /\ TypeOK /\ PlaceInv /\ BytesAre /\ WholeMessages /\ AllWhole(pktlist)
      /\ \A e \in Devices : e = d
      /\ Ports \subseteq Nat
  BY InputParserAssumption DEF GoodInv, IInv, PlaceInv, Clean
<1>2. /\ IInv' /\ preservedMsgCount' = 0 /\ AllWhole(pktlist')
      /\ InPlace(parse'[p], due'[d][p], running'[d][p], sysexBytes'[d][p])
      /\ sent'[d][p] = Cat(Cat(FlattenSeq(received[d][p]), FlattenSeq(pktlist')), parse'[p].message)
      /\ \A q \in Ports \ {p} : parse'[q] = parse[q]
      /\ IF prevInputPort # -1 /\ p # prevInputPort
           THEN MIDIReceived(d, prevInputPort) ELSE UNCHANGED received
      /\ reading = d /\ reading' = d /\ prevInputPort' = p
  BY ByteInPlace
<1>3. \A q \in Ports \ {p} : /\ sent'[d][q] = sent[d][q] /\ due'[d][q] = due[d][q]
                             /\ running'[d][q] = running[d][q]
                             /\ sysexBytes'[d][q] = sysexBytes[d][q]
  <2>1. Send(d, p, b)
    BY DEF HandleByte
  <2> QED
    BY <1>1, <2>1, SentByte DEF Clean
<1>4. ASSUME NEW q \in Ports
      PROVE  InPlace(parse'[q], due'[d][q], running'[d][q], sysexBytes'[d][q])
  <2>1. CASE q = p
    BY <1>2, <2>1
  <2>2. CASE q # p
    BY <1>1, <1>2, <1>3, <2>2 DEF PlaceInv
  <2> QED
    BY <2>1, <2>2
<1>5. ASSUME NEW q \in Ports
      PROVE  /\ AllWhole(received'[d][q])
             /\ q = p => received'[d][q] = received[d][q]
             /\ q # p => sent'[d][q] = Cat(FlattenSeq(received'[d][q]), parse'[q].message)
  <2>1. AllWhole(received[d][q])
    BY <1>1 DEF WholeMessages, AllWhole
  <2>2. CASE prevInputPort # -1 /\ p # prevInputPort
    <3>1. prevInputPort \in Ports /\ MIDIReceived(d, prevInputPort)
      BY <1>1, <1>2, <2>2 DEF TypeOK
    <3>2. PICK o \in Ports : o = prevInputPort
      BY <3>1
    <3>3. /\ sent[d][o] = Cat(FlattenSeq(received'[d][o]), parse[o].message)
          /\ AllWhole(received'[d][o])
          /\ \A k \in Ports \ {o} : received'[d][k] = received[d][k]
      BY <1>1, <1>2, <3>1, <3>2, Flushed
    <3>4. CASE q = o
      BY <1>2, <1>3, <2>2, <3>2, <3>3, <3>4
    <3>5. CASE q # o
      <4>1. received'[d][q] = received[d][q]
        BY <3>3, <3>5
      <4>2. sent[d][q] = Cat(FlattenSeq(received[d][q]), parse[q].message)
        BY <1>1, <3>2, <3>5, NotPending
      <4> QED
        BY <1>2, <1>3, <2>1, <4>1, <4>2
    <3> QED
      BY <3>4, <3>5
  <2>3. CASE ~(prevInputPort # -1 /\ p # prevInputPort)
    <3>1. received'[d][q] = received[d][q]
      BY <1>2, <2>3
    <3>2. q # p => sent[d][q] = Cat(FlattenSeq(received[d][q]), parse[q].message)
      <4>1. q # p => prevInputPort # q
        <5>1. -1 \notin Ports
          BY <1>1
        <5> QED
          BY <2>3, <5>1
      <4> QED
        BY <1>1, <4>1, NotPending
    <3> QED
      BY <1>2, <1>3, <2>1, <3>1, <3>2
  <2> QED
    BY <2>2, <2>3
<1>6. BytesAre'
  <2> SUFFICES ASSUME NEW q \in Ports
               PROVE  sent'[d][q] = Cat(Cat(FlattenSeq(received'[d][q]), Pending(d, q)'), parse'[q].message)
    BY <1>1 DEF BytesAre
  <2>1. CASE q = p
    <3>1. Pending(d, q)' = FlattenSeq(pktlist')
      BY <1>2, <2>1 DEF Pending
    <3> QED
      BY <1>2, <1>5, <2>1, <3>1
  <2>2. CASE q # p
    <3>1. Pending(d, q)' = <<>>
      BY <1>2, <2>2 DEF Pending
    <3>2. Cat(FlattenSeq(received'[d][q]), <<>>) = FlattenSeq(received'[d][q])
      <4>1. received'[d][q] \in Seq(Seq(Byte)) /\ <<>> \in Seq(Byte)
        BY <1>2 DEF IInv, TypeOK
      <4>2. FlattenSeq(received'[d][q]) \in Seq(Byte)
        BY <4>1, FlattenAdd
      <4> QED
        BY <4>1, <4>2, CatProperties
    <3> QED
      BY <1>5, <2>2, <3>1, <3>2
  <2> QED
    BY <2>1, <2>2
<1>7. PlaceInv'
  <2>1. WholeMessages'
    BY <1>1, <1>5 DEF WholeMessages, AllWhole
  <2> QED
    BY <1>1, <1>2, <1>4, <2>1 DEF PlaceInv
<1>8. (reading \in Devices /\ prevInputPort = -1 => pktlist = <<>>)'
  BY <1>1, <1>2
<1> QED
  BY <1>2, <1>6, <1>7, <1>8 DEF GoodInv

(* So does the end of a buffer. *)
LEMMA BufferGood ==
  ASSUME GoodInv, Clean, NEW d \in Devices, EndOfBuffer(d), IInv'
  PROVE  GoodInv'
<1>1. /\ TypeOK /\ PlaceInv /\ BytesAre /\ WholeMessages /\ AllWhole(pktlist)
      /\ \A e \in Devices : e = d
      /\ NoDevice \notin Devices
      /\ reading \in Devices /\ prevInputPort = -1 => pktlist = <<>>
  BY InputParserAssumption DEF GoodInv, IInv, PlaceInv, Clean
<1>2. /\ reading = d /\ reading' = NoDevice
      /\ UNCHANGED <<parse, prevInputPort, preservedMsgCount, pktlist, sent, due, running, sysexBytes>>
      /\ IF pktlist # <<>> /\ prevInputPort # -1 THEN MIDIReceived(d, prevInputPort)
                                                 ELSE UNCHANGED received
  BY DEF EndOfBuffer, player
<1>3. ASSUME NEW q \in Ports
      PROVE  /\ AllWhole(received'[d][q])
             /\ sent[d][q] = Cat(FlattenSeq(received'[d][q]), parse[q].message)
  <2>1. AllWhole(received[d][q])
    BY <1>1 DEF WholeMessages, AllWhole
  <2>2. CASE pktlist # <<>> /\ prevInputPort # -1
    <3>1. prevInputPort \in Ports /\ MIDIReceived(d, prevInputPort)
      BY <1>1, <1>2, <2>2 DEF TypeOK
    <3>2. PICK o \in Ports : o = prevInputPort
      BY <3>1
    <3>3. /\ sent[d][o] = Cat(FlattenSeq(received'[d][o]), parse[o].message)
          /\ AllWhole(received'[d][o])
          /\ \A k \in Ports \ {o} : received'[d][k] = received[d][k]
      BY <1>1, <1>2, <3>1, <3>2, Flushed
    <3>4. CASE q = o
      BY <3>3, <3>4
    <3>5. CASE q # o
      <4>1. received'[d][q] = received[d][q]
        BY <3>3, <3>5
      <4>2. sent[d][q] = Cat(FlattenSeq(received[d][q]), parse[q].message)
        BY <1>1, <3>2, <3>5, NotPending
      <4> QED
        BY <2>1, <4>1, <4>2
    <3> QED
      BY <3>4, <3>5
  <2>3. CASE ~(pktlist # <<>> /\ prevInputPort # -1)
    <3>1. received'[d][q] = received[d][q]
      BY <1>2, <2>3
    <3>2. sent[d][q] = Cat(FlattenSeq(received[d][q]), parse[q].message)
      <4>1. pktlist = <<>>
        BY <1>1, <1>2, <2>3
      <4>2. Pending(d, q) = <<>>
        BY <4>1, FlattenEmpty DEF Pending
      <4>3. Cat(FlattenSeq(received[d][q]), <<>>) = FlattenSeq(received[d][q])
        <5>1. received[d][q] \in Seq(Seq(Byte)) /\ <<>> \in Seq(Byte)
          BY <1>1 DEF TypeOK
        <5>2. FlattenSeq(received[d][q]) \in Seq(Byte)
          BY <5>1, FlattenAdd
        <5> QED
          BY <5>1, <5>2, CatProperties
      <4> QED
        BY <1>1, <4>2, <4>3 DEF BytesAre
    <3> QED
      BY <2>1, <3>1, <3>2
  <2> QED
    BY <2>2, <2>3
<1>4. BytesAre'
  <2> SUFFICES ASSUME NEW q \in Ports
               PROVE  sent'[d][q] = Cat(Cat(FlattenSeq(received'[d][q]), Pending(d, q)'), parse'[q].message)
    BY <1>1 DEF BytesAre
  <2>1. Pending(d, q)' = <<>>
    BY <1>1, <1>2 DEF Pending
  <2>2. Cat(FlattenSeq(received'[d][q]), <<>>) = FlattenSeq(received'[d][q])
    <3>1. received'[d][q] \in Seq(Seq(Byte)) /\ <<>> \in Seq(Byte)
      BY DEF IInv, TypeOK
    <3>2. FlattenSeq(received'[d][q]) \in Seq(Byte)
      BY <3>1, FlattenAdd
    <3> QED
      BY <3>1, <3>2, CatProperties
  <2>3. sent'[d][q] = sent[d][q] /\ parse'[q] = parse[q]
    BY <1>2
  <2>4. sent[d][q] = Cat(FlattenSeq(received'[d][q]), parse[q].message)
    BY <1>3
  <2> QED
    BY <2>1, <2>2, <2>3, <2>4
<1>5. PlaceInv'
  <2>1. WholeMessages'
    BY <1>1, <1>3 DEF WholeMessages, AllWhole
  <2> QED
    BY <1>1, <1>2, <2>1 DEF PlaceInv
<1> QED
  BY <1>1, <1>2, <1>4, <1>5 DEF GoodInv

(* The other steps move no byte. *)
LEMMA RestGood ==
  ASSUME GoodInv, Clean, IInv',
         UNCHANGED <<parse, received, player>>,
         \/ \E d \in Devices : ReadCallback(d)
         \/ UNCHANGED locals
  PROVE  GoodInv'
<1>1. /\ TypeOK /\ PlaceInv /\ BytesAre
      /\ reading \in Devices /\ prevInputPort = -1 => pktlist = <<>>
      /\ NoDevice \notin Devices /\ Ports \subseteq Nat
  BY InputParserAssumption DEF GoodInv, IInv
<1>2. /\ AllWhole(pktlist') /\ preservedMsgCount' = 0
      /\ (reading \in Devices /\ prevInputPort = -1 => pktlist = <<>>)'
      /\ \A d \in Devices, p \in Ports : Pending(d, p)' = Pending(d, p)
  <2>1. CASE \E d \in Devices : ReadCallback(d)
    <3>1. reading = NoDevice /\ prevInputPort' = -1 /\ pktlist' = <<>> /\ preservedMsgCount' = 0
      BY <2>1 DEF ReadCallback
    <3>2. AllWhole(<<>>)
      BY DEF AllWhole
    <3>3. ASSUME NEW d \in Devices, NEW p \in Ports
          PROVE  Pending(d, p)' = <<>> /\ Pending(d, p) = <<>>
      <4>1. -1 # p /\ NoDevice # d
        BY <1>1
      <4> QED
        BY <3>1, <4>1 DEF Pending
    <3> QED
      BY <3>1, <3>2, <3>3
  <2>2. CASE UNCHANGED locals
    BY <1>1, <2>2 DEF locals, PlaceInv, Pending
  <2> QED
    BY <2>1, <2>2
<1>3. UNCHANGED <<parse, received, sent, due, running, sysexBytes>>
  BY DEF player
<1>4. BytesAre'
  BY <1>1, <1>2, <1>3 DEF BytesAre
<1>5. PlaceInv'
  BY <1>1, <1>2, <1>3 DEF PlaceInv, WholeMessages
<1> QED
  BY <1>2, <1>4, <1>5 DEF GoodInv

(* Every step keeps it. *)
LEMMA StepGood ==
  ASSUME Clean
  PROVE  GoodInv /\ [Next]_vars => GoodInv'
<1> SUFFICES ASSUME GoodInv, [Next]_vars
             PROVE  GoodInv'
  OBVIOUS
<1>0. TypeOK /\ IInv'
  BY StepIInv DEF GoodInv, IInv
<1>1. ASSUME NEW d \in Devices, ReadCallback(d)
      PROVE  GoodInv'
  <2>1. UNCHANGED <<parse, received, player>>
    BY <1>1 DEF ReadCallback
  <2> QED
    BY <1>0, <1>1, <2>1, RestGood
<1>2. ASSUME NEW d \in Devices, ReadFailed(d)
      PROVE  GoodInv'
  <2>1. UNCHANGED <<parse, received, player>> /\ UNCHANGED locals
    BY <1>2 DEF ReadFailed
  <2> QED
    BY <1>0, <2>1, RestGood
<1>3. ASSUME NEW d \in Devices, NEW p \in Ports, NEW b \in StatusBytes, HandleByte(d, p, b)
      PROVE  GoodInv'
  BY <1>3, ByteGood, InputParserAssumption DEF Byte
<1>4. ASSUME NEW d \in Devices, NEW p \in Ports, HandleByte(d, p, NextData(d, p))
      PROVE  GoodInv'
  <2>1. PICK n \in Nat : n = Len(sent[d][p])
    BY <1>0 DEF TypeOK
  <2>2. n % 128 \in 0..127
    OBVIOUS
  <2>3. NextData(d, p) \in Byte
    BY <2>1, <2>2 DEF NextData, Byte, Data
  <2> QED
    BY <1>4, <2>3, ByteGood
<1>5. ASSUME NEW d \in Devices, EndOfBuffer(d)
      PROVE  GoodInv'
  BY <1>0, <1>5, BufferGood
<1>6. CASE UNCHANGED vars
  <2>1. UNCHANGED <<parse, received, player>> /\ UNCHANGED locals
    BY <1>6 DEF vars
  <2> QED
    BY <1>0, <2>1, RestGood
<1> QED
  BY <1>1, <1>2, <1>3, <1>4, <1>5, <1>6 DEF Next

(* It holds at the start. *)
LEMMA InitGood == Init => GoodInv
<1> SUFFICES ASSUME Init
             PROVE  GoodInv
  OBVIOUS
<1>1. IInv /\ NoDevice \notin Devices
  BY InitIInv, InputParserAssumption
<1>2. AllWhole(<<>>)
  BY DEF AllWhole
<1>3. PlaceInv
  <2>1. /\ preservedMsgCount = 0 /\ pktlist = <<>>
        /\ \A d \in Devices, p \in Ports : /\ received[d][p] = <<>>
                                           /\ due[d][p] = 0 /\ running[d][p] = 0
        /\ \A p \in Ports : /\ parse[p].remaining = 0 /\ parse[p].message = <<>>
                            /\ ~parse[p].inSysex
    BY DEF Init, PerPort
  <2>2. ASSUME NEW d \in Devices, NEW p \in Ports
        PROVE  InPlace(parse[p], due[d][p], running[d][p], sysexBytes[d][p])
    BY <2>1 DEF InPlace
  <2>3. WholeMessages
    BY <2>1 DEF WholeMessages
  <2> QED
    BY <1>2, <2>1, <2>2, <2>3 DEF PlaceInv
<1>4. BytesAre
  <2> SUFFICES ASSUME NEW d \in Devices, NEW p \in Ports
               PROVE  sent[d][p] = Cat(Cat(FlattenSeq(received[d][p]), Pending(d, p)), parse[p].message)
    BY DEF BytesAre
  <2>1. /\ sent[d][p] = <<>> /\ received[d][p] = <<>> /\ parse[p].message = <<>>
        /\ reading # d
    BY <1>1 DEF Init, PerPort
  <2>2. Cat(<<>>, <<>>) = <<>>
    <3>1. <<>> \in Seq(Byte)
      OBVIOUS
    <3> QED
      BY <3>1, CatProperties
  <2>3. Pending(d, p) = <<>>
    BY <2>1 DEF Pending
  <2> QED
    BY <2>1, <2>2, <2>3, FlattenEmpty
<1>5. reading \in Devices /\ prevInputPort = -1 => pktlist = <<>>
  BY DEF Init
<1> QED
  BY <1>1, <1>3, <1>4, <1>5 DEF GoodInv

(* On well-formed input the invariant always holds. *)
LEMMA AlwaysGood ==
  ASSUME Clean
  PROVE  Spec => []GoodInv
<1>1. GoodInv /\ [Next]_vars => GoodInv'
  BY StepGood
<1> QED
  BY <1>1, InitGood, PTL DEF Spec

(* On well-formed input the parser is always where each player is in its
   message: Synced, for any ports, status bytes and lengths. *)
THEOREM StaysSynced ==
  ASSUME Clean
  PROVE  Spec => []Synced
<1>1. GoodInv => Synced
  <2> SUFFICES ASSUME GoodInv, NEW d \in Devices, NEW p \in Ports
               PROVE  LET s == parse[p] IN
                      /\ preservedMsgCount = 0
                      /\ running[d][p] # 0 => s.runningStatus = running[d][p]
                      /\ due[d][p] = 0 => s.remaining = 0 /\ s.message = <<>> /\ ~s.inSysex
                      /\ due[d][p] > 0 => s.remaining = due[d][p] /\ s.message # <<>>
                      /\ due[d][p] = -1 => /\ s.inSysex /\ s.remaining \in {-1, 0}
                                           /\ Len(s.message) = IF s.remaining = 0 THEN 0 ELSE sysexBytes[d][p]
    BY DEF Synced
  <2>1. preservedMsgCount = 0 /\ InPlace(parse[p], due[d][p], running[d][p], sysexBytes[d][p])
    BY DEF GoodInv, PlaceInv
  <2> QED
    BY <2>1 DEF InPlace, Begun
<1> QED
  BY <1>1, AlwaysGood, PTL

(* On well-formed input a packet that clients receive is one whole message or
   at most three bytes of a sysex. *)
THEOREM OnlyWholeMessages ==
  ASSUME Clean
  PROVE  Spec => []WholeMessages
<1>1. GoodInv => WholeMessages
  BY DEF GoodInv, PlaceInv
<1> QED
  BY <1>1, AlwaysGood, PTL

(* On well-formed input no byte is lost, doubled, moved to another port or out
   of order. *)
THEOREM NoByteLost ==
  ASSUME Clean
  PROVE  Spec => []BytesKept
<1>1. GoodInv => BytesKept
  BY BytesByName DEF GoodInv
<1> QED
  BY <1>1, AlwaysGood, PTL

(* On well-formed input a message that is complete when its buffer has been
   parsed has reached the clients: nothing of it waits for the next buffer. *)
THEOREM NothingWithheld ==
  ASSUME Clean
  PROVE  Spec => []CompleteIsDelivered
<1>1. GoodInv => CompleteIsDelivered
  <2> SUFFICES ASSUME GoodInv, NEW d \in Devices, NEW p \in Ports,
                      reading # d, due[d][p] = 0
               PROVE  Received(d, p) = sent[d][p]
    BY DEF CompleteIsDelivered
  <2>1. TypeOK /\ BytesAre
    BY DEF GoodInv, IInv
  <2>2. sent[d][p] = Cat(FlattenSeq(received[d][p]), parse[p].message)
    BY <2>1, NotPending
  <2>3. parse[p].message = <<>>
    <3>1. InPlace(parse[p], due[d][p], running[d][p], sysexBytes[d][p])
      BY DEF GoodInv, PlaceInv
    <3> QED
      BY <3>1 DEF InPlace
  <2>4. Cat(FlattenSeq(received[d][p]), <<>>) = FlattenSeq(received[d][p])
    <3>1. received[d][p] \in Seq(Seq(Byte)) /\ <<>> \in Seq(Byte)
      BY <2>1 DEF TypeOK
    <3>2. FlattenSeq(received[d][p]) \in Seq(Byte)
      BY <3>1, FlattenAdd
    <3> QED
      BY <3>1, <3>2, CatProperties
  <2> QED
    BY <2>2, <2>3, <2>4 DEF Received
<1> QED
  BY <1>1, AlwaysGood, PTL
=============================================================================
