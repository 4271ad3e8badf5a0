---------------------------- MODULE OutputEncoder ----------------------------
(***************************************************************************)
(* PrepareOutput byte by byte: MIDI packets of the write queue become      *)
(* mspackets in the two write buffers, which the device decodes again.     *)
(* The threads, the lock and the USB transfers are WritePath's subject:    *)
(* here a call of PrepareOutput is not disturbed, and packets are queued   *)
(* before it or while its buffers are being written.                       *)
(***************************************************************************)
EXTENDS MIDIMessages, SequencesExt, FiniteSetsExt

CONSTANTS Ports,       \* the destinations' port numbers
          BufWords,    \* mspackets in a write buffer: writeBufSize / 4
          Packets,     \* the data of the MIDI packets that clients send
          MaxPackets   \* bound: packets sent

Endpoints == {0, 1}

ASSUME OutputEncoderAssumption ==
  /\ Ports \subseteq Nat
  /\ BufWords \in Nat /\ BufWords > 1
  /\ Packets \subseteq Seq(Byte)
  /\ MaxPackets \in Nat

VARIABLES
  writeQueue,   \* WriteQueueElems: port, data of the packet, bytes sent of it
  dest,         \* the mspackets in each of the two buffers
  phase,        \* "idle", "prepare" (inside PrepareOutput) or "written"
  packets,      \* history: how many packets were sent
  sent,         \* history: bytes sent to each port
  played        \* history: bytes the device put out on each port

vars == <<writeQueue, dest, phase, packets, sent, played>>

Unknown == -1   \* a byte read from behind the end of a packet

Mspacket == [cable : Ports \cup {0}, bytes : Seq(Byte \cup {Unknown})]

(* The types of the variables.  A buffer is never written past its end, the
   null mspacket included. *)
TypeOK ==
  /\ writeQueue \in Seq([port : Ports, data : Packets, bytesSent : Nat])
  /\ dest \in [Endpoints -> {ws \in Seq(Mspacket) : Len(ws) <= BufWords}]
  /\ phase \in {"idle", "prepare", "written"}
  /\ packets \in 0..MaxPackets
  /\ sent \in [Ports -> Seq(Byte)]
  /\ played \in [Ports -> Seq(Byte \cup {Unknown})]

Init ==
  /\ writeQueue = <<>>
  /\ dest = [e \in Endpoints |-> <<>>]
  /\ phase = "idle"
  /\ packets = 0
  /\ sent = [p \in Ports |-> <<>>]
  /\ played = [p \in Ports |-> <<>>]

Endpoint(port) == port % 2

-----------------------------------------------------------------------------
(* One mspacket is cut off the bytes src, which are not empty.  It takes the
   bytes of a message by its status, whether src has them or not; of other
   bytes it takes as many as src has, up to three; an undefined message makes
   no mspacket and is skipped up to the next status byte. *)
BytesOf(c) == 1 + MIDIDataBytes(c)

RunOfData(src) ==
  LET stops == {i \in 2..Len(src) : src[i] \in Status} IN
  IF stops = {} THEN Len(src) ELSE Min(stops) - 1

Taken(src) ==
  LET c == Head(src) IN
  CASE c \in Data -> IF Len(src) < 3 THEN Len(src) ELSE 3
    [] c = SysexStart -> 3
    [] c \in Illegal -> RunOfData(src)
    [] OTHER -> BytesOf(c)

Words(src, port) ==
  IF Head(src) \in Illegal THEN <<>>
  ELSE << [cable |-> port,
           bytes |-> [i \in 1..Taken(src) |-> IF i <= Len(src) THEN src[i] ELSE Unknown]] >>

-----------------------------------------------------------------------------
(* Send queues a packet; PrepareOutput is called with the queue locked. *)
Send(p, data) ==
  /\ phase # "prepare"
  /\ packets < MaxPackets
  /\ packets' = packets + 1
  /\ sent' = [sent EXCEPT ![p] = @ \o data]
  /\ writeQueue' = Append(writeQueue, [port |-> p, data |-> data, bytesSent |-> 0])
  /\ UNCHANGED <<dest, phase, played>>

(* DoWrite calls PrepareOutput when nothing is being written. *)
PrepareOutput ==
  /\ phase = "idle"
  /\ writeQueue # <<>>
  /\ dest' = [e \in Endpoints |-> <<>>]
  /\ phase' = "prepare"
  /\ UNCHANGED <<writeQueue, packets, sent, played>>

(* The bytes of a packet that are still to send. *)
Src(wqe) == SubSeq(wqe.data, wqe.bytesSent + 1, Len(wqe.data))

(* Mutant: a buffer counts as full one mspacket too late. *)
RoundLate ==
  LET wqe == Head(writeQueue)
      src == Src(wqe)
      e == Endpoint(wqe.port)
      filled == dest[e] \o Words(src, wqe.port)
      bytesSent == wqe.bytesSent + Taken(src)
  IN
  /\ phase = "prepare"
  /\ writeQueue # <<>>
  /\ src # <<>>
  /\ dest' = [dest EXCEPT ![e] = filled]
  /\ writeQueue' = IF bytesSent = Len(wqe.data) THEN Tail(writeQueue)
                   ELSE [writeQueue EXCEPT ![1].bytesSent = bytesSent]
  /\ phase' = IF Len(filled) > BufWords THEN "written" ELSE "prepare"
  /\ UNCHANGED <<packets, sent, played>>

(* Mutant: a packet is dropped when a buffer is full. *)
RoundDrops ==
  LET wqe == Head(writeQueue)
      src == Src(wqe)
      e == Endpoint(wqe.port)
      filled == dest[e] \o Words(src, wqe.port)
      bytesSent == wqe.bytesSent + Taken(src)
  IN
  /\ phase = "prepare"
  /\ writeQueue # <<>>
  /\ src # <<>>
  /\ dest' = [dest EXCEPT ![e] = filled]
  /\ writeQueue' = IF bytesSent = Len(wqe.data) \/ Len(filled) = BufWords
                   THEN Tail(writeQueue)
                   ELSE [writeQueue EXCEPT ![1].bytesSent = bytesSent]
  /\ phase' = IF Len(filled) = BufWords THEN "written" ELSE "prepare"
  /\ UNCHANGED <<packets, sent, played>>

(* One round of the inner loop, for the packet at the front of the queue.  It
   is dropped when exactly its bytes were taken: after an mspacket that took
   more than that, or for a packet without bytes, no round follows and the
   outer loop finds the same packet for ever. *)
Round ==
  LET wqe == Head(writeQueue)
      src == Src(wqe)
      e == Endpoint(wqe.port)
      filled == dest[e] \o Words(src, wqe.port)
      bytesSent == wqe.bytesSent + Taken(src)
  IN
  /\ phase = "prepare"
  /\ writeQueue # <<>>
  /\ src # <<>>
  /\ dest' = [dest EXCEPT ![e] = filled]
  /\ writeQueue' = IF bytesSent = Len(wqe.data) THEN Tail(writeQueue)
                   ELSE [writeQueue EXCEPT ![1].bytesSent = bytesSent]
  /\ phase' = IF Len(filled) = BufWords THEN "written" ELSE "prepare"
  /\ UNCHANGED <<packets, sent, played>>

Null == [cable |-> 0, bytes |-> <<>>]

(* Mutant: only a full buffer is written. *)
QueueEmptyWaits ==
  /\ phase = "prepare"
  /\ writeQueue = <<>>
  /\ phase' = "idle"
  /\ UNCHANGED <<writeQueue, dest, packets, sent, played>>

(* The queue is empty: a null mspacket concludes each buffer in use.  DoWrite
   writes nothing if both are empty. *)
QueueEmpty ==
  /\ phase = "prepare"
  /\ writeQueue = <<>>
  /\ dest' = [e \in Endpoints |-> IF dest[e] = <<>> THEN <<>> ELSE Append(dest[e], Null)]
  /\ phase' = IF \A e \in Endpoints : dest[e] = <<>> THEN "idle" ELSE "written"
  /\ UNCHANGED <<writeQueue, packets, sent, played>>

(* Bytes of the mspackets ws for port p. *)
Decoded(ws, p) == FlattenSeq([i \in 1..Len(ws) |-> IF ws[i].cable = p THEN ws[i].bytes ELSE <<>>])

(* The device (external) puts out what the mspackets hold, and the writes
   complete. *)
Transfer ==
  /\ phase = "written"
  /\ played' = [p \in Ports |-> played[p] \o Decoded(dest[Endpoint(p)], p)]
  /\ phase' = "idle"
  /\ UNCHANGED <<writeQueue, dest, packets, sent>>

Next ==
  \/ \E p \in Ports, data \in Packets : Send(p, data)
  \/ PrepareOutput
  \/ Round
  \/ QueueEmpty
  \/ Transfer

Spec == Init /\ [][Next]_vars

(* PrepareOutput runs on and the writes complete; no client has to send. *)
FairSpec == Spec /\ WF_vars(PrepareOutput) /\ WF_vars(Round) /\ WF_vars(QueueEmpty)
                 /\ WF_vars(Transfer)

-----------------------------------------------------------------------------
(* A reader of bytes keeps the defined messages and skips the data bytes of an
   undefined one. *)
Start == [skip |-> FALSE, out |-> <<>>]

Keep(acc, b) ==
  IF b \in Illegal THEN [skip |-> TRUE, out |-> acc.out]
  ELSE IF b \in Data /\ acc.skip THEN acc
  ELSE [skip |-> FALSE, out |-> Append(acc.out, b)]

Scan(bs) == FoldLeft(Keep, Start, bs)

(* The defined messages in bs. *)
Defined(bs) == Scan(bs).out

Unsent(p) == FlattenSeq([i \in 1..Len(writeQueue) |->
               IF writeQueue[i].port = p THEN Src(writeQueue[i]) ELSE <<>>])

(* What a client sends to a port is what the device puts out on that port, in
   order and without loss, with the bytes of undefined messages left out:
   however the packets straddle buffers and transfers, the rest of it is in
   the buffers or in the queue. *)
RoundTrip == \A p \in Ports :
  Defined(sent[p]) = played[p]
    \o (IF phase = "idle" THEN <<>> ELSE Decoded(dest[Endpoint(p)], p))
    \o Defined(Unsent(p))

(* It needs packets that hold whole words.  From k on the bytes of a packet can
   be cut, as Taken says, into words that end where the packet ends, and only
   an undefined message has an undefined status byte in it. *)
Cuttable(data, k) == \E cuts \in SUBSET (0..Len(data)) :
  /\ k \in cuts
  /\ \A j \in cuts \ {Len(data)} :
       LET src == SubSeq(data, j + 1, Len(data)) IN
       /\ j + Taken(src) \in cuts
       /\ Head(src) \in Illegal \/ \A i \in 1..Taken(src) : src[i] \notin Illegal

WholeWords(ps) == \A data \in ps : Cuttable(data, 0)

(* And if one packet ends inside an undefined message, none goes on with data. *)
NoStrayData(ps) == \A d, e \in ps : Scan(d).skip /\ e # <<>> => Head(e) \notin Data

(* PrepareOutput returns "the number of bytes written", and gives Send its mutex
   back. *)
PrepareReturns == phase = "prepare" ~> phase # "prepare"

(* When the clients stop sending (at MaxPackets at the latest), all that was
   sent is put out: the queue is drained however often a full buffer
   interrupts a packet. *)
AllPlayed == <>[](\A p \in Ports : played[p] = Defined(sent[p]))
=============================================================================
