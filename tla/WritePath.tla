------------------------------ MODULE WritePath ------------------------------
(***************************************************************************)
(* The output side of an InterfaceState: client threads queue MIDI packets *)
(* with Send, DoWrite and PrepareOutput move words from the queue into the *)
(* two write buffers and start an asynchronous write on each OUT pipe that *)
(* has words, and WriteCallback, on the I/O run loop thread, chains the    *)
(* next write.  A word stands for one 4-byte mspacket; 0 is the null one.  *)
(*                                                                         *)
(* The device reads a buffer while its write is outstanding, a word at a   *)
(* time, so that a buffer refilled too early shows up in what it receives. *)
(* A packet's words are known when it is queued: how its bytes become      *)
(* words is OutputEncoder's subject.                                       *)
(***************************************************************************)
EXTENDS Integers, SequencesExt

CONSTANTS Senders,         \* threads of the MIDI server that call Send
          IOThread,        \* the driver's I/O run loop thread
          NoThread,        \* mWriteQueueMutex is free
          Ports,           \* the destinations' port numbers
          BufWords,        \* words in a write buffer: writeBufSize / 4
          MaxPacketWords,  \* bound: words of one MIDIPacket
          MaxAccepted,     \* bound: words accepted per endpoint
          MaxQueue,        \* bound: packets waiting in mWriteQueue
          MaxFaults        \* bound: USB writes that fail

Threads == Senders \cup {IOThread}
Endpoints == {0, 1}

ASSUME WritePathAssumption ==
  /\ IOThread \notin Senders
  /\ NoThread \notin Threads
  /\ Ports \subseteq Nat
  /\ BufWords \in Nat /\ BufWords > 1
  /\ MaxPacketWords \in Nat /\ MaxAccepted \in Nat
  /\ MaxQueue \in Nat /\ MaxFaults \in Nat

VARIABLES
  mWriteQueue,    \* WriteQueueElems: words next..last of the packet are unsent
  mWritePending,  \* the flag that is to tell that a write is outstanding
  mWriteBuf,      \* mWriteBuf1 and mWriteBuf2
  fill,           \* words prepared in each buffer (dest, later msglen1, msglen2)
  holder,         \* the thread inside mWriteQueueMutex
  pc,             \* where each thread is
  portNumber,     \* the argument of each sender's Send
  inflight,       \* lengths of the writes outstanding on each pipe, oldest first
  moved,          \* words of the oldest one that the device has read
  completions,    \* results waiting to be handed to WriteCallback
  faults,         \* history: writes that failed
  accepted,       \* history: words queued for each endpoint
  encoded,        \* history: words put into each buffer
  received        \* history: non-null words each endpoint received

lockVars == <<holder, pc, portNumber>>
usbVars == <<inflight, moved, completions, faults, received>>
bufVars == <<mWriteBuf, fill, encoded>>
vars == <<mWriteQueue, mWritePending, accepted, lockVars, usbVars, bufVars>>

(* Ports 1, 3, 5, 7 of the labels, numbered from 0, use destBuf1. *)
Endpoint(port) == port % 2

TypeOK ==
  /\ mWriteQueue \in Seq([port : Ports, next : Nat, last : Nat])
  /\ mWritePending \in BOOLEAN
  /\ mWriteBuf \in [Endpoints -> [1..BufWords -> Nat]]
  /\ fill \in [Endpoints -> 0..BufWords]
  /\ holder \in Threads \cup {NoThread}
  /\ pc \in [Threads -> {"idle", "sending", "callback", "dowrite", "prepare",
                         "write1", "write2", "unlock"}]
  /\ portNumber \in [Senders -> Ports]
  /\ inflight \in [Endpoints -> Seq(1..BufWords)]
  /\ moved \in [Endpoints -> 0..BufWords]
  /\ completions \in Seq({"success", "error"})
  /\ faults \in 0..MaxFaults
  /\ accepted \in [Endpoints -> Nat]
  /\ encoded \in [Endpoints -> Nat]
  /\ received \in [Endpoints -> Seq(Nat)]

Init ==
  /\ mWriteQueue = <<>>
  /\ mWritePending = FALSE
  /\ mWriteBuf = [e \in Endpoints |-> [i \in 1..BufWords |-> 0]]
  /\ fill = [e \in Endpoints |-> 0]
  /\ holder = NoThread
  /\ pc = [t \in Threads |-> "idle"]
  /\ portNumber \in [Senders -> Ports]
  /\ inflight = [e \in Endpoints |-> <<>>]
  /\ moved = [e \in Endpoints |-> 0]
  /\ completions = <<>>
  /\ faults = 0
  /\ accepted = [e \in Endpoints |-> 0]
  /\ encoded = [e \in Endpoints |-> 0]
  /\ received = [e \in Endpoints |-> <<>>]

Goto(t, label) == pc' = [pc EXCEPT ![t] = label]

-----------------------------------------------------------------------------
(* InterfaceState::Send, entered: Lock returned true. *)
SendCall(t, port) ==
  /\ pc[t] = "idle"
  /\ holder = NoThread
  /\ holder' = t
  /\ portNumber' = [portNumber EXCEPT ![t] = port]
  /\ Goto(t, "sending")
  /\ UNCHANGED <<mWriteQueue, mWritePending, accepted, usbVars, bufVars>>

(* One packet of the list is copied to the back of the queue.  It makes no
   words when it holds nothing but undefined status bytes; such bytes after
   the last word of a packet act like a wordless packet behind it. *)
SendPacket(t) == \E words \in 0..MaxPacketWords :
  LET e == Endpoint(portNumber[t]) IN
  /\ pc[t] = "sending"
  /\ Len(mWriteQueue) < MaxQueue
  /\ accepted[e] + words <= MaxAccepted
  /\ mWriteQueue' = Append(mWriteQueue, [port |-> portNumber[t],
                                         next |-> accepted[e] + 1,
                                         last |-> accepted[e] + words])
  /\ accepted' = [accepted EXCEPT ![e] = @ + words]
  /\ UNCHANGED <<mWritePending, lockVars, usbVars, bufVars>>

(* Mutant: Send does not look at mWritePending. *)
SendKickAlways(t) ==
  /\ pc[t] = "sending"
  /\ Goto(t, "dowrite")
  /\ UNCHANGED <<mWriteQueue, mWritePending, accepted, holder, portNumber,
                 usbVars, bufVars>>

(* The list is queued: start a write unless one is outstanding. *)
SendKick(t) ==
  /\ pc[t] = "sending"
  /\ Goto(t, IF mWritePending THEN "unlock" ELSE "dowrite")
  /\ UNCHANGED <<mWriteQueue, mWritePending, accepted, holder, portNumber,
                 usbVars, bufVars>>

-----------------------------------------------------------------------------
(* DoWrite does nothing when there is nothing to send, nor when no OUT pipe was
   found, which InterfaceLife has: an OUT pipe is taken for granted here. *)
DoWrite(t) ==
  /\ pc[t] = "dowrite"
  /\ IF mWriteQueue = <<>>
       THEN Goto(t, "unlock") /\ UNCHANGED fill
       ELSE Goto(t, "prepare") /\ fill' = [e \in Endpoints |-> 0]
  /\ UNCHANGED <<mWriteQueue, mWritePending, mWriteBuf, encoded, accepted,
                 holder, portNumber, usbVars>>

(* Mutant: the test for a full buffer comes a word late. *)
PrepareWordLate(t) ==
  LET wqe == Head(mWriteQueue)
      e == Endpoint(wqe.port)
  IN
  /\ pc[t] = "prepare"
  /\ mWriteQueue # <<>>
  /\ mWriteBuf' = [mWriteBuf EXCEPT ![e][fill[e] + 1] = wqe.next]
  /\ fill' = [fill EXCEPT ![e] = @ + 1]
  /\ encoded' = [encoded EXCEPT ![e] = @ + 1]
  /\ mWriteQueue' = IF wqe.next >= wqe.last
                      THEN Tail(mWriteQueue)
                      ELSE [mWriteQueue EXCEPT ![1].next = @ + 1]
  /\ Goto(t, IF fill[e] = BufWords THEN "write1" ELSE "prepare")
  /\ UNCHANGED <<mWritePending, accepted, holder, portNumber, usbVars>>

(* Mutant: a full buffer drops the rest of the packet (bytesSent forgotten). *)
PrepareWordDrops(t) ==
  LET wqe == Head(mWriteQueue)
      e == Endpoint(wqe.port)
      words == IF wqe.next <= wqe.last THEN 1 ELSE 0
      full == fill[e] + words = BufWords
  IN
  /\ pc[t] = "prepare"
  /\ mWriteQueue # <<>>
  /\ IF words = 1
       THEN mWriteBuf' = [mWriteBuf EXCEPT ![e][fill[e] + 1] = wqe.next]
       ELSE UNCHANGED mWriteBuf
  /\ fill' = [fill EXCEPT ![e] = @ + words]
  /\ encoded' = [encoded EXCEPT ![e] = @ + words]
  /\ mWriteQueue' = IF full \/ wqe.next + words > wqe.last
                      THEN Tail(mWriteQueue)
                      ELSE [mWriteQueue EXCEPT ![1].next = @ + 1]
  /\ Goto(t, IF full THEN "write1" ELSE "prepare")
  /\ UNCHANGED <<mWritePending, accepted, holder, portNumber, usbVars>>

(* PrepareOutput, one round of its inner loop: a word of the packet at the
   front of the queue goes to the buffer of the packet's endpoint, a packet
   that is completely sent is dropped, and a full buffer ends the call. *)
PrepareWord(t) ==
  LET wqe == Head(mWriteQueue)
      e == Endpoint(wqe.port)
      words == IF wqe.next <= wqe.last THEN 1 ELSE 0
  IN
  /\ pc[t] = "prepare"
  /\ mWriteQueue # <<>>
  /\ IF words = 1
       THEN mWriteBuf' = [mWriteBuf EXCEPT ![e][fill[e] + 1] = wqe.next]
       ELSE UNCHANGED mWriteBuf
  /\ fill' = [fill EXCEPT ![e] = @ + words]
  /\ encoded' = [encoded EXCEPT ![e] = @ + words]
  /\ mWriteQueue' = IF wqe.next + words > wqe.last
                      THEN Tail(mWriteQueue)
                      ELSE [mWriteQueue EXCEPT ![1].next = @ + 1]
  /\ Goto(t, IF fill[e] + words = BufWords THEN "write1" ELSE "prepare")
  /\ UNCHANGED <<mWritePending, accepted, holder, portNumber, usbVars>>

(* PrepareOutput, queue empty: a null word concludes each buffer in use. *)
PrepareEmpty(t) ==
  /\ pc[t] = "prepare"
  /\ mWriteQueue = <<>>
  /\ mWriteBuf' = [e \in Endpoints |->
                     IF fill[e] > 0 THEN [mWriteBuf[e] EXCEPT ![fill[e] + 1] = 0]
                                    ELSE mWriteBuf[e]]
  /\ fill' = [e \in Endpoints |-> IF fill[e] > 0 THEN fill[e] + 1 ELSE 0]
  /\ Goto(t, "write1")
  /\ UNCHANGED <<mWriteQueue, mWritePending, encoded, accepted, holder,
                 portNumber, usbVars>>

(* DoWrite again: an asynchronous write of the buffer of pipe e, if it has
   words.  The result of WritePipeAsync is ignored: a write that is refused
   leaves mWritePending set and nothing outstanding. *)
WritePipe(t, e) ==
  IF fill[e] = 0
    THEN UNCHANGED <<mWritePending, inflight, faults>>
    ELSE /\ mWritePending' = TRUE
         /\ \/ /\ inflight' = [inflight EXCEPT ![e] = Append(@, fill[e])]
               /\ UNCHANGED faults
            \/ /\ faults < MaxFaults
               /\ faults' = faults + 1
               /\ UNCHANGED inflight

WritePipe1(t) ==
  /\ pc[t] = "write1"
  /\ WritePipe(t, 0)
  /\ Goto(t, "write2")
  /\ UNCHANGED <<mWriteQueue, accepted, holder, portNumber, moved, completions,
                 received, bufVars>>

WritePipe2(t) ==
  /\ pc[t] = "write2"
  /\ WritePipe(t, 1)
  /\ Goto(t, "unlock")
  /\ UNCHANGED <<mWriteQueue, accepted, holder, portNumber, moved, completions,
                 received, bufVars>>

(* Send and WriteCallback end in Unlock. *)
Unlock(t) ==
  /\ pc[t] = "unlock"
  /\ holder' = NoThread
  /\ Goto(t, "idle")
  /\ UNCHANGED <<mWriteQueue, mWritePending, accepted, portNumber, usbVars, bufVars>>

-----------------------------------------------------------------------------
(* Mutant: the result of the write is not looked at. *)
WriteCallbackIgnoresResult ==
  /\ pc[IOThread] = "idle"
  /\ completions # <<>>
  /\ completions' = Tail(completions)
  /\ Goto(IOThread, "callback")
  /\ UNCHANGED <<mWriteQueue, mWritePending, accepted, holder, portNumber,
                 inflight, moved, faults, received, bufVars>>

(* WriteCallback, run for the oldest completion: an error ends it at once,
   with mWritePending still set. *)
WriteCallback ==
  /\ pc[IOThread] = "idle"
  /\ completions # <<>>
  /\ completions' = Tail(completions)
  /\ Goto(IOThread, IF Head(completions) = "success" THEN "callback" ELSE "idle")
  /\ UNCHANGED <<mWriteQueue, mWritePending, accepted, holder, portNumber,
                 inflight, moved, faults, received, bufVars>>

(* Mutant: the callback leaves mWritePending set for DoWrite to sort out. *)
CallbackKeepsPending ==
  /\ pc[IOThread] = "callback"
  /\ holder = NoThread
  /\ holder' = IOThread
  /\ Goto(IOThread, "dowrite")
  /\ UNCHANGED <<mWriteQueue, mWritePending, accepted, portNumber, usbVars, bufVars>>

(* Mutant: the callback chains no other write. *)
CallbackChainsNothing ==
  /\ pc[IOThread] = "callback"
  /\ holder = NoThread
  /\ holder' = IOThread
  /\ mWritePending' = FALSE
  /\ Goto(IOThread, "unlock")
  /\ UNCHANGED <<mWriteQueue, accepted, portNumber, usbVars, bufVars>>

(* WriteCallback, inside the lock: chain another write. *)
CallbackLocked ==
  /\ pc[IOThread] = "callback"
  /\ holder = NoThread
  /\ holder' = IOThread
  /\ mWritePending' = FALSE
  /\ Goto(IOThread, "dowrite")
  /\ UNCHANGED <<mWriteQueue, accepted, portNumber, usbVars, bufVars>>

-----------------------------------------------------------------------------
(* The device (external): it reads the oldest outstanding write of endpoint e
   word by word, then the write completes, or it fails before that. *)
TransferWord(e) ==
  /\ inflight[e] # <<>>
  /\ moved[e] < Head(inflight[e])
  /\ moved' = [moved EXCEPT ![e] = @ + 1]
  /\ LET word == mWriteBuf[e][moved[e] + 1] IN
     received' = IF word = 0 THEN received
                 ELSE [received EXCEPT ![e] = Append(@, word)]
  /\ UNCHANGED <<mWriteQueue, mWritePending, accepted, lockVars, bufVars,
                 inflight, completions, faults>>

TransferEnd(e, result) ==
  /\ inflight' = [inflight EXCEPT ![e] = Tail(@)]
  /\ moved' = [moved EXCEPT ![e] = 0]
  /\ completions' = Append(completions, result)
  /\ UNCHANGED <<mWriteQueue, mWritePending, accepted, lockVars, bufVars, received>>

TransferDone(e) ==
  /\ inflight[e] # <<>>
  /\ moved[e] = Head(inflight[e])
  /\ TransferEnd(e, "success")
  /\ UNCHANGED faults

TransferError(e) ==
  /\ inflight[e] # <<>>
  /\ faults < MaxFaults
  /\ faults' = faults + 1
  /\ TransferEnd(e, "error")

-----------------------------------------------------------------------------
WriteStep(t) ==
  \/ DoWrite(t) \/ PrepareWord(t) \/ PrepareEmpty(t)
  \/ WritePipe1(t) \/ WritePipe2(t) \/ Unlock(t)

Next ==
  \/ \E t \in Senders : \/ \E port \in Ports : SendCall(t, port)
                        \/ SendPacket(t)
                        \/ SendKick(t)
  \/ \E t \in Threads : WriteStep(t)
  \/ WriteCallback
  \/ CallbackLocked
  \/ \E e \in Endpoints : TransferWord(e) \/ TransferDone(e) \/ TransferError(e)

Spec == Init /\ [][Next]_vars

(* A thread inside Send or WriteCallback keeps running, the run loop hands
   over completions, the device keeps reading, and the lock, which the senders
   may take again and again, is not denied to the I/O thread for ever.  No
   client has to call Send. *)
Fairness ==
  /\ \A t \in Senders : WF_vars(SendKick(t))
  /\ \A t \in Threads : WF_vars(WriteStep(t))
  /\ WF_vars(WriteCallback)
  /\ SF_vars(CallbackLocked)
  /\ \A e \in Endpoints : WF_vars(TransferWord(e)) /\ WF_vars(TransferDone(e))

FairSpec == Spec /\ Fairness

-----------------------------------------------------------------------------
Outstanding == \E e \in Endpoints : inflight[e] # <<>>

(* No packet is left in the queue unless a write is flagged as pending whose
   callback will come for it: Send may skip DoWrite because the callback also
   looks at the queue, under the same lock. *)
NoStrandedPackets == holder = NoThread /\ mWriteQueue # <<>> => mWritePending

(* The wake-up of the writer is never lost: while packets wait, some thread is
   in the lock, or a write is outstanding, or its completion has still to be
   handled.  Only a failed write can break that. *)
NoLostWakeup ==
  mWriteQueue # <<>> /\ faults = 0 =>
    \/ holder # NoThread
    \/ Outstanding
    \/ completions # <<>>
    \/ pc[IOThread] = "callback"

(* DoWrite is only called when no write is pending: so says its comment, and
   so the buffer is free to be filled.  On a device with two OUT endpoints it
   does not hold, as the first completion calls DoWrite. *)
DoWriteOnlyWhenIdle == \A t \in Threads : pc[t] = "dowrite" => ~Outstanding

(* A buffer does not change while the device may still read it. *)
BufferNotReused ==
  [][\A e \in Endpoints : inflight[e] # <<>> => mWriteBuf'[e] = mWriteBuf[e]]_vars

(* An endpoint receives the words in the order in which they were accepted,
   each once and with none left out, even after a failed write. *)
PipeOrder == \A e \in Endpoints : \A i \in 1..Len(received[e]) : received[e][i] = i

(* No word is lost or doubled between Send and the buffers: what an endpoint
   has accepted is what was encoded followed by what is still queued for it,
   packet by packet. *)
QueuedFor(e) == {i \in DOMAIN mWriteQueue : Endpoint(mWriteQueue[i].port) = e}

Follows(i, j, own) == i < j /\ \A k \in own : k <= i \/ j <= k

QueueOrder == \A e \in Endpoints :
  LET own == QueuedFor(e) IN
  /\ own = {} => encoded[e] = accepted[e]
  /\ \A i \in own :
       /\ (\A j \in own : i <= j) => mWriteQueue[i].next = encoded[e] + 1
       /\ (\A j \in own : j <= i) => mWriteQueue[i].last = accepted[e]
       /\ \A j \in own :
            Follows(i, j, own) => mWriteQueue[j].next = mWriteQueue[i].last + 1

(* When the clients stop sending (at MaxAccepted at the latest), every word
   that was accepted gets into a write buffer, on devices with two pipes too,
   as long as no write fails. *)
EveryWordEncoded ==
  [](faults = 0) => <>[](\A e \in Endpoints : encoded[e] = accepted[e])

(* The write path is a FIFO channel per endpoint, and while no write fails it
   delivers all that was accepted. *)
Pipe == INSTANCE OutputPipe

ImplementsPipe == Pipe!Spec
DeliversAll == [](faults = 0) => Pipe!Fairness

-----------------------------------------------------------------------------
(* The inductive invariant on any device.  A thread in the lock is the holder;
   a buffer is never written past its end, with room for the null word; the
   queue is only left with packets in it after a write was started; and a set
   flag has a write, a completion or a callback behind it until one fails. *)
InsideLock == {"sending", "dowrite", "prepare", "write1", "write2", "unlock"}

LockInv ==
  /\ \A t \in Threads : pc[t] \in InsideLock <=> holder = t
  /\ \A t \in Senders : pc[t] # "callback"
  /\ pc[IOThread] # "sending"

BufferInv ==
  /\ \A t \in Threads : pc[t] = "prepare" => \A e \in Endpoints : fill[e] < BufWords
  /\ \A e \in Endpoints : moved[e] <= IF inflight[e] = <<>> THEN 0 ELSE Head(inflight[e])

FlagInv ==
  /\ NoStrandedPackets
  /\ \A t \in Threads : mWriteQueue # <<>> =>
       /\ pc[t] = "unlock" => mWritePending
       /\ pc[t] = "write1" => \E e \in Endpoints : fill[e] > 0
       /\ pc[t] = "write2" => mWritePending \/ fill[1] > 0

WakeInv ==
  faults = 0 =>
    /\ \A i \in 1..Len(completions) : completions[i] = "success"
    /\ mWritePending =>
         Outstanding \/ completions # <<>> \/ pc[IOThread] = "callback"

IInv == TypeOK /\ LockInv /\ BufferInv /\ FlagInv /\ WakeInv

(* Its strengthening on a device with one OUT endpoint d.  At most one write,
   completion or callback exists, none while the flag is clear; the queue
   continues what was encoded; and the words still in the buffer are those
   encoded but not received, followed by nulls. *)
OneEndpoint(d) == \A port \in Ports : Endpoint(port) = d

Preparing == \E t \in Threads : pc[t] \in {"prepare", "write1", "write2"}

OneWriteInv(d) ==
  /\ \A e \in Endpoints \ {d} : /\ fill[e] = 0 /\ inflight[e] = <<>>
                                /\ received[e] = <<>> /\ accepted[e] = 0
  /\ Len(inflight[d]) <= 1 /\ Len(completions) <= 1
  /\ inflight[d] # <<>> => completions = <<>>
  /\ pc[IOThread] = "callback" => inflight[d] = <<>> /\ completions = <<>>
  /\ ~mWritePending => /\ inflight[d] = <<>> /\ completions = <<>>
                       /\ pc[IOThread] # "callback"
  /\ \A t \in Threads : /\ pc[t] \in {"dowrite", "prepare", "write1"} => ~mWritePending
                        /\ pc[t] = "write2" => (mWritePending <=> fill[0] > 0)

QueueInv(d) ==
  /\ IF mWriteQueue = <<>> THEN encoded[d] = accepted[d]
       ELSE /\ mWriteQueue[1].next = encoded[d] + 1
            /\ mWriteQueue[Len(mWriteQueue)].last = accepted[d]
  /\ \A i \in 1..Len(mWriteQueue) :
       /\ mWriteQueue[i].next <= mWriteQueue[i].last + 1
       /\ mWriteQueue[i].last <= accepted[d]
       /\ i < Len(mWriteQueue) => mWriteQueue[i + 1].next = mWriteQueue[i].last + 1

InBuffer(d, n) ==
  /\ encoded[d] <= Len(received[d]) + n - moved[d]
  /\ \A i \in (moved[d] + 1)..n :
       LET word == Len(received[d]) + i - moved[d] IN
       mWriteBuf[d][i] = IF word <= encoded[d] THEN word ELSE 0

WordInv(d) ==
  /\ \A i \in 1..Len(received[d]) : received[d][i] = i
  /\ Len(received[d]) <= encoded[d]
  /\ inflight[d] # <<>> => InBuffer(d, Head(inflight[d]))
  /\ ~mWritePending => IF Preparing THEN InBuffer(d, fill[d])
                                    ELSE encoded[d] = Len(received[d])
  /\ \A t \in Threads : pc[t] = "prepare" => encoded[d] = Len(received[d]) + fill[d]
  /\ completions = <<"success">> \/ pc[IOThread] = "callback" =>
       encoded[d] = Len(received[d])

OneInv == \A d \in Endpoints : OneEndpoint(d) =>
            OneWriteInv(d) /\ QueueInv(d) /\ WordInv(d)
=============================================================================
