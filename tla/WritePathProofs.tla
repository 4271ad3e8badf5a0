--------------------------- MODULE WritePathProofs ---------------------------
(* Proofs about the write path, for any threads, ports, buffer size, bounds
   and number of failing writes. *)
EXTENDS WritePath, SequenceTheorems, TLAPS

LEMMA EndpointType == \A port \in Ports : Endpoint(port) \in Endpoints
BY WritePathAssumption DEF Endpoint, Endpoints

LEMMA TypeInit == Init => TypeOK
<1> SUFFICES ASSUME Init PROVE TypeOK
  OBVIOUS
<1> USE WritePathAssumption DEF Init
<1>1. /\ mWriteBuf \in [Endpoints -> [1..BufWords -> Nat]]
      /\ fill \in [Endpoints -> 0..BufWords]
      /\ moved \in [Endpoints -> 0..BufWords]
  OBVIOUS
<1>2. /\ inflight \in [Endpoints -> Seq(1..BufWords)]
      /\ received \in [Endpoints -> Seq(Nat)]
      /\ mWriteQueue \in Seq([port : Ports, next : Nat, last : Nat])
      /\ completions \in Seq({"success", "error"})
  OBVIOUS
<1>3. /\ accepted \in [Endpoints -> Nat] /\ encoded \in [Endpoints -> Nat]
      /\ faults \in 0..MaxFaults
  OBVIOUS
<1> QED
  BY <1>1, <1>2, <1>3 DEF TypeOK

LEMMA WriteType ==
  ASSUME TypeOK, NEW t \in Threads, NEW e \in Endpoints, WritePipe(t, e)
  PROVE  /\ inflight' \in [Endpoints -> Seq(1..BufWords)]
         /\ faults' \in 0..MaxFaults
         /\ mWritePending' \in BOOLEAN
<1> USE WritePathAssumption DEF TypeOK, WritePipe
<1>1. CASE fill[e] = 0
  BY <1>1
<1>2. CASE fill[e] # 0
  <2>1. fill[e] \in 1..BufWords
    BY <1>2
  <2>2. Append(inflight[e], fill[e]) \in Seq(1..BufWords)
    BY <2>1, AppendProperties
  <2>3. inflight' \in [Endpoints -> Seq(1..BufWords)]
    BY <1>2, <2>2
  <2>4. faults' \in 0..MaxFaults
    BY <1>2, SMTT(30)
  <2> QED
    BY <1>2, <2>3, <2>4
<1> QED
  BY <1>1, <1>2

LEMMA TransferEndType ==
  ASSUME TypeOK, NEW e \in Endpoints, NEW result \in {"success", "error"},
         inflight[e] # <<>>, TransferEnd(e, result), faults' \in 0..MaxFaults
  PROVE  TypeOK'
<1> USE WritePathAssumption DEF TypeOK, TransferEnd, lockVars, bufVars
<1>1. Tail(inflight[e]) \in Seq(1..BufWords)
  BY HeadTailProperties
<1>2. inflight' \in [Endpoints -> Seq(1..BufWords)]
  BY <1>1
<1>3. moved' \in [Endpoints -> 0..BufWords]
  OBVIOUS
<1>4. completions' \in Seq({"success", "error"})
  BY AppendProperties
<1> QED
  BY <1>2, <1>3, <1>4

(* The packet at the front of the queue and its endpoint, in PrepareWord. *)
LEMMA FrontType ==
  ASSUME TypeOK, mWriteQueue # <<>>
  PROVE  /\ Head(mWriteQueue) \in [port : Ports, next : Nat, last : Nat]
         /\ Endpoint(Head(mWriteQueue).port) \in Endpoints
<1>1. Head(mWriteQueue) \in [port : Ports, next : Nat, last : Nat]
  BY HeadTailProperties DEF TypeOK
<1> QED
  BY <1>1, EndpointType

(* The lock admits one thread. *)
LEMMA OneInside ==
  ASSUME LockInv, NEW s \in Threads, NEW t \in Threads,
         pc[s] \in InsideLock, pc[t] \in InsideLock
  PROVE  s = t
BY DEF LockInv

(* One round of PrepareOutput, in terms of the endpoint and of whether a word
   was made. *)
LEMMA RoundOfPrepare ==
  ASSUME TypeOK, NEW t \in Threads, PrepareWord(t)
  PROVE  \E e \in Endpoints, words \in {0, 1} :
           /\ e = Endpoint(mWriteQueue[1].port)
           /\ words = IF mWriteQueue[1].next <= mWriteQueue[1].last THEN 1 ELSE 0
           /\ mWriteQueue # <<>> /\ pc[t] = "prepare"
           /\ fill' = [fill EXCEPT ![e] = @ + words]
           /\ pc' = [pc EXCEPT ![t] = IF fill[e] + words = BufWords
                                       THEN "write1" ELSE "prepare"]
           /\ UNCHANGED <<mWritePending, accepted, holder, portNumber, usbVars>>
<1>1. mWriteQueue # <<>> /\ Head(mWriteQueue) = mWriteQueue[1]
  BY DEF PrepareWord, TypeOK
<1> QED
  BY <1>1, FrontType DEF PrepareWord, Goto

LEMMA TypeStep == TypeOK /\ BufferInv /\ [Next]_vars => TypeOK'
<1> SUFFICES ASSUME TypeOK, BufferInv, [Next]_vars
             PROVE  TypeOK'
  OBVIOUS
<1> USE WritePathAssumption DEF Goto, lockVars, usbVars, bufVars
<1>1. ASSUME NEW t \in Senders, NEW port \in Ports, SendCall(t, port)
      PROVE  TypeOK'
  BY <1>1 DEF SendCall, Threads, TypeOK
<1>2. ASSUME NEW t \in Senders, SendPacket(t)
      PROVE  TypeOK'
  <2> DEFINE e == Endpoint(portNumber[t])
  <2>1. PICK words \in 0..MaxPacketWords :
          /\ mWriteQueue' = Append(mWriteQueue, [port |-> portNumber[t],
                                                 next |-> accepted[e] + 1,
                                                 last |-> accepted[e] + words])
          /\ accepted' = [accepted EXCEPT ![e] = @ + words]
          /\ UNCHANGED <<mWritePending, lockVars, usbVars, bufVars>>
    BY <1>2 DEF SendPacket
  <2>2. e \in Endpoints
    BY EndpointType DEF TypeOK
  <2> HIDE DEF e
  <2>3. /\ words \in Nat /\ accepted[e] + words \in Nat
        /\ accepted[e] + 1 \in Nat /\ portNumber[t] \in Ports
    BY <2>2, SMTT(30) DEF TypeOK
  <2>4. mWriteQueue' \in Seq([port : Ports, next : Nat, last : Nat])
    BY <2>1, <2>3, AppendProperties DEF TypeOK
  <2>5. accepted' \in [Endpoints -> Nat]
    BY <2>1, <2>2, <2>3 DEF TypeOK
  <2> QED
    BY <2>1, <2>4, <2>5 DEF TypeOK
<1>3. ASSUME NEW t \in Senders, SendKick(t)
      PROVE  TypeOK'
  BY <1>3 DEF SendKick, Threads, TypeOK
<1>4. ASSUME NEW t \in Threads, DoWrite(t)
      PROVE  TypeOK'
  <2>1. fill' = fill \/ fill' = [e \in Endpoints |-> 0]
    BY <1>4 DEF DoWrite
  <2>2. fill' \in [Endpoints -> 0..BufWords]
    <3>1. 0 \in 0..BufWords /\ fill \in [Endpoints -> 0..BufWords]
      BY DEF TypeOK
    <3> QED
      BY <2>1, <3>1
  <2>3. pc' = [pc EXCEPT ![t] = "unlock"] \/ pc' = [pc EXCEPT ![t] = "prepare"]
    BY <1>4 DEF DoWrite
  <2> QED
    BY <1>4, <2>2, <2>3 DEF DoWrite, TypeOK
<1>5. ASSUME NEW t \in Threads, PrepareWord(t)
      PROVE  TypeOK'
  <2> DEFINE wqe == Head(mWriteQueue)
             e == Endpoint(wqe.port)
             words == IF wqe.next <= wqe.last THEN 1 ELSE 0
  <2>1. /\ mWriteQueue # <<>>
        /\ pc[t] = "prepare"
        /\ mWriteBuf' = IF words = 1
             THEN [mWriteBuf EXCEPT ![e] = [mWriteBuf[e] EXCEPT ![fill[e] + 1] = wqe.next]]
             ELSE mWriteBuf
        /\ fill' = [fill EXCEPT ![e] = @ + words]
        /\ encoded' = [encoded EXCEPT ![e] = @ + words]
        /\ \/ mWriteQueue' = Tail(mWriteQueue)
           \/ mWriteQueue' = [mWriteQueue EXCEPT ![1] = [mWriteQueue[1] EXCEPT !.next = @ + 1]]
        /\ \/ pc' = [pc EXCEPT ![t] = "write1"]
           \/ pc' = [pc EXCEPT ![t] = "prepare"]
        /\ UNCHANGED <<mWritePending, accepted, holder, portNumber, usbVars>>
    BY <1>5 DEF PrepareWord
  <2>2. /\ wqe \in [port : Ports, next : Nat, last : Nat]
        /\ e \in Endpoints
        /\ words \in {0, 1}
    BY <2>1, FrontType
  <2> HIDE DEF words, e, wqe
  <2>3. fill[e] \in 0..(BufWords - 1)
    BY <2>1, <2>2, SMTT(30) DEF BufferInv, TypeOK
  <2>4. mWriteBuf' \in [Endpoints -> [1..BufWords -> Nat]]
    <3>1. fill[e] + 1 \in 1..BufWords /\ wqe.next \in Nat
      BY <2>2, <2>3
    <3>2. [mWriteBuf[e] EXCEPT ![fill[e] + 1] = wqe.next] \in [1..BufWords -> Nat]
      BY <2>2, <3>1 DEF TypeOK
    <3> QED
      BY <2>1, <2>2, <3>2 DEF TypeOK
  <2>5. fill' \in [Endpoints -> 0..BufWords]
    <3>1. fill[e] + words \in 0..BufWords
      BY <2>2, <2>3
    <3> QED
      BY <2>1, <2>2, <3>1 DEF TypeOK
  <2>6. encoded' \in [Endpoints -> Nat]
    <3>1. encoded[e] + words \in Nat
      BY <2>2 DEF TypeOK
    <3> QED
      BY <2>1, <2>2, <3>1 DEF TypeOK
  <2>7. mWriteQueue' \in Seq([port : Ports, next : Nat, last : Nat])
    <3> DEFINE Elem == [port : Ports, next : Nat, last : Nat]
    <3>1. CASE mWriteQueue' = Tail(mWriteQueue)
      BY <2>1, <3>1, HeadTailProperties DEF TypeOK
    <3>2. CASE mWriteQueue' = [mWriteQueue EXCEPT ![1] = [mWriteQueue[1] EXCEPT !.next = @ + 1]]
      <4>1. mWriteQueue \in Seq(Elem)
        BY DEF TypeOK
      <4> HIDE DEF Elem
      <4>4. 1 \in 1..Len(mWriteQueue) /\ mWriteQueue[1] \in Elem
        BY <2>1, <4>1
      <4>2. [mWriteQueue[1] EXCEPT !.next = @ + 1] \in Elem
        BY <4>4 DEF Elem
      <4>3. mWriteQueue' \in Seq(Elem)
        BY <3>2, <4>1, <4>2, <4>4, ExceptSeq
      <4> QED
        BY <4>3 DEF Elem
    <3> QED
      BY <2>1, <3>1, <3>2
  <2> QED
    BY <2>1, <2>4, <2>5, <2>6, <2>7 DEF TypeOK
<1>6. ASSUME NEW t \in Threads, PrepareEmpty(t)
      PROVE  TypeOK'
  <2>1. \A e \in Endpoints : fill[e] + 1 \in 1..BufWords
    BY <1>6 DEF PrepareEmpty, BufferInv, TypeOK
  <2>2. fill' \in [Endpoints -> 0..BufWords]
    BY <1>6, <2>1 DEF PrepareEmpty, TypeOK
  <2>3. mWriteBuf' \in [Endpoints -> [1..BufWords -> Nat]]
    BY <1>6, <2>1 DEF PrepareEmpty, TypeOK
  <2> QED
    BY <1>6, <2>2, <2>3 DEF PrepareEmpty, TypeOK
<1>7. ASSUME NEW t \in Threads, WritePipe1(t)
      PROVE  TypeOK'
  <2>1. WritePipe(t, 0) /\ 0 \in Endpoints
    BY <1>7 DEF WritePipe1, Endpoints
  <2>2. /\ inflight' \in [Endpoints -> Seq(1..BufWords)]
        /\ faults' \in 0..MaxFaults /\ mWritePending' \in BOOLEAN
    BY <2>1, WriteType
  <2> QED
    BY <1>7, <2>2 DEF WritePipe1, TypeOK
<1>8. ASSUME NEW t \in Threads, WritePipe2(t)
      PROVE  TypeOK'
  <2>1. WritePipe(t, 1) /\ 1 \in Endpoints
    BY <1>8 DEF WritePipe2, Endpoints
  <2>2. /\ inflight' \in [Endpoints -> Seq(1..BufWords)]
        /\ faults' \in 0..MaxFaults /\ mWritePending' \in BOOLEAN
    BY <2>1, WriteType
  <2> QED
    BY <1>8, <2>2 DEF WritePipe2, TypeOK
<1>9. ASSUME NEW t \in Threads, Unlock(t)
      PROVE  TypeOK'
  BY <1>9 DEF Unlock, TypeOK
<1>10. CASE WriteCallback
  <2>1. Tail(completions) \in Seq({"success", "error"})
    BY <1>10, HeadTailProperties DEF WriteCallback, TypeOK
  <2> QED
    BY <1>10, <2>1 DEF WriteCallback, Threads, TypeOK
<1>11. CASE CallbackLocked
  BY <1>11 DEF CallbackLocked, Threads, TypeOK
<1>12. ASSUME NEW e \in Endpoints, TransferWord(e)
       PROVE  TypeOK'
  <2>1. Head(inflight[e]) \in 1..BufWords
    BY <1>12, HeadTailProperties DEF TransferWord, TypeOK
  <2>2. moved[e] < Head(inflight[e]) /\ moved[e] \in Nat
    BY <1>12 DEF TransferWord, TypeOK
  <2>6. moved[e] + 1 \in 1..BufWords
    BY <2>1, <2>2
  <2>3. moved' \in [Endpoints -> 0..BufWords]
    <3>1. moved' = [moved EXCEPT ![e] = moved[e] + 1] /\ moved[e] + 1 \in 0..BufWords
      BY <1>12, <2>6 DEF TransferWord
    <3> QED
      BY <3>1 DEF TypeOK
  <2>4. mWriteBuf[e][moved[e] + 1] \in Nat
    BY <2>6 DEF TypeOK
  <2>5. received' \in [Endpoints -> Seq(Nat)]
    BY <1>12, <2>4, SMTT(30) DEF TransferWord, TypeOK
  <2> QED
    BY <1>12, <2>3, <2>5 DEF TransferWord, TypeOK
<1>13. ASSUME NEW e \in Endpoints, TransferDone(e)
       PROVE  TypeOK'
  <2>1. inflight[e] # <<>> /\ TransferEnd(e, "success") /\ faults' \in 0..MaxFaults
    BY <1>13 DEF TransferDone, TypeOK
  <2> QED
    BY <2>1, TransferEndType
<1>14. ASSUME NEW e \in Endpoints, TransferError(e)
       PROVE  TypeOK'
  <2>1. inflight[e] # <<>> /\ TransferEnd(e, "error") /\ faults' \in 0..MaxFaults
    BY <1>14 DEF TransferError, TypeOK
  <2> QED
    BY <2>1, TransferEndType
<1>15. CASE UNCHANGED vars
  BY <1>15 DEF vars, TypeOK
<1> QED
  BY <1>1, <1>2, <1>3, <1>4, <1>5, <1>6, <1>7, <1>8, <1>9, <1>10, <1>11, <1>12,
     <1>13, <1>14, <1>15 DEF Next, WriteStep

(* Whoever is between Lock and Unlock is the holder of the mutex. *)
LEMMA LockStep == TypeOK /\ LockInv /\ [Next]_vars => LockInv'
<1> SUFFICES ASSUME TypeOK, LockInv, [Next]_vars
             PROVE  LockInv'
  OBVIOUS
<1> USE WritePathAssumption DEF LockInv, InsideLock, Goto, Threads, lockVars
<1>0. /\ pc \in [Threads -> {"idle", "sending", "callback", "dowrite", "prepare",
                             "write1", "write2", "unlock"}]
      /\ Senders \subseteq Threads /\ IOThread \in Threads
  BY DEF TypeOK
<1>1. ASSUME NEW t \in Senders, NEW port \in Ports, SendCall(t, port)
      PROVE  LockInv'
  BY <1>0, <1>1 DEF SendCall
<1>2. ASSUME NEW t \in Senders, SendPacket(t)
      PROVE  LockInv'
  BY <1>2 DEF SendPacket
<1>3. ASSUME NEW t \in Senders, SendKick(t)
      PROVE  LockInv'
  BY <1>3 DEF SendKick
<1>4. ASSUME NEW t \in Threads, DoWrite(t)
      PROVE  LockInv'
  <2>1. PICK l \in {"unlock", "prepare"} : pc' = [pc EXCEPT ![t] = l]
    BY <1>4 DEF DoWrite
  <2> QED
    BY <1>0, <1>4, <2>1 DEF DoWrite
<1>5. ASSUME NEW t \in Threads, PrepareWord(t)
      PROVE  LockInv'
  BY <1>5 DEF PrepareWord
<1>6. ASSUME NEW t \in Threads, PrepareEmpty(t)
      PROVE  LockInv'
  BY <1>6 DEF PrepareEmpty
<1>7. ASSUME NEW t \in Threads, WritePipe1(t)
      PROVE  LockInv'
  BY <1>7 DEF WritePipe1, WritePipe
<1>8. ASSUME NEW t \in Threads, WritePipe2(t)
      PROVE  LockInv'
  BY <1>8 DEF WritePipe2, WritePipe
<1>9. ASSUME NEW t \in Threads, Unlock(t)
      PROVE  LockInv'
  BY <1>0, <1>9 DEF Unlock
<1>10. CASE WriteCallback
  BY <1>10 DEF WriteCallback
<1>11. CASE CallbackLocked
  BY <1>0, <1>11 DEF CallbackLocked
<1>12. ASSUME NEW e \in Endpoints, TransferWord(e)
       PROVE  LockInv'
  BY <1>12 DEF TransferWord
<1>13. ASSUME NEW e \in Endpoints, TransferDone(e)
       PROVE  LockInv'
  BY <1>13 DEF TransferDone, TransferEnd
<1>14. ASSUME NEW e \in Endpoints, TransferError(e)
       PROVE  LockInv'
  BY <1>14 DEF TransferError, TransferEnd
<1>15. CASE UNCHANGED vars
  BY <1>15 DEF vars
<1> QED
  BY <1>1, <1>2, <1>3, <1>4, <1>5, <1>6, <1>7, <1>8, <1>9, <1>10, <1>11, <1>12,
     <1>13, <1>14, <1>15 DEF Next, WriteStep

(* A new write does not disturb the transfer of the one before it. *)
LEMMA WriteKeepsHead ==
  ASSUME TypeOK, BufferInv, NEW t \in Threads, NEW d \in Endpoints, WritePipe(t, d),
         UNCHANGED moved
  PROVE  \A e \in Endpoints :
           moved'[e] <= IF inflight'[e] = <<>> THEN 0 ELSE Head(inflight'[e])
<1>1. CASE UNCHANGED inflight
  BY <1>1 DEF BufferInv
<1>2. CASE fill[d] # 0 /\ inflight' = [inflight EXCEPT ![d] = Append(@, fill[d])]
  <2>1. inflight[d] \in Seq(1..BufWords) /\ fill[d] \in 1..BufWords /\ moved[d] \in Nat
    BY <1>2, WritePathAssumption DEF TypeOK
  <2>2. /\ Append(inflight[d], fill[d]) # <<>>
        /\ Head(Append(inflight[d], fill[d])) =
             IF inflight[d] = <<>> THEN fill[d] ELSE Head(inflight[d])
    <3>1. Append(inflight[d], fill[d]) # <<>>
      BY <2>1, AppendProperties
    <3>2. Head(Append(inflight[d], fill[d])) =
             IF inflight[d] = <<>> THEN fill[d] ELSE Head(inflight[d])
      BY <2>1, HeadTailAppend
    <3> QED
      BY <3>1, <3>2
  <2>3. moved[d] <= Head(Append(inflight[d], fill[d]))
    BY <2>1, <2>2 DEF BufferInv
  <2>4. \A e \in Endpoints : inflight'[e] = IF e = d THEN Append(inflight[d], fill[d]) ELSE inflight[e]
    BY <1>2 DEF TypeOK
  <2> QED
    BY <2>2, <2>3, <2>4 DEF BufferInv
<1> QED
  BY <1>1, <1>2 DEF WritePipe

(* The last transfer on a pipe ends with nothing moved of the next one. *)
LEMMA EndKeepsMoved ==
  ASSUME TypeOK, BufferInv, NEW d \in Endpoints, NEW result, inflight[d] # <<>>,
         TransferEnd(d, result)
  PROVE  \A e \in Endpoints :
           moved'[e] <= IF inflight'[e] = <<>> THEN 0 ELSE Head(inflight'[e])
<1>1. /\ inflight' = [inflight EXCEPT ![d] = Tail(@)]
      /\ moved' = [moved EXCEPT ![d] = 0]
  BY DEF TransferEnd
<1>2. Tail(inflight[d]) \in Seq(1..BufWords)
  BY HeadTailProperties DEF TypeOK
<1>3. Tail(inflight[d]) # <<>> => Head(Tail(inflight[d])) \in 1..BufWords
  BY <1>2, HeadTailProperties
<1>4. 0 <= IF Tail(inflight[d]) = <<>> THEN 0 ELSE Head(Tail(inflight[d]))
  BY <1>3, WritePathAssumption
<1>5. /\ inflight'[d] = Tail(inflight[d]) /\ moved'[d] = 0
      /\ \A e \in Endpoints : e # d => inflight'[e] = inflight[e] /\ moved'[e] = moved[e]
  BY <1>1 DEF TypeOK
<1> QED
  BY <1>4, <1>5 DEF BufferInv

(* No buffer is full while PrepareOutput runs, and no transfer runs past its write. *)
LEMMA BufferStep == TypeOK /\ LockInv /\ BufferInv /\ [Next]_vars => BufferInv'
<1> SUFFICES ASSUME TypeOK, LockInv, BufferInv, [Next]_vars
             PROVE  BufferInv'
  OBVIOUS
<1> USE WritePathAssumption DEF BufferInv, Goto, lockVars, usbVars, bufVars
<1>1. ASSUME NEW t \in Senders, NEW port \in Ports, SendCall(t, port)
      PROVE  BufferInv'
  BY <1>1 DEF SendCall
<1>2. ASSUME NEW t \in Senders, SendPacket(t)
      PROVE  BufferInv'
  BY <1>2 DEF SendPacket
<1>3. ASSUME NEW t \in Senders, SendKick(t)
      PROVE  BufferInv'
  BY <1>3 DEF SendKick
<1>4. ASSUME NEW t \in Threads, DoWrite(t)
      PROVE  BufferInv'
  <2>1. ASSUME NEW s \in Threads, pc'[s] = "prepare", NEW e \in Endpoints
        PROVE  fill'[e] < BufWords
    <3>1. s = t
      <4>1. PICK l \in {"unlock", "prepare"} : pc' = [pc EXCEPT ![t] = l] /\ pc[t] = "dowrite"
        BY <1>4 DEF DoWrite
      <4>2. s = t \/ pc[s] = "prepare"
        BY <2>1, <4>1 DEF TypeOK
      <4> QED
        BY <4>1, <4>2, OneInside DEF InsideLock
    <3>2. fill' = [d \in Endpoints |-> 0]
      BY <1>4, <2>1, <3>1 DEF DoWrite, TypeOK
    <3> QED
      BY <3>2
  <2> QED
    BY <1>4, <2>1 DEF DoWrite
<1>5. ASSUME NEW t \in Threads, PrepareWord(t)
      PROVE  BufferInv'
  <2>1. PICK e \in Endpoints, words \in {0, 1} :
          /\ pc[t] = "prepare"
          /\ fill' = [fill EXCEPT ![e] = @ + words]
          /\ pc' = [pc EXCEPT ![t] = IF fill[e] + words = BufWords
                                      THEN "write1" ELSE "prepare"]
          /\ UNCHANGED usbVars
    BY <1>5, RoundOfPrepare
  <2>2. ASSUME NEW s \in Threads, pc'[s] = "prepare", NEW d \in Endpoints
        PROVE  fill'[d] < BufWords
    <3>1. s = t
      BY <2>1, <2>2, OneInside DEF InsideLock
    <3>2. fill[e] + words # BufWords
      BY <2>1, <2>2, <3>1 DEF TypeOK
    <3>3. fill[d] < BufWords /\ fill[d] \in Nat /\ fill[e] < BufWords /\ fill[e] \in Nat
      BY <2>1 DEF TypeOK
    <3>4. fill'[d] = IF d = e THEN fill[d] + words ELSE fill[d]
      BY <2>1 DEF TypeOK
    <3> QED
      BY <3>2, <3>3, <3>4
  <2> QED
    BY <2>1, <2>2
<1>6. ASSUME NEW t \in Threads, PrepareEmpty(t)
      PROVE  BufferInv'
  <2>1. pc' = [pc EXCEPT ![t] = "write1"] /\ pc[t] = "prepare" /\ UNCHANGED usbVars
    BY <1>6 DEF PrepareEmpty
  <2>2. \A s \in Threads : pc'[s] # "prepare"
    BY <2>1, OneInside DEF TypeOK, InsideLock
  <2> QED
    BY <2>1, <2>2
<1>7. ASSUME NEW t \in Threads, WritePipe1(t)
      PROVE  BufferInv'
  <2>1. /\ pc' = [pc EXCEPT ![t] = "write2"]
        /\ UNCHANGED <<fill, moved>> /\ WritePipe(t, 0) /\ 0 \in Endpoints
    BY <1>7 DEF WritePipe1, Endpoints
  <2>2. \A e \in Endpoints : moved'[e] <= IF inflight'[e] = <<>> THEN 0 ELSE Head(inflight'[e])
    BY <2>1, WriteKeepsHead
  <2> QED
    BY <2>1, <2>2 DEF TypeOK
<1>8. ASSUME NEW t \in Threads, WritePipe2(t)
      PROVE  BufferInv'
  <2>1. /\ pc' = [pc EXCEPT ![t] = "unlock"]
        /\ UNCHANGED <<fill, moved>> /\ WritePipe(t, 1) /\ 1 \in Endpoints
    BY <1>8 DEF WritePipe2, Endpoints
  <2>2. \A e \in Endpoints : moved'[e] <= IF inflight'[e] = <<>> THEN 0 ELSE Head(inflight'[e])
    BY <2>1, WriteKeepsHead
  <2> QED
    BY <2>1, <2>2 DEF TypeOK
<1>9. ASSUME NEW t \in Threads, Unlock(t)
      PROVE  BufferInv'
  BY <1>9 DEF Unlock
<1>10. CASE WriteCallback
  BY <1>10 DEF WriteCallback
<1>11. CASE CallbackLocked
  BY <1>11 DEF CallbackLocked
<1>12. ASSUME NEW e \in Endpoints, TransferWord(e)
       PROVE  BufferInv'
  <2>1. /\ UNCHANGED <<pc, fill, inflight>>
        /\ moved' = [moved EXCEPT ![e] = @ + 1]
        /\ inflight[e] # <<>> /\ moved[e] < Head(inflight[e])
    BY <1>12 DEF TransferWord
  <2>2. Head(inflight[e]) \in Nat /\ moved[e] \in Nat
    <3>1. Head(inflight[e]) \in 1..BufWords
      BY <2>1, HeadTailProperties DEF TypeOK
    <3> QED
      BY <3>1 DEF TypeOK
  <2>3. moved'[e] <= Head(inflight[e])
    BY <2>1, <2>2, SMTT(30) DEF TypeOK
  <2> QED
    BY <2>1, <2>3 DEF TypeOK
<1>13. ASSUME NEW e \in Endpoints, TransferDone(e)
       PROVE  BufferInv'
  <2>1. inflight[e] # <<>> /\ TransferEnd(e, "success") /\ UNCHANGED <<pc, fill>>
    BY <1>13 DEF TransferDone, TransferEnd
  <2> QED
    BY <2>1, EndKeepsMoved
<1>14. ASSUME NEW e \in Endpoints, TransferError(e)
       PROVE  BufferInv'
  <2>1. inflight[e] # <<>> /\ TransferEnd(e, "error") /\ UNCHANGED <<pc, fill>>
    BY <1>14 DEF TransferError, TransferEnd
  <2> QED
    BY <2>1, EndKeepsMoved
<1>15. CASE UNCHANGED vars
  BY <1>15 DEF vars
<1> QED
  BY <1>1, <1>2, <1>3, <1>4, <1>5, <1>6, <1>7, <1>8, <1>9, <1>10, <1>11, <1>12,
     <1>13, <1>14, <1>15 DEF Next, WriteStep

(* Packets stay in the queue only behind a write. *)
LEMMA FlagStep == TypeOK /\ LockInv /\ FlagInv /\ [Next]_vars => FlagInv'
<1> SUFFICES ASSUME TypeOK, LockInv, FlagInv, [Next]_vars
             PROVE  FlagInv'
  OBVIOUS
<1> USE WritePathAssumption DEF FlagInv, NoStrandedPackets, Goto, lockVars, usbVars, bufVars
<1>1. ASSUME NEW t \in Senders, NEW port \in Ports, SendCall(t, port)
      PROVE  FlagInv'
  BY <1>1 DEF SendCall
<1>2. ASSUME NEW t \in Senders, SendPacket(t)
      PROVE  FlagInv'
  <2>1. holder = t /\ t # NoThread /\ UNCHANGED <<pc, holder, mWritePending, fill>>
    BY <1>2 DEF SendPacket, LockInv, InsideLock, Threads
  <2>2. \A s \in Threads : pc[s] \notin {"unlock", "write1", "write2"}
    BY <1>2, OneInside DEF SendPacket, InsideLock, Threads
  <2> QED
    BY <2>1, <2>2
<1>3. ASSUME NEW t \in Senders, SendKick(t)
      PROVE  FlagInv'
  BY <1>3 DEF SendKick
<1>4. ASSUME NEW t \in Threads, DoWrite(t)
      PROVE  FlagInv'
  <2>1. PICK l \in {"unlock", "prepare"} :
          pc[t] = "dowrite" /\ pc' = [pc EXCEPT ![t] = l] /\ (l = "unlock" => mWriteQueue = <<>>)
    BY <1>4 DEF DoWrite
  <2>2. \A s \in Threads : pc'[s] \in {"unlock", "write1", "write2"} => s = t /\ l = "unlock"
    BY <2>1, OneInside DEF TypeOK, InsideLock
  <2> QED
    BY <1>4, <2>1, <2>2 DEF DoWrite
<1>5. ASSUME NEW t \in Threads, PrepareWord(t)
      PROVE  FlagInv'
  <2>1. PICK e \in Endpoints, words \in {0, 1} :
          /\ pc[t] = "prepare"
          /\ fill' = [fill EXCEPT ![e] = @ + words]
          /\ pc' = [pc EXCEPT ![t] = IF fill[e] + words = BufWords
                                      THEN "write1" ELSE "prepare"]
          /\ UNCHANGED holder
    BY <1>5, RoundOfPrepare
  <2>2. \A s \in Threads : pc'[s] \in {"unlock", "write1", "write2"} => s = t
    BY <2>1, OneInside DEF TypeOK, InsideLock
  <2>3. pc'[t] = "write1" => fill'[e] > 0
    BY <2>1 DEF TypeOK
  <2>4. holder = t /\ t # NoThread /\ pc'[t] \in {"prepare", "write1"}
    BY <2>1 DEF LockInv, InsideLock, TypeOK
  <2> QED
    BY <2>1, <2>2, <2>3, <2>4
<1>6. ASSUME NEW t \in Threads, PrepareEmpty(t)
      PROVE  FlagInv'
  BY <1>6 DEF PrepareEmpty
<1>7. ASSUME NEW t \in Threads, WritePipe1(t)
      PROVE  FlagInv'
  <2>1. /\ pc[t] = "write1" /\ pc' = [pc EXCEPT ![t] = "write2"]
        /\ (mWritePending \/ fill[0] > 0 => mWritePending')
        /\ UNCHANGED <<fill, holder, mWriteQueue>>
    BY <1>7 DEF WritePipe1, WritePipe, TypeOK
  <2>2. \A s \in Threads : pc'[s] \in {"unlock", "write1", "write2"} => s = t
    BY <2>1, OneInside DEF TypeOK, InsideLock
  <2>3. mWriteQueue # <<>> => fill[0] > 0 \/ fill[1] > 0
    BY <2>1 DEF Endpoints
  <2>4. holder = t /\ t # NoThread /\ pc'[t] = "write2"
    BY <2>1 DEF LockInv, InsideLock, TypeOK
  <2> QED
    BY <2>1, <2>2, <2>3, <2>4
<1>8. ASSUME NEW t \in Threads, WritePipe2(t)
      PROVE  FlagInv'
  BY <1>8 DEF WritePipe2, WritePipe
<1>9. ASSUME NEW t \in Threads, Unlock(t)
      PROVE  FlagInv'
  BY <1>9 DEF Unlock
<1>10. CASE WriteCallback
  BY <1>10 DEF WriteCallback
<1>11. CASE CallbackLocked
  <2>1. /\ pc' = [pc EXCEPT ![IOThread] = "dowrite"] /\ holder' = IOThread
        /\ holder = NoThread
    BY <1>11 DEF CallbackLocked
  <2>2. \A s \in Threads : pc[s] \notin {"unlock", "write1", "write2"}
    BY <2>1 DEF LockInv, InsideLock
  <2>3. \A s \in Threads : pc'[s] \notin {"unlock", "write1", "write2"}
    BY <2>1, <2>2 DEF TypeOK
  <2> QED
    BY <2>1, <2>3 DEF Threads
<1>12. ASSUME NEW e \in Endpoints, TransferWord(e)
       PROVE  FlagInv'
  BY <1>12 DEF TransferWord
<1>13. ASSUME NEW e \in Endpoints, TransferDone(e)
       PROVE  FlagInv'
  BY <1>13 DEF TransferDone, TransferEnd
<1>14. ASSUME NEW e \in Endpoints, TransferError(e)
       PROVE  FlagInv'
  BY <1>14 DEF TransferError, TransferEnd
<1>15. CASE UNCHANGED vars
  BY <1>15 DEF vars
<1> QED
  BY <1>1, <1>2, <1>3, <1>4, <1>5, <1>6, <1>7, <1>8, <1>9, <1>10, <1>11, <1>12,
     <1>13, <1>14, <1>15 DEF Next, WriteStep

(* DoWrite raises the flag for a write that is outstanding or has failed. *)
LEMMA WriteIsOutstanding ==
  ASSUME TypeOK, NEW t \in Threads, NEW d \in Endpoints, WritePipe(t, d), faults' = 0
  PROVE  /\ faults = 0
         /\ Outstanding => Outstanding'
         /\ mWritePending' => mWritePending \/ Outstanding'
<1>1. CASE fill[d] = 0
  BY <1>1 DEF WritePipe, Outstanding
<1>2. CASE fill[d] # 0
  <2>1. /\ inflight' = [inflight EXCEPT ![d] = Append(@, fill[d])] /\ UNCHANGED faults
    BY <1>2, WritePathAssumption DEF WritePipe, TypeOK
  <2>2. Append(inflight[d], fill[d]) # <<>>
    <3>1. inflight[d] \in Seq(1..BufWords) /\ fill[d] \in 1..BufWords
      BY <1>2, WritePathAssumption DEF TypeOK
    <3> QED
      BY <3>1, AppendProperties
  <2>3. inflight'[d] # <<>>
    BY <2>1, <2>2 DEF TypeOK
  <2> QED
    BY <2>1, <2>3 DEF Outstanding
<1> QED
  BY <1>1, <1>2

(* A set flag has a completion or a callback coming until a write fails. *)
LEMMA WakeStep == TypeOK /\ LockInv /\ WakeInv /\ [Next]_vars => WakeInv'
<1> SUFFICES ASSUME TypeOK, LockInv, WakeInv, [Next]_vars
             PROVE  WakeInv'
  OBVIOUS
<1> USE WritePathAssumption DEF WakeInv, Outstanding, Goto, lockVars, usbVars, bufVars
<1>1. ASSUME NEW t \in Senders, NEW port \in Ports, SendCall(t, port)
      PROVE  WakeInv'
  BY <1>1 DEF SendCall
<1>2. ASSUME NEW t \in Senders, SendPacket(t)
      PROVE  WakeInv'
  BY <1>2 DEF SendPacket
<1>3. ASSUME NEW t \in Senders, SendKick(t)
      PROVE  WakeInv'
  BY <1>3 DEF SendKick
<1>4. ASSUME NEW t \in Threads, DoWrite(t)
      PROVE  WakeInv'
  <2>1. PICK l \in {"unlock", "prepare"} : pc[t] = "dowrite" /\ pc' = [pc EXCEPT ![t] = l]
    BY <1>4 DEF DoWrite
  <2>2. pc[IOThread] = "callback" => pc'[IOThread] = "callback"
    BY <2>1 DEF TypeOK
  <2> QED
    BY <1>4, <2>2 DEF DoWrite
<1>5. ASSUME NEW t \in Threads, PrepareWord(t)
      PROVE  WakeInv'
  BY <1>5 DEF PrepareWord
<1>6. ASSUME NEW t \in Threads, PrepareEmpty(t)
      PROVE  WakeInv'
  BY <1>6 DEF PrepareEmpty
<1>7. ASSUME NEW t \in Threads, WritePipe1(t)
      PROVE  WakeInv'
  <2>1. 0 \in Endpoints /\ WritePipe(t, 0) /\ UNCHANGED completions
    BY <1>7 DEF WritePipe1, Endpoints
  <2>2. pc[IOThread] = "callback" => pc'[IOThread] = "callback"
    BY <1>7 DEF WritePipe1, TypeOK
  <2> QED
    BY <2>1, <2>2, WriteIsOutstanding DEF Outstanding
<1>8. ASSUME NEW t \in Threads, WritePipe2(t)
      PROVE  WakeInv'
  <2>1. 1 \in Endpoints /\ WritePipe(t, 1) /\ UNCHANGED completions
    BY <1>8 DEF WritePipe2, Endpoints
  <2>2. pc[IOThread] = "callback" => pc'[IOThread] = "callback"
    BY <1>8 DEF WritePipe2, TypeOK
  <2> QED
    BY <2>1, <2>2, WriteIsOutstanding DEF Outstanding
<1>9. ASSUME NEW t \in Threads, Unlock(t)
      PROVE  WakeInv'
  BY <1>9 DEF Unlock
<1>10. CASE WriteCallback
  <2>1. completions # <<>> /\ completions' = Tail(completions)
    BY <1>10 DEF WriteCallback
  <2>2. faults = 0 => completions[1] = "success" /\ pc'[IOThread] = "callback"
    BY <1>10 DEF WriteCallback, TypeOK, Threads
  <2>3. faults = 0 => \A i \in 1..Len(completions') : completions'[i] = "success"
    BY <2>1 DEF TypeOK
  <2> QED
    BY <1>10, <2>2, <2>3 DEF WriteCallback
<1>11. CASE CallbackLocked
  BY <1>11 DEF CallbackLocked
<1>12. ASSUME NEW e \in Endpoints, TransferWord(e)
       PROVE  WakeInv'
  BY <1>12 DEF TransferWord
<1>13. ASSUME NEW e \in Endpoints, TransferDone(e)
       PROVE  WakeInv'
  BY <1>13 DEF TransferDone, TransferEnd
<1>14. ASSUME NEW e \in Endpoints, TransferError(e)
       PROVE  WakeInv'
  <2>1. faults' # 0
    BY <1>14 DEF TransferError, TypeOK
  <2> QED
    BY <2>1
<1>15. CASE UNCHANGED vars
  BY <1>15 DEF vars
<1> QED
  BY <1>1, <1>2, <1>3, <1>4, <1>5, <1>6, <1>7, <1>8, <1>9, <1>10, <1>11, <1>12,
     <1>13, <1>14, <1>15 DEF Next, WriteStep

LEMMA InitIInv == Init => IInv
<1> SUFFICES ASSUME Init PROVE IInv
  OBVIOUS
<1>1. TypeOK
  BY TypeInit
<1>2. LockInv /\ BufferInv
  BY WritePathAssumption DEF Init, LockInv, BufferInv, InsideLock, Threads, Endpoints
<1>3. FlagInv /\ WakeInv
  BY DEF Init, FlagInv, WakeInv, NoStrandedPackets
<1> QED
  BY <1>1, <1>2, <1>3 DEF IInv

(* The variables keep their types, buffers are never overrun and the queue is
   never left without a write behind it, on any device. *)
THEOREM Inductive == Spec => []IInv
<1>1. IInv /\ [Next]_vars => IInv'
  BY TypeStep, LockStep, BufferStep, FlagStep, WakeStep DEF IInv
<1> QED
  BY InitIInv, <1>1, PTL DEF Spec

(* Packets stay in the queue only while mWritePending is set: NoStrandedPackets
   for any number of clients and any device. *)
THEOREM NoneStranded == Spec => []NoStrandedPackets
<1>1. IInv => NoStrandedPackets
  BY DEF IInv, FlagInv
<1> QED
  BY <1>1, Inductive, PTL

(* The wake-up that drains the queue is never lost while no write fails. *)
THEOREM WakeupKept == Spec => []NoLostWakeup
<1>1. IInv => NoLostWakeup
  BY DEF IInv, FlagInv, WakeInv, NoStrandedPackets, NoLostWakeup
<1> QED
  BY <1>1, Inductive, PTL

-----------------------------------------------------------------------------
(* The order of the queue, on any device.  It is stated of a sequence q, of
   the words of endpoint e that are done and of their total. *)
Elems == [port : Ports, next : Nat, last : Nat]
Own(q, e) == {i \in DOMAIN q : Endpoint(q[i].port) = e}

Ordered(q, e, done, total) ==
  /\ Own(q, e) = {} => done = total
  /\ \A i \in Own(q, e) :
       /\ (\A j \in Own(q, e) : i <= j) => q[i].next = done + 1
       /\ (\A j \in Own(q, e) : j <= i) => q[i].last = total
       /\ \A j \in Own(q, e) :
            Follows(i, j, Own(q, e)) => q[j].next = q[i].last + 1

(* What is left of a packet is an interval of words, or nothing. *)
Intervals == \A i \in DOMAIN mWriteQueue : mWriteQueue[i].next <= mWriteQueue[i].last + 1

(* A packet queued behind the others has the words after theirs. *)
LEMMA OrderedAppend ==
  ASSUME NEW q \in Seq(Elems), NEW e, NEW done \in Nat, NEW total \in Nat,
         NEW new \in Elems, NEW words \in Nat, Ordered(q, e, done, total),
         Endpoint(new.port) = e => new.next = total + 1 /\ new.last = total + words,
         Endpoint(new.port) # e => words = 0
  PROVE  Ordered(Append(q, new), e, done, total + words)
<1> DEFINE r == Append(q, new)
           n == Len(q)
           own == Own(q, e)
           others == Own(r, e)
<1>1. /\ n \in Nat /\ DOMAIN q = 1..n /\ DOMAIN r = 1..(n + 1)
      /\ \A i \in 1..n : r[i] = q[i]
      /\ r[n + 1] = new
  BY AppendProperties
<1> HIDE DEF r
<1>2. CASE Endpoint(new.port) # e
  <2>1. others = own
    BY <1>1, <1>2 DEF Own
  <2>2. own \subseteq 1..n
    BY <1>1 DEF Own
  <2>3. \A i \in own : r[i] = q[i]
    BY <1>1, <2>2
  <2>4. total + words = total
    BY <1>2
  <2>5. Ordered(r, e, done, total)
    BY <2>1, <2>3 DEF Ordered
  <2> QED
    BY <2>4, <2>5 DEF r
<1>3. CASE Endpoint(new.port) = e
  <2>1. others = own \cup {n + 1} /\ own \subseteq 1..n /\ n + 1 \notin own
    BY <1>1, <1>3 DEF Own
  <2>2. /\ \A i \in own : r[i] = q[i] /\ i < n + 1 /\ i \in Nat
        /\ r[n + 1].next = total + 1 /\ r[n + 1].last = total + words
    BY <1>1, <1>3, <2>1
  <2> HIDE DEF own, others
  <2>3. ASSUME NEW i \in others
        PROVE  /\ (\A j \in others : i <= j) => r[i].next = done + 1
               /\ (\A j \in others : j <= i) => r[i].last = total + words
               /\ \A j \in others : Follows(i, j, others) => r[j].next = r[i].last + 1
    <3>1. CASE i = n + 1
      <4>1. (\A j \in others : i <= j) => own = {}
        BY <2>1, <2>2, <3>1, <1>1
      <4>2. own = {} => done = total
        BY DEF Ordered, own
      <4>3. \A j \in others : ~(i < j)
        BY <2>1, <2>2, <3>1, <1>1
      <4> QED
        BY <2>2, <3>1, <4>1, <4>2, <4>3 DEF Follows
    <3>2. CASE i \in own
      <4>1. (\A j \in others : i <= j) => r[i].next = done + 1
        BY <2>1, <2>2, <3>2 DEF Ordered, own
      <4>2. ~(\A j \in others : j <= i)
        BY <2>1, <2>2, <3>2, <1>1
      <4>3. ASSUME NEW j \in others, Follows(i, j, others)
            PROVE  r[j].next = r[i].last + 1
        <5>1. CASE j \in own
          <6>1. Follows(i, j, own)
            BY <2>1, <4>3 DEF Follows
          <6> QED
            BY <2>2, <3>2, <5>1, <6>1 DEF Ordered, own
        <5>2. CASE j = n + 1
          <6>1. \A k \in own : k <= i
            BY <2>1, <2>2, <4>3, <5>2, <1>1 DEF Follows
          <6>2. q[i].last = total
            BY <3>2, <6>1 DEF Ordered, own
          <6> QED
            BY <2>2, <3>2, <5>2, <6>2
        <5> QED
          BY <2>1, <5>1, <5>2
      <4> QED
        BY <4>1, <4>2, <4>3
    <3> QED
      BY <2>1, <3>1, <3>2
  <2>4. others # {}
    BY <2>1
  <2> QED
    BY <2>3, <2>4 DEF Ordered, others, r
<1> QED
  BY <1>2, <1>3

(* The packet at the front, all of which is done, leaves. *)
LEMMA OrderedTail ==
  ASSUME NEW q \in Seq(Elems), q # <<>>, NEW e, NEW done \in Nat, NEW total \in Nat,
         Ordered(q, e, done, total), NEW after \in Nat,
         after = IF Endpoint(q[1].port) = e THEN q[1].last ELSE done
  PROVE  Ordered(Tail(q), e, after, total)
<1> DEFINE r == Tail(q)
           n == Len(q)
           own == Own(q, e)
           rest == Own(r, e)
<1>1. /\ n \in Nat \ {0} /\ DOMAIN q = 1..n /\ DOMAIN r = 1..(n - 1)
      /\ \A i \in 1..(n - 1) : r[i] = q[i + 1]
  BY HeadTailProperties
<1> HIDE DEF r
<1>2. /\ \A i \in rest : i \in 1..(n - 1) /\ i + 1 \in own /\ r[i] = q[i + 1]
      /\ \A i \in own : i \in 1..n /\ (i = 1 \/ i - 1 \in rest)
      /\ 1 \in own <=> Endpoint(q[1].port) = e
  <2>1. rest = {i \in 1..(n - 1) : Endpoint(q[i + 1].port) = e}
    BY <1>1 DEF Own
  <2>2. own = {i \in 1..n : Endpoint(q[i].port) = e}
    BY <1>1 DEF Own
  <2>3. ASSUME NEW i \in own, i # 1 PROVE i - 1 \in rest
    <3>1. i - 1 \in 1..(n - 1) /\ (i - 1) + 1 = i
      BY <1>1, <2>2, <2>3
    <3> QED
      BY <2>1, <2>2, <3>1
  <2> QED
    BY <1>1, <2>1, <2>2, <2>3
<1> HIDE DEF own, rest
<1>3. ASSUME NEW i \in rest, NEW j \in rest, Follows(i, j, rest)
      PROVE  Follows(i + 1, j + 1, own)
  <2>1. i + 1 < j + 1
    BY <1>1, <1>2, <1>3 DEF Follows
  <2>2. ASSUME NEW k \in own PROVE k <= i + 1 \/ j + 1 <= k
    <3>1. CASE k = 1
      BY <1>1, <1>2, <3>1
    <3>2. CASE k # 1
      <4>1. k - 1 \in rest /\ k \in 1..n /\ i \in 1..(n - 1) /\ j \in 1..(n - 1)
        BY <1>2, <3>2
      <4>2. k - 1 <= i \/ j <= k - 1
        BY <1>3, <4>1 DEF Follows
      <4> QED
        BY <1>1, <4>1, <4>2
    <3> QED
      BY <3>1, <3>2
  <2> QED
    BY <2>1, <2>2 DEF Follows
<1>4. rest = {} => after = total
  <2>1. ASSUME rest = {}, 1 \in own PROVE after = total
    <3>1. \A k \in own : k <= 1
      BY <1>2, <2>1
    <3> QED
      BY <1>2, <2>1, <3>1 DEF Ordered, own
  <2>2. ASSUME rest = {}, 1 \notin own PROVE after = total
    <3>1. own = {}
      BY <1>2, <2>2
    <3> QED
      BY <1>2, <2>2, <3>1 DEF Ordered, own
  <2> QED
    BY <2>1, <2>2
<1>5. ASSUME NEW i \in rest, \A j \in rest : i <= j
      PROVE  r[i].next = after + 1
  <2>1. CASE 1 \in own
    <3>1. Follows(1, i + 1, own)
      BY <1>1, <1>2, <1>5 DEF Follows
    <3> QED
      BY <1>2, <2>1, <3>1 DEF Ordered, own
  <2>2. CASE 1 \notin own
    <3>1. \A k \in own : i + 1 <= k
      BY <1>1, <1>2, <1>5, <2>2
    <3> QED
      BY <1>2, <2>2, <3>1 DEF Ordered, own
  <2> QED
    BY <2>1, <2>2
<1>6. ASSUME NEW i \in rest, \A j \in rest : j <= i
      PROVE  r[i].last = total
  <2>1. \A k \in own : k <= i + 1
    BY <1>1, <1>2, <1>6
  <2> QED
    BY <1>2, <2>1 DEF Ordered, own
<1>7. ASSUME NEW i \in rest, NEW j \in rest, Follows(i, j, rest)
      PROVE  r[j].next = r[i].last + 1
  BY <1>2, <1>3, <1>7 DEF Ordered, own
<1> QED
  BY <1>4, <1>5, <1>6, <1>7 DEF Ordered, rest, r

(* A word of the packet at the front is done. *)
LEMMA OrderedFront ==
  ASSUME NEW q \in Seq(Elems), q # <<>>, NEW e, NEW done \in Nat, NEW total \in Nat,
         Ordered(q, e, done, total), NEW front \in Elems, front.port = q[1].port,
         front.next = q[1].next + 1, front.last = q[1].last, NEW after \in Nat,
         after = IF Endpoint(q[1].port) = e THEN done + 1 ELSE done
  PROVE  Ordered([q EXCEPT ![1] = front], e, after, total)
<1> DEFINE r == [q EXCEPT ![1] = front]
           n == Len(q)
           own == Own(q, e)
<1>1. /\ n \in Nat \ {0} /\ DOMAIN q = 1..n /\ DOMAIN r = 1..n
      /\ \A i \in 2..n : r[i] = q[i]
      /\ r[1] = front /\ q[1] \in Elems
  BY EmptySeq
<1> HIDE DEF r
<1>2. Own(r, e) = own
  <2>1. \A i \in 1..n : r[i].port = q[i].port
    BY <1>1
  <2> QED
    BY <1>1, <2>1 DEF Own
<1>3. own \subseteq 1..n /\ (1 \in own <=> Endpoint(q[1].port) = e)
  BY <1>1 DEF Own
<1> HIDE DEF own
<1>4. own = {} => after = total
  BY <1>3 DEF Ordered, own
<1>5. ASSUME NEW i \in own
      PROVE  r[i].last = q[i].last
  BY <1>1, <1>3
<1>6. ASSUME NEW i \in own, \A j \in own : i <= j
      PROVE  r[i].next = after + 1
  <2>1. q[i].next = done + 1
    BY <1>6 DEF Ordered, own
  <2>2. CASE i = 1
    BY <1>1, <1>3, <1>6, <2>1, <2>2
  <2>3. CASE i # 1
    <3>1. 1 \notin own
      BY <1>3, <1>6, <2>3
    <3>2. i \in 2..n
      BY <1>1, <1>3, <2>3
    <3> QED
      BY <1>1, <1>3, <2>1, <3>1, <3>2
  <2> QED
    BY <2>2, <2>3
<1>7. ASSUME NEW i \in own, NEW j \in own, Follows(i, j, own)
      PROVE  r[j].next = r[i].last + 1
  <2>1. j \in 2..n
    BY <1>1, <1>3, <1>7 DEF Follows
  <2>2. q[j].next = q[i].last + 1
    BY <1>7 DEF Ordered, own
  <2> QED
    BY <1>1, <1>5, <2>1, <2>2
<1>8. ASSUME NEW i \in own, \A j \in own : j <= i
      PROVE  r[i].last = total
  BY <1>5, <1>8 DEF Ordered, own
<1> QED
  BY <1>2, <1>4, <1>6, <1>7, <1>8 DEF Ordered, r

(* QueueOrder, of the queue and the counts of words. *)
LEMMA QueueIsOrdered ==
  QueueOrder <=> \A e \in Endpoints : Ordered(mWriteQueue, e, encoded[e], accepted[e])
BY DEF QueueOrder, QueuedFor, Ordered, Own

(* The steps that change the queue. *)
LEMMA SendKeepsOrder ==
  ASSUME TypeOK, QueueOrder, Intervals, NEW t \in Senders, SendPacket(t)
  PROVE  QueueOrder' /\ Intervals'
<1> DEFINE d == Endpoint(portNumber[t])
<1>0. /\ mWriteQueue \in Seq(Elems) /\ portNumber[t] \in Ports /\ d \in Endpoints
      /\ \A e \in Endpoints : accepted[e] \in Nat /\ encoded[e] \in Nat
      /\ accepted \in [Endpoints -> Nat]
  BY EndpointType DEF TypeOK, Elems
<1>1. PICK words \in 0..MaxPacketWords, new \in Elems :
        /\ new = [port |-> portNumber[t], next |-> accepted[d] + 1,
                  last |-> accepted[d] + words]
        /\ mWriteQueue' = Append(mWriteQueue, new)
        /\ accepted' = [accepted EXCEPT ![d] = @ + words]
        /\ UNCHANGED encoded
  <2>1. PICK words \in 0..MaxPacketWords :
          /\ mWriteQueue' = Append(mWriteQueue, [port |-> portNumber[t],
                              next |-> accepted[d] + 1, last |-> accepted[d] + words])
          /\ accepted' = [accepted EXCEPT ![d] = @ + words]
          /\ UNCHANGED encoded
    BY DEF SendPacket, bufVars
  <2>2. words \in Nat
    BY WritePathAssumption
  <2>3. [port |-> portNumber[t], next |-> accepted[d] + 1,
         last |-> accepted[d] + words] \in Elems
    BY <1>0, <2>2 DEF Elems
  <2> QED
    BY <2>1, <2>3
<1>2. /\ words \in Nat /\ new.next = accepted[d] + 1 /\ new.last = accepted[d] + words
      /\ Endpoint(new.port) = d
  BY <1>1, WritePathAssumption
<1> HIDE DEF d
<1>3. ASSUME NEW e \in Endpoints
      PROVE  Ordered(mWriteQueue', e, encoded'[e], accepted'[e])
  <2>1. Ordered(mWriteQueue, e, encoded[e], accepted[e])
    BY QueueIsOrdered
  <2>2. CASE e = d
    <3>1. Ordered(Append(mWriteQueue, new), e, encoded[e], accepted[e] + words)
      BY <1>0, <1>2, <2>1, <2>2, OrderedAppend
    <3> QED
      BY <1>0, <1>1, <2>2, <3>1
  <2>3. CASE e # d
    <3>1. Ordered(Append(mWriteQueue, new), e, encoded[e], accepted[e] + 0)
      BY <1>0, <1>2, <2>1, <2>3, OrderedAppend
    <3>2. accepted'[e] = accepted[e] + 0
      BY <1>0, <1>1, <2>3
    <3> QED
      BY <1>1, <3>1, <3>2
  <2> QED
    BY <2>2, <2>3
<1>4. QueueOrder'
  BY <1>3 DEF QueueOrder, QueuedFor, Ordered, Own
<1>5. Intervals'
  <2>1. /\ DOMAIN mWriteQueue' = 1..(Len(mWriteQueue) + 1)
        /\ DOMAIN mWriteQueue = 1..Len(mWriteQueue) /\ Len(mWriteQueue) \in Nat
        /\ \A i \in 1..Len(mWriteQueue) : mWriteQueue'[i] = mWriteQueue[i]
        /\ mWriteQueue'[Len(mWriteQueue) + 1] = new
    BY <1>0, <1>1, AppendProperties
  <2>2. new.next <= new.last + 1
    BY <1>0, <1>2 DEF d
  <2> QED
    BY <2>1, <2>2 DEF Intervals
<1> QED
  BY <1>4, <1>5

LEMMA PrepareKeepsOrder ==
  ASSUME TypeOK, QueueOrder, Intervals, NEW t \in Threads, PrepareWord(t)
  PROVE  QueueOrder' /\ Intervals'
<1> DEFINE q == mWriteQueue
           d == Endpoint(q[1].port)
           words == IF q[1].next <= q[1].last THEN 1 ELSE 0
           n == Len(q)
<1>0. /\ q \in Seq(Elems) /\ q # <<>> /\ Head(q) = q[1] /\ q[1] \in Elems /\ d \in Endpoints
      /\ n \in Nat \ {0} /\ DOMAIN q = 1..n
      /\ encoded \in [Endpoints -> Nat] /\ accepted \in [Endpoints -> Nat]
  <2>1. q \in Seq(Elems) /\ q # <<>>
    BY DEF TypeOK, Elems, PrepareWord
  <2>2. Head(q) = q[1] /\ q[1] \in Elems /\ n \in Nat \ {0} /\ DOMAIN q = 1..n
    BY <2>1, EmptySeq
  <2>3. q[1].port \in Ports
    BY <2>2 DEF Elems
  <2>4. d \in Endpoints
    BY <2>3, EndpointType
  <2> QED
    BY <2>1, <2>2, <2>4 DEF TypeOK
<1>1. /\ encoded' = [encoded EXCEPT ![d] = @ + words]
      /\ q' = IF q[1].next + words > q[1].last THEN Tail(q)
              ELSE [q EXCEPT ![1].next = @ + 1]
      /\ UNCHANGED accepted
  BY <1>0 DEF PrepareWord
<1>2. /\ words \in {0, 1} /\ q[1].next \in Nat /\ q[1].last \in Nat
      /\ q[1].next <= q[1].last + 1
  <2>1. words \in {0, 1}
    OBVIOUS
  <2>2. q[1].next \in Nat /\ q[1].last \in Nat
    BY <1>0 DEF Elems
  <2>3. 1 \in DOMAIN q
    BY <1>0
  <2>4. q[1].next <= q[1].last + 1
    BY <2>3 DEF Intervals
  <2> QED
    BY <2>1, <2>2, <2>4
<1>3. (\A j \in Own(q, d) : 1 <= j) /\ 1 \in Own(q, d)
  BY <1>0 DEF Own
<1>4. q[1].next = encoded[d] + 1
  BY <1>0, <1>3, QueueIsOrdered DEF Ordered
<1>5. PICK r : r = mWriteQueue'
  OBVIOUS
<1>6. PICK enc \in [Endpoints -> Nat] : /\ enc = encoded' /\ enc[d] = encoded[d] + words
                                        /\ \A e \in Endpoints : e # d => enc[e] = encoded[e]
  <2> HIDE DEF words, d
  <2>1. encoded' = [e \in Endpoints |-> IF e = d THEN encoded[d] + words ELSE encoded[e]]
    BY <1>0, <1>1
  <2>2. \A e \in Endpoints : encoded[e] \in Nat /\ words \in Nat
    BY <1>0, <1>2
  <2>3. encoded' \in [Endpoints -> Nat]
    BY <1>0, <2>1, <2>2
  <2> QED
    BY <1>0, <2>1, <2>3
<1>7. (q[1].next + words > q[1].last) => enc[d] = q[1].last
  BY <1>0, <1>2, <1>4, <1>6
<1> HIDE DEF d, words, n
<1>8. ASSUME q[1].next + words > q[1].last
      PROVE  /\ \A e \in Endpoints : Ordered(r, e, enc[e], accepted[e])
             /\ \A i \in DOMAIN r : r[i].next <= r[i].last + 1
  <2>1. r = Tail(q)
    BY <1>1, <1>5, <1>8
  <2>2. ASSUME NEW e \in Endpoints PROVE Ordered(r, e, enc[e], accepted[e])
    <3>1. Ordered(q, e, encoded[e], accepted[e])
      BY QueueIsOrdered
    <3>2. /\ enc[e] = IF Endpoint(q[1].port) = e THEN q[1].last ELSE encoded[e]
          /\ enc[e] \in Nat /\ encoded[e] \in Nat /\ accepted[e] \in Nat
      BY <1>0, <1>6, <1>7, <1>8 DEF d
    <3> HIDE DEF q
    <3> QED
      BY <1>0, <2>1, <3>1, <3>2, OrderedTail
  <2>3. ASSUME NEW i \in DOMAIN r PROVE r[i].next <= r[i].last + 1
    <3>1. i \in 1..(n - 1) /\ r[i] = q[i + 1]
      BY <1>0, <2>1, HeadTailProperties DEF n
    <3>2. i + 1 \in DOMAIN q
      BY <1>0, <3>1
    <3> QED
      BY <3>1, <3>2 DEF Intervals
  <2> QED
    BY <2>2, <2>3
<1>9. ASSUME ~(q[1].next + words > q[1].last)
      PROVE  /\ \A e \in Endpoints : Ordered(r, e, enc[e], accepted[e])
             /\ \A i \in DOMAIN r : r[i].next <= r[i].last + 1
  <2>1. words = 1
    BY <1>2, <1>9 DEF words
  <2>2. PICK front \in Elems : front = [q[1] EXCEPT !.next = @ + 1]
    <3>1. PICK f : f = q[1]
      OBVIOUS
    <3>2. f \in Elems
      BY <1>0, <3>1
    <3>3. f.next + 1 \in Nat
      BY <3>2 DEF Elems
    <3>4. [f EXCEPT !.next = @ + 1] \in Elems
      BY <3>2, <3>3 DEF Elems
    <3> QED
      BY <3>1, <3>4
  <2>3. r = [q EXCEPT ![1] = front]
    BY <1>1, <1>5, <1>9, <2>2
  <2>4. front.port = q[1].port /\ front.next = q[1].next + 1 /\ front.last = q[1].last
    BY <1>0, <2>2 DEF Elems
  <2>5. ASSUME NEW e \in Endpoints PROVE Ordered(r, e, enc[e], accepted[e])
    <3>1. Ordered(q, e, encoded[e], accepted[e])
      BY QueueIsOrdered
    <3>2. /\ enc[e] = IF Endpoint(q[1].port) = e THEN encoded[e] + 1 ELSE encoded[e]
          /\ enc[e] \in Nat /\ encoded[e] \in Nat /\ accepted[e] \in Nat
      BY <1>0, <1>6, <2>1 DEF d
    <3> HIDE DEF q
    <3> QED
      BY <1>0, <2>3, <2>4, <3>1, <3>2, OrderedFront
  <2>6. ASSUME NEW i \in DOMAIN r PROVE r[i].next <= r[i].last + 1
    <3>1. DOMAIN r = DOMAIN q /\ r[1] = front /\ (i # 1 => r[i] = q[i])
      BY <1>0, <2>3
    <3>2. CASE i = 1
      BY <1>2, <1>9, <2>1, <2>4, <3>1, <3>2
    <3>3. CASE i # 1
      BY <3>1, <3>3 DEF Intervals
    <3> QED
      BY <3>2, <3>3
  <2> QED
    BY <2>5, <2>6
<1>10. /\ \A e \in Endpoints : Ordered(r, e, enc[e], accepted[e])
       /\ \A i \in DOMAIN r : r[i].next <= r[i].last + 1
  BY <1>8, <1>9
<1>11. \A e \in Endpoints : Ordered(mWriteQueue', e, encoded'[e], accepted'[e])
  BY <1>1, <1>5, <1>6, <1>10
<1>12. Intervals'
  BY <1>5, <1>10 DEF Intervals
<1>13. QueueOrder'
  BY <1>11 DEF QueueOrder, QueuedFor, Ordered, Own
<1> QED
  BY <1>12, <1>13

(* For any endpoints, callbacks and faults: no word is lost, doubled or
   overtaken between Send and the buffers. *)
THEOREM OrderInQueue == Spec => []QueueOrder
<1>1. Init => QueueOrder /\ Intervals
  BY DEF Init, QueueOrder, QueuedFor, Intervals
<1>2. TypeOK /\ QueueOrder /\ Intervals /\ [Next]_vars => QueueOrder' /\ Intervals'
  <2> SUFFICES ASSUME TypeOK, QueueOrder, Intervals, [Next]_vars
               PROVE  QueueOrder' /\ Intervals'
    OBVIOUS
  <2>1. CASE UNCHANGED <<mWriteQueue, accepted, encoded>>
    BY <2>1 DEF QueueOrder, QueuedFor, Intervals
  <2>2. \/ \E t \in Senders : SendPacket(t)
        \/ \E t \in Threads : PrepareWord(t)
        \/ UNCHANGED <<mWriteQueue, accepted, encoded>>
    BY DEF Next, WriteStep, vars, bufVars, SendCall, SendKick, DoWrite, PrepareEmpty, WritePipe1,
       WritePipe2, Unlock, WriteCallback, CallbackLocked, TransferWord, TransferDone,
       TransferError, TransferEnd
  <2> QED
    BY <2>1, <2>2, SendKeepsOrder, PrepareKeepsOrder
<1>3. IInv => TypeOK
  BY DEF IInv
<1> QED
  BY <1>1, <1>2, <1>3, Inductive, PTL DEF Spec

-----------------------------------------------------------------------------
(* From here on the device has one OUT endpoint, d. *)

(* The packet at the front of the queue goes to d. *)
LEMMA FrontGoesToD ==
  ASSUME TypeOK, NEW d \in Endpoints, OneEndpoint(d), mWriteQueue # <<>>
  PROVE  /\ mWriteQueue[1] \in [port : Ports, next : Nat, last : Nat]
         /\ Head(mWriteQueue) = mWriteQueue[1]
         /\ Endpoint(mWriteQueue[1].port) = d
<1>1. Head(mWriteQueue) \in [port : Ports, next : Nat, last : Nat]
  BY HeadTailProperties DEF TypeOK
<1>2. Head(mWriteQueue) = mWriteQueue[1]
  BY DEF TypeOK
<1> QED
  BY <1>1, <1>2 DEF OneEndpoint

(* DoWrite starts at most one write, and only when nothing is outstanding. *)
LEMMA OneWriteStarts ==
  ASSUME IInv, NEW d \in Endpoints, OneWriteInv(d), NEW t \in Threads,
         \/ pc[t] = "write1" /\ WritePipe(t, 0)
         \/ pc[t] = "write2" /\ WritePipe(t, 1)
  PROVE  \/ /\ UNCHANGED <<mWritePending, inflight, faults>>
            /\ (pc[t] = "write1" => fill[0] = 0)
            /\ (pc[t] = "write2" => fill[1] = 0)
         \/ /\ fill[d] > 0 /\ fill[d] \in 1..BufWords
            /\ mWritePending = FALSE /\ mWritePending' = TRUE
            /\ inflight[d] = <<>> /\ completions = <<>> /\ pc[IOThread] # "callback"
            /\ pc[t] = IF d = 0 THEN "write1" ELSE "write2"
            /\ \A e \in Endpoints \ {d} : inflight'[e] = inflight[e]
            /\ inflight'[d] \in {<<>>, <<fill[d]>>}
<1>1. PICK e \in Endpoints : /\ pc[t] = IF e = 0 THEN "write1" ELSE "write2"
                             /\ WritePipe(t, e)
  BY DEF Endpoints
<1>2. CASE fill[e] = 0
  BY <1>1, <1>2 DEF WritePipe, Endpoints
<1>3. CASE fill[e] # 0
  <2>1. e = d /\ fill[d] > 0 /\ fill[d] \in 1..BufWords
    BY <1>3, WritePathAssumption, SMTT(30) DEF OneWriteInv, IInv, TypeOK
  <2>2. mWritePending = FALSE
    BY <1>1, <2>1 DEF OneWriteInv, Endpoints, IInv, TypeOK
  <2>3. inflight[d] = <<>> /\ completions = <<>> /\ pc[IOThread] # "callback"
    BY <2>2 DEF OneWriteInv
  <2>4. mWritePending' = TRUE /\ inflight' \in {inflight, [inflight EXCEPT ![d] = <<fill[d]>>]}
    BY <1>1, <1>3, <2>1, <2>3 DEF WritePipe
  <2>5. /\ \A x \in Endpoints \ {d} : inflight'[x] = inflight[x]
        /\ inflight'[d] \in {<<>>, <<fill[d]>>}
    BY <2>3, <2>4 DEF IInv, TypeOK
  <2> QED
    BY <1>1, <2>1, <2>2, <2>3, <2>4, <2>5
<1> QED
  BY <1>2, <1>3

(* The tail of a sequence of at most one element. *)
LEMMA OneElement ==
  ASSUME NEW S, NEW s \in Seq(S), s # <<>>, Len(s) <= 1
  PROVE  Len(s) = 1 /\ Tail(s) = <<>>
<1>1. Len(s) = 1
  <2>1. Len(s) \in Nat \ {0}
    OBVIOUS
  <2> QED
    BY <2>1
<1>2. Tail(s) \in Seq(S) /\ Len(Tail(s)) = 0
  BY <1>1, HeadTailProperties
<1> QED
  BY <1>1, <1>2, EmptySeq

(* The end of the only write hands over to its completion. *)
LEMMA OneTransferEnds ==
  ASSUME IInv, NEW d \in Endpoints, OneWriteInv(d), NEW e \in Endpoints, NEW result,
         inflight[e] # <<>>, TransferEnd(e, result)
  PROVE  OneWriteInv(d)'
<1> USE DEF OneWriteInv
<1>1. e = d /\ completions = <<>> /\ mWritePending /\ pc[IOThread] # "callback"
  OBVIOUS
<1>2. inflight[d] \in Seq(1..BufWords) /\ Len(inflight[d]) = 1
  <2>1. inflight[d] \in Seq(1..BufWords)
    BY DEF IInv, TypeOK
  <2> QED
    BY <1>1, <2>1, OneElement
<1>3. inflight' = [inflight EXCEPT ![d] = <<>>]
  <2>1. Tail(inflight[d]) = <<>>
    BY <1>1, <1>2, OneElement
  <2> QED
    BY <1>1, <2>1 DEF TransferEnd
<1>4. Len(completions') = 1
  BY <1>1 DEF TransferEnd
<1>5. inflight'[d] = <<>> /\ \A x \in Endpoints \ {d} : inflight'[x] = inflight[x]
  BY <1>3 DEF IInv, TypeOK
<1> QED
  BY <1>1, <1>4, <1>5 DEF TransferEnd, lockVars, bufVars

(* At most one write, completion or callback exists on such a device. *)
LEMMA OneWriteStep ==
  ASSUME IInv, [Next]_vars, NEW d \in Endpoints, OneEndpoint(d), OneWriteInv(d)
  PROVE  OneWriteInv(d)'
<1> USE WritePathAssumption DEF OneWriteInv, Goto, lockVars, usbVars, bufVars
<1>1. ASSUME NEW t \in Senders, NEW port \in Ports, SendCall(t, port)
      PROVE  OneWriteInv(d)'
  BY <1>1 DEF SendCall
<1>2. ASSUME NEW t \in Senders, SendPacket(t)
      PROVE  OneWriteInv(d)'
  <2>1. Endpoint(portNumber[t]) = d
    BY DEF IInv, TypeOK, OneEndpoint
  <2>2. \A e \in Endpoints \ {d} : accepted'[e] = accepted[e]
    BY <1>2, <2>1 DEF SendPacket, IInv, TypeOK
  <2> QED
    BY <1>2, <2>2 DEF SendPacket
<1>3. ASSUME NEW t \in Senders, SendKick(t)
      PROVE  OneWriteInv(d)'
  BY <1>3 DEF SendKick
<1>4. ASSUME NEW t \in Threads, DoWrite(t)
      PROVE  OneWriteInv(d)'
  <2>1. PICK l \in {"unlock", "prepare"} : pc[t] = "dowrite" /\ pc' = [pc EXCEPT ![t] = l]
    BY <1>4 DEF DoWrite
  <2>2. \A e \in Endpoints \ {d} : fill'[e] = 0
    BY <1>4 DEF DoWrite
  <2>3. /\ pc[IOThread] # "callback" => pc'[IOThread] # "callback"
        /\ pc'[IOThread] = "callback" => pc[IOThread] = "callback"
    BY <2>1 DEF IInv, TypeOK
  <2>4. ~mWritePending /\ \A s \in Threads : pc'[s] # "write2"
    BY <2>1, OneInside DEF IInv, TypeOK, InsideLock
  <2> QED
    BY <1>4, <2>2, <2>3, <2>4 DEF DoWrite
<1>5. ASSUME NEW t \in Threads, PrepareWord(t)
      PROVE  OneWriteInv(d)'
  <2>1. PICK words \in {0, 1} :
          /\ pc[t] = "prepare"
          /\ fill' = [fill EXCEPT ![d] = @ + words]
          /\ pc' = [pc EXCEPT ![t] = IF fill[d] + words = BufWords
                                      THEN "write1" ELSE "prepare"]
          /\ UNCHANGED <<mWritePending, accepted, usbVars>>
    BY <1>5, RoundOfPrepare, FrontGoesToD DEF IInv
  <2>2. \A e \in Endpoints \ {d} : fill'[e] = 0
    BY <2>1 DEF IInv, TypeOK
  <2>3. pc'[IOThread] = "callback" => pc[IOThread] = "callback"
    BY <2>1, SMTT(30) DEF IInv, TypeOK
  <2>4. ~mWritePending /\ \A s \in Threads : pc'[s] # "write2"
    BY <2>1, OneInside DEF IInv, TypeOK, InsideLock
  <2> QED
    BY <2>1, <2>2, <2>3, <2>4
<1>6. ASSUME NEW t \in Threads, PrepareEmpty(t)
      PROVE  OneWriteInv(d)'
  <2>1. pc[t] = "prepare" /\ pc' = [pc EXCEPT ![t] = "write1"]
    BY <1>6 DEF PrepareEmpty
  <2>2. \A e \in Endpoints \ {d} : fill'[e] = 0
    BY <1>6 DEF PrepareEmpty
  <2>3. pc'[IOThread] = "callback" => pc[IOThread] = "callback"
    BY <2>1 DEF IInv, TypeOK
  <2>4. ~mWritePending /\ \A s \in Threads : pc'[s] # "write2"
    BY <2>1, OneInside DEF IInv, TypeOK, InsideLock
  <2> QED
    BY <1>6, <2>2, <2>3, <2>4 DEF PrepareEmpty
<1>7. ASSUME NEW t \in Threads, WritePipe1(t)
      PROVE  OneWriteInv(d)'
  <2>1. /\ pc[t] = "write1" /\ WritePipe(t, 0) /\ pc' = [pc EXCEPT ![t] = "write2"]
        /\ UNCHANGED <<accepted, completions, received, fill>>
    BY <1>7 DEF WritePipe1
  <2>2. \A s \in Threads : pc'[s] \notin {"dowrite", "prepare", "write1"} /\ (pc'[s] = "write2" => s = t)
    BY <2>1, OneInside DEF IInv, TypeOK, InsideLock
  <2>3. pc'[IOThread] = "callback" => pc[IOThread] = "callback"
    BY <2>1 DEF IInv, TypeOK
  <2>4. CASE UNCHANGED <<mWritePending, inflight, faults>> /\ (pc[t] = "write1" => fill[0] = 0)
    BY <2>1, <2>2, <2>3, <2>4
  <2>5. CASE /\ fill[d] > 0 /\ mWritePending' = TRUE
             /\ completions = <<>> /\ pc[IOThread] # "callback"
             /\ pc[t] = IF d = 0 THEN "write1" ELSE "write2"
             /\ \A e \in Endpoints \ {d} : inflight'[e] = inflight[e]
             /\ inflight'[d] \in {<<>>, <<fill[d]>>}
    <3>1. Len(inflight'[d]) <= 1
      <4>1. Len(<<>>) = 0 /\ Len(<<fill[d]>>) = 1
        OBVIOUS
      <4>2. CASE inflight'[d] = <<>>
        BY <4>1, <4>2
      <4>3. CASE inflight'[d] = <<fill[d]>>
        BY <4>1, <4>3
      <4> QED
        BY <2>5, <4>2, <4>3
    <3>2. \A s \in Threads : pc'[s] = "write2" => (mWritePending' <=> fill'[0] > 0)
      BY <2>1, <2>2, <2>5 DEF IInv, TypeOK
    <3>3. pc'[IOThread] # "callback" /\ mWritePending'
      BY <2>3, <2>5
    <3> QED
      BY <2>1, <2>2, <2>5, <3>1, <3>2, <3>3
  <2> QED
    BY <2>1, <2>4, <2>5, OneWriteStarts
<1>8. ASSUME NEW t \in Threads, WritePipe2(t)
      PROVE  OneWriteInv(d)'
  <2>1. /\ pc[t] = "write2" /\ WritePipe(t, 1) /\ pc' = [pc EXCEPT ![t] = "unlock"]
        /\ UNCHANGED <<accepted, completions, received, fill>>
    BY <1>8 DEF WritePipe2
  <2>2. \A s \in Threads : pc'[s] \notin {"dowrite", "prepare", "write1"} /\ (pc'[s] = "write2" => s = t)
    BY <2>1, OneInside DEF IInv, TypeOK, InsideLock
  <2>3. pc'[IOThread] = "callback" => pc[IOThread] = "callback"
    BY <2>1 DEF IInv, TypeOK
  <2>4. CASE UNCHANGED <<mWritePending, inflight, faults>> /\ (pc[t] = "write1" => fill[0] = 0)
    BY <2>1, <2>2, <2>3, <2>4
  <2>5. CASE /\ fill[d] > 0 /\ mWritePending' = TRUE
             /\ completions = <<>> /\ pc[IOThread] # "callback"
             /\ pc[t] = IF d = 0 THEN "write1" ELSE "write2"
             /\ \A e \in Endpoints \ {d} : inflight'[e] = inflight[e]
             /\ inflight'[d] \in {<<>>, <<fill[d]>>}
    <3>1. Len(inflight'[d]) <= 1
      <4>1. Len(<<>>) = 0 /\ Len(<<fill[d]>>) = 1
        OBVIOUS
      <4>2. CASE inflight'[d] = <<>>
        BY <4>1, <4>2
      <4>3. CASE inflight'[d] = <<fill[d]>>
        BY <4>1, <4>3
      <4> QED
        BY <2>5, <4>2, <4>3
    <3>2. \A s \in Threads : pc'[s] = "write2" => (mWritePending' <=> fill'[0] > 0)
      BY <2>1, <2>2, <2>5 DEF IInv, TypeOK
    <3>3. pc'[IOThread] # "callback" /\ mWritePending'
      BY <2>3, <2>5
    <3> QED
      BY <2>1, <2>2, <2>5, <3>1, <3>2, <3>3
  <2> QED
    BY <2>1, <2>4, <2>5, OneWriteStarts
<1>9. ASSUME NEW t \in Threads, Unlock(t)
      PROVE  OneWriteInv(d)'
  BY <1>9 DEF Unlock
<1>10. CASE WriteCallback
  <2>1. completions # <<>> /\ completions' = Tail(completions)
    BY <1>10 DEF WriteCallback
  <2>2. completions' = <<>> /\ inflight[d] = <<>> /\ mWritePending = TRUE
    BY <2>1, SMTT(30) DEF IInv, TypeOK
  <2>3. \A s \in Threads : pc'[s] # "callback" => pc'[s] = pc[s]
    BY <1>10 DEF WriteCallback, IInv, TypeOK
  <2> QED
    BY <1>10, <2>2, <2>3 DEF WriteCallback
<1>11. CASE CallbackLocked
  <2>1. holder = NoThread /\ pc' = [pc EXCEPT ![IOThread] = "dowrite"] /\ pc[IOThread] = "callback"
    BY <1>11 DEF CallbackLocked
  <2>2. \A s \in Threads : pc[s] # "write2"
    BY <2>1 DEF IInv, LockInv, InsideLock, Threads
  <2>3. \A s \in Threads : pc'[s] # "write2"
    BY <2>1, <2>2 DEF IInv, TypeOK
  <2>4. pc'[IOThread] # "callback" /\ mWritePending' = FALSE
    BY <1>11, <2>1 DEF CallbackLocked, IInv, TypeOK, Threads
  <2> QED
    BY <1>11, <2>1, <2>3, <2>4 DEF CallbackLocked
<1>12. ASSUME NEW e \in Endpoints, TransferWord(e)
       PROVE  OneWriteInv(d)'
  <2>1. e = d
    BY <1>12 DEF TransferWord
  <2>2. \A x \in Endpoints \ {d} : received'[x] = received[x]
    BY <1>12, <2>1 DEF TransferWord, IInv, TypeOK
  <2> QED
    BY <1>12, <2>2 DEF TransferWord
<1>13. ASSUME NEW e \in Endpoints, TransferDone(e)
       PROVE  OneWriteInv(d)'
  <2>1. inflight[e] # <<>> /\ TransferEnd(e, "success")
    BY <1>13 DEF TransferDone
  <2> QED
    BY <2>1, OneTransferEnds
<1>14. ASSUME NEW e \in Endpoints, TransferError(e)
       PROVE  OneWriteInv(d)'
  <2>1. inflight[e] # <<>> /\ TransferEnd(e, "error")
    BY <1>14 DEF TransferError
  <2> QED
    BY <2>1, OneTransferEnds
<1>15. CASE UNCHANGED vars
  BY <1>15 DEF vars
<1> QED
  BY <1>1, <1>2, <1>3, <1>4, <1>5, <1>6, <1>7, <1>8, <1>9, <1>10, <1>11, <1>12,
     <1>13, <1>14, <1>15 DEF Next, WriteStep

(* What one round of PrepareOutput does to the queue. *)
LEMMA RoundOfQueue ==
  ASSUME IInv, NEW d \in Endpoints, OneEndpoint(d), QueueInv(d),
         NEW t \in Threads, PrepareWord(t)
  PROVE  \E words \in {0, 1} :
           LET front == mWriteQueue[1] IN
           /\ mWriteQueue # <<>> /\ front \in [port : Ports, next : Nat, last : Nat]
           /\ words = IF front.next <= front.last THEN 1 ELSE 0
           /\ front.next = encoded[d] + 1
           /\ encoded' = [encoded EXCEPT ![d] = @ + words]
           /\ fill' = [fill EXCEPT ![d] = @ + words]
           /\ mWriteBuf' = IF words = 1
                THEN [mWriteBuf EXCEPT ![d] = [mWriteBuf[d] EXCEPT ![fill[d] + 1] = encoded[d] + 1]]
                ELSE mWriteBuf
           /\ pc[t] = "prepare"
           /\ pc' = [pc EXCEPT ![t] = IF fill[d] + words = BufWords
                                       THEN "write1" ELSE "prepare"]
           /\ mWriteQueue' = IF front.next + words > front.last THEN Tail(mWriteQueue)
                ELSE [mWriteQueue EXCEPT ![1] = [front EXCEPT !.next = @ + 1]]
           /\ UNCHANGED <<mWritePending, accepted, holder, portNumber, usbVars>>
<1> DEFINE front == mWriteQueue[1]
           words == IF front.next <= front.last THEN 1 ELSE 0
<1>1. /\ mWriteQueue # <<>> /\ front \in [port : Ports, next : Nat, last : Nat]
      /\ Head(mWriteQueue) = front /\ Endpoint(front.port) = d
  BY FrontGoesToD DEF IInv, PrepareWord
<1>2. front.next = encoded[d] + 1
  BY <1>1 DEF QueueInv
<1>3. words \in {0, 1}
  OBVIOUS
<1>4. /\ encoded' = [encoded EXCEPT ![d] = @ + words]
      /\ fill' = [fill EXCEPT ![d] = @ + words]
      /\ pc' = [pc EXCEPT ![t] = IF fill[d] + words = BufWords THEN "write1" ELSE "prepare"]
      /\ pc[t] = "prepare"
      /\ UNCHANGED <<mWritePending, accepted, holder, portNumber, usbVars>>
  BY <1>1 DEF PrepareWord, Goto
<1>5. mWriteBuf' = IF words = 1
        THEN [mWriteBuf EXCEPT ![d] = [mWriteBuf[d] EXCEPT ![fill[d] + 1] = encoded[d] + 1]]
        ELSE mWriteBuf
  BY <1>1, <1>2 DEF PrepareWord
<1>6. mWriteQueue' = IF front.next + words > front.last THEN Tail(mWriteQueue)
        ELSE [mWriteQueue EXCEPT ![1] = [front EXCEPT !.next = @ + 1]]
  BY <1>1 DEF PrepareWord
<1> QED
  BY <1>1, <1>2, <1>3, <1>4, <1>5, <1>6

(* What is queued for d continues what was encoded for it. *)
LEMMA QueueStep ==
  ASSUME IInv, [Next]_vars, NEW d \in Endpoints, OneEndpoint(d), QueueInv(d)
  PROVE  QueueInv(d)'
<1> DEFINE Elem == [port : Ports, next : Nat, last : Nat]
<1>0. mWriteQueue \in Seq(Elem) /\ accepted[d] \in Nat /\ encoded[d] \in Nat
  BY DEF IInv, TypeOK
<1>1. ASSUME NEW t \in Senders, SendPacket(t)
      PROVE  QueueInv(d)'
  <2>1. Endpoint(portNumber[t]) = d /\ portNumber[t] \in Ports
    BY DEF IInv, TypeOK, OneEndpoint
  <2>2. PICK words \in 0..MaxPacketWords :
          /\ mWriteQueue' = Append(mWriteQueue, [port |-> portNumber[t],
                                                 next |-> accepted[d] + 1,
                                                 last |-> accepted[d] + words])
          /\ accepted' = [accepted EXCEPT ![d] = @ + words]
          /\ UNCHANGED encoded
    BY <1>1, <2>1 DEF SendPacket, bufVars
  <2> DEFINE new == [port |-> portNumber[t], next |-> accepted[d] + 1,
                     last |-> accepted[d] + words]
             n == Len(mWriteQueue)
  <2>3. /\ words \in Nat /\ n \in Nat /\ new \in Elem
        /\ new.next = accepted[d] + 1 /\ new.last = accepted[d] + words
    BY <1>0, <2>1, WritePathAssumption
  <2> HIDE DEF new, Elem
  <2>4. /\ Len(mWriteQueue') = n + 1 /\ mWriteQueue' # <<>>
        /\ \A i \in 1..n : mWriteQueue'[i] = mWriteQueue[i]
        /\ mWriteQueue'[n + 1] = new
    BY <1>0, <2>2, <2>3, AppendProperties DEF new
  <2>5. accepted'[d] = accepted[d] + words /\ encoded'[d] = encoded[d]
    BY <2>2 DEF IInv, TypeOK
  <2>6. mWriteQueue'[1].next = encoded[d] + 1
    <3>1. CASE mWriteQueue = <<>>
      BY <2>3, <2>4, <3>1 DEF QueueInv
    <3>2. CASE mWriteQueue # <<>>
      <4>1. 1 \in 1..n
        BY <1>0, <3>2
      <4> QED
        BY <2>4, <3>2, <4>1 DEF QueueInv
    <3> QED
      BY <3>1, <3>2
  <2>7. ASSUME NEW i \in 1..(n + 1)
        PROVE  /\ mWriteQueue'[i].next <= mWriteQueue'[i].last + 1
               /\ mWriteQueue'[i].last <= accepted[d] + words
               /\ i < n + 1 => mWriteQueue'[i + 1].next = mWriteQueue'[i].last + 1
    <3>1. CASE i = n + 1
      BY <1>0, <2>3, <2>4, <3>1
    <3>2. CASE i \in 1..n
      <4>1. mWriteQueue[i] \in Elem
        BY <1>0, <3>2
      <4>2. i = n => mWriteQueue[i].last = accepted[d]
        BY <3>2, <1>0 DEF QueueInv
      <4>3. i < n => mWriteQueue[i + 1].next = mWriteQueue[i].last + 1
        BY <3>2, <2>3 DEF QueueInv
      <4>4. mWriteQueue[i].next <= mWriteQueue[i].last + 1 /\ mWriteQueue[i].last <= accepted[d]
        BY <3>2 DEF QueueInv
      <4>5. mWriteQueue[i].last \in Nat
        BY <4>1 DEF Elem
      <4>6. i = n \/ (i < n /\ i + 1 \in 1..n)
        BY <2>3, <3>2
      <4>7. mWriteQueue'[i] = mWriteQueue[i] /\ (i < n => mWriteQueue'[i + 1] = mWriteQueue[i + 1])
        BY <2>4, <3>2, <4>6
      <4>8. mWriteQueue[i].last <= accepted[d] + words
        BY <1>0, <2>3, <4>4, <4>5
      <4>9. i = n => mWriteQueue'[i + 1].next = mWriteQueue[i].last + 1
        BY <2>3, <2>4, <4>2
      <4> QED
        BY <4>3, <4>4, <4>6, <4>7, <4>8, <4>9
    <3> QED
      BY <2>3, <3>1, <3>2
  <2>8. mWriteQueue'[Len(mWriteQueue')].last = accepted'[d]
    BY <2>3, <2>4, <2>5
  <2> QED
    BY <2>4, <2>5, <2>6, <2>7, <2>8 DEF QueueInv
<1>2. ASSUME NEW t \in Threads, PrepareWord(t)
      PROVE  QueueInv(d)'
  <2> DEFINE front == mWriteQueue[1]
             n == Len(mWriteQueue)
  <2>1. PICK words \in {0, 1} :
           /\ mWriteQueue # <<>> /\ front \in Elem
           /\ words = IF front.next <= front.last THEN 1 ELSE 0
           /\ front.next = encoded[d] + 1
           /\ encoded' = [encoded EXCEPT ![d] = @ + words]
           /\ mWriteQueue' = IF front.next + words > front.last THEN Tail(mWriteQueue)
                ELSE [mWriteQueue EXCEPT ![1] = [front EXCEPT !.next = @ + 1]]
           /\ UNCHANGED accepted
    BY <1>2, RoundOfQueue
  <2>2. /\ encoded'[d] = encoded[d] + words /\ accepted'[d] = accepted[d]
        /\ n \in Nat \ {0} /\ front.next \in Nat /\ front.last \in Nat
        /\ front.next <= front.last + 1 /\ front.last <= accepted[d]
        /\ n = 1 => front.last = accepted[d]
        /\ n > 1 => mWriteQueue[2].next = front.last + 1
    <3>1. n \in Nat \ {0}
      BY <1>0, <2>1
    <3>2. encoded'[d] = encoded[d] + words /\ accepted'[d] = accepted[d]
      BY <2>1 DEF IInv, TypeOK
    <3>3. 1 \in 1..n
      BY <3>1
    <3>4. front.next \in Nat /\ front.last \in Nat
      BY <2>1
    <3> QED
      BY <2>1, <3>1, <3>2, <3>3, <3>4 DEF QueueInv
  <2>3. CASE front.next + words > front.last
    <3>1. mWriteQueue' = Tail(mWriteQueue) /\ encoded'[d] = front.last
      BY <1>0, <2>1, <2>2, <2>3
    <3>2. Len(mWriteQueue') = n - 1 /\ \A i \in 1..(n - 1) : mWriteQueue'[i] = mWriteQueue[i + 1]
      BY <1>0, <2>1, <3>1, HeadTailProperties
    <3>3. mWriteQueue' = <<>> <=> n = 1
      <4>1. mWriteQueue' \in Seq(Elem)
        BY <1>0, <2>1, <3>1, HeadTailProperties
      <4>2. mWriteQueue' = <<>> <=> Len(mWriteQueue') = 0
        BY <4>1, EmptySeq
      <4> QED
        BY <2>2, <3>2, <4>2
    <3>4. ASSUME NEW i \in 1..(n - 1)
          PROVE  /\ mWriteQueue'[i].next <= mWriteQueue'[i].last + 1
                 /\ mWriteQueue'[i].last <= accepted[d]
                 /\ i < n - 1 => mWriteQueue'[i + 1].next = mWriteQueue'[i].last + 1
      <4>1. i + 1 \in 1..n /\ mWriteQueue'[i] = mWriteQueue[i + 1]
        BY <2>2, <3>2, SMTT(30)
      <4>2. i < n - 1 => i + 1 < n /\ mWriteQueue'[i + 1] = mWriteQueue[(i + 1) + 1]
        BY <2>2, <3>2
      <4> QED
        BY <4>1, <4>2 DEF QueueInv
    <3>5. n > 1 => mWriteQueue'[n - 1].last = accepted[d] /\ mWriteQueue'[1].next = front.last + 1
      BY <2>1, <2>2, <3>2 DEF QueueInv
    <3> QED
      BY <2>2, <3>1, <3>2, <3>3, <3>4, <3>5, SMTT(30) DEF QueueInv
  <2>4. CASE ~(front.next + words > front.last)
    <3> DEFINE rest == [front EXCEPT !.next = @ + 1]
    <3>1. words = 1 /\ mWriteQueue' = [mWriteQueue EXCEPT ![1] = rest]
      BY <2>1, <2>2, <2>4
    <3>2. rest.next = front.next + 1 /\ rest.last = front.last
      BY <2>1
    <3> HIDE DEF rest
    <3>3. /\ Len(mWriteQueue') = n /\ mWriteQueue'[1] = rest /\ mWriteQueue' # <<>>
          /\ \A i \in 2..n : mWriteQueue'[i] = mWriteQueue[i]
      BY <1>0, <2>2, <3>1
    <3>4. ASSUME NEW i \in 1..n
          PROVE  /\ mWriteQueue'[i].next <= mWriteQueue'[i].last + 1
                 /\ mWriteQueue'[i].last <= accepted[d]
                 /\ i < n => mWriteQueue'[i + 1].next = mWriteQueue'[i].last + 1
      <4>1. CASE i = 1
        <5>1. rest.next <= rest.last + 1 /\ rest.last <= accepted[d]
          BY <2>2, <2>4, <3>1, <3>2
        <5>2. n > 1 => mWriteQueue'[2].next = rest.last + 1
          BY <2>2, <3>2, <3>3
        <5> QED
          BY <2>2, <3>3, <4>1, <5>1, <5>2
      <4>2. CASE i \in 2..n
        <5>1. mWriteQueue'[i] = mWriteQueue[i] /\ (i < n => mWriteQueue'[i + 1] = mWriteQueue[i + 1])
          BY <2>2, <3>3, <4>2
        <5> QED
          BY <5>1 DEF QueueInv
      <4> QED
        BY <2>2, <4>1, <4>2
    <3>5. mWriteQueue'[1].next = encoded'[d] + 1
      BY <2>1, <2>2, <3>1, <3>2, <3>3
    <3>6. mWriteQueue'[n].last = accepted[d]
      BY <2>1, <2>2, <3>2, <3>3 DEF QueueInv
    <3> QED
      BY <2>2, <3>3, <3>4, <3>5, <3>6 DEF QueueInv
  <2> QED
    BY <2>3, <2>4
<1>3. CASE UNCHANGED <<mWriteQueue, accepted, encoded>>
  BY <1>3 DEF QueueInv
<1> QED
  <2>1. \/ \E t \in Senders : SendPacket(t)
        \/ \E t \in Threads : PrepareWord(t)
        \/ UNCHANGED <<mWriteQueue, accepted, encoded>>
    BY DEF Next, WriteStep, vars, bufVars, SendCall, SendKick, DoWrite, PrepareEmpty, WritePipe1,
       WritePipe2, Unlock, WriteCallback, CallbackLocked, TransferWord, TransferDone,
       TransferError, TransferEnd
  <2> QED
    BY <1>1, <1>2, <1>3, <2>1

(* The types that the words' positions have. *)
LEMMA WordTypes ==
  ASSUME TypeOK, NEW d \in Endpoints
  PROVE  /\ received[d] \in Seq(Nat) /\ Len(received[d]) \in Nat
         /\ encoded[d] \in Nat /\ moved[d] \in Nat /\ fill[d] \in Nat
         /\ mWriteBuf[d] \in [1..BufWords -> Nat]
<1>1. received[d] \in Seq(Nat)
  BY DEF TypeOK
<1>2. encoded[d] \in Nat /\ mWriteBuf[d] \in [1..BufWords -> Nat]
  BY DEF TypeOK
<1>3. moved[d] \in 0..BufWords /\ fill[d] \in 0..BufWords
  BY DEF TypeOK
<1> QED
  BY <1>1, <1>2, <1>3, LenProperties

(* Nothing is moved on an idle pipe. *)
LEMMA IdlePipe ==
  ASSUME IInv, NEW d \in Endpoints, inflight[d] = <<>>
  PROVE  moved[d] = 0
BY WordTypes DEF IInv, BufferInv

(* Steps that leave the buffers, the flag and the transfers alone. *)
LEMMA WordFrame ==
  ASSUME NEW d \in Endpoints, WordInv(d),
         UNCHANGED <<mWritePending, mWriteBuf, fill, encoded, inflight, moved, completions, received>>,
         Preparing' <=> Preparing,
         \A t \in Threads : pc'[t] = "prepare" => pc[t] = "prepare",
         pc'[IOThread] = "callback" => pc[IOThread] = "callback"
  PROVE  WordInv(d)'
BY DEF WordInv, InBuffer

(* A thread that moves between places outside PrepareOutput and the writes. *)
LEMMA PlainMove ==
  ASSUME TypeOK, NEW t \in Threads, NEW l \in {"idle", "sending", "dowrite", "unlock"},
         pc' = [pc EXCEPT ![t] = l], pc[t] \in {"idle", "sending", "dowrite", "unlock"}
  PROVE  /\ Preparing' <=> Preparing
         /\ \A s \in Threads : pc'[s] = "prepare" => pc[s] = "prepare"
         /\ pc'[IOThread] = "callback" => pc[IOThread] = "callback"
<1>1. \A s \in Threads : pc'[s] = IF s = t THEN l ELSE pc[s]
  BY DEF TypeOK
<1>2. IOThread \in Threads
  BY DEF Threads
<1> QED
  BY <1>1, <1>2 DEF Preparing

(* Only one thread can be preparing, and nobody while the lock is free. *)
LEMMA WhoPrepares ==
  ASSUME IInv
  PROVE  /\ holder = NoThread => ~Preparing
         /\ \A t \in Threads : pc[t] \in {"sending", "dowrite", "unlock"} => ~Preparing
<1>1. holder = NoThread => ~Preparing
  BY WritePathAssumption DEF IInv, LockInv, InsideLock, Preparing
<1>2. \A t \in Threads : pc[t] \in {"sending", "dowrite", "unlock"} => ~Preparing
  BY OneInside DEF IInv, InsideLock, Preparing
<1> QED
  BY <1>1, <1>2

(* The end of the only transfer: all of it was received, unless it failed. *)
LEMMA WordTransferEnds ==
  ASSUME IInv, NEW d \in Endpoints, OneWriteInv(d), WordInv(d), NEW e \in Endpoints,
         NEW result \in {"success", "error"}, inflight[e] # <<>>, TransferEnd(e, result),
         result = "success" => moved[e] = Head(inflight[e])
  PROVE  WordInv(d)'
<1>1. e = d /\ completions = <<>> /\ mWritePending /\ pc[IOThread] # "callback"
  BY DEF OneWriteInv
<1>2. inflight[d] \in Seq(1..BufWords) /\ Len(inflight[d]) <= 1
  BY <1>1 DEF IInv, TypeOK, OneWriteInv
<1>3. inflight'[d] = <<>>
  <2>1. Tail(inflight[d]) = <<>>
    BY <1>1, <1>2, OneElement
  <2> QED
    BY <1>1, <2>1 DEF TransferEnd, IInv, TypeOK
<1>4. completions' = <<result>>
  BY <1>1 DEF TransferEnd
<1>5. UNCHANGED <<pc, mWritePending, received, encoded, fill, mWriteBuf>>
  BY DEF TransferEnd, lockVars, bufVars
<1>6. result = "success" => encoded[d] = Len(received[d])
  <2>1. Head(inflight[d]) \in Nat
    BY <1>1, <1>2, HeadTailProperties, WritePathAssumption
  <2>2. encoded[d] <= Len(received[d]) + Head(inflight[d]) - moved[d] /\ Len(received[d]) <= encoded[d]
    BY <1>1 DEF WordInv, InBuffer
  <2> QED
    BY <1>1, <2>1, <2>2, WordTypes DEF IInv
<1>7. completions' = <<"success">> => result = "success"
  BY <1>4
<1> QED
  BY <1>1, <1>3, <1>5, <1>6, <1>7 DEF WordInv

(* A word that the device reads from the buffer is the next one, or null. *)
LEMMA WordTransfer ==
  ASSUME IInv, NEW d \in Endpoints, OneWriteInv(d), WordInv(d),
         NEW e \in Endpoints, TransferWord(e)
  PROVE  /\ e = d
         /\ \/ /\ received'[d] = Append(received[d], Len(received[d]) + 1)
               /\ Len(received[d]) + 1 <= encoded[d]
            \/ received' = received /\ encoded[d] = Len(received[d])
         /\ \A x \in Endpoints \ {d} : received'[x] = received[x]
         /\ WordInv(d)'
<1> DEFINE n == Head(inflight[d])
           r == Len(received[d])
           m == moved[d]
<1>1. /\ e = d /\ completions = <<>> /\ mWritePending /\ pc[IOThread] # "callback"
      /\ inflight[d] # <<>> /\ m < n
  BY DEF TransferWord, OneWriteInv
<1>2. n \in 1..BufWords
  BY <1>1, HeadTailProperties DEF IInv, TypeOK
<1>3. /\ r \in Nat /\ m \in Nat /\ n \in Nat /\ encoded[d] \in Nat /\ received[d] \in Seq(Nat)
      /\ m + 1 \in (m + 1)..n
  BY <1>1, <1>2, WordTypes DEF IInv
<1>4. /\ UNCHANGED <<pc, mWritePending, mWriteBuf, fill, encoded, inflight, completions>>
      /\ moved'[d] = m + 1
      /\ received' = IF mWriteBuf[d][m + 1] = 0 THEN received
                     ELSE [received EXCEPT ![d] = Append(@, mWriteBuf[d][m + 1])]
  BY <1>1 DEF TransferWord, lockVars, bufVars, IInv, TypeOK
<1>5. /\ encoded[d] <= r + n - m /\ r <= encoded[d]
      /\ \A i \in (m + 1)..n :
           mWriteBuf[d][i] = IF r + i - m <= encoded[d] THEN r + i - m ELSE 0
  BY <1>1 DEF WordInv, InBuffer
<1> HIDE DEF n, r, m
<1>6. mWriteBuf[d][m + 1] = IF r + 1 <= encoded[d] THEN r + 1 ELSE 0
  <2>1. r + (m + 1) - m = r + 1
    BY <1>3
  <2> QED
    BY <1>3, <1>5, <2>1
<1>7. /\ ~mWritePending' => FALSE
      /\ ~(completions' = <<"success">> \/ pc'[IOThread] = "callback")
      /\ \A t \in Threads : pc'[t] # "prepare"
  <2>1. \A t \in Threads : pc[t] # "prepare"
    BY <1>1 DEF OneWriteInv
  <2> QED
    BY <1>1, <1>4, <2>1
<1>8. CASE r + 1 <= encoded[d]
  <2>1. received' = [received EXCEPT ![d] = Append(@, r + 1)]
    BY <1>3, <1>4, <1>6, <1>8
  <2>2. /\ received'[d] = Append(received[d], r + 1)
        /\ \A x \in Endpoints \ {d} : received'[x] = received[x]
    BY <2>1 DEF IInv, TypeOK
  <2>3. /\ Len(received'[d]) = r + 1 /\ received'[d][r + 1] = r + 1
        /\ \A i \in 1..r : received'[d][i] = received[d][i]
    BY <1>3, <2>2, AppendProperties DEF r
  <2>4. \A i \in 1..Len(received'[d]) : received'[d][i] = i
    BY <1>3, <2>3, SMTT(30) DEF WordInv, r
  <2>5. encoded'[d] <= Len(received'[d]) + n - moved'[d]
    BY <1>3, <1>4, <1>5, <2>3
  <2>6. \A i \in (moved'[d] + 1)..n :
          mWriteBuf'[d][i] = IF Len(received'[d]) + i - moved'[d] <= encoded'[d]
                             THEN Len(received'[d]) + i - moved'[d] ELSE 0
    <3>0. /\ moved'[d] + 1 = m + 2 /\ moved'[d] = m + 1 /\ Len(received'[d]) = r + 1
          /\ mWriteBuf'[d] = mWriteBuf[d] /\ encoded'[d] = encoded[d]
      BY <1>3, <1>4, <2>3
    <3>1. SUFFICES ASSUME NEW i \in (m + 2)..n
                   PROVE  mWriteBuf[d][i] = IF (r + 1) + i - (m + 1) <= encoded[d]
                                            THEN (r + 1) + i - (m + 1) ELSE 0
      BY <3>0
    <3>2. i \in (m + 1)..n /\ (r + 1) + i - (m + 1) = r + i - m
      BY <1>3
    <3> QED
      BY <1>5, <3>2
  <2>7. (inflight[d] # <<>> => InBuffer(d, n))'
    BY <1>4, <2>5, <2>6 DEF InBuffer, n
  <2>8. Len(received'[d]) <= encoded'[d]
    BY <1>4, <1>8, <2>3
  <2>9. WordInv(d)'
    BY <1>7, <2>4, <2>7, <2>8 DEF WordInv, n
  <2> QED
    BY <1>1, <1>8, <2>2, <2>9 DEF r
<1>9. CASE ~(r + 1 <= encoded[d])
  <2>1. received' = received /\ encoded[d] = r
    BY <1>3, <1>4, <1>5, <1>6, <1>9
  <2>2. encoded'[d] <= Len(received'[d]) + n - moved'[d]
    BY <1>3, <1>4, <2>1 DEF r
  <2>3. \A i \in (moved'[d] + 1)..n :
          mWriteBuf'[d][i] = IF Len(received'[d]) + i - moved'[d] <= encoded'[d]
                             THEN Len(received'[d]) + i - moved'[d] ELSE 0
    <3>1. SUFFICES ASSUME NEW i \in (m + 2)..n
                   PROVE  mWriteBuf[d][i] = IF r + i - (m + 1) <= encoded[d]
                                            THEN r + i - (m + 1) ELSE 0
      BY <1>3, <1>4, <2>1 DEF r
    <3>2. i \in (m + 1)..n /\ ~(r + i - (m + 1) <= encoded[d]) /\ ~(r + i - m <= encoded[d])
      BY <1>3, <2>1
    <3> QED
      BY <1>5, <3>2
  <2>4. (inflight[d] # <<>> => InBuffer(d, n))'
    BY <1>4, <2>2, <2>3 DEF InBuffer, n
  <2>5. WordInv(d)'
    BY <1>4, <1>7, <2>1, <2>4 DEF WordInv, n
  <2> QED
    BY <1>1, <2>1, <2>5 DEF r
<1> QED
  BY <1>8, <1>9

(* The words in a buffer are those encoded but not received yet. *)
LEMMA WordStep ==
  ASSUME IInv, IInv', [Next]_vars, NEW d \in Endpoints, OneEndpoint(d),
         OneWriteInv(d), QueueInv(d), WordInv(d)
  PROVE  WordInv(d)'
<1> USE WritePathAssumption
<1>0. /\ TypeOK
      /\ ~mWritePending => inflight[d] = <<>> /\ moved[d] = 0
  BY IdlePipe DEF IInv, OneWriteInv
<1>1. ASSUME NEW t \in Senders, NEW port \in Ports, SendCall(t, port)
      PROVE  WordInv(d)'
  BY <1>0, <1>1, PlainMove, WordFrame DEF SendCall, Goto, usbVars, bufVars, Threads
<1>2. ASSUME NEW t \in Senders, SendPacket(t)
      PROVE  WordInv(d)'
  BY <1>2, WordFrame DEF SendPacket, lockVars, usbVars, bufVars, Preparing
<1>3. ASSUME NEW t \in Senders, SendKick(t)
      PROVE  WordInv(d)'
  BY <1>0, <1>3, PlainMove, WordFrame DEF SendKick, Goto, usbVars, bufVars, Threads
<1>4. ASSUME NEW t \in Threads, DoWrite(t)
      PROVE  WordInv(d)'
  <2>1. CASE mWriteQueue = <<>>
    <3>1. pc' = [pc EXCEPT ![t] = "unlock"] /\ pc[t] = "dowrite"
      BY <1>4, <2>1 DEF DoWrite, Goto
    <3> QED
      BY <1>0, <1>4, <2>1, <3>1, PlainMove, WordFrame DEF DoWrite, usbVars
  <2>2. CASE mWriteQueue # <<>>
    <3>1. /\ pc' = [pc EXCEPT ![t] = "prepare"] /\ pc[t] = "dowrite"
          /\ fill' = [e \in Endpoints |-> 0]
          /\ UNCHANGED <<mWritePending, mWriteBuf, encoded, inflight, moved, completions, received>>
      BY <1>4, <2>2 DEF DoWrite, Goto, usbVars
    <3>2. mWritePending = FALSE /\ inflight[d] = <<>> /\ completions = <<>>
          /\ pc[IOThread] # "callback" /\ moved[d] = 0
      BY <1>0, <3>1 DEF OneWriteInv, TypeOK
    <3>3. encoded[d] = Len(received[d])
      BY <3>1, <3>2, WhoPrepares DEF WordInv
    <3>4. Preparing' /\ pc'[IOThread] # "callback"
      BY <1>0, <3>1, <3>2 DEF TypeOK, Preparing
    <3>5. InBuffer(d, fill[d])' /\ encoded'[d] = Len(received'[d]) + fill'[d]
      BY <1>0, <3>1, <3>2, <3>3, WordTypes DEF InBuffer
    <3> QED
      BY <3>1, <3>2, <3>3, <3>4, <3>5, <1>0, WordTypes DEF WordInv
  <2> QED
    BY <2>1, <2>2
<1>5. ASSUME NEW t \in Threads, PrepareWord(t)
      PROVE  WordInv(d)'
  <2>1. PICK words \in {0, 1} :
           /\ encoded' = [encoded EXCEPT ![d] = @ + words]
           /\ fill' = [fill EXCEPT ![d] = @ + words]
           /\ mWriteBuf' = IF words = 1
                THEN [mWriteBuf EXCEPT ![d] = [mWriteBuf[d] EXCEPT ![fill[d] + 1] = encoded[d] + 1]]
                ELSE mWriteBuf
           /\ pc[t] = "prepare"
           /\ pc' = [pc EXCEPT ![t] = IF fill[d] + words = BufWords
                                       THEN "write1" ELSE "prepare"]
           /\ UNCHANGED <<mWritePending, inflight, moved, completions, received>>
    BY <1>5, RoundOfQueue DEF usbVars
  <2> DEFINE r == Len(received[d])
             n == fill[d]
  <2>2. /\ r \in Nat /\ n \in 0..(BufWords - 1) /\ encoded[d] \in Nat
        /\ mWriteBuf[d] \in [1..BufWords -> Nat]
    BY <1>0, <2>1, WordTypes DEF IInv, BufferInv
  <2>3. /\ mWritePending = FALSE /\ inflight[d] = <<>> /\ completions = <<>>
        /\ pc[IOThread] # "callback" /\ moved[d] = 0
    BY <1>0, <2>1 DEF OneWriteInv, TypeOK
  <2>4. Preparing /\ Preparing' /\ pc'[IOThread] # "callback"
    <3>1. \A s \in Threads : pc'[s] = pc[s] \/ (s = t /\ pc'[s] \in {"prepare", "write1"})
      BY <1>0, <2>1 DEF TypeOK
    <3>2. pc'[t] \in {"prepare", "write1"}
      BY <1>0, <2>1 DEF TypeOK
    <3> QED
      BY <2>1, <2>3, <3>1, <3>2 DEF Preparing, Threads
  <2>5. /\ encoded[d] = r + n
        /\ \A i \in 1..n : mWriteBuf[d][i] = r + i
    <3>1. encoded[d] = r + n
      BY <2>1 DEF WordInv
    <3>2. \A i \in (0 + 1)..n : mWriteBuf[d][i] = IF r + i - 0 <= encoded[d] THEN r + i - 0 ELSE 0
      BY <2>3, <2>4 DEF WordInv, InBuffer
    <3> HIDE DEF n, r
    <3>3. \A i \in 1..n : i \in (0 + 1)..n /\ r + i - 0 = r + i /\ r + i <= r + n
      BY <2>2
    <3> QED
      BY <3>1, <3>2, <3>3
  <2>6. /\ encoded'[d] = r + n + words /\ fill'[d] = n + words
        /\ \A i \in 1..n : mWriteBuf'[d][i] = mWriteBuf[d][i]
        /\ words = 1 => mWriteBuf'[d][n + 1] = r + n + 1
    <3>1. encoded'[d] = encoded[d] + words /\ fill'[d] = n + words
      BY <1>0, <2>1 DEF TypeOK
    <3>2. words = 1 => mWriteBuf'[d] = [mWriteBuf[d] EXCEPT ![n + 1] = encoded[d] + 1]
      BY <1>0, <2>1 DEF TypeOK
    <3>3. words = 0 => mWriteBuf'[d] = mWriteBuf[d]
      BY <2>1
    <3> HIDE DEF n, r
    <3>4. n + 1 \in 1..BufWords /\ \A i \in 1..n : i \in 1..BufWords /\ i # n + 1
      BY <2>2
    <3>5. words = 1 => /\ mWriteBuf'[d][n + 1] = encoded[d] + 1
                       /\ \A i \in 1..n : mWriteBuf'[d][i] = mWriteBuf[d][i]
      BY <2>2, <3>2, <3>4
    <3> QED
      BY <2>5, <3>1, <3>3, <3>5
  <2> HIDE DEF n, r
  <2>7. \A i \in 1..(n + words) : mWriteBuf'[d][i] = r + i /\ r + i <= encoded'[d]
    <3>1. ASSUME NEW i \in 1..n
          PROVE  mWriteBuf'[d][i] = r + i /\ r + i <= encoded'[d]
      <4>1. mWriteBuf'[d][i] = r + i
        BY <2>5, <2>6
      <4>2. r + i <= r + n + words
        BY <2>2
      <4> QED
        BY <2>6, <4>1, <4>2
    <3>2. words = 1 => mWriteBuf'[d][n + 1] = r + (n + 1) /\ r + (n + 1) <= encoded'[d]
      <4>1. r + (n + 1) = r + n + 1 /\ r + n + 1 <= r + n + 1
        BY <2>2
      <4> QED
        BY <2>6, <4>1
    <3>3. \A i \in 1..(n + words) : i \in 1..n \/ (words = 1 /\ i = n + 1)
      BY <2>2
    <3> QED
      BY <3>1, <3>2, <3>3
  <2>8. InBuffer(d, fill[d])'
    <3>1. moved'[d] = 0 /\ Len(received'[d]) = r /\ fill'[d] = n + words
      BY <2>1, <2>3, <2>6 DEF r
    <3>2. encoded'[d] <= r + (n + words) - 0
      BY <2>2, <2>6
    <3>3. \A i \in (0 + 1)..(n + words) :
            mWriteBuf'[d][i] = IF r + i - 0 <= encoded'[d] THEN r + i - 0 ELSE 0
      BY <2>2, <2>7
    <3> QED
      BY <3>1, <3>2, <3>3 DEF InBuffer
  <2>9. Len(received'[d]) <= encoded'[d] /\ encoded'[d] = Len(received'[d]) + fill'[d]
    BY <2>1, <2>2, <2>6 DEF r
  <2> QED
    BY <2>1, <2>3, <2>4, <2>8, <2>9 DEF WordInv
<1>6. ASSUME NEW t \in Threads, PrepareEmpty(t)
      PROVE  WordInv(d)'
  <2> DEFINE r == Len(received[d])
             n == fill[d]
  <2>1. /\ pc[t] = "prepare" /\ pc' = [pc EXCEPT ![t] = "write1"]
        /\ fill'[d] = IF n > 0 THEN n + 1 ELSE 0
        /\ mWriteBuf'[d] = IF n > 0 THEN [mWriteBuf[d] EXCEPT ![n + 1] = 0] ELSE mWriteBuf[d]
        /\ UNCHANGED <<mWritePending, encoded, inflight, moved, completions, received>>
    BY <1>6 DEF PrepareEmpty, Goto, usbVars
  <2>2. /\ r \in Nat /\ n \in 0..(BufWords - 1) /\ encoded[d] \in Nat
        /\ mWriteBuf[d] \in [1..BufWords -> Nat]
    BY <1>0, <2>1, WordTypes DEF IInv, BufferInv
  <2>3. /\ mWritePending = FALSE /\ inflight[d] = <<>> /\ completions = <<>>
        /\ pc[IOThread] # "callback" /\ moved[d] = 0
    BY <1>0, <2>1 DEF OneWriteInv, TypeOK
  <2>4. Preparing /\ Preparing' /\ pc'[IOThread] # "callback" /\ \A s \in Threads : pc'[s] # "prepare"
    <3>1. \A s \in Threads : pc'[s] = IF s = t THEN "write1" ELSE pc[s]
      BY <1>0, <2>1 DEF TypeOK
    <3>2. \A s \in Threads : pc[s] = "prepare" => s = t
      BY <2>1, OneInside DEF IInv, InsideLock
    <3> QED
      BY <2>1, <2>3, <3>1, <3>2 DEF Preparing, Threads
  <2>5. /\ encoded[d] = r + n
        /\ \A i \in 1..n : mWriteBuf[d][i] = r + i
    <3>1. encoded[d] = r + n
      BY <2>1 DEF WordInv
    <3>2. \A i \in (0 + 1)..n : mWriteBuf[d][i] = IF r + i - 0 <= encoded[d] THEN r + i - 0 ELSE 0
      BY <2>3, <2>4 DEF WordInv, InBuffer
    <3> HIDE DEF n, r
    <3>3. \A i \in 1..n : i \in (0 + 1)..n /\ r + i - 0 = r + i /\ r + i <= r + n
      BY <2>2
    <3> QED
      BY <3>1, <3>2, <3>3
  <2> HIDE DEF n, r
  <2>6. InBuffer(d, fill[d])'
    <3>1. moved'[d] = 0 /\ Len(received'[d]) = r /\ encoded'[d] = r + n
      BY <2>1, <2>3, <2>5 DEF r
    <3>2. CASE n = 0
      BY <2>1, <2>2, <3>1, <3>2 DEF InBuffer
    <3>3. CASE n > 0
      <4>1. fill'[d] = n + 1 /\ mWriteBuf'[d] = [mWriteBuf[d] EXCEPT ![n + 1] = 0]
        BY <2>1, <3>3
      <4>2. n + 1 \in 1..BufWords
        BY <2>2
      <4>3. mWriteBuf'[d][n + 1] = 0 /\ \A i \in 1..n : mWriteBuf'[d][i] = r + i
        BY <2>2, <2>5, <4>1, <4>2, SMTT(30)
      <4>4. \A i \in (0 + 1)..(n + 1) :
              mWriteBuf'[d][i] = IF r + i - 0 <= r + n THEN r + i - 0 ELSE 0
        BY <2>2, <4>3
      <4>5. r + n <= r + (n + 1) - 0
        BY <2>2
      <4> QED
        BY <3>1, <4>1, <4>4, <4>5 DEF InBuffer
    <3> QED
      BY <2>2, <3>2, <3>3
  <2> QED
    BY <2>1, <2>3, <2>4, <2>6 DEF WordInv
<1>7. ASSUME NEW t \in Threads, NEW l \in {"write2", "unlock"},
             pc' = [pc EXCEPT ![t] = l],
             UNCHANGED <<mWriteBuf, fill, encoded, moved, completions, received>>,
             \/ pc[t] = "write1" /\ l = "write2" /\ WritePipe(t, 0)
             \/ pc[t] = "write2" /\ l = "unlock" /\ WritePipe(t, 1)
      PROVE  WordInv(d)'
  <2>1. /\ Preparing /\ \A s \in Threads : pc'[s] # "prepare"
        /\ pc'[IOThread] = "callback" => pc[IOThread] = "callback"
        /\ l = "write2" => Preparing'
    BY <1>0, <1>7, OneInside, SMTT(30) DEF TypeOK, Preparing, IInv, InsideLock
  <2>2. CASE /\ UNCHANGED <<mWritePending, inflight, faults>>
             /\ (pc[t] = "write1" => fill[0] = 0)
             /\ (pc[t] = "write2" => fill[1] = 0)
    <3>1. CASE l = "write2"
      <4>1. UNCHANGED <<mWritePending, mWriteBuf, fill, encoded, inflight, moved,
                        completions, received>>
        BY <1>7, <2>2
      <4>2. Preparing' <=> Preparing
        BY <2>1, <3>1
      <4> QED
        BY <2>1, <4>1, <4>2, WordFrame
    <3>2. CASE l = "unlock"
      <4>1. mWritePending \/ fill[d] = 0
        <5>1. pc[t] = "write2" /\ fill[1] = 0 /\ fill[0] \in Nat
          BY <1>0, <1>7, <2>2, <3>2, WordTypes DEF Endpoints
        <5>2. mWritePending \/ fill[0] = 0
          BY <5>1 DEF OneWriteInv
        <5> QED
          BY <5>1, <5>2 DEF Endpoints
      <4>2. ~mWritePending => encoded[d] = Len(received[d])
        BY <1>0, <2>1, <4>1, WordTypes DEF WordInv, InBuffer
      <4>3. ~mWritePending' => IF Preparing' THEN InBuffer(d, fill[d])' ELSE encoded'[d] = Len(received'[d])
        BY <1>7, <2>1, <2>2, <4>2 DEF WordInv, InBuffer
      <4>4. inflight'[d] # <<>> => InBuffer(d, Head(inflight[d]))'
        BY <1>7, <2>2 DEF WordInv, InBuffer
      <4> QED
        BY <1>7, <2>1, <2>2, <4>3, <4>4 DEF WordInv
    <3> QED
      BY <3>1, <3>2
  <2>3. CASE /\ fill[d] > 0 /\ fill[d] \in 1..BufWords
             /\ mWritePending = FALSE /\ mWritePending' = TRUE
             /\ inflight[d] = <<>> /\ completions = <<>> /\ pc[IOThread] # "callback"
             /\ inflight'[d] \in {<<>>, <<fill[d]>>}
    <3>1. InBuffer(d, fill[d])'
      BY <1>7, <2>1, <2>3 DEF WordInv, InBuffer
    <3>2. inflight'[d] # <<>> => Head(inflight'[d]) = fill'[d]
      BY <1>7, <2>3
    <3> QED
      BY <1>7, <2>1, <2>3, <3>1, <3>2 DEF WordInv
  <2> QED
    BY <1>7, <2>2, <2>3, OneWriteStarts
<1>8. ASSUME NEW t \in Threads, WritePipe1(t) \/ WritePipe2(t)
      PROVE  WordInv(d)'
  BY <1>7, <1>8 DEF WritePipe1, WritePipe2, Goto, bufVars
<1>9. ASSUME NEW t \in Threads, Unlock(t)
      PROVE  WordInv(d)'
  BY <1>0, <1>9, PlainMove, WordFrame DEF Unlock, Goto, usbVars, bufVars
<1>10. CASE WriteCallback
  <2>1. /\ completions # <<>> /\ completions' = Tail(completions)
        /\ pc[IOThread] = "idle"
        /\ pc' = [pc EXCEPT ![IOThread] = IF Head(completions) = "success" THEN "callback" ELSE "idle"]
        /\ UNCHANGED <<mWritePending, mWriteBuf, fill, encoded, inflight, moved, received>>
    BY <1>10 DEF WriteCallback, Goto, bufVars
  <2>2. completions \in Seq({"success", "error"}) /\ Len(completions) <= 1 /\ mWritePending
    BY <1>0, <2>1 DEF OneWriteInv, TypeOK
  <2>3. completions' = <<>> /\ (Head(completions) = "success" => completions = <<"success">>)
    <3>1. Len(completions) = 1 /\ Tail(completions) = <<>>
      BY <2>1, <2>2, OneElement
    <3> QED
      BY <2>1, <2>2, <3>1
  <2>4. /\ \A s \in Threads : pc'[s] = "prepare" => pc[s] = "prepare"
        /\ pc'[IOThread] = "callback" => Head(completions) = "success"
    BY <1>0, <2>1 DEF TypeOK, Threads
  <2> QED
    BY <2>1, <2>2, <2>3, <2>4 DEF WordInv, InBuffer
<1>11. CASE CallbackLocked
  <2>1. /\ pc[IOThread] = "callback" /\ pc' = [pc EXCEPT ![IOThread] = "dowrite"]
        /\ holder = NoThread /\ mWritePending' = FALSE
        /\ UNCHANGED <<mWriteBuf, fill, encoded, inflight, moved, completions, received>>
    BY <1>11 DEF CallbackLocked, Goto, usbVars, bufVars
  <2>2. ~Preparing /\ encoded[d] = Len(received[d]) /\ inflight[d] = <<>> /\ completions = <<>>
    BY <2>1, WhoPrepares DEF WordInv, OneWriteInv
  <2>3. ~Preparing' /\ \A s \in Threads : pc'[s] # "prepare"
    BY <1>0, <2>1, <2>2 DEF TypeOK, Preparing
  <2> QED
    BY <2>1, <2>2, <2>3 DEF WordInv
<1>12. ASSUME NEW e \in Endpoints, TransferWord(e)
       PROVE  WordInv(d)'
  BY <1>12, WordTransfer
<1>13. ASSUME NEW e \in Endpoints, TransferDone(e)
       PROVE  WordInv(d)'
  <2>1. inflight[e] # <<>> /\ moved[e] = Head(inflight[e]) /\ TransferEnd(e, "success")
    BY <1>13 DEF TransferDone
  <2> QED
    BY <2>1, WordTransferEnds
<1>14. ASSUME NEW e \in Endpoints, TransferError(e)
       PROVE  WordInv(d)'
  <2>1. inflight[e] # <<>> /\ TransferEnd(e, "error")
    BY <1>14 DEF TransferError
  <2> QED
    BY <2>1, WordTransferEnds
<1>15. CASE UNCHANGED vars
  BY <1>15, WordFrame DEF vars, usbVars, bufVars, lockVars, Preparing
<1> QED
  BY <1>1, <1>2, <1>3, <1>4, <1>5, <1>6, <1>8, <1>9, <1>10, <1>11, <1>12,
     <1>13, <1>14, <1>15 DEF Next, WriteStep

(* The invariant holds of the initial state. *)
LEMMA InitOneInv == Init => OneInv
<1> SUFFICES ASSUME Init, NEW d \in Endpoints, OneEndpoint(d)
             PROVE  OneWriteInv(d) /\ QueueInv(d) /\ WordInv(d)
  BY DEF OneInv
<1>1. OneWriteInv(d)
  BY WritePathAssumption DEF Init, OneWriteInv, Threads
<1>2. QueueInv(d)
  BY DEF Init, QueueInv
<1>3. WordInv(d)
  BY WritePathAssumption DEF Init, WordInv, Preparing, Threads
<1> QED
  BY <1>1, <1>2, <1>3

(* On a device with one OUT endpoint at most one write exists, and what is in
   its buffer are the words encoded and not received yet. *)
THEOREM OneInductive == Spec => []OneInv
<1>1. IInv /\ IInv' /\ OneInv /\ [Next]_vars => OneInv'
  <2> SUFFICES ASSUME IInv, IInv', OneInv, [Next]_vars, NEW d \in Endpoints, OneEndpoint(d)
               PROVE  OneWriteInv(d)' /\ QueueInv(d)' /\ WordInv(d)'
    BY DEF OneInv, OneEndpoint
  <2>1. OneWriteInv(d) /\ QueueInv(d) /\ WordInv(d)
    BY DEF OneInv
  <2>2. OneWriteInv(d)'
    BY <2>1, OneWriteStep
  <2>3. QueueInv(d)'
    BY <2>1, QueueStep
  <2>4. WordInv(d)'
    BY <2>1, WordStep
  <2> QED
    BY <2>2, <2>3, <2>4
<1> QED
  BY InitOneInv, <1>1, Inductive, PTL DEF Spec

(* The devices the next theorems are about. *)
OneOut == \E d \in Endpoints : OneEndpoint(d)

(* One OUT endpoint: it receives the words in the order in which Send took
   them, whatever writes fail.  PipeOrder for any number of clients, any
   buffer size and any number of failures. *)
THEOREM OrderKept ==
  ASSUME OneOut
  PROVE  Spec => []PipeOrder
<1>1. IInv /\ OneInv => PipeOrder
  <2> SUFFICES ASSUME IInv, OneInv, NEW e \in Endpoints, NEW i \in 1..Len(received[e])
               PROVE  received[e][i] = i
    BY DEF PipeOrder
  <2>1. PICK d \in Endpoints : OneEndpoint(d)
    BY DEF OneOut
  <2>2. OneWriteInv(d) /\ WordInv(d)
    BY <2>1 DEF OneInv
  <2>3. CASE e = d
    BY <2>2, <2>3 DEF WordInv
  <2>4. CASE e # d
    <3>1. received[e] = <<>>
      BY <2>2, <2>4 DEF OneWriteInv
    <3> QED
      BY <3>1
  <2> QED
    BY <2>3, <2>4
<1> QED
  BY <1>1, Inductive, OneInductive, PTL

(* One OUT endpoint: DoWrite is only called when no write is outstanding, as
   its comment demands. *)
THEOREM IdleWhenCalled ==
  ASSUME OneOut
  PROVE  Spec => []DoWriteOnlyWhenIdle
<1>1. OneInv => DoWriteOnlyWhenIdle
  <2> SUFFICES ASSUME OneInv, NEW t \in Threads, pc[t] = "dowrite"
               PROVE  ~Outstanding
    BY DEF DoWriteOnlyWhenIdle
  <2>1. PICK d \in Endpoints : OneEndpoint(d)
    BY DEF OneOut
  <2>2. OneWriteInv(d) /\ ~mWritePending
    BY <2>1 DEF OneInv, OneWriteInv
  <2> QED
    BY <2>2 DEF OneWriteInv, Outstanding
<1> QED
  BY <1>1, OneInductive, PTL

(* One OUT endpoint: no step changes a write buffer while the device may
   still read it. *)
THEOREM BufferKept ==
  ASSUME OneOut
  PROVE  Spec => BufferNotReused
<1>1. OneInv /\ [Next]_vars =>
        [\A e \in Endpoints : inflight[e] # <<>> => mWriteBuf'[e] = mWriteBuf[e]]_vars
  <2> SUFFICES ASSUME OneInv, Next, NEW e \in Endpoints, inflight[e] # <<>>
               PROVE  mWriteBuf'[e] = mWriteBuf[e]
    OBVIOUS
  <2>1. PICK d \in Endpoints : OneEndpoint(d)
    BY DEF OneOut
  <2>2. \A t \in Threads : pc[t] # "prepare"
    <3>1. OneWriteInv(d)
      BY <2>1 DEF OneInv
    <3>2. e = d /\ mWritePending
      BY <3>1 DEF OneWriteInv
    <3> QED
      BY <3>1, <3>2 DEF OneWriteInv
  <2>3. UNCHANGED mWriteBuf
    BY <2>2 DEF Next, WriteStep, SendCall, SendPacket, SendKick, DoWrite, PrepareWord,
         PrepareEmpty, WritePipe1, WritePipe2, Unlock, WriteCallback, CallbackLocked,
         TransferWord, TransferDone, TransferError, TransferEnd, bufVars
  <2> QED
    BY <2>3
<1> QED
  BY <1>1, OneInductive, PTL DEF Spec, BufferNotReused

-----------------------------------------------------------------------------
(* A packet that Send queues is a step of the abstract channel, or none. *)
LEMMA AcceptStep ==
  ASSUME TypeOK, NEW t \in Senders, SendPacket(t)
  PROVE  [Pipe!Next]_(Pipe!pipeVars)
<1> USE WritePathAssumption
<1> DEFINE e == Endpoint(portNumber[t])
<1>1. e \in Endpoints
  BY EndpointType DEF TypeOK
<1>2. PICK words \in 0..MaxPacketWords : accepted' = [accepted EXCEPT ![e] = @ + words]
  BY DEF SendPacket
<1>3. UNCHANGED received
  BY DEF SendPacket, usbVars
<1> HIDE DEF e
<1>4. CASE words = 0
  <2>1. accepted' = accepted
    BY <1>1, <1>2, <1>4 DEF TypeOK
  <2> QED
    BY <1>3, <2>1 DEF Pipe!pipeVars
<1>5. CASE words # 0
  <2>1. words \in 1..MaxPacketWords
    BY <1>5
  <2> QED
    BY <1>1, <1>2, <1>3, <2>1 DEF Pipe!Next, Pipe!Accept
<1> QED
  BY <1>4, <1>5

(* What was put into the buffers was accepted before. *)
LEMMA EncodedAccepted ==
  ASSUME IInv, NEW d \in Endpoints, QueueInv(d)
  PROVE  encoded[d] <= accepted[d]
<1> DEFINE Elem == [port : Ports, next : Nat, last : Nat]
<1>1. mWriteQueue \in Seq(Elem) /\ accepted[d] \in Nat /\ encoded[d] \in Nat
  BY DEF IInv, TypeOK
<1>2. CASE mWriteQueue = <<>>
  BY <1>1, <1>2 DEF QueueInv
<1>3. CASE mWriteQueue # <<>>
  <2>1. 1 \in 1..Len(mWriteQueue) /\ mWriteQueue[1] \in Elem
    <3> HIDE DEF Elem
    <3>1. Len(mWriteQueue) \in Nat \ {0}
      BY <1>1, <1>3
    <3> QED
      BY <1>1, <3>1, ElementOfSeq
  <2>2. mWriteQueue[1].next = encoded[d] + 1
    BY <1>3 DEF QueueInv
  <2>3. mWriteQueue[1].next <= mWriteQueue[1].last + 1 /\ mWriteQueue[1].last <= accepted[d]
    BY <2>1 DEF QueueInv
  <2> QED
    BY <1>1, <2>1, <2>2, <2>3
<1> QED
  BY <1>2, <1>3

(* A word the device reads is the next one of the abstract channel, or null. *)
LEMMA DeliverStep ==
  ASSUME IInv, NEW d \in Endpoints, OneWriteInv(d), QueueInv(d), WordInv(d), IInv',
         NEW e \in Endpoints, TransferWord(e)
  PROVE  [Pipe!Next]_(Pipe!pipeVars)
<1>1. UNCHANGED accepted
  BY DEF TransferWord
<1>2. received \in [Endpoints -> Seq(Nat)] /\ received' \in [Endpoints -> Seq(Nat)]
  BY DEF IInv, TypeOK
<1>3. CASE received' = received
  BY <1>1, <1>3 DEF Pipe!pipeVars
<1>4. CASE /\ received'[d] = Append(received[d], Len(received[d]) + 1)
           /\ Len(received[d]) + 1 <= encoded[d]
           /\ \A x \in Endpoints \ {d} : received'[x] = received[x]
  <2>1. received' = [received EXCEPT ![d] = Append(@, Len(@) + 1)]
    BY <1>2, <1>4
  <2>2. encoded[d] <= accepted[d]
    BY EncodedAccepted
  <2>3. Len(received[d]) \in Nat /\ encoded[d] \in Nat /\ accepted[d] \in Nat
    BY WordTypes DEF IInv, TypeOK
  <2>4. Len(received[d]) < accepted[d]
    BY <1>4, <2>2, <2>3
  <2> QED
    BY <1>1, <2>1, <2>4 DEF Pipe!Next, Pipe!Deliver
<1> QED
  BY <1>3, <1>4, WordTransfer

(* One OUT endpoint: the write path implements the abstract FIFO channel,
   with failures too. *)
THEOREM Refinement ==
  ASSUME OneOut
  PROVE  Spec => ImplementsPipe
<1>1. Init => Pipe!Init
  BY DEF Init, Pipe!Init
<1>2. IInv /\ IInv' /\ OneInv /\ [Next]_vars => [Pipe!Next]_(Pipe!pipeVars)
  <2> SUFFICES ASSUME IInv, IInv', OneInv, [Next]_vars
               PROVE  [Pipe!Next]_(Pipe!pipeVars)
    OBVIOUS
  <2>1. PICK d \in Endpoints : OneEndpoint(d)
    BY DEF OneOut
  <2>2. OneWriteInv(d) /\ QueueInv(d) /\ WordInv(d)
    BY <2>1 DEF OneInv
  <2>3. ASSUME NEW t \in Senders, SendPacket(t)
        PROVE  [Pipe!Next]_(Pipe!pipeVars)
    BY <2>3, AcceptStep DEF IInv
  <2>4. ASSUME NEW e \in Endpoints, TransferWord(e)
        PROVE  [Pipe!Next]_(Pipe!pipeVars)
    BY <2>2, <2>4, DeliverStep
  <2>5. CASE UNCHANGED <<accepted, received>>
    BY <2>5 DEF Pipe!pipeVars
  <2>6. ASSUME Next, ~\E t \in Senders : SendPacket(t), ~\E e \in Endpoints : TransferWord(e)
        PROVE  UNCHANGED <<accepted, received>>
    BY <2>6 DEF Next, WriteStep, SendCall, SendKick, DoWrite, PrepareWord, PrepareEmpty,
         WritePipe1, WritePipe2, Unlock, WriteCallback, CallbackLocked, TransferDone,
         TransferError, TransferEnd, usbVars, bufVars
  <2>7. CASE UNCHANGED vars
    BY <2>5, <2>7 DEF vars, usbVars
  <2> QED
    BY <2>3, <2>4, <2>5, <2>6, <2>7
<1> QED
  BY <1>1, <1>2, Inductive, OneInductive, PTL DEF Spec, ImplementsPipe, Pipe!Spec
==============================================================================
