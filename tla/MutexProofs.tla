----------------------------- MODULE MutexProofs -----------------------------
(* Proofs about class Mutex, for any number of threads and any nesting. *)
EXTENDS Mutex, SequenceTheorems, TLAPS

(* What SequencesExt says of the last section and of the sections below it. *)
LEMMA FrontOfGuards ==
  ASSUME NEW s \in Seq(Results), s # <<>>
  PROVE  /\ Len(s) \in Nat \ {0}
         /\ Last(s) = s[Len(s)]
         /\ Front(s) \in Seq(Results)
         /\ Len(Front(s)) = Len(s) - 1
         /\ \A i \in 1..(Len(s) - 1) : Front(s)[i] = s[i]
         /\ Front(s) = <<>> <=> Len(s) = 1
<1> DEFINE n == Len(s) - 1
<1>1. Len(s) \in Nat \ {0} /\ n \in Nat
  OBVIOUS
<1>2. \A i \in 1..n : s[i] \in Results
  BY <1>1
<1>3. Front(s) = SubSeq(s, 1, n) /\ Last(s) = s[Len(s)]
  BY Zenon DEF Front, Last
<1> HIDE DEF n
<1>4. Front(s) \in Seq(Results)
  BY <1>1, <1>2, <1>3
<1>5. Len(Front(s)) = n
  BY <1>1, <1>3
<1>6. \A i \in 1..n : Front(s)[i] = s[i]
  BY <1>1, <1>3
<1>7. Front(s) = <<>> <=> n = 0
  BY <1>4, <1>5, EmptySeq
<1> QED
  BY <1>1, <1>3, <1>4, <1>5, <1>6, <1>7 DEF n

(* While a thread is inside Lock or Unlock, nobody owns the mutex. *)
LEMMA NoOwnerInside ==
  ASSUME IInv, NEW t \in Threads, pc[t] \in {"locked", "unlocking"}
  PROVE  mOwner = NoThread /\ mMutex = t /\ guards[t] = <<>>
<1>1. mMutex = t
  BY DEF IInv, OwnerHoldsMutex
<1>2. mOwner # t
  BY DEF IInv, OwnerInSection
<1>3. \A s \in Threads : mOwner = s => s = t
  BY <1>1 DEF IInv, OwnerHoldsMutex
<1> QED
  BY <1>1, <1>2, <1>3 DEF IInv, TypeOK, OwnerInSection, InSection

(* The thread that leaves a section owns the mutex, and its Lock returned true
   exactly when the section is its outermost one. *)
LEMMA LeavingOwner ==
  ASSUME IInv, NEW t \in Threads, guards[t] # <<>>
  PROVE  /\ mOwner = t
         /\ Len(guards[t]) \in Nat \ {0}
         /\ Last(guards[t]) = "acquired" <=> Len(guards[t]) = 1
<1>1. guards[t] \in Seq(Results) /\ mOwner = t
  BY DEF IInv, TypeOK, OwnerInSection, InSection
<1>2. Len(guards[t]) \in Nat \ {0} /\ Last(guards[t]) = guards[t][Len(guards[t])]
  BY <1>1, FrontOfGuards
<1>3. guards[t][Len(guards[t])] = "acquired" <=> Len(guards[t]) = 1
  <2>1. \A i \in 1..Len(guards[t]) : guards[t][i] = "acquired" <=> i = 1
    BY DEF IInv, OwnerInSection
  <2>2. Len(guards[t]) \in 1..Len(guards[t])
    BY <1>2
  <2> QED
    BY <2>1, <2>2
<1> QED
  BY <1>1, <1>2, <1>3

(* The initial state satisfies the inductive invariant. *)
LEMMA InitIInv == Init => IInv
BY MutexAssumption DEF Init, IInv, TypeOK, OwnerHoldsMutex, OwnerInSection, InSection

(* Every step of Lock and Unlock, and every stuttering step, preserves it. *)
LEMMA StepIInv == IInv /\ [Next]_vars => IInv'
<1> SUFFICES ASSUME IInv, [Next]_vars
             PROVE  IInv'
  OBVIOUS
<1> USE MutexAssumption DEF IInv, TypeOK, OwnerHoldsMutex, OwnerInSection, InSection
<1>1. ASSUME NEW t \in Threads, LockTest(t)
      PROVE  IInv'
  <2>1. CASE mOwner = t
    <3> DEFINE g == Append(guards[t], "nested")
    <3>1. /\ UNCHANGED <<mOwner, pc, mMutex>>
          /\ guards' = [guards EXCEPT ![t] = g]
      BY <1>1, <2>1 DEF LockTest
    <3>2. /\ g \in Seq(Results) /\ g # <<>>
          /\ \A i \in 1..Len(g) : g[i] = "acquired" <=> i = 1
      BY <2>1, AppendProperties DEF Results
    <3> QED
      BY <2>1, <3>1, <3>2
  <2>2. CASE mOwner # t
    BY <1>1, <2>2, SMTT(30) DEF LockTest
  <2> QED
    BY <2>1, <2>2
<1>2. ASSUME NEW t \in Threads, LockAcquire(t)
      PROVE  IInv'
  BY <1>2 DEF LockAcquire
<1>3. ASSUME NEW t \in Threads, LockOwn(t)
      PROVE  IInv'
  <2>1. mOwner = NoThread /\ mMutex = t /\ guards[t] = <<>>
    BY <1>3, NoOwnerInside DEF LockOwn
  <2>2. guards' = [guards EXCEPT ![t] = <<"acquired">>]
    BY <1>3, <2>1 DEF LockOwn
  <2>3. TypeOK' /\ OwnerHoldsMutex'
    BY <1>3, <2>1, <2>2 DEF LockOwn, Results
  <2>4. OwnerInSection'
    BY <1>3, <2>1, <2>2 DEF LockOwn
  <2> QED
    BY <2>3, <2>4
<1>4. ASSUME NEW t \in Threads, LeaveSection(t)
      PROVE  IInv'
  <2> DEFINE n == Len(guards[t])
  <2>1. /\ n \in Nat \ {0}
        /\ mOwner = t
        /\ Last(guards[t]) = "acquired" <=> n = 1
    BY <1>4, LeavingOwner DEF LeaveSection
  <2>2. /\ Front(guards[t]) \in Seq(Results)
        /\ Len(Front(guards[t])) = n - 1
        /\ \A i \in 1..(n - 1) : Front(guards[t])[i] = "acquired" <=> i = 1
    <3>1. guards[t] \in Seq(Results) /\ guards[t] # <<>>
      BY <1>4 DEF LeaveSection
    <3>2. /\ Front(guards[t]) \in Seq(Results)
          /\ Len(Front(guards[t])) = n - 1
          /\ \A i \in 1..(n - 1) : Front(guards[t])[i] = guards[t][i]
      BY <3>1, FrontOfGuards, Zenon
    <3> QED
      BY <2>1, <3>2
  <2>3. /\ guards' = [guards EXCEPT ![t] = Front(guards[t])]
        /\ Front(guards[t]) = <<>> <=> n = 1
    BY <1>4, FrontOfGuards DEF LeaveSection
  <2>4. CASE n = 1
    BY <1>4, <2>1, <2>2, <2>3, <2>4 DEF LeaveSection
  <2>5. CASE n # 1
    <3>1. UNCHANGED <<mOwner, pc, mMutex>>
      BY <1>4, <2>1, <2>5 DEF LeaveSection
    <3>2. TypeOK' /\ OwnerHoldsMutex'
      BY <3>1, <2>2, <2>3
    <3>3. OwnerInSection'
      BY <3>1, <2>1, <2>2, <2>3, <2>5
    <3> QED
      BY <3>2, <3>3
  <2> QED
    BY <2>4, <2>5
<1>5. ASSUME NEW t \in Threads, UnlockRelease(t)
      PROVE  IInv'
  BY <1>5 DEF UnlockRelease
<1>6. CASE UNCHANGED vars
  BY <1>6 DEF vars
<1> QED
  BY <1>1, <1>2, <1>3, <1>4, <1>5, <1>6 DEF Next

(* The owner field names exactly the thread with open sections, and that
   thread holds the pthread mutex. *)
THEOREM Inductive == Spec => []IInv
BY InitIInv, StepIInv, PTL DEF Spec

(* No two threads have sections of one Mutex open at the same time. *)
THEOREM Exclusion == Spec => []MutualExclusion
<1>1. IInv => MutualExclusion
  BY DEF IInv, OwnerInSection, MutualExclusion
<1> QED
  BY <1>1, Inductive, PTL

(* No thread waits for the pthread mutex it holds. *)
THEOREM SelfDeadlockFree == Spec => []NoSelfDeadlock
<1>1. IInv => NoSelfDeadlock
  BY DEF IInv, OwnerHoldsMutex, OwnerInSection, NoSelfDeadlock
<1> QED
  BY <1>1, Inductive, PTL

(* Every step of Mutex is a step of the recursive lock or leaves it alone. *)
LEMMA StepRefines == IInv /\ [Next]_vars => [Lock!Next]_(Lock!lockVars)
<1> SUFFICES ASSUME IInv, [Next]_vars
             PROVE  [Lock!Next]_(Lock!lockVars)
  OBVIOUS
<1> USE MutexAssumption DEF IInv, TypeOK, OwnerInSection, InSection
<1> DEFINE d == [t \in Threads |-> Len(guards[t])]
<1>1. ASSUME NEW t \in Threads, LockTest(t)
      PROVE  Lock!Enter(t) \/ UNCHANGED Lock!lockVars
  <2>1. CASE mOwner = t
    <3>1. Len(Append(guards[t], "nested")) = Len(guards[t]) + 1
      BY AppendProperties DEF Results
    <3>2. guards' = [guards EXCEPT ![t] = Append(@, "nested")] /\ mOwner' = t
      BY <1>1, <2>1 DEF LockTest
    <3>3. d' = [d EXCEPT ![t] = @ + 1]
      BY <3>1, <3>2
    <3> QED
      BY <2>1, <3>2, <3>3 DEF Lock!Enter
  <2>2. CASE mOwner # t
    BY <1>1, <2>2 DEF LockTest, Lock!lockVars
  <2> QED
    BY <2>1, <2>2
<1>2. ASSUME NEW t \in Threads, LockAcquire(t)
      PROVE  UNCHANGED Lock!lockVars
  BY <1>2 DEF LockAcquire, Lock!lockVars
<1>3. ASSUME NEW t \in Threads, LockOwn(t)
      PROVE  Lock!Enter(t)
  <2>1. mOwner = NoThread
    BY <1>3, NoOwnerInside DEF LockOwn
  <2>2. Len(Append(guards[t], "acquired")) = Len(guards[t]) + 1
    BY AppendProperties DEF Results
  <2>3. guards' = [guards EXCEPT ![t] = Append(@, "acquired")] /\ mOwner' = t
    BY <1>3 DEF LockOwn
  <2>4. d' = [d EXCEPT ![t] = @ + 1]
    BY <2>2, <2>3
  <2> QED
    BY <2>1, <2>3, <2>4 DEF Lock!Enter
<1>4. ASSUME NEW t \in Threads, LeaveSection(t)
      PROVE  Lock!Leave(t)
  <2>1. mOwner = t /\ (Last(guards[t]) = "acquired" <=> Len(guards[t]) = 1)
    BY <1>4, LeavingOwner DEF LeaveSection
  <2>2. d' = [d EXCEPT ![t] = @ - 1]
    <3>1. guards[t] \in Seq(Results) /\ guards[t] # <<>>
      BY <1>4 DEF LeaveSection
    <3>2. Len(Front(guards[t])) = Len(guards[t]) - 1
      BY <3>1, FrontOfGuards, Zenon
    <3>3. guards' = [guards EXCEPT ![t] = Front(@)]
      BY <1>4 DEF LeaveSection
    <3> QED
      BY <3>2, <3>3
  <2>3. mOwner' = IF d[t] = 1 THEN NoThread ELSE t
    BY <1>4, <2>1 DEF LeaveSection
  <2> QED
    BY <2>1, <2>2, <2>3 DEF Lock!Leave
<1>5. ASSUME NEW t \in Threads, UnlockRelease(t)
      PROVE  UNCHANGED Lock!lockVars
  BY <1>5 DEF UnlockRelease, Lock!lockVars
<1>6. CASE UNCHANGED vars
  BY <1>6 DEF vars, Lock!lockVars
<1> QED
  BY <1>1, <1>2, <1>3, <1>4, <1>5, <1>6 DEF Next, Lock!Next

(* Class Mutex implements the recursive lock its callers rely on. *)
THEOREM Refinement == Spec => ImplementsRecursiveLock
<1>1. Init => Lock!Init
  BY DEF Init, Lock!Init
<1> QED
  BY <1>1, StepRefines, Inductive, PTL DEF Spec, ImplementsRecursiveLock, Lock!Spec
=============================================================================
