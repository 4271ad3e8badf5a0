-------------------------------- MODULE Mutex --------------------------------
(***************************************************************************)
(* Class Mutex of USBMIDIDriverBase: a plain pthread mutex made recursive  *)
(* by an owner field that Lock reads before it holds the mutex.  Lock and  *)
(* Unlock are split at every access to shared state, so that the steps of  *)
(* different threads interleave between the test of mOwner, the acquiring  *)
(* of the pthread mutex and the write of mOwner.                           *)
(*                                                                         *)
(* A caller keeps the result of Lock (shouldUnlock in Send and in          *)
(* WriteCallback) and calls Unlock only when it was true ("acquired"); guards[t] is the *)
(* stack of those results for the sections thread t has open.              *)
(***************************************************************************)
EXTENDS Naturals, SequencesExt

CONSTANTS Threads,   \* the threads that run driver code
          NoThread,  \* pthread_t 0: nobody
          MaxDepth   \* bound: how deeply one thread nests its sections

ASSUME MutexAssumption == /\ NoThread \notin Threads
                          /\ MaxDepth \in Nat \ {0}

VARIABLES mMutex,    \* the thread that holds the pthread mutex, or NoThread
          mOwner,    \* the owner field
          pc,        \* where in Lock or Unlock each thread is
          guards     \* results of Lock for the sections each thread has open

vars == <<mMutex, mOwner, pc, guards>>

(* What Lock returns: true, it did acquire the lock, or false, the thread had it
   already. *)
Results == {"acquired", "nested"}

TypeOK == /\ mMutex \in Threads \cup {NoThread}
          /\ mOwner \in Threads \cup {NoThread}
          /\ pc \in [Threads -> {"caller", "locking", "locked", "unlocking"}]
          /\ guards \in [Threads -> Seq(Results)]

Init == /\ mMutex = NoThread
        /\ mOwner = NoThread
        /\ pc = [t \in Threads |-> "caller"]
        /\ guards = [t \in Threads |-> <<>>]

-----------------------------------------------------------------------------
(* Mutant: Lock without the owner test. *)
LockTestUnowned(t) ==
  /\ pc[t] = "caller"
  /\ Len(guards[t]) < MaxDepth
  /\ pc' = [pc EXCEPT ![t] = "locking"]
  /\ UNCHANGED <<mMutex, mOwner, guards>>

(* Lock: the test of mOwner, outside the pthread mutex.  The read races with
   the other threads' writes, but a stale value is never t's own: only t
   writes t, and t's own last write is visible to it. *)
LockTest(t) ==
  /\ pc[t] = "caller"
  /\ Len(guards[t]) < MaxDepth
  /\ IF mOwner = t
       THEN /\ guards' = [guards EXCEPT ![t] = Append(@, "nested")]
            /\ UNCHANGED pc
       ELSE /\ pc' = [pc EXCEPT ![t] = "locking"]
            /\ UNCHANGED guards
  /\ UNCHANGED <<mMutex, mOwner>>

(* pthread_mutex_lock returns: it blocks while any thread, t included, holds
   the mutex. *)
LockAcquire(t) ==
  /\ pc[t] = "locking"
  /\ mMutex = NoThread
  /\ mMutex' = t
  /\ pc' = [pc EXCEPT ![t] = "locked"]
  /\ UNCHANGED <<mOwner, guards>>

(* Lock records the owner and returns true. *)
LockOwn(t) ==
  /\ pc[t] = "locked"
  /\ mOwner' = t
  /\ guards' = [guards EXCEPT ![t] = Append(@, "acquired")]
  /\ pc' = [pc EXCEPT ![t] = "caller"]
  /\ UNCHANGED mMutex

(* Mutant: the result of Lock is thrown away and every section ends in Unlock. *)
LeaveAlwaysUnlocks(t) ==
  /\ pc[t] = "caller"
  /\ guards[t] # <<>>
  /\ guards' = [guards EXCEPT ![t] = Front(@)]
  /\ IF mOwner = t
       THEN /\ mOwner' = NoThread
            /\ pc' = [pc EXCEPT ![t] = "unlocking"]
       ELSE UNCHANGED <<mOwner, pc>>
  /\ UNCHANGED mMutex

(* The caller leaves its innermost section; it calls Unlock only when the
   matching Lock returned true, and Unlock refuses a thread that is not the
   owner. *)
LeaveSection(t) ==
  /\ pc[t] = "caller"
  /\ guards[t] # <<>>
  /\ guards' = [guards EXCEPT ![t] = Front(@)]
  /\ IF Last(guards[t]) = "acquired" /\ mOwner = t
       THEN /\ mOwner' = NoThread
            /\ pc' = [pc EXCEPT ![t] = "unlocking"]
       ELSE UNCHANGED <<mOwner, pc>>
  /\ UNCHANGED mMutex

(* pthread_mutex_unlock, after mOwner has been cleared. *)
UnlockRelease(t) ==
  /\ pc[t] = "unlocking"
  /\ mMutex' = NoThread
  /\ pc' = [pc EXCEPT ![t] = "caller"]
  /\ UNCHANGED <<mOwner, guards>>

Next == \E t \in Threads :
          \/ LockTest(t) \/ LockAcquire(t) \/ LockOwn(t)
          \/ LeaveSection(t) \/ UnlockRelease(t)

Spec == Init /\ [][Next]_vars

-----------------------------------------------------------------------------
InSection(t) == guards[t] # <<>>

(* Two threads never have sections of the same Mutex open at once, however
   the unlocked test of mOwner falls between the other threads' steps. *)
MutualExclusion == \A s, t \in Threads : InSection(s) /\ InSection(t) => s = t

(* A thread never waits in pthread_mutex_lock for a mutex it holds itself: the
   owner field makes the non-recursive pthread mutex safe to lock again. *)
NoSelfDeadlock == \A t \in Threads : pc[t] = "locking" => mMutex # t

(* Mutex implements the recursive lock its callers rely on: leaving a nested
   section never frees the lock, leaving the outermost one always does. *)
Lock == INSTANCE RecursiveLock WITH
          holder <- mOwner, depth <- [t \in Threads |-> Len(guards[t])]

ImplementsRecursiveLock == Lock!Spec

-----------------------------------------------------------------------------
(* The inductive invariant behind the properties above: the owner field names
   exactly the thread with open sections, the first of which is the one whose
   Lock returned true, and the pthread mutex is held exactly by whoever is
   named or is between the two writes of Lock or of Unlock. *)
OwnerHoldsMutex == \A t \in Threads :
  mMutex = t <=> (mOwner = t \/ pc[t] \in {"locked", "unlocking"})

OwnerInSection == \A t \in Threads :
  /\ (mOwner = t) <=> InSection(t)
  /\ InSection(t) => pc[t] = "caller"
  /\ \A i \in 1..Len(guards[t]) : guards[t][i] = "acquired" <=> i = 1

IInv == TypeOK /\ OwnerHoldsMutex /\ OwnerInSection
=============================================================================
