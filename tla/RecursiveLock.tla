---------------------------- MODULE RecursiveLock ----------------------------
(***************************************************************************)
(* What the callers of class Mutex rely on: a lock that one thread holds   *)
(* at a time, that the holder may enter again, and that is free only when  *)
(* the holder has left as many sections as it entered.                     *)
(***************************************************************************)
EXTENDS Naturals

CONSTANTS Threads,   \* the threads of the MIDI server that run driver code
          NoThread   \* the value of a lock nobody holds

VARIABLES holder,    \* the thread inside the lock, or NoThread
          depth      \* how many sections each thread has open

lockVars == <<holder, depth>>

Init == /\ holder = NoThread
        /\ depth = [t \in Threads |-> 0]

Enter(t) == /\ holder \in {NoThread, t}
            /\ holder' = t
            /\ depth' = [depth EXCEPT ![t] = @ + 1]

Leave(t) == /\ holder = t
            /\ depth' = [depth EXCEPT ![t] = @ - 1]
            /\ holder' = IF depth[t] = 1 THEN NoThread ELSE t

Next == \E t \in Threads : Enter(t) \/ Leave(t)

Spec == Init /\ [][Next]_lockVars
=============================================================================
