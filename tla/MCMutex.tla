------------------------------- MODULE MCMutex -------------------------------
(* Two client threads, the I/O run loop thread and the server's main thread,
   nesting their sections up to three deep. *)
EXTENDS Mutex
=============================================================================
