----------------------------- MODULE OutputPipe ------------------------------
(***************************************************************************)
(* What the write path of an interface promises to its clients: each OUT   *)
(* endpoint of the device is a first-in first-out channel of words (the    *)
(* 4-byte mspackets).  Words are named by their position in the order in   *)
(* which Send accepted them for the endpoint.                              *)
(***************************************************************************)
EXTENDS Naturals, Sequences

CONSTANTS Endpoints,       \* the OUT endpoints of the device
          MaxPacketWords   \* bound: words of one packet

VARIABLES accepted,   \* how many words were accepted for each endpoint
          received    \* the words each endpoint of the device received

pipeVars == <<accepted, received>>

Init == /\ accepted = [e \in Endpoints |-> 0]
        /\ received = [e \in Endpoints |-> <<>>]

Accept(e) == /\ \E words \in 1..MaxPacketWords :
                  accepted' = [accepted EXCEPT ![e] = @ + words]
             /\ UNCHANGED received

Deliver(e) == /\ Len(received[e]) < accepted[e]
              /\ received' = [received EXCEPT ![e] = Append(@, Len(@) + 1)]
              /\ UNCHANGED accepted

Next == \E e \in Endpoints : Accept(e) \/ Deliver(e)

Spec == Init /\ [][Next]_pipeVars

-----------------------------------------------------------------------------
(* A working pipe also keeps delivering what was accepted. *)
Fairness == \A e \in Endpoints : WF_pipeVars(Deliver(e))
=============================================================================
