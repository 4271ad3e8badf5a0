----------------------------- MODULE DeviceBoot ------------------------------
(***************************************************************************)
(* What the downloader daemon makes of each device, seen from the bus: a   *)
(* cold device may be loaded, one at a time; the loading ends in a program *)
(* that runs or is given up, and it is not tried again before the device   *)
(* was unplugged; a device that runs an application comes back warm, which *)
(* is the daemon's last sight of it.                                       *)
(***************************************************************************)
CONSTANTS Devices,
          Applications,   \* the programs with which a device comes back
          Programs        \* all a loading may end in, those among them

VARIABLES stage,   \* "absent", "cold", "loading", "failed", "booted" or "warm"
          runs     \* what a device that was booted runs

bootVars == <<stage, runs>>

Nothing == "none"

Init == /\ stage = [d \in Devices |-> "absent"]
        /\ runs = [d \in Devices |-> Nothing]

Moves(d, from, to) == stage[d] \in from /\ stage' = [stage EXCEPT ![d] = to]

Plug(d) == Moves(d, {"absent"}, "cold") /\ UNCHANGED runs

Unplug(d) == /\ Moves(d, {"cold", "loading", "failed", "booted", "warm"}, "absent")
             /\ runs' = [runs EXCEPT ![d] = Nothing]

Load(d) == /\ \A e \in Devices : stage[e] # "loading"
           /\ Moves(d, {"cold"}, "loading") /\ UNCHANGED runs

GiveUp(d) == Moves(d, {"loading"}, "failed") /\ UNCHANGED runs

Boot(d) == /\ Moves(d, {"loading"}, "booted")
           /\ \E p \in Programs : runs' = [runs EXCEPT ![d] = p]

Renumerate(d) == /\ runs[d] \in Applications
                 /\ Moves(d, {"booted"}, "warm") /\ UNCHANGED runs

Next == \E d \in Devices : \/ Plug(d) \/ Unplug(d) \/ Load(d) \/ GiveUp(d)
                           \/ Boot(d) \/ Renumerate(d)

Spec == Init /\ [][Next]_bootVars
=============================================================================
