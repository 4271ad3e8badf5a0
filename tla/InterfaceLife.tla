---------------------------- MODULE InterfaceLife ----------------------------
(***************************************************************************)
(* The life of InterfaceStates: DevicesAdded and the constructor, the      *)
(* callbacks and Send that use an InterfaceState, DeviceRemoved or Stop    *)
(* and the destructor.  The run loop of Start constructs and deletes; the  *)
(* I/O run loop, on a thread of its own, calls ReadCallback and            *)
(* WriteCallback; clients call Send.  Nothing but the order of the steps   *)
(* keeps them apart.                                                       *)
(*                                                                         *)
(* The services are those of one unit, plugged in again and again, so that *)
(* their InterfaceStates share a MIDI device, whose endpoints have one     *)
(* refCon.  The queue is counted in parts, of which a packet has one for   *)
(* each buffer that it fills, and the transfers of the OUT pipes are not   *)
(* told apart, as they have the same callback: WritePath and InputParser   *)
(* tell what the transfers carry.  The mutex is held from the push of Send *)
(* to its DoWrite, and in the whole of WriteCallback, which are single     *)
(* steps for that.                                                         *)
(*                                                                         *)
(* A thread in an InterfaceState deleted under it does what nobody can     *)
(* tell; the model leaves it there, which is the least harm it can do.     *)
(***************************************************************************)
EXTENDS DeviceHandles

CONSTANTS Clients, IOThread,
          InPipe, OutPipes,  \* the pipes of the interface
          MaxUnplugs,        \* bound: how often the unit is unplugged
          MaxSends,          \* bound: calls of Send
          MaxParts           \* bound: buffers that a packet fills

ASSUME LifeAssumption ==
  /\ Services \subseteq Nat /\ IOThread \notin Clients
  /\ MaxUnplugs \in Nat /\ MaxSends \in Nat /\ MaxParts \in Nat
  /\ IsFiniteSet(OutPipes) /\ OutPipes # {} /\ InPipe \notin OutPipes

VARIABLES removes,       \* mDeviceRemoveIterator
          life,          \* of the InterfaceState of a service
          victim,        \* the one whose destructor runs
          sources,       \* event sources of interfaces in the I/O run loop
          refCon,        \* of the endpoints: an InterfaceState or NULL
          offline,       \* kMIDIPropertyOffline of the MIDI device
          pipes,         \* mHaveInPipe, mHaveOutPipe1, mHaveOutPipe2
          mWritePending, mWriteQueue,
          transfers,     \* per InterfaceState and kind: how many are outstanding
          completions,   \* per event source: callbacks to be made
          thread,        \* what clients and the I/O thread do, and in which
          early,         \* history: where Send ran before its constructor ended
          written,       \* history: the OUT pipes that were written to
          sends

lifeVars == <<removes, life, victim, sources, refCon, offline, pipes,
              mWritePending, mWriteQueue, transfers, completions, thread, early,
              written, sends>>
vars == <<handleVars, lifeVars>>

Kinds == {"read", "write"}
Pipes == {InPipe} \cup OutPipes
Outside == [in |-> NoService, does |-> "nothing"]

(* "broken": the constructor left at errexit. *)
Lives == {"none", "constructing", "running", "broken", "deleting", "deleted"}
InList(s) == life[s] \in {"running", "broken"}

Init ==
  /\ HandlesInit
  /\ removes = {} /\ victim = NoService
  /\ life = [s \in Services |-> "none"]
  /\ sources = {} /\ refCon = NoService /\ offline = FALSE
  /\ pipes = [s \in Services |-> {}] /\ written = [s \in Services |-> {}]
  /\ mWritePending = [s \in Services |-> FALSE]
  /\ mWriteQueue = [s \in Services |-> 0]
  /\ transfers = [s \in Services |-> [kind \in Kinds |-> 0]]
  /\ completions = [s \in Services |-> <<>>]
  /\ thread = [t \in Clients \cup {IOThread} |-> Outside]
  /\ early = {} /\ sends = 0

-----------------------------------------------------------------------------
(* The bus, and the run loop between callbacks. *)

(* Services are numbered as the unit is plugged in. *)
Plug(s) ==
  /\ services[s] = "never"
  /\ \A r \in Services : services[r] = "gone" <=> r < s
  /\ services' = [services EXCEPT ![s] = "present"]
  /\ adds' = IF pc = "stopped" THEN adds ELSE adds \cup {s}
  /\ UNCHANGED <<pc, local, refs, open, faults, lifeVars>>

Unplug(s) ==
  /\ services[s] = "present"
  /\ Cardinality({r \in Services : services[r] = "gone"}) < MaxUnplugs
  /\ services' = [services EXCEPT ![s] = "gone"]
  /\ removes' = IF pc = "stopped" THEN removes ELSE removes \cup {s}
  /\ UNCHANGED <<adds, pc, local, refs, open, faults, life, victim, sources,
                 refCon, offline, pipes, mWritePending, mWriteQueue, transfers,
                 completions, thread, early, written, sends>>

(* DeviceAddCallback or DeviceRemoveCallback; an iterator is drained. *)
Callback ==
  /\ \/ pc = "idle" /\ adds # {} /\ pc' = "adds"
     \/ pc = "idle" /\ removes # {} /\ pc' = "removes"
     \/ pc = "adds" /\ adds = {} /\ pc' = "idle"
     \/ pc = "removes" /\ removes = {} /\ pc' = "idle"
  /\ UNCHANGED <<services, adds, local, refs, open, faults, lifeVars>>

-----------------------------------------------------------------------------
(* FoundInterface and the constructor. *)

(* The MIDI device cannot be told or added to the setup. *)
FoundNothing ==
  /\ pc = "found"
  /\ Fails(local.device)
  /\ Found(FALSE)
  /\ UNCHANGED lifeVars

(* The end of the constructor and of FoundInterface. *)
Constructed(s, as) ==
  /\ life' = [life EXCEPT ![s] = as]
  /\ offline' = FALSE
  /\ Found(TRUE)

(* The pipes are looked up: one whose properties cannot be read is passed over,
   and with none found the constructor leaves.  Otherwise the endpoints' refCons
   are set to this InterfaceState, whose mWritePending nothing has been assigned
   to. *)
FindPipes ==
  /\ pc = "found"
  /\ \E found \in SUBSET Pipes :
       LET s == local.device
       IN  /\ IF found = Pipes THEN Succeeds(s) ELSE Fails(s)
           /\ pipes' = [pipes EXCEPT ![s] = found]
           /\ IF found = {}
                THEN Constructed(s, "broken") /\ UNCHANGED <<refCon, mWritePending>>
                ELSE /\ life' = [life EXCEPT ![s] = "constructing"]
                     /\ refCon' = s
                     /\ \E garbage \in BOOLEAN :
                          mWritePending' = [mWritePending EXCEPT ![s] = garbage]
                     /\ pc' = "addSource"
                     /\ UNCHANGED <<services, adds, local, refs, open, offline>>
  /\ UNCHANGED <<removes, victim, sources, mWriteQueue, transfers, completions,
                 thread, early, written, sends>>

AddSource ==
  /\ pc = "addSource"
  /\ LET s == local.device
     IN  \/ /\ Succeeds(s)
            /\ sources' = sources \cup {s}
            /\ pc' = "setPending"
            /\ UNCHANGED <<services, adds, local, refs, open, life, offline>>
         \/ Fails(s) /\ Constructed(s, "broken") /\ UNCHANGED sources
  /\ UNCHANGED <<removes, victim, refCon, pipes, mWritePending, mWriteQueue,
                 transfers, completions, thread, early, written, sends>>

SetPending ==
  /\ pc = "setPending"
  /\ mWritePending' = [mWritePending EXCEPT ![local.device] = FALSE]
  /\ pc' = "firstRead"
  /\ UNCHANGED <<services, adds, local, refs, open, faults, removes, life,
                 victim, sources, refCon, offline, pipes, mWriteQueue,
                 transfers, completions, thread, early, written, sends>>

Starts(s, kind, number) == transfers' = [transfers EXCEPT ![s][kind] = @ + number]

DoRead(s) ==
  IF InPipe \in pipes[s]
    THEN \/ Succeeds(s) /\ Starts(s, "read", 1)
         \/ Fails(s) /\ UNCHANGED transfers
    ELSE UNCHANGED <<transfers, faults>>

FirstRead ==
  /\ pc = "firstRead"
  /\ DoRead(local.device)
  /\ Constructed(local.device, "running")
  /\ UNCHANGED <<removes, victim, sources, refCon, pipes, mWritePending,
                 mWriteQueue, completions, thread, early, written, sends>>

-----------------------------------------------------------------------------
(* Send and the callbacks. *)

(* WritePipeAsync for each OUT pipe whose buffer was filled.  A write without an
   event source is refused; one to a pipe that was not found, whose index nobody
   assigned, is refused or goes to another pipe. *)
StartWrites(s, filled) ==
  /\ written' = [written EXCEPT ![s] = @ \cup filled]
  /\ \E started \in SUBSET filled :
       /\ started # {} => s \in sources /\ services[s] = "present"
       /\ IF s \in sources /\ \E pipe \in filled \ started : pipe \in pipes[s]
            THEN Fails(s) ELSE UNCHANGED faults
       /\ Starts(s, "write", Cardinality(started))

(* Mutant: DoWrite does not look whether the queue is empty. *)
DoWriteEmpty(s, queue, flag) ==
  /\ mWriteQueue' = [mWriteQueue EXCEPT ![s] = queue - 1]
  /\ mWritePending' = [mWritePending EXCEPT ![s] = TRUE]
  /\ \E pipe \in OutPipes : StartWrites(s, {pipe})

(* DoWrite, with the queue and the flag as they are by then.  PrepareOutput
   leaves parts only when it filled a buffer, and each fills one of one pipe. *)
DoWrite(s, queue, flag) ==
  IF queue = 0 \/ pipes[s] \cap OutPipes = {}
    THEN /\ mWriteQueue' = [mWriteQueue EXCEPT ![s] = queue]
         /\ mWritePending' = [mWritePending EXCEPT ![s] = flag]
         /\ UNCHANGED <<transfers, faults, written>>
    ELSE \E filled \in SUBSET OutPipes, left \in 0..queue :
         /\ left + Cardinality(filled) <= queue
         /\ left > 0 => filled # {}
         /\ mWriteQueue' = [mWriteQueue EXCEPT ![s] = left]
         /\ mWritePending' = [mWritePending EXCEPT ![s] = flag \/ filled # {}]
         /\ StartWrites(s, filled)

Enters(t, s, does) == thread' = [thread EXCEPT ![t] = [in |-> s, does |-> does]]
Leaves(t) == thread' = [thread EXCEPT ![t] = Outside]

(* Send of the driver finds the InterfaceState in the endpoint; before there
   was one, it returns kMIDIUnknownEndpoint. *)
Send(c) ==
  /\ thread[c] = Outside /\ sends < MaxSends /\ refCon # NoService
  /\ sends' = sends + 1
  /\ Enters(c, refCon, "send")
  /\ UNCHANGED <<handleVars, removes, life, victim, sources, refCon, offline,
                 pipes, mWritePending, mWriteQueue, transfers, completions,
                 early, written>>

(* InterfaceState::Send, for one packet. *)
SendLocked(c) ==
  LET s == thread[c].in
  IN  /\ thread[c].does = "send" /\ life[s] # "deleted"
      /\ Leaves(c)
      /\ early' = IF life[s] = "constructing" THEN early \cup {s} ELSE early
      /\ \E parts \in 1..MaxParts :
           IF mWritePending[s]
             THEN /\ mWriteQueue' = [mWriteQueue EXCEPT ![s] = @ + parts]
                  /\ UNCHANGED <<mWritePending, transfers, faults, written>>
             ELSE DoWrite(s, mWriteQueue[s] + parts, FALSE)
      /\ UNCHANGED <<services, adds, pc, local, refs, open, removes, life,
                     victim, sources, refCon, offline, pipes, completions,
                     sends>>

(* The USB stack ends a transfer, on a device that is gone with an error. *)
Complete(s, kind) ==
  /\ transfers[s][kind] > 0
  /\ transfers' = [transfers EXCEPT ![s][kind] = @ - 1]
  /\ \E result \in {"success", "error"} :
       /\ IF result = "success" THEN Succeeds(s)
                                ELSE Fails(s)
       /\ completions' = IF s \in sources
                           THEN [completions EXCEPT ![s] = Append(@, <<kind, result>>)]
                           ELSE completions
  /\ UNCHANGED <<services, adds, pc, local, refs, open, removes, life, victim,
                 sources, refCon, offline, pipes, mWritePending, mWriteQueue,
                 thread, early, written, sends>>

(* The I/O run loop makes a callback, which looks at its InterfaceState only
   when the result is a success. *)
Dispatch(s) ==
  /\ thread[IOThread] = Outside /\ s \in sources /\ completions[s] # <<>>
  /\ completions' = [completions EXCEPT ![s] = Tail(@)]
  /\ LET kind == Head(completions[s])[1]
         result == Head(completions[s])[2]
     IN  IF result = "success" THEN Enters(IOThread, s, kind)
                               ELSE UNCHANGED thread
  /\ UNCHANGED <<handleVars, removes, life, victim, sources, refCon, offline,
                 pipes, mWritePending, mWriteQueue, transfers, early, written,
                 sends>>

(* HandleInput, and another read. *)
ReadCallback ==
  LET s == thread[IOThread].in
  IN  /\ thread[IOThread].does = "read" /\ life[s] # "deleted"
      /\ Leaves(IOThread)
      /\ DoRead(s)
      /\ UNCHANGED <<services, adds, pc, local, refs, open, removes, life,
                     victim, sources, refCon, offline, pipes, mWritePending,
                     mWriteQueue, completions, early, written, sends>>

(* Mutant: no other write is chained. *)
WriteCallbackEnds ==
  LET s == thread[IOThread].in
  IN  /\ thread[IOThread].does = "write" /\ life[s] # "deleted"
      /\ Leaves(IOThread)
      /\ mWritePending' = [mWritePending EXCEPT ![s] = FALSE]
      /\ UNCHANGED <<services, adds, pc, local, refs, open, faults, removes,
                     life, victim, sources, refCon, offline, pipes, mWriteQueue,
                     transfers, completions, early, written, sends>>

WriteCallback ==
  LET s == thread[IOThread].in
  IN  /\ thread[IOThread].does = "write" /\ life[s] # "deleted"
      /\ Leaves(IOThread)
      /\ DoWrite(s, mWriteQueue[s], FALSE)
      /\ UNCHANGED <<services, adds, pc, local, refs, open, removes, life,
                     victim, sources, refCon, offline, pipes, completions,
                     early, sends>>

-----------------------------------------------------------------------------
(* DeviceRemoved, Stop and the destructor. *)

Destroy(s) == /\ victim' = s
              /\ life' = [life EXCEPT ![s] = "deleting"]

(* Mutant: the InterfaceState stays. *)
DeviceRemovedKeeps(s) ==
  /\ pc = "removes" /\ s \in removes
  /\ removes' = removes \ {s}
  /\ offline' = (offline \/ InList(s))
  /\ UNCHANGED <<services, adds, pc, local, refs, open, faults, life, victim,
                 sources, refCon, pipes, mWritePending, mWriteQueue, transfers,
                 completions, thread, early, written, sends>>

(* One object of the remove iterator. *)
DeviceRemoved(s) ==
  /\ pc = "removes" /\ s \in removes
  /\ removes' = removes \ {s}
  /\ IF InList(s)
       THEN offline' = TRUE /\ Destroy(s) /\ pc' = "abortPipes"
       ELSE UNCHANGED <<offline, victim, life, pc>>
  /\ UNCHANGED <<services, adds, local, refs, open, faults, sources, refCon,
                 pipes, mWritePending, mWriteQueue, transfers, completions,
                 thread, early, written, sends>>

(* Stop deletes the InterfaceRunner: one InterfaceState after the other, then
   the iterators. *)
Stop ==
  /\ pc \in {"idle", "stopping"}
  /\ IF \E s \in Services : InList(s)
       THEN /\ \E s \in Services : InList(s) /\ Destroy(s)
            /\ pc' = "stopAbortPipes"
            /\ UNCHANGED <<adds, removes>>
       ELSE /\ pc' = "stopped" /\ adds' = {} /\ removes' = {}
            /\ UNCHANGED <<victim, life>>
  /\ UNCHANGED <<services, local, refs, open, faults, sources, refCon, offline,
                 pipes, mWritePending, mWriteQueue, transfers, completions,
                 thread, early, written, sends>>

(* What is outstanding completes as aborted. *)
Aborted(s) ==
  [i \in 1..transfers[s]["read"] |-> <<"read", "aborted">>]
  \o [i \in 1..transfers[s]["write"] |-> <<"write", "aborted">>]

AbortPipes ==
  /\ \/ pc = "abortPipes" /\ pc' = "removeSource"
     \/ pc = "stopAbortPipes" /\ pc' = "stopRemoveSource"
  /\ completions' = [completions EXCEPT ![victim] = @ \o Aborted(victim)]
  /\ transfers' = [transfers EXCEPT ![victim] = [kind \in Kinds |-> 0]]
  /\ UNCHANGED <<services, adds, local, refs, open, faults, removes, life,
                 victim, sources, refCon, offline, pipes, mWritePending,
                 mWriteQueue, thread, early, written, sends>>

(* Mutant: the source stays in the I/O run loop. *)
RemoveSourceNot ==
  /\ \/ pc = "removeSource" /\ pc' = "delete"
     \/ pc = "stopRemoveSource" /\ pc' = "stopDelete"
  /\ UNCHANGED <<services, adds, local, refs, open, faults, lifeVars>>

(* Messages of the source's port have nobody to receive them from then on. *)
RemoveSource ==
  /\ \/ pc = "removeSource" /\ pc' = "delete"
     \/ pc = "stopRemoveSource" /\ pc' = "stopDelete"
  /\ sources' = sources \ {victim}
  /\ completions' = [completions EXCEPT ![victim] = <<>>]
  /\ UNCHANGED <<services, adds, local, refs, open, faults, removes, life,
                 victim, refCon, offline, pipes, mWritePending, mWriteQueue,
                 transfers, thread, early, written, sends>>

(* Interface and device are closed and released, and the memory is freed, of
   which the model keeps nothing; the refCon of the endpoints stays. *)
Delete ==
  /\ \/ pc = "delete" /\ pc' = "removes"
     \/ pc = "stopDelete" /\ pc' = "stopping"
  /\ LET kept == {h \in open : h[1] = victim}
     IN  Release(kept) /\ open' = open \ kept
  /\ transfers' = [transfers EXCEPT ![victim] = [kind \in Kinds |-> 0]]
  /\ mWritePending' = [mWritePending EXCEPT ![victim] = FALSE]
  /\ mWriteQueue' = [mWriteQueue EXCEPT ![victim] = 0]
  /\ life' = [life EXCEPT ![victim] = "deleted"]
  /\ victim' = NoService
  /\ early' = early \ {victim}
  /\ pipes' = [pipes EXCEPT ![victim] = {}]
  /\ written' = [written EXCEPT ![victim] = {}]
  /\ UNCHANGED <<services, adds, local, faults, removes, sources, refCon,
                 offline, completions, thread, sends>>

-----------------------------------------------------------------------------
RunLoop == \/ Callback
           \/ DevicesAdded /\ UNCHANGED lifeVars
           \/ FoundNothing \/ FindPipes \/ AddSource \/ SetPending \/ FirstRead
           \/ \E s \in Services : DeviceRemoved(s)
           \/ pc # "idle" /\ Stop
           \/ AbortPipes \/ RemoveSource \/ Delete

IOStep == (\E s \in Services : Dispatch(s)) \/ ReadCallback \/ WriteCallback

Next == \/ RunLoop \/ IOStep
        \/ pc = "idle" /\ Stop
        \/ \E s \in Services : Plug(s) \/ Unplug(s)
        \/ \E s \in Services, kind \in Kinds : Complete(s, kind)
        \/ \E c \in Clients : Send(c) \/ SendLocked(c)

Spec == Init /\ [][Next]_vars /\ WF_vars(RunLoop)

-----------------------------------------------------------------------------
(* Where the run loop is: in the body of DevicesAdded, of which the last three
   are in the constructor, or in the destructor. *)
Constructing == {"addSource", "setPending", "firstRead"}
Adding == {"createPlugIn", "queryDevice", "matchDevice", "openDevice",
           "setConfiguration", "createIterator", "interfaces",
           "interfacePlugIn", "queryInterface", "interfaceOpen",
           "nextInterface", "closeDevice", "nextDevice", "found"} \cup Constructing
Destroying == {"abortPipes", "removeSource", "delete", "stopAbortPipes",
               "stopRemoveSource", "stopDelete"}

(* The variables have their types; the run loop has a service in its locals
   exactly while it adds one, and an InterfaceState exactly while it deletes it. *)
TypeOK ==
  /\ services \in [Services -> {"never", "present", "gone"}]
  /\ adds \subseteq Services /\ removes \subseteq Services /\ sources \subseteq Services
  /\ pc \in {"idle", "adds", "removes", "stopping", "stopped"} \cup Adding \cup Destroying
  /\ local \in [device : Services \cup {NoService}, deviceIntf : BOOLEAN,
                iterator : BOOLEAN, index : 0..Len(InterfaceNumber),
                interface : 0..Len(InterfaceNumber), keepOpen : BOOLEAN]
  /\ refs \in [Handles -> Int] /\ open \subseteq Handles /\ faults \in 0..MaxFaults
  /\ life \in [Services -> Lives] /\ early \subseteq Services
  /\ {victim, refCon} \subseteq Services \cup {NoService} /\ offline \in BOOLEAN
  /\ pipes \in [Services -> SUBSET Pipes] /\ written \in [Services -> SUBSET Pipes]
  /\ mWritePending \in [Services -> BOOLEAN] /\ mWriteQueue \in [Services -> Nat]
  /\ transfers \in [Services -> [Kinds -> Nat]]
  /\ completions \in [Services -> Seq(Kinds \X {"success", "error", "aborted"})]
  /\ thread \in [Clients \cup {IOThread} ->
                  [in : Services \cup {NoService}, does : {"nothing", "send"} \cup Kinds]]
  /\ sends \in 0..MaxSends
  /\ local.device # NoService <=> pc \in Adding
  /\ victim # NoService <=> pc \in Destroying

Stopping == pc \in {"stopped", "stopping", "stopAbortPipes",
                    "stopRemoveSource", "stopDelete"}

(* A thread that enters an InterfaceState enters a living one.  The exceptions:
   the refCons outlive the InterfaceState, so that Send on a device that is
   offline, or in a driver that is being stopped, finds one that is deleted,
   and a constructor that left early marks its device online with the old
   refCons.  The callbacks have no exception. *)
EntersLive ==
  [][\A t \in DOMAIN thread :
       thread[t] = Outside /\ thread'[t] # Outside /\ life[thread'[t].in] = "deleted"
       => /\ t # IOThread
          /\ offline \/ Stopping \/ \E s \in Services : life[s] = "broken"]_vars

(* Transfers of a kind that are outstanding, completed or being chained. *)
UnderWay(s, kind) ==
  {<<"transfer", n>> : n \in 1..transfers[s][kind]}
  \cup {<<"completion", i>> : i \in {j \in DOMAIN completions[s] :
                                       completions[s][j][1] = kind}}
  \cup {<<"callback", 1>> : t \in {u \in {IOThread} :
                                     thread[u] = [in |-> s, does |-> kind]}}

AtMostOne(S) == \A a, b \in S : a = b

(* An InterfaceState never has two reads under way, so that its one buffer is
   enough.  Nor has it two writes, as long as it wrote to one OUT pipe only: with
   two, a callback of the one may start writes on both while the other's is
   outstanding.  Nothing fails to be under way either: while no call failed, an
   InterfaceState always has a read, and a write, whatever its pipes, when there
   are packets in the queue.  Of writing nothing holds when a client's Send ran
   before the constructor came to mWritePending. *)
OneChain ==
  \A s \in Services :
    /\ AtMostOne(UnderWay(s, "read"))
    /\ s \notin early /\ AtMostOne(written[s]) => AtMostOne(UnderWay(s, "write"))
    /\ life[s] = "running" /\ services[s] = "present" /\ faults = 0 =>
         /\ UnderWay(s, "read") # {}
         /\ mWriteQueue[s] > 0 => s \in early \/ UnderWay(s, "write") # {}

(* When the run loop is between callbacks, an InterfaceState in the list holds
   its device and its interface open, with one reference each, and nothing else
   of a device is open or referred to, except for what DevicesAdded loses or
   releases too often: the object of the interface found, its interface if
   FoundInterface did not keep it, and, after a failure, an interface that the
   one after it releases again. *)
ReferencesBalanced ==
  pc \in {"idle", "stopped"} =>
    /\ open = {h \in Handles :
                 /\ InList(h[1])
                 /\ \/ h[2] = "device"
                    \/ h[2] = "interface" /\ InterfaceNumber[h[3]] = DesiredInterface}
    /\ \A s \in Services : refs[Object(s)] = 0 /\ refs[Iterator(s)] = 0
    /\ \A s \in Services : refs[Device(s)] = IF InList(s) THEN 1 ELSE 0
    /\ \A s \in Services, i \in Interfaces :
         /\ refs[InterfaceObject(s, i)] \in
              IF InterfaceNumber[i] = DesiredInterface THEN {0, 1} ELSE {0}
         /\ InList(s) /\ InterfaceNumber[i] = DesiredInterface =>
              refs[InterfaceObject(s, i)] = 1 /\ refs[Interface(s, i)] = 1
         /\ refs[Interface(s, i)] <= refs[InterfaceObject(s, i)]
         /\ refs[Interface(s, i)] < 0 =>
              i < Len(InterfaceNumber) /\ (faults > 0 \/ services[s] = "gone")

(* What was unplugged is closed sooner or later: the run loop always comes to
   where nothing of a device that is gone is open. *)
GoneIsClosed ==
  []<>(\A s \in Services : services[s] = "gone" => open \cap HandlesOf(s) = {})
=============================================================================
