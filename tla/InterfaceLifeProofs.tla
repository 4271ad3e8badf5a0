------------------------- MODULE InterfaceLifeProofs -------------------------
(***************************************************************************)
(* What holds of InterfaceLife for any services, clients, interfaces and   *)
(* bounds, in four parts, each with its inductive invariant:               *)
(*                                                                         *)
(*   IInv      nothing enters an InterfaceState that was deleted but Send  *)
(*             on a device that is offline, in a driver that is being      *)
(*             stopped, or while there is one whose constructor left early *)
(*   StateInv  the types, what the run loop has in its locals wherever it  *)
(*             is, and which InterfaceState has an event source            *)
(*   RefInv    the references and what is open, of each device, wherever   *)
(*             the run loop is in DevicesAdded or a destructor             *)
(*   ChainInv  what is outstanding, completed or in its callback, and      *)
(*             where mWritePending and the queue stand to that: one read   *)
(*             under way, and one write as long as one OUT pipe was        *)
(*             written to, whoever starts them.  It rests on StateInv      *)
(***************************************************************************)
EXTENDS InterfaceLife, FiniteSetTheorems, TLAPS

(* The parts the actions work on. *)
LifeType ==
  /\ DOMAIN thread = Clients \cup {IOThread}
  /\ local \in [device : Services \cup {NoService}, deviceIntf : BOOLEAN,
                iterator : BOOLEAN, index : Nat, interface : Nat,
                keepOpen : BOOLEAN]
  /\ life \in [Services -> Lives]
  /\ sources \subseteq Services
  /\ refCon \in Services \cup {NoService}
  /\ offline \in BOOLEAN
  /\ pc \in Adding => local.device \in Services
  /\ pc \in Destroying => victim \in Services

(* A source leaves the I/O run loop before its InterfaceState is deleted. *)
SourcesLive ==
  /\ \A s \in sources : life[s] # "deleted"
  /\ pc \in {"delete", "stopDelete"} => victim \notin sources

(* While an InterfaceState is constructed the endpoints lead to it. *)
ConstructorOwns ==
  pc \in {"addSource", "setPending", "firstRead"} =>
    refCon = local.device /\ life[local.device] = "constructing"

(* DeviceRemoved marks the device offline before it deletes. *)
RemovedIsOffline ==
  pc \in {"abortPipes", "removeSource", "delete"} => offline

RefConExcused ==
  refCon # NoService =>
    \/ life[refCon] # "deleted" \/ offline \/ Stopping
    \/ \E s \in Services : life[s] = "broken"

IInv == LifeType /\ SourcesLive /\ ConstructorOwns /\ RemovedIsOffline /\ RefConExcused

LEMMA InitIInv == Init => IInv
<1> SUFFICES ASSUME Init PROVE IInv
  OBVIOUS
<1> USE DEF Init
<1>1. /\ pc = "idle" /\ sources = {} /\ refCon = NoService /\ offline = FALSE
      /\ DOMAIN thread = Clients \cup {IOThread}
      /\ life \in [Services -> Lives]
  BY DEF HandlesInit, Lives
<1>2. local \in [device : Services \cup {NoService}, deviceIntf : BOOLEAN,
                 iterator : BOOLEAN, index : Nat, interface : Nat,
                 keepOpen : BOOLEAN]
  BY DEF HandlesInit, NoLocals
<1>3. LifeType
  BY <1>1, <1>2 DEF LifeType, Adding, Destroying, Constructing
<1> QED
  BY <1>1, <1>3 DEF IInv, SourcesLive, ConstructorOwns, RemovedIsOffline,
                    RefConExcused

-----------------------------------------------------------------------------
(* Steps that leave the lives alone. *)

(* What only moves transfers, completions and threads disturbs nothing. *)
LEMMA OtherVariables ==
  ASSUME IInv, UNCHANGED <<pc, local, life, sources, refCon, offline, victim>>,
         DOMAIN thread' = DOMAIN thread
  PROVE  IInv'
BY DEF IInv, LifeType, SourcesLive, ConstructorOwns, RemovedIsOffline,
       RefConExcused, Stopping

LEMMA IOIInv ==
  ASSUME IInv,
         \/ IOStep
         \/ \E s \in Services : Plug(s) \/ Unplug(s)
         \/ \E s \in Services, kind \in Kinds : Complete(s, kind)
         \/ \E c \in Clients : Send(c) \/ SendLocked(c)
  PROVE  IInv'
<1>1. /\ UNCHANGED <<pc, local, life, sources, refCon, offline, victim>>
      /\ DOMAIN thread' = DOMAIN thread
  <2>1. CASE \E s \in Services : Dispatch(s)
    BY <2>1 DEF Dispatch, Enters, handleVars
  <2>2. CASE ReadCallback \/ WriteCallback
    BY <2>2 DEF ReadCallback, WriteCallback, Leaves
  <2>3. CASE \E s \in Services : Plug(s) \/ Unplug(s)
    BY <2>3 DEF Plug, Unplug, lifeVars
  <2>4. CASE \E s \in Services, kind \in Kinds : Complete(s, kind)
    BY <2>4 DEF Complete
  <2>5. CASE \E c \in Clients : Send(c) \/ SendLocked(c)
    BY <2>5 DEF Send, SendLocked, Enters, Leaves, handleVars
  <2> QED
    BY <2>1, <2>2, <2>3, <2>4, <2>5 DEF IOStep
<1> QED
  BY <1>1, OtherVariables

(* The run loop is where no InterfaceState is being made or deleted. *)
Between == pc \notin Destroying \cup {"addSource", "setPending", "firstRead"}

(* Steps of DevicesAdded outside the constructor. *)
LEMMA HandleStep ==
  ASSUME IInv, UNCHANGED lifeVars, Between', ~Stopping,
         local' \in [device : Services \cup {NoService}, deviceIntf : BOOLEAN,
                     iterator : BOOLEAN, index : Nat, interface : Nat,
                     keepOpen : BOOLEAN],
         pc' \in Adding => local'.device \in Services
  PROVE  IInv'
<1>1. LifeType'
  BY DEF IInv, LifeType, Between, lifeVars
<1>2. SourcesLive'
  BY DEF IInv, SourcesLive, Between, Destroying, lifeVars
<1>3. ConstructorOwns' /\ RemovedIsOffline'
  BY DEF ConstructorOwns, RemovedIsOffline, Between, Destroying
<1>4. RefConExcused'
  BY DEF IInv, RefConExcused, lifeVars
<1> QED
  BY <1>1, <1>2, <1>3, <1>4 DEF IInv

LEMMA DevicesAddedIInv ==
  ASSUME IInv, DevicesAdded, UNCHANGED lifeVars
  PROVE  IInv'
<1> DEFINE Locals == [device : Services \cup {NoService}, deviceIntf : BOOLEAN,
                      iterator : BOOLEAN, index : Nat, interface : Nat,
                      keepOpen : BOOLEAN]
           Goal == /\ Between' /\ ~Stopping /\ local' \in Locals
                   /\ pc' \in Adding => local'.device \in Services
<1> USE DEF IInv, LifeType, Between, Stopping, Adding, Constructing, Destroying
<1>0. /\ NoLocals \in Locals
      /\ \A s \in Services : /\ [NoLocals EXCEPT !.device = s] \in Locals
                             /\ [NoLocals EXCEPT !.device = s].device = s
  BY DEF NoLocals
<1>1. ASSUME NEW s \in Services, NextDevice(s) PROVE Goal
  <2>1. /\ pc = "adds" /\ pc' = "createPlugIn"
        /\ local' = [NoLocals EXCEPT !.device = s]
    BY <1>1 DEF NextDevice
  <2> QED
    BY <1>0, <2>1
<1>2. CreatePlugIn => Goal
  <2>1. CreatePlugIn => /\ pc = "createPlugIn"
                        /\ \/ pc' = "queryDevice" /\ UNCHANGED local
                           \/ pc' = "adds" /\ local' = NoLocals
    BY DEF CreatePlugIn
  <2> QED
    BY <1>0, <2>1
<1>3. QueryDevice => Goal
  BY DEF QueryDevice
<1>4. MatchDevice => Goal
  BY DEF MatchDevice
<1>5. OpenDevice => Goal
  BY DEF OpenDevice
<1>6. SetConfiguration => Goal
  BY DEF SetConfiguration
<1>7. CreateInterfaceIterator => Goal
  BY DEF CreateInterfaceIterator
<1>8. NextInterface => Goal
  BY DEF NextInterface
<1>9. InterfacePlugIn => Goal
  BY DEF InterfacePlugIn
<1>10. QueryInterface => Goal
  BY DEF QueryInterface
<1>11. InterfaceOpen => Goal
  BY DEF InterfaceOpen
<1>12. InterfaceDone => Goal
  BY DEF InterfaceDone
<1>13. CloseDevice => Goal
  BY DEF CloseDevice
<1>14. DeviceDone => Goal
  BY DEF DeviceDone, NoLocals
<1> QED
  <2>1. Goal
    BY <1>1, <1>2, <1>3, <1>4, <1>5, <1>6, <1>7, <1>8, <1>9, <1>10, <1>11,
       <1>12, <1>13, <1>14 DEF DevicesAdded
  <2> QED
    BY <2>1, HandleStep

-----------------------------------------------------------------------------
(* The constructor. *)

LEMMA ConstructorIInv ==
  ASSUME IInv, FoundNothing \/ FindPipes \/ AddSource \/ SetPending \/ FirstRead
  PROVE  IInv'
<1> USE DEF IInv, LifeType, Adding, Constructing, Destroying, Lives
<1> DEFINE s == local.device
<1>0. s \in Services
  BY DEF FoundNothing, FindPipes, AddSource, SetPending, FirstRead
<1>1. CASE FoundNothing
  <2>1. /\ UNCHANGED lifeVars /\ pc = "found" /\ pc' = "closeDevice"
        /\ local' = [local EXCEPT !.keepOpen = FALSE]
    BY <1>1 DEF FoundNothing, Found
  <2> QED
    BY <2>1, <1>0, HandleStep DEF Between, Stopping
<1>2. ASSUME pc \in {"found", "addSource", "firstRead"},
             \/ Constructed(s, "broken") /\ UNCHANGED <<refCon, sources>>
             \/ pc = "firstRead" /\ Constructed(s, "running")
                /\ UNCHANGED <<refCon, sources>>,
             UNCHANGED <<thread, victim>>
      PROVE  IInv'
  <2>1. /\ pc' = "closeDevice" /\ local' = [local EXCEPT !.keepOpen = TRUE]
        /\ offline' = FALSE
        /\ \/ life' = [life EXCEPT ![s] = "broken"]
           \/ pc = "firstRead" /\ life' = [life EXCEPT ![s] = "running"]
    BY <1>2 DEF Constructed, Found
  <2>2. LifeType'
    BY <1>0, <1>2, <2>1
  <2>3. SourcesLive'
    BY <1>0, <1>2, <2>1 DEF SourcesLive
  <2>4. ConstructorOwns' /\ RemovedIsOffline'
    BY <2>1 DEF ConstructorOwns, RemovedIsOffline
  <2>5. RefConExcused'
    <3>1. CASE life' = [life EXCEPT ![s] = "broken"]
      BY <1>0, <3>1 DEF RefConExcused
    <3>2. CASE pc = "firstRead" /\ life' = [life EXCEPT ![s] = "running"]
      <4>1. refCon' = s
        BY <1>2, <3>2 DEF ConstructorOwns
      <4> QED
        BY <1>0, <3>2, <4>1 DEF RefConExcused
    <3> QED
      BY <2>1, <3>1, <3>2
  <2> QED
    BY <2>2, <2>3, <2>4, <2>5
<1>3. CASE FindPipes
  <2>1. CASE Constructed(s, "broken") /\ UNCHANGED refCon
    BY <1>2, <1>3, <2>1 DEF FindPipes
  <2>2. CASE ~(Constructed(s, "broken") /\ UNCHANGED refCon)
    <3>1. /\ life' = [life EXCEPT ![s] = "constructing"] /\ refCon' = s
          /\ pc' = "addSource"
          /\ UNCHANGED <<local, offline, sources, thread, victim>>
      BY <1>3, <2>2 DEF FindPipes
    <3> QED
      BY <1>0, <3>1 DEF SourcesLive, ConstructorOwns, RemovedIsOffline,
                        RefConExcused
  <2> QED
    BY <2>1, <2>2
<1>4. CASE AddSource
  <2>1. CASE Constructed(s, "broken")
    BY <1>2, <1>4, <2>1 DEF AddSource, Constructed, Found
  <2>2. CASE ~Constructed(s, "broken")
    <3>1. /\ sources' = sources \cup {s} /\ pc = "addSource" /\ pc' = "setPending"
          /\ UNCHANGED <<local, life, refCon, offline, thread, victim>>
      BY <1>4, <2>2 DEF AddSource
    <3> QED
      BY <1>0, <3>1 DEF SourcesLive, ConstructorOwns, RemovedIsOffline,
                        RefConExcused, Stopping
  <2> QED
    BY <2>1, <2>2
<1>5. CASE SetPending
  <2>1. /\ pc = "setPending" /\ pc' = "firstRead"
        /\ UNCHANGED <<local, life, refCon, offline, thread, victim, sources>>
    BY <1>5 DEF SetPending
  <2> QED
    BY <1>0, <2>1 DEF SourcesLive, ConstructorOwns, RemovedIsOffline,
                      RefConExcused, Stopping
<1>6. CASE FirstRead
  BY <1>2, <1>6 DEF FirstRead
<1> QED
  BY <1>1, <1>3, <1>4, <1>5, <1>6

-----------------------------------------------------------------------------
(* Removal. *)

LEMMA RemovalIInv ==
  ASSUME IInv,
         \/ Callback \/ (\E s \in Services : DeviceRemoved(s))
         \/ Stop \/ AbortPipes \/ RemoveSource \/ Delete
  PROVE  IInv'
<1> USE DEF IInv, LifeType, Adding, Constructing, Destroying, Lives
<1>1. CASE Callback
  <2>1. /\ pc' \in {"idle", "adds", "removes"} /\ pc \in {"idle", "adds", "removes"}
        /\ UNCHANGED <<local, life, sources, refCon, offline, victim, thread>>
    BY <1>1 DEF Callback, lifeVars
  <2> QED
    BY <2>1 DEF SourcesLive, ConstructorOwns, RemovedIsOffline, RefConExcused,
                Stopping
<1>2. ASSUME NEW s \in Services, DeviceRemoved(s)
      PROVE  IInv'
  <2>1. CASE InList(s)
    <3>1. /\ pc' = "abortPipes" /\ offline' = TRUE /\ victim' = s
          /\ life' = [life EXCEPT ![s] = "deleting"]
          /\ UNCHANGED <<local, sources, refCon, thread>>
      BY <1>2, <2>1 DEF DeviceRemoved, Destroy
    <3> QED
      BY <3>1 DEF SourcesLive, ConstructorOwns, RemovedIsOffline, RefConExcused
  <2>2. CASE ~InList(s)
    <3>1. UNCHANGED <<pc, local, life, sources, refCon, offline, victim, thread>>
      BY <1>2, <2>2 DEF DeviceRemoved
    <3> QED
      BY <3>1, OtherVariables
  <2> QED
    BY <2>1, <2>2
<1>3. CASE Stop
  <2>1. CASE \E s \in Services : InList(s)
    <3>1. PICK s \in Services : Destroy(s)
      BY <1>3, <2>1 DEF Stop
    <3>2. /\ pc' = "stopAbortPipes" /\ victim' = s
          /\ life' = [life EXCEPT ![s] = "deleting"]
          /\ UNCHANGED <<local, sources, refCon, offline, thread>>
      BY <1>3, <2>1, <3>1 DEF Stop, Destroy
    <3> QED
      BY <3>2 DEF SourcesLive, ConstructorOwns, RemovedIsOffline,
                  RefConExcused, Stopping
  <2>2. CASE ~\E s \in Services : InList(s)
    <3>1. /\ pc' = "stopped"
          /\ UNCHANGED <<local, life, sources, refCon, offline, victim, thread>>
      BY <1>3, <2>2 DEF Stop
    <3> QED
      BY <3>1 DEF SourcesLive, ConstructorOwns, RemovedIsOffline,
                  RefConExcused, Stopping
  <2> QED
    BY <2>1, <2>2
<1>4. CASE AbortPipes
  <2>1. /\ \/ pc = "abortPipes" /\ pc' = "removeSource"
           \/ pc = "stopAbortPipes" /\ pc' = "stopRemoveSource"
        /\ UNCHANGED <<local, life, sources, refCon, offline, victim, thread>>
    BY <1>4 DEF AbortPipes
  <2> QED
    BY <2>1 DEF SourcesLive, ConstructorOwns, RemovedIsOffline, RefConExcused,
                Stopping
<1>5. CASE RemoveSource
  <2>1. /\ \/ pc = "removeSource" /\ pc' = "delete"
           \/ pc = "stopRemoveSource" /\ pc' = "stopDelete"
        /\ sources' = sources \ {victim}
        /\ UNCHANGED <<local, life, refCon, offline, victim, thread>>
    BY <1>5 DEF RemoveSource
  <2> QED
    BY <2>1 DEF SourcesLive, ConstructorOwns, RemovedIsOffline, RefConExcused,
                Stopping
<1>6. CASE Delete
  <2>1. /\ \/ pc = "delete" /\ pc' = "removes"
           \/ pc = "stopDelete" /\ pc' = "stopping"
        /\ life' = [life EXCEPT ![victim] = "deleted"]
        /\ UNCHANGED <<local, sources, refCon, offline, thread>>
    BY <1>6 DEF Delete
  <2> QED
    BY <2>1 DEF SourcesLive, ConstructorOwns, RemovedIsOffline, RefConExcused,
                Stopping
<1> QED
  BY <1>1, <1>2, <1>3, <1>4, <1>5, <1>6

-----------------------------------------------------------------------------
LEMMA NextIInv == IInv /\ [Next]_vars => IInv'
<1> SUFFICES ASSUME IInv, [Next]_vars PROVE IInv'
  OBVIOUS
<1>1. CASE RunLoop
  BY <1>1, DevicesAddedIInv, ConstructorIInv, RemovalIInv DEF RunLoop
<1>2. CASE pc = "idle" /\ Stop
  BY <1>2, RemovalIInv
<1>3. CASE \/ IOStep
           \/ \E s \in Services : Plug(s) \/ Unplug(s)
           \/ \E s \in Services, kind \in Kinds : Complete(s, kind)
           \/ \E c \in Clients : Send(c) \/ SendLocked(c)
  BY <1>3, IOIInv
<1>4. CASE UNCHANGED vars
  BY <1>4, OtherVariables DEF vars, handleVars, lifeVars
<1> QED
  BY <1>1, <1>2, <1>3, <1>4 DEF Next

(* Only Send and Dispatch make a thread enter an InterfaceState. *)
LEMMA StepEntersLive ==
  ASSUME IInv, [Next]_vars, NEW t \in DOMAIN thread, thread[t] = Outside,
         thread'[t] # Outside, life[thread'[t].in] = "deleted"
  PROVE  /\ t # IOThread
         /\ offline \/ Stopping \/ \E s \in Services : life[s] = "broken"
<1>1. (\E c \in Clients : Send(c)) \/ (\E s \in Services : Dispatch(s))
  <2>1. CASE UNCHANGED thread
    BY <2>1
  <2>2. CASE \E u \in DOMAIN thread : Leaves(u)
    BY <2>2 DEF Leaves
  <2>3. CASE RunLoop \/ Stop
    BY <2>1, <2>3 DEF RunLoop, Callback, DevicesAdded, lifeVars, FoundNothing,
       FindPipes, AddSource, SetPending, FirstRead, DeviceRemoved, Stop,
       AbortPipes, RemoveSource, Delete
  <2>4. CASE ReadCallback \/ WriteCallback
    BY <2>2, <2>4 DEF ReadCallback, WriteCallback, IInv, LifeType
  <2>5. CASE \E c \in Clients : SendLocked(c)
    BY <2>2, <2>5 DEF SendLocked, IInv, LifeType
  <2>6. CASE \/ \E s \in Services : Plug(s) \/ Unplug(s)
             \/ \E s \in Services, kind \in Kinds : Complete(s, kind)
    BY <2>1, <2>6 DEF Plug, Unplug, Complete, lifeVars
  <2>7. CASE UNCHANGED vars
    BY <2>1, <2>7 DEF vars, lifeVars
  <2> QED
    BY <2>3, <2>4, <2>5, <2>6, <2>7 DEF Next, IOStep
<1>2. ASSUME NEW c \in Clients, Send(c)
      PROVE  /\ t # IOThread
             /\ offline \/ Stopping \/ \E s \in Services : life[s] = "broken"
  <2>1. /\ refCon # NoService
        /\ thread' = [thread EXCEPT ![c] = [in |-> refCon, does |-> "send"]]
    BY <1>2 DEF Send, Enters
  <2>2. t = c /\ thread'[t].in = refCon
    BY <2>1
  <2> QED
    BY <2>1, <2>2, LifeAssumption DEF IInv, RefConExcused
<1>3. ASSUME NEW s \in Services, Dispatch(s)
      PROVE  FALSE
  <2>1. PICK kind : thread' = [thread EXCEPT ![IOThread] = [in |-> s, does |-> kind]]
                    \/ UNCHANGED thread
    BY <1>3 DEF Dispatch, Enters
  <2>2. thread'[t].in = s
    BY <2>1
  <2> QED
    BY <1>3, <2>2 DEF Dispatch, IInv, SourcesLive
<1> QED
  BY <1>1, <1>2, <1>3

(* For every number of services, clients, faults and calls: no callback enters
   an InterfaceState that was deleted, and Send only one whose device is
   offline, whose driver is being stopped, or while a constructor left early. *)
THEOREM CallbacksEnterLive == Spec => EntersLive
<1>1. IInv /\ [Next]_vars =>
      [\A t \in DOMAIN thread :
         thread[t] = Outside /\ thread'[t] # Outside /\ life[thread'[t].in] = "deleted"
         => /\ t # IOThread
            /\ offline \/ Stopping \/ \E s \in Services : life[s] = "broken"]_vars
  BY StepEntersLive
<1> QED
  BY <1>1, InitIInv, NextIInv, PTL DEF Spec, EntersLive

-----------------------------------------------------------------------------
(* Types.  The parts of TypeOK that an action changes together. *)

BusType ==
  /\ services \in [Services -> {"never", "present", "gone"}]
  /\ adds \subseteq Services /\ removes \subseteq Services
  /\ faults \in 0..MaxFaults /\ sends \in 0..MaxSends

Locals == [device : Services \cup {NoService}, deviceIntf : BOOLEAN,
           iterator : BOOLEAN, index : 0..Len(InterfaceNumber),
           interface : 0..Len(InterfaceNumber), keepOpen : BOOLEAN]

RunType ==
  /\ pc \in {"idle", "adds", "removes", "stopping", "stopped"} \cup Adding \cup Destroying
  /\ local \in Locals
  /\ victim \in Services \cup {NoService}
  /\ local.device # NoService <=> pc \in Adding
  /\ victim # NoService <=> pc \in Destroying

HandleType == refs \in [Handles -> Int] /\ open \subseteq Handles

StateType ==
  /\ life \in [Services -> Lives] /\ early \subseteq Services
  /\ sources \subseteq Services
  /\ refCon \in Services \cup {NoService} /\ offline \in BOOLEAN

Outcomes == {"success", "error", "aborted"}

FlowType ==
  /\ mWritePending \in [Services -> BOOLEAN] /\ mWriteQueue \in [Services -> Nat]
  /\ transfers \in [Services -> [Kinds -> Nat]]
  /\ completions \in [Services -> Seq(Kinds \X Outcomes)]
  /\ pipes \in [Services -> SUBSET Pipes] /\ written \in [Services -> SUBSET Pipes]

ThreadType ==
  thread \in [Clients \cup {IOThread} ->
               [in : Services \cup {NoService}, does : {"nothing", "send"} \cup Kinds]]

LEMMA TypeParts ==
  /\ TypeOK <=> /\ BusType /\ RunType /\ HandleType /\ StateType
                /\ FlowType /\ ThreadType
  /\ TypeOK' <=> /\ BusType' /\ RunType' /\ HandleType' /\ StateType'
                 /\ FlowType' /\ ThreadType'
BY DEF TypeOK, BusType, RunType, Locals, HandleType, StateType, FlowType,
       Outcomes, ThreadType

LEMMA HandlesKnown ==
  ASSUME NEW s \in Services
  PROVE  /\ Object(s) \in Handles /\ Device(s) \in Handles /\ Iterator(s) \in Handles
         /\ \A i \in Interfaces : InterfaceObject(s, i) \in Handles /\ Interface(s, i) \in Handles
BY DEF Handles, HandlesOf

LEMMA RetainType ==
  ASSUME HandleType, NEW h \in Handles, Retain(h)
  PROVE  refs' \in [Handles -> Int]
BY DEF HandleType, Retain

LEMMA ReleaseType ==
  ASSUME HandleType, NEW hs, Release(hs)
  PROVE  refs' \in [Handles -> Int]
BY DEF HandleType, Release

(* In the body of the interface loop there is an interface. *)
Looking == {"interfacePlugIn", "queryInterface", "interfaceOpen",
            "nextInterface", "found"} \cup Constructing
Indexed == pc \in Looking => local.index \in Interfaces

LEMMA InitType == Init => TypeOK
<1> SUFFICES ASSUME Init PROVE TypeOK
  OBVIOUS
<1> USE DEF Init, HandlesInit
<1>1. BusType
  BY HandlesAssumption, LifeAssumption DEF BusType
<1>2. RunType
  <2>1. local \in Locals
    BY HandlesAssumption DEF NoLocals, Locals
  <2>2. local.device = NoService
    BY DEF NoLocals
  <2> QED
    BY <2>1, <2>2 DEF RunType, Adding, Constructing, Destroying
<1>3. HandleType
  BY DEF HandleType
<1>4. StateType
  BY DEF StateType, Lives
<1>5. FlowType /\ ThreadType
  <2>1. Outside \in [in : Services \cup {NoService}, does : {"nothing", "send"} \cup Kinds]
    BY DEF Outside
  <2> QED
    BY <2>1 DEF FlowType, ThreadType
<1> QED
  BY <1>1, <1>2, <1>3, <1>4, <1>5, TypeParts

(* DevicesAdded. *)
LEMMA AddedType ==
  ASSUME TypeOK, Indexed, DevicesAdded, UNCHANGED lifeVars
  PROVE  TypeOK' /\ Indexed'
<1> DEFINE d == local.device
<1> USE DEF Adding, Constructing, Destroying, Looking
<1>0. /\ BusType /\ RunType /\ HandleType /\ StateType /\ FlowType /\ ThreadType
      /\ victim = NoService \/ pc \in Destroying
      /\ (StateType /\ FlowType /\ ThreadType)'
  BY TypeParts DEF RunType, lifeVars, StateType, FlowType, ThreadType
<1>n. NoLocals \in Locals /\ NoLocals.device = NoService
  BY HandlesAssumption DEF NoLocals, Locals
<1>f. ASSUME Fails(d) \/ Succeeds(d) \/ UNCHANGED faults
      PROVE  faults' \in 0..MaxFaults
  BY <1>0, <1>f, HandlesAssumption DEF BusType, Fails, Succeeds
<1> DEFINE Bus == /\ services' = services /\ adds' \subseteq Services
                  /\ (Fails(d) \/ Succeeds(d) \/ UNCHANGED faults)
           Run == /\ pc \notin Destroying
                  /\ pc' \in {"adds"} \cup (Adding \ Constructing)
                  /\ local' \in Locals
                  /\ local'.device # NoService <=> pc' \in Adding
<1>2. ASSUME pc \in Adding PROVE d \in Services
  BY <1>0, <1>2 DEF RunType, Locals
<1>i. Len(InterfaceNumber) \in Nat /\ Interfaces = 1..Len(InterfaceNumber)
  BY HandlesAssumption DEF Interfaces
<1> USE DEF Indexed
<1>1. ASSUME NEW s \in Services, NextDevice(s)
      PROVE  Bus /\ Run /\ HandleType' /\ Indexed'
  <2>1. /\ pc' = "createPlugIn" /\ pc = "adds" /\ Retain(Object(s))
        /\ local' = [NoLocals EXCEPT !.device = s] /\ adds' \subseteq adds
        /\ UNCHANGED <<services, open, faults>>
    BY <1>1 DEF NextDevice
  <2>2. local' \in Locals /\ local'.device = s
    BY <2>1, <1>n DEF Locals
  <2> QED
    BY <2>1, <2>2, <1>0, RetainType, HandlesKnown, HandlesAssumption DEF BusType, HandleType
<1>3. CreatePlugIn => Bus /\ Run /\ HandleType' /\ Indexed'
  BY <1>0, <1>n, ReleaseType, HandlesAssumption DEF CreatePlugIn, RunType, BusType, HandleType
<1>4. QueryDevice => Bus /\ Run /\ HandleType' /\ Indexed'
  BY <1>0, <1>2, RetainType, HandlesKnown DEF QueryDevice, RunType, BusType, HandleType, Locals
<1>5. MatchDevice => Bus /\ Run /\ HandleType' /\ Indexed'
  BY <1>0 DEF MatchDevice, RunType, BusType, HandleType
<1>6. OpenDevice => Bus /\ Run /\ HandleType' /\ Indexed'
  BY <1>0, <1>2, HandlesKnown DEF OpenDevice, RunType, BusType, HandleType
<1>7. SetConfiguration => Bus /\ Run /\ HandleType' /\ Indexed'
  BY <1>0 DEF SetConfiguration, RunType, BusType, HandleType
<1>8. CreateInterfaceIterator => Bus /\ Run /\ HandleType' /\ Indexed'
  BY <1>0, <1>2, RetainType, HandlesKnown DEF CreateInterfaceIterator, RunType, BusType, HandleType, Locals
<1>9. NextInterface => Bus /\ Run /\ HandleType' /\ Indexed'
  <2> SUFFICES ASSUME NextInterface PROVE Bus /\ Run /\ HandleType' /\ Indexed'
    OBVIOUS
  <2>1. CASE UNCHANGED local /\ UNCHANGED refs /\ pc' = "closeDevice"
    BY <1>0, <2>1 DEF NextInterface, RunType, BusType, HandleType
  <2>2. CASE ~(UNCHANGED local /\ UNCHANGED refs /\ pc' = "closeDevice")
    <3>1. /\ local.index < Len(InterfaceNumber) /\ pc = "interfaces"
          /\ local' = [local EXCEPT !.index = local.index + 1]
          /\ Retain(InterfaceObject(d, local.index + 1))
          /\ pc' = "interfacePlugIn"
          /\ UNCHANGED <<services, adds, open, faults>>
      BY <2>2 DEF NextInterface
    <3>2. local \in Locals /\ local.index + 1 \in Interfaces
      BY <1>0, <1>i, <3>1 DEF RunType, Locals
    <3>3. /\ local' \in Locals /\ local'.index = local.index + 1
          /\ local'.device = local.device
      BY <1>i, <3>1, <3>2 DEF Locals
    <3>4. HandleType'
      BY <1>0, <1>2, <3>1, <3>2, RetainType, HandlesKnown DEF HandleType
    <3> QED
      BY <1>0, <3>1, <3>2, <3>3, <3>4 DEF RunType, BusType
  <2> QED
    BY <2>1, <2>2
<1>10. InterfacePlugIn => Bus /\ Run /\ HandleType' /\ Indexed'
  BY <1>0 DEF InterfacePlugIn, RunType, BusType, HandleType
<1>11. QueryInterface => Bus /\ Run /\ HandleType' /\ Indexed'
  <2> SUFFICES ASSUME QueryInterface PROVE Bus /\ Run /\ HandleType' /\ Indexed'
    OBVIOUS
  <2>1. /\ pc = "queryInterface" /\ local \in Locals /\ local.index \in Interfaces
        /\ d \in Services /\ UNCHANGED <<services, adds, open>>
    BY <1>0, <1>2 DEF QueryInterface, RunType
  <2>2. /\ pc' \in {"interfaceOpen", "nextInterface"}
        /\ \E i \in 0..Len(InterfaceNumber) : local' = [local EXCEPT !.interface = i]
    BY <1>i, <2>1 DEF QueryInterface
  <2>3. /\ local' \in Locals /\ local'.index = local.index
        /\ local'.device = local.device
    BY <2>1, <2>2 DEF Locals
  <2>4. HandleType'
    BY <1>0, <2>1, RetainType, HandlesKnown DEF QueryInterface, HandleType
  <2>5. Fails(d) \/ Succeeds(d)
    BY DEF QueryInterface
  <2> QED
    BY <1>0, <2>1, <2>2, <2>3, <2>4, <2>5 DEF RunType, BusType
<1>12. InterfaceOpen => Bus /\ Run /\ HandleType' /\ Indexed'
  BY <1>0, <1>2, HandlesKnown DEF InterfaceOpen, RunType, BusType, HandleType
<1>13. InterfaceDone => Bus /\ Run /\ HandleType' /\ Indexed'
  BY <1>0, ReleaseType DEF InterfaceDone, RunType, BusType, HandleType
<1>14. CloseDevice => Bus /\ Run /\ HandleType' /\ Indexed'
  BY <1>0, ReleaseType DEF CloseDevice, RunType, BusType, HandleType
<1>15. DeviceDone => Bus /\ Run /\ HandleType' /\ Indexed'
  BY <1>0, <1>n, ReleaseType DEF DeviceDone, RunType, BusType, HandleType
<1>16. Bus /\ Run /\ HandleType' /\ Indexed'
  BY <1>1, <1>3, <1>4, <1>5, <1>6, <1>7, <1>8, <1>9, <1>10, <1>11, <1>12, <1>13,
     <1>14, <1>15 DEF DevicesAdded
<1>17. BusType'
  BY <1>16, <1>0, <1>f DEF BusType, lifeVars
<1>18. RunType'
  BY <1>16, <1>0 DEF RunType, lifeVars
<1> QED
  BY <1>0, <1>16, <1>17, <1>18, TypeParts

(* Nobody is in an InterfaceState that was never made. *)
Entered ==
  /\ refCon # NoService => life[refCon] # "none"
  /\ \A t \in Clients \cup {IOThread} :
       /\ thread[t].in # NoService => life[thread[t].in] # "none"
       /\ thread[t].does = "nothing" <=> thread[t].in = NoService
       /\ thread[t].does = "send" => t # IOThread
       /\ thread[t].does \in Kinds => t = IOThread

LEMMA FaultsType ==
  ASSUME BusType, NEW s, Fails(s) \/ Succeeds(s) \/ UNCHANGED faults
  PROVE  faults' \in 0..MaxFaults
BY HandlesAssumption DEF BusType, Fails, Succeeds

LEMMA TransfersType ==
  ASSUME FlowType, NEW s \in Services, NEW kind \in Kinds, NEW number \in Nat,
         Starts(s, kind, number) \/ UNCHANGED transfers
  PROVE  transfers' \in [Services -> [Kinds -> Nat]]
<1>1. transfers \in [Services -> [Kinds -> Nat]] /\ transfers[s][kind] + number \in Nat
  BY DEF FlowType
<1>2. CASE Starts(s, kind, number)
  BY <1>1, <1>2 DEF Starts
<1> QED
  BY <1>1, <1>2

LEMMA DoReadStep ==
  ASSUME NEW s, DoRead(s)
  PROVE  /\ Starts(s, "read", 1) \/ UNCHANGED transfers
         /\ Fails(s) \/ Succeeds(s) \/ UNCHANGED faults
BY DEF DoRead, Succeeds

(* What StartWrites starts is a number of writes. *)
LEMMA StartWritesStep ==
  ASSUME NEW s \in Services, NEW filled \in SUBSET OutPipes, StartWrites(s, filled)
  PROVE  /\ \E number \in Nat : Starts(s, "write", number)
         /\ Fails(s) \/ Succeeds(s) \/ UNCHANGED faults
         /\ written' = [written EXCEPT ![s] = @ \cup filled]
<1>1. PICK started \in SUBSET filled :
        /\ Starts(s, "write", Cardinality(started))
        /\ Fails(s) \/ UNCHANGED faults
  BY DEF StartWrites
<1>2. Cardinality(started) \in Nat
  <2>1. IsFiniteSet(started)
    BY <1>1, LifeAssumption, FS_Subset
  <2> QED
    BY <2>1, FS_CardinalityType
<1> QED
  BY <1>1, <1>2 DEF StartWrites

LEMMA DoWriteType ==
  ASSUME FlowType, NEW s \in Services, NEW queue \in Nat, DoWrite(s, queue, FALSE)
  PROVE  /\ mWritePending' \in [Services -> BOOLEAN]
         /\ mWriteQueue' \in [Services -> Nat]
         /\ transfers' \in [Services -> [Kinds -> Nat]]
         /\ written' \in [Services -> SUBSET Pipes]
         /\ Fails(s) \/ Succeeds(s) \/ UNCHANGED faults
<1>0. "write" \in Kinds
  BY DEF Kinds
<1>1. CASE queue = 0 \/ pipes[s] \cap OutPipes = {}
  BY <1>1 DEF DoWrite, FlowType
<1>2. CASE ~(queue = 0 \/ pipes[s] \cap OutPipes = {})
  <2>1. PICK filled \in SUBSET OutPipes, left \in 0..queue :
          /\ mWriteQueue' = [mWriteQueue EXCEPT ![s] = left]
          /\ mWritePending' = [mWritePending EXCEPT ![s] = FALSE \/ filled # {}]
          /\ StartWrites(s, filled)
    BY <1>2 DEF DoWrite
  <2>2. transfers' \in [Services -> [Kinds -> Nat]]
    BY <1>0, <2>1, StartWritesStep, TransfersType
  <2>3. written' \in [Services -> SUBSET Pipes]
    <3>1. written' = [written EXCEPT ![s] = @ \cup filled]
      BY <2>1, StartWritesStep
    <3> QED
      BY <3>1 DEF FlowType, Pipes
  <2>4. Fails(s) \/ Succeeds(s) \/ UNCHANGED faults
    BY <2>1, StartWritesStep
  <2>5. mWriteQueue' \in [Services -> Nat]
    BY <2>1 DEF FlowType
  <2>6. mWritePending' \in [Services -> BOOLEAN]
    BY <2>1 DEF FlowType
  <2> QED
    BY <2>2, <2>3, <2>4, <2>5, <2>6
<1> QED
  BY <1>1, <1>2

LEMMA DoWriteFaults ==
  ASSUME NEW s, NEW queue, NEW flag, DoWrite(s, queue, flag)
  PROVE  Fails(s) \/ UNCHANGED faults
<1>1. ASSUME NEW filled, StartWrites(s, filled)
      PROVE  Fails(s) \/ UNCHANGED faults
  BY <1>1 DEF StartWrites
<1> QED
  BY <1>1 DEF DoWrite

(* DoWrite has to do with one InterfaceState only. *)
LEMMA DoWriteElsewhere ==
  ASSUME FlowType, NEW s \in Services, NEW queue, DoWrite(s, queue, FALSE)
  PROVE  /\ \A r \in Services \ {s} :
              /\ mWriteQueue'[r] = mWriteQueue[r] /\ mWritePending'[r] = mWritePending[r]
              /\ transfers'[r] = transfers[r] /\ written'[r] = written[r]
         /\ transfers'[s]["read"] = transfers[s]["read"]
<1>1. CASE queue = 0 \/ pipes[s] \cap OutPipes = {}
  BY <1>1 DEF DoWrite, FlowType
<1>2. CASE ~(queue = 0 \/ pipes[s] \cap OutPipes = {})
  <2>1. PICK filled \in SUBSET OutPipes, left \in 0..queue :
          /\ mWriteQueue' = [mWriteQueue EXCEPT ![s] = left]
          /\ mWritePending' = [mWritePending EXCEPT ![s] = FALSE \/ filled # {}]
          /\ StartWrites(s, filled)
    BY <1>2 DEF DoWrite
  <2>2. PICK number \in Nat : Starts(s, "write", number)
    BY <2>1, StartWritesStep
  <2>3. written' = [written EXCEPT ![s] = @ \cup filled]
    BY <2>1, StartWritesStep
  <2> QED
    BY <2>1, <2>2, <2>3 DEF Starts, FlowType, Kinds
<1> QED
  BY <1>1, <1>2

(* Send of an InterfaceState pushes a packet, and starts writing unless a write
   is pending. *)
LEMMA SendLockedStep ==
  ASSUME NEW c \in Clients, SendLocked(c)
  PROVE  LET s == thread[c].in
         IN  /\ thread[c].does = "send" /\ life[s] # "deleted" /\ Leaves(c)
             /\ early' = IF life[s] = "constructing" THEN early \cup {s} ELSE early
             /\ UNCHANGED <<services, adds, pc, local, refs, open, removes, life,
                            victim, sources, refCon, offline, pipes, completions,
                            sends>>
             /\ \E parts \in Nat :
                  \/ /\ mWritePending[s]
                     /\ mWriteQueue' = [mWriteQueue EXCEPT ![s] = @ + parts]
                     /\ UNCHANGED <<mWritePending, transfers, faults, written>>
                  \/ ~mWritePending[s] /\ DoWrite(s, mWriteQueue[s] + parts, FALSE)
<1> DEFINE s == thread[c].in
<1>1. PICK parts \in 1..MaxParts :
        \/ /\ mWritePending[s]
           /\ mWriteQueue' = [mWriteQueue EXCEPT ![s] = @ + parts]
           /\ UNCHANGED <<mWritePending, transfers, faults, written>>
        \/ ~mWritePending[s] /\ DoWrite(s, mWriteQueue[s] + parts, FALSE)
  BY DEF SendLocked
<1>2. parts \in Nat
  BY LifeAssumption
<1>3. /\ thread[c].does = "send" /\ life[s] # "deleted" /\ Leaves(c)
      /\ early' = IF life[s] = "constructing" THEN early \cup {s} ELSE early
      /\ UNCHANGED <<services, adds, pc, local, refs, open, removes, life,
                     victim, sources, refCon, offline, pipes, completions, sends>>
  BY DEF SendLocked
<1> HIDE DEF s
<1>4. \E p \in Nat :
        \/ /\ mWritePending[s]
           /\ mWriteQueue' = [mWriteQueue EXCEPT ![s] = @ + p]
           /\ UNCHANGED <<mWritePending, transfers, faults, written>>
        \/ ~mWritePending[s] /\ DoWrite(s, mWriteQueue[s] + p, FALSE)
  BY <1>1, <1>2
<1> QED
  BY <1>3, <1>4 DEF s

LEMMA EntersType ==
  ASSUME ThreadType, NEW t, NEW s \in Services, NEW does \in {"send"} \cup Kinds,
         Enters(t, s, does)
  PROVE  ThreadType'
<1>1. [in |-> s, does |-> does] \in [in : Services \cup {NoService},
                                     does : {"nothing", "send"} \cup Kinds]
  OBVIOUS
<1> QED
  BY <1>1 DEF ThreadType, Enters

LEMMA LeavesType ==
  ASSUME ThreadType, NEW t, Leaves(t)
  PROVE  ThreadType'
<1>1. Outside \in [in : Services \cup {NoService}, does : {"nothing", "send"} \cup Kinds]
  BY DEF Outside
<1> QED
  BY <1>1 DEF ThreadType, Leaves

(* Plug, Unplug, and what clients and the I/O thread do. *)
LEMMA IOType ==
  ASSUME TypeOK, Indexed, Entered,
         \/ IOStep
         \/ \E s \in Services : Plug(s) \/ Unplug(s)
         \/ \E s \in Services, kind \in Kinds : Complete(s, kind)
         \/ \E c \in Clients : Send(c) \/ SendLocked(c)
  PROVE  TypeOK' /\ Indexed'
<1>0. /\ BusType /\ RunType /\ HandleType /\ StateType /\ FlowType /\ ThreadType
  BY TypeParts
<1>1. /\ UNCHANGED <<pc, local, victim, refs, open, life, sources, refCon, offline>>
  BY DEF IOStep, Dispatch, ReadCallback, WriteCallback, Plug, Unplug, Complete,
         Send, SendLocked, handleVars, lifeVars
<1>2. RunType' /\ HandleType' /\ Indexed'
  BY <1>0, <1>1 DEF RunType, HandleType, Indexed
<1> DEFINE Rest == BusType' /\ early' \subseteq Services /\ FlowType' /\ ThreadType'
<1>3. ASSUME NEW s \in Services, Plug(s) \/ Unplug(s)
      PROVE  Rest
  <2>1. UNCHANGED <<faults, sends, early, pipes, mWritePending, mWriteQueue,
                    transfers, completions, thread, written>>
    BY <1>3 DEF Plug, Unplug, lifeVars
  <2>2. BusType'
    BY <1>0, <1>3, <2>1 DEF BusType, Plug, Unplug, lifeVars
  <2> QED
    BY <1>0, <2>1, <2>2 DEF StateType, FlowType, ThreadType
<1>4. ASSUME NEW s \in Services, NEW kind \in Kinds, Complete(s, kind)
      PROVE  Rest
  <2>1. /\ UNCHANGED <<services, adds, removes, sends, early, pipes,
                       mWritePending, mWriteQueue, thread, written>>
        /\ Fails(s) \/ Succeeds(s)
    BY <1>4 DEF Complete
  <2>2. BusType'
    BY <1>0, <2>1, FaultsType DEF BusType
  <2>3. transfers' \in [Services -> [Kinds -> Nat]]
    BY <1>0, <1>4 DEF Complete, FlowType
  <2>4. completions' \in [Services -> Seq(Kinds \X Outcomes)]
    <3>1. PICK result \in {"success", "error"} :
            completions' = IF s \in sources
                             THEN [completions EXCEPT ![s] = Append(completions[s], <<kind, result>>)]
                             ELSE completions
      BY <1>4 DEF Complete
    <3>2. <<kind, result>> \in Kinds \X Outcomes
      BY DEF Outcomes
    <3>3. completions[s] \in Seq(Kinds \X Outcomes)
      BY <1>0 DEF FlowType
    <3>4. Append(completions[s], <<kind, result>>) \in Seq(Kinds \X Outcomes)
      BY <3>2, <3>3
    <3> QED
      BY <1>0, <3>1, <3>4 DEF FlowType
  <2> QED
    BY <1>0, <2>1, <2>2, <2>3, <2>4 DEF StateType, FlowType, ThreadType
<1>5. ASSUME NEW c \in Clients, Send(c)
      PROVE  Rest
  <2>1. /\ UNCHANGED <<services, adds, removes, faults, early, pipes,
                       mWritePending, mWriteQueue, transfers, completions,
                       written>>
        /\ sends < MaxSends /\ sends' = sends + 1 /\ Enters(c, refCon, "send")
        /\ refCon # NoService
    BY <1>5 DEF Send, handleVars
  <2>2. BusType'
    BY <1>0, <2>1, LifeAssumption DEF BusType
  <2>3. ThreadType'
    BY <1>0, <2>1, EntersType DEF StateType
  <2> QED
    BY <1>0, <2>1, <2>2, <2>3 DEF StateType, FlowType
<1>6. ASSUME NEW c \in Clients, SendLocked(c)
      PROVE  Rest
  <2> DEFINE s == thread[c].in
  <2>1. /\ UNCHANGED <<services, adds, removes, sends, completions, pipes>>
        /\ early' \subseteq early \cup {s} /\ Leaves(c) /\ thread[c].does = "send"
    BY <1>6, SendLockedStep
  <2>2. s \in Services
    BY <1>0, <2>1 DEF Entered, ThreadType
  <2>3. PICK parts \in Nat :
             \/ /\ mWriteQueue' = [mWriteQueue EXCEPT ![s] = @ + parts]
                /\ UNCHANGED <<mWritePending, transfers, faults, written>>
             \/ DoWrite(s, mWriteQueue[s] + parts, FALSE)
    BY <1>6, SendLockedStep
  <2> DEFINE queue == mWriteQueue[s] + parts
  <2>4. queue \in Nat
    <3>1. mWriteQueue[s] \in Nat
      BY <1>0, <2>2 DEF FlowType
    <3> QED
      BY <2>3, <3>1
  <2>5. /\ mWritePending' \in [Services -> BOOLEAN]
        /\ mWriteQueue' \in [Services -> Nat]
        /\ transfers' \in [Services -> [Kinds -> Nat]]
        /\ written' \in [Services -> SUBSET Pipes]
        /\ Fails(s) \/ Succeeds(s) \/ UNCHANGED faults
    <3>1. CASE DoWrite(s, queue, FALSE)
      <4> HIDE DEF queue, s
      <4> QED
        BY <1>0, <2>2, <2>4, <3>1, DoWriteType
    <3>2. CASE ~DoWrite(s, queue, FALSE)
      BY <1>0, <2>3, <2>4, <3>2 DEF FlowType
    <3> QED
      BY <3>1, <3>2
  <2>6. BusType'
    BY <1>0, <2>1, <2>5, FaultsType DEF BusType
  <2> QED
    BY <1>0, <2>1, <2>2, <2>5, <2>6, LeavesType DEF StateType, FlowType
<1>7. ASSUME NEW s \in Services, Dispatch(s)
      PROVE  Rest
  <2>1. /\ UNCHANGED <<services, adds, removes, faults, sends, early, pipes,
                       mWritePending, mWriteQueue, transfers, written>>
        /\ completions[s] # <<>>
        /\ completions' = [completions EXCEPT ![s] = Tail(completions[s])]
        /\ Enters(IOThread, s, Head(completions[s])[1]) \/ UNCHANGED thread
    BY <1>7 DEF Dispatch, handleVars
  <2>2. /\ Head(completions[s]) \in Kinds \X Outcomes
        /\ Tail(completions[s]) \in Seq(Kinds \X Outcomes)
    <3>1. completions[s] \in Seq(Kinds \X Outcomes)
      BY <1>0 DEF FlowType
    <3> QED
      BY <2>1, <3>1
  <2>3. ThreadType'
    <3> DEFINE does == Head(completions[s])[1]
    <3>1. does \in Kinds
      BY <2>2
    <3>2. Enters(IOThread, s, does) \/ UNCHANGED thread
      BY <2>1
    <3> HIDE DEF does
    <3> QED
      BY <1>0, <3>1, <3>2, EntersType DEF ThreadType
  <2> QED
    BY <1>0, <2>1, <2>2, <2>3 DEF BusType, StateType, FlowType
<1>8. ASSUME ReadCallback \/ WriteCallback
      PROVE  Rest
  <2> DEFINE s == thread[IOThread].in
  <2>1. /\ UNCHANGED <<services, adds, removes, sends, early, completions, pipes>>
        /\ Leaves(IOThread) /\ thread[IOThread].does \in Kinds
        /\ \/ DoRead(s) /\ UNCHANGED <<mWritePending, mWriteQueue, written>>
           \/ DoWrite(s, mWriteQueue[s], FALSE)
    BY <1>8 DEF ReadCallback, WriteCallback, Kinds
  <2>2. s \in Services
    BY <1>0, <2>1 DEF Entered, ThreadType, Kinds
  <2>3. /\ mWritePending' \in [Services -> BOOLEAN]
        /\ mWriteQueue' \in [Services -> Nat]
        /\ transfers' \in [Services -> [Kinds -> Nat]]
        /\ written' \in [Services -> SUBSET Pipes]
        /\ Fails(s) \/ Succeeds(s) \/ UNCHANGED faults
    <3>1. CASE DoWrite(s, mWriteQueue[s], FALSE)
      <4> DEFINE queue == mWriteQueue[s]
      <4>1. queue \in Nat /\ DoWrite(s, queue, FALSE)
        BY <1>0, <2>2, <3>1 DEF FlowType
      <4> HIDE DEF queue, s
      <4> QED
        BY <1>0, <2>2, <4>1, DoWriteType
    <3>2. CASE ~DoWrite(s, mWriteQueue[s], FALSE)
      <4>1. DoRead(s) /\ UNCHANGED <<mWritePending, mWriteQueue, written>>
        BY <2>1, <3>2
      <4>2. "read" \in Kinds /\ 1 \in Nat
        BY DEF Kinds
      <4> QED
        BY <1>0, <2>2, <4>1, <4>2, DoReadStep, TransfersType DEF FlowType
    <3> QED
      BY <3>1, <3>2
  <2>4. BusType'
    BY <1>0, <2>1, <2>3, FaultsType DEF BusType
  <2> QED
    BY <1>0, <2>1, <2>3, <2>4, LeavesType DEF StateType, FlowType
<1>9. Rest
  BY <1>3, <1>4, <1>5, <1>6, <1>7, <1>8 DEF IOStep
<1>10. StateType'
  BY <1>0, <1>1, <1>9 DEF StateType
<1> QED
  BY <1>2, <1>9, <1>10, TypeParts

(* The constructor. *)
LEMMA ConstructorType ==
  ASSUME TypeOK, Indexed, FoundNothing \/ FindPipes \/ AddSource \/ SetPending \/ FirstRead
  PROVE  TypeOK' /\ Indexed'
<1> DEFINE s == local.device
<1> USE DEF Adding, Constructing, Destroying
<1>0. /\ BusType /\ RunType /\ HandleType /\ StateType /\ FlowType /\ ThreadType
  BY TypeParts
<1>1. /\ pc \in {"found"} \cup Constructing
      /\ pc' \in {"closeDevice"} \cup Constructing
      /\ \/ UNCHANGED local
         \/ \E keepOpen \in BOOLEAN : local' = [local EXCEPT !.keepOpen = keepOpen]
      /\ open' \subseteq open
      /\ Fails(s) \/ Succeeds(s) \/ UNCHANGED faults
      /\ UNCHANGED <<services, adds, refs, removes, victim, mWriteQueue,
                     completions, thread, early, written, sends>>
  <2>1. CASE FoundNothing
    BY <2>1 DEF FoundNothing, Found, lifeVars
  <2>2. CASE FindPipes
    BY <2>2 DEF FindPipes, Constructed, Found
  <2>3. CASE AddSource
    BY <2>3 DEF AddSource, Constructed, Found
  <2>4. CASE SetPending
    BY <2>4 DEF SetPending
  <2>5. CASE FirstRead
    BY <2>5, DoReadStep DEF FirstRead, Constructed, Found
  <2> QED
    BY <2>1, <2>2, <2>3, <2>4, <2>5
<1>2. s \in Services
  BY <1>0, <1>1 DEF RunType, Locals
<1>3. local' \in Locals /\ UNCHANGED <<local.device, local.index>>
  BY <1>0, <1>1 DEF RunType, Locals
<1>4. RunType' /\ Indexed'
  BY <1>0, <1>1, <1>2, <1>3, HandlesAssumption DEF RunType, Indexed, Looking
<1>5. BusType' /\ HandleType' /\ ThreadType'
  BY <1>0, <1>1, FaultsType DEF BusType, HandleType, ThreadType
<1>6. /\ \/ UNCHANGED life
         \/ \E as \in Lives : life' = [life EXCEPT ![s] = as]
      /\ sources' \subseteq sources \cup {s} /\ refCon' \in {refCon, s}
      /\ offline' \in {offline, FALSE}
      /\ \/ UNCHANGED mWritePending
         \/ \E flag \in BOOLEAN : mWritePending' = [mWritePending EXCEPT ![s] = flag]
      /\ \/ UNCHANGED pipes
         \/ \E found \in SUBSET Pipes : pipes' = [pipes EXCEPT ![s] = found]
      /\ Starts(s, "read", 1) \/ UNCHANGED transfers
  BY DoReadStep DEF FoundNothing, FindPipes, AddSource, SetPending, FirstRead, Constructed,
                    lifeVars, Lives
<1>7. StateType' /\ FlowType'
  <2>1. "read" \in Kinds /\ 1 \in Nat
    BY DEF Kinds
  <2> QED
    <3>1. StateType'
      BY <1>0, <1>1, <1>2, <1>6 DEF StateType
    <3>2. transfers' \in [Services -> [Kinds -> Nat]]
      BY <1>0, <1>2, <1>6, <2>1, TransfersType DEF FlowType
    <3>3. mWritePending' \in [Services -> BOOLEAN]
      BY <1>0, <1>2, <1>6 DEF FlowType
    <3>4. pipes' \in [Services -> SUBSET Pipes]
      BY <1>0, <1>2, <1>6 DEF FlowType
    <3> QED
      BY <1>0, <1>1, <3>1, <3>2, <3>3, <3>4 DEF FlowType
<1> QED
  BY <1>4, <1>5, <1>7, TypeParts

(* The callbacks of the run loop, and removal. *)
LEMMA RemovalType ==
  ASSUME TypeOK, Indexed,
         \/ Callback \/ (\E s \in Services : DeviceRemoved(s))
         \/ Stop \/ AbortPipes \/ RemoveSource \/ Delete
  PROVE  TypeOK' /\ Indexed'
<1> USE DEF Adding, Constructing, Destroying
<1>0. /\ BusType /\ RunType /\ HandleType /\ StateType /\ FlowType /\ ThreadType
  BY TypeParts
<1>1. /\ pc \notin Adding
      /\ pc' \in {"idle", "adds", "removes", "stopping", "stopped"} \cup Destroying
      /\ \/ victim' \in Services /\ pc' \in Destroying
         \/ victim' = NoService /\ pc' \notin Destroying
      /\ adds' \subseteq adds /\ removes' \subseteq removes
      /\ open' \subseteq open /\ sources' \subseteq sources /\ early' \subseteq early
      /\ offline' \in {offline, TRUE}
      /\ UNCHANGED <<services, local, faults, refCon, thread, sends>>
  <2>0. victim # NoService <=> pc \in Destroying
    BY <1>0 DEF RunType
  <2>1. CASE Callback
    BY <2>0, <2>1 DEF Callback, lifeVars
  <2>2. ASSUME NEW s \in Services, DeviceRemoved(s)
        PROVE  <1>1!:
    BY <2>0, <2>2 DEF DeviceRemoved, Destroy
  <2>3. CASE Stop
    BY <2>0, <2>3 DEF Stop, Destroy
  <2>4. CASE AbortPipes
    BY <1>0, <2>0, <2>4 DEF AbortPipes, RunType
  <2>5. CASE RemoveSource
    BY <1>0, <2>0, <2>5 DEF RemoveSource, RunType
  <2>6. CASE Delete
    BY <2>0, <2>6 DEF Delete
  <2> QED
    BY <2>1, <2>2, <2>3, <2>4, <2>5, <2>6
<1>2. BusType' /\ RunType' /\ Indexed' /\ ThreadType'
  <2>1. victim' \in Services => victim' # NoService
    BY HandlesAssumption
  <2> QED
    BY <1>0, <1>1, <2>1 DEF BusType, RunType, Indexed, Looking, ThreadType
<1>3. HandleType'
  <2>1. UNCHANGED refs \/ \E hs : Release(hs)
    BY DEF Callback, DeviceRemoved, Stop, AbortPipes, RemoveSource, Delete
  <2> QED
    BY <1>0, <1>1, <2>1, ReleaseType DEF HandleType
<1>4. StateType'
  <2>1. \/ UNCHANGED life
        \/ \E s : \E as \in Lives : life' = [life EXCEPT ![s] = as]
    BY DEF Callback, DeviceRemoved, Stop, Destroy, AbortPipes, RemoveSource,
           Delete, lifeVars, Lives
  <2> QED
    BY <1>0, <1>1, <2>1 DEF StateType
<1>5. FlowType'
  <2>0. Kinds = {"read", "write"}
    BY DEF Kinds
  <2>1. CASE AbortPipes
    <3>1. victim \in Services
      BY <1>0, <2>1 DEF AbortPipes, RunType
    <3>2. Aborted(victim) \in Seq(Kinds \X Outcomes)
      <4>1. transfers[victim]["read"] \in Nat /\ transfers[victim]["write"] \in Nat
        BY <1>0, <2>0, <3>1 DEF FlowType
      <4>2. /\ <<"read", "aborted">> \in Kinds \X Outcomes
            /\ <<"write", "aborted">> \in Kinds \X Outcomes
        BY <2>0 DEF Outcomes
      <4> DEFINE reads == [i \in 1..transfers[victim]["read"] |-> <<"read", "aborted">>]
                 writes == [i \in 1..transfers[victim]["write"] |-> <<"write", "aborted">>]
      <4>3. reads \in Seq(Kinds \X Outcomes) /\ writes \in Seq(Kinds \X Outcomes)
        BY <4>1, <4>2
      <4>4. Aborted(victim) = reads \o writes
        BY DEF Aborted
      <4> HIDE DEF reads, writes
      <4> QED
        BY <4>3, <4>4
    <3>3. completions[victim] \o Aborted(victim) \in Seq(Kinds \X Outcomes)
      BY <1>0, <3>1, <3>2 DEF FlowType
    <3>4. [kind \in Kinds |-> 0] \in [Kinds -> Nat]
      OBVIOUS
    <3> QED
      BY <1>0, <2>1, <3>3, <3>4 DEF AbortPipes, FlowType
  <2>2. CASE Delete
    <3>1. [kind \in Kinds |-> 0] \in [Kinds -> Nat]
      OBVIOUS
    <3> QED
      BY <1>0, <2>2, <3>1 DEF Delete, FlowType
  <2>3. CASE RemoveSource
    <3>1. <<>> \in Seq(Kinds \X Outcomes)
      OBVIOUS
    <3> QED
      BY <1>0, <2>3, <3>1 DEF RemoveSource, FlowType
  <2>4. CASE Callback \/ (\E s \in Services : DeviceRemoved(s)) \/ Stop
    BY <1>0, <2>4 DEF Callback, DeviceRemoved, Stop, FlowType, lifeVars
  <2> QED
    BY <2>1, <2>2, <2>3, <2>4
<1> QED
  BY <1>2, <1>3, <1>4, <1>5, TypeParts

-----------------------------------------------------------------------------
(* Where the run loop is, and what there is for it. *)
(* Where the run loop is, and how far the services have come. *)

Places ==
  /\ pc \notin Adding => local = NoLocals
  /\ local.keepOpen => pc \in {"closeDevice", "nextDevice"}
  /\ pc \in Adding \ Constructing =>
       /\ local.keepOpen => InList(local.device)
       /\ ~local.keepOpen => life[local.device] = "none"
  /\ \A s \in Services :
       /\ life[s] = "constructing" <=> pc \in Constructing /\ local.device = s
       /\ life[s] = "deleting" <=> victim = s
       /\ s \in adds => services[s] # "never"
       /\ s \in adds \/ services[s] = "never" => life[s] = "none" /\ local.device # s

(* An InterfaceState has an event source between the middle of its constructor
   and the middle of its destructor, and has nothing before it is made. *)
Sources ==
  /\ \A s \in Services :
       /\ s \in sources => life[s] \in {"constructing", "running", "deleting"}
       /\ life[s] = "running" => s \in sources
       /\ life[s] = "none" =>
            /\ s \notin early /\ mWriteQueue[s] = 0 /\ completions[s] = <<>>
            /\ \A kind \in Kinds : transfers[s][kind] = 0
  /\ pc = "addSource" => local.device \notin sources
  /\ pc \in {"setPending", "firstRead"} => local.device \in sources
  /\ pc \in {"delete", "stopDelete"} => victim \notin sources /\ completions[victim] = <<>>

StateInv == TypeOK /\ Indexed /\ Entered /\ Places /\ Sources

LEMMA InitStateInv == Init => StateInv
<1> SUFFICES ASSUME Init PROVE StateInv
  OBVIOUS
<1> USE DEF Init, HandlesInit
<1>1. TypeOK
  BY InitType
<1>2. Indexed
  BY DEF Indexed, Looking, Constructing
<1>3. Entered
  BY DEF Entered, Outside, Kinds
<1>4. Places
  BY HandlesAssumption DEF Places, NoLocals, Adding, Constructing
<1>5. Sources
  BY DEF Sources
<1> QED
  BY <1>1, <1>2, <1>3, <1>4, <1>5 DEF StateInv

LEMMA IOStateInv ==
  ASSUME StateInv,
         \/ IOStep
         \/ \E s \in Services : Plug(s) \/ Unplug(s)
         \/ \E s \in Services, kind \in Kinds : Complete(s, kind)
         \/ \E c \in Clients : Send(c) \/ SendLocked(c)
  PROVE  StateInv'
<1> USE DEF StateInv
<1>0. TypeOK' /\ Indexed'
  BY IOType
<1>p. /\ BusType /\ RunType /\ StateType /\ FlowType /\ ThreadType
  BY TypeParts
<1>1. UNCHANGED <<pc, local, victim, life, sources, refCon>>
  BY DEF IOStep, Dispatch, ReadCallback, WriteCallback, Plug, Unplug, Complete,
         Send, SendLocked, handleVars, lifeVars
<1> DEFINE Enter == \/ UNCHANGED thread
                    \/ \E t : Leaves(t)
                    \/ \E c \in Clients : Enters(c, refCon, "send") /\ refCon # NoService
                    \/ \E s \in Services, kind \in Kinds :
                         Enters(IOThread, s, kind) /\ life[s] # "none"
           Bus == \/ UNCHANGED <<adds, services>>
                  \/ \E s \in Services :
                       /\ services[s] = "never" /\ adds' \subseteq adds \cup {s}
                       /\ services' = [services EXCEPT ![s] = "present"]
                  \/ \E s \in Services :
                       /\ services[s] = "present" /\ adds' = adds
                       /\ services' = [services EXCEPT ![s] = "gone"]
           Flow == \A s \in Services :
                     /\ life[s] = "none" => /\ s \in early' => s \in early
                                            /\ mWriteQueue'[s] = mWriteQueue[s]
                                            /\ transfers'[s] = transfers[s]
                     /\ s \notin sources => completions'[s] = completions[s]
<1>2. ASSUME NEW s \in Services, Plug(s) \/ Unplug(s)
      PROVE  Enter /\ Bus /\ Flow
  BY <1>2 DEF Plug, Unplug, lifeVars
<1>3. ASSUME NEW s \in Services, NEW kind \in Kinds, Complete(s, kind)
      PROVE  Enter /\ Bus /\ Flow
  <2>1. transfers[s][kind] # 0
    BY <1>p, <1>3 DEF Complete, FlowType
  <2>2. life[s] # "none"
    BY <2>1 DEF Sources
  <2> QED
    BY <1>3, <1>p, <2>2 DEF Complete, FlowType
<1>4. ASSUME NEW c \in Clients, Send(c)
      PROVE  Enter /\ Bus /\ Flow
  BY <1>4 DEF Send, handleVars
<1>5. ASSUME NEW s \in Services, life[s] # "none", NEW queue, DoWrite(s, queue, FALSE)
      PROVE  \A r \in Services : r # s => /\ mWriteQueue'[r] = mWriteQueue[r]
                                          /\ transfers'[r] = transfers[r]
  BY <1>p, <1>5, DoWriteElsewhere
<1>6. ASSUME NEW c \in Clients, SendLocked(c)
      PROVE  Enter /\ Bus /\ Flow
  <2> DEFINE s == thread[c].in
  <2>1. /\ UNCHANGED <<services, adds, completions>> /\ thread[c].does = "send"
        /\ early' \subseteq early \cup {s} /\ Leaves(c)
    BY <1>6, SendLockedStep
  <2>2. s \in Services /\ life[s] # "none"
    BY <1>p, <2>1 DEF Entered, ThreadType
  <2>3. \A r \in Services : r # s => /\ mWriteQueue'[r] = mWriteQueue[r]
                                     /\ transfers'[r] = transfers[r]
    <3>1. PICK parts \in Nat :
            \/ /\ mWriteQueue' = [mWriteQueue EXCEPT ![s] = @ + parts]
               /\ UNCHANGED transfers
            \/ DoWrite(s, mWriteQueue[s] + parts, FALSE)
      BY <1>6, SendLockedStep
    <3> DEFINE queue == mWriteQueue[s] + parts
    <3>2. CASE DoWrite(s, queue, FALSE)
      <4> HIDE DEF queue, s
      <4> QED
        BY <1>5, <2>2, <3>2
    <3>3. CASE ~DoWrite(s, queue, FALSE)
      BY <1>p, <2>2, <3>1, <3>3 DEF FlowType
    <3> QED
      BY <3>2, <3>3
  <2> QED
    BY <2>1, <2>2, <2>3
<1>7. ASSUME NEW s \in Services, Dispatch(s)
      PROVE  Enter /\ Bus /\ Flow
  <2>1. /\ UNCHANGED <<services, adds, early, mWriteQueue, transfers>>
        /\ completions[s] # <<>> /\ s \in sources
        /\ completions' = [completions EXCEPT ![s] = Tail(completions[s])]
        /\ Enters(IOThread, s, Head(completions[s])[1]) \/ UNCHANGED thread
    BY <1>7 DEF Dispatch, handleVars
  <2>2. Head(completions[s])[1] \in Kinds
    BY <1>p, <2>1 DEF FlowType
  <2>3. Enter
    <3> DEFINE kind == Head(completions[s])[1]
    <3>1. (Enters(IOThread, s, kind) /\ kind \in Kinds) \/ UNCHANGED thread
      BY <2>1, <2>2
    <3> HIDE DEF kind
    <3> QED
      BY <2>1, <3>1 DEF Sources
  <2> QED
    BY <1>p, <2>1, <2>3 DEF Sources, FlowType
<1>8. ASSUME ReadCallback \/ WriteCallback
      PROVE  Enter /\ Bus /\ Flow
  <2> DEFINE s == thread[IOThread].in
  <2>1. /\ UNCHANGED <<services, adds, early, completions>>
        /\ Leaves(IOThread) /\ thread[IOThread].does \in Kinds
        /\ \/ DoRead(s) /\ UNCHANGED mWriteQueue
           \/ DoWrite(s, mWriteQueue[s], FALSE)
    BY <1>8 DEF ReadCallback, WriteCallback, Kinds
  <2>2. s \in Services /\ life[s] # "none"
    BY <1>p, <2>1 DEF Entered, ThreadType, Kinds
  <2>3. \A r \in Services : r # s => /\ mWriteQueue'[r] = mWriteQueue[r]
                                     /\ transfers'[r] = transfers[r]
    <3>1. CASE DoWrite(s, mWriteQueue[s], FALSE)
      <4> DEFINE queue == mWriteQueue[s]
      <4>1. DoWrite(s, queue, FALSE)
        BY <3>1
      <4> HIDE DEF queue, s
      <4> QED
        BY <1>5, <2>2, <4>1
    <3>2. CASE ~DoWrite(s, mWriteQueue[s], FALSE)
      BY <1>p, <2>1, <2>2, <3>2 DEF FlowType, DoRead, Starts
    <3> QED
      BY <3>1, <3>2
  <2> QED
    BY <2>1, <2>2, <2>3
<1>9. Enter /\ Bus /\ Flow
  BY <1>2, <1>3, <1>4, <1>6, <1>7, <1>8 DEF IOStep
<1>10. Entered'
  <2>1. IOThread \notin Clients /\ NoService \notin Services
    BY LifeAssumption, HandlesAssumption
  <2> QED
    BY <1>1, <1>9, <1>p, <2>1 DEF Entered, Enters, Leaves, Outside, ThreadType, Kinds
<1>11. Places'
  <2>1. ASSUME NEW s \in Services
        PROVE  /\ s \in adds' => services'[s] # "never"
               /\ s \in adds' \/ services'[s] = "never" =>
                    life[s] = "none" /\ local.device # s
    BY <1>9, <1>p DEF Places, BusType
  <2> QED
    BY <1>1, <2>1 DEF Places, InList
<1>12. Sources'
  <2>1. ASSUME NEW s \in Services, life[s] = "none"
        PROVE  /\ s \notin early' /\ mWriteQueue'[s] = 0 /\ completions'[s] = <<>>
               /\ \A kind \in Kinds : transfers'[s][kind] = 0
    BY <1>9, <2>1 DEF Sources
  <2>2. pc \in {"delete", "stopDelete"} => victim \notin sources /\ completions'[victim] = <<>>
    BY <1>9, <1>p DEF Sources, RunType, Destroying
  <2> QED
    BY <1>1, <2>1, <2>2 DEF Sources
<1> QED
  BY <1>0, <1>10, <1>11, <1>12

(* DevicesAdded leaves the InterfaceStates alone. *)
LEMMA AddedStateInv ==
  ASSUME StateInv, DevicesAdded, UNCHANGED lifeVars
  PROVE  StateInv'
<1> USE DEF StateInv, Adding, Constructing
<1>0. TypeOK' /\ Indexed'
  BY AddedType
<1>p. /\ BusType /\ RunType /\ StateType /\ FlowType /\ ThreadType /\ lifeVars' = lifeVars
  BY TypeParts
<1> DEFINE Same == /\ UNCHANGED <<services, adds, local.device, local.keepOpen>>
                   /\ pc \in Adding \ {"addSource", "setPending", "firstRead"}
                   /\ pc' \in Adding \ {"addSource", "setPending", "firstRead"}
                   /\ local.keepOpen => pc' = "nextDevice"
           Ends == UNCHANGED <<services, adds>> /\ pc' = "adds" /\ local' = NoLocals
                   /\ pc \notin {"addSource", "setPending", "firstRead"}
           Begins == /\ UNCHANGED services /\ pc = "adds" /\ pc' = "createPlugIn"
                     /\ \E s \in adds : /\ adds' = adds \ {s}
                                        /\ local' = [NoLocals EXCEPT !.device = s]
<1>1. Begins \/ Same \/ Ends
  <2>1. (\E s \in Services : NextDevice(s)) => Begins
    BY DEF NextDevice
  <2>2. CreatePlugIn => Same \/ Ends
    BY DEF CreatePlugIn, Places
  <2>3. QueryDevice \/ CreateInterfaceIterator => Same
    BY <1>p DEF QueryDevice, CreateInterfaceIterator, Places, RunType, Locals
  <2>4. MatchDevice \/ OpenDevice \/ SetConfiguration \/ InterfacePlugIn \/ InterfaceOpen => Same
    BY DEF MatchDevice, OpenDevice, SetConfiguration, InterfacePlugIn, InterfaceOpen, Places
  <2>5. NextInterface \/ QueryInterface => Same
    BY <1>p DEF NextInterface, QueryInterface, Places, RunType, Locals
  <2>6. InterfaceDone \/ CloseDevice => Same
    BY DEF InterfaceDone, CloseDevice, Places
  <2>7. DeviceDone => Ends
    BY DEF DeviceDone
  <2> QED
    BY <2>1, <2>2, <2>3, <2>4, <2>5, <2>6, <2>7 DEF DevicesAdded
<1>2. Places'
  <2>1. CASE Begins
    <3>1. PICK s \in adds : adds' = adds \ {s} /\ local' = [NoLocals EXCEPT !.device = s]
      BY <2>1
    <3>2. local'.device = s /\ local'.keepOpen = FALSE /\ s \in Services
      BY <3>1, <1>p DEF NoLocals, BusType
    <3> QED
      BY <2>1, <3>1, <3>2, <1>p DEF Places, lifeVars
  <2>2. CASE Same
    BY <2>2, <1>p DEF Places, lifeVars, InList
  <2>3. CASE Ends
    <3>1. local'.device = NoService /\ local'.keepOpen = FALSE
      BY <2>3 DEF NoLocals
    <3>2. \A s \in Services : s # NoService
      BY HandlesAssumption
    <3> QED
      BY <2>3, <3>1, <3>2, <1>p DEF Places, lifeVars
  <2> QED
    BY <1>1, <2>1, <2>2, <2>3
<1>3. Entered' /\ Sources'
  <2>1. pc' \notin {"addSource", "setPending", "firstRead", "delete", "stopDelete"}
    BY <1>1
  <2> QED
    BY <1>p, <2>1 DEF Entered, Sources, lifeVars
<1> QED
  BY <1>0, <1>2, <1>3

LEMMA ConstructorStateInv ==
  ASSUME StateInv, FoundNothing \/ FindPipes \/ AddSource \/ SetPending \/ FirstRead
  PROVE  StateInv'
<1> USE DEF StateInv
<1> DEFINE s == local.device
<1>0. TypeOK' /\ Indexed'
  BY ConstructorType
<1>p. /\ BusType /\ RunType /\ StateType /\ FlowType /\ ThreadType
  BY TypeParts
<1>1. /\ pc \in {"found"} \cup Constructing /\ local \in Locals /\ s \in Services
      /\ s \notin adds /\ services[s] # "never"
      /\ local.keepOpen = FALSE
      /\ pc = "found" => life[s] = "none"
      /\ pc # "found" => life[s] = "constructing"
  BY <1>p DEF FoundNothing, FindPipes, AddSource, SetPending, FirstRead, Places,
              Adding, Constructing, RunType, Locals
<1>2. /\ UNCHANGED <<services, adds, victim, completions, thread, early, mWriteQueue>>
  BY DEF FoundNothing, FindPipes, AddSource, SetPending, FirstRead, Constructed,
         Found, lifeVars
<1>3. \A r \in Services : r # s => transfers'[r] = transfers[r]
  BY <1>p, <1>1 DEF FoundNothing, FindPipes, AddSource, SetPending, FirstRead,
                    DoRead, Starts, lifeVars, FlowType
<1> DEFINE Dropped == pc' = "closeDevice" /\ local' = [local EXCEPT !.keepOpen = FALSE]
                      /\ pc = "found" /\ UNCHANGED <<life, sources, refCon, transfers>>
           Kept(as) == pc' = "closeDevice" /\ local' = [local EXCEPT !.keepOpen = TRUE]
                       /\ life' = [life EXCEPT ![s] = as] /\ UNCHANGED <<sources, refCon>>
           Broken == pc \in {"found", "addSource"} /\ Kept("broken")
           Running == pc = "firstRead" /\ Kept("running")
           Goes == /\ UNCHANGED <<local, transfers>>
                   /\ \/ /\ pc = "found" /\ pc' = "addSource" /\ refCon' = s
                         /\ life' = [life EXCEPT ![s] = "constructing"] /\ sources' = sources
                      \/ /\ pc = "addSource" /\ pc' = "setPending"
                         /\ sources' = sources \cup {s} /\ UNCHANGED <<life, refCon>>
                      \/ /\ pc = "setPending" /\ pc' = "firstRead"
                         /\ UNCHANGED <<life, sources, refCon>>
<1>4. Dropped \/ Broken \/ Running \/ Goes
  <2>1. FoundNothing => Dropped
    BY DEF FoundNothing, Found, lifeVars
  <2>2. FindPipes => Broken \/ Goes
    BY DEF FindPipes, Constructed, Found
  <2>3. AddSource => Broken \/ Goes
    BY DEF AddSource, Constructed, Found
  <2>4. SetPending => Goes
    BY DEF SetPending
  <2>5. FirstRead => Running
    BY DEF FirstRead, Constructed, Found
  <2> QED
    BY <2>1, <2>2, <2>3, <2>4, <2>5
<1>5. /\ Dropped => local'.device = s /\ local'.keepOpen = FALSE
      /\ \A as : Kept(as) => local'.device = s /\ local'.keepOpen = TRUE
  BY <1>1 DEF Locals
<1>6. Places'
  <2>1. \A r \in Services : r # s => life'[r] = life[r]
    BY <1>4, <1>p, <1>1 DEF StateType
  <2>2. CASE Dropped
    BY <1>1, <1>2, <1>5, <2>2 DEF Places, Adding, Constructing
  <2>3. CASE Broken \/ Running
    <3>1. life'[s] \in {"broken", "running"}
      BY <1>1, <1>p, <2>3 DEF StateType
    <3> QED
      BY <1>1, <1>2, <1>5, <2>1, <2>3, <3>1 DEF Places, Adding, Constructing, InList
  <2>4. CASE Goes
    <3>1. life'[s] = "constructing" /\ pc' \in Constructing /\ local' = local
      BY <1>1, <1>p, <2>4 DEF StateType, Constructing
    <3> QED
      BY <1>1, <1>2, <2>1, <2>4, <3>1 DEF Places, Adding, Constructing
  <2> QED
    BY <1>4, <2>2, <2>3, <2>4
<1>7. Entered'
  BY <1>1, <1>2, <1>4, <1>p DEF Entered, StateType, Lives, ThreadType
<1>8. Sources'
  <2>1. ASSUME NEW r \in Services, life'[r] = "none"
        PROVE  life[r] = "none" /\ (r = s => transfers' = transfers)
    BY <1>1, <1>4, <1>p, <2>1 DEF StateType
  <2>2. ASSUME NEW r \in Services, life'[r] = "none"
        PROVE  /\ r \notin early' /\ mWriteQueue'[r] = 0 /\ completions'[r] = <<>>
               /\ \A kind \in Kinds : transfers'[r][kind] = 0
    BY <1>2, <1>3, <2>1, <2>2 DEF Sources
  <2>3. ASSUME NEW r \in Services
        PROVE  /\ r \in sources' => life'[r] \in {"constructing", "running", "deleting"}
               /\ life'[r] = "running" => r \in sources'
    <3>1. CASE r # s
      <4>1. life'[r] = life[r] /\ (r \in sources' <=> r \in sources)
        BY <3>1, <1>4, <1>p, <1>1 DEF StateType
      <4> QED
        BY <4>1 DEF Sources
    <3>2. CASE r = s
      BY <3>2, <1>1, <1>4, <1>p DEF Sources, StateType, Constructing
    <3> QED
      BY <3>1, <3>2
  <2>4. /\ pc' = "addSource" => local'.device \notin sources'
        /\ pc' \in {"setPending", "firstRead"} => local'.device \in sources'
        /\ pc' \notin {"delete", "stopDelete"}
    BY <1>1, <1>4 DEF Sources, Constructing
  <2> QED
    BY <2>2, <2>3, <2>4 DEF Sources
<1> QED
  BY <1>0, <1>6, <1>7, <1>8

LEMMA RemovalStateInv ==
  ASSUME StateInv,
         \/ Callback \/ (\E s \in Services : DeviceRemoved(s))
         \/ Stop \/ AbortPipes \/ RemoveSource \/ Delete
  PROVE  StateInv'
<1> USE DEF StateInv
<1>0. TypeOK' /\ Indexed'
  BY RemovalType
<1>p. /\ BusType /\ RunType /\ StateType /\ FlowType /\ ThreadType
  BY TypeParts
<1>c. \A s \in Services : s # NoService
  BY HandlesAssumption
<1>1. /\ pc \notin Adding /\ pc' \notin Adding /\ UNCHANGED <<services, local, refCon, thread>>
      /\ adds' \subseteq adds
  BY DEF Callback, DeviceRemoved, Stop, AbortPipes, RemoveSource, Delete, Adding,
         Constructing, lifeVars
<1>d. local.device = NoService /\ local.keepOpen = FALSE
  BY <1>1 DEF Places, NoLocals
<1> DEFINE Dies == \E s \in Services :
                     /\ InList(s) /\ life' = [life EXCEPT ![s] = "deleting"] /\ victim' = s
                     /\ victim = NoService /\ pc' \in {"abortPipes", "stopAbortPipes"}
                     /\ UNCHANGED <<sources, completions, early, mWriteQueue, transfers>>
           Stays == /\ UNCHANGED <<life, victim, sources, completions, early, mWriteQueue, transfers>>
                    /\ pc' \notin {"delete", "stopDelete"}
           Aborts == /\ victim # NoService /\ pc' \notin {"delete", "stopDelete"}
                     /\ UNCHANGED <<life, victim, sources, early, mWriteQueue>>
                     /\ \A s \in Services : s # victim => /\ completions'[s] = completions[s]
                                                          /\ transfers'[s] = transfers[s]
           Removes == /\ victim # NoService /\ pc' \in {"delete", "stopDelete"}
                      /\ UNCHANGED <<life, victim, early, mWriteQueue, transfers>>
                      /\ sources' = sources \ {victim}
                      /\ completions' = [completions EXCEPT ![victim] = <<>>]
           Frees == /\ victim # NoService /\ pc \in {"delete", "stopDelete"}
                    /\ pc' \notin {"delete", "stopDelete"}
                    /\ life' = [life EXCEPT ![victim] = "deleted"] /\ victim' = NoService
                    /\ early' \subseteq early /\ UNCHANGED <<sources, completions>>
                    /\ \A s \in Services : s # victim => /\ mWriteQueue'[s] = mWriteQueue[s]
                                                         /\ transfers'[s] = transfers[s]
<1>2. Dies \/ Stays \/ Aborts \/ Removes \/ Frees
  <2>0. victim # NoService <=> pc \in Destroying
    BY <1>p DEF RunType
  <2>1. Callback => Stays
    BY DEF Callback, lifeVars
  <2>2. ASSUME NEW s \in Services, DeviceRemoved(s) PROVE Dies \/ Stays
    <3>1. CASE InList(s)
      BY <2>0, <2>2, <3>1 DEF DeviceRemoved, Destroy, Destroying
    <3>2. CASE ~InList(s)
      BY <2>2, <3>2 DEF DeviceRemoved
    <3> QED
      BY <3>1, <3>2
  <2>3. ASSUME Stop PROVE Dies \/ Stays
    <3>1. CASE \E s \in Services : InList(s)
      BY <2>0, <2>3, <3>1 DEF Stop, Destroy, Destroying
    <3>2. CASE ~\E s \in Services : InList(s)
      BY <2>3, <3>2 DEF Stop
    <3> QED
      BY <3>1, <3>2
  <2>4. AbortPipes => Aborts
    BY <2>0, <1>p DEF AbortPipes, FlowType, Destroying
  <2>5. RemoveSource => Removes
    BY <2>0 DEF RemoveSource, Destroying
  <2>6. Delete => Frees
    BY <2>0, <1>p DEF Delete, FlowType, Destroying
  <2> QED
    BY <2>1, <2>2, <2>3, <2>4, <2>5, <2>6
<1>v. victim # NoService => victim \in Services /\ life[victim] = "deleting"
  BY <1>p DEF RunType, Places
<1>3. Places'
  <2>1. \A s \in Services : life[s] # "constructing" /\ life'[s] # "constructing"
    BY <1>1, <1>2, <1>d, <1>c, <1>p DEF Places, StateType
  <2>2. \A s \in Services : life'[s] = "deleting" <=> victim' = s
    BY <1>2, <1>c, <1>v, <1>p DEF Places, StateType
  <2>3. \A s \in Services : life[s] = "none" => life'[s] = "none"
    BY <1>2, <1>v, <1>p DEF StateType, InList
  <2> QED
    BY <1>1, <1>d, <2>1, <2>2, <2>3 DEF Places, Adding
<1>4. Entered'
  <2>1. \A s \in Services : life[s] # "none" => life'[s] # "none"
    BY <1>2, <1>v, <1>p DEF StateType
  <2> QED
    BY <1>1, <2>1, <1>p DEF Entered, StateType, ThreadType
<1>5. Sources'
  <2>1. ASSUME NEW s \in Services, life'[s] = "none"
        PROVE  /\ s \notin early' /\ mWriteQueue'[s] = 0 /\ completions'[s] = <<>>
               /\ \A kind \in Kinds : transfers'[s][kind] = 0
    <3>1. life[s] = "none"
      BY <1>2, <1>v, <2>1, <1>p DEF StateType
    <3>2. s # victim
      BY <1>c, <1>v, <3>1
    <3> QED
      BY <1>2, <3>1, <3>2, <1>p DEF Sources, FlowType
  <2>2. ASSUME NEW s \in Services
        PROVE  /\ s \in sources' => life'[s] \in {"constructing", "running", "deleting"}
               /\ life'[s] = "running" => s \in sources'
    BY <1>2, <1>v, <1>p DEF Sources, StateType, InList
  <2>3. pc' \notin {"addSource", "setPending", "firstRead"}
    BY <1>1 DEF Adding, Constructing
  <2>4. pc' \in {"delete", "stopDelete"} => victim' \notin sources' /\ completions'[victim'] = <<>>
    BY <1>2, <1>v, <1>p DEF FlowType
  <2> QED
    BY <2>1, <2>2, <2>3, <2>4 DEF Sources
<1> QED
  BY <1>0, <1>3, <1>4, <1>5

LEMMA NextStateInv == StateInv /\ [Next]_vars => StateInv'
<1> SUFFICES ASSUME StateInv, [Next]_vars PROVE StateInv'
  OBVIOUS
<1>1. CASE RunLoop
  BY <1>1, AddedStateInv, ConstructorStateInv, RemovalStateInv DEF RunLoop
<1>2. CASE pc = "idle" /\ Stop
  BY <1>2, RemovalStateInv
<1>3. CASE \/ IOStep
           \/ \E s \in Services : Plug(s) \/ Unplug(s)
           \/ \E s \in Services, kind \in Kinds : Complete(s, kind)
           \/ \E c \in Clients : Send(c) \/ SendLocked(c)
  BY <1>3, IOStateInv
<1>4. CASE UNCHANGED vars
  <2>1. UNCHANGED <<handleVars, lifeVars>>
    BY <1>4 DEF vars
  <2> QED
    <3>1. TypeOK'
      BY <2>1 DEF StateInv, TypeOK, handleVars, lifeVars
    <3>2. Indexed' /\ Entered'
      BY <2>1 DEF StateInv, Indexed, Entered, handleVars, lifeVars
    <3>3. Places'
      BY <2>1 DEF StateInv, Places, InList, handleVars, lifeVars
    <3>4. Sources'
      BY <2>1 DEF StateInv, Sources, handleVars, lifeVars
    <3> QED
      BY <3>1, <3>2, <3>3, <3>4 DEF StateInv
<1> QED
  BY <1>1, <1>2, <1>3, <1>4 DEF Next

(* Every variable of the InterfaceStates and of their run loops has its type, and
   the run loop has a service in its locals exactly while it adds one. *)
THEOREM TypeCorrect == Spec => []TypeOK
<1>1. StateInv => TypeOK
  BY DEF StateInv
<1> QED
  BY <1>1, InitStateInv, NextStateInv, PTL DEF Spec

-----------------------------------------------------------------------------
(* The handles. *)

Held(s) == life[s] \in {"running", "broken", "deleting"}
Desired(i) == InterfaceNumber[i] = DesiredInterface
Excuse(s) == faults > 0 \/ services[s] = "gone"

(* What DevicesAdded leaves of an interface. *)
InterfaceLeft(s, i) ==
  /\ InterfaceObject(s, i) \notin open
  /\ refs[InterfaceObject(s, i)] \in IF Desired(i) THEN {0, 1} ELSE {0}
  /\ refs[Interface(s, i)] <= refs[InterfaceObject(s, i)]
  /\ refs[Interface(s, i)] < 0 => i < Len(InterfaceNumber) /\ Excuse(s)
  /\ Interface(s, i) \in open =>
       refs[InterfaceObject(s, i)] = 1 /\ refs[Interface(s, i)] = 1

Fresh(s) == \A h \in HandlesOf(s) : refs[h] = 0

Settled(s) ==
  /\ refs[Object(s)] = 0 /\ refs[Iterator(s)] = 0
  /\ Object(s) \notin open /\ Iterator(s) \notin open
  /\ refs[Device(s)] = IF Held(s) THEN 1 ELSE 0
  /\ Device(s) \in open <=> Held(s)
  /\ \A i \in Interfaces : /\ InterfaceLeft(s, i)
                           /\ Interface(s, i) \in open <=> Held(s) /\ Desired(i)

(* The interface that FoundInterface was called with. *)
InFound == {"found"} \cup Constructing

(* The interface loop, at its index-th interface. *)
InterfaceLooked(s, i) ==
  /\ InterfaceObject(s, i) \notin open
  /\ Interface(s, i) \in open <=> pc \in InFound /\ i = local.index
  /\ refs[InterfaceObject(s, i)] = IF i = local.index /\ pc # "interfaces" THEN 1 ELSE 0
  /\ i > local.index => refs[Interface(s, i)] = 0
  /\ i = local.index =>
       refs[Interface(s, i)] =
         IF \/ pc \in {"interfaceOpen"} \cup InFound
            \/ pc = "nextInterface" /\ local.interface = i
           THEN 1 ELSE 0
  /\ i < local.index =>
       /\ refs[Interface(s, i)] <= 0
       /\ refs[Interface(s, i)] < 0 => Excuse(s)

BeforeLoop == {"createPlugIn", "queryDevice", "matchDevice", "openDevice",
               "setConfiguration", "createIterator"}
InLoop == {"interfaces", "interfacePlugIn", "queryInterface", "interfaceOpen",
           "nextInterface"} \cup InFound
Opened == {"setConfiguration", "createIterator", "closeDevice"} \cup InLoop

(* The locals of DevicesAdded. *)
LocalsInv ==
  /\ pc \in {"createPlugIn", "queryDevice"} => ~local.deviceIntf
  /\ pc \in {"matchDevice", "openDevice"} \cup Opened \/ local.keepOpen => local.deviceIntf
  /\ pc \in BeforeLoop => local.index = 0 /\ local.interface = 0 /\ ~local.iterator
  /\ local.interface <= local.index
  /\ pc \in {"interfacePlugIn", "queryInterface"} => local.interface < local.index
  /\ pc \in {"interfaceOpen"} \cup InFound => local.interface = local.index
  /\ pc \in InFound \/ local.keepOpen => Desired(local.index)
  /\ pc = "nextInterface" /\ local.interface \notin {0, local.index} => Excuse(local.device)

DeviceHeld(s) ==
  /\ refs[Object(s)] = 1 /\ Object(s) \notin open
  /\ refs[Iterator(s)] = IF local.iterator /\ pc # "nextDevice" THEN 1 ELSE 0
  /\ Iterator(s) \notin open
  /\ refs[Device(s)] = IF local.deviceIntf THEN 1 ELSE 0
  /\ Device(s) \in open <=> pc \in Opened \/ (pc = "nextDevice" /\ local.keepOpen)

InterfaceHeld(s, i) ==
  IF pc \in {"closeDevice", "nextDevice"}
    THEN /\ InterfaceLeft(s, i)
         /\ Interface(s, i) \in open <=> local.keepOpen /\ Desired(i)
    ELSE InterfaceLooked(s, i)

AddingInv == /\ LocalsInv /\ DeviceHeld(local.device)
             /\ \A i \in Interfaces : InterfaceHeld(local.device, i)

RefInv ==
  /\ \A s \in Services :
       /\ s \in adds \/ services[s] = "never" => Fresh(s)
       /\ s # local.device => Settled(s)
  /\ pc \in Adding => AddingInv

-----------------------------------------------------------------------------
LEMMA Apart ==
  ASSUME NEW s \in Services, NEW i \in Interfaces
  PROVE  /\ InterfaceObject(s, i) \notin {Object(s), Device(s), Iterator(s)}
         /\ Interface(s, i) \notin {Object(s), Device(s), Iterator(s)}
         /\ \A j \in Interfaces : /\ InterfaceObject(s, i) # Interface(s, j)
                                  /\ i # j => InterfaceObject(s, i) # InterfaceObject(s, j)
                                  /\ i # j => Interface(s, i) # Interface(s, j)
BY DEF Object, Device, Iterator, InterfaceObject, Interface

LEMMA OwnHandles ==
  ASSUME NEW s \in Services
  PROVE  /\ {Object(s), Device(s), Iterator(s)} \subseteq HandlesOf(s)
         /\ \A i \in Interfaces : /\ InterfaceObject(s, i) \in HandlesOf(s)
                                  /\ Interface(s, i) \in HandlesOf(s)
         /\ \A h \in HandlesOf(s) : h[1] = s /\ h \in Handles
         /\ Object(s)[1] = s
         /\ Object(s) # Device(s) /\ Object(s) # Iterator(s) /\ Device(s) # Iterator(s)
BY DEF Handles, HandlesOf, Object, Device, Iterator, InterfaceObject, Interface

(* A service whose handles a step leaves alone. *)
Alone(s) ==
  /\ \A h \in HandlesOf(s) : refs'[h] = refs[h] /\ (h \in open' <=> h \in open)
  /\ Excuse(s) => Excuse(s)'

LEMMA AloneSettled ==
  ASSUME NEW s \in Services, Alone(s), Held(s)' <=> Held(s)
  PROVE  /\ Settled(s) => Settled(s)'
         /\ Fresh(s) => Fresh(s)'
<1>1. ASSUME NEW i \in Interfaces, InterfaceLeft(s, i)
      PROVE  InterfaceLeft(s, i)'
  BY <1>1, OwnHandles DEF InterfaceLeft, Alone
<1>2. ASSUME Settled(s) PROVE Settled(s)'
  <2>1. ASSUME NEW i \in Interfaces
        PROVE  /\ InterfaceLeft(s, i)'
               /\ Interface(s, i) \in open' <=> Held(s)' /\ Desired(i)
    <3>1. InterfaceLeft(s, i) /\ (Interface(s, i) \in open <=> Held(s) /\ Desired(i))
      BY <1>2 DEF Settled
    <3>2. Interface(s, i) \in open' <=> Interface(s, i) \in open
      BY OwnHandles DEF Alone
    <3> QED
      BY <1>1, <3>1, <3>2
  <2>2. /\ refs'[Object(s)] = 0 /\ refs'[Iterator(s)] = 0
        /\ Object(s) \notin open' /\ Iterator(s) \notin open'
    BY <1>2, OwnHandles DEF Settled, Alone
  <2>3. /\ refs'[Device(s)] = IF Held(s)' THEN 1 ELSE 0
        /\ Device(s) \in open' <=> Held(s)'
    <3>1. CASE Held(s)
      BY <1>2, <3>1, OwnHandles DEF Settled, Alone
    <3>2. CASE ~Held(s)
      BY <1>2, <3>2, OwnHandles DEF Settled, Alone
    <3> QED
      BY <3>1, <3>2
  <2> QED
    BY <2>1, <2>2, <2>3 DEF Settled
<1>3. Fresh(s) => Fresh(s)'
  BY DEF Fresh, Alone
<1> QED
  BY <1>2, <1>3

LEMMA RetainStep ==
  ASSUME HandleType, NEW h \in Handles, Retain(h)
  PROVE  /\ refs'[h] = refs[h] + 1
         /\ \A g \in Handles : g # h => refs'[g] = refs[g]
BY DEF HandleType, Retain

LEMMA ReleaseStep ==
  ASSUME HandleType, NEW hs, Release(hs)
  PROVE  \A g \in Handles : /\ g \in hs => refs'[g] = refs[g] - 1
                            /\ g \notin hs => refs'[g] = refs[g]
BY DEF HandleType, Release

LEMMA ExcuseStays ==
  ASSUME BusType, UNCHANGED services, NEW d \in Services,
         Fails(d) \/ Succeeds(d) \/ UNCHANGED faults
  PROVE  /\ \A s : Excuse(s) => Excuse(s)'
         /\ Fails(d) /\ services[d] # "never" => Excuse(d)'
BY HandlesAssumption DEF BusType, Fails, Succeeds, Excuse

(* A step for the service d leaves the others alone. *)
LEMMA OthersAlone ==
  ASSUME StateInv, RefInv, UNCHANGED services, NEW d \in Services,
         \A s \in Services : s # d => life'[s] = life[s],
         Fails(d) \/ Succeeds(d) \/ UNCHANGED faults,
         \A h \in Handles : h[1] # d => refs'[h] = refs[h] /\ (h \in open' <=> h \in open),
         d = local.device \/ local.device = NoService, adds' \subseteq adds \ {d},
         services[d] # "never",
         \/ local'.device = d /\ AddingInv'
         \/ local'.device = NoService /\ pc' \notin Adding /\ Settled(d)'
  PROVE  RefInv'
<1>1. \A s : Excuse(s) => Excuse(s)'
  BY TypeParts, ExcuseStays DEF StateInv
<1>2. ASSUME NEW s \in Services, s # d
      PROVE  /\ Settled(s)'
             /\ Fresh(s) => Fresh(s)'
  <2>1. Alone(s)
    BY <1>1, <1>2, OwnHandles DEF Alone
  <2>2. Settled(s)
    BY <1>2, HandlesAssumption DEF RefInv
  <2>3. Held(s)' <=> Held(s)
    BY <1>2 DEF Held
  <2> QED
    BY <2>1, <2>2, <2>3, AloneSettled
<1> QED
  BY <1>2 DEF RefInv

(* DevicesAdded, step by step: what it does to the service in its locals. *)
LEMMA AddedBegins ==
  ASSUME StateInv, RefInv, NEW s \in Services, NextDevice(s), UNCHANGED life
  PROVE  RefInv'
<1>p. BusType /\ HandleType /\ RunType
  BY TypeParts DEF StateInv
<1>1. /\ pc = "adds" /\ pc' = "createPlugIn" /\ adds' = adds \ {s} /\ s \in adds
      /\ local' = [NoLocals EXCEPT !.device = s] /\ Retain(Object(s))
      /\ UNCHANGED <<services, open, faults>>
  BY DEF NextDevice
<1>2. /\ local'.device = s /\ local'.deviceIntf = FALSE /\ local'.iterator = FALSE
      /\ local'.index = 0 /\ local'.interface = 0 /\ local'.keepOpen = FALSE
  BY <1>1 DEF NoLocals
<1>3. /\ local.device = NoService /\ Fresh(s) /\ Settled(s) /\ ~Held(s)
      /\ services[s] # "never"
  BY <1>1, HandlesAssumption DEF StateInv, Places, RefInv, NoLocals, Adding, Constructing, Held
<1>4. /\ refs'[Object(s)] = 1
      /\ \A h \in Handles : h # Object(s) => refs'[h] = refs[h]
  BY <1>1, <1>3, <1>p, RetainStep, HandlesKnown, OwnHandles DEF Fresh
<1>5. \A i \in Interfaces : i \in Nat /\ i > 0
  BY HandlesAssumption DEF Interfaces
<1>6. DeviceHeld(s)'
  BY <1>1, <1>2, <1>3, <1>4, Apart, OwnHandles
     DEF DeviceHeld, Fresh, Settled, Opened, InLoop, InFound, Constructing
<1>7. LocalsInv'
  BY <1>1, <1>2 DEF LocalsInv, Opened, InLoop, InFound, BeforeLoop, Constructing
<1>8. ASSUME NEW i \in Interfaces PROVE InterfaceHeld(s, i)'
  <2>1. /\ refs'[Interface(s, i)] = 0 /\ refs'[InterfaceObject(s, i)] = 0
        /\ Interface(s, i) \notin open' /\ InterfaceObject(s, i) \notin open'
    BY <1>1, <1>3, <1>4, Apart, OwnHandles DEF Fresh, Settled, InterfaceLeft
  <2> QED
    BY <1>1, <1>2, <1>5, <2>1 DEF InterfaceHeld, InterfaceLooked, InFound, Constructing
<1>9. AddingInv'
  BY <1>2, <1>6, <1>7, <1>8 DEF AddingInv
<1>10. \A h \in Handles : h[1] # s => refs'[h] = refs[h]
  BY <1>4, OwnHandles
<1> QED
  <2>1. adds' \subseteq adds \ {s}
    BY <1>1
  <2>2. \A h \in Handles : h[1] # s => refs'[h] = refs[h] /\ (h \in open' <=> h \in open)
    BY <1>1, <1>10
  <2> QED
    BY <1>1, <1>2, <1>3, <1>9, <2>1, <2>2, OthersAlone

(* A step that leaves the references and what is open alone. *)
LEMMA MovesOn ==
  ASSUME StateInv, RefInv, pc \in Adding, UNCHANGED <<services, adds, refs, open, life>>,
         Fails(local.device) \/ Succeeds(local.device) \/ UNCHANGED faults,
         local'.device = local.device,
         LocalsInv', DeviceHeld(local.device)',
         \A i \in Interfaces : InterfaceHeld(local.device, i)'
  PROVE  RefInv'
<1>1. PICK d \in Services : d = local.device
  BY TypeParts DEF StateInv, RunType, Locals
<1>2. services[d] # "never" /\ d \notin adds
  BY <1>1 DEF StateInv, Places
<1>3. AddingInv'
  BY DEF AddingInv
<1> QED
  BY <1>1, <1>2, <1>3, OthersAlone

LEMMA StepBeforeLoop ==
  ASSUME StateInv, RefInv, UNCHANGED life,
         \/ MatchDevice \/ SetConfiguration
         \/ (QueryDevice \/ OpenDevice) /\ pc' = "nextDevice"
         \/ CreateInterfaceIterator /\ pc' = "closeDevice"
  PROVE  RefInv'
<1> USE DEF Opened, InLoop, InFound, BeforeLoop, Constructing, Adding
<1>p. RunType /\ local \in Locals /\ HandleType
  BY TypeParts DEF StateInv, RunType
<1>1. PICK d \in Services : d = local.device
  BY <1>p DEF RunType, Locals, MatchDevice, SetConfiguration, QueryDevice, OpenDevice,
              CreateInterfaceIterator
<1>2. /\ UNCHANGED <<services, adds, refs, open, local>>
      /\ Fails(d) \/ Succeeds(d)
      /\ \/ pc = "matchDevice" /\ pc' \in {"openDevice", "nextDevice"}
         \/ pc = "setConfiguration" /\ pc' \in {"createIterator", "closeDevice"}
         \/ pc = "queryDevice" /\ pc' = "nextDevice"
         \/ pc = "openDevice" /\ pc' = "nextDevice"
         \/ pc = "createIterator" /\ pc' = "closeDevice"
  BY <1>1 DEF MatchDevice, SetConfiguration, QueryDevice, OpenDevice,
              CreateInterfaceIterator
<1>3. LocalsInv /\ DeviceHeld(d) /\ ~local.keepOpen /\ local.index = 0
      /\ \A i \in Interfaces : InterfaceLooked(d, i)
  BY <1>1, <1>2 DEF RefInv, AddingInv, LocalsInv, InterfaceHeld, StateInv, Places
<1>4. LocalsInv'
  BY <1>2, <1>3 DEF LocalsInv
<1>5. DeviceHeld(d)'
  BY <1>2, <1>3 DEF DeviceHeld, LocalsInv
<1>6. \A i \in Interfaces : i \in Nat /\ i > 0
  BY HandlesAssumption DEF Interfaces
<1>7. ASSUME NEW i \in Interfaces PROVE InterfaceHeld(d, i)'
  <2>1. /\ refs[Interface(d, i)] = 0 /\ refs[InterfaceObject(d, i)] = 0
        /\ Interface(d, i) \notin open /\ InterfaceObject(d, i) \notin open
    BY <1>2, <1>3, <1>6 DEF InterfaceLooked
  <2> QED
    BY <1>2, <1>3, <1>6, <2>1 DEF InterfaceHeld, InterfaceLooked, InterfaceLeft
<1> QED
  BY <1>1, <1>2, <1>4, <1>5, <1>7, MovesOn

LEMMA PositiveInterfaces ==
  /\ Interfaces = 1..Len(InterfaceNumber) /\ Len(InterfaceNumber) \in Nat
  /\ \A i \in Interfaces : i \in Nat /\ i > 0 /\ i <= Len(InterfaceNumber)
BY HandlesAssumption DEF Interfaces

(* The service in the locals. *)
LEMMA Adder ==
  ASSUME StateInv, RefInv, pc \in Adding
  PROVE  /\ local.device \in Services /\ services[local.device] # "never"
         /\ local.device \notin adds
         /\ LocalsInv /\ DeviceHeld(local.device)
         /\ \A i \in Interfaces : InterfaceHeld(local.device, i)
         /\ HandleType /\ BusType /\ local \in Locals
         /\ local.keepOpen => pc \in {"closeDevice", "nextDevice"}
<1>1. RunType /\ HandleType /\ BusType
  BY TypeParts DEF StateInv
<1>2. local.device \in Services
  BY <1>1 DEF RunType, Locals
<1> QED
  BY <1>1, <1>2 DEF RefInv, AddingInv, StateInv, Places, RunType

(* The rest of OthersAlone for a step that goes on with the service. *)
LEMMA GoesOn ==
  ASSUME StateInv, RefInv, pc \in Adding, UNCHANGED <<services, adds>>,
         NEW d, d = local.device, local'.device = d,
         \A s \in Services : s # d => life'[s] = life[s],
         Fails(d) \/ Succeeds(d) \/ UNCHANGED faults,
         \A h \in Handles : h[1] # d => refs'[h] = refs[h] /\ (h \in open' <=> h \in open),
         LocalsInv', DeviceHeld(d)', \A i \in Interfaces : InterfaceHeld(d, i)'
  PROVE  RefInv'
<1>1. d \in Services /\ services[d] # "never" /\ d \notin adds
  BY Adder
<1>2. AddingInv'
  BY DEF AddingInv
<1> QED
  BY <1>1, <1>2, OthersAlone

LEMMA QueryDeviceRefs ==
  ASSUME StateInv, RefInv, UNCHANGED life, QueryDevice
  PROVE  RefInv'
<1> USE DEF Opened, InLoop, InFound, BeforeLoop, Constructing, Adding
<1>1. CASE pc' = "nextDevice"
  BY <1>1, StepBeforeLoop
<1>2. CASE pc' # "nextDevice"
  <2>1. PICK d \in Services : d = local.device
    BY Adder DEF QueryDevice
  <2>2. /\ pc = "queryDevice" /\ pc' = "matchDevice" /\ Succeeds(d)
        /\ local' = [local EXCEPT !.deviceIntf = TRUE] /\ Retain(Device(d))
        /\ UNCHANGED <<services, adds, open>>
    BY <1>2, <2>1 DEF QueryDevice
  <2>3. /\ local'.device = d /\ local'.deviceIntf = TRUE
        /\ UNCHANGED <<local.iterator, local.index, local.interface, local.keepOpen>>
    BY <2>1, <2>2, Adder DEF Locals
  <2>4. /\ LocalsInv /\ DeviceHeld(d) /\ ~local.keepOpen /\ local.index = 0
        /\ \A i \in Interfaces : InterfaceLooked(d, i)
    BY <2>1, <2>2, Adder DEF LocalsInv, InterfaceHeld
  <2>5. /\ refs'[Device(d)] = refs[Device(d)] + 1
        /\ \A h \in Handles : h # Device(d) => refs'[h] = refs[h]
    BY <2>2, Adder, RetainStep, HandlesKnown
  <2>6. LocalsInv'
    BY <2>2, <2>3, <2>4 DEF LocalsInv
  <2>7. DeviceHeld(d)'
    BY <2>2, <2>3, <2>4, <2>5, OwnHandles DEF DeviceHeld, LocalsInv
  <2>8. ASSUME NEW i \in Interfaces PROVE InterfaceHeld(d, i)'
    <3>1. /\ refs'[InterfaceObject(d, i)] = refs[InterfaceObject(d, i)]
          /\ refs'[Interface(d, i)] = refs[Interface(d, i)]
      BY <2>5, Apart, OwnHandles
    <3>2. /\ refs[Interface(d, i)] = 0 /\ refs[InterfaceObject(d, i)] = 0
          /\ Interface(d, i) \notin open /\ InterfaceObject(d, i) \notin open
      BY <2>2, <2>4, PositiveInterfaces DEF InterfaceLooked
    <3> QED
      BY <2>2, <2>3, <2>4, <3>1, <3>2, PositiveInterfaces DEF InterfaceHeld, InterfaceLooked
  <2>9. \A h \in Handles : h[1] # d => refs'[h] = refs[h] /\ (h \in open' <=> h \in open)
    BY <2>2, <2>5, OwnHandles
  <2> QED
    BY <2>1, <2>2, <2>3, <2>6, <2>7, <2>8, <2>9, GoesOn
<1> QED
  BY <1>1, <1>2

LEMMA OpenDeviceRefs ==
  ASSUME StateInv, RefInv, UNCHANGED life, OpenDevice
  PROVE  RefInv'
<1> USE DEF Opened, InLoop, InFound, BeforeLoop, Constructing, Adding
<1>1. CASE pc' = "nextDevice"
  BY <1>1, StepBeforeLoop
<1>2. CASE pc' # "nextDevice"
  <2>1. PICK d \in Services : d = local.device
    BY Adder DEF OpenDevice
  <2>2. /\ pc = "openDevice" /\ pc' = "setConfiguration" /\ Succeeds(d)
        /\ open' = open \cup {Device(d)}
        /\ UNCHANGED <<services, adds, local, refs>>
    BY <1>2, <2>1 DEF OpenDevice
  <2>4. /\ LocalsInv /\ DeviceHeld(d) /\ ~local.keepOpen /\ local.index = 0
        /\ \A i \in Interfaces : InterfaceLooked(d, i)
    BY <2>1, <2>2, Adder DEF LocalsInv, InterfaceHeld
  <2>6. LocalsInv'
    BY <2>2, <2>4 DEF LocalsInv
  <2>7. DeviceHeld(d)'
    BY <2>2, <2>4, OwnHandles DEF DeviceHeld, LocalsInv
  <2>8. ASSUME NEW i \in Interfaces PROVE InterfaceHeld(d, i)'
    <3>1. /\ InterfaceObject(d, i) \in open' <=> InterfaceObject(d, i) \in open
          /\ Interface(d, i) \in open' <=> Interface(d, i) \in open
      BY <2>2, Apart
    <3>2. /\ refs[Interface(d, i)] = 0 /\ refs[InterfaceObject(d, i)] = 0
          /\ Interface(d, i) \notin open /\ InterfaceObject(d, i) \notin open
      BY <2>2, <2>4, PositiveInterfaces DEF InterfaceLooked
    <3> QED
      BY <2>2, <2>4, <3>1, <3>2, PositiveInterfaces DEF InterfaceHeld, InterfaceLooked
  <2>9. \A h \in Handles : h[1] # d => refs'[h] = refs[h] /\ (h \in open' <=> h \in open)
    BY <2>2, OwnHandles
  <2> QED
    BY <2>1, <2>2, <2>6, <2>7, <2>8, <2>9, GoesOn
<1> QED
  BY <1>1, <1>2

LEMMA CreatePlugInRefs ==
  ASSUME StateInv, RefInv, UNCHANGED life, CreatePlugIn
  PROVE  RefInv'
<1> USE DEF Opened, InLoop, InFound, BeforeLoop, Constructing, Adding
<1>1. PICK d \in Services : d = local.device
  BY Adder DEF CreatePlugIn
<1>2. /\ LocalsInv /\ DeviceHeld(d) /\ ~local.keepOpen /\ local.index = 0
      /\ \A i \in Interfaces : InterfaceLooked(d, i)
      /\ services[d] # "never" /\ d \notin adds
  BY <1>1, Adder DEF LocalsInv, InterfaceHeld, CreatePlugIn
<1>3. ASSUME NEW i \in Interfaces
      PROVE  /\ refs[Interface(d, i)] = 0 /\ refs[InterfaceObject(d, i)] = 0
             /\ Interface(d, i) \notin open /\ InterfaceObject(d, i) \notin open
  BY <1>2, PositiveInterfaces DEF InterfaceLooked, CreatePlugIn
<1>4. CASE pc' = "queryDevice"
  <2>1. /\ pc = "createPlugIn" /\ UNCHANGED <<services, adds, local, refs, open, faults>>
    BY <1>1, <1>4 DEF CreatePlugIn, Succeeds
  <2>2. LocalsInv' /\ DeviceHeld(d)'
    BY <1>2, <1>4, <2>1 DEF LocalsInv, DeviceHeld
  <2>3. \A i \in Interfaces : InterfaceHeld(d, i)'
    BY <1>2, <1>3, <1>4, <2>1, PositiveInterfaces DEF InterfaceHeld, InterfaceLooked
  <2> QED
    BY <1>1, <2>1, <2>2, <2>3, GoesOn
<1>5. CASE pc' # "queryDevice"
  <2>1. /\ pc = "createPlugIn" /\ pc' = "adds" /\ Fails(d) /\ Release({Object(d)})
        /\ local' = NoLocals /\ UNCHANGED <<services, adds, open>>
    BY <1>1, <1>5 DEF CreatePlugIn
  <2>2. /\ refs'[Object(d)] = refs[Object(d)] - 1
        /\ \A h \in Handles : h # Object(d) => refs'[h] = refs[h]
    BY <2>1, Adder, ReleaseStep, HandlesKnown
  <2>3. ~Held(d)'
    BY <1>1, <1>2, <2>1 DEF Held, StateInv, Places
  <2>4. Settled(d)'
    <3>1. ASSUME NEW i \in Interfaces
          PROVE  /\ InterfaceLeft(d, i)'
                 /\ Interface(d, i) \notin open'
      <4>1. /\ refs'[InterfaceObject(d, i)] = 0 /\ refs'[Interface(d, i)] = 0
        BY <1>3, <2>2, Apart, OwnHandles
      <4> QED
        BY <1>3, <2>1, <4>1 DEF InterfaceLeft
    <3>2. /\ refs'[Object(d)] = 0 /\ refs'[Iterator(d)] = 0 /\ refs'[Device(d)] = 0
          /\ Object(d) \notin open' /\ Iterator(d) \notin open' /\ Device(d) \notin open'
      BY <1>2, <2>1, <2>2, OwnHandles DEF DeviceHeld, LocalsInv
    <3> QED
      BY <2>3, <3>1, <3>2 DEF Settled
  <2>5. \A h \in Handles : h[1] # d => refs'[h] = refs[h] /\ (h \in open' <=> h \in open)
    BY <2>1, <2>2, OwnHandles
  <2>6. local'.device = NoService /\ pc' \notin Adding /\ adds' \subseteq adds \ {d}
    BY <1>2, <2>1 DEF NoLocals
  <2> QED
    BY <1>1, <1>2, <2>1, <2>4, <2>5, <2>6, OthersAlone
<1> QED
  BY <1>4, <1>5

LEMMA CreateIteratorRefs ==
  ASSUME StateInv, RefInv, UNCHANGED life, CreateInterfaceIterator
  PROVE  RefInv'
<1> USE DEF Opened, InLoop, InFound, BeforeLoop, Constructing, Adding
<1>1. CASE pc' = "closeDevice"
  BY <1>1, StepBeforeLoop
<1>2. CASE pc' # "closeDevice"
  <2>1. PICK d \in Services : d = local.device
    BY Adder DEF CreateInterfaceIterator
  <2>2. /\ pc = "createIterator" /\ pc' = "interfaces" /\ Succeeds(d)
        /\ local' = [local EXCEPT !.iterator = TRUE] /\ Retain(Iterator(d))
        /\ UNCHANGED <<services, adds, open>>
    BY <1>2, <2>1 DEF CreateInterfaceIterator
  <2>3. /\ local'.device = d /\ local'.iterator = TRUE
        /\ UNCHANGED <<local.deviceIntf, local.index, local.interface, local.keepOpen>>
    BY <2>1, <2>2, Adder DEF Locals
  <2>4. /\ LocalsInv /\ DeviceHeld(d) /\ ~local.keepOpen /\ local.index = 0
        /\ \A i \in Interfaces : InterfaceLooked(d, i)
    BY <2>1, <2>2, Adder DEF LocalsInv, InterfaceHeld
  <2>5. /\ refs'[Iterator(d)] = refs[Iterator(d)] + 1
        /\ \A h \in Handles : h # Iterator(d) => refs'[h] = refs[h]
    BY <2>2, Adder, RetainStep, HandlesKnown
  <2>6. LocalsInv'
    BY <2>2, <2>3, <2>4 DEF LocalsInv
  <2>7. DeviceHeld(d)'
    BY <2>2, <2>3, <2>4, <2>5, OwnHandles DEF DeviceHeld, LocalsInv
  <2>8. ASSUME NEW i \in Interfaces PROVE InterfaceHeld(d, i)'
    <3>1. /\ refs'[InterfaceObject(d, i)] = refs[InterfaceObject(d, i)]
          /\ refs'[Interface(d, i)] = refs[Interface(d, i)]
      BY <2>5, Apart, OwnHandles
    <3>2. /\ refs[Interface(d, i)] = 0 /\ refs[InterfaceObject(d, i)] = 0
          /\ Interface(d, i) \notin open /\ InterfaceObject(d, i) \notin open
      BY <2>2, <2>4, PositiveInterfaces DEF InterfaceLooked
    <3> QED
      BY <2>2, <2>3, <2>4, <3>1, <3>2, PositiveInterfaces DEF InterfaceHeld, InterfaceLooked
  <2>9. \A h \in Handles : h[1] # d => refs'[h] = refs[h] /\ (h \in open' <=> h \in open)
    BY <2>2, <2>5, OwnHandles
  <2> QED
    BY <2>1, <2>2, <2>3, <2>6, <2>7, <2>8, <2>9, GoesOn
<1> QED
  BY <1>1, <1>2

(* The interface loop. *)
LEMMA NextInterfaceRefs ==
  ASSUME StateInv, RefInv, UNCHANGED life, NextInterface
  PROVE  RefInv'
<1> USE DEF Opened, InLoop, InFound, BeforeLoop, Constructing, Adding
<1>1. PICK d \in Services : d = local.device
  BY Adder DEF NextInterface
<1>2. /\ LocalsInv /\ DeviceHeld(d) /\ ~local.keepOpen /\ pc = "interfaces"
      /\ \A i \in Interfaces : InterfaceLooked(d, i)
      /\ services[d] # "never" /\ d \notin adds /\ local \in Locals
      /\ UNCHANGED <<services, adds, open, faults>>
      /\ local.index \in Nat /\ local.interface \in Nat
  BY <1>1, Adder, PositiveInterfaces DEF LocalsInv, InterfaceHeld, NextInterface, Locals
<1>3. CASE pc' = "closeDevice"
  <2>1. UNCHANGED <<local, refs>>
    BY <1>3 DEF NextInterface
  <2>2. LocalsInv' /\ DeviceHeld(d)'
    BY <1>2, <1>3, <2>1 DEF LocalsInv, DeviceHeld
  <2>3. ASSUME NEW i \in Interfaces PROVE InterfaceHeld(d, i)'
    <3>1. InterfaceLooked(d, i) /\ i \in Nat /\ i <= Len(InterfaceNumber)
      BY <1>2, PositiveInterfaces
    <3>2. /\ refs[InterfaceObject(d, i)] = 0 /\ refs[Interface(d, i)] <= 0
          /\ refs[Interface(d, i)] < 0 => i < local.index /\ Excuse(d)
          /\ InterfaceObject(d, i) \notin open /\ Interface(d, i) \notin open
      BY <1>2, <3>1 DEF InterfaceLooked
    <3>3. local.index <= Len(InterfaceNumber)
      BY <1>2, PositiveInterfaces DEF Locals
    <3>4. i < local.index => i < Len(InterfaceNumber)
      BY <1>2, <3>1, <3>3, PositiveInterfaces
    <3>5. Excuse(d)' <=> Excuse(d)
      BY <1>2 DEF Excuse
    <3> QED
      BY <1>2, <1>3, <2>1, <3>2, <3>4, <3>5 DEF InterfaceHeld, InterfaceLeft
  <2> QED
    BY <1>1, <1>2, <2>1, <2>2, <2>3, GoesOn
<1>4. CASE pc' # "closeDevice"
  <2>0. PICK n \in Nat : n = local.index + 1
    BY <1>2
  <2>1. /\ pc' = "interfacePlugIn" /\ n \in Interfaces
        /\ local' = [local EXCEPT !.index = n]
        /\ Retain(InterfaceObject(d, n))
    BY <1>1, <1>2, <1>4, <2>0, PositiveInterfaces DEF NextInterface
  <2>2. /\ local'.device = d /\ local'.index = n
        /\ UNCHANGED <<local.deviceIntf, local.iterator, local.interface, local.keepOpen>>
    BY <1>1, <1>2, <2>0, <2>1 DEF Locals
  <2>3. /\ refs'[InterfaceObject(d, n)] = refs[InterfaceObject(d, n)] + 1
        /\ \A h \in Handles : h # InterfaceObject(d, n) => refs'[h] = refs[h]
    <3>1. HandleType
      BY <1>2, Adder
    <3>2. InterfaceObject(d, n) \in Handles
      BY <1>1, <2>1, HandlesKnown
    <3>3. Retain(InterfaceObject(d, n))
      BY <2>1
    <3> QED
      BY <3>1, <3>2, <3>3, RetainStep
  <2>4. LocalsInv'
    BY <1>2, <2>0, <2>1, <2>2 DEF LocalsInv
  <2>5. DeviceHeld(d)'
    BY <1>2, <2>1, <2>2, <2>3, Apart, OwnHandles DEF DeviceHeld
  <2>6. ASSUME NEW i \in Interfaces PROVE InterfaceHeld(d, i)'
    <3>1. InterfaceLooked(d, i) /\ i \in Nat
      BY <1>2, PositiveInterfaces
    <3>2. refs'[Interface(d, i)] = refs[Interface(d, i)]
      BY <2>1, <2>3, Apart, OwnHandles
    <3>3. refs'[InterfaceObject(d, i)] = IF i = n THEN 1 ELSE 0
      <4>1. refs[InterfaceObject(d, i)] = 0
        BY <1>2, <2>0, <3>1 DEF InterfaceLooked
      <4> QED
        BY <2>1, <2>3, <4>1, Apart, OwnHandles
    <3>4. Excuse(d)' <=> Excuse(d)
      BY <1>2 DEF Excuse
    <3>5. /\ i > n => i > local.index
          /\ i = n => i > local.index
          /\ i < n => i <= local.index
      BY <1>2, <2>0, <3>1
    <3>6. /\ i > local.index => refs[Interface(d, i)] = 0
          /\ i = local.index => refs[Interface(d, i)] = 0
          /\ i < local.index => /\ refs[Interface(d, i)] <= 0
                                /\ refs[Interface(d, i)] < 0 => Excuse(d)
          /\ Interface(d, i) \notin open /\ InterfaceObject(d, i) \notin open
      BY <1>2, <3>1 DEF InterfaceLooked
    <3> QED
      BY <1>2, <2>1, <2>2, <3>1, <3>2, <3>3, <3>4, <3>5, <3>6 DEF InterfaceHeld, InterfaceLooked
  <2>7. \A h \in Handles : h[1] # d => refs'[h] = refs[h] /\ (h \in open' <=> h \in open)
    BY <1>2, <2>1, <2>3, OwnHandles
  <2> QED
    BY <1>1, <1>2, <2>1, <2>2, <2>4, <2>5, <2>6, <2>7, GoesOn
<1> QED
  BY <1>3, <1>4

(* In the loop. *)
LEMMA Looker ==
  ASSUME StateInv, RefInv, pc \in InLoop, NEW d, d = local.device
  PROVE  /\ d \in Services /\ services[d] # "never" /\ d \notin adds
         /\ LocalsInv /\ DeviceHeld(d) /\ ~local.keepOpen
         /\ \A i \in Interfaces : InterfaceLooked(d, i)
         /\ HandleType /\ BusType /\ local \in Locals
         /\ local.index \in Nat /\ local.interface \in Nat
         /\ pc # "interfaces" => local.index \in Interfaces
<1> USE DEF Opened, InLoop, InFound, BeforeLoop, Constructing, Adding, Looking
<1>1. pc \in Adding
  OBVIOUS
<1>2. local.index \in Nat /\ local.interface \in Nat
  BY <1>1, Adder, PositiveInterfaces DEF Locals
<1>3. \A i \in Interfaces : InterfaceLooked(d, i)
  BY <1>1, Adder DEF InterfaceHeld
<1> QED
  BY <1>1, <1>2, <1>3, Adder DEF StateInv, Indexed

LEMMA InterfacePlugInRefs ==
  ASSUME StateInv, RefInv, UNCHANGED life, InterfacePlugIn
  PROVE  RefInv'
<1> USE DEF Opened, InLoop, InFound, BeforeLoop, Constructing, Adding
<1>1. PICK d : d = local.device
  OBVIOUS
<1>2. /\ pc = "interfacePlugIn" /\ pc' \in {"queryInterface", "nextInterface"}
      /\ UNCHANGED <<services, adds, local, refs, open>>
      /\ Succeeds(d) \/ Fails(d)
      /\ pc' = "nextInterface" => Fails(d)
  BY <1>1 DEF InterfacePlugIn
<1>3. /\ d \in Services /\ LocalsInv /\ DeviceHeld(d) /\ ~local.keepOpen
      /\ \A i \in Interfaces : InterfaceLooked(d, i)
      /\ local.index \in Nat /\ local.interface \in Nat
      /\ services[d] # "never" /\ BusType
  BY <1>1, <1>2, Looker
<1>4. /\ Excuse(d) => Excuse(d)'
      /\ pc' = "nextInterface" => Excuse(d)'
  BY <1>2, <1>3, ExcuseStays
<1>5. LocalsInv'
  BY <1>1, <1>2, <1>3, <1>4 DEF LocalsInv
<1>6. DeviceHeld(d)'
  BY <1>2, <1>3 DEF DeviceHeld
<1>7. ASSUME NEW i \in Interfaces PROVE InterfaceHeld(d, i)'
  <2>1. InterfaceLooked(d, i)
    BY <1>3
  <2>2. local.interface < local.index
    BY <1>2, <1>3 DEF LocalsInv
  <2>3. InterfaceLooked(d, i)'
    BY <1>2, <1>3, <1>4, <2>1, <2>2, PositiveInterfaces DEF InterfaceLooked
  <2> QED
    BY <1>2, <2>3 DEF InterfaceHeld
<1> QED
  BY <1>1, <1>2, <1>5, <1>6, <1>7, MovesOn

LEMMA QueryInterfaceRefs ==
  ASSUME StateInv, RefInv, UNCHANGED life, QueryInterface
  PROVE  RefInv'
<1> USE DEF Opened, InLoop, InFound, BeforeLoop, Constructing, Adding
<1>1. PICK d : d = local.device
  OBVIOUS
<1>2. PICK n : n = local.index
  OBVIOUS
<1>3. /\ pc = "queryInterface" /\ UNCHANGED <<services, adds, open>>
      /\ Succeeds(d) \/ Fails(d)
  BY <1>1 DEF QueryInterface
<1>4. /\ d \in Services /\ LocalsInv /\ DeviceHeld(d) /\ ~local.keepOpen
      /\ \A i \in Interfaces : InterfaceLooked(d, i)
      /\ local.index \in Nat /\ local.interface \in Nat
      /\ services[d] # "never" /\ BusType /\ HandleType /\ local \in Locals
      /\ n \in Interfaces /\ n > 0
  BY <1>1, <1>2, <1>3, Looker, PositiveInterfaces
<1>5. Excuse(d) => Excuse(d)'
  BY <1>3, <1>4, ExcuseStays
<1>6. CASE pc' = "interfaceOpen"
  <2>1. /\ local' = [local EXCEPT !.interface = n] /\ Retain(Interface(d, n))
    BY <1>1, <1>2, <1>6 DEF QueryInterface
  <2>2. /\ local'.device = d /\ local'.index = n /\ local'.interface = n
        /\ UNCHANGED <<local.deviceIntf, local.iterator, local.keepOpen>>
    BY <1>1, <1>2, <1>4, <2>1 DEF Locals
  <2>3. /\ refs'[Interface(d, n)] = refs[Interface(d, n)] + 1
        /\ \A h \in Handles : h # Interface(d, n) => refs'[h] = refs[h]
    <3>1. Interface(d, n) \in Handles
      BY <1>4, HandlesKnown
    <3> QED
      BY <1>4, <2>1, <3>1, RetainStep
  <2>4. LocalsInv'
    BY <1>2, <1>3, <1>4, <1>6, <2>2 DEF LocalsInv
  <2>5. DeviceHeld(d)'
    BY <1>3, <1>4, <1>6, <2>2, <2>3, Apart, OwnHandles DEF DeviceHeld
  <2>6. ASSUME NEW i \in Interfaces PROVE InterfaceHeld(d, i)'
    <3>1. InterfaceLooked(d, i) /\ local.interface < n
      BY <1>2, <1>3, <1>4 DEF LocalsInv
    <3>2. refs'[InterfaceObject(d, i)] = refs[InterfaceObject(d, i)]
      BY <1>4, <2>3, Apart, OwnHandles
    <3>3. i # n => refs'[Interface(d, i)] = refs[Interface(d, i)]
      BY <1>4, <2>3, Apart, OwnHandles
    <3>4. refs'[Interface(d, n)] = 1
      <4>1. refs[Interface(d, n)] = 0
        BY <1>2, <1>3, <1>4, <3>1 DEF InterfaceLooked
      <4> QED
        BY <2>3, <4>1
    <3>5. InterfaceLooked(d, i)'
      BY <1>2, <1>3, <1>4, <1>5, <1>6, <2>2, <3>1, <3>2, <3>3, <3>4, PositiveInterfaces
         DEF InterfaceLooked
    <3> QED
      BY <1>6, <3>5 DEF InterfaceHeld
  <2>7. \A h \in Handles : h[1] # d => refs'[h] = refs[h] /\ (h \in open' <=> h \in open)
    BY <1>3, <1>4, <2>3, OwnHandles
  <2> QED
    BY <1>1, <1>3, <2>2, <2>4, <2>5, <2>6, <2>7, GoesOn
<1>7. CASE pc' # "interfaceOpen"
  <2>1. /\ pc' = "nextInterface" /\ local' = [local EXCEPT !.interface = 0]
        /\ UNCHANGED refs
    BY <1>7 DEF QueryInterface
  <2>2. /\ local'.device = d /\ local'.index = n /\ local'.interface = 0
        /\ UNCHANGED <<local.deviceIntf, local.iterator, local.keepOpen>>
    BY <1>1, <1>2, <1>4, <2>1 DEF Locals
  <2>3. LocalsInv'
    BY <1>2, <1>3, <1>4, <2>1, <2>2 DEF LocalsInv
  <2>4. DeviceHeld(d)'
    BY <1>3, <1>4, <2>1, <2>2 DEF DeviceHeld
  <2>5. ASSUME NEW i \in Interfaces PROVE InterfaceHeld(d, i)'
    <3>1. InterfaceLooked(d, i)
      BY <1>4
    <3>2. InterfaceLooked(d, i)'
      BY <1>2, <1>3, <1>4, <1>5, <2>1, <2>2, <3>1, PositiveInterfaces DEF InterfaceLooked
    <3> QED
      BY <2>1, <3>2 DEF InterfaceHeld
  <2> QED
    BY <1>1, <1>3, <2>1, <2>2, <2>3, <2>4, <2>5, MovesOn
<1> QED
  BY <1>6, <1>7

LEMMA InterfaceOpenRefs ==
  ASSUME StateInv, RefInv, UNCHANGED life, InterfaceOpen
  PROVE  RefInv'
<1> USE DEF Opened, InLoop, InFound, BeforeLoop, Constructing, Adding
<1>1. PICK d : d = local.device
  OBVIOUS
<1>2. PICK n : n = local.index
  OBVIOUS
<1>3. /\ pc = "interfaceOpen" /\ UNCHANGED <<services, adds, local, refs>>
      /\ Succeeds(d) \/ Fails(d)
  BY <1>1 DEF InterfaceOpen
<1>4. /\ d \in Services /\ LocalsInv /\ DeviceHeld(d) /\ ~local.keepOpen
      /\ \A i \in Interfaces : InterfaceLooked(d, i)
      /\ local.index \in Nat /\ local.interface \in Nat /\ local.interface = n
      /\ services[d] # "never" /\ BusType
      /\ n \in Interfaces /\ n > 0
  BY <1>1, <1>2, <1>3, Looker, PositiveInterfaces DEF LocalsInv
<1>5. Excuse(d) => Excuse(d)'
  BY <1>3, <1>4, ExcuseStays
<1>6. CASE pc' = "found"
  <2>1. open' = open \cup {Interface(d, n)} /\ Desired(n)
    BY <1>1, <1>2, <1>6 DEF InterfaceOpen, Desired
  <2>4. LocalsInv'
    BY <1>2, <1>3, <1>4, <1>6, <2>1 DEF LocalsInv
  <2>5. DeviceHeld(d)'
    BY <1>3, <1>4, <1>6, <2>1, Apart DEF DeviceHeld
  <2>6. ASSUME NEW i \in Interfaces PROVE InterfaceHeld(d, i)'
    <3>1. InterfaceLooked(d, i)
      BY <1>4
    <3>2. /\ InterfaceObject(d, i) \in open' <=> InterfaceObject(d, i) \in open
          /\ Interface(d, i) \in open' <=> Interface(d, i) \in open \/ i = n
      BY <1>4, <2>1, Apart
    <3>5. InterfaceLooked(d, i)'
      BY <1>2, <1>3, <1>4, <1>5, <1>6, <3>1, <3>2 DEF InterfaceLooked
    <3> QED
      BY <1>6, <3>5 DEF InterfaceHeld
  <2>7. \A h \in Handles : h[1] # d => refs'[h] = refs[h] /\ (h \in open' <=> h \in open)
    BY <1>3, <1>4, <2>1, OwnHandles
  <2> QED
    BY <1>1, <1>3, <2>4, <2>5, <2>6, <2>7, GoesOn
<1>7. CASE pc' # "found"
  <2>1. pc' = "nextInterface" /\ UNCHANGED open
    BY <1>7 DEF InterfaceOpen
  <2>3. LocalsInv'
    BY <1>2, <1>3, <1>4, <2>1 DEF LocalsInv
  <2>4. DeviceHeld(d)'
    BY <1>3, <1>4, <2>1 DEF DeviceHeld
  <2>5. ASSUME NEW i \in Interfaces PROVE InterfaceHeld(d, i)'
    <3>1. InterfaceLooked(d, i)
      BY <1>4
    <3>2. InterfaceLooked(d, i)'
      BY <1>2, <1>3, <1>4, <1>5, <2>1, <3>1 DEF InterfaceLooked
    <3> QED
      BY <2>1, <3>2 DEF InterfaceHeld
  <2> QED
    BY <1>1, <1>3, <2>1, <2>3, <2>4, <2>5, MovesOn
<1> QED
  BY <1>6, <1>7

LEMMA InterfaceDoneRefs ==
  ASSUME StateInv, RefInv, UNCHANGED life, InterfaceDone
  PROVE  RefInv'
<1> USE DEF Opened, InLoop, InFound, BeforeLoop, Constructing, Adding
<1>1. PICK d : d = local.device
  OBVIOUS
<1>2. PICK n : n = local.index
  OBVIOUS
<1>3. PICK k : k = local.interface
  OBVIOUS
<1>4. PICK hs : hs = {InterfaceObject(d, n)} \cup If(k # 0, {Interface(d, k)})
  OBVIOUS
<1>5. /\ pc = "nextInterface" /\ pc' = "interfaces" /\ Release(hs)
      /\ UNCHANGED <<services, adds, local, open, faults>>
  BY <1>1, <1>2, <1>3, <1>4 DEF InterfaceDone
<1>6. /\ d \in Services /\ LocalsInv /\ DeviceHeld(d) /\ ~local.keepOpen
      /\ \A i \in Interfaces : InterfaceLooked(d, i)
      /\ n \in Nat /\ k \in Nat /\ HandleType
      /\ n \in Interfaces /\ n > 0 /\ k <= n
  BY <1>1, <1>2, <1>3, <1>5, Looker, PositiveInterfaces DEF LocalsInv
<1>7. \A h \in Handles : /\ h \in hs => refs'[h] = refs[h] - 1
                         /\ h \notin hs => refs'[h] = refs[h]
  BY <1>5, <1>6, ReleaseStep
<1>8. /\ Object(d) \notin hs /\ Device(d) \notin hs /\ Iterator(d) \notin hs
      /\ \A h \in hs : h[1] = d
      /\ \A i \in Interfaces : /\ InterfaceObject(d, i) \in hs <=> i = n
                               /\ Interface(d, i) \in hs <=> i = k
  <2>1. \A i \in Interfaces : i # 0
    BY PositiveInterfaces
  <2>2. CASE k = 0
    BY <1>4, <2>1, <2>2 DEF If, Object, Device, Iterator, InterfaceObject, Interface
  <2>3. CASE k # 0
    BY <1>4, <2>1, <2>3 DEF If, Object, Device, Iterator, InterfaceObject, Interface
  <2> QED
    BY <2>2, <2>3
<1>9. Excuse(d)' <=> Excuse(d)
  BY <1>5 DEF Excuse
<1>10. LocalsInv'
  BY <1>5, <1>6 DEF LocalsInv
<1>11. DeviceHeld(d)'
  BY <1>5, <1>6, <1>7, <1>8, OwnHandles DEF DeviceHeld
<1>12. ASSUME NEW i \in Interfaces PROVE InterfaceHeld(d, i)'
  <2>1. InterfaceLooked(d, i) /\ InterfaceObject(d, i) \in Handles /\ Interface(d, i) \in Handles
        /\ i \in Nat
    BY <1>6, HandlesKnown, PositiveInterfaces
  <2>2. refs'[InterfaceObject(d, i)] = 0
    <3>1. refs[InterfaceObject(d, i)] = IF i = n THEN 1 ELSE 0
      BY <1>2, <1>5, <2>1 DEF InterfaceLooked
    <3> QED
      BY <1>7, <1>8, <2>1, <3>1
  <2>3. i = n => refs'[Interface(d, i)] = 0
    <3>1. i = n => refs[Interface(d, i)] = IF i = k THEN 1 ELSE 0
      BY <1>2, <1>3, <1>5, <2>1 DEF InterfaceLooked
    <3> QED
      BY <1>7, <1>8, <2>1, <3>1
  <2>4. i > n => refs'[Interface(d, i)] = 0
    <3>1. i > n => refs[Interface(d, i)] = 0
      BY <1>2, <2>1 DEF InterfaceLooked
    <3> QED
      BY <1>6, <1>7, <1>8, <2>1, <3>1
  <2>5. i < n => /\ refs'[Interface(d, i)] <= 0
                 /\ refs'[Interface(d, i)] < 0 => Excuse(d)
    <3>1. i < n => /\ refs[Interface(d, i)] <= 0
                   /\ refs[Interface(d, i)] < 0 => Excuse(d)
      BY <1>2, <2>1 DEF InterfaceLooked
    <3>2. i < n /\ i = k => Excuse(d)
      BY <1>1, <1>2, <1>3, <1>5, <1>6, <2>1, PositiveInterfaces DEF LocalsInv
    <3>3. refs[Interface(d, i)] \in Int
      BY <1>6, <2>1 DEF HandleType
    <3> QED
      BY <1>7, <1>8, <2>1, <3>1, <3>2, <3>3
  <2>6. /\ InterfaceObject(d, i) \notin open /\ Interface(d, i) \notin open
    BY <1>5, <2>1 DEF InterfaceLooked
  <2>7. InterfaceLooked(d, i)'
    BY <1>2, <1>5, <1>6, <1>9, <2>1, <2>2, <2>3, <2>4, <2>5, <2>6 DEF InterfaceLooked
  <2> QED
    BY <1>5, <2>7 DEF InterfaceHeld
<1>13. \A h \in Handles : h[1] # d => refs'[h] = refs[h] /\ (h \in open' <=> h \in open)
  BY <1>5, <1>7, <1>8
<1> QED
  BY <1>1, <1>5, <1>10, <1>11, <1>12, <1>13, GoesOn

LEMMA CloseDeviceRefs ==
  ASSUME StateInv, RefInv, UNCHANGED life, CloseDevice
  PROVE  RefInv'
<1> USE DEF Opened, InLoop, InFound, BeforeLoop, Constructing, Adding
<1>1. PICK d : d = local.device
  OBVIOUS
<1>2. PICK hs : hs = If(local.iterator, {Iterator(d)})
  OBVIOUS
<1>3. /\ pc = "closeDevice" /\ pc' = "nextDevice" /\ Release(hs)
      /\ open' = IF local.keepOpen THEN open ELSE open \ {Device(d)}
      /\ UNCHANGED <<services, adds, local, faults>>
  BY <1>1, <1>2 DEF CloseDevice
<1>4. /\ d \in Services /\ LocalsInv /\ DeviceHeld(d) /\ HandleType
      /\ \A i \in Interfaces : InterfaceHeld(d, i)
  BY <1>1, <1>3, Adder
<1>5. \A h \in Handles : /\ h \in hs => refs'[h] = refs[h] - 1
                         /\ h \notin hs => refs'[h] = refs[h]
  BY <1>3, <1>4, ReleaseStep
<1>6. \A h : h \in hs <=> local.iterator /\ h = Iterator(d)
  BY <1>2 DEF If
<1>7. LocalsInv'
  BY <1>3, <1>4 DEF LocalsInv
<1>8. DeviceHeld(d)'
  <2>1. refs'[Iterator(d)] = 0
    BY <1>3, <1>4, <1>5, <1>6, OwnHandles DEF DeviceHeld
  <2>2. /\ refs'[Object(d)] = refs[Object(d)] /\ refs'[Device(d)] = refs[Device(d)]
    BY <1>4, <1>5, <1>6, OwnHandles
  <2>3. /\ Object(d) \notin open' /\ Iterator(d) \notin open'
    BY <1>3, <1>4 DEF DeviceHeld
  <2>4. Device(d) \in open' <=> local.keepOpen
    BY <1>3, <1>4 DEF DeviceHeld
  <2> QED
    BY <1>3, <1>4, <2>1, <2>2, <2>3, <2>4 DEF DeviceHeld
<1>9. ASSUME NEW i \in Interfaces PROVE InterfaceHeld(d, i)'
  <2>1. /\ InterfaceLeft(d, i)
        /\ Interface(d, i) \in open <=> local.keepOpen /\ Desired(i)
    BY <1>3, <1>4 DEF InterfaceHeld
  <2>2. /\ refs'[InterfaceObject(d, i)] = refs[InterfaceObject(d, i)]
        /\ refs'[Interface(d, i)] = refs[Interface(d, i)]
    BY <1>4, <1>5, <1>6, Apart, OwnHandles
  <2>3. /\ InterfaceObject(d, i) \in open' <=> InterfaceObject(d, i) \in open
        /\ Interface(d, i) \in open' <=> Interface(d, i) \in open
    BY <1>3, <1>4, Apart
  <2>4. Excuse(d)' <=> Excuse(d)
    BY <1>3 DEF Excuse
  <2>5. InterfaceLeft(d, i)'
    BY <2>1, <2>2, <2>3, <2>4 DEF InterfaceLeft
  <2> QED
    BY <1>3, <2>1, <2>3, <2>5 DEF InterfaceHeld
<1>10. \A h \in Handles : h[1] # d => refs'[h] = refs[h] /\ (h \in open' <=> h \in open)
  BY <1>3, <1>4, <1>5, <1>6, OwnHandles
<1> QED
  BY <1>1, <1>3, <1>7, <1>8, <1>9, <1>10, GoesOn

LEMMA DeviceDoneRefs ==
  ASSUME StateInv, RefInv, UNCHANGED life, DeviceDone
  PROVE  RefInv'
<1> USE DEF Opened, InLoop, InFound, BeforeLoop, Constructing, Adding
<1>1. PICK d : d = local.device
  OBVIOUS
<1>2. PICK hs : hs = {Object(d)} \cup If(local.deviceIntf /\ ~local.keepOpen, {Device(d)})
  OBVIOUS
<1>3. /\ pc = "nextDevice" /\ pc' = "adds" /\ Release(hs) /\ local' = NoLocals
      /\ UNCHANGED <<services, adds, open, faults>>
  BY <1>1, <1>2 DEF DeviceDone
<1>4. /\ d \in Services /\ LocalsInv /\ DeviceHeld(d) /\ HandleType
      /\ \A i \in Interfaces : InterfaceHeld(d, i)
      /\ services[d] # "never" /\ d \notin adds
  BY <1>1, <1>3, Adder
<1>5. \A h \in Handles : /\ h \in hs => refs'[h] = refs[h] - 1
                         /\ h \notin hs => refs'[h] = refs[h]
  BY <1>3, <1>4, ReleaseStep
<1>6. \A h : h \in hs <=> \/ h = Object(d)
                          \/ local.deviceIntf /\ ~local.keepOpen /\ h = Device(d)
  BY <1>2 DEF If
<1>7. Held(d)' <=> local.keepOpen
  BY <1>1, <1>3 DEF Held, StateInv, Places, InList
<1>8. Settled(d)'
  <2>1. /\ refs'[Object(d)] = 0 /\ refs'[Iterator(d)] = 0
        /\ Object(d) \notin open' /\ Iterator(d) \notin open'
    BY <1>3, <1>4, <1>5, <1>6, OwnHandles DEF DeviceHeld
  <2>2. refs'[Device(d)] = IF Held(d)' THEN 1 ELSE 0
    BY <1>4, <1>5, <1>6, <1>7, OwnHandles DEF DeviceHeld, LocalsInv
  <2>3. Device(d) \in open' <=> Held(d)'
    BY <1>3, <1>4, <1>7 DEF DeviceHeld
  <2>4. ASSUME NEW i \in Interfaces
        PROVE  /\ InterfaceLeft(d, i)'
               /\ Interface(d, i) \in open' <=> Held(d)' /\ Desired(i)
    <3>1. /\ InterfaceLeft(d, i)
          /\ Interface(d, i) \in open <=> local.keepOpen /\ Desired(i)
      BY <1>3, <1>4 DEF InterfaceHeld
    <3>2. /\ refs'[InterfaceObject(d, i)] = refs[InterfaceObject(d, i)]
          /\ refs'[Interface(d, i)] = refs[Interface(d, i)]
      BY <1>4, <1>5, <1>6, Apart, OwnHandles
    <3>3. Excuse(d)' <=> Excuse(d)
      BY <1>3 DEF Excuse
    <3>4. InterfaceLeft(d, i)'
      BY <1>3, <3>1, <3>2, <3>3 DEF InterfaceLeft
    <3> QED
      BY <1>3, <1>7, <3>1, <3>4
  <2> QED
    BY <2>1, <2>2, <2>3, <2>4 DEF Settled
<1>9. \A h \in Handles : h[1] # d => refs'[h] = refs[h] /\ (h \in open' <=> h \in open)
  BY <1>3, <1>4, <1>5, <1>6, OwnHandles
<1>10. local'.device = NoService /\ pc' \notin Adding /\ adds' \subseteq adds \ {d}
  BY <1>3, <1>4 DEF NoLocals
<1>11. /\ StateInv /\ RefInv /\ UNCHANGED services /\ d \in Services
       /\ \A s \in Services : s # d => life'[s] = life[s]
       /\ UNCHANGED faults
  BY <1>3, <1>4
<1> QED
  BY <1>1, <1>4, <1>8, <1>9, <1>10, <1>11, OthersAlone

(* The constructor, until it is done. *)
LEMMA StaysFound ==
  ASSUME StateInv, RefInv, pc \in InFound, pc' \in InFound, NEW d, d = local.device,
         UNCHANGED <<services, adds, local, refs, open>>,
         Fails(d) \/ Succeeds(d) \/ UNCHANGED faults,
         \A s \in Services : s # d => life'[s] = life[s]
  PROVE  RefInv'
<1> USE DEF Opened, InLoop, InFound, BeforeLoop, Constructing, Adding
<1>1. /\ d \in Services /\ LocalsInv /\ DeviceHeld(d) /\ ~local.keepOpen
      /\ \A i \in Interfaces : InterfaceLooked(d, i)
      /\ services[d] # "never" /\ BusType
  BY Looker
<1>2. Excuse(d) => Excuse(d)'
  BY <1>1, ExcuseStays
<1>3. LocalsInv'
  BY <1>1 DEF LocalsInv
<1>4. DeviceHeld(d)'
  BY <1>1 DEF DeviceHeld
<1>5. ASSUME NEW i \in Interfaces PROVE InterfaceHeld(d, i)'
  <2>1. InterfaceLooked(d, i)
    BY <1>1
  <2>2. InterfaceLooked(d, i)'
    BY <1>1, <1>2, <2>1 DEF InterfaceLooked
  <2> QED
    BY <2>2 DEF InterfaceHeld
<1> QED
  BY <1>1, <1>3, <1>4, <1>5, GoesOn

(* The return of FoundInterface. *)
LEMMA FoundReturns ==
  ASSUME StateInv, RefInv, pc \in InFound, pc' = "closeDevice", NEW d, d = local.device,
         \/ local' = [local EXCEPT !.keepOpen = TRUE] /\ open' = open
         \/ /\ local' = [local EXCEPT !.keepOpen = FALSE]
            /\ open' = open \ {Interface(d, local.index)},
         UNCHANGED <<services, adds, refs>>,
         Fails(d) \/ Succeeds(d) \/ UNCHANGED faults,
         \A s \in Services : s # d => life'[s] = life[s]
  PROVE  RefInv'
<1> USE DEF Opened, InLoop, InFound, BeforeLoop, Constructing, Adding
<1>1. PICK n : n = local.index
  OBVIOUS
<1>2. /\ d \in Services /\ LocalsInv /\ DeviceHeld(d) /\ ~local.keepOpen
      /\ \A i \in Interfaces : InterfaceLooked(d, i)
      /\ services[d] # "never" /\ BusType /\ local \in Locals
      /\ n \in Interfaces /\ Desired(n) /\ n \in Nat
  BY <1>1, Looker DEF LocalsInv
<1>3. Excuse(d) => Excuse(d)'
  BY <1>2, ExcuseStays
<1>4. /\ local'.device = d /\ local'.keepOpen \in BOOLEAN
      /\ UNCHANGED <<local.deviceIntf, local.iterator, local.interface, local.index>>
  BY <1>2 DEF Locals
<1>5. /\ ~local'.keepOpen => open' = open \ {Interface(d, n)}
      /\ local'.keepOpen => open' = open
  <2>1. CASE local' = [local EXCEPT !.keepOpen = TRUE] /\ open' = open
    BY <1>2, <2>1 DEF Locals
  <2>2. CASE /\ local' = [local EXCEPT !.keepOpen = FALSE]
             /\ open' = open \ {Interface(d, local.index)}
    BY <1>1, <1>2, <2>2 DEF Locals
  <2> QED
    BY <2>1, <2>2
<1>6. LocalsInv'
  BY <1>1, <1>2, <1>4 DEF LocalsInv
<1>7. /\ Object(d) \in open' <=> Object(d) \in open
      /\ Iterator(d) \in open' <=> Iterator(d) \in open
      /\ Device(d) \in open' <=> Device(d) \in open
  BY <1>2, <1>4, <1>5, Apart
<1>8. DeviceHeld(d)'
  BY <1>2, <1>4, <1>7 DEF DeviceHeld
<1>9. ASSUME NEW i \in Interfaces PROVE InterfaceHeld(d, i)'
  <2>1. InterfaceLooked(d, i) /\ i \in Nat /\ i <= Len(InterfaceNumber)
        /\ n <= Len(InterfaceNumber) /\ Len(InterfaceNumber) \in Nat
    BY <1>2, PositiveInterfaces
  <2>2. Desired(i) <=> i = n
    BY <1>2, HandlesAssumption DEF Desired, Interfaces
  <2>3. /\ InterfaceObject(d, i) \notin open
        /\ Interface(d, i) \in open <=> i = n
        /\ i = n => refs[InterfaceObject(d, i)] = 1 /\ refs[Interface(d, i)] = 1
        /\ i # n => refs[InterfaceObject(d, i)] = 0 /\ refs[Interface(d, i)] <= 0
        /\ refs[Interface(d, i)] < 0 => i < n /\ Excuse(d)
    BY <1>1, <1>2, <2>1 DEF InterfaceLooked
  <2>4. /\ InterfaceObject(d, i) \in open' <=> InterfaceObject(d, i) \in open
        /\ Interface(d, i) \in open' <=> local'.keepOpen /\ i = n
    <3>1. CASE local'.keepOpen
      BY <1>5, <2>3, <3>1
    <3>2. CASE ~local'.keepOpen
      BY <1>2, <1>5, <2>3, <3>2, Apart
    <3> QED
      BY <3>1, <3>2
  <2>5. InterfaceLeft(d, i)'
    <3>1. CASE i = n
      BY <1>2, <1>3, <2>1, <2>2, <2>3, <2>4, <3>1 DEF InterfaceLeft
    <3>2. CASE i # n
      BY <1>2, <1>3, <2>1, <2>2, <2>3, <2>4, <3>2 DEF InterfaceLeft
    <3> QED
      BY <3>1, <3>2
  <2>6. Interface(d, i) \in open' <=> local'.keepOpen /\ Desired(i)
    BY <2>2, <2>4
  <2> QED
    BY <2>5, <2>6 DEF InterfaceHeld
<1>10. \A h \in Handles : h[1] # d => refs'[h] = refs[h] /\ (h \in open' <=> h \in open)
  BY <1>2, <1>4, <1>5, OwnHandles
<1> QED
  BY <1>2, <1>4, <1>6, <1>8, <1>9, <1>10, GoesOn

LEMMA ConstructorRefs ==
  ASSUME StateInv, RefInv,
         FoundNothing \/ FindPipes \/ AddSource \/ SetPending \/ FirstRead
  PROVE  RefInv'
<1> USE DEF Constructing
<1>1. PICK d : d = local.device
  OBVIOUS
<1>2. /\ pc \in InFound /\ UNCHANGED <<services, adds, refs>>
      /\ Fails(d) \/ Succeeds(d) \/ UNCHANGED faults
  BY <1>1 DEF FoundNothing, FindPipes, AddSource, SetPending, FirstRead, Constructed,
              Found, InFound, DoRead
<1>3. \A s \in Services : s # d => life'[s] = life[s]
  <2>1. StateType
    BY TypeParts DEF StateInv
  <2> QED
    BY <1>1, <2>1 DEF FoundNothing, FindPipes, AddSource, SetPending, FirstRead,
                      Constructed, lifeVars, StateType
<1>4. \/ pc' \in InFound /\ UNCHANGED <<local, open>>
      \/ /\ pc' = "closeDevice"
         /\ \/ local' = [local EXCEPT !.keepOpen = TRUE] /\ open' = open
            \/ /\ local' = [local EXCEPT !.keepOpen = FALSE]
               /\ open' = open \ {Interface(d, local.index)}
  BY <1>1 DEF FoundNothing, FindPipes, AddSource, SetPending, FirstRead, Constructed,
              Found, InFound
<1>5. CASE pc' \in InFound /\ UNCHANGED <<local, open>>
  BY <1>1, <1>2, <1>3, <1>5, StaysFound
<1>6. CASE ~(pc' \in InFound /\ UNCHANGED <<local, open>>)
  BY <1>1, <1>2, <1>3, <1>4, <1>6, FoundReturns
<1> QED
  BY <1>5, <1>6

LEMMA FaultsGrow ==
  ASSUME BusType, NEW d, Fails(d) \/ Succeeds(d) \/ UNCHANGED faults
  PROVE  faults > 0 => faults' > 0
BY HandlesAssumption DEF BusType, Fails, Succeeds

(* Steps that leave the handles alone. *)
LEMMA HandlesStay ==
  ASSUME StateInv, RefInv, UNCHANGED <<local, refs, open>>,
         pc' = pc \/ (pc \notin Adding /\ pc' \notin Adding),
         \A s \in Services :
           /\ Excuse(s) => Excuse(s)'
           /\ Held(s)' <=> Held(s)
           /\ s \in adds' \/ services'[s] = "never" => s \in adds \/ services[s] = "never"
  PROVE  RefInv'
<1>1. ASSUME NEW s \in Services
      PROVE  /\ s \in adds' \/ services'[s] = "never" => Fresh(s)'
             /\ s # local'.device => Settled(s)'
  <2>1. Alone(s) /\ (Held(s)' <=> Held(s))
    BY DEF Alone
  <2> QED
    BY <2>1, AloneSettled DEF RefInv
<1>2. ASSUME pc' \in Adding PROVE AddingInv'
  <2>1. PICK d : d = local.device
    OBVIOUS
  <2>2. /\ pc' = pc /\ d \in Services /\ LocalsInv /\ DeviceHeld(d)
        /\ \A i \in Interfaces : InterfaceHeld(d, i)
        /\ Excuse(d) => Excuse(d)'
    BY <1>2, <2>1, Adder
  <2>3. LocalsInv'
    BY <2>1, <2>2 DEF LocalsInv
  <2>4. DeviceHeld(d)'
    BY <2>2 DEF DeviceHeld
  <2>5. ASSUME NEW i \in Interfaces PROVE InterfaceHeld(d, i)'
    <3>1. InterfaceLooked(d, i) => InterfaceLooked(d, i)'
      BY <2>2 DEF InterfaceLooked
    <3>2. InterfaceLeft(d, i) => InterfaceLeft(d, i)'
      BY <2>2 DEF InterfaceLeft
    <3> QED
      BY <2>2, <3>1, <3>2 DEF InterfaceHeld
  <2> QED
    BY <2>1, <2>3, <2>4, <2>5 DEF AddingInv
<1> QED
  BY <1>1, <1>2 DEF RefInv

LEMMA IORefs ==
  ASSUME StateInv, RefInv,
         \/ IOStep
         \/ \E s \in Services : Plug(s) \/ Unplug(s)
         \/ \E s \in Services, kind \in Kinds : Complete(s, kind)
         \/ \E c \in Clients : Send(c) \/ SendLocked(c)
  PROVE  RefInv'
<1>p. BusType
  BY TypeParts DEF StateInv
<1>1. UNCHANGED <<local, refs, open, pc, life>>
  BY DEF IOStep, Dispatch, ReadCallback, WriteCallback, Plug, Unplug, Complete,
         Send, SendLocked, handleVars, lifeVars
<1>2. ASSUME IOStep \/ (\E s \in Services, kind \in Kinds : Complete(s, kind))
             \/ \E c \in Clients : Send(c) \/ SendLocked(c)
      PROVE  UNCHANGED <<services, adds>> /\ (faults > 0 => faults' > 0)
  <2>1. UNCHANGED <<services, adds>>
    BY <1>2 DEF IOStep, Dispatch, ReadCallback, WriteCallback, Complete, Send,
                SendLocked, handleVars
  <2>2. \E d : Fails(d) \/ Succeeds(d) \/ UNCHANGED faults
    <3>1. CASE \E s \in Services : Dispatch(s)
      BY <3>1 DEF Dispatch, handleVars
    <3>2. CASE ReadCallback
      BY <3>2 DEF ReadCallback, DoRead
    <3>3. CASE WriteCallback
      BY <3>3, DoWriteFaults DEF WriteCallback
    <3>4. ASSUME NEW s \in Services, NEW kind \in Kinds, Complete(s, kind)
          PROVE  Fails(s) \/ Succeeds(s)
      BY <3>4 DEF Complete
    <3>5. ASSUME NEW c \in Clients, Send(c)
          PROVE  UNCHANGED faults
      BY <3>5 DEF Send, handleVars
    <3>6. ASSUME NEW c \in Clients, SendLocked(c)
          PROVE  Fails(thread[c].in) \/ UNCHANGED faults
      BY <3>6, SendLockedStep, DoWriteFaults
    <3> QED
      BY <1>2, <3>1, <3>2, <3>3, <3>4, <3>5, <3>6 DEF IOStep
  <2> QED
    BY <1>p, <2>1, <2>2, FaultsGrow
<1>3. ASSUME NEW s \in Services, Plug(s) \/ Unplug(s)
      PROVE  /\ UNCHANGED faults
             /\ \A r \in Services :
                  /\ services[r] = "gone" => services'[r] = "gone"
                  /\ r \in adds' \/ services'[r] = "never" => r \in adds \/ services[r] = "never"
  BY <1>p, <1>3 DEF Plug, Unplug, BusType
<1>4. \A s \in Services : Held(s)' <=> Held(s)
  BY <1>1 DEF Held
<1>5. ASSUME NEW s \in Services
      PROVE  /\ Excuse(s) => Excuse(s)'
             /\ s \in adds' \/ services'[s] = "never" => s \in adds \/ services[s] = "never"
  BY <1>2, <1>3 DEF Excuse
<1> QED
  BY <1>1, <1>4, <1>5, HandlesStay

(* Nothing is closed before the memory is freed. *)
LEMMA RemovalRefs ==
  ASSUME StateInv, RefInv,
         \/ Callback \/ (\E s \in Services : DeviceRemoved(s))
         \/ Stop \/ AbortPipes \/ RemoveSource
  PROVE  RefInv'
<1>p. StateType /\ RunType
  BY TypeParts DEF StateInv
<1>1. /\ pc \notin Adding /\ pc' \notin Adding
      /\ UNCHANGED <<services, faults, local, refs, open>> /\ adds' \subseteq adds
  BY DEF Callback, DeviceRemoved, Stop, AbortPipes, RemoveSource, Adding,
         Constructing, lifeVars
<1>2. \A s \in Services : Held(s)' <=> Held(s)
  <2>1. UNCHANGED life \/ \E s \in Services : InList(s) /\ life' = [life EXCEPT ![s] = "deleting"]
    BY DEF Callback, DeviceRemoved, Stop, AbortPipes, RemoveSource, Destroy, lifeVars
  <2>2. CASE UNCHANGED life
    BY <2>2 DEF Held
  <2>3. ASSUME NEW s \in Services, InList(s), life' = [life EXCEPT ![s] = "deleting"]
        PROVE  \A r \in Services : Held(r)' <=> Held(r)
    BY <1>p, <2>3 DEF Held, InList, StateType
  <2> QED
    BY <2>1, <2>2, <2>3
<1>3. \A s \in Services : /\ Excuse(s) => Excuse(s)'
                          /\ s \in adds' \/ services'[s] = "never"
                               => s \in adds \/ services[s] = "never"
  BY <1>1 DEF Excuse
<1> QED
  BY <1>1, <1>2, <1>3, HandlesStay

(* The end of the destructor: what the InterfaceState kept open is released. *)
LEMMA DeleteRefs ==
  ASSUME StateInv, RefInv, Delete
  PROVE  RefInv'
<1>p. StateType /\ RunType /\ HandleType
  BY TypeParts DEF StateInv
<1>1. /\ pc \in {"delete", "stopDelete"} /\ pc' \notin Adding
      /\ UNCHANGED <<services, adds, local, faults>>
      /\ life' = [life EXCEPT ![victim] = "deleted"]
  BY DEF Delete, Adding, Constructing
<1>2. PICK v : v = victim
  OBVIOUS
<1>3. PICK kept : kept = {h \in open : h[1] = v}
  OBVIOUS
<1>4. Release(kept) /\ open' = open \ kept
  BY <1>2, <1>3 DEF Delete
<1>5. /\ v \in Services /\ life[v] = "deleting" /\ local.device = NoService
      /\ v \notin adds /\ services[v] # "never"
  BY <1>1, <1>2, <1>p DEF StateInv, Places, RunType, Destroying, Adding, Constructing
<1>6. \A h \in Handles : /\ h \in kept => refs'[h] = refs[h] - 1
                         /\ h \notin kept => refs'[h] = refs[h]
  BY <1>4, <1>p, ReleaseStep
<1>7. \A h \in HandlesOf(v) : h \in kept <=> h \in open
  BY <1>3, <1>5, OwnHandles
<1>8. \A h : h \in open' <=> h \in open /\ h \notin kept
  BY <1>4
<1>9. ASSUME NEW s \in Services, s # v
      PROVE  /\ Settled(s)'
             /\ Fresh(s) => Fresh(s)'
  <2>1. Alone(s)
    BY <1>1, <1>3, <1>6, <1>8, <1>9, OwnHandles DEF Alone, Excuse
  <2>2. Held(s)' <=> Held(s)
    BY <1>1, <1>2, <1>9, <1>p DEF Held, StateType
  <2>3. Settled(s)
    BY <1>5, HandlesAssumption DEF RefInv
  <2> QED
    BY <2>1, <2>2, <2>3, AloneSettled
<1>10. Settled(v)'
  <2>1. Settled(v) /\ Held(v)
    BY <1>5, HandlesAssumption DEF RefInv, Held
  <2>2. ~Held(v)'
    BY <1>1, <1>2, <1>5, <1>p DEF Held, StateType
  <2>3. /\ refs'[Object(v)] = 0 /\ refs'[Iterator(v)] = 0 /\ refs'[Device(v)] = 0
        /\ Object(v) \notin open' /\ Iterator(v) \notin open' /\ Device(v) \notin open'
    BY <1>5, <1>6, <1>7, <1>8, <2>1, OwnHandles DEF Settled
  <2>4. ASSUME NEW i \in Interfaces
        PROVE  InterfaceLeft(v, i)' /\ Interface(v, i) \notin open'
    <3>1. /\ InterfaceLeft(v, i)
          /\ InterfaceObject(v, i) \in HandlesOf(v) /\ InterfaceObject(v, i) \in Handles
          /\ Interface(v, i) \in HandlesOf(v) /\ Interface(v, i) \in Handles
      BY <1>5, <2>1, OwnHandles DEF Settled
    <3>2. /\ InterfaceObject(v, i) \notin open' /\ Interface(v, i) \notin open'
          /\ refs'[InterfaceObject(v, i)] = refs[InterfaceObject(v, i)]
      BY <1>6, <1>7, <1>8, <3>1 DEF InterfaceLeft
    <3>3. CASE Interface(v, i) \in open
      <4>1. refs'[Interface(v, i)] = 0 /\ refs'[InterfaceObject(v, i)] = 1
        BY <1>6, <1>7, <3>1, <3>2, <3>3 DEF InterfaceLeft
      <4> QED
        BY <3>1, <3>2, <4>1 DEF InterfaceLeft
    <3>4. CASE Interface(v, i) \notin open
      <4>1. refs'[Interface(v, i)] = refs[Interface(v, i)]
        BY <1>6, <1>7, <3>1, <3>4
      <4> QED
        BY <1>1, <3>1, <3>2, <4>1 DEF InterfaceLeft, Excuse
    <3> QED
      BY <3>2, <3>3, <3>4
  <2> QED
    BY <2>2, <2>3, <2>4 DEF Settled
<1> QED
  BY <1>1, <1>5, <1>9, <1>10 DEF RefInv

LEMMA InitRefs == Init => RefInv
<1> SUFFICES ASSUME Init PROVE RefInv
  OBVIOUS
<1>1. /\ pc = "idle" /\ local = NoLocals /\ adds = {} /\ open = {} /\ faults = 0
      /\ refs = [h \in Handles |-> 0]
      /\ \A s \in Services : life[s] = "none"
  BY DEF Init, HandlesInit
<1>2. ASSUME NEW s \in Services PROVE Fresh(s) /\ Settled(s)
  <2>1. \A h \in HandlesOf(s) : refs[h] = 0 /\ h \notin open
    BY <1>1, OwnHandles
  <2>2. ~Held(s)
    BY <1>1 DEF Held
  <2>3. ASSUME NEW i \in Interfaces
        PROVE  InterfaceLeft(s, i) /\ Interface(s, i) \notin open
    <3>1. /\ refs[InterfaceObject(s, i)] = 0 /\ refs[Interface(s, i)] = 0
          /\ InterfaceObject(s, i) \notin open /\ Interface(s, i) \notin open
      BY <2>1, OwnHandles
    <3> QED
      BY <3>1 DEF InterfaceLeft
  <2> QED
    BY <2>1, <2>2, <2>3, OwnHandles DEF Fresh, Settled
<1> QED
  BY <1>1, <1>2 DEF RefInv, Adding, Constructing

LEMMA AddedRefs ==
  ASSUME StateInv, RefInv, DevicesAdded, UNCHANGED lifeVars
  PROVE  RefInv'
<1>1. UNCHANGED life
  BY DEF lifeVars
<1>2. CASE \E s \in Services : NextDevice(s)
  BY <1>1, <1>2, AddedBegins
<1>3. CASE CreatePlugIn \/ QueryDevice \/ MatchDevice \/ OpenDevice
  BY <1>1, <1>3, CreatePlugInRefs, QueryDeviceRefs, StepBeforeLoop, OpenDeviceRefs
<1>4. CASE SetConfiguration \/ CreateInterfaceIterator \/ NextInterface \/ InterfacePlugIn
  BY <1>1, <1>4, StepBeforeLoop, CreateIteratorRefs, NextInterfaceRefs, InterfacePlugInRefs
<1>5. CASE QueryInterface \/ InterfaceOpen \/ InterfaceDone \/ CloseDevice \/ DeviceDone
  BY <1>1, <1>5, QueryInterfaceRefs, InterfaceOpenRefs, InterfaceDoneRefs,
     CloseDeviceRefs, DeviceDoneRefs
<1> QED
  BY <1>2, <1>3, <1>4, <1>5 DEF DevicesAdded

LEMMA NextRefInv ==
  ASSUME StateInv, RefInv, [Next]_vars
  PROVE  RefInv'
<1>1. CASE RunLoop
  BY <1>1, AddedRefs, ConstructorRefs, RemovalRefs, DeleteRefs DEF RunLoop
<1>2. CASE pc = "idle" /\ Stop
  BY <1>2, RemovalRefs
<1>3. CASE \/ IOStep
           \/ \E s \in Services : Plug(s) \/ Unplug(s)
           \/ \E s \in Services, kind \in Kinds : Complete(s, kind)
           \/ \E c \in Clients : Send(c) \/ SendLocked(c)
  BY <1>3, IORefs
<1>4. CASE UNCHANGED vars
  <2>1. UNCHANGED <<services, adds, pc, local, refs, open, faults, life>>
    BY <1>4 DEF vars, handleVars, lifeVars
  <2> QED
    BY <2>1, HandlesStay DEF Excuse, Held
<1> QED
  BY <1>1, <1>2, <1>3, <1>4 DEF Next

LEMMA KindsOfHandles ==
  ASSUME NEW h \in Handles
  PROVE  \E s \in Services :
           \/ h \in {Object(s), Device(s), Iterator(s)}
           \/ \E i \in Interfaces : h \in {InterfaceObject(s, i), Interface(s, i)}
BY DEF Handles, HandlesOf

LEMMA RefInvImplies == StateInv /\ RefInv => ReferencesBalanced
<1> SUFFICES ASSUME StateInv, RefInv, pc \in {"idle", "stopped"}
             PROVE  ReferencesBalanced!2
  BY DEF ReferencesBalanced
<1>1. HandleType /\ RunType
  BY TypeParts DEF StateInv
<1>2. local.device = NoService /\ victim = NoService
  BY <1>1 DEF RunType, Adding, Constructing, Destroying
<1>3. ASSUME NEW s \in Services PROVE Settled(s) /\ (Held(s) <=> InList(s))
  <2>1. s # NoService
    BY HandlesAssumption
  <2> QED
    BY <1>2, <2>1 DEF RefInv, StateInv, Places, Held, InList
<1>4. ASSUME NEW h \in Handles
      PROVE  h \in open <=> /\ InList(h[1])
                            /\ \/ h[2] = "device"
                               \/ h[2] = "interface" /\ InterfaceNumber[h[3]] = DesiredInterface
  <2>1. PICK s \in Services :
          \/ h \in {Object(s), Device(s), Iterator(s)}
          \/ \E i \in Interfaces : h \in {InterfaceObject(s, i), Interface(s, i)}
    BY KindsOfHandles
  <2>2. CASE h \in {Object(s), Device(s), Iterator(s)}
    <3>1. CASE h = Object(s) \/ h = Iterator(s)
      <4>1. h \notin open
        BY <1>3, <3>1 DEF Settled
      <4>2. h[2] # "device" /\ h[2] # "interface"
        BY <3>1 DEF Object, Iterator
      <4> QED
        BY <4>1, <4>2
    <3>2. CASE h = Device(s)
      <4>1. h \in open <=> InList(s)
        BY <1>3, <3>2 DEF Settled
      <4>2. h[1] = s /\ h[2] = "device"
        BY <3>2 DEF Device
      <4> QED
        BY <4>1, <4>2
    <3> QED
      BY <2>2, <3>1, <3>2
  <2>3. ASSUME NEW i \in Interfaces, h = InterfaceObject(s, i) PROVE <1>4!2
    <3>1. h \notin open
      BY <1>3, <2>3 DEF Settled, InterfaceLeft
    <3>2. h[2] = "interfaceObject"
      BY <2>3 DEF InterfaceObject
    <3> QED
      BY <3>1, <3>2
  <2>4. ASSUME NEW i \in Interfaces, h = Interface(s, i) PROVE <1>4!2
    <3>1. h \in open <=> InList(s) /\ Desired(i)
      BY <1>3, <2>4 DEF Settled
    <3>2. h[1] = s /\ h[2] = "interface" /\ h[3] = i
      BY <2>4 DEF Interface
    <3> QED
      BY <3>1, <3>2 DEF Desired
  <2> QED
    BY <2>1, <2>2, <2>3, <2>4
<1>5. open \subseteq Handles
  BY <1>1 DEF HandleType
<1>6. open = {h \in Handles :
                /\ InList(h[1])
                /\ \/ h[2] = "device"
                   \/ h[2] = "interface" /\ InterfaceNumber[h[3]] = DesiredInterface}
  BY <1>4, <1>5
<1>7. ASSUME NEW s \in Services
      PROVE  /\ refs[Object(s)] = 0 /\ refs[Iterator(s)] = 0
             /\ refs[Device(s)] = IF InList(s) THEN 1 ELSE 0
  <2>1. Settled(s) /\ (Held(s) <=> InList(s))
    BY <1>3
  <2>2. CASE InList(s)
    BY <2>1, <2>2 DEF Settled
  <2>3. CASE ~InList(s)
    BY <2>1, <2>3 DEF Settled
  <2> QED
    BY <2>2, <2>3
<1>8. ASSUME NEW s \in Services, NEW i \in Interfaces
      PROVE  /\ refs[InterfaceObject(s, i)] \in
                  IF InterfaceNumber[i] = DesiredInterface THEN {0, 1} ELSE {0}
             /\ InList(s) /\ InterfaceNumber[i] = DesiredInterface =>
                  refs[InterfaceObject(s, i)] = 1 /\ refs[Interface(s, i)] = 1
             /\ refs[Interface(s, i)] <= refs[InterfaceObject(s, i)]
             /\ refs[Interface(s, i)] < 0 =>
                  i < Len(InterfaceNumber) /\ (faults > 0 \/ services[s] = "gone")
  <2>1. InterfaceLeft(s, i) /\ (Interface(s, i) \in open <=> InList(s) /\ Desired(i))
    BY <1>3 DEF Settled
  <2> QED
    BY <2>1 DEF InterfaceLeft, Desired, Excuse
<1> QED
  BY <1>6, <1>7, <1>8

(* What a device has open and referred to is what the InterfaceStates in the list
   hold, and what DevicesAdded loses. *)
THEOREM ReferencesKept == Spec => []ReferencesBalanced
<1>1. Init => StateInv /\ RefInv
  BY InitStateInv, InitRefs
<1>2. StateInv /\ RefInv /\ [Next]_vars => (StateInv /\ RefInv)'
  BY NextStateInv, NextRefInv
<1> QED
  BY <1>1, <1>2, RefInvImplies, PTL DEF Spec

-----------------------------------------------------------------------------
(* The transfers of a kind: outstanding, completed, or in their callback. *)

Of(kind, results) == {i \in DOMAIN results : results[i][1] = kind}
Done(s, kind) == Of(kind, completions[s])
InCallback(s, kind) == thread[IOThread] = [in |-> s, does |-> kind]

Some(s, kind) ==
  transfers[s][kind] > 0 \/ Done(s, kind) # {} \/ InCallback(s, kind)

Single(s, kind) ==
  /\ transfers[s][kind] <= 1
  /\ \A i, j \in Done(s, kind) : i = j
  /\ transfers[s][kind] > 0 => Done(s, kind) = {} /\ ~InCallback(s, kind)
  /\ Done(s, kind) # {} => ~InCallback(s, kind)

ReadChain(s) ==
  /\ Single(s, "read")
  /\ life[s] = "constructing" => ~Some(s, "read")

(* Of writing nothing can be said once a client was in before the constructor was
   done, and a write is alone only while one OUT pipe is written to. *)
WriteChain(s) ==
  s \notin early =>
    /\ AtMostOne(written[s]) =>
         /\ Single(s, "write")
         /\ Some(s, "write") /\ life[s] # "deleted" => mWritePending[s]
    /\ life[s] = "constructing" =>
         /\ ~Some(s, "write") /\ mWriteQueue[s] = 0
         /\ pc = "firstRead" => ~mWritePending[s]

(* Nothing has failed, and the device is there. *)
WellSoFar(s) == services[s] = "present" /\ faults = 0

NothingFailed(s) ==
  WellSoFar(s) =>
    /\ life[s] \in {"constructing", "running"} =>
         /\ pipes[s] = Pipes
         /\ \A i \in DOMAIN completions[s] : completions[s][i][2] = "success"
    /\ life[s] = "running" =>
         /\ Some(s, "read")
         /\ s \notin early => /\ mWritePending[s] => Some(s, "write")
                              /\ mWriteQueue[s] > 0 => mWritePending[s]

Chained(s) == ReadChain(s) /\ WriteChain(s) /\ NothingFailed(s)
ChainInv == \A s \in Services : Chained(s)

-----------------------------------------------------------------------------
Results == Seq(Kinds \X Outcomes)

LEMMA OfEmpty == \A kind : Of(kind, <<>>) = {}
BY DEF Of

LEMMA OfAppend ==
  ASSUME NEW results \in Results, NEW e \in Kinds \X Outcomes, NEW kind \in Kinds
  PROVE  /\ e[1] # kind => Of(kind, Append(results, e)) = Of(kind, results)
         /\ e[1] = kind => Of(kind, Append(results, e)) = Of(kind, results) \cup {Len(results) + 1}
<1> DEFINE n == Len(results)
           longer == Append(results, e)
<1>1. /\ n \in Nat /\ DOMAIN results = 1..n
      /\ DOMAIN longer = 1..(n + 1) /\ longer[n + 1] = e
      /\ \A i \in 1..n : longer[i] = results[i]
  BY DEF Results
<1> HIDE DEF n, longer
<1>2. Of(kind, longer) = {i \in 1..n : longer[i][1] = kind} \cup {i \in {n + 1} : e[1] = kind}
  BY <1>1 DEF Of
<1>3. Of(kind, results) = {i \in 1..n : longer[i][1] = kind}
  BY <1>1 DEF Of
<1> QED
  BY <1>2, <1>3 DEF n, longer

LEMMA OfTail ==
  ASSUME NEW results \in Results, results # <<>>, NEW kind \in Kinds
  PROVE  /\ Of(kind, Tail(results)) \subseteq Nat
         /\ \A i \in Of(kind, Tail(results)) : i + 1 \in Of(kind, results) /\ i + 1 # 1
         /\ \A i \in Of(kind, results) : i # 1 => i - 1 \in Of(kind, Tail(results))
         /\ Of(kind, results) \subseteq Nat
         /\ 1 \in Of(kind, results) <=> Head(results)[1] = kind
<1>1. /\ Len(results) \in Nat \ {0} /\ DOMAIN results = 1..Len(results)
      /\ DOMAIN Tail(results) = 1..(Len(results) - 1)
      /\ \A i \in 1..(Len(results) - 1) : Tail(results)[i] = results[i + 1]
      /\ Head(results) = results[1]
  BY DEF Results
<1> QED
  BY <1>1 DEF Of

(* What becomes of a service that a step has nothing to do with. *)
Untouched(s) ==
  /\ transfers'[s] = transfers[s] /\ completions'[s] = completions[s]
  /\ \A kind \in Kinds : InCallback(s, kind)' <=> InCallback(s, kind)
  /\ mWritePending'[s] = mWritePending[s] /\ mWriteQueue'[s] = mWriteQueue[s]
  /\ pipes'[s] = pipes[s] /\ written'[s] = written[s]
  /\ life'[s] = life[s] /\ (s \in early' <=> s \in early)
  /\ life[s] = "constructing" => pc' # "firstRead" \/ pc = "firstRead"
  /\ WellSoFar(s)' => WellSoFar(s) \/ life[s] \notin {"constructing", "running"}

LEMMA UntouchedChained ==
  ASSUME NEW s \in Services, Chained(s), Untouched(s)
  PROVE  Chained(s)'
<1> USE DEF Untouched, Chained
<1>0. "read" \in Kinds /\ "write" \in Kinds
  BY DEF Kinds
<1>1. \A kind \in Kinds : /\ Single(s, kind)' <=> Single(s, kind)
                          /\ Some(s, kind)' <=> Some(s, kind)
  BY DEF Single, Some, Done
<1>2. ReadChain(s)'
  BY <1>0, <1>1 DEF ReadChain
<1>3. WriteChain(s)'
  BY <1>0, <1>1 DEF WriteChain
<1>4. NothingFailed(s)'
  BY <1>0, <1>1 DEF NothingFailed
<1> QED
  BY <1>2, <1>3, <1>4

LEMMA InitChain == Init => ChainInv
<1> SUFFICES ASSUME Init, NEW s \in Services PROVE Chained(s)
  BY DEF ChainInv
<1> USE DEF Init, HandlesInit
<1>1. /\ transfers[s]["read"] = 0 /\ transfers[s]["write"] = 0 /\ completions[s] = <<>>
      /\ life[s] = "none"
      /\ s # NoService
  BY HandlesAssumption DEF Kinds
<1>2. \A kind : Done(s, kind) = {} /\ ~InCallback(s, kind)
  BY <1>1, OfEmpty DEF Done, InCallback, Outside
<1> QED
  BY <1>1, <1>2 DEF Chained, ReadChain, WriteChain, NothingFailed, Single, Some

LEMMA FaultsOnlyGrow ==
  ASSUME BusType, NEW s, Fails(s) \/ Succeeds(s) \/ UNCHANGED faults, NEW r,
         UNCHANGED services
  PROVE  /\ WellSoFar(r)' => WellSoFar(r)
         /\ Fails(s) => ~WellSoFar(s)'
BY HandlesAssumption DEF BusType, Fails, Succeeds, WellSoFar

(* Steps that move nothing. *)
LEMMA NothingMoves ==
  ASSUME StateInv, ChainInv,
         UNCHANGED <<life, pipes, mWritePending, mWriteQueue, transfers, completions,
                     thread, early, written>>,
         pc' # "firstRead" \/ pc = "firstRead" \/ pc' = pc,
         \A s \in Services :
           WellSoFar(s)' => WellSoFar(s) \/ life[s] \notin {"constructing", "running"}
  PROVE  ChainInv'
<1>1. \A s \in Services : Untouched(s)
  BY DEF Untouched, InCallback
<1> QED
  BY <1>1, UntouchedChained DEF ChainInv

LEMMA QuietChain ==
  ASSUME StateInv, ChainInv,
         \/ DevicesAdded /\ UNCHANGED lifeVars
         \/ \E s \in Services : Plug(s) \/ Unplug(s)
         \/ Callback \/ FoundNothing \/ UNCHANGED vars
         \/ \E c \in Clients : Send(c)
  PROVE  ChainInv'
<1> USE DEF StateInv
<1>p. BusType /\ StateType /\ ThreadType
  BY TypeParts
<1>1. CASE DevicesAdded /\ UNCHANGED lifeVars
  <2>1. /\ UNCHANGED <<services, life, pipes, mWritePending, mWriteQueue, transfers,
                       completions, thread, early, written>>
        /\ pc' # "firstRead"
        /\ Fails(local.device) \/ Succeeds(local.device) \/ UNCHANGED faults
    <3>1. CASE \E s \in Services : NextDevice(s)
      BY <1>1, <3>1 DEF NextDevice, lifeVars
    <3>2. CASE ~\E s \in Services : NextDevice(s)
      BY <1>1, <3>2 DEF DevicesAdded, CreatePlugIn, QueryDevice, MatchDevice, OpenDevice,
           SetConfiguration, CreateInterfaceIterator, NextInterface, InterfacePlugIn,
           QueryInterface, InterfaceOpen, InterfaceDone, CloseDevice, DeviceDone, lifeVars
    <3> QED
      BY <3>1, <3>2
  <2> QED
    BY <1>p, <2>1, FaultsOnlyGrow, NothingMoves
<1>2. ASSUME NEW s \in Services, Plug(s) \/ Unplug(s) PROVE ChainInv'
  <2>1. UNCHANGED <<life, pipes, mWritePending, mWriteQueue, transfers, completions,
                    thread, early, written, pc, faults>>
    BY <1>2 DEF Plug, Unplug, lifeVars
  <2>2. \A r \in Services :
          WellSoFar(r)' => WellSoFar(r) \/ life[r] \notin {"constructing", "running"}
    BY <1>2, <1>p DEF Plug, Unplug, WellSoFar, Places, BusType
  <2> QED
    BY <2>1, <2>2, NothingMoves
<1>3. CASE Callback
  BY <1>3, NothingMoves DEF Callback, lifeVars, WellSoFar
<1>4. CASE FoundNothing
  <2>1. /\ UNCHANGED <<services, lifeVars>> /\ Fails(local.device) /\ pc' = "closeDevice"
    BY <1>4 DEF FoundNothing, Found
  <2> QED
    BY <1>p, <2>1, FaultsOnlyGrow, NothingMoves DEF lifeVars
<1>5. CASE UNCHANGED vars
  BY <1>5, NothingMoves DEF vars, handleVars, lifeVars, WellSoFar
<1>6. ASSUME NEW c \in Clients, Send(c) PROVE ChainInv'
  <2>1. /\ UNCHANGED <<services, faults, pc, life, pipes, mWritePending, mWriteQueue,
                       transfers, completions, early, written>>
        /\ Enters(c, refCon, "send")
    BY <1>6 DEF Send, handleVars
  <2>2. thread'[IOThread] = thread[IOThread]
    BY <2>1, <1>p, LifeAssumption DEF Enters, ThreadType
  <2>3. \A s \in Services : Untouched(s)
    BY <2>1, <2>2 DEF Untouched, InCallback, WellSoFar
  <2> QED
    BY <2>3, UntouchedChained DEF ChainInv
<1> QED
  BY <1>1, <1>2, <1>3, <1>4, <1>5, <1>6

LEMMA Appended ==
  ASSUME NEW results \in Results, NEW e \in Kinds \X Outcomes
  PROVE  /\ Len(results) \in Nat /\ DOMAIN results = 1..Len(results)
         /\ DOMAIN Append(results, e) = 1..(Len(results) + 1)
         /\ Append(results, e)[Len(results) + 1] = e
         /\ \A i \in 1..Len(results) : Append(results, e)[i] = results[i]
BY DEF Results

(* A transfer completes. *)
LEMMA CompleteChain ==
  ASSUME StateInv, ChainInv, NEW s \in Services, NEW kind \in Kinds, Complete(s, kind)
  PROVE  ChainInv'
<1> USE DEF StateInv
<1>p. BusType /\ StateType /\ FlowType /\ ThreadType
  BY TypeParts
<1>1. PICK result \in {"success", "error"} :
        /\ IF result = "success" THEN Succeeds(s) ELSE Fails(s)
        /\ completions' = IF s \in sources
                            THEN [completions EXCEPT ![s] = Append(completions[s], <<kind, result>>)]
                            ELSE completions
  BY DEF Complete
<1>2. /\ transfers[s][kind] > 0
      /\ transfers' = [transfers EXCEPT ![s] = [transfers[s] EXCEPT ![kind] = transfers[s][kind] - 1]]
      /\ UNCHANGED <<services, pc, life, pipes, mWritePending, mWriteQueue, thread, early,
                     written>>
      /\ Fails(s) \/ Succeeds(s)
  BY DEF Complete
<1>3. /\ \A r \in Services : WellSoFar(r)' => WellSoFar(r)
      /\ WellSoFar(s)' => result = "success"
  BY <1>p, <1>1, <1>2, FaultsOnlyGrow
<1>4. ASSUME NEW r \in Services \ {s} PROVE Chained(r)'
  <2>1. Untouched(r)
    BY <1>p, <1>1, <1>2, <1>3 DEF Untouched, InCallback, FlowType
  <2> QED
    BY <2>1, UntouchedChained DEF ChainInv
<1> DEFINE q == completions[s]
<1>q. q \in Results /\ Len(q) \in Nat /\ <<kind, result>> \in Kinds \X Outcomes
  BY <1>p DEF FlowType, Results, Outcomes
<1>5. /\ transfers'[s][kind] = transfers[s][kind] - 1
      /\ \A k \in Kinds : k # kind => transfers'[s][k] = transfers[s][k]
      /\ \A k \in Kinds : transfers[s][k] \in Nat
  BY <1>p, <1>2 DEF FlowType
<1>6. /\ s \notin sources => completions'[s] = q
      /\ s \in sources => completions'[s] = Append(q, <<kind, result>>)
  BY <1>p, <1>1 DEF FlowType
<1>7. /\ \A k \in Kinds : k # kind => Done(s, k)' = Done(s, k)
      /\ s \notin sources => Done(s, kind)' = Done(s, kind)
      /\ s \in sources => Done(s, kind)' = Done(s, kind) \cup {Len(q) + 1}
  <2>1. CASE s \notin sources
    BY <1>6, <2>1 DEF Done
  <2>2. CASE s \in sources
    <3> DEFINE e == <<kind, result>>
    <3>1. completions'[s] = Append(q, e) /\ e \in Kinds \X Outcomes /\ e[1] = kind
      BY <1>6, <1>q, <2>2
    <3>2. Done(s, kind) = Of(kind, q) /\ \A k \in Kinds : Done(s, k) = Of(k, q)
      BY DEF Done
    <3> HIDE DEF e, q
    <3> QED
      BY <1>q, <2>2, <3>1, <3>2, OfAppend DEF Done
  <2> QED
    BY <2>1, <2>2
<1>8. \A k \in Kinds : InCallback(s, k)' <=> InCallback(s, k)
  BY <1>2 DEF InCallback
<1>9. ASSUME NEW k \in Kinds
      PROVE  /\ Single(s, k) => Single(s, k)'
             /\ Some(s, k)' => Some(s, k)
             /\ s \in sources => (Some(s, k) => Some(s, k)')
  <2>1. CASE k # kind
    BY <1>5, <1>7, <1>8, <2>1 DEF Single, Some
  <2>2. CASE k = kind
    <3>1. ASSUME Single(s, k) PROVE Single(s, k)'
      <4>1. Done(s, k) = {} /\ ~InCallback(s, k) /\ transfers'[s][k] = 0
        BY <1>2, <1>5, <2>2, <3>1 DEF Single
      <4>2. Done(s, k)' = {} \/ Done(s, k)' = {Len(q) + 1}
        BY <1>7, <2>2, <4>1
      <4>3. ~InCallback(s, k)'
        BY <1>8, <4>1
      <4>4. \A i, j \in Done(s, k)' : i = j
        BY <4>2
      <4> QED
        BY <4>1, <4>3, <4>4 DEF Single
    <3>2. Some(s, k)
      BY <1>2, <2>2 DEF Some
    <3>3. s \in sources => Some(s, k)'
      <4>1. s \in sources => Done(s, k)' # {}
        BY <1>7, <2>2
      <4> QED
        BY <4>1 DEF Some
    <3> QED
      BY <3>1, <3>2, <3>3
  <2> QED
    BY <2>1, <2>2
<1>10. "read" \in Kinds /\ "write" \in Kinds
  BY DEF Kinds
<1>11. ReadChain(s)' /\ WriteChain(s)'
  BY <1>2, <1>9, <1>10 DEF ReadChain, WriteChain, ChainInv, Chained
<1>12. NothingFailed(s)'
  <2>1. ASSUME WellSoFar(s)', life[s] \in {"constructing", "running"},
               NEW i \in DOMAIN completions'[s]
        PROVE  completions'[s][i][2] = "success"
    <3>1. \A j \in DOMAIN q : q[j][2] = "success"
      BY <1>3, <2>1 DEF ChainInv, Chained, NothingFailed
    <3>2. CASE s \notin sources
      BY <1>6, <2>1, <3>1, <3>2
    <3>3. CASE s \in sources
      <4>1. /\ DOMAIN q = 1..Len(q) /\ DOMAIN completions'[s] = 1..(Len(q) + 1)
            /\ completions'[s][Len(q) + 1] = <<kind, result>>
            /\ \A j \in 1..Len(q) : completions'[s][j] = q[j]
        <5> DEFINE e == <<kind, result>>
        <5>1. e \in Kinds \X Outcomes /\ completions'[s] = Append(q, e)
          BY <1>6, <1>q, <3>3
        <5> HIDE DEF q, e
        <5>2. /\ DOMAIN completions'[s] = 1..(Len(q) + 1) /\ DOMAIN q = 1..Len(q)
              /\ completions'[s][Len(q) + 1] = e
              /\ \A j \in 1..Len(q) : completions'[s][j] = q[j]
          BY <1>q, <5>1, Appended
        <5> QED
          BY <5>2 DEF e
      <4> QED
        BY <1>3, <2>1, <3>1, <4>1
    <3> QED
      BY <3>2, <3>3
  <2> QED
    BY <1>2, <1>3, <1>9, <1>10, <2>1 DEF ChainInv, Chained, NothingFailed, Sources
<1> QED
  BY <1>4, <1>11, <1>12 DEF ChainInv, Chained

(* The I/O run loop takes a completion. *)
LEMMA DispatchChain ==
  ASSUME StateInv, ChainInv, NEW s \in Services, Dispatch(s)
  PROVE  ChainInv'
<1> USE DEF StateInv
<1>p. BusType /\ StateType /\ FlowType /\ ThreadType
  BY TypeParts
<1> DEFINE q == completions[s]
           head == Head(q)[1]
           result == Head(q)[2]
<1>1. /\ q # <<>> /\ thread[IOThread] = Outside /\ s \in sources
      /\ completions' = [completions EXCEPT ![s] = Tail(q)]
      /\ result = "success" => Enters(IOThread, s, head)
      /\ result # "success" => UNCHANGED thread
      /\ UNCHANGED <<services, faults, pc, life, pipes, mWritePending, mWriteQueue,
                     transfers, early, written>>
  BY DEF Dispatch, handleVars
<1>q. q \in Results /\ head \in Kinds
  BY <1>p, <1>1 DEF FlowType, Results
<1>2. /\ completions'[s] = Tail(q)
      /\ \A r \in Services : r # s => completions'[r] = completions[r]
  BY <1>p, <1>1 DEF FlowType
<1>3. \A r \in Services, k \in Kinds :
        /\ ~InCallback(r, k)
        /\ InCallback(r, k)' <=> result = "success" /\ r = s /\ k = head
  <2>1. \A r \in Services, k \in Kinds : ~InCallback(r, k)
    BY <1>1, HandlesAssumption DEF InCallback, Outside
  <2>2. CASE result = "success"
    <3> DEFINE does == head
    <3>1. thread'[IOThread] = [in |-> s, does |-> does]
      BY <1>1, <1>p, <2>2 DEF Enters, ThreadType
    <3> HIDE DEF does
    <3>2. \A r \in Services, k \in Kinds : InCallback(r, k)' <=> r = s /\ k = does
      BY <3>1 DEF InCallback
    <3> QED
      BY <2>1, <2>2, <3>2 DEF does
  <2>3. CASE result # "success"
    BY <1>1, <2>1, <2>3 DEF InCallback
  <2> QED
    BY <2>1, <2>2, <2>3
<1>4. ASSUME NEW r \in Services \ {s} PROVE Chained(r)'
  <2>1. Untouched(r)
    BY <1>1, <1>2, <1>3 DEF Untouched, WellSoFar
  <2> QED
    BY <2>1, UntouchedChained DEF ChainInv
<1> HIDE DEF q, head, result
<1>5. ASSUME NEW k \in Kinds
      PROVE  /\ Done(s, k)' \subseteq Nat /\ Done(s, k) \subseteq Nat
             /\ \A i \in Done(s, k)' : i + 1 \in Done(s, k) /\ i + 1 # 1
             /\ \A i \in Done(s, k) : i # 1 => i - 1 \in Done(s, k)'
             /\ 1 \in Done(s, k) <=> head = k
  BY <1>1, <1>q, <1>2, OfTail DEF Done, q, head
<1>6. ASSUME NEW k \in Kinds
      PROVE  /\ Single(s, k) => Single(s, k)'
             /\ Some(s, k)' => Some(s, k)
             /\ result = "success" => (Some(s, k) => Some(s, k)')
  <2>1. ASSUME Single(s, k) PROVE Single(s, k)'
    <3>1. \A i, j \in Done(s, k)' : i = j
      <4> SUFFICES ASSUME NEW i \in Done(s, k)', NEW j \in Done(s, k)' PROVE i = j
        OBVIOUS
      <4>1. i \in Nat /\ j \in Nat /\ i + 1 = j + 1
        BY <1>5, <2>1 DEF Single
      <4> QED
        BY <4>1
    <3>2. Done(s, k)' # {} => Done(s, k) # {} /\ head # k
      <4> SUFFICES ASSUME NEW i \in Done(s, k)' PROVE Done(s, k) # {} /\ head # k
        OBVIOUS
      <4>1. i + 1 \in Done(s, k) /\ i + 1 # 1
        BY <1>5
      <4>2. 1 \notin Done(s, k)
        BY <2>1, <4>1 DEF Single
      <4> QED
        BY <1>5, <4>1, <4>2
    <3>3. InCallback(s, k)' => Done(s, k) # {} /\ head = k
      BY <1>3, <1>5
    <3> QED
      BY <1>1, <2>1, <3>1, <3>2, <3>3 DEF Single
  <2>2. Some(s, k)' => Some(s, k)
    <3>1. Done(s, k)' # {} => Done(s, k) # {}
      BY <1>5
    <3>2. InCallback(s, k)' => Done(s, k) # {}
      BY <1>3, <1>5
    <3> QED
      BY <1>1, <3>1, <3>2 DEF Some
  <2>3. ASSUME result = "success", Some(s, k) PROVE Some(s, k)'
    <3>1. CASE Done(s, k) = {}
      BY <1>1, <1>3, <2>3, <3>1 DEF Some
    <3>2. ASSUME NEW i \in Done(s, k) PROVE Some(s, k)'
      <4>1. CASE i = 1
        BY <1>3, <1>5, <2>3, <4>1 DEF Some
      <4>2. CASE i # 1
        BY <1>5, <4>2 DEF Some
      <4> QED
        BY <4>1, <4>2
    <3> QED
      BY <3>1, <3>2
  <2> QED
    BY <2>1, <2>2, <2>3
<1>7. "read" \in Kinds /\ "write" \in Kinds
  BY DEF Kinds
<1>8. ReadChain(s)' /\ WriteChain(s)'
  BY <1>1, <1>6, <1>7 DEF ReadChain, WriteChain, ChainInv, Chained
<1>9. NothingFailed(s)'
  <2>1. ASSUME WellSoFar(s), life[s] \in {"constructing", "running"}
        PROVE  /\ result = "success"
               /\ \A i \in DOMAIN completions'[s] : completions'[s][i][2] = "success"
    <3>1. \A i \in DOMAIN q : q[i][2] = "success"
      BY <2>1 DEF ChainInv, Chained, NothingFailed, q
    <3>2. /\ Len(q) \in Nat \ {0} /\ DOMAIN q = 1..Len(q) /\ Head(q) = q[1]
          /\ DOMAIN Tail(q) = 1..(Len(q) - 1)
          /\ \A i \in 1..(Len(q) - 1) : Tail(q)[i] = q[i + 1]
      BY <1>q, <1>1 DEF Results
    <3> QED
      BY <1>2, <3>1, <3>2 DEF result
  <2> QED
    BY <1>1, <1>6, <1>7, <2>1 DEF ChainInv, Chained, NothingFailed, WellSoFar
<1> QED
  BY <1>4, <1>8, <1>9 DEF ChainInv, Chained

(* A callback starts the next read. *)
LEMMA ReadCallbackChain ==
  ASSUME StateInv, ChainInv, ReadCallback
  PROVE  ChainInv'
<1> USE DEF StateInv
<1>p. BusType /\ StateType /\ FlowType /\ ThreadType
  BY TypeParts
<1>s. PICK s \in Services : s = thread[IOThread].in
  BY <1>p DEF ReadCallback, Entered, ThreadType
<1>1. /\ thread[IOThread].does = "read" /\ Leaves(IOThread)
      /\ InPipe \in pipes[s] => Fails(s) \/ Starts(s, "read", 1)
      /\ Fails(s) \/ Succeeds(s) \/ UNCHANGED faults
      /\ Starts(s, "read", 1) \/ UNCHANGED transfers
      /\ UNCHANGED <<services, pc, life, pipes, mWritePending, mWriteQueue, completions,
                     early, written>>
  BY <1>s DEF ReadCallback, DoRead
<1>3. \A r \in Services, k \in Kinds :
        /\ ~InCallback(r, k)'
        /\ InCallback(r, k) <=> r = s /\ k = "read"
  <2>1. thread'[IOThread] = Outside
    BY <1>p DEF Leaves, ThreadType, ReadCallback
  <2>2. thread[IOThread] = [in |-> s, does |-> "read"]
    BY <1>s, <1>p, <1>1 DEF ThreadType
  <2>3. \A r \in Services, k \in Kinds : ~InCallback(r, k)'
    BY <2>1, HandlesAssumption DEF InCallback, Outside
  <2>4. \A r \in Services, k \in Kinds : InCallback(r, k) <=> r = s /\ k = "read"
    BY <2>2 DEF InCallback
  <2> QED
    BY <2>3, <2>4
<1>4. \A r \in Services : WellSoFar(r)' => WellSoFar(r)
  BY <1>p, <1>1, FaultsOnlyGrow
<1>5. ASSUME NEW r \in Services \ {s} PROVE Chained(r)'
  <2>1. transfers'[r] = transfers[r]
    BY <1>p, <1>1 DEF Starts, FlowType
  <2>2. Untouched(r)
    BY <1>1, <1>3, <1>4, <2>1 DEF Untouched
  <2> QED
    BY <2>2, UntouchedChained DEF ChainInv
<1>6. /\ Single(s, "read") /\ Some(s, "read") /\ transfers[s]["read"] = 0 /\ Done(s, "read") = {}
      /\ life[s] # "constructing"
  <2>1. InCallback(s, "read") /\ Single(s, "read") /\ ReadChain(s)
    BY <1>3 DEF ChainInv, Chained, ReadChain, Kinds
  <2>2. transfers[s]["read"] \in Nat
    BY <1>p DEF FlowType, Kinds
  <2> QED
    BY <2>1, <2>2 DEF Single, Some, ReadChain
<1>7. /\ transfers'[s]["write"] = transfers[s]["write"]
      /\ transfers'[s]["read"] \in {0, 1}
      /\ Starts(s, "read", 1) => transfers'[s]["read"] = 1
  BY <1>p, <1>1, <1>6 DEF Starts, FlowType, Kinds
<1>8. /\ Single(s, "write")' <=> Single(s, "write")
      /\ Some(s, "write")' <=> Some(s, "write")
  <2>1. Done(s, "write")' = Done(s, "write")
    BY <1>1 DEF Done
  <2> QED
    BY <1>3, <1>7, <2>1 DEF Single, Some, Kinds
<1>9. Single(s, "read")' /\ (Starts(s, "read", 1) => Some(s, "read")')
  <2>1. Done(s, "read")' = {}
    BY <1>1, <1>6 DEF Done
  <2> QED
    BY <1>3, <1>7, <2>1 DEF Single, Some, Kinds
<1>10. ReadChain(s)' /\ WriteChain(s)'
  BY <1>1, <1>6, <1>8, <1>9 DEF ReadChain, WriteChain, ChainInv, Chained
<1>11. NothingFailed(s)'
  <2>1. WellSoFar(s)' /\ life[s] = "running" => Starts(s, "read", 1)
    BY <1>1, <1>4, <1>p, FaultsOnlyGrow DEF ChainInv, Chained, NothingFailed, Pipes
  <2> QED
    BY <1>1, <1>4, <1>8, <1>9, <2>1 DEF ChainInv, Chained, NothingFailed
<1> QED
  BY <1>5, <1>10, <1>11 DEF ChainInv, Chained

(* While nothing fails, DoWrite leaves packets and the flag only with a write. *)
LEMMA DoWriteGoesOn ==
  ASSUME BusType, FlowType, UNCHANGED services, NEW s \in Services, NEW queue \in Nat,
         DoWrite(s, queue, FALSE), WellSoFar(s)', s \in sources, pipes[s] = Pipes
  PROVE  /\ mWriteQueue'[s] > 0 => mWritePending'[s]
         /\ mWritePending'[s] => Some(s, "write")'
<1>0. pipes[s] \cap OutPipes # {} /\ "write" \in Kinds
  BY LifeAssumption DEF Pipes, Kinds
<1>1. CASE queue = 0
  <2>1. mWriteQueue'[s] = 0 /\ mWritePending'[s] = FALSE
    BY <1>1 DEF DoWrite, FlowType
  <2> QED
    BY <2>1
<1>2. CASE queue # 0
  <2>1. PICK filled \in SUBSET OutPipes, left \in 0..queue :
          /\ left > 0 => filled # {}
          /\ mWriteQueue' = [mWriteQueue EXCEPT ![s] = left]
          /\ mWritePending' = [mWritePending EXCEPT ![s] = FALSE \/ filled # {}]
          /\ StartWrites(s, filled)
    BY <1>0, <1>2 DEF DoWrite
  <2>2. PICK started \in SUBSET filled :
          /\ Starts(s, "write", Cardinality(started))
          /\ (\E pipe \in filled \ started : pipe \in pipes[s]) => Fails(s)
    BY <2>1 DEF StartWrites
  <2>3. started = filled
    <3>1. ~Fails(s)
      BY FaultsOnlyGrow
    <3> QED
      BY <2>2, <3>1 DEF Pipes
  <2>4. ASSUME filled # {} PROVE transfers'[s]["write"] > 0
    <3>1. IsFiniteSet(started)
      BY LifeAssumption, FS_Subset
    <3>2. Cardinality(started) \in Nat /\ Cardinality(started) # 0
      BY <2>3, <2>4, <3>1, FS_CardinalityType, FS_EmptySet
    <3>3. transfers[s]["write"] \in Nat
      BY <1>0 DEF FlowType
    <3>4. transfers'[s]["write"] = transfers[s]["write"] + Cardinality(started)
      BY <1>0, <2>2 DEF Starts, FlowType
    <3> QED
      BY <3>2, <3>3, <3>4
  <2>5. mWriteQueue'[s] = left /\ mWritePending'[s] = (filled # {})
    BY <2>1 DEF FlowType
  <2> QED
    BY <2>1, <2>4, <2>5 DEF Some
<1> QED
  BY <1>1, <1>2

(* DoWrite, when no write is under way, and one pipe only has been written to
   when it is done. *)
LEMMA DoWriteAlone ==
  ASSUME FlowType, UNCHANGED completions,
         NEW s \in Services, NEW queue \in Nat, DoWrite(s, queue, FALSE),
         transfers[s]["write"] = 0, Done(s, "write") = {}, ~InCallback(s, "write")',
         AtMostOne(written'[s])
  PROVE  Single(s, "write")' /\ (Some(s, "write")' => mWritePending'[s])
<1>0. Done(s, "write")' = {} /\ "write" \in Kinds
  BY DEF Done, Kinds
<1>1. CASE queue = 0 \/ pipes[s] \cap OutPipes = {}
  <2>1. transfers'[s]["write"] = 0
    BY <1>1 DEF DoWrite
  <2> QED
    BY <1>0, <2>1 DEF Single, Some
<1>2. CASE ~(queue = 0 \/ pipes[s] \cap OutPipes = {})
  <2>1. PICK filled \in SUBSET OutPipes :
          /\ mWritePending' = [mWritePending EXCEPT ![s] = FALSE \/ filled # {}]
          /\ StartWrites(s, filled)
    BY <1>2 DEF DoWrite
  <2>2. PICK started \in SUBSET filled : Starts(s, "write", Cardinality(started))
    BY <2>1 DEF StartWrites
  <2>3. filled \subseteq written'[s]
    <3>1. written' = [written EXCEPT ![s] = @ \cup filled]
      BY <2>1 DEF StartWrites
    <3> QED
      BY <3>1 DEF FlowType
  <2>4. \A a, b \in started : a = b
    BY <2>3 DEF AtMostOne
  <2>5. transfers'[s]["write"] = Cardinality(started)
    <3>1. Cardinality(started) \in Nat
      BY LifeAssumption, FS_Subset, FS_CardinalityType
    <3> QED
      BY <1>0, <2>2, <3>1 DEF Starts, FlowType
  <2>6. CASE started = {}
    <3>1. transfers'[s]["write"] = 0
      BY <2>5, <2>6, FS_EmptySet
    <3> QED
      BY <1>0, <3>1 DEF Single, Some
  <2>7. ASSUME NEW pipe \in started
        PROVE  Single(s, "write")' /\ (Some(s, "write")' => mWritePending'[s])
    <3>1. started = {pipe}
      BY <2>4
    <3>2. transfers'[s]["write"] = 1
      BY <2>5, <3>1, FS_Singleton
    <3>3. mWritePending'[s] = TRUE
      BY <2>1 DEF FlowType
    <3> QED
      BY <1>0, <3>2, <3>3 DEF Single, Some
  <2> QED
    BY <2>6, <2>7
<1> QED
  BY <1>1, <1>2

(* What was written to stays so. *)
LEMMA WrittenGrows ==
  ASSUME FlowType, NEW s \in Services, NEW queue, DoWrite(s, queue, FALSE)
  PROVE  AtMostOne(written'[s]) => AtMostOne(written[s])
<1>1. ASSUME NEW filled, StartWrites(s, filled)
      PROVE  written[s] \subseteq written'[s]
  <2>1. written' = [written EXCEPT ![s] = @ \cup filled]
    BY <1>1 DEF StartWrites
  <2> QED
    BY <2>1 DEF FlowType
<1>2. written[s] \subseteq written'[s]
  BY <1>1 DEF DoWrite
<1> QED
  BY <1>2 DEF AtMostOne

(* A callback starts the next write, if there is one. *)
LEMMA WriteCallbackChain ==
  ASSUME StateInv, ChainInv, WriteCallback
  PROVE  ChainInv'
<1> USE DEF StateInv
<1>p. BusType /\ StateType /\ FlowType /\ ThreadType
  BY TypeParts
<1>s. PICK s \in Services : s = thread[IOThread].in
  BY <1>p DEF WriteCallback, Entered, ThreadType
<1>1. /\ thread[IOThread].does = "write" /\ Leaves(IOThread)
      /\ DoWrite(s, mWriteQueue[s], FALSE)
      /\ life[s] # "deleted"
      /\ UNCHANGED <<services, pc, life, pipes, completions, early, sources>>
  BY <1>s DEF WriteCallback
<1>2. PICK queue \in Nat : DoWrite(s, queue, FALSE)
  BY <1>p, <1>1 DEF FlowType
<1>3. \A r \in Services, k \in Kinds :
        /\ ~InCallback(r, k)'
        /\ InCallback(r, k) <=> r = s /\ k = "write"
  <2>1. thread'[IOThread] = Outside
    BY <1>p DEF Leaves, ThreadType, WriteCallback
  <2>2. thread[IOThread] = [in |-> s, does |-> "write"]
    BY <1>s, <1>p, <1>1 DEF ThreadType
  <2>3. \A r \in Services, k \in Kinds : ~InCallback(r, k)'
    BY <2>1, HandlesAssumption DEF InCallback, Outside
  <2>4. \A r \in Services, k \in Kinds : InCallback(r, k) <=> r = s /\ k = "write"
    BY <2>2 DEF InCallback
  <2> QED
    BY <2>3, <2>4
<1>4. \A r \in Services : WellSoFar(r)' => WellSoFar(r)
  BY <1>p, <1>1, <1>2, DoWriteFaults, FaultsOnlyGrow
<1>k. "read" \in Kinds /\ "write" \in Kinds
  BY DEF Kinds
<1>5. ASSUME NEW r \in Services \ {s} PROVE Chained(r)'
  <2>1. Untouched(r)
    BY <1>p, <1>1, <1>2, <1>3, <1>4, DoWriteElsewhere DEF Untouched
  <2> QED
    BY <2>1, UntouchedChained DEF ChainInv
<1>6. /\ Single(s, "read")' <=> Single(s, "read")
      /\ Some(s, "read")' <=> Some(s, "read")
  <2>1. /\ Done(s, "read")' = Done(s, "read") /\ ~InCallback(s, "read")
        /\ ~InCallback(s, "read")' /\ transfers'[s]["read"] = transfers[s]["read"]
    BY <1>p, <1>1, <1>2, <1>3, <1>k, DoWriteElsewhere DEF Done
  <2> QED
    BY <2>1 DEF Single, Some
<1>7. ReadChain(s)'
  BY <1>1, <1>6 DEF ReadChain, ChainInv, Chained
<1>8. CASE s \in early
  BY <1>1, <1>4, <1>5, <1>6, <1>7, <1>8 DEF WriteChain, NothingFailed, ChainInv, Chained
<1>9. CASE s \notin early
  <2>1. InCallback(s, "write") /\ WriteChain(s) /\ life[s] # "constructing"
    BY <1>3, <1>9, <1>k DEF ChainInv, Chained, WriteChain, Some
  <2>2. ASSUME AtMostOne(written'[s])
        PROVE  Single(s, "write")' /\ (Some(s, "write")' => mWritePending'[s])
    <3>1. Single(s, "write") /\ transfers[s]["write"] \in Nat
      BY <1>p, <1>k, <1>2, <1>9, <2>1, <2>2, WrittenGrows DEF WriteChain, FlowType
    <3>2. transfers[s]["write"] = 0 /\ Done(s, "write") = {}
      BY <2>1, <3>1 DEF Single
    <3> QED
      BY <1>p, <1>1, <1>2, <1>3, <1>k, <2>2, <3>2, DoWriteAlone
  <2>3. WriteChain(s)'
    BY <1>1, <2>1, <2>2 DEF WriteChain
  <2>4. NothingFailed(s)'
    <3>1. WellSoFar(s)' /\ life[s] = "running" =>
            /\ mWritePending'[s] => Some(s, "write")'
            /\ mWriteQueue'[s] > 0 => mWritePending'[s]
      BY <1>p, <1>1, <1>2, <1>4, DoWriteGoesOn DEF NothingFailed, ChainInv, Chained, Sources
    <3> QED
      BY <1>1, <1>4, <1>6, <2>1, <3>1 DEF NothingFailed, ChainInv, Chained
  <2> QED
    BY <1>5, <1>7, <2>3, <2>4 DEF ChainInv, Chained
<1> QED
  BY <1>8, <1>9

(* A client's packet. *)
LEMMA SendLockedChain ==
  ASSUME StateInv, ChainInv, NEW c \in Clients, SendLocked(c)
  PROVE  ChainInv'
<1> USE DEF StateInv
<1>p. BusType /\ StateType /\ FlowType /\ ThreadType
  BY TypeParts
<1>s. PICK s \in Services : s = thread[c].in
  BY <1>p DEF SendLocked, Entered, ThreadType
<1>1. /\ Leaves(c) /\ life[s] # "deleted" /\ life[s] # "none"
      /\ early' = IF life[s] = "constructing" THEN early \cup {s} ELSE early
      /\ UNCHANGED <<services, pc, life, pipes, completions, sources>>
  BY <1>s, <1>p, HandlesAssumption, SendLockedStep DEF Entered
<1>q. PICK parts \in Nat :
        \/ /\ mWritePending[s]
           /\ mWriteQueue' = [mWriteQueue EXCEPT ![s] = @ + parts]
           /\ UNCHANGED <<mWritePending, transfers, faults, written>>
        \/ ~mWritePending[s] /\ DoWrite(s, mWriteQueue[s] + parts, FALSE)
  BY <1>s, SendLockedStep
<1>2. ASSUME ~mWritePending[s]
      PROVE  \E queue \in Nat : DoWrite(s, queue, FALSE)
  <2>1. mWriteQueue[s] + parts \in Nat
    BY <1>p DEF FlowType
  <2> QED
    BY <1>q, <1>2, <2>1
<1>3. \A r \in Services, k \in Kinds : InCallback(r, k)' <=> InCallback(r, k)
  <2>1. thread'[IOThread] = thread[IOThread]
    BY <1>1, <1>p, LifeAssumption DEF Leaves, ThreadType
  <2> QED
    BY <2>1 DEF InCallback
<1>k. "read" \in Kinds /\ "write" \in Kinds
  BY DEF Kinds
<1>4. /\ \A r \in Services : r # s => /\ transfers'[r] = transfers[r]
                                      /\ mWritePending'[r] = mWritePending[r]
                                      /\ mWriteQueue'[r] = mWriteQueue[r]
                                      /\ written'[r] = written[r]
      /\ transfers'[s]["read"] = transfers[s]["read"]
      /\ Fails(s) \/ Succeeds(s) \/ UNCHANGED faults
  <2>1. CASE mWritePending[s]
    BY <1>q, <1>p, <2>1 DEF FlowType
  <2>2. CASE ~mWritePending[s]
    BY <1>2, <1>p, <2>2, DoWriteElsewhere, DoWriteFaults
  <2> QED
    BY <2>1, <2>2
<1>5. \A r \in Services : WellSoFar(r)' => WellSoFar(r)
  BY <1>p, <1>1, <1>4, FaultsOnlyGrow
<1>6. ASSUME NEW r \in Services \ {s} PROVE Chained(r)'
  <2>1. Untouched(r)
    BY <1>1, <1>3, <1>4, <1>5 DEF Untouched
  <2> QED
    BY <2>1, UntouchedChained DEF ChainInv
<1>7. /\ Single(s, "read")' <=> Single(s, "read")
      /\ Some(s, "read")' <=> Some(s, "read")
  <2>1. Done(s, "read")' = Done(s, "read")
    BY <1>1 DEF Done
  <2> QED
    BY <1>3, <1>4, <1>k, <2>1 DEF Single, Some
<1>8. ReadChain(s)'
  BY <1>1, <1>7 DEF ReadChain, ChainInv, Chained
<1>9. CASE s \in early \/ life[s] = "constructing"
  <2>1. s \in early'
    BY <1>1, <1>9
  <2> QED
    BY <1>1, <1>5, <1>6, <1>7, <1>8, <2>1 DEF WriteChain, NothingFailed, ChainInv, Chained
<1>10. CASE s \notin early /\ life[s] # "constructing" /\ mWritePending[s]
  <2>1. /\ Single(s, "write")' <=> Single(s, "write")
        /\ Some(s, "write")' <=> Some(s, "write")
    <3>1. Done(s, "write")' = Done(s, "write") /\ transfers' = transfers
      BY <1>1, <1>q, <1>10 DEF Done
    <3> QED
      BY <1>3, <1>k, <3>1 DEF Single, Some
  <2>2. UNCHANGED <<mWritePending, written>>
    BY <1>q, <1>10
  <2> QED
    BY <1>1, <1>5, <1>6, <1>7, <1>8, <1>10, <2>1, <2>2 DEF WriteChain, NothingFailed, ChainInv, Chained
<1>11. CASE s \notin early /\ life[s] # "constructing" /\ ~mWritePending[s]
  <2>1. ASSUME AtMostOne(written'[s])
        PROVE  Single(s, "write")' /\ (Some(s, "write")' => mWritePending'[s])
    <3>1. ~Some(s, "write")
      BY <1>1, <1>2, <1>p, <1>11, <2>1, WrittenGrows DEF ChainInv, Chained, WriteChain
    <3>2. transfers[s]["write"] \in Nat
      BY <1>k, <1>p DEF FlowType
    <3>3. transfers[s]["write"] = 0 /\ Done(s, "write") = {} /\ ~InCallback(s, "write")
      BY <3>1, <3>2 DEF Some
    <3> QED
      BY <1>p, <1>1, <1>2, <1>3, <1>k, <1>11, <2>1, <3>3, DoWriteAlone
  <2>2. WellSoFar(s)' /\ life[s] = "running" =>
          /\ mWritePending'[s] => Some(s, "write")'
          /\ mWriteQueue'[s] > 0 => mWritePending'[s]
    BY <1>p, <1>1, <1>2, <1>5, <1>11, DoWriteGoesOn DEF NothingFailed, ChainInv, Chained, Sources
  <2>3. WriteChain(s)'
    BY <1>1, <1>11, <2>1 DEF WriteChain
  <2>4. NothingFailed(s)'
    BY <1>1, <1>5, <1>7, <1>11, <2>2 DEF NothingFailed, ChainInv, Chained
  <2> QED
    BY <1>6, <1>8, <2>3, <2>4 DEF ChainInv, Chained
<1> QED
  BY <1>9, <1>10, <1>11

(* The constructor. *)
LEMMA ConstructorChain ==
  ASSUME StateInv, ChainInv, FindPipes \/ AddSource \/ SetPending \/ FirstRead
  PROVE  ChainInv'
<1> USE DEF StateInv
<1>p. BusType /\ StateType /\ FlowType /\ ThreadType
  BY TypeParts
<1>k. "read" \in Kinds /\ "write" \in Kinds
  BY DEF Kinds
<1>s. PICK s \in Services : s = local.device
  BY TypeParts DEF FindPipes, AddSource, SetPending, FirstRead, RunType, Locals, Adding,
                   Constructing
<1>1. /\ UNCHANGED <<services, mWriteQueue, completions, thread, early, written>>
      /\ Fails(s) \/ Succeeds(s) \/ UNCHANGED faults
      /\ pc = "found" => life[s] = "none"
      /\ pc # "found" => life[s] = "constructing"
      /\ \A r \in Services : r # s => life[r] # "constructing"
  BY <1>s, DoReadStep DEF FindPipes, AddSource, SetPending, FirstRead, Constructed, Found, Places,
         Adding, Constructing
<1>2. \A r \in Services : r # s => /\ transfers'[r] = transfers[r]
                                   /\ mWritePending'[r] = mWritePending[r]
                                   /\ pipes'[r] = pipes[r] /\ life'[r] = life[r]
  BY <1>s, <1>p DEF FindPipes, AddSource, SetPending, FirstRead, Constructed, DoRead, Starts,
                    FlowType, StateType
<1>3. \A r \in Services : WellSoFar(r)' => WellSoFar(r)
  BY <1>p, <1>1, FaultsOnlyGrow
<1>4. \A r \in Services, k \in Kinds : InCallback(r, k)' <=> InCallback(r, k)
  BY <1>1 DEF InCallback
<1>5. ASSUME NEW r \in Services \ {s} PROVE Chained(r)'
  <2>1. Untouched(r)
    BY <1>1, <1>2, <1>3, <1>4 DEF Untouched
  <2> QED
    BY <2>1, UntouchedChained DEF ChainInv
<1>6. \A k \in Kinds : Done(s, k)' = Done(s, k)
  BY <1>1 DEF Done
<1>7. ASSUME UNCHANGED transfers, NEW k \in Kinds
      PROVE  /\ Single(s, k)' <=> Single(s, k)
             /\ Some(s, k)' <=> Some(s, k)
  BY <1>4, <1>6, <1>7 DEF Single, Some
<1>n. ASSUME life[s] = "none", NEW k \in Kinds
      PROVE  ~Some(s, k) /\ completions[s] = <<>> /\ mWriteQueue[s] = 0
  <2>1. completions[s] = <<>> /\ transfers[s][k] = 0 /\ mWriteQueue[s] = 0
    BY <1>n DEF Sources
  <2>2. ~InCallback(s, k)
    BY <1>n, HandlesAssumption DEF InCallback, Entered
  <2>3. Done(s, k) = {}
    BY <2>1, OfEmpty DEF Done
  <2> QED
    BY <2>1, <2>2, <2>3 DEF Some
<1>w. ASSUME s \notin early
      PROVE  ~Some(s, "write") /\ mWriteQueue[s] = 0
             /\ (pc = "firstRead" => ~mWritePending[s])
  <2>1. CASE life[s] = "none"
    BY <1>1, <1>k, <1>n, <2>1
  <2>2. CASE life[s] = "constructing"
    BY <1>w, <2>2 DEF ChainInv, Chained, WriteChain
  <2> QED
    BY <1>1, <2>1, <2>2
<1>r. ~Some(s, "read")
  <2>1. CASE life[s] = "none"
    BY <1>k, <1>n, <2>1
  <2>2. CASE life[s] = "constructing"
    BY <2>2 DEF ChainInv, Chained, ReadChain
  <2> QED
    BY <1>1, <2>1, <2>2
<1>e. ASSUME WellSoFar(s)
      PROVE  \A i \in DOMAIN completions[s] : completions[s][i][2] = "success"
  <2>1. CASE life[s] = "none"
    BY <1>k, <1>n, <2>1
  <2>2. CASE life[s] = "constructing"
    BY <1>e, <2>2 DEF ChainInv, Chained, NothingFailed
  <2> QED
    BY <1>1, <2>1, <2>2
(* It goes on, or leaves early. *)
<1>8. ASSUME UNCHANGED transfers, life'[s] \in {"constructing", "broken"},
             WellSoFar(s)' /\ life'[s] = "constructing" => pipes'[s] = Pipes,
             pc' = "firstRead" => mWritePending'[s] = FALSE
      PROVE  Chained(s)'
  <2>1. ReadChain(s)'
    BY <1>7, <1>8, <1>k, <1>r DEF ReadChain, ChainInv, Chained
  <2>2. WriteChain(s)'
    BY <1>1, <1>7, <1>8, <1>k, <1>w DEF WriteChain, ChainInv, Chained
  <2>3. NothingFailed(s)'
    BY <1>1, <1>3, <1>8, <1>e DEF NothingFailed
  <2> QED
    BY <2>1, <2>2, <2>3 DEF Chained
<1>9. CASE FindPipes
  <2>1. /\ UNCHANGED transfers /\ life'[s] \in {"constructing", "broken"}
        /\ pc' # "firstRead"
    BY <1>s, <1>9, <1>p DEF FindPipes, Constructed, Found, StateType
  <2>2. pipes'[s] = Pipes \/ Fails(s)
    BY <1>s, <1>9, <1>p DEF FindPipes, FlowType
  <2>3. WellSoFar(s)' => pipes'[s] = Pipes
    BY <1>p, <1>1, <2>2, FaultsOnlyGrow
  <2> QED
    BY <1>5, <1>8, <2>1, <2>3 DEF ChainInv
<1>10. CASE AddSource
  <2>1. /\ UNCHANGED transfers /\ life'[s] \in {"constructing", "broken"}
        /\ pc' # "firstRead" /\ life[s] = "constructing" /\ UNCHANGED pipes
    BY <1>s, <1>1, <1>10, <1>p DEF AddSource, Constructed, Found, StateType
  <2> QED
    BY <1>3, <1>5, <1>8, <2>1 DEF ChainInv, Chained, NothingFailed
<1>11. CASE SetPending
  <2>1. /\ UNCHANGED <<transfers, pipes, life>> /\ mWritePending'[s] = FALSE
        /\ life[s] = "constructing"
    BY <1>s, <1>1, <1>11, <1>p DEF SetPending, FlowType
  <2> QED
    BY <1>3, <1>5, <1>8, <2>1 DEF ChainInv, Chained, NothingFailed
<1>12. CASE FirstRead
  <2>1. /\ life'[s] = "running" /\ pc = "firstRead" /\ pc' = "closeDevice"
        /\ UNCHANGED mWritePending
        /\ InPipe \in pipes[s] => Starts(s, "read", 1) \/ Fails(s)
        /\ Starts(s, "read", 1) \/ UNCHANGED transfers
        /\ UNCHANGED <<pipes, written>>
    BY <1>s, <1>12, <1>p DEF FirstRead, DoRead, Constructed, Found, StateType
  <2>2. transfers[s]["read"] = 0
    BY <1>r, <1>k, <1>p DEF Some, FlowType
  <2>3. /\ transfers'[s]["write"] = transfers[s]["write"]
        /\ transfers'[s]["read"] \in {0, 1}
        /\ Starts(s, "read", 1) => transfers'[s]["read"] = 1
    BY <1>p, <2>1, <2>2 DEF Starts, FlowType, Kinds
  <2>4. Single(s, "read")' /\ (Starts(s, "read", 1) => Some(s, "read")')
    <3>1. Done(s, "read")' = {} /\ ~InCallback(s, "read")'
      BY <1>4, <1>6, <1>k, <1>r DEF Some
    <3> QED
      BY <2>3, <3>1 DEF Single, Some
  <2>5. /\ Single(s, "write")' <=> Single(s, "write")
        /\ Some(s, "write")' <=> Some(s, "write")
    BY <1>4, <1>6, <1>k, <2>3 DEF Single, Some
  <2>6. Fails(s) => ~WellSoFar(s)'
    BY <1>p, <1>1, FaultsOnlyGrow
  <2>7. ReadChain(s)'
    BY <2>1, <2>4 DEF ReadChain
  <2>8. WriteChain(s)'
    BY <1>1, <1>w, <2>1, <2>5 DEF WriteChain, ChainInv, Chained
  <2>9. NothingFailed(s)'
    <3>1. WellSoFar(s) => pipes[s] = Pipes
      BY <1>1, <2>1 DEF NothingFailed, ChainInv, Chained
    <3>2. WellSoFar(s)' => Starts(s, "read", 1)
      BY <1>3, <2>1, <2>6, <3>1 DEF Pipes
    <3> QED
      BY <1>1, <1>3, <1>e, <1>w, <2>1, <2>4, <3>1, <3>2 DEF NothingFailed
  <2> QED
    BY <1>5, <2>7, <2>8, <2>9 DEF ChainInv, Chained
<1> QED
  BY <1>9, <1>10, <1>11, <1>12

(* DeviceRemoved and Stop come to the destructor. *)
LEMMA DestroyChain ==
  ASSUME StateInv, ChainInv, (\E s \in Services : DeviceRemoved(s)) \/ Stop
  PROVE  ChainInv'
<1> USE DEF StateInv
<1>p. StateType
  BY TypeParts
<1>1. /\ UNCHANGED <<services, faults, transfers, completions, thread, pipes,
                     mWritePending, mWriteQueue, early, written>>
      /\ pc' # "firstRead"
      /\ \/ UNCHANGED life
         \/ \E s \in Services : InList(s) /\ life' = [life EXCEPT ![s] = "deleting"]
  <2>1. ASSUME NEW s \in Services, DeviceRemoved(s) PROVE <1>1!:
    <3>1. CASE InList(s)
      BY <2>1, <3>1 DEF DeviceRemoved, Destroy
    <3>2. CASE ~InList(s)
      BY <2>1, <3>2 DEF DeviceRemoved, Places
    <3> QED
      BY <3>1, <3>2
  <2>2. CASE Stop
    <3>1. CASE \E s \in Services : InList(s)
      BY <2>2, <3>1 DEF Stop, Destroy
    <3>2. CASE ~\E s \in Services : InList(s)
      BY <2>2, <3>2 DEF Stop
    <3> QED
      BY <3>1, <3>2
  <2> QED
    BY <2>1, <2>2
<1>2. ASSUME NEW s \in Services PROVE Chained(s)'
  <2>1. CASE life'[s] = life[s]
    <3>1. Untouched(s)
      BY <1>1, <2>1 DEF Untouched, InCallback, WellSoFar
    <3> QED
      BY <3>1, UntouchedChained DEF ChainInv
  <2>2. CASE life'[s] # life[s]
    <3>1. life'[s] = "deleting" /\ life[s] \in {"running", "broken"}
      BY <1>p, <1>1, <2>2 DEF StateType, InList
    <3>2. \A k \in Kinds : /\ Single(s, k)' <=> Single(s, k)
                           /\ Some(s, k)' <=> Some(s, k)
      BY <1>1 DEF Single, Some, Done, InCallback
    <3> QED
      BY <1>1, <3>1, <3>2 DEF Chained, ReadChain, WriteChain, NothingFailed, ChainInv, Kinds
  <2> QED
    BY <2>1, <2>2
<1> QED
  BY <1>2 DEF ChainInv

LEMMA OfConcat ==
  ASSUME NEW results \in Results, NEW more \in Results, NEW kind \in Kinds
  PROVE  Of(kind, results \o more)
           = Of(kind, results) \cup {Len(results) + i : i \in Of(kind, more)}
<1> DEFINE n == Len(results)
           m == Len(more)
           longer == results \o more
<1>1. /\ n \in Nat /\ m \in Nat /\ DOMAIN results = 1..n /\ DOMAIN more = 1..m
      /\ DOMAIN longer = 1..(n + m)
      /\ \A i \in 1..n : longer[i] = results[i]
      /\ \A i \in 1..m : longer[n + i] = more[i]
  BY DEF Results
<1> HIDE DEF n, m, longer
<1>2. \A i \in 1..(n + m) : i \in 1..n \/ (i - n \in 1..m /\ n + (i - n) = i)
  BY <1>1
<1>3. \A i \in 1..m : n + i \in 1..(n + m)
  BY <1>1
<1>4. \A i \in 1..n : i \in 1..(n + m)
  BY <1>1
<1>5. ASSUME NEW i \in Of(kind, longer)
      PROVE  i \in Of(kind, results) \cup {n + j : j \in Of(kind, more)}
  <2>1. CASE i \in 1..n
    BY <1>1, <1>5, <2>1 DEF Of
  <2>2. CASE i - n \in 1..m /\ n + (i - n) = i
    <3>1. i - n \in Of(kind, more)
      BY <1>1, <1>5, <2>2 DEF Of
    <3> QED
      BY <2>2, <3>1
  <2> QED
    BY <1>1, <1>2, <1>5, <2>1, <2>2 DEF Of
<1>6. ASSUME NEW i \in Of(kind, results) \cup {n + j : j \in Of(kind, more)}
      PROVE  i \in Of(kind, longer)
  <2>1. CASE i \in Of(kind, results)
    BY <1>1, <1>4, <2>1 DEF Of
  <2>2. ASSUME NEW j \in Of(kind, more), i = n + j PROVE i \in Of(kind, longer)
    BY <1>1, <1>3, <2>2 DEF Of
  <2> QED
    BY <1>6, <2>1, <2>2
<1> QED
  BY <1>5, <1>6 DEF n, longer

LEMMA Repeated ==
  ASSUME NEW S, NEW e \in S, NEW n \in Nat
  PROVE  [i \in 1..n |-> e] \in Seq(S) /\ Len([i \in 1..n |-> e]) = n
OBVIOUS

LEMMA AbortedKinds ==
  ASSUME FlowType, NEW s \in Services, NEW kind \in Kinds
  PROVE  /\ Aborted(s) \in Results
         /\ Of(kind, Aborted(s)) # {} => transfers[s][kind] > 0
         /\ Of(kind, Aborted(s)) \subseteq Nat
         /\ transfers[s][kind] <= 1 => \A i, j \in Of(kind, Aborted(s)) : i = j
<1> DEFINE n == transfers[s]["read"]
           m == transfers[s]["write"]
           reads == [i \in 1..n |-> <<"read", "aborted">>]
           writes == [i \in 1..m |-> <<"write", "aborted">>]
<1>1. n \in Nat /\ m \in Nat /\ Aborted(s) = reads \o writes
  BY DEF FlowType, Kinds, Aborted
<1>2. /\ <<"read", "aborted">> \in Kinds \X Outcomes
      /\ <<"write", "aborted">> \in Kinds \X Outcomes
  BY DEF Kinds, Outcomes
<1>3. /\ reads \in Results /\ Len(reads) = n
      /\ writes \in Results /\ Len(writes) = m
  BY <1>1, <1>2, Repeated DEF Results
<1>4. /\ Of("read", reads) = 1..n /\ Of("write", reads) = {}
      /\ Of("write", writes) = 1..m /\ Of("read", writes) = {}
  BY <1>1 DEF Of
<1> HIDE DEF reads, writes
<1>5. "read" \in Kinds /\ "write" \in Kinds /\ (kind = "read" \/ kind = "write")
  BY DEF Kinds
<1>6. /\ Of("read", Aborted(s)) = 1..n
      /\ Of("write", Aborted(s)) = {n + i : i \in 1..m}
  <2>1. Of("read", Aborted(s)) = Of("read", reads) \cup {n + i : i \in Of("read", writes)}
    BY <1>1, <1>3, <1>5, OfConcat
  <2>2. Of("write", Aborted(s)) = Of("write", reads) \cup {n + i : i \in Of("write", writes)}
    BY <1>1, <1>3, <1>5, OfConcat
  <2>3. {n + i : i \in {}} = {}
    OBVIOUS
  <2> QED
    BY <1>4, <2>1, <2>2, <2>3
<1>7. Aborted(s) \in Results
  BY <1>1, <1>3 DEF Results
<1>8. CASE kind = "read"
  BY <1>1, <1>6, <1>7, <1>8
<1>9. CASE kind = "write"
  <2>1. m <= 1 => \A i, j \in 1..m : i = j
    BY <1>1
  <2> QED
    BY <1>1, <1>6, <1>7, <1>9, <2>1
<1> QED
  BY <1>5, <1>8, <1>9

(* What the destructor does to its InterfaceState. *)
LEMMA VictimChain ==
  ASSUME StateInv, ChainInv, NEW s \in Services, life[s] = "deleting",
         \A r \in Services : r # s => Untouched(r),
         ASSUME NEW k \in Kinds
         PROVE  /\ Single(s, k) => Single(s, k)'
                /\ Some(s, k)' => Some(s, k),
         UNCHANGED <<life, mWritePending, early, written>>
  PROVE  ChainInv'
<1>1. Chained(s)'
  BY DEF Chained, ReadChain, WriteChain, NothingFailed, ChainInv, Kinds
<1> QED
  BY <1>1, UntouchedChained DEF ChainInv

LEMMA DestructorChain ==
  ASSUME StateInv, ChainInv, AbortPipes \/ RemoveSource \/ Delete
  PROVE  ChainInv'
<1> USE DEF StateInv
<1>p. BusType /\ StateType /\ FlowType /\ ThreadType
  BY TypeParts
<1>k. "read" \in Kinds /\ "write" \in Kinds
  BY DEF Kinds
<1>s. PICK s \in Services : s = victim /\ life[s] = "deleting"
  BY TypeParts DEF AbortPipes, RemoveSource, Delete, RunType, Destroying, Places
<1>1. UNCHANGED <<services, faults, thread>> /\ pc' # "firstRead"
  BY DEF AbortPipes, RemoveSource, Delete
<1>c. \A r \in Services, k \in Kinds : InCallback(r, k)' <=> InCallback(r, k)
  BY <1>1 DEF InCallback
<1>2. CASE AbortPipes
  <2>1. /\ completions'[s] = completions[s] \o Aborted(s)
        /\ \A k \in Kinds : transfers'[s][k] = 0
        /\ \A r \in Services : r # s => completions'[r] = completions[r]
                                       /\ transfers'[r] = transfers[r]
        /\ UNCHANGED <<life, pipes, mWritePending, mWriteQueue, early, written>>
    BY <1>s, <1>2, <1>p DEF AbortPipes, FlowType
  <2>2. ASSUME NEW k \in Kinds
        PROVE  /\ Single(s, k) => Single(s, k)'
               /\ Some(s, k)' => Some(s, k)
    <3>1. completions[s] \in Results /\ Len(completions[s]) \in Nat
      BY <1>p DEF FlowType, Results
    <3>2. Done(s, k)' = Done(s, k) \cup {Len(completions[s]) + i : i \in Of(k, Aborted(s))}
      BY <1>p, <2>1, <3>1, OfConcat, AbortedKinds DEF Done
    <3>3. Done(s, k)' # Done(s, k) => transfers[s][k] > 0
      BY <1>p, <3>2, AbortedKinds
    <3>4. Some(s, k)' => Some(s, k)
      BY <1>c, <2>1, <3>3 DEF Some
    <3>5. ASSUME Single(s, k) PROVE Single(s, k)'
      <4>1. CASE Done(s, k)' = Done(s, k)
        BY <1>c, <2>1, <3>5, <4>1 DEF Single
      <4>2. CASE Done(s, k)' # Done(s, k)
        <5>1. Done(s, k) = {} /\ ~InCallback(s, k) /\ transfers[s][k] <= 1
          BY <3>3, <3>5, <4>2 DEF Single
        <5>2. \A i, j \in Done(s, k)' : i = j
          BY <1>p, <3>2, <5>1, AbortedKinds
        <5> QED
          BY <1>c, <2>1, <5>1, <5>2 DEF Single
      <4> QED
        BY <4>1, <4>2
    <3> QED
      BY <3>4, <3>5
  <2>3. \A r \in Services : r # s => Untouched(r)
    BY <1>1, <1>c, <2>1 DEF Untouched, WellSoFar
  <2> QED
    BY <1>s, <2>1, <2>2, <2>3, VictimChain
<1>3. CASE RemoveSource
  <2>1. /\ completions'[s] = <<>>
        /\ \A r \in Services : r # s => completions'[r] = completions[r]
        /\ UNCHANGED <<life, pipes, mWritePending, mWriteQueue, early, transfers, written>>
    BY <1>s, <1>3, <1>p DEF RemoveSource, FlowType
  <2>2. \A k \in Kinds : Done(s, k)' = {}
    BY <2>1, OfEmpty DEF Done
  <2>3. ASSUME NEW k \in Kinds
        PROVE  /\ Single(s, k) => Single(s, k)'
               /\ Some(s, k)' => Some(s, k)
    BY <1>c, <2>1, <2>2 DEF Single, Some
  <2>4. \A r \in Services : r # s => Untouched(r)
    BY <1>1, <1>c, <2>1 DEF Untouched, WellSoFar
  <2> QED
    BY <1>s, <2>1, <2>3, <2>4, VictimChain
<1>4. CASE Delete
  <2>1. /\ life'[s] = "deleted" /\ \A k \in Kinds : transfers'[s][k] = 0
        /\ UNCHANGED completions /\ completions[s] = <<>>
        /\ \A r \in Services : r # s =>
             /\ life'[r] = life[r] /\ transfers'[r] = transfers[r]
             /\ mWritePending'[r] = mWritePending[r] /\ mWriteQueue'[r] = mWriteQueue[r]
             /\ pipes'[r] = pipes[r] /\ written'[r] = written[r]
             /\ r \in early' <=> r \in early
    BY <1>s, <1>4, <1>p DEF Delete, StateType, FlowType, Sources
  <2>2. \A r \in Services : r # s => Untouched(r)
    BY <1>1, <1>c, <2>1 DEF Untouched, WellSoFar
  <2>3. \A k \in Kinds : Single(s, k)'
    <3>1. \A k \in Kinds : Done(s, k)' = {}
      BY <2>1, OfEmpty DEF Done
    <3> QED
      BY <2>1, <3>1 DEF Single
  <2>4. Chained(s)'
    BY <1>k, <2>1, <2>3 DEF Chained, ReadChain, WriteChain, NothingFailed
  <2> QED
    BY <2>2, <2>4, UntouchedChained DEF ChainInv
<1> QED
  BY <1>2, <1>3, <1>4

LEMMA NextChainInv == StateInv /\ ChainInv /\ [Next]_vars => ChainInv'
<1> SUFFICES ASSUME StateInv, ChainInv, [Next]_vars PROVE ChainInv'
  OBVIOUS
<1>1. CASE RunLoop
  BY <1>1, QuietChain, ConstructorChain, DestroyChain, DestructorChain DEF RunLoop
<1>2. CASE pc = "idle" /\ Stop
  BY <1>2, DestroyChain
<1>3. CASE IOStep
  BY <1>3, DispatchChain, ReadCallbackChain, WriteCallbackChain DEF IOStep
<1>4. CASE \E s \in Services, kind \in Kinds : Complete(s, kind)
  BY <1>4, CompleteChain
<1>5. CASE \/ \E s \in Services : Plug(s) \/ Unplug(s)
           \/ UNCHANGED vars
  BY <1>5, QuietChain
<1>6. CASE \E c \in Clients : Send(c) \/ SendLocked(c)
  BY <1>6, QuietChain, SendLockedChain
<1> QED
  BY <1>1, <1>2, <1>3, <1>4, <1>5, <1>6 DEF Next

LEMMA ChainInvImplies == StateInv /\ ChainInv => OneChain
<1> SUFFICES ASSUME StateInv, ChainInv, NEW s \in Services
             PROVE  /\ AtMostOne(UnderWay(s, "read"))
                    /\ s \notin early /\ AtMostOne(written[s]) =>
                         AtMostOne(UnderWay(s, "write"))
                    /\ life[s] = "running" /\ services[s] = "present" /\ faults = 0 =>
                         /\ UnderWay(s, "read") # {}
                         /\ mWriteQueue[s] > 0 => s \in early \/ UnderWay(s, "write") # {}
  BY DEF OneChain
<1>p. FlowType /\ "read" \in Kinds /\ "write" \in Kinds
  BY TypeParts DEF StateInv, Kinds
<1>1. ASSUME NEW k \in Kinds
      PROVE  UnderWay(s, k) = {<<"transfer", n>> : n \in 1..transfers[s][k]}
                              \cup {<<"completion", i>> : i \in Done(s, k)}
                              \cup {<<"callback", 1>> : t \in {u \in {IOThread} : InCallback(s, k)}}
  BY DEF UnderWay, Done, Of, InCallback
<1>2. ASSUME NEW k \in Kinds, Single(s, k)
      PROVE  AtMostOne(UnderWay(s, k))
  <2>1. transfers[s][k] \in Nat
    BY <1>p DEF FlowType
  <2>2. \A n \in 1..transfers[s][k] : n = 1 /\ transfers[s][k] > 0
    BY <1>2, <2>1 DEF Single
  <2> QED
    BY <1>1, <1>2, <2>2 DEF Single, AtMostOne
<1>3. ASSUME NEW k \in Kinds, Some(s, k)
      PROVE  UnderWay(s, k) # {}
  <2>1. CASE transfers[s][k] > 0
    <3>1. 1 \in 1..transfers[s][k]
      BY <1>p, <2>1 DEF FlowType
    <3> QED
      BY <1>1, <3>1
  <2>2. CASE Done(s, k) # {}
    <3>1. PICK i \in Done(s, k) : TRUE
      BY <2>2
    <3>2. <<"completion", i>> \in {<<"completion", j>> : j \in Done(s, k)}
      OBVIOUS
    <3> QED
      BY <1>1, <3>2
  <2>3. CASE InCallback(s, k)
    BY <1>1, <2>3
  <2> QED
    BY <1>3, <2>1, <2>2, <2>3 DEF Some
<1> QED
  BY <1>p, <1>2, <1>3 DEF ChainInv, Chained, ReadChain, WriteChain, NothingFailed, WellSoFar

(* One buffer is enough for the reads of an InterfaceState, and one for its writes
   as long as it wrote to one OUT pipe only.  Reading never ends while nothing
   fails, nor does writing, on any number of OUT pipes, while packets are queued:
   ReadCallback, WriteCallback, Send and the constructor start a transfer when
   the one before has ended. *)
THEOREM OneChainHolds == Spec => []OneChain
<1>1. StateInv /\ ChainInv => OneChain
  BY ChainInvImplies
<1>2. Init => StateInv /\ ChainInv
  BY InitStateInv, InitChain
<1>3. StateInv /\ ChainInv /\ [Next]_vars => StateInv' /\ ChainInv'
  BY NextStateInv, NextChainInv
<1> QED
  BY <1>1, <1>2, <1>3, PTL DEF Spec
=============================================================================
