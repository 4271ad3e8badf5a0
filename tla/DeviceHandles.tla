---------------------------- MODULE DeviceHandles ----------------------------
(***************************************************************************)
(* USBDeviceManager::DevicesAdded and the handles it works with: for each  *)
(* service of the add iterator a reference to the I/O object, an interface *)
(* to the device (COM, counted), an iterator over its interfaces, and for  *)
(* each of those an I/O object and a COM interface.  The device and one    *)
(* interface are also opened.  Every call may fail, and each failure has   *)
(* its label to go to.  FoundInterface, which may keep device and          *)
(* interface, is the subclass's.  What happens between the calls, the bus  *)
(* and the drain of the iterators, is in DeviceSetup in more detail.       *)
(***************************************************************************)
EXTENDS Integers, FiniteSets, Sequences

CONSTANTS Services,          \* I/O services the iterator may return
          NoService,         \* NULL
          InterfaceNumber,   \* sequence: the interfaces' numbers, which USB keeps apart
          DesiredInterface,  \* GetInterfaceToUse
          MaxFaults          \* bound: calls that fail on a present device

ASSUME HandlesAssumption ==
  /\ NoService \notin Services
  /\ InterfaceNumber \in Seq(Nat) /\ DesiredInterface \in Nat
  /\ \A i, j \in DOMAIN InterfaceNumber :
       InterfaceNumber[i] = InterfaceNumber[j] => i = j
  /\ MaxFaults \in Nat

VARIABLES services,   \* per service: "never", "present" or "gone"
          adds,       \* mDeviceAddIterator
          pc,         \* where the run loop is
          local,      \* the locals of DevicesAdded
          refs,       \* references held, per handle
          open,       \* handles that are open
          faults

handleVars == <<services, adds, pc, local, refs, open, faults>>

Interfaces == DOMAIN InterfaceNumber
Object(s)       == <<s, "object", 0>>      \* ioDeviceObj
Device(s)       == <<s, "device", 0>>      \* deviceIntf
Iterator(s)     == <<s, "iterator", 0>>    \* intfIter
InterfaceObject(s, i) == <<s, "interfaceObject", i>>   \* ioInterfaceObj
Interface(s, i) == <<s, "interface", i>>   \* interfaceIntf

HandlesOf(s) == {Object(s), Device(s), Iterator(s)}
                \cup {InterfaceObject(s, i) : i \in Interfaces}
                \cup {Interface(s, i) : i \in Interfaces}
Handles == UNION {HandlesOf(s) : s \in Services}

(* interface is the index interfaceIntf was last set for, 0 for NULL; index
   that of ioInterfaceObj. *)
NoLocals == [device |-> NoService, deviceIntf |-> FALSE, iterator |-> FALSE,
             index |-> 0, interface |-> 0, keepOpen |-> FALSE]

HandlesInit ==
  /\ services = [s \in Services |-> "never"] /\ adds = {}
  /\ pc = "idle" /\ local = NoLocals
  /\ refs = [h \in Handles |-> 0] /\ open = {}
  /\ faults = 0

Retain(h) == refs' = [refs EXCEPT ![h] = @ + 1]
If(condition, hs) == IF condition THEN hs ELSE {}
Release(hs) == refs' = [h \in Handles |-> refs[h] - (IF h \in hs THEN 1 ELSE 0)]

(* A call on a device that is gone fails (a call that still succeeds is one
   before the device went), one on a device that is there may fail at the price
   of a fault. *)
Succeeds(s) == services[s] = "present" /\ UNCHANGED faults
Fails(s) == IF services[s] = "present"
              THEN faults < MaxFaults /\ faults' = faults + 1
              ELSE UNCHANGED faults

-----------------------------------------------------------------------------
(* The body of the loop, up to FoundInterface. *)

NextDevice(s) ==
  /\ pc = "adds" /\ s \in adds
  /\ adds' = adds \ {s}
  /\ local' = [NoLocals EXCEPT !.device = s]
  /\ Retain(Object(s))
  /\ pc' = "createPlugIn"
  /\ UNCHANGED <<services, open, faults>>

(* There may be no plug-in: "We let it slide". *)
CreatePlugIn ==
  /\ pc = "createPlugIn"
  /\ \/ Succeeds(local.device) /\ pc' = "queryDevice" /\ UNCHANGED <<local, refs>>
     \/ /\ Fails(local.device) /\ pc' = "adds"
        /\ Release({Object(local.device)}) /\ local' = NoLocals
  /\ UNCHANGED <<services, adds, open>>

QueryDevice ==
  /\ pc = "queryDevice"
  /\ \/ /\ Succeeds(local.device) /\ pc' = "matchDevice"
        /\ local' = [local EXCEPT !.deviceIntf = TRUE]
        /\ Retain(Device(local.device))
     \/ Fails(local.device) /\ pc' = "nextDevice" /\ UNCHANGED <<local, refs>>
  /\ UNCHANGED <<services, adds, open>>

(* Its ids and its configuration descriptor are read.  It may be a device the
   subclass does not match. *)
MatchDevice ==
  /\ pc = "matchDevice"
  /\ \/ Succeeds(local.device) /\ pc' \in {"openDevice", "nextDevice"}
     \/ Fails(local.device) /\ pc' = "nextDevice"
  /\ UNCHANGED <<services, adds, local, refs, open>>

OpenDevice ==
  /\ pc = "openDevice"
  /\ \/ /\ Succeeds(local.device)
        /\ pc' = "setConfiguration" /\ open' = open \cup {Device(local.device)}
     \/ Fails(local.device) /\ pc' = "nextDevice" /\ UNCHANGED open
  /\ UNCHANGED <<services, adds, local, refs>>

SetConfiguration ==
  /\ pc = "setConfiguration"
  /\ \/ Succeeds(local.device) /\ pc' = "createIterator"
     \/ Fails(local.device) /\ pc' = "closeDevice"
  /\ UNCHANGED <<services, adds, local, refs, open>>

CreateInterfaceIterator ==
  /\ pc = "createIterator"
  /\ \/ /\ Succeeds(local.device) /\ pc' = "interfaces"
        /\ local' = [local EXCEPT !.iterator = TRUE]
        /\ Retain(Iterator(local.device))
     \/ Fails(local.device) /\ pc' = "closeDevice" /\ UNCHANGED <<local, refs>>
  /\ UNCHANGED <<services, adds, open>>

-----------------------------------------------------------------------------
(* The interface loop. *)

(* The iterator ends early when the device is gone. *)
NextInterface ==
  /\ pc = "interfaces"
  /\ \/ /\ local.index < Len(InterfaceNumber)
        /\ local' = [local EXCEPT !.index = @ + 1]
        /\ Retain(InterfaceObject(local.device, local.index + 1))
        /\ pc' = "interfacePlugIn"
     \/ /\ \/ local.index = Len(InterfaceNumber)
           \/ services[local.device] = "gone"
        /\ pc' = "closeDevice" /\ UNCHANGED <<local, refs>>
  /\ UNCHANGED <<services, adds, open, faults>>

InterfacePlugIn ==
  /\ pc = "interfacePlugIn"
  /\ \/ Succeeds(local.device) /\ pc' = "queryInterface"
     \/ Fails(local.device) /\ pc' = "nextInterface"
  /\ UNCHANGED <<services, adds, local, refs, open>>

QueryInterface ==
  /\ pc = "queryInterface"
  /\ \/ /\ Succeeds(local.device) /\ pc' = "interfaceOpen"
        /\ local' = [local EXCEPT !.interface = local.index]
        /\ Retain(Interface(local.device, local.index))
     \/ /\ Fails(local.device) /\ pc' = "nextInterface"
        /\ local' = [local EXCEPT !.interface = 0] /\ UNCHANGED refs
  /\ UNCHANGED <<services, adds, open>>

(* It is opened if it has the desired number. *)
InterfaceOpen ==
  /\ pc = "interfaceOpen"
  /\ \/ /\ Succeeds(local.device)
        /\ IF InterfaceNumber[local.index] = DesiredInterface
             THEN /\ pc' = "found"
                  /\ open' = open \cup {Interface(local.device, local.index)}
             ELSE pc' = "nextInterface" /\ UNCHANGED open
     \/ Fails(local.device) /\ pc' = "nextInterface" /\ UNCHANGED open
  /\ UNCHANGED <<services, adds, local, refs>>

(* FoundInterface returns keepOpen, and the break skips nextInterface. *)
Found(keepOpen) ==
  /\ local' = [local EXCEPT !.keepOpen = keepOpen]
  /\ open' = IF keepOpen THEN open
                         ELSE open \ {Interface(local.device, local.index)}
  /\ pc' = "closeDevice"
  /\ UNCHANGED <<services, adds, refs>>

(* Mutant: interfaceIntf is released for interface objects only. *)
InterfaceDoneKeeps ==
  /\ pc = "nextInterface"
  /\ Release({InterfaceObject(local.device, local.index)})
  /\ pc' = "interfaces"
  /\ UNCHANGED <<services, adds, local, open, faults>>

(* nextInterface: interfaceIntf is released but not set to NULL, so that when
   the next interface has no plug-in it is released again. *)
InterfaceDone ==
  /\ pc = "nextInterface"
  /\ Release({InterfaceObject(local.device, local.index)}
             \cup If(local.interface # 0,
                     {Interface(local.device, local.interface)}))
  /\ pc' = "interfaces"
  /\ UNCHANGED <<services, adds, local, open, faults>>

CloseDevice ==
  /\ pc = "closeDevice"
  /\ Release(If(local.iterator, {Iterator(local.device)}))
  /\ open' = IF local.keepOpen THEN open ELSE open \ {Device(local.device)}
  /\ pc' = "nextDevice"
  /\ UNCHANGED <<services, adds, local, faults>>

DeviceDone ==
  /\ pc = "nextDevice"
  /\ Release({Object(local.device)}
             \cup If(local.deviceIntf /\ ~local.keepOpen, {Device(local.device)}))
  /\ local' = NoLocals
  /\ pc' = "adds"
  /\ UNCHANGED <<services, adds, open, faults>>

DevicesAdded ==
  \/ \E s \in Services : NextDevice(s)
  \/ CreatePlugIn \/ QueryDevice \/ MatchDevice \/ OpenDevice
  \/ SetConfiguration \/ CreateInterfaceIterator
  \/ NextInterface \/ InterfacePlugIn \/ QueryInterface \/ InterfaceOpen
  \/ InterfaceDone \/ CloseDevice \/ DeviceDone
=============================================================================
