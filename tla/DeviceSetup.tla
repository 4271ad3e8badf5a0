----------------------------- MODULE DeviceSetup -----------------------------
(***************************************************************************)
(* How the driver keeps the MIDI setup in step with the USB bus: class     *)
(* InterfaceRunner (version 2 of the driver interface), the notification   *)
(* iterators of USBDeviceManager that feed it, and connectedMIDISPORT,     *)
(* which MatchDevice leaves behind for everybody.                          *)
(*                                                                         *)
(* I/O Kit delivers arrivals and removals through two iterators.  An       *)
(* iterator that was drained to its end is armed, and the next object that *)
(* enters it sends one message to the notification port; a callback drains *)
(* its iterator, and objects that enter meanwhile are drained as well.     *)
(* All of the code here runs on one run loop; the bus changes at any time. *)
(*                                                                         *)
(* A plug creates an I/O service; services are numbered as they are        *)
(* created, and one is present until its unit is unplugged.  Which of them *)
(* are MIDISPORTs is up to the configuration file, read when the plug-in   *)
(* is loaded.                                                              *)
(***************************************************************************)
EXTENDS FiniteSets, HardwareConfiguration

CONSTANTS Units, Locations,
          Home,           \* [Units -> SUBSET Locations]: where it is plugged in
          Product,        \* [Units -> Nat]: the warm product ids
          Configs,        \* what CONFIG_FILE_PATH may hold
          Garbage,        \* what a variable nothing assigned may hold
          MaxPlugs, MaxStarts, MaxFaults   \* bounds

ASSUME SetupAssumption ==
  /\ Product \in [Units -> Nat]
  /\ Home \in [Units -> SUBSET Locations]
  /\ MaxPlugs \in Nat /\ MaxStarts \in Nat /\ MaxFaults \in Nat

VARIABLES services,     \* all I/O services so far: [unit, location, present]
          adds,         \* mDeviceAddIterator: services it has yet to return
          removes,      \* mDeviceRemoveIterator
          armed,        \* which of the two sends a message at the next object
          port,         \* messages on mNotifyPort
          pc,           \* what the run loop is doing
          setup,        \* the driver's MIDI devices, as installed
          interfaces,   \* mInterfaceStateList
          deviceList,   \* hardwareConfig->deviceList
          connectedMIDISPORT,   \* a DeviceFirmware
          starts, faults

bus == <<services, adds, removes, armed, port>>
vars == <<bus, pc, setup, interfaces, deviceList, connectedMIDISPORT, starts,
          faults>>

NoRefCon == 0

Init == /\ services = <<>> /\ adds = {} /\ removes = {}
        /\ armed = {} /\ port = <<>>
        /\ pc = "unloaded"
        /\ setup = <<>> /\ interfaces = <<>>
        /\ deviceList = EmptyList
        /\ connectedMIDISPORT \in {DeviceFirmware(EmptyList, g) : g \in Garbage}
        /\ starts = 0 /\ faults = 0

Present(s) == services[s].present
ProductOf(s) == Product[services[s].unit]
Runs == pc \notin {"unloaded", "terminated", "stopped"}
Live == {ifs.service : ifs \in ToSet(interfaces)}

-----------------------------------------------------------------------------
(* The bus. *)

(* An object enters the iterator of one kind of notification. *)
Notify(kind) ==
  IF kind \in armed
    THEN port' = Append(port, kind) /\ armed' = armed \ {kind}
    ELSE UNCHANGED <<port, armed>>

Plug(u, l) ==
  /\ Len(services) < MaxPlugs /\ l \in Home[u]
  /\ \A s \in DOMAIN services :
       Present(s) => services[s].unit # u /\ services[s].location # l
  /\ services' = Append(services, [unit |-> u, location |-> l, present |-> TRUE])
  /\ IF Runs
       THEN adds' = adds \cup {Len(services')} /\ Notify("add")
       ELSE UNCHANGED <<adds, port, armed>>
  /\ UNCHANGED <<removes, pc, setup, interfaces, connectedMIDISPORT, starts,
                 faults>>

Unplug(s) ==
  /\ Present(s)
  /\ services' = [services EXCEPT ![s].present = FALSE]
  /\ IF Runs
       THEN removes' = removes \cup {s} /\ Notify("remove")
       ELSE UNCHANGED <<removes, port, armed>>
  /\ UNCHANGED <<adds, pc, setup, interfaces, connectedMIDISPORT, starts,
                 faults>>

-----------------------------------------------------------------------------
(* The run loop. *)

(* The factory of the plug-in constructs MIDISPORT, which reads the file.  When
   it cannot be read the constructor throws through the factory, where nobody
   catches, and the MIDI server goes down as it does on a missing number. *)
NewMIDISPORTDriver ==
  /\ pc = "unloaded"
  /\ \E config \in Configs, garbage \in Garbage :
       LET read == ReadConfigFile(config, garbage)
       IN  /\ pc' = IF read.result = "true" THEN "stopped" ELSE "terminated"
           /\ deviceList' = read.deviceList
  /\ UNCHANGED <<bus, setup, interfaces, connectedMIDISPORT, starts, faults>>

(* Two notifications are requested: the iterators hold what is present, and
   nothing that was terminated. *)
RequestNotifications ==
  /\ adds' = {s \in DOMAIN services : Present(s)} /\ removes' = {}
  /\ armed' = {} /\ port' = <<>>

(* The iterators are released and the messages with them. *)
ReleaseNotifications ==
  /\ adds' = {} /\ removes' = {}
  /\ armed' = {} /\ port' = <<>>

(* Mutant: what was present before is not marked. *)
StartKeepsOnline ==
  /\ pc = "stopped" /\ starts < MaxStarts
  /\ starts' = starts + 1
  /\ RequestNotifications
  /\ pc' = "scanAdds"
  /\ UNCHANGED <<services, setup, interfaces, connectedMIDISPORT, faults>>

(* Start constructs the InterfaceRunner: everything in the setup is marked
   offline, and ScanDevices drains both iterators, which is what arms them. *)
Start ==
  /\ pc = "stopped" /\ starts < MaxStarts
  /\ starts' = starts + 1
  /\ RequestNotifications
  /\ setup' = [i \in DOMAIN setup |-> [setup[i] EXCEPT !.offline = TRUE]]
  /\ pc' = "scanAdds"
  /\ UNCHANGED <<services, interfaces, connectedMIDISPORT, faults>>

(* Stop deletes the InterfaceRunner: its InterfaceStates and the iterators go,
   the setup stays as it is. *)
Stop ==
  /\ pc = "idle"
  /\ pc' = "stopped"
  /\ interfaces' = <<>>
  /\ ReleaseNotifications
  /\ UNCHANGED <<services, setup, connectedMIDISPORT, starts, faults>>

Callback ==
  /\ pc = "idle" /\ port # <<>>
  /\ pc' = IF Head(port) = "add" THEN "adds" ELSE "removes"
  /\ port' = Tail(port)
  /\ UNCHANGED <<services, adds, removes, armed, setup, interfaces,
                 connectedMIDISPORT, starts, faults>>

(* Mutant: a callback takes one object from its iterator. *)
DrainedEarly ==
  /\ \/ /\ pc \in {"scanAdds", "adds"}
        /\ pc' = IF pc = "scanAdds" THEN "scanRemoves" ELSE "idle"
        /\ armed' = armed \cup {"add"}
     \/ /\ pc \in {"scanRemoves", "removes"}
        /\ pc' = "idle"
        /\ armed' = armed \cup {"remove"}
  /\ UNCHANGED <<services, adds, removes, port, setup, interfaces,
                 connectedMIDISPORT, starts, faults>>

(* IOIteratorNext returns NULL. *)
Drained ==
  /\ \/ /\ pc \in {"scanAdds", "adds"} /\ adds = {}
        /\ pc' = IF pc = "scanAdds" THEN "scanRemoves" ELSE "idle"
        /\ armed' = armed \cup {"add"}
     \/ /\ pc \in {"scanRemoves", "removes"} /\ removes = {}
        /\ pc' = "idle"
        /\ armed' = armed \cup {"remove"}
  /\ UNCHANGED <<services, adds, removes, port, setup, interfaces,
                 connectedMIDISPORT, starts, faults>>

-----------------------------------------------------------------------------
(* DevicesAdded. *)

SameProduct(p) == {i \in DOMAIN setup : setup[i].product = p}

(* Mutant: only pass 2. *)
DeviceInSetupOffline(p, l) ==
  {i \in SameProduct(p) : i = Min(SameProduct(p)) /\ setup[i].offline}

(* Both passes over the setup leave the inner loop at the first MIDI device of
   the product, whether or not it is taken: pass 1 takes it for its location,
   pass 2 for being offline.  So the device in the setup is this one or none. *)
DeviceInSetup(p, l) ==
  {i \in SameProduct(p) : /\ i = Min(SameProduct(p))
                          /\ setup[i].location = l \/ setup[i].offline}

(* Mutant: the device is not marked online. *)
OnlineNot(entry, s, constructed) ==
  [entry EXCEPT !.refCon = IF constructed THEN s ELSE @]

(* The entry is there, its endpoints' refCons are set to the new
   InterfaceState when its constructor got that far, and it is online. *)
Online(entry, s, constructed) ==
  [entry EXCEPT !.offline = FALSE,
                !.refCon = IF constructed THEN s ELSE @]

(* A MIDI device of the model of service s, as FoundInterface completes it. *)
CreateDevice(s) ==
  [product |-> ProductOf(s), location |-> services[s].location,
   offline |-> FALSE, refCon |-> NoRefCon]

(* An InterfaceState for service s, with buffers of the size GetInterfaceInfo
   reads from connectedMIDISPORT, at the end of mInterfaceStateList. *)
NewInterface(s, i, constructed) ==
  interfaces' = Append(interfaces,
                       [service |-> s, midiDevice |-> i,
                        constructed |-> constructed,
                        writeBufSize |-> connectedMIDISPORT'.writeBufSize])

(* Mutant: the new MIDI device is not added to the setup. *)
FoundInterfaceNotAdded(s, constructed) ==
  LET found == DeviceInSetup(ProductOf(s), services[s].location)
      i == IF found # {} THEN Min(found) ELSE Len(setup) + 1
  IN  /\ setup' = IF found # {}
                    THEN [setup EXCEPT ![i] = Online(@, s, constructed)]
                    ELSE setup
      /\ NewInterface(s, i, constructed)

(* FoundInterface: the MIDI device is looked up or created, and an
   InterfaceState is created for it. *)
FoundInterface(s, constructed) ==
  LET found == DeviceInSetup(ProductOf(s), services[s].location)
      i == IF found # {} THEN Min(found) ELSE Len(setup) + 1
  IN  /\ setup' = IF found # {}
                    THEN [setup EXCEPT ![i] = Online(@, s, constructed)]
                    ELSE Append(setup, Online(CreateDevice(s), s, constructed))
      /\ NewInterface(s, i, constructed)

(* The vendor's, and its product id is a warm boot id of the configuration. *)
MatchDevice(s) == WithWarmId(deviceList, ProductOf(s)) # {}

(* One object of the add iterator: gone by now, not matched, or matched, and
   then set up, or not when it cannot be opened or configured. *)
DeviceAdded(s) ==
  /\ pc \in {"scanAdds", "adds"} /\ s \in adds
  /\ adds' = adds \ {s}
  /\ \/ /\ ~(Present(s) /\ MatchDevice(s))
        /\ UNCHANGED <<setup, interfaces, connectedMIDISPORT, faults>>
     \/ /\ Present(s) /\ MatchDevice(s)
        /\ connectedMIDISPORT' =
             DeviceFirmwareForWarmBootId(deviceList, ProductOf(s))
        /\ \/ FoundInterface(s, TRUE) /\ UNCHANGED faults
           \/ /\ faults < MaxFaults /\ faults' = faults + 1
              /\ \/ FoundInterface(s, FALSE)
                 \/ UNCHANGED <<setup, interfaces>>
  /\ UNCHANGED <<services, removes, armed, port, pc, starts>>

(* The first InterfaceState of service s, or 0. *)
InterfaceOf(s) == SelectInSeq(interfaces, LAMBDA ifs : ifs.service = s)

(* One object of the remove iterator, in DeviceRemoved: its MIDI device is
   marked offline, and its InterfaceState is deleted and leaves the list; the
   refCons of the endpoints stay. *)
DeviceRemoved(s) ==
  /\ pc \in {"scanRemoves", "removes"} /\ s \in removes
  /\ removes' = removes \ {s}
  /\ LET i == InterfaceOf(s)
     IN  IF i = 0
           THEN UNCHANGED <<setup, interfaces>>
           ELSE /\ setup' = [setup EXCEPT ![interfaces[i].midiDevice].offline = TRUE]
                /\ interfaces' = RemoveAt(interfaces, i)
  /\ UNCHANGED <<services, adds, armed, port, pc, connectedMIDISPORT, starts,
                 faults>>

-----------------------------------------------------------------------------
Next == \/ NewMIDISPORTDriver
        \/ /\ \/ Start \/ Stop \/ Callback \/ Drained
              \/ \E u \in Units, l \in Locations : Plug(u, l)
              \/ \E s \in DOMAIN services :
                   Unplug(s) \/ DeviceAdded(s) \/ DeviceRemoved(s)
           /\ UNCHANGED deviceList

Spec == Init /\ [][Next]_vars

-----------------------------------------------------------------------------
(* Iterators and lists are about services and setup entries there are. *)
TypeOK ==
  /\ adds \cup removes \cup Live \subseteq DOMAIN services
  /\ \A ifs \in ToSet(interfaces) : ifs.midiDevice \in DOMAIN setup
  /\ \A e \in ToSet(setup) : /\ e.product \in Range(Product)
                             /\ e.location \in Locations
                             /\ e.refCon \in DOMAIN services \cup {NoRefCon}
  /\ pc \in {"unloaded", "terminated", "stopped", "scanAdds", "scanRemoves", "idle", "adds", "removes"}

(* No notification is lost: an object an iterator holds is announced by a
   message on the port, or the drain that will return it is under way or, in
   the scan of Start, still to come. *)
PendingIsAnnounced ==
  /\ adds # {} => "add" \in ToSet(port) \/ pc \in {"scanAdds", "adds"}
  /\ removes # {} => \/ "remove" \in ToSet(port)
                     \/ pc \in {"scanAdds", "scanRemoves", "removes"}

(* When the run loop has nothing left to do, there is exactly one
   InterfaceState for every present service of a model the configuration
   names, but for those lost to a fault, and none for any other. *)
InterfacesFollowBus ==
  pc = "idle" /\ port = <<>> =>
    /\ \A i, j \in DOMAIN interfaces :
         interfaces[i].service = interfaces[j].service => i = j
    /\ \A s \in Live : Present(s) /\ MatchDevice(s)
    /\ Cardinality({s \in DOMAIN services : Present(s) /\ MatchDevice(s)} \ Live)
         <= faults

(* While the driver runs, a MIDI device that is online has an InterfaceState,
   and its endpoints lead to a living one of its own, if constructed. *)
OnlineIsServed ==
  Runs =>
    \A i \in DOMAIN setup :
      ~setup[i].offline =>
        \E ifs \in ToSet(interfaces) :
          /\ ifs.midiDevice = i
          /\ ifs.constructed => setup[i].refCon = ifs.service

(* "see if it's already in the setup, matching by locationID and productID":
   a MIDI device is created only for a product and location not in the setup. *)
AlreadyInSetup ==
  [][Len(setup') > Len(setup) =>
       LET new == Last(setup')
       IN  \A e \in ToSet(setup) :
             <<e.product, e.location>> # <<new.product, new.location>>]_vars

(* "marking midiDevice online": once the run loop is idle, the MIDI device of
   every InterfaceState is online, unless its unit had been plugged in before.
   The exception is needed: when a drain returns the new service of a unit
   before the removal of the old one, both have the same MIDI device, and
   DeviceRemoved marks it offline for good. *)
ServedIsOnline ==
  pc = "idle" /\ port = <<>> =>
    \A ifs \in ToSet(interfaces) :
      setup[ifs.midiDevice].offline =>
        \E s \in 1..(ifs.service - 1) :
          services[s].unit = services[ifs.service].unit

(* "a maximum size of writeBufSize (dependent on the device)": what
   PrepareOutput takes for the size of an interface's buffers is their size. *)
OwnBufferSize ==
  \A ifs \in ToSet(interfaces) :
    connectedMIDISPORT.writeBufSize = ifs.writeBufSize
=============================================================================
