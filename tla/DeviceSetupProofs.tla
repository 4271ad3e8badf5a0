-------------------------- MODULE DeviceSetupProofs --------------------------
(* Proofs that no notification is lost between the bus and the run loop, that
   the InterfaceStates follow the bus, and that the MIDI devices that are online
   are those that are served: for any units, locations, configurations and
   bounds.  Three invariants carry them: IInv, of the messages on the port,
   ServedInv, of the MIDI devices that are online, and CoreInv, of what is on
   the bus against what is on the list and in the setup. *)
EXTENDS DeviceSetup, SequenceLemmas, FiniteSetTheorems

(* An iterator that is not armed has sent a message, or is being drained. *)
Announced(kind, objects, scans) ==
  /\ objects # {} => kind \in ToSet(port) \/ pc \in scans
  /\ Runs /\ kind \notin armed => kind \in ToSet(port) \/ pc \in scans
  /\ ~Runs => objects = {}

AddScans == {"scanAdds", "adds"}
RemoveScans == {"scanAdds", "scanRemoves", "removes"}

IInv == /\ port \in Seq({"add", "remove"})
        /\ Announced("add", adds, AddScans)
        /\ Announced("remove", removes, RemoveScans)

(* The messages of the port are the first and the rest. *)
LEMMA ToSetTail ==
  ASSUME NEW s \in Seq({"add", "remove"}), s # <<>>
  PROVE  /\ Tail(s) \in Seq({"add", "remove"})
         /\ ToSet(s) = {Head(s)} \cup ToSet(Tail(s))
<1>1. /\ Tail(s) \in Seq({"add", "remove"}) /\ Len(Tail(s)) = Len(s) - 1
      /\ \A i \in 1..Len(Tail(s)) : Tail(s)[i] = s[i + 1]
      /\ Len(s) \in Nat \ {0} /\ Head(s) = s[1]
  BY HeadTailProperties
<1>2. /\ ToSet(s) = {s[i] : i \in 1..Len(s)}
      /\ ToSet(Tail(s)) = {Tail(s)[i] : i \in 1..(Len(s) - 1)}
  <2> DEFINE q == Tail(s)
  <2> HIDE DEF q
  <2>1. DOMAIN s = 1..Len(s) /\ DOMAIN q = 1..Len(q) /\ Len(q) = Len(s) - 1
    BY <1>1 DEF q
  <2>2. ToSet(q) = {q[i] : i \in 1..(Len(s) - 1)}
    BY <2>1 DEF ToSet
  <2> QED
    BY <2>1, <2>2 DEF ToSet, q
<1>3. ASSUME NEW x \in ToSet(s)
      PROVE  x \in {Head(s)} \cup ToSet(Tail(s))
  <2>1. PICK i \in 1..Len(s) : x = s[i]
    BY <1>2
  <2>2. CASE i = 1
    BY <1>1, <2>1, <2>2
  <2>3. CASE i # 1
    <3>1. i - 1 \in 1..(Len(s) - 1) /\ (i - 1) + 1 = i
      BY <1>1, <2>3
    <3>2. Tail(s)[i - 1] = s[i]
      BY <1>1, <3>1
    <3> QED
      BY <1>2, <2>1, <3>1, <3>2
  <2> QED
    BY <2>2, <2>3
<1>4. ASSUME NEW x \in {Head(s)} \cup ToSet(Tail(s))
      PROVE  x \in ToSet(s)
  <2>1. CASE x = Head(s)
    BY <1>1, <1>2, <2>1
  <2>2. CASE x \in ToSet(Tail(s))
    <3>1. PICK i \in 1..(Len(s) - 1) : x = Tail(s)[i]
      BY <1>2, <2>2
    <3>2. i + 1 \in 1..Len(s) /\ x = s[i + 1]
      BY <1>1, <3>1
    <3> QED
      BY <1>2, <3>2
  <2> QED
    BY <2>1, <2>2
<1> QED
  BY <1>1, <1>3, <1>4

(* An object enters an iterator of its kind while the driver runs. *)
LEMMA NotifyAnnounces ==
  ASSUME NEW kind \in {"add", "remove"}, port \in Seq({"add", "remove"}),
         Notify(kind)
  PROVE  /\ port' \in Seq({"add", "remove"})
         /\ ToSet(port) \subseteq ToSet(port')
         /\ armed' \subseteq armed /\ armed \ armed' \subseteq {kind}
         /\ kind \in armed => kind \in ToSet(port')
         /\ armed \ armed' \subseteq ToSet(port')
<1>1. CASE kind \in armed
  <2>1. port' = Append(port, kind) /\ armed' = armed \ {kind}
    BY <1>1 DEF Notify
  <2>2. /\ Append(port, kind) \in Seq({"add", "remove"})
        /\ ToSet(Append(port, kind)) = ToSet(port) \cup {kind}
    BY ToSetAppend
  <2> QED
    BY <1>1, <2>1, <2>2
<1>2. CASE kind \notin armed
  BY <1>2 DEF Notify
<1> QED
  BY <1>1, <1>2

(* The driver starts with empty iterators. *)
LEMMA InitIInv == Init => IInv
BY DEF Init, IInv, Announced, Runs

(* What enters an iterator on the bus is announced. *)
LEMMA BusIInv ==
  ASSUME IInv, \/ \E u \in Units, l \in Locations : Plug(u, l)
               \/ \E s \in DOMAIN services : Unplug(s)
  PROVE  IInv'
<1> USE DEF IInv, Announced, Runs
<1>1. ASSUME NEW u \in Units, NEW l \in Locations, Plug(u, l)
      PROVE  IInv'
  <2>1. CASE Runs
    <3>1. /\ Notify("add") /\ pc' = pc /\ removes' = removes
      BY <1>1, <2>1 DEF Plug
    <3> QED
      BY <2>1, <3>1, NotifyAnnounces
  <2>2. CASE ~Runs
    <3>1. UNCHANGED <<pc, adds, removes, port, armed>>
      BY <1>1, <2>2 DEF Plug
    <3> QED
      BY <3>1
  <2> QED
    BY <2>1, <2>2
<1>2. ASSUME NEW s \in DOMAIN services, Unplug(s)
      PROVE  IInv'
  <2>1. CASE Runs
    <3>1. /\ Notify("remove") /\ pc' = pc /\ adds' = adds
      BY <1>2, <2>1 DEF Unplug
    <3> QED
      BY <2>1, <3>1, NotifyAnnounces
  <2>2. CASE ~Runs
    <3>1. UNCHANGED <<pc, adds, removes, port, armed>>
      BY <1>2, <2>2 DEF Unplug
    <3> QED
      BY <3>1
  <2> QED
    BY <2>1, <2>2
<1> QED
  BY <1>1, <1>2

(* Every step keeps what is in an iterator announced. *)
LEMMA StepIInv == IInv /\ [Next]_vars => IInv'
<1> SUFFICES ASSUME IInv, [Next]_vars PROVE IInv'
  OBVIOUS
<1> USE DEF IInv, Announced, Runs, AddScans, RemoveScans
<1>1. CASE NewMIDISPORTDriver
  <2>1. /\ pc = "unloaded" /\ pc' \in {"stopped", "terminated"}
        /\ UNCHANGED <<adds, removes, armed, port>>
    BY <1>1 DEF NewMIDISPORTDriver, bus
  <2> QED
    BY <2>1
<1>2. CASE Start
  BY <1>2 DEF Start, RequestNotifications
<1>3. CASE Stop
  BY <1>3 DEF Stop, ReleaseNotifications
<1>4. CASE Callback
  <2>1. /\ pc = "idle" /\ port # <<>> /\ port' = Tail(port)
        /\ pc' = IF Head(port) = "add" THEN "adds" ELSE "removes"
        /\ UNCHANGED <<adds, removes, armed>>
    BY <1>4 DEF Callback
  <2>2. /\ port' \in Seq({"add", "remove"})
        /\ ToSet(port) = {Head(port)} \cup ToSet(port')
    BY <2>1, ToSetTail
  <2> QED
    BY <2>1, <2>2
<1>5. CASE Drained
  BY <1>5 DEF Drained
<1>6. CASE \/ \E u \in Units, l \in Locations : Plug(u, l)
           \/ \E s \in DOMAIN services : Unplug(s)
  BY <1>6, BusIInv
<1>7. ASSUME NEW s \in DOMAIN services, DeviceAdded(s) \/ DeviceRemoved(s)
      PROVE  IInv'
  BY <1>7 DEF DeviceAdded, DeviceRemoved
<1>8. CASE UNCHANGED vars
  BY <1>8 DEF vars, bus
<1> QED
  BY <1>1, <1>2, <1>3, <1>4, <1>5, <1>6, <1>7, <1>8 DEF Next

(* Objects in an iterator have a message on the port, or a drain ahead of
   them that returns them: for any units, locations, configurations, faults. *)
THEOREM NoNotificationLost == Spec => []PendingIsAnnounced
<1>1. IInv => PendingIsAnnounced
  BY DEF IInv, Announced, AddScans, RemoveScans, PendingIsAnnounced
<1> QED
  BY <1>1, InitIInv, StepIInv, PTL DEF Spec

-----------------------------------------------------------------------------
(* OnlineIsServed, which is inductive once the setup is known to be a list of
   MIDI devices. *)

MIDIDevices == [product : Nat, location : Locations, offline : BOOLEAN, refCon : Nat]
Services == [unit : Units, location : Locations, present : BOOLEAN]

ServedInv == /\ setup \in Seq(MIDIDevices)
             /\ services \in Seq(Services)
             /\ interfaces \in Seq(ToSet(interfaces))
             /\ OnlineIsServed

(* A MIDI device that goes offline is one. *)
LEMMA OfflineEntry ==
  ASSUME NEW e \in MIDIDevices
  PROVE  [e EXCEPT !.offline = TRUE] \in MIDIDevices /\ [e EXCEPT !.offline = TRUE].offline
BY DEF MIDIDevices

(* A service that goes is one. *)
LEMMA GoneService ==
  ASSUME NEW e \in Services
  PROVE  [e EXCEPT !.present = FALSE] \in Services
BY DEF Services

(* The driver starts with an empty setup. *)
LEMMA InitServed == Init => ServedInv
<1> SUFFICES ASSUME Init PROVE ServedInv
  OBVIOUS
<1>1. setup = <<>> /\ services = <<>> /\ interfaces = <<>> /\ pc = "unloaded"
  BY DEF Init
<1> QED
  BY <1>1 DEF ServedInv, OnlineIsServed, Runs

(* FoundInterface puts a MIDI device online with the InterfaceState it made. *)
LEMMA FoundIsServed ==
  ASSUME ServedInv, NEW s \in DOMAIN services, NEW constructed \in BOOLEAN,
         FoundInterface(s, constructed), Runs, SetupAssumption
  PROVE  /\ setup' \in Seq(MIDIDevices)
         /\ interfaces' \in Seq(ToSet(interfaces'))
         /\ (Runs' => OnlineIsServed')
<1> DEFINE found == DeviceInSetup(ProductOf(s), services[s].location)
           i == IF found # {} THEN Min(found) ELSE Len(setup) + 1
           new == [service |-> s, midiDevice |-> i, constructed |-> constructed,
                   writeBufSize |-> connectedMIDISPORT'.writeBufSize]
<1>1. /\ setup \in Seq(MIDIDevices) /\ services[s] \in Services /\ s \in Nat
      /\ Len(setup) \in Nat /\ DOMAIN setup = 1..Len(setup)
  BY DEF ServedInv
<1>2. ProductOf(s) \in Nat /\ services[s].location \in Locations
  BY <1>1, SetupAssumption DEF ProductOf, Services, SetupAssumption
<1>3. found # {} => Min(found) \in 1..Len(setup)
  <2>1. found \subseteq 1..Len(setup)
    BY <1>1 DEF DeviceInSetup, SameProduct
  <2> QED
    BY <2>1, MinIsLeast
<1>4. /\ interfaces' = Append(interfaces, new)
      /\ interfaces' \in Seq(ToSet(interfaces'))
      /\ ToSet(interfaces') = ToSet(interfaces) \cup {new}
  <2>1. interfaces' = Append(interfaces, new)
    BY DEF FoundInterface, NewInterface
  <2> HIDE DEF new
  <2> QED
    BY <2>1, ListAppend DEF ServedInv
<1> HIDE DEF found
<1>5. ASSUME NEW e \in MIDIDevices
      PROVE  /\ Online(e, s, constructed) \in MIDIDevices
             /\ constructed => Online(e, s, constructed).refCon = s
  BY <1>1 DEF Online, MIDIDevices
<1>6. CreateDevice(s) \in MIDIDevices
  BY <1>2 DEF CreateDevice, MIDIDevices, NoRefCon
<1>7. /\ setup' \in Seq(MIDIDevices)
      /\ DOMAIN setup' = 1..Len(setup) \cup {i}
      /\ constructed => setup'[i].refCon = s
      /\ \A j \in 1..Len(setup) : j # i => setup'[j] = setup[j]
  <2>1. CASE found # {}
    <3>1. i \in 1..Len(setup) /\ setup[i] \in MIDIDevices
          /\ setup' = [setup EXCEPT ![i] = Online(setup[i], s, constructed)]
      BY <1>1, <1>3, <2>1 DEF FoundInterface, found
    <3> HIDE DEF i
    <3> QED
      BY <1>1, <1>5, <3>1
  <2>2. CASE found = {}
    <3>1. /\ i = Len(setup) + 1
          /\ setup' = Append(setup, Online(CreateDevice(s), s, constructed))
      BY <2>2 DEF FoundInterface, found
    <3>2. Online(CreateDevice(s), s, constructed) \in MIDIDevices
      BY <1>5, <1>6
    <3>3. /\ setup' \in Seq(MIDIDevices) /\ Len(setup') = Len(setup) + 1
          /\ \A j \in 1..Len(setup) : setup'[j] = setup[j]
          /\ setup'[Len(setup) + 1] = Online(CreateDevice(s), s, constructed)
      BY <1>1, <3>1, <3>2, AppendProperties
    <3>4. DOMAIN setup' = 1..Len(setup) \cup {i}
      BY <1>1, <3>1, <3>3
    <3> QED
      BY <1>5, <1>6, <3>1, <3>3, <3>4
  <2> QED
    BY <2>1, <2>2
<1>8. OnlineIsServed'
  <2> SUFFICES ASSUME NEW j \in DOMAIN setup', ~setup'[j].offline
               PROVE  \E ifs \in ToSet(interfaces') :
                        /\ ifs.midiDevice = j
                        /\ ifs.constructed => setup'[j].refCon = ifs.service
    BY DEF OnlineIsServed
  <2>1. CASE j = i
    BY <1>4, <1>7, <2>1
  <2>2. CASE j # i
    <3>1. j \in DOMAIN setup /\ setup'[j] = setup[j]
      BY <1>1, <1>7, <2>2
    <3>2. PICK ifs \in ToSet(interfaces) :
            /\ ifs.midiDevice = j
            /\ ifs.constructed => setup[j].refCon = ifs.service
      BY <3>1 DEF ServedInv, OnlineIsServed
    <3> QED
      BY <1>4, <3>1, <3>2
  <2> QED
    BY <2>1, <2>2
<1> QED
  BY <1>4, <1>7, <1>8

(* DeviceRemoved takes an InterfaceState away with its MIDI device offline. *)
LEMMA RemovedIsServed ==
  ASSUME ServedInv, NEW s \in DOMAIN services, DeviceRemoved(s)
  PROVE  /\ setup' \in Seq(MIDIDevices)
         /\ interfaces' \in Seq(ToSet(interfaces'))
         /\ OnlineIsServed'
<1> DEFINE i == InterfaceOf(s)
           m == interfaces[i].midiDevice
<1>0. pc' = pc /\ Runs
  BY DEF DeviceRemoved, Runs
<1>1. CASE i = 0
  BY <1>0, <1>1 DEF DeviceRemoved, ServedInv, OnlineIsServed, Runs
<1>2. CASE i # 0
  <2>1. i \in 1..Len(interfaces)
    <3> DEFINE I == {k \in 1..Len(interfaces) : interfaces[k].service = s}
    <3>1. I \in SUBSET Nat /\ I \subseteq 1..Len(interfaces)
      OBVIOUS
    <3>2. i = IF I # {} THEN Min(I) ELSE 0
      BY DEF InterfaceOf, SelectInSeq
    <3> HIDE DEF I, i
    <3> QED
      BY <1>2, <3>1, <3>2, MinIsLeast
  <2>2. /\ setup' = [setup EXCEPT ![m].offline = TRUE]
        /\ interfaces' = RemoveAt(interfaces, i)
    BY <1>2 DEF DeviceRemoved
  <2> HIDE DEF i
  <2>3. /\ interfaces' \in Seq(ToSet(interfaces'))
        /\ \A j \in 1..Len(interfaces) : j # i => interfaces[j] \in ToSet(interfaces')
    BY <2>1, <2>2, ListRemove DEF ServedInv
  <2>4. /\ setup' \in Seq(MIDIDevices) /\ DOMAIN setup' = DOMAIN setup
        /\ \A j \in DOMAIN setup : j # m => setup'[j] = setup[j]
        /\ m \in DOMAIN setup => setup'[m].offline
    <3> DEFINE n == m
    <3> HIDE DEF m
    <3>1. setup \in Seq(MIDIDevices) /\ DOMAIN setup = 1..Len(setup)
      BY DEF ServedInv
    <3>2. CASE n \in DOMAIN setup
      <4> DEFINE e == [setup[n] EXCEPT !.offline = TRUE]
      <4>1. e \in MIDIDevices /\ e.offline
        <5>1. setup[n] \in MIDIDevices
          BY <3>1, <3>2
        <5> QED
          BY <5>1, OfflineEntry
      <4>2. setup' = [setup EXCEPT ![n] = e]
        BY <2>2 DEF n
      <4> HIDE DEF e
      <4>3. setup' \in Seq(MIDIDevices)
        BY <3>1, <3>2, <4>1, <4>2, ExceptSeq
      <4> QED
        BY <3>1, <3>2, <4>1, <4>2, <4>3 DEF n
    <3>3. CASE n \notin DOMAIN setup
      <4>1. setup' = setup
        BY <2>2, <3>1, <3>3 DEF n
      <4> QED
        BY <3>1, <3>3, <4>1 DEF n
    <3> QED
      BY <3>2, <3>3
  <2>5. OnlineIsServed'
    <3> SUFFICES ASSUME NEW j \in DOMAIN setup', ~setup'[j].offline
                 PROVE  \E ifs \in ToSet(interfaces') :
                          /\ ifs.midiDevice = j
                          /\ ifs.constructed => setup'[j].refCon = ifs.service
      BY DEF OnlineIsServed
    <3>1. j # m /\ j \in DOMAIN setup /\ setup'[j] = setup[j]
      BY <2>4
    <3>2. PICK ifs \in ToSet(interfaces) :
            /\ ifs.midiDevice = j
            /\ ifs.constructed => setup[j].refCon = ifs.service
      BY <1>0, <3>1 DEF ServedInv, OnlineIsServed
    <3>3. PICK k \in 1..Len(interfaces) : ifs = interfaces[k]
      BY DEF ToSet, ServedInv
    <3>4. k # i
      BY <3>1, <3>2, <3>3
    <3> QED
      BY <2>3, <3>1, <3>2, <3>3, <3>4
  <2> QED
    BY <2>3, <2>4, <2>5
<1> QED
  BY <1>1, <1>2

(* Every step keeps what is online served. *)
LEMMA StepServed == ServedInv /\ [Next]_vars => ServedInv'
<1> SUFFICES ASSUME ServedInv, [Next]_vars PROVE ServedInv'
  OBVIOUS
<1> USE DEF ServedInv, OnlineIsServed, Runs
<1>1. CASE NewMIDISPORTDriver
  <2>1. /\ pc' \in {"stopped", "terminated"}
        /\ UNCHANGED <<services, setup, interfaces>>
    BY <1>1 DEF NewMIDISPORTDriver, bus
  <2> QED
    BY <2>1
<1>2. CASE Start
  <2>1. /\ setup' = [i \in DOMAIN setup |-> [setup[i] EXCEPT !.offline = TRUE]]
        /\ UNCHANGED <<services, interfaces>>
    BY <1>2 DEF Start
  <2>2. /\ Len(setup) \in Nat /\ DOMAIN setup = 1..Len(setup)
        /\ \A i \in 1..Len(setup) : setup[i] \in MIDIDevices
    OBVIOUS
  <2>3. /\ setup' \in [1..Len(setup) -> MIDIDevices]
        /\ \A i \in DOMAIN setup' : setup'[i].offline
    BY <2>1, <2>2 DEF MIDIDevices
  <2>4. setup' \in Seq(MIDIDevices)
    BY <2>2, <2>3, SeqDef
  <2> QED
    BY <2>1, <2>3, <2>4
<1>3. CASE Stop
  <2>1. pc' = "stopped" /\ interfaces' = <<>> /\ UNCHANGED <<services, setup>>
    BY <1>3 DEF Stop
  <2> QED
    BY <2>1
<1>4. CASE Callback \/ Drained
  BY <1>4 DEF Callback, Drained
<1>5. ASSUME NEW u \in Units, NEW l \in Locations, Plug(u, l)
      PROVE  ServedInv'
  <2>1. /\ services' = Append(services, [unit |-> u, location |-> l, present |-> TRUE])
        /\ UNCHANGED <<pc, setup, interfaces>>
    BY <1>5 DEF Plug
  <2>2. services' \in Seq(Services)
    BY <2>1, AppendProperties DEF Services
  <2> QED
    BY <2>1, <2>2
<1>6. ASSUME NEW s \in DOMAIN services, Unplug(s)
      PROVE  ServedInv'
  <2>1. /\ services' = [services EXCEPT ![s].present = FALSE]
        /\ UNCHANGED <<pc, setup, interfaces>>
    BY <1>6 DEF Unplug
  <2>2. /\ s \in 1..Len(services)
        /\ [services[s] EXCEPT !.present = FALSE] \in Services
    <3>1. s \in 1..Len(services) /\ services[s] \in Services
      OBVIOUS
    <3> QED
      BY <3>1, GoneService
  <2>3. services' \in Seq(Services)
    BY <2>1, <2>2, ExceptSeq
  <2> QED
    BY <2>1, <2>3
<1>7. ASSUME NEW s \in DOMAIN services, DeviceAdded(s)
      PROVE  ServedInv'
  <2>1. pc' = pc /\ UNCHANGED services /\ pc \in {"scanAdds", "adds"}
    BY <1>7 DEF DeviceAdded
  <2>2. CASE UNCHANGED <<setup, interfaces>>
    BY <2>1, <2>2
  <2>3. CASE \E constructed \in BOOLEAN : FoundInterface(s, constructed)
    BY <2>1, <2>3, FoundIsServed, SetupAssumption
  <2> QED
    BY <1>7, <2>2, <2>3 DEF DeviceAdded
<1>8. ASSUME NEW s \in DOMAIN services, DeviceRemoved(s)
      PROVE  ServedInv'
  BY <1>8, RemovedIsServed DEF DeviceRemoved
<1>9. CASE UNCHANGED vars
  BY <1>9 DEF vars, bus
<1> QED
  BY <1>1, <1>2, <1>3, <1>4, <1>5, <1>6, <1>7, <1>8, <1>9 DEF Next

(* While the driver runs, a MIDI device that is online has an InterfaceState,
   to which its endpoints lead if its constructor came to its end. *)
THEOREM OnlineServed == Spec => []OnlineIsServed
<1>1. ServedInv => OnlineIsServed
  BY DEF ServedInv
<1> QED
  BY <1>1, InitServed, StepServed, PTL DEF Spec

-----------------------------------------------------------------------------
(* The setup and the list of InterfaceStates. *)

(* An iterator of removals holds what is gone, and a unit is on the bus once. *)
BusInv ==
  /\ adds \subseteq DOMAIN services
  /\ removes \subseteq DOMAIN services
  /\ \A s \in removes : ~Present(s)
  /\ \A s, r \in DOMAIN services :
       s < r /\ services[s].unit = services[r].unit => ~Present(s)
  /\ \A s \in DOMAIN services : services[s].location \in Home[services[s].unit]
  /\ pc \in {"unloaded", "terminated", "stopped", "scanAdds", "scanRemoves", "idle",
             "adds", "removes"}

(* MIDI devices are those of units where these have been plugged in. *)
SetupInv ==
  \A i \in DOMAIN setup :
    /\ \E u \in Units : setup[i].product = Product[u] /\ setup[i].location \in Home[u]
    /\ setup[i].refCon \in DOMAIN services \cup {NoRefCon}

(* An InterfaceState is that of a service which is on the bus, or whose removal
   the iterator will tell, and has a MIDI device of its model. *)
Attached(ifs) ==
  /\ ifs.service \in DOMAIN services /\ ifs.service \notin adds
  /\ Present(ifs.service) \/ ifs.service \in removes
  /\ MatchDevice(ifs.service)
  /\ ifs.midiDevice \in DOMAIN setup
  /\ setup[ifs.midiDevice].product = ProductOf(ifs.service)

ListInv ==
  /\ ~Runs => interfaces = <<>>
  /\ \A ifs \in ToSet(interfaces) : Attached(ifs)
  /\ \A i, j \in DOMAIN interfaces :
       interfaces[i].service = interfaces[j].service => i = j

(* What a fault has cost. *)
Lost == {s \in DOMAIN services : Present(s) /\ MatchDevice(s) /\ s \notin Live /\ s \notin adds}
LostInv == faults \in Nat /\ (Runs => Cardinality(Lost) <= faults)

DevicesInv == ServedInv /\ IInv /\ BusInv /\ SetupInv /\ ListInv /\ LostInv

CoreInv == BusInv /\ SetupInv /\ ListInv /\ LostInv

(* What ServedInv says of the three lists, in the form the steps below need. *)
LEMMA Lists ==
  ASSUME ServedInv
  PROVE  /\ setup \in Seq(MIDIDevices) /\ Len(setup) \in Nat /\ DOMAIN setup = 1..Len(setup)
         /\ \A i \in DOMAIN setup : setup[i] \in MIDIDevices
         /\ services \in Seq(Services) /\ Len(services) \in Nat
         /\ DOMAIN services = 1..Len(services)
         /\ \A s \in DOMAIN services : services[s] \in Services
         /\ interfaces \in Seq(ToSet(interfaces)) /\ Len(interfaces) \in Nat
         /\ DOMAIN interfaces = 1..Len(interfaces)
         /\ ToSet(interfaces) = {interfaces[i] : i \in DOMAIN interfaces}
BY DEF ServedInv, ToSet

(* FoundInterface: m is the MIDI device it takes or makes. *)
FoundAt(s, m) ==
  /\ DOMAIN setup' = DOMAIN setup \cup {m}
  /\ setup'[m].product = ProductOf(s) /\ ~setup'[m].offline
  /\ \/ setup'[m].refCon \in {s, NoRefCon}
     \/ m \in DOMAIN setup /\ setup'[m].refCon = setup[m].refCon
  /\ m \in DOMAIN setup => /\ setup[m].product = ProductOf(s)
                           /\ setup'[m].location = setup[m].location
  /\ m \notin DOMAIN setup => setup'[m].location = services[s].location
  /\ \A j \in DOMAIN setup : j # m => setup'[j] = setup[j]

(* What Online leaves of a MIDI device. *)
LEMMA OnlineEntry ==
  ASSUME NEW e \in MIDIDevices, NEW s \in Nat, NEW constructed \in BOOLEAN
  PROVE  /\ Online(e, s, constructed) \in MIDIDevices
         /\ Online(e, s, constructed).product = e.product
         /\ Online(e, s, constructed).location = e.location
         /\ ~Online(e, s, constructed).offline
         /\ Online(e, s, constructed).refCon \in {s, e.refCon}
BY DEF Online, MIDIDevices

(* What CreateDevice makes. *)
LEMMA CreatedEntry ==
  ASSUME ServedInv, NEW s \in DOMAIN services
  PROVE  /\ CreateDevice(s) \in MIDIDevices
         /\ CreateDevice(s).product = ProductOf(s)
         /\ CreateDevice(s).location = services[s].location
         /\ CreateDevice(s).refCon = NoRefCon
<1>1. services[s] \in Services
  BY Lists
<1>2. ProductOf(s) \in Nat /\ services[s].location \in Locations
  BY <1>1, SetupAssumption DEF ProductOf, Services
<1> QED
  BY <1>2 DEF CreateDevice, MIDIDevices, NoRefCon

(* FoundInterface takes or makes one MIDI device, and adds one InterfaceState. *)
LEMMA FoundEntry ==
  ASSUME ServedInv, NEW s \in DOMAIN services, NEW constructed \in BOOLEAN,
         FoundInterface(s, constructed)
  PROVE  /\ \E m : /\ FoundAt(s, m)
                   /\ \E e : /\ interfaces' = Append(interfaces, e)
                             /\ e.service = s /\ e.midiDevice = m
         /\ Len(setup') > Len(setup) =>
              /\ DeviceInSetup(ProductOf(s), services[s].location) = {}
              /\ Len(setup') = Len(setup) + 1
              /\ setup'[Len(setup) + 1].product = ProductOf(s)
              /\ setup'[Len(setup) + 1].location = services[s].location
<1> DEFINE found == DeviceInSetup(ProductOf(s), services[s].location)
           i == IF found # {} THEN Min(found) ELSE Len(setup) + 1
           new == [service |-> s, midiDevice |-> i, constructed |-> constructed,
                   writeBufSize |-> connectedMIDISPORT'.writeBufSize]
<1>1. /\ setup \in Seq(MIDIDevices) /\ Len(setup) \in Nat /\ DOMAIN setup = 1..Len(setup)
      /\ s \in Nat
      /\ \A j \in DOMAIN setup : setup[j] \in MIDIDevices
  BY Lists
<1>2. interfaces' = Append(interfaces, new)
  BY DEF FoundInterface, NewInterface
<1>3. new.service = s /\ new.midiDevice = i
  OBVIOUS
<1>4. /\ found \subseteq 1..Len(setup)
      /\ \A j \in found : setup[j].product = ProductOf(s)
  BY <1>1 DEF DeviceInSetup, SameProduct
<1>5. /\ found # {} => setup' = [setup EXCEPT ![i] = Online(setup[i], s, constructed)]
      /\ found = {} => setup' = Append(setup, Online(CreateDevice(s), s, constructed))
  BY DEF FoundInterface
<1>6. found # {} => i \in found
  BY <1>1, <1>4, MinIsLeast
<1>7. found = {} => i = Len(setup) + 1
  OBVIOUS
<1> HIDE DEF found, i, new
<1>8. CASE found # {}
  <2>1. i \in DOMAIN setup /\ setup[i] \in MIDIDevices /\ setup[i].product = ProductOf(s)
    BY <1>1, <1>4, <1>6, <1>8
  <2>2. PICK e \in MIDIDevices : e = Online(setup[i], s, constructed)
    BY <1>1, <2>1, OnlineEntry
  <2>3. /\ setup' = [setup EXCEPT ![i] = e]
        /\ e.product = setup[i].product /\ e.location = setup[i].location
        /\ ~e.offline /\ e.refCon \in {s, setup[i].refCon}
    BY <1>1, <1>5, <1>8, <2>1, <2>2, OnlineEntry
  <2>4. /\ DOMAIN setup' = DOMAIN setup /\ setup'[i] = e
        /\ \A j \in DOMAIN setup : j # i => setup'[j] = setup[j]
        /\ Len(setup') = Len(setup)
    BY <1>1, <2>1, <2>3
  <2>5. FoundAt(s, i)
    BY <2>1, <2>3, <2>4 DEF FoundAt
  <2>6. ~(Len(setup') > Len(setup))
    BY <1>1, <2>4
  <2> QED
    BY <1>2, <1>3, <2>5, <2>6
<1>9. CASE found = {}
  <2>0. PICK c \in MIDIDevices :
          /\ c = CreateDevice(s) /\ c.product = ProductOf(s)
          /\ c.location = services[s].location /\ c.refCon = NoRefCon
    BY CreatedEntry
  <2>1. PICK e \in MIDIDevices : e = Online(c, s, constructed)
    BY <1>1, OnlineEntry
  <2>2. /\ setup' = Append(setup, e)
        /\ e.product = ProductOf(s) /\ e.location = services[s].location
        /\ ~e.offline /\ e.refCon \in {s, NoRefCon}
    BY <1>1, <1>5, <1>9, <2>0, <2>1, OnlineEntry
  <2>3. /\ Len(setup') = Len(setup) + 1 /\ i = Len(setup) + 1
        /\ DOMAIN setup' = 1..(Len(setup) + 1)
        /\ setup'[i] = e
        /\ \A j \in DOMAIN setup : setup'[j] = setup[j]
    <3>1. /\ setup' \in Seq(MIDIDevices) /\ Len(setup') = Len(setup) + 1
          /\ \A j \in 1..Len(setup) : setup'[j] = setup[j]
          /\ setup'[Len(setup) + 1] = e
      BY <1>1, <2>1, <2>2, AppendProperties
    <3> QED
      BY <1>1, <1>7, <1>9, <3>1
  <2>4. FoundAt(s, i)
    <3>1. DOMAIN setup' = DOMAIN setup \cup {i} /\ i \notin DOMAIN setup
      BY <1>1, <2>3
    <3> QED
      BY <2>2, <2>3, <3>1 DEF FoundAt
  <2> QED
    BY <1>2, <1>3, <1>9, <2>2, <2>3, <2>4 DEF found
<1> QED
  BY <1>8, <1>9

(* DeviceRemoved: the InterfaceState of s leaves the list, and its MIDI device m
   goes offline. *)
RemovedAt(s, m) ==
  /\ DOMAIN setup' = DOMAIN setup
  /\ \A j \in DOMAIN setup :
       /\ setup'[j].product = setup[j].product /\ setup'[j].location = setup[j].location
       /\ setup'[j].refCon = setup[j].refCon
       /\ j # m => setup'[j] = setup[j]
  /\ ToSet(interfaces') = {ifs \in ToSet(interfaces) : ifs.service # s}
  /\ \A j, k \in DOMAIN interfaces' :
       interfaces'[j].service = interfaces'[k].service => j = k

(* What going offline leaves of a MIDI device. *)
LEMMA WentOffline ==
  ASSUME NEW e \in MIDIDevices
  PROVE  /\ [e EXCEPT !.offline = TRUE].product = e.product
         /\ [e EXCEPT !.offline = TRUE].location = e.location
         /\ [e EXCEPT !.offline = TRUE].refCon = e.refCon
BY DEF MIDIDevices

(* InterfaceOf finds the InterfaceState of a service that has one. *)
LEMMA InterfaceFound ==
  ASSUME ServedInv, NEW s
  PROVE  /\ InterfaceOf(s) = 0 => s \notin Live
         /\ InterfaceOf(s) # 0 => /\ InterfaceOf(s) \in DOMAIN interfaces
                                  /\ interfaces[InterfaceOf(s)].service = s
<1> DEFINE I == {k \in 1..Len(interfaces) : interfaces[k].service = s}
<1>1. I \in SUBSET Nat /\ I \subseteq 1..Len(interfaces)
  OBVIOUS
<1>2. InterfaceOf(s) = IF I # {} THEN Min(I) ELSE 0
  BY DEF InterfaceOf, SelectInSeq
<1>3. s \in Live => I # {}
  <2>1. ASSUME s \in Live PROVE \E k \in 1..Len(interfaces) : interfaces[k].service = s
    BY <2>1, Lists DEF Live
  <2> QED
    BY <2>1
<1>4. \A k \in I : k \in 1..Len(interfaces) /\ interfaces[k].service = s
  OBVIOUS
<1> HIDE DEF I
<1>5. CASE I = {}
  BY <1>2, <1>3, <1>5
<1>6. CASE I # {}
  <2>1. Min(I) \in I
    BY <1>1, <1>6, MinIsLeast
  <2>2. Min(I) # 0
    BY <1>4, <2>1, Lists
  <2> QED
    BY <1>2, <1>4, <1>6, <2>1, <2>2, Lists
<1> QED
  BY <1>5, <1>6

(* DeviceRemoved does nothing to the lists, or takes one InterfaceState away. *)
LEMMA RemovedEntry ==
  ASSUME ServedInv, ListInv, NEW s \in DOMAIN services, DeviceRemoved(s)
  PROVE  \/ s \notin Live /\ UNCHANGED <<setup, interfaces>>
         \/ \E ifs \in ToSet(interfaces) : /\ ifs.service = s
                                           /\ RemovedAt(s, ifs.midiDevice)
<1>1. PICK i : i = InterfaceOf(s)
  OBVIOUS
<1>2. CASE i = 0
  BY <1>1, <1>2, InterfaceFound DEF DeviceRemoved
<1>3. CASE i # 0
  <2>1. i \in DOMAIN interfaces /\ interfaces[i].service = s
    BY <1>1, <1>3, InterfaceFound
  <2>2. PICK m : m = interfaces[i].midiDevice
    OBVIOUS
  <2>3. /\ setup' = [setup EXCEPT ![m].offline = TRUE]
        /\ interfaces' = RemoveAt(interfaces, i)
    BY <1>1, <1>3, <2>2 DEF DeviceRemoved
  <2>4. /\ interfaces[i] \in ToSet(interfaces) /\ m \in DOMAIN setup
        /\ setup[m] \in MIDIDevices
    BY <2>1, <2>2, Lists DEF ListInv, Attached
  <2>5. PICK e : e = [setup[m] EXCEPT !.offline = TRUE]
    OBVIOUS
  <2>6. /\ setup' = [setup EXCEPT ![m] = e]
        /\ e.product = setup[m].product /\ e.location = setup[m].location
        /\ e.refCon = setup[m].refCon
    BY <2>3, <2>4, <2>5, WentOffline
  <2>7. /\ DOMAIN setup' = DOMAIN setup /\ setup'[m] = e
        /\ \A j \in DOMAIN setup : j # m => setup'[j] = setup[j]
    BY <2>4, <2>6, Lists
  <2> DEFINE n == Len(interfaces)
  <2>8. /\ n \in Nat /\ i \in 1..n /\ DOMAIN interfaces = 1..n
        /\ Len(interfaces') = n - 1 /\ DOMAIN interfaces' = 1..(n - 1)
        /\ ToSet(interfaces') = {interfaces'[j] : j \in 1..(n - 1)}
        /\ \A j \in 1..(i - 1) : interfaces'[j] = interfaces[j]
        /\ \A j \in i..(n - 1) : interfaces'[j] = interfaces[j + 1]
    <3>1. interfaces \in Seq(ToSet(interfaces)) /\ n \in Nat /\ DOMAIN interfaces = 1..n
      BY Lists
    <3>2. /\ interfaces' \in Seq(ToSet(interfaces)) /\ Len(interfaces') = n - 1
          /\ \A j \in 1..(i - 1) : interfaces'[j] = interfaces[j]
          /\ \A j \in i..(n - 1) : interfaces'[j] = interfaces[j + 1]
      <4>1. PICK S : S = ToSet(interfaces)
        OBVIOUS
      <4>2. interfaces \in Seq(S) /\ i \in 1..Len(interfaces)
        BY <2>1, <3>1, <4>1
      <4>3. /\ RemoveAt(interfaces, i) \in Seq(S)
            /\ Len(RemoveAt(interfaces, i)) = Len(interfaces) - 1
            /\ \A j \in 1..(i - 1) : RemoveAt(interfaces, i)[j] = interfaces[j]
            /\ \A j \in i..(Len(interfaces) - 1) :
                 RemoveAt(interfaces, i)[j] = interfaces[j + 1]
        BY <4>2, RemoveAtProperties
      <4> QED
        BY <2>3, <4>1, <4>3
    <3>3. DOMAIN interfaces' = 1..(n - 1)
      BY <3>2
    <3> QED
      BY <2>1, <3>1, <3>2, <3>3 DEF ToSet
  <2> HIDE DEF n
  <2>9. \A j, k \in 1..n : interfaces[j].service = interfaces[k].service => j = k
    BY <2>8 DEF ListInv
  <2>10. ASSUME NEW j \in 1..(n - 1)
         PROVE  \E k \in 1..n : /\ k # i /\ interfaces'[j] = interfaces[k]
                                /\ j < i => k = j
                                /\ j >= i => k = j + 1
    <3>1. CASE j < i
      <4>1. j \in 1..(i - 1) /\ j \in 1..n
        BY <2>8, <3>1
      <4> QED
        BY <2>8, <3>1, <4>1
    <3>2. CASE j >= i
      <4>1. j \in i..(n - 1) /\ j + 1 \in 1..n /\ j + 1 # i
        BY <2>8, <3>2
      <4> QED
        BY <2>8, <3>2, <4>1
    <3> QED
      BY <2>8, <3>1, <3>2
  <2>11. ToSet(interfaces') = {ifs \in ToSet(interfaces) : ifs.service # s}
    <3>1. ASSUME NEW j \in 1..(n - 1)
          PROVE  interfaces'[j] \in ToSet(interfaces) /\ interfaces'[j].service # s
      BY <2>1, <2>8, <2>9, <2>10, Lists
    <3>2. ASSUME NEW k \in 1..n, interfaces[k].service # s
          PROVE  interfaces[k] \in ToSet(interfaces')
      <4>1. k # i /\ k \in Nat /\ i \in Nat
        BY <2>1, <2>8, <3>2
      <4>2. CASE k < i
        <5>1. k \in 1..(i - 1) /\ k \in 1..(n - 1)
          BY <2>8, <4>1, <4>2
        <5> QED
          BY <2>8, <5>1
      <4>3. CASE k > i
        <5>1. k - 1 \in i..(n - 1) /\ k - 1 \in 1..(n - 1) /\ (k - 1) + 1 = k
          BY <2>8, <4>1, <4>3
        <5>2. interfaces'[k - 1] = interfaces[k]
          BY <2>8, <5>1
        <5> QED
          BY <2>8, <5>1, <5>2
      <4> QED
        BY <4>1, <4>2, <4>3
    <3>3. \A ifs \in ToSet(interfaces) : \E k \in 1..n : ifs = interfaces[k]
      BY <2>8, Lists
    <3> QED
      BY <2>8, <3>1, <3>2, <3>3
  <2>12. ASSUME NEW j \in 1..(n - 1), NEW k \in 1..(n - 1),
                interfaces'[j].service = interfaces'[k].service
         PROVE  j = k
    <3>1. PICK a \in 1..n : /\ interfaces'[j] = interfaces[a]
                            /\ j < i => a = j
                            /\ j >= i => a = j + 1
      BY <2>10
    <3>2. PICK b \in 1..n : /\ interfaces'[k] = interfaces[b]
                            /\ k < i => b = k
                            /\ k >= i => b = k + 1
      BY <2>10
    <3>3. a = b
      BY <2>9, <2>12, <3>1, <3>2
    <3> QED
      BY <2>8, <3>1, <3>2, <3>3
  <2>13. RemovedAt(s, m)
    BY <2>6, <2>7, <2>8, <2>11, <2>12 DEF RemovedAt
  <2> QED
    BY <2>1, <2>2, <2>4, <2>13
<1> QED
  BY <1>2, <1>3

-----------------------------------------------------------------------------
(* What keeps an InterfaceState attached. *)
LEMMA StaysAttached ==
  ASSUME NEW ifs, Attached(ifs), deviceList' = deviceList,
         ifs.service \in DOMAIN services', ifs.service \notin adds',
         services'[ifs.service].unit = services[ifs.service].unit,
         services'[ifs.service].present \/ ifs.service \in removes',
         ifs.midiDevice \in DOMAIN setup',
         setup'[ifs.midiDevice].product = setup[ifs.midiDevice].product
  PROVE  Attached(ifs)'
BY DEF Attached, Present, MatchDevice, ProductOf

(* The services lost are finitely many. *)
LEMMA LostFinite ==
  ASSUME ServedInv
  PROVE  IsFiniteSet(Lost)
<1>0. Len(services) \in Nat
  BY Lists
<1>1. PICK n : n = Len(services)
  OBVIOUS
<1>2. 1 \in Int /\ n \in Int
  BY <1>0, <1>1
<1>3. IsFiniteSet(1..n)
  BY <1>1, <1>2, FS_Interval
<1>4. Lost \subseteq 1..n
  BY <1>1, Lists DEF Lost
<1> QED
  BY <1>3, <1>4, FS_Subset

(* No service that was served is lost. *)
LEMMA LostNoMore ==
  ASSUME ServedInv, LostInv, Lost' \subseteq Lost, faults' = faults, Runs' => Runs
  PROVE  LostInv'
<1>1. IsFiniteSet(Lost)
  BY LostFinite
<1>2. PICK S, T : S = Lost /\ T = Lost'
  OBVIOUS
<1>3. IsFiniteSet(S) /\ T \subseteq S
  BY <1>1, <1>2
<1>4. /\ Cardinality(T) \in Nat /\ Cardinality(S) \in Nat
      /\ Cardinality(T) <= Cardinality(S)
  BY <1>3, FS_Subset, FS_CardinalityType
<1>5. Runs' => Cardinality(S) <= faults
  BY <1>2 DEF LostInv
<1>6. Runs' => Cardinality(T) <= faults'
  BY <1>4, <1>5 DEF LostInv
<1> QED
  BY <1>2, <1>6 DEF LostInv

(* A fault loses one service. *)
LEMMA LostOneMore ==
  ASSUME ServedInv, LostInv, NEW s, Lost' \subseteq Lost \cup {s}, faults' = faults + 1,
         Runs' => Runs
  PROVE  LostInv'
<1>1. IsFiniteSet(Lost)
  BY LostFinite
<1>2. PICK S, T : S = Lost /\ T = Lost'
  OBVIOUS
<1>3. IsFiniteSet(S) /\ T \subseteq S \cup {s}
  BY <1>1, <1>2
<1>4. /\ IsFiniteSet(S \cup {s})
      /\ Cardinality(S) \in Nat /\ Cardinality(S \cup {s}) <= Cardinality(S) + 1
  <2>1. Cardinality(S) \in Nat
    BY <1>3, FS_CardinalityType
  <2>2. /\ IsFiniteSet(S \cup {s})
        /\ \/ Cardinality(S \cup {s}) = Cardinality(S)
           \/ Cardinality(S \cup {s}) = Cardinality(S) + 1
    BY <1>3, FS_AddElement
  <2> QED
    BY <2>1, <2>2
<1>5. /\ Cardinality(T) \in Nat /\ Cardinality(S \cup {s}) \in Nat
      /\ Cardinality(T) <= Cardinality(S \cup {s})
  BY <1>3, <1>4, FS_Subset, FS_CardinalityType
<1>6. (Runs' => Cardinality(S) <= faults) /\ faults \in Nat
  BY <1>2 DEF LostInv
<1>7. (Runs' => Cardinality(T) <= faults') /\ faults' \in Nat
  BY <1>4, <1>5, <1>6
<1> QED
  BY <1>2, <1>7 DEF LostInv

(* The driver starts with nothing on the bus. *)
LEMMA InitCore == Init => CoreInv
<1> SUFFICES ASSUME Init PROVE CoreInv
  OBVIOUS
<1>1. /\ services = <<>> /\ adds = {} /\ removes = {} /\ pc = "unloaded"
      /\ setup = <<>> /\ interfaces = <<>> /\ faults = 0
  BY DEF Init
<1>2. DOMAIN setup = {} /\ DOMAIN services = {} /\ DOMAIN interfaces = {}
  BY <1>1
<1>3. ToSet(interfaces) = {}
  BY <1>2 DEF ToSet
<1>4. BusInv
  BY <1>1, <1>2 DEF BusInv
<1>5. ListInv
  BY <1>1, <1>2, <1>3 DEF ListInv
<1>6. SetupInv /\ LostInv
  BY <1>1, <1>2 DEF SetupInv, LostInv, Runs
<1> QED
  BY <1>4, <1>5, <1>6 DEF CoreInv

(* An empty list serves nobody. *)
LEMMA NoInterfaces ==
  ASSUME interfaces = <<>>
  PROVE  ToSet(interfaces) = {} /\ Live = {} /\ DOMAIN interfaces = {}
<1>1. DOMAIN interfaces = {}
  OBVIOUS
<1>2. ToSet(interfaces) = {}
  BY <1>1 DEF ToSet
<1> QED
  BY <1>1, <1>2 DEF Live

(* The plug-in, and the InterfaceRunner: none of these has an InterfaceState. *)
LEMMA RunnerCore ==
  ASSUME ServedInv, CoreInv, NewMIDISPORTDriver \/ Start \/ Stop
  PROVE  CoreInv'
<1> USE DEF CoreInv
<1>1. /\ UNCHANGED <<services, faults>> /\ interfaces' = <<>>
      /\ adds' \subseteq DOMAIN services /\ removes' \subseteq removes
      /\ pc' \in {"terminated", "stopped", "scanAdds"}
      /\ pc' = "scanAdds" => adds' = {s \in DOMAIN services : Present(s)}
      /\ DOMAIN setup' = DOMAIN setup
      /\ \A i \in DOMAIN setup : /\ setup'[i].product = setup[i].product
                                 /\ setup'[i].location = setup[i].location
                                 /\ setup'[i].refCon = setup[i].refCon
  <2>1. CASE NewMIDISPORTDriver
    BY <2>1 DEF NewMIDISPORTDriver, bus, BusInv, ListInv, Runs
  <2>2. CASE Start
    <3>1. \A i \in DOMAIN setup : /\ setup'[i].product = setup[i].product
                                  /\ setup'[i].location = setup[i].location
                                  /\ setup'[i].refCon = setup[i].refCon
      BY <2>2, WentOffline, Lists DEF Start
    <3> QED
      BY <2>2, <3>1 DEF Start, RequestNotifications, ListInv, Runs
  <2>3. CASE Stop
    BY <2>3 DEF Stop, ReleaseNotifications, BusInv
  <2> QED
    BY <2>1, <2>2, <2>3
<1>2. BusInv'
  BY <1>1 DEF BusInv, Present
<1>3. SetupInv'
  BY <1>1 DEF SetupInv
<1>4. DOMAIN interfaces' = {} /\ ToSet(interfaces') = {}
  BY <1>1 DEF ToSet
<1>5. ListInv'
  BY <1>1, <1>4 DEF ListInv
<1>6. Runs' => Lost' = {}
  BY <1>1 DEF Lost, Runs, Present
<1>7. LostInv'
  BY <1>1, <1>6, FS_EmptySet DEF LostInv
<1> QED
  BY <1>2, <1>3, <1>5, <1>7

(* The run loop waits or drains; nothing else. *)
LEMMA SameCore ==
  ASSUME ServedInv, CoreInv,
         UNCHANGED <<services, adds, removes, setup, interfaces, deviceList, faults>>,
         \/ pc' = pc
         \/ Runs /\ pc' \in {"scanRemoves", "idle", "adds", "removes"}
  PROVE  CoreInv'
<1> USE DEF CoreInv
<1>1. BusInv'
  BY DEF BusInv, Present
<1>2. SetupInv'
  BY DEF SetupInv
<1>3. ListInv'
  BY DEF ListInv, Attached, MatchDevice, ProductOf, Present, Runs
<1>4. Lost' = Lost /\ (Runs' => Runs)
  BY DEF Lost, Live, MatchDevice, ProductOf, Present, Runs
<1>5. LostInv'
  BY <1>4, LostNoMore
<1> QED
  BY <1>1, <1>2, <1>3, <1>5

(* A plug makes a service that no list knows. *)
LEMMA PlugCore ==
  ASSUME ServedInv, CoreInv, NEW u \in Units, NEW l \in Locations, Plug(u, l),
         deviceList' = deviceList
  PROVE  CoreInv'
<1> USE DEF CoreInv
<1>1. PICK n \in Nat : n = Len(services) + 1
  BY Lists
<1>2. /\ services' = Append(services, [unit |-> u, location |-> l, present |-> TRUE])
      /\ \A s \in DOMAIN services : Present(s) => services[s].unit # u
      /\ l \in Home[u]
      /\ UNCHANGED <<removes, pc, setup, interfaces, faults>>
  BY DEF Plug
<1>3. /\ DOMAIN services' = DOMAIN services \cup {n}
      /\ DOMAIN services = 1..(n - 1) /\ n \notin DOMAIN services
      /\ services'[n].unit = u /\ services'[n].location = l
      /\ \A s \in DOMAIN services : services'[s] = services[s] /\ s < n
  <2>1. PICK e : e = [unit |-> u, location |-> l, present |-> TRUE]
    OBVIOUS
  <2>2. services' = Append(services, e) /\ e.unit = u /\ e.location = l
    BY <1>2, <2>1
  <2>3. e \in Services
    BY <2>1 DEF Services
  <2>4. /\ services' \in Seq(Services) /\ Len(services') = n
        /\ \A s \in 1..Len(services) : services'[s] = services[s]
        /\ services'[n] = e
    BY <1>1, <2>2, <2>3, Lists, AppendProperties
  <2>5. /\ Len(services) = n - 1 /\ DOMAIN services = 1..(n - 1)
        /\ DOMAIN services' = 1..n
    BY <1>1, <2>4, Lists
  <2> QED
    BY <2>2, <2>4, <2>5
<1>4. adds' = IF Runs THEN adds \cup {n} ELSE adds
  <2>1. Len(services') = n
    BY <1>1, <1>2, Lists, AppendProperties
  <2> QED
    BY <2>1 DEF Plug
<1>5. BusInv'
  <2>1. \A s, r \in DOMAIN services' :
          s < r /\ services'[s].unit = services'[r].unit => ~services'[s].present
    <3> SUFFICES ASSUME NEW s \in DOMAIN services', NEW r \in DOMAIN services',
                        s < r, services'[s].unit = services'[r].unit
                 PROVE  ~services'[s].present
      OBVIOUS
    <3>1. s \in DOMAIN services /\ services'[s] = services[s]
      BY <1>3
    <3>2. CASE r = n
      BY <1>2, <1>3, <3>1, <3>2 DEF Present
    <3>3. CASE r # n
      BY <1>3, <3>1, <3>3 DEF BusInv, Present
    <3> QED
      BY <3>2, <3>3
  <2>2. \A s \in DOMAIN services' : services'[s].location \in Home[services'[s].unit]
    BY <1>2, <1>3 DEF BusInv
  <2>3. adds' \subseteq DOMAIN services' /\ removes' \subseteq DOMAIN services'
    BY <1>2, <1>3, <1>4 DEF BusInv
  <2>4. \A s \in removes' : ~services'[s].present
    BY <1>2, <1>3 DEF BusInv, Present
  <2> QED
    BY <1>2, <2>1, <2>2, <2>3, <2>4 DEF BusInv, Present
<1>6. SetupInv'
  BY <1>2, <1>3 DEF SetupInv
<1>7. ListInv'
  <2>1. ASSUME NEW ifs \in ToSet(interfaces)
        PROVE  Attached(ifs)'
    <3>1. Attached(ifs)
      BY DEF ListInv
    <3> QED
      BY <1>2, <1>3, <1>4, <3>1, StaysAttached DEF Attached, Present
  <2> QED
    BY <1>2, <2>1 DEF ListInv, Runs
<1>8. LostInv'
  <2>1. CASE Runs
    <3>1. Lost' \subseteq Lost
      BY <1>2, <1>3, <1>4, <2>1 DEF Lost, Live, Present, MatchDevice, ProductOf
    <3> QED
      BY <1>2, <2>1, <3>1, LostNoMore
  <2>2. CASE ~Runs
    BY <1>2, <2>2 DEF LostInv, Runs
  <2> QED
    BY <2>1, <2>2
<1> QED
  BY <1>5, <1>6, <1>7, <1>8

(* What an unplug takes off the bus is in the remove iterator. *)
LEMMA UnplugCore ==
  ASSUME ServedInv, CoreInv, NEW s \in DOMAIN services, Unplug(s),
         deviceList' = deviceList
  PROVE  CoreInv'
<1> USE DEF CoreInv
<1>1. /\ UNCHANGED <<adds, pc, setup, interfaces, faults>>
      /\ removes' = IF Runs THEN removes \cup {s} ELSE removes
  BY DEF Unplug
<1>2. /\ DOMAIN services' = DOMAIN services
      /\ \A r \in DOMAIN services : /\ services'[r].unit = services[r].unit
                                    /\ services'[r].location = services[r].location
                                    /\ r # s => services'[r] = services[r]
      /\ ~services'[s].present
  <2>1. services[s] \in Services
    BY Lists
  <2>2. PICK e : e = [services[s] EXCEPT !.present = FALSE]
    OBVIOUS
  <2>3. e.unit = services[s].unit /\ e.location = services[s].location /\ ~e.present
    BY <2>1, <2>2 DEF Services
  <2>4. services' = [services EXCEPT ![s] = e]
    BY <2>2 DEF Unplug
  <2> QED
    BY <2>3, <2>4
<1>3. BusInv'
  <2>1. \A t, r \in DOMAIN services' :
          t < r /\ services'[t].unit = services'[r].unit => ~services'[t].present
    BY <1>2 DEF BusInv, Present
  <2>2. \A r \in DOMAIN services' : services'[r].location \in Home[services'[r].unit]
    BY <1>2 DEF BusInv
  <2>3. \A r \in removes' : ~services'[r].present
    BY <1>1, <1>2 DEF BusInv, Present
  <2>4. adds' \subseteq DOMAIN services' /\ removes' \subseteq DOMAIN services'
    BY <1>1, <1>2 DEF BusInv
  <2> QED
    BY <1>1, <2>1, <2>2, <2>3, <2>4 DEF BusInv, Present
<1>4. SetupInv'
  BY <1>1, <1>2 DEF SetupInv
<1>5. ListInv'
  <2>1. ASSUME NEW ifs \in ToSet(interfaces)
        PROVE  Attached(ifs)'
    <3>1. Attached(ifs) /\ Runs
      BY NoInterfaces DEF ListInv
    <3>2. services'[ifs.service].present \/ ifs.service \in removes'
      BY <1>1, <1>2, <3>1 DEF Attached, Present
    <3> QED
      BY <1>1, <1>2, <3>1, <3>2, StaysAttached DEF Attached
  <2> QED
    BY <1>1, <2>1 DEF ListInv, Runs
<1>6. LostInv'
  <2>1. Lost' \subseteq Lost
    BY <1>1, <1>2 DEF Lost, Live, Present, MatchDevice, ProductOf
  <2>2. Runs' => Runs
    BY <1>1 DEF Runs
  <2> QED
    BY <1>1, <2>1, <2>2, LostNoMore
<1> QED
  BY <1>3, <1>4, <1>5, <1>6

(* FoundInterface in the core of the invariant. *)
LEMMA FoundCore ==
  ASSUME ServedInv, CoreInv, NEW s \in adds, NEW constructed \in BOOLEAN,
         FoundInterface(s, constructed), Present(s), MatchDevice(s), Runs,
         adds' = adds \ {s}, UNCHANGED <<services, removes, pc, deviceList>>
  PROVE  SetupInv' /\ ListInv' /\ Lost' \subseteq Lost
<1> USE DEF CoreInv
<1>1. s \in DOMAIN services
  BY DEF BusInv
<1>2. PICK m : /\ FoundAt(s, m)
               /\ \E e : /\ interfaces' = Append(interfaces, e)
                         /\ e.service = s /\ e.midiDevice = m
  BY <1>1, FoundEntry
<1>3. PICK e : interfaces' = Append(interfaces, e) /\ e.service = s /\ e.midiDevice = m
  BY <1>2
<1>4. ToSet(interfaces') = ToSet(interfaces) \cup {e}
  BY <1>3, Lists, ListAppend
<1>5. PICK n \in Nat : n = Len(interfaces) + 1
  BY Lists
<1>6. /\ DOMAIN interfaces = 1..(n - 1) /\ DOMAIN interfaces' = 1..n
      /\ interfaces'[n] = e
      /\ \A i \in 1..(n - 1) : interfaces'[i] = interfaces[i]
  <2>1. PICK S : S = ToSet(interfaces) \cup {e}
    OBVIOUS
  <2>2. interfaces \in Seq(S) /\ e \in S
    BY <2>1, Lists
  <2>3. /\ Len(Append(interfaces, e)) = Len(interfaces) + 1
        /\ Append(interfaces, e) \in Seq(S)
        /\ \A i \in 1..Len(interfaces) : Append(interfaces, e)[i] = interfaces[i]
        /\ Append(interfaces, e)[Len(interfaces) + 1] = e
    BY <2>2, AppendProperties
  <2>4. DOMAIN interfaces' = 1..n /\ DOMAIN interfaces = 1..(n - 1)
        /\ Len(interfaces) = n - 1
    BY <1>3, <1>5, <2>3, Lists
  <2> QED
    BY <1>3, <1>5, <2>3, <2>4
<1>7. /\ \A i \in 1..(n - 1) : interfaces[i] \in ToSet(interfaces)
      /\ \A i \in 1..(n - 1) : interfaces[i].service # s
  <2>1. \A i \in 1..(n - 1) : interfaces[i] \in ToSet(interfaces)
    BY <1>6, Lists
  <2> QED
    BY <2>1 DEF ListInv, Attached
<1>8. SetupInv'
  <2> SUFFICES ASSUME NEW i \in DOMAIN setup'
               PROVE  /\ \E u \in Units : /\ setup'[i].product = Product[u]
                                          /\ setup'[i].location \in Home[u]
                      /\ setup'[i].refCon \in DOMAIN services \cup {NoRefCon}
    BY DEF SetupInv
  <2>1. CASE i # m
    BY <1>2, <2>1 DEF SetupInv, FoundAt
  <2>2. CASE i = m /\ m \notin DOMAIN setup
    <3>1. /\ services[s].unit \in Units
          /\ services[s].location \in Home[services[s].unit]
      BY <1>1, Lists DEF BusInv, Services
    <3> QED
      BY <1>1, <1>2, <2>2, <3>1 DEF FoundAt, ProductOf
  <2>3. CASE i = m /\ m \in DOMAIN setup
    <3>1. \E u \in Units : setup[m].product = Product[u] /\ setup[m].location \in Home[u]
      BY <2>3 DEF SetupInv
    <3> QED
      BY <1>1, <1>2, <2>3, <3>1 DEF FoundAt, SetupInv
  <2> QED
    BY <2>1, <2>2, <2>3
<1>9. ASSUME NEW ifs \in ToSet(interfaces')
      PROVE  Attached(ifs)'
  <2>1. CASE ifs = e
    BY <1>1, <1>2, <1>3, <2>1 DEF Attached, Present, MatchDevice, ProductOf, FoundAt
  <2>2. CASE ifs \in ToSet(interfaces)
    <3>1. Attached(ifs)
      BY <2>2 DEF ListInv
    <3>2. ifs.midiDevice \in DOMAIN setup'
          /\ setup'[ifs.midiDevice].product = setup[ifs.midiDevice].product
      BY <1>2, <3>1 DEF Attached, FoundAt
    <3> QED
      BY <3>1, <3>2, StaysAttached DEF Attached, Present
  <2> QED
    BY <1>4, <2>1, <2>2
<1>10. ASSUME NEW i \in DOMAIN interfaces', NEW j \in DOMAIN interfaces',
              interfaces'[i].service = interfaces'[j].service
       PROVE  i = j
  <2>1. CASE i = n \/ j = n
    BY <1>3, <1>6, <1>7, <1>10, <2>1
  <2>2. CASE i # n /\ j # n
    <3>1. i \in 1..(n - 1) /\ j \in 1..(n - 1)
      BY <1>6, <2>2
    <3> QED
      BY <1>6, <1>10, <3>1 DEF ListInv
  <2> QED
    BY <2>1, <2>2
<1>11. ListInv'
  BY <1>9, <1>10 DEF ListInv, Runs
<1>12. Lost' \subseteq Lost
  <2>1. Live' = Live \cup {s}
    BY <1>3, <1>4 DEF Live
  <2> QED
    BY <2>1 DEF Lost, Present, MatchDevice, ProductOf
<1> QED
  BY <1>8, <1>11, <1>12

(* The add iterator gives up a service, which is served, or lost to a fault. *)
LEMMA AddedCore ==
  ASSUME ServedInv, CoreInv, NEW s \in DOMAIN services, DeviceAdded(s),
         deviceList' = deviceList
  PROVE  CoreInv'
<1> USE DEF CoreInv
<1>1. /\ s \in adds /\ adds' = adds \ {s} /\ Runs
      /\ UNCHANGED <<services, removes, pc>>
  BY DEF DeviceAdded, Runs
<1>2. BusInv'
  BY <1>1 DEF BusInv, Present
<1>3. Runs' => Runs
  BY <1>1
<1>4. ASSUME UNCHANGED <<setup, interfaces>>
      PROVE  SetupInv' /\ ListInv' /\ Lost' \subseteq Lost \cup {s}
  <2>1. SetupInv'
    BY <1>1, <1>4 DEF SetupInv
  <2>2. ListInv'
    BY <1>1, <1>4 DEF ListInv, Attached, Present, MatchDevice, ProductOf, Runs
  <2>3. Lost' \subseteq Lost \cup {s}
    BY <1>1, <1>4 DEF Lost, Live, Present, MatchDevice, ProductOf
  <2> QED
    BY <2>1, <2>2, <2>3
<1>5. CASE ~(Present(s) /\ MatchDevice(s))
  <2>1. UNCHANGED <<setup, interfaces, faults>>
    BY <1>5 DEF DeviceAdded
  <2>2. Lost' \subseteq Lost
    BY <1>1, <1>5, <2>1 DEF Lost, Live, Present, MatchDevice, ProductOf
  <2> QED
    BY <1>2, <1>3, <1>4, <2>1, <2>2, LostNoMore
<1>6. CASE /\ Present(s) /\ MatchDevice(s)
           /\ \E constructed \in BOOLEAN : FoundInterface(s, constructed)
  <2>1. SetupInv' /\ ListInv' /\ Lost' \subseteq Lost
    BY <1>1, <1>6, FoundCore
  <2>2. faults' = faults \/ faults' = faults + 1
    BY DEF DeviceAdded
  <2>3. LostInv'
    <3>1. CASE faults' = faults
      BY <1>3, <2>1, <3>1, LostNoMore
    <3>2. CASE faults' = faults + 1
      <4>1. Lost' \subseteq Lost \cup {s}
        BY <2>1
      <4> QED
        BY <1>3, <3>2, <4>1, LostOneMore
    <3> QED
      BY <2>2, <3>1, <3>2
  <2> QED
    BY <1>2, <2>1, <2>3
<1>7. CASE faults' = faults + 1 /\ UNCHANGED <<setup, interfaces>>
  <2>1. LostInv'
    BY <1>3, <1>4, <1>7, LostOneMore
  <2> QED
    BY <1>2, <1>4, <1>7, <2>1
<1> QED
  BY <1>5, <1>6, <1>7 DEF DeviceAdded

(* The remove iterator gives up a service, and nobody serves it any more. *)
LEMMA RemovedCore ==
  ASSUME ServedInv, CoreInv, NEW s \in DOMAIN services, DeviceRemoved(s),
         deviceList' = deviceList
  PROVE  CoreInv'
<1> USE DEF CoreInv
<1>1. /\ s \in removes /\ removes' = removes \ {s} /\ Runs
      /\ UNCHANGED <<services, adds, pc, faults>>
  BY DEF DeviceRemoved, Runs
<1>2. BusInv' /\ ~Present(s)
  BY <1>1 DEF BusInv, Present
<1>3. /\ DOMAIN setup' = DOMAIN setup
      /\ \A i \in DOMAIN setup : /\ setup'[i].product = setup[i].product
                                 /\ setup'[i].location = setup[i].location
                                 /\ setup'[i].refCon = setup[i].refCon
      /\ ToSet(interfaces') = {ifs \in ToSet(interfaces) : ifs.service # s}
      /\ \A j, k \in DOMAIN interfaces' :
           interfaces'[j].service = interfaces'[k].service => j = k
  <2>1. CASE s \notin Live /\ UNCHANGED <<setup, interfaces>>
    <3>1. \A ifs \in ToSet(interfaces) : ifs.service # s
      BY <2>1 DEF Live
    <3>2. ToSet(interfaces') = ToSet(interfaces)
      BY <2>1
    <3> QED
      BY <2>1, <3>1, <3>2 DEF ListInv
  <2>2. CASE \E ifs \in ToSet(interfaces) : /\ ifs.service = s
                                            /\ RemovedAt(s, ifs.midiDevice)
    BY <2>2 DEF RemovedAt
  <2> QED
    BY <2>1, <2>2, RemovedEntry
<1>4. SetupInv'
  BY <1>1, <1>3 DEF SetupInv
<1>5. ASSUME NEW ifs \in ToSet(interfaces')
      PROVE  Attached(ifs)'
  <2>1. Attached(ifs) /\ ifs.service # s
    BY <1>3 DEF ListInv
  <2>2. services'[ifs.service].present \/ ifs.service \in removes'
    BY <1>1, <2>1 DEF Attached, Present
  <2> QED
    BY <1>1, <1>3, <2>1, <2>2, StaysAttached DEF Attached
<1>6. ListInv'
  BY <1>1, <1>3, <1>5 DEF ListInv, Runs
<1>7. Lost' \subseteq Lost
  BY <1>1, <1>2, <1>3 DEF Lost, Live, Present, MatchDevice, ProductOf
<1>8. LostInv'
  BY <1>1, <1>7, LostNoMore
<1> QED
  BY <1>2, <1>4, <1>6, <1>8

(* Every step keeps CoreInv. *)
LEMMA StepCore == ServedInv /\ CoreInv /\ [Next]_vars => CoreInv'
<1> SUFFICES ASSUME ServedInv, CoreInv, [Next]_vars PROVE CoreInv'
  OBVIOUS
<1>1. CASE NewMIDISPORTDriver \/ Start \/ Stop
  BY <1>1, RunnerCore
<1>2. CASE (Callback \/ Drained) /\ UNCHANGED deviceList
  <2>1. /\ UNCHANGED <<services, adds, removes, setup, interfaces, deviceList, faults>>
        /\ Runs /\ pc' \in {"scanRemoves", "idle", "adds", "removes"}
    BY <1>2 DEF Callback, Drained, Runs
  <2> QED
    BY <2>1, SameCore
<1>3. CASE UNCHANGED vars
  <2>1. /\ UNCHANGED <<services, adds, removes, setup, interfaces, deviceList, faults>>
        /\ pc' = pc
    BY <1>3 DEF vars, bus
  <2> QED
    BY <2>1, SameCore
<1>4. ASSUME NEW u \in Units, NEW l \in Locations, Plug(u, l), UNCHANGED deviceList
      PROVE  CoreInv'
  BY <1>4, PlugCore
<1>5. ASSUME NEW s \in DOMAIN services, UNCHANGED deviceList,
             Unplug(s) \/ DeviceAdded(s) \/ DeviceRemoved(s)
      PROVE  CoreInv'
  BY <1>5, UnplugCore, AddedCore, RemovedCore
<1> QED
  BY <1>1, <1>2, <1>3, <1>4, <1>5 DEF Next

(* CoreInv holds of the driver. *)
LEMMA CoreHolds == Spec => []CoreInv
BY InitServed, StepServed, InitCore, StepCore, PTL DEF Spec

(* Iterators, InterfaceStates and the setup's MIDI devices are about services
   and entries there are, the MIDI devices those of units the host has seen. *)
THEOREM TypeCorrect == Spec => []TypeOK
<1>1. CoreInv /\ ServedInv => TypeOK
  <2> SUFFICES ASSUME CoreInv, ServedInv PROVE TypeOK
    OBVIOUS
  <2> USE DEF CoreInv
  <2>1. adds \cup removes \cup Live \subseteq DOMAIN services
    BY DEF BusInv, ListInv, Live, Attached
  <2>2. \A ifs \in ToSet(interfaces) : ifs.midiDevice \in DOMAIN setup
    BY DEF ListInv, Attached
  <2>3. ASSUME NEW e \in ToSet(setup)
        PROVE  /\ e.product \in Range(Product)
               /\ e.location \in Locations
               /\ e.refCon \in DOMAIN services \cup {NoRefCon}
    <3>1. PICK i \in DOMAIN setup : e = setup[i]
      BY DEF ToSet
    <3>2. PICK u \in Units : e.product = Product[u] /\ e.location \in Home[u]
      BY <3>1 DEF SetupInv
    <3>3. Product[u] \in Range(Product)
      BY SetupAssumption DEF Range
    <3>4. e.location \in Locations
      BY <3>2, SetupAssumption DEF SetupAssumption
    <3>5. e.refCon \in DOMAIN services \cup {NoRefCon}
      BY <3>1 DEF SetupInv
    <3> QED
      BY <3>2, <3>3, <3>4, <3>5
  <2> QED
    BY <2>1, <2>2, <2>3 DEF TypeOK, BusInv
<1> QED
  BY <1>1, CoreHolds, InitServed, StepServed, PTL DEF Spec

(* When the run loop has nothing left to do, every present service of a model
   the configuration names has exactly one InterfaceState, but for as many as
   there were faults, and no other service has one. *)
THEOREM BusFollowed == Spec => []InterfacesFollowBus
<1>1. CoreInv /\ ServedInv /\ IInv => InterfacesFollowBus
  <2> SUFFICES ASSUME CoreInv, ServedInv, IInv, pc = "idle", port = <<>>
               PROVE  /\ \A i, j \in DOMAIN interfaces :
                           interfaces[i].service = interfaces[j].service => i = j
                      /\ \A s \in Live : Present(s) /\ MatchDevice(s)
                      /\ Cardinality({s \in DOMAIN services :
                                        Present(s) /\ MatchDevice(s)} \ Live) <= faults
    BY DEF InterfacesFollowBus
  <2> USE DEF CoreInv
  <2>1. adds = {} /\ removes = {}
    <3>1. ToSet(port) = {}
      BY DEF ToSet
    <3> QED
      BY <3>1 DEF IInv, Announced, AddScans, RemoveScans
  <2>2. \A i, j \in DOMAIN interfaces : interfaces[i].service = interfaces[j].service => i = j
    BY DEF ListInv
  <2>3. \A s \in Live : Present(s) /\ MatchDevice(s)
    BY <2>1 DEF ListInv, Live, Attached
  <2>4. {s \in DOMAIN services : Present(s) /\ MatchDevice(s)} \ Live = Lost
    BY <2>1 DEF Lost
  <2>5. Cardinality(Lost) <= faults
    BY DEF LostInv, Runs
  <2> QED
    BY <2>2, <2>3, <2>4, <2>5
<1> QED
  BY <1>1, CoreHolds, InitServed, StepServed, InitIInv, StepIInv, PTL DEF Spec

-----------------------------------------------------------------------------
(* What else holds when the units on the bus can be told apart by their model. *)
OwnModels == \A u, v \in Units : Product[u] = Product[v] => u = v
OwnHomes == \A u \in Units : \A l, k \in Home[u] : l = k

(* A MIDI device that is offline under a present service. *)
ReplugInv ==
  \A ifs \in ToSet(interfaces) :
    setup[ifs.midiDevice].offline /\ Present(ifs.service) =>
      \E s \in 1..(ifs.service - 1) : services[s].unit = services[ifs.service].unit

(* Nothing is served at first. *)
LEMMA InitReplug == Init => ReplugInv
<1> SUFFICES ASSUME Init PROVE ReplugInv
  OBVIOUS
<1>1. interfaces = <<>>
  BY DEF Init
<1> QED
  BY <1>1, NoInterfaces DEF ReplugInv

(* Only the removal of a service marks a MIDI device offline that is served, and
   with it one that serves a later service of the same unit. *)
LEMMA RemovedReplug ==
  ASSUME OwnModels, ServedInv, CoreInv, ReplugInv,
         NEW s \in DOMAIN services, DeviceRemoved(s)
  PROVE  ReplugInv'
<1> USE DEF CoreInv
<1>1. services' = services /\ ~Present(s)
  BY DEF DeviceRemoved, BusInv
<1>2. CASE UNCHANGED <<setup, interfaces>>
  BY <1>1, <1>2 DEF ReplugInv, Present
<1>3. ASSUME NEW gone \in ToSet(interfaces), gone.service = s,
             RemovedAt(s, gone.midiDevice)
      PROVE  ReplugInv'
  <2> SUFFICES ASSUME NEW ifs \in ToSet(interfaces'),
                      setup'[ifs.midiDevice].offline, Present(ifs.service)
               PROVE  \E t \in 1..(ifs.service - 1) :
                        services[t].unit = services[ifs.service].unit
    BY <1>1 DEF ReplugInv, Present
  <2>1. /\ ifs \in ToSet(interfaces)
        /\ Attached(ifs) /\ Attached(gone)
    BY <1>3 DEF RemovedAt, ListInv
  <2>2. CASE ifs.midiDevice # gone.midiDevice
    BY <1>3, <2>1, <2>2 DEF RemovedAt, Attached, ReplugInv
  <2>3. CASE ifs.midiDevice = gone.midiDevice
    <3>1. ProductOf(ifs.service) = ProductOf(s)
      BY <1>3, <2>1, <2>3 DEF Attached
    <3>2. services[ifs.service].unit \in Units /\ services[s].unit \in Units
      BY <2>1, Lists DEF Services, Attached
    <3>3. services[s].unit = services[ifs.service].unit
      BY <3>1, <3>2 DEF OwnModels, ProductOf
    <3>4. ifs.service \in DOMAIN services /\ ifs.service # s /\ ~(ifs.service < s)
      BY <1>1, <2>1, <3>3 DEF BusInv, Attached
    <3>5. s \in 1..(ifs.service - 1)
      BY <3>4, Lists
    <3> QED
      BY <3>3, <3>5
  <2> QED
    BY <2>2, <2>3
<1> QED
  BY <1>2, <1>3, RemovedEntry

(* A MIDI device that is served anew is online. *)
LEMMA AddedReplug ==
  ASSUME ServedInv, CoreInv, ReplugInv, NEW s \in DOMAIN services, DeviceAdded(s)
  PROVE  ReplugInv'
<1> USE DEF CoreInv
<1>1. services' = services
  BY DEF DeviceAdded
<1>2. CASE UNCHANGED <<setup, interfaces>>
  BY <1>1, <1>2 DEF ReplugInv, Present
<1>3. CASE \E constructed \in BOOLEAN : FoundInterface(s, constructed)
  <2>1. PICK m : /\ FoundAt(s, m)
                 /\ \E e : /\ interfaces' = Append(interfaces, e)
                           /\ e.service = s /\ e.midiDevice = m
    BY <1>3, FoundEntry
  <2>2. PICK e : interfaces' = Append(interfaces, e) /\ e.midiDevice = m
    BY <2>1
  <2>3. ToSet(interfaces') = ToSet(interfaces) \cup {e}
    BY <2>2, Lists, ListAppend
  <2>4. \A ifs \in ToSet(interfaces) : ifs.midiDevice \in DOMAIN setup
    BY DEF ListInv, Attached
  <2>5. \A ifs \in ToSet(interfaces') :
          setup'[ifs.midiDevice].offline =>
            ifs \in ToSet(interfaces) /\ setup[ifs.midiDevice].offline
    BY <2>1, <2>2, <2>3, <2>4 DEF FoundAt
  <2> QED
    BY <1>1, <2>5 DEF ReplugInv, Present
<1> QED
  BY <1>2, <1>3 DEF DeviceAdded

(* Every step keeps ReplugInv, when units can be told apart by their model. *)
LEMMA StepReplug ==
  OwnModels /\ ServedInv /\ CoreInv /\ ReplugInv /\ [Next]_vars => ReplugInv'
<1> SUFFICES ASSUME OwnModels, ServedInv, CoreInv, ReplugInv, [Next]_vars
             PROVE  ReplugInv'
  OBVIOUS
<1> USE DEF CoreInv
<1>1. CASE NewMIDISPORTDriver \/ Start \/ Stop
  <2>1. interfaces' = <<>>
    BY <1>1 DEF NewMIDISPORTDriver, Start, Stop, ListInv, Runs
  <2>2. ToSet(interfaces') = {}
    BY <2>1 DEF ToSet
  <2> QED
    BY <2>2 DEF ReplugInv
<1>2. CASE UNCHANGED <<services, setup, interfaces>>
  BY <1>2 DEF ReplugInv, Present
<1>3. ASSUME NEW u \in Units, NEW l \in Locations, Plug(u, l)
      PROVE  ReplugInv'
  <2>1. PICK e : services' = Append(services, e)
    BY <1>3 DEF Plug
  <2>2. \A t \in DOMAIN services : services'[t] = services[t]
    BY <2>1, Lists
  <2>3. UNCHANGED <<setup, interfaces>>
    BY <1>3 DEF Plug
  <2> SUFFICES ASSUME NEW ifs \in ToSet(interfaces),
                      setup[ifs.midiDevice].offline, services'[ifs.service].present
               PROVE  \E t \in 1..(ifs.service - 1) :
                        services'[t].unit = services'[ifs.service].unit
    BY <2>3 DEF ReplugInv, Present
  <2>4. ifs.service \in DOMAIN services
    BY DEF ListInv, Attached
  <2>5. PICK t \in 1..(ifs.service - 1) : services[t].unit = services[ifs.service].unit
    BY <2>2, <2>4 DEF ReplugInv, Present
  <2>6. t \in DOMAIN services
    BY <2>4, <2>5, Lists
  <2> QED
    BY <2>2, <2>4, <2>5, <2>6
<1>4. ASSUME NEW s \in DOMAIN services, Unplug(s)
      PROVE  ReplugInv'
  <2>0. PICK e : e = [services[s] EXCEPT !.present = FALSE]
    OBVIOUS
  <2>1. /\ services' = [services EXCEPT ![s] = e]
        /\ e.unit = services[s].unit /\ ~e.present
    <3>1. services[s] \in Services
      BY Lists
    <3>2. e.unit = services[s].unit /\ ~e.present
      BY <2>0, <3>1 DEF Services
    <3>3. services' = [services EXCEPT ![s] = e]
      BY <1>4, <2>0 DEF Unplug
    <3> QED
      BY <3>2, <3>3
  <2>2. /\ \A t \in DOMAIN services : /\ services'[t].unit = services[t].unit
                                      /\ services'[t].present => services[t].present
        /\ UNCHANGED <<setup, interfaces>>
    BY <1>4, <2>1 DEF Unplug
  <2> SUFFICES ASSUME NEW ifs \in ToSet(interfaces),
                      setup[ifs.midiDevice].offline, services'[ifs.service].present
               PROVE  \E t \in 1..(ifs.service - 1) :
                        services'[t].unit = services'[ifs.service].unit
    BY <2>2 DEF ReplugInv, Present
  <2>3. ifs.service \in DOMAIN services
    BY DEF ListInv, Attached
  <2>4. PICK t \in 1..(ifs.service - 1) : services[t].unit = services[ifs.service].unit
    BY <2>2, <2>3 DEF ReplugInv, Present
  <2>5. t \in DOMAIN services
    BY <2>3, <2>4, Lists
  <2> QED
    BY <2>2, <2>3, <2>4, <2>5
<1>5. ASSUME NEW s \in DOMAIN services, DeviceAdded(s) \/ DeviceRemoved(s)
      PROVE  ReplugInv'
  BY <1>5, AddedReplug, RemovedReplug
<1>6. CASE Callback \/ Drained \/ UNCHANGED vars
  BY <1>2, <1>6 DEF Callback, Drained, vars, bus
<1> QED
  BY <1>1, <1>3, <1>4, <1>5, <1>6 DEF Next

(* Once the run loop is idle, the MIDI device of every InterfaceState is online,
   unless its unit had been plugged in before.  With two units of one model it
   need not be: the removal of one marks the MIDI device of both offline. *)
THEOREM ServedOnline ==
  ASSUME OwnModels
  PROVE  Spec => []ServedIsOnline
<1>1. CoreInv /\ ServedInv /\ IInv /\ ReplugInv => ServedIsOnline
  <2> SUFFICES ASSUME CoreInv, ServedInv, IInv, ReplugInv, pc = "idle", port = <<>>
               PROVE  \A ifs \in ToSet(interfaces) :
                        setup[ifs.midiDevice].offline =>
                          \E s \in 1..(ifs.service - 1) :
                            services[s].unit = services[ifs.service].unit
    BY DEF ServedIsOnline
  <2>1. removes = {}
    <3>1. ToSet(port) = {}
      BY DEF ToSet
    <3> QED
      BY <3>1 DEF IInv, Announced, RemoveScans
  <2>2. \A ifs \in ToSet(interfaces) : Present(ifs.service)
    BY <2>1 DEF CoreInv, ListInv, Attached
  <2> QED
    BY <2>2 DEF ReplugInv
<1>2. ServedInv /\ CoreInv /\ ReplugInv /\ [Next]_vars => ReplugInv'
  BY StepReplug
<1> QED
  BY <1>1, <1>2, CoreHolds, InitServed, StepServed, InitIInv, StepIInv, InitReplug,
     PTL DEF Spec

(* FoundInterface makes a MIDI device only for a unit that has none. *)
LEMMA FirstOfProduct ==
  ASSUME OwnModels, OwnHomes, ServedInv, CoreInv, NEW s \in DOMAIN services,
         DeviceInSetup(ProductOf(s), services[s].location) = {}
  PROVE  SameProduct(ProductOf(s)) = {}
<1> USE DEF CoreInv
<1>0. SameProduct(ProductOf(s)) \subseteq Nat
  BY Lists DEF SameProduct
<1>1. PICK P : P = SameProduct(ProductOf(s)) /\ P \subseteq Nat
  BY <1>0
<1>2. SUFFICES ASSUME P # {} PROVE FALSE
  BY <1>1
<1>3. Min(P) \in P
  BY <1>1, <1>2, MinIsLeast
<1>4. PICK i : i = Min(P)
  OBVIOUS
<1>5. i \in DOMAIN setup /\ setup[i].product = ProductOf(s)
  BY <1>1, <1>3, <1>4 DEF SameProduct
<1>6. PICK u \in Units : setup[i].product = Product[u] /\ setup[i].location \in Home[u]
  BY <1>5 DEF SetupInv
<1>7. services[s].unit \in Units /\ services[s].location \in Home[services[s].unit]
  BY Lists DEF Services, BusInv
<1>8. u = services[s].unit
  BY <1>5, <1>6, <1>7 DEF OwnModels, ProductOf
<1>9. setup[i].location = services[s].location
  BY <1>6, <1>7, <1>8 DEF OwnHomes
<1>10. i \in DeviceInSetup(ProductOf(s), services[s].location)
  BY <1>1, <1>3, <1>4, <1>9 DEF DeviceInSetup
<1> QED
  BY <1>10

(* A MIDI device is created only for a product and a location that no MIDI
   device of the setup has, when every unit is a model of its own with its own
   place on the bus.  Two units of one model break it, as the run of one model
   shows, and so does a unit that moves. *)
THEOREM OnlyNewInSetup ==
  ASSUME OwnModels, OwnHomes
  PROVE  Spec => AlreadyInSetup
<1>1. CoreInv /\ ServedInv /\ [Next]_vars =>
        [Len(setup') > Len(setup) =>
           LET new == Last(setup')
           IN  \A e \in ToSet(setup) :
                 <<e.product, e.location>> # <<new.product, new.location>>]_vars
  <2> SUFFICES ASSUME CoreInv, ServedInv, Next, Len(setup') > Len(setup)
               PROVE  \A e \in ToSet(setup) :
                        <<e.product, e.location>>
                          # <<Last(setup').product, Last(setup').location>>
    OBVIOUS
  <2>1. PICK s \in DOMAIN services, constructed \in BOOLEAN :
          FoundInterface(s, constructed)
    <3>0. Len(setup) \in Nat /\ ~(Len(setup) > Len(setup))
      BY Lists
    <3>1. UNCHANGED setup => FALSE
      BY <3>0
    <3>2. ~NewMIDISPORTDriver /\ ~Stop /\ ~Callback /\ ~Drained
      BY <3>1 DEF NewMIDISPORTDriver, Stop, Callback, Drained
    <3>3. ~Start
      <4>1. Start => Len(setup') = Len(setup)
        BY Lists DEF Start
      <4> QED
        BY <3>0, <4>1
    <3>4. \A u \in Units, l \in Locations : ~Plug(u, l)
      BY <3>1 DEF Plug
    <3>5. \A s \in DOMAIN services : ~Unplug(s)
      BY <3>1 DEF Unplug
    <3>6. \A s \in DOMAIN services : ~DeviceRemoved(s)
      <4>1. ASSUME NEW s \in DOMAIN services, DeviceRemoved(s)
            PROVE  UNCHANGED setup \/ Len(setup') = Len(setup)
        BY <4>1, Lists DEF DeviceRemoved
      <4> QED
        BY <3>0, <4>1
    <3>7. PICK s \in DOMAIN services : DeviceAdded(s)
      BY <3>2, <3>3, <3>4, <3>5, <3>6 DEF Next
    <3> QED
      BY <3>1, <3>7 DEF DeviceAdded
  <2>2. /\ DeviceInSetup(ProductOf(s), services[s].location) = {}
        /\ Len(setup') = Len(setup) + 1
        /\ setup'[Len(setup) + 1].product = ProductOf(s)
        /\ setup'[Len(setup) + 1].location = services[s].location
    BY <2>1, FoundEntry
  <2>3. Last(setup').product = ProductOf(s)
    BY <2>2 DEF Last
  <2>4. ASSUME NEW e \in ToSet(setup)
        PROVE  e.product # ProductOf(s)
    <3>1. PICK i \in DOMAIN setup : e = setup[i]
      BY DEF ToSet
    <3>2. i \notin SameProduct(ProductOf(s))
      BY <2>2, FirstOfProduct
    <3> QED
      BY <3>1, <3>2 DEF SameProduct
  <2> QED
    BY <2>3, <2>4
<1> QED
  BY <1>1, CoreHolds, InitServed, StepServed, PTL DEF Spec, AlreadyInSetup
=============================================================================
