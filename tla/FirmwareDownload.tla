-------------------------- MODULE FirmwareDownload --------------------------
(***************************************************************************)
(* The firmware downloader daemon: main, the callback                      *)
(* downloadFirmwareToDevice, class EZUSBLoader, and the part of            *)
(* USBDeviceManager::DevicesAdded that brings a device to the callback.    *)
(* Everything the daemon does runs on one run loop; between two of its USB *)
(* control requests a device may be unplugged, and any request may fail.   *)
(*                                                                         *)
(* StartDevice is one straight sequence of calls, each of which is one     *)
(* control request or a loop that makes a request for some of its records; *)
(* every request is a step, and what StartDevice stops at is the first     *)
(* failure of a request whose status is looked at.                         *)
(***************************************************************************)
EXTENDS FiniteSets, IntelHexFile, HardwareConfiguration

CONSTANTS Devices,        \* units of the vendor
          NoDevice,       \* ezUSBDevice = NULL
          ColdId, WarmId, \* [Devices -> Nat]: their product ids
          Configs,        \* what the configuration file may hold
          Garbage,        \* what a variable nothing assigned may hold
          LoaderFiles,    \* what main may find in the hex loader file
          FirmwareFiles,  \* per path: what the callback may find in the file
          Loader,         \* the records of the intact loader file
          Application,    \* per path: those of the intact firmware file
          Addresses,      \* addresses of the chip, internal and external
          MAX_INTERNAL_ADDRESS,
          Blank,          \* what RAM holds after power up
          MaxFaults,      \* bound: requests or opens that fail
          MaxPlugs        \* bound: times a device is plugged in

DataRecords(image) ==
  LET stop == SelectInSeq(image, LAMBDA r : r.type # 0)
  IN  IF stop = 0 THEN image ELSE SubSeq(image, 1, stop - 1)

INTERNAL_RAM_ADDRESS(address) == address <= MAX_INTERNAL_ADDRESS

AllImages == {Loader} \cup Range(Application)
Written(image) == ToSet(DataRecords(image))
Contents == {Blank} \cup UNION {{r.data : r \in ToSet(image)} : image \in AllImages}
Programs == {"loader"} \cup DOMAIN Application

(* "knows how to download to external RAM" cannot itself lie in external RAM. *)
ASSUME DownloadAssumption ==
  /\ NoDevice \notin Devices
  /\ ColdId \in [Devices -> Nat] /\ WarmId \in [Devices -> Nat]
  /\ DOMAIN FirmwareFiles = DOMAIN Application
  /\ Addresses \subseteq Nat /\ MAX_INTERNAL_ADDRESS \in Nat
  /\ MaxFaults \in Nat /\ MaxPlugs \in Nat
  /\ \A r \in Written(Loader) : INTERNAL_RAM_ADDRESS(r.address)

(* What the images are: programs whose records agree with each other, none of
   which is part of another, or of what the loader leaves in RAM.  A file has
   the image that belongs to it, or nothing, or does not read: damage that has
   the right checksum on every line is not considered, a file that is cut off
   between two lines included. *)
ASSUME ImagesAssumption ==
  LET Reads(file, image) ==
        LET read == ReadFirmwareFromHexFile(file)
        IN  read.result = "true" => read.firmware \in {<<>>, image}
  IN
  /\ \A image \in AllImages :
       /\ image \in Seq([address : Addresses, type : Nat, data : Contents])
       /\ \A r, s \in Written(image) : r.address = s.address => r.data = s.data
  /\ \A p, q \in DOMAIN Application :
       p # q => \E r \in Written(Application[p]), s \in Written(Application[q]) :
                  r.address = s.address /\ r.data # s.data
  /\ \A p \in DOMAIN Application :
       \E r \in Written(Application[p]) :
         r.data # Blank /\ \A s \in Written(Loader) :
                             s.address = r.address => s.data # r.data
  /\ \E r \in Written(Loader) : r.data # Blank
  /\ \A file \in LoaderFiles : Reads(file, Loader)
  /\ \A p \in DOMAIN Application : \A file \in FirmwareFiles[p] :
       Reads(file, Application[p])
  /\ DOMAIN Application \cap {"none", "core", "loader", "unknown", ""} = {}

(* The property lists with a device list, and that list. *)
HasDevices(file) ==
  /\ file.type = "dictionary" /\ "Devices" \in DOMAIN file.value
  /\ file.value["Devices"].type = "array"

DevicesOf(file) == file.value["Devices"].value

(* No unit is taken for a cold one when it is warm, and the files of the
   configuration are those of FirmwareFiles. *)
ASSUME ConfigsAssumption ==
  /\ \A file \in Configs :
       HasDevices(file) => /\ Len(DevicesOf(file)) \in Nat
                           /\ DOMAIN DevicesOf(file) = 1..Len(DevicesOf(file))
  /\ \A file \in Configs, garbage \in Garbage :
       LET known == ReadConfigFile(file, garbage).deviceList
       IN  /\ \A d \in Devices : WarmId[d] \notin DOMAIN known
           /\ \A id \in DOMAIN known :
                known[id].firmwareFileName \in {""} \cup DOMAIN Application

VARIABLES configFile,  \* the file named on the command line
          deviceList,  \* the member deviceList
          daemon,    \* "starting", "serving", "exited" or "terminated"
          loader,    \* the member loader
          arrivals,  \* devices mDeviceAddIterator has yet to return
          current,   \* ezUSBDevice while its callback runs
          attached,  \* the device the callback's handle stands for is there
          firmware,  \* firmwareToDownload of the callback
          call,      \* the call of StartDevice that is under way, 0 for none
          record,    \* in a loop of its: hexRecord
          outcome,   \* per device: result of StartDevice, of the callback,
                     \* and the records it read
          chip,      \* the devices
          faults, plugs

config == <<configFile, deviceList>>
progress == <<current, attached, firmware, call, record>>
vars == <<config, daemon, loader, arrivals, progress, outcome, chip, faults,
          plugs>>

Unplugged == [bus |-> "absent", cpu |-> "running", program |-> "none",
              ram |-> [a \in Addresses |-> Blank]]

Chips == [bus : {"absent", "cold", "warm"},   \* and with which product id
          cpu : {"running", "held"},
          program : {"none", "core", "unknown"} \cup Programs,
          ram : [Addresses -> Contents]]

NoOutcome == [started |-> "none", returned |-> "none", image |-> <<>>]

Init == /\ configFile \in Configs /\ deviceList = EmptyList
        /\ daemon = "starting" /\ loader = <<>>
        /\ arrivals = {} /\ current = NoDevice /\ attached = FALSE
        /\ firmware = <<>> /\ call = 0 /\ record = 1
        /\ outcome = [d \in Devices |-> NoOutcome]
        /\ chip = [d \in Devices |-> Unplugged]
        /\ faults = 0 /\ plugs = 0

-----------------------------------------------------------------------------
(* The chip. *)

Holds(ram, image) ==
  \A r \in Written(image) : ram[r.address] = r.data

(* What runs when the 8051 leaves reset with this RAM. *)
Program(ram) ==
  LET whole == {path \in DOMAIN Application : Holds(ram, Application[path])}
  IN  IF whole # {} THEN CHOOSE path \in whole : TRUE
      ELSE IF Holds(ram, Loader) THEN "loader"
      ELSE "unknown"

(* The chip after the request that sets or clears its reset bit. *)
Reset(c, bit) ==
  IF bit = 1 THEN [c EXCEPT !.cpu = "held", !.program = "none"]
  ELSE [c EXCEPT !.cpu = "running",
                 !.program = IF c.cpu = "held" THEN Program(c.ram) ELSE @]

(* And after one that loads a record; RAM written under a running program
   leaves it running nobody knows what. *)
Load(c, r, ram) ==
  [c EXCEPT !.ram[r.address] = r.data,
            !.program = IF ram = "external" \/ c.cpu = "held" THEN @ ELSE "unknown"]

-----------------------------------------------------------------------------
(* What EZUSBLoader calls. *)

Reset8051(bit) == [does |-> "reset", bit |-> bit, checked |-> TRUE]

(* The result of this Reset8051 is dropped. *)
Reset8051Unchecked(bit) == [Reset8051(bit) EXCEPT !.checked = FALSE]

(* Mutant: the status of a load is dropped as well. *)
DownloadFirmwareToRAMUnchecked(image, ram) ==
  [does |-> "load", image |-> image, ram |-> ram, checked |-> FALSE]

DownloadFirmwareToRAM(image, ram) ==
  [does |-> "load", image |-> image, ram |-> ram, checked |-> TRUE]

(* Mutant: internal RAM first. *)
DownloadFirmwareInternalFirst(image) ==
  <<Reset8051Unchecked(1), DownloadFirmwareToRAM(image, "internal"),
    DownloadFirmwareToRAM(image, "external")>>

(* Mutant: the 8051 is not stopped before internal RAM is loaded. *)
DownloadFirmwareUnheld(image) ==
  <<DownloadFirmwareToRAM(image, "external"),
    DownloadFirmwareToRAM(image, "internal")>>

(* Two passes, external RAM first: the second may wipe out the loader. *)
DownloadFirmware(image) ==
  <<DownloadFirmwareToRAM(image, "external"), Reset8051Unchecked(1),
    DownloadFirmwareToRAM(image, "internal")>>

(* Mutant: the 8051 is not reset between the application and its start. *)
StartDeviceNoReset ==
  <<Reset8051(1)>> \o DownloadFirmware("loader")
  \o <<Reset8051(0)>> \o DownloadFirmware("application")
  \o <<Reset8051(0)>>

StartDevice ==
  <<Reset8051(1)>> \o DownloadFirmware("loader")
  \o <<Reset8051(0)>> \o DownloadFirmware("application")
  \o <<Reset8051(1), Reset8051(0)>>

(* The call under way, and the records its loop goes through. *)
Call == StartDevice[call]
Records == DataRecords(IF Call.image = "loader" THEN loader ELSE firmware)

(* The record is one for this pass. *)
ForRAM(r, ram) == INTERNAL_RAM_ADDRESS(r.address) <=> ram = "internal"

(* The call has a request to send: otherwise it is a loop at its end or at a
   record of the other pass. *)
Sends == Call.does = "load" =>
           record <= Len(Records) /\ ForRAM(Records[record], Call.ram)

(* ANCHOR_LOAD_INTERNAL is served by the core; ANCHOR_LOAD_EXTERNAL is not,
   and requires the loader to be running. *)
Serves(c) == Call.does = "load" /\ Call.ram = "external" => c.program = "loader"

(* The chip after the request of the call. *)
After(c) == IF Call.does = "reset" THEN Reset(c, Call.bit)
            ELSE Load(c, Records[record], Call.ram)

-----------------------------------------------------------------------------
(* new HardwareConfiguration. *)
HardwareConfig ==
  [file \in Configs |-> [garbage \in Garbage |-> ReadConfigFile(file, garbage)]]

(* main, up to the run loop: the configuration file, then the hex loader. *)
Main ==
  /\ daemon = "starting"
  /\ \E garbage \in Garbage, file \in LoaderFiles :
       LET known  == HardwareConfig[configFile][garbage]
           read   == ReadFirmwareFromHexFile(file)
           result == IF known.result = "true" THEN read.result ELSE known.result
       IN  /\ daemon' = CASE result = "true"                 -> "serving"
                          [] result = "false"                -> "exited"
                          [] result \in {"throws", "crashes"} -> "terminated"
           /\ deviceList' = known.deviceList
           /\ loader' = IF result = "true" THEN read.firmware ELSE <<>>
  /\ UNCHANGED <<configFile, arrivals, progress, outcome, chip, faults, plugs>>

(* Mutant: the product id is not read again when a device comes back. *)
ProductOfStale(d) == ColdId[d]

(* The product id a unit has on the bus. *)
ProductOf(d) == IF chip[d].bus = "cold" THEN ColdId[d] ELSE WarmId[d]

(* The vendor's, and its product id is a cold boot id of deviceList. *)
MatchDevice(d) == chip[d].bus # "absent" /\ ProductOf(d) \in DOMAIN deviceList

FirmwareFileName(d) == deviceList[ProductOf(d)].firmwareFileName

(* DevicesAdded: a device that does not match, is gone, or cannot be opened. *)
PassOver(d) ==
  /\ daemon = "serving" /\ current = NoDevice /\ d \in arrivals
  /\ \/ /\ ~MatchDevice(d)
        /\ UNCHANGED faults
     \/ /\ MatchDevice(d) /\ faults < MaxFaults
        /\ faults' = faults + 1
  /\ arrivals' = arrivals \ {d}
  /\ UNCHANGED <<daemon, loader, progress, outcome, chip, plugs>>

(* FoundInterface calls the callback, which has nothing to do without a file. *)
FoundWithoutFirmware(d) ==
  /\ daemon = "serving" /\ current = NoDevice /\ d \in arrivals
  /\ MatchDevice(d) /\ FirmwareFileName(d) = ""
  /\ arrivals' = arrivals \ {d}
  /\ outcome' = [outcome EXCEPT ![d].returned = "true"]
  /\ UNCHANGED <<daemon, loader, progress, chip, faults, plugs>>

(* Mutant: the device stays in the list of those to look at. *)
FoundInterfaceAgain(d) ==
  /\ daemon = "serving" /\ current = NoDevice /\ d \in arrivals
  /\ MatchDevice(d) /\ FirmwareFileName(d) # ""
  /\ \E file \in FirmwareFiles[FirmwareFileName(d)] :
       LET read == ReadFirmwareFromHexFile(file) IN
       /\ read.result = "true"
       /\ current' = d /\ attached' = TRUE
       /\ firmware' = read.firmware /\ call' = 1 /\ record' = 1
       /\ outcome' = [outcome EXCEPT ![d].image = read.firmware]
  /\ UNCHANGED <<daemon, loader, arrivals, chip, faults, plugs>>

(* Or reads the firmware file and, when it can, enters StartDevice. *)
FoundInterface(d) ==
  /\ daemon = "serving" /\ current = NoDevice /\ d \in arrivals
  /\ MatchDevice(d) /\ FirmwareFileName(d) # ""
  /\ arrivals' = arrivals \ {d}
  /\ \E file \in FirmwareFiles[FirmwareFileName(d)] :
       LET read == ReadFirmwareFromHexFile(file) IN
       \/ /\ read.result = "true"
          /\ current' = d /\ attached' = TRUE
          /\ firmware' = read.firmware /\ call' = 1 /\ record' = 1
          /\ outcome' = [outcome EXCEPT ![d].image = read.firmware]
          /\ UNCHANGED daemon
       \/ /\ read.result = "false"
          /\ outcome' = [outcome EXCEPT ![d].returned = "false"]
          /\ UNCHANGED <<daemon, progress>>
       \/ /\ read.result = "throws"
          /\ daemon' = "terminated"
          /\ UNCHANGED <<outcome, progress>>
  /\ UNCHANGED <<loader, chip, faults, plugs>>

(* StartDevice returns, and the callback, which returns true either way. *)
Return(started) ==
  /\ current' = NoDevice /\ attached' = FALSE
  /\ firmware' = <<>> /\ call' = 0 /\ record' = 1
  /\ outcome' = IF attached
                  THEN [outcome EXCEPT ![current] =
                          [started |-> started, returned |-> "true", image |-> @.image]]
                  ELSE outcome

(* The next record, the next call, or the end of StartDevice. *)
Proceed ==
  IF Call.does = "load" /\ record < Len(Records)
    THEN record' = record + 1
         /\ UNCHANGED <<current, attached, firmware, call, outcome>>
  ELSE IF call < Len(StartDevice)
    THEN call' = call + 1 /\ record' = 1
         /\ UNCHANGED <<current, attached, firmware, outcome>>
  ELSE Return("true")

NothingToSend ==
  /\ current # NoDevice /\ ~Sends
  /\ Proceed
  /\ UNCHANGED <<daemon, loader, arrivals, chip, faults, plugs>>

RequestSucceeds ==
  /\ current # NoDevice /\ Sends
  /\ attached /\ Serves(chip[current])
  /\ chip' = [chip EXCEPT ![current] = After(@)]
  /\ Proceed
  /\ UNCHANGED <<daemon, loader, arrivals, faults, plugs>>

(* A request to a device that is there may fail, at the price of a fault. *)
Faulty == IF attached /\ Serves(chip[current])
            THEN faults < MaxFaults /\ faults' = faults + 1
            ELSE UNCHANGED faults

(* Mutant: StartDevice returns with calls left. *)
RequestFailsKeeps ==
  /\ current # NoDevice /\ Sends
  /\ Faulty
  /\ current' = NoDevice /\ attached' = FALSE
  /\ UNCHANGED <<daemon, loader, arrivals, firmware, call, record, outcome, chip,
                 plugs>>

RequestFails ==
  /\ current # NoDevice /\ Sends
  /\ Faulty
  /\ IF Call.checked THEN Return("false") ELSE Proceed
  /\ UNCHANGED <<daemon, loader, arrivals, chip, plugs>>

-----------------------------------------------------------------------------
(* The bus. *)

Plug(d) ==
  /\ chip[d].bus = "absent" /\ plugs < MaxPlugs
  /\ plugs' = plugs + 1
  /\ chip' = [chip EXCEPT ![d] = [Unplugged EXCEPT !.bus = "cold",
                                                   !.program = "core"]]
  /\ arrivals' = arrivals \cup {d}
  /\ outcome' = [outcome EXCEPT ![d] = NoOutcome]
  /\ UNCHANGED <<daemon, loader, progress, faults>>

Unplug(d) ==
  /\ chip[d].bus # "absent"
  /\ chip' = [chip EXCEPT ![d] = Unplugged]
  /\ attached' = (attached /\ current # d)
  /\ outcome' = [outcome EXCEPT ![d] = NoOutcome]
  /\ UNCHANGED <<daemon, loader, arrivals, current, firmware, call, record,
                 faults, plugs>>

(* The application comes up: the device leaves the bus and is back with its
   warm product id. *)
Renumerate(d) ==
  /\ chip[d].bus = "cold" /\ chip[d].program \in DOMAIN Application
  /\ chip' = [chip EXCEPT ![d].bus = "warm"]
  /\ arrivals' = arrivals \cup {d}
  /\ attached' = (attached /\ current # d)
  /\ UNCHANGED <<daemon, loader, current, firmware, call, record, outcome,
                 faults, plugs>>

-----------------------------------------------------------------------------
(* One step of StartDevice, or one object of the iterator. *)
Requested == (NothingToSend \/ RequestSucceeds \/ RequestFails)
             /\ UNCHANGED config
Arrived(d) == (PassOver(d) \/ FoundInterface(d) \/ FoundWithoutFirmware(d))
              /\ UNCHANGED config
Enumerates(d) == Renumerate(d) /\ UNCHANGED config

Next == \/ Main \/ Requested
        \/ \E d \in Devices : \/ Arrived(d) \/ Enumerates(d)
                              \/ (Plug(d) \/ Unplug(d)) /\ UNCHANGED config

Spec == Init /\ [][Next]_vars

(* The daemon's one thread keeps running, and a started application enumerates. *)
FairSpec == /\ Spec
            /\ WF_vars(Main) /\ WF_vars(Requested)
            /\ \A d \in Devices : WF_vars(Arrived(d)) /\ WF_vars(Enumerates(d))

-----------------------------------------------------------------------------
(* The variables have their types, and StartDevice is in a call exactly while a
   callback runs: it leaves nothing behind for the next device. *)
TypeOK ==
  /\ daemon \in {"starting", "serving", "exited", "terminated"}
  /\ loader \in {<<>>, Loader}
  /\ arrivals \subseteq Devices
  /\ current \in Devices \cup {NoDevice} /\ attached \in BOOLEAN
  /\ firmware \in {<<>>} \cup Range(Application)
  /\ call \in 0..Len(StartDevice)
  /\ record \in 1..(IF call = 0 \/ Call.does = "reset" \/ Len(Records) = 0
                     THEN 1 ELSE Len(Records))
  /\ chip \in [Devices -> Chips]
  /\ outcome \in [Devices -> [started  : {"none", "true", "false"},
                              returned : {"none", "true", "false"},
                              image    : {<<>>} \cup Range(Application)]]
  /\ faults \in 0..MaxFaults /\ plugs \in 0..MaxPlugs
  /\ call # 0 <=> current # NoDevice

(* The dictionaries of the configuration file's device list. *)
Entries == {i \in DOMAIN DevicesOf(configFile) : DevicesOf(configFile)[i].type = "dictionary"}
Entry(i) == DevicesOf(configFile)[i].value

(* "This does the data validation that all the parameters are there": while the
   daemon serves, it serves every model of the file, none else, and each with
   the firmware of the last entry of its cold boot id. *)
ConfigurationComplete ==
  daemon = "serving" =>
    LET ColdOf(i) == Entry(i)["ColdBootProductID"].value
    IN  /\ \A i \in Entries : StringKeys \cup RequiredNumbers \subseteq DOMAIN Entry(i)
        /\ DOMAIN deviceList = {ColdOf(i) : i \in Entries}
        /\ \A i \in Entries :
             (\A j \in Entries : j > i => ColdOf(j) # ColdOf(i)) =>
               deviceList[ColdOf(i)].firmwareFileName = Entry(i)["FilePath"].value

(* It holds of files in which the two values it speaks of have the type they
   are read as: a value of another type is passed over without a word. *)
ReadAsTyped(files) == \A file \in files :
  HasDevices(file) =>
    \A i \in DOMAIN DevicesOf(file), key \in {"ColdBootProductID", "FilePath"} :
      LET device == DevicesOf(file)[i]
      IN  device.type = "dictionary" /\ key \in DOMAIN device.value
            => device.value[key].type = TypeOfKey(key)

(* A device for which StartDevice returned true ("Booted") runs the firmware
   its model's entry names, whatever requests failed on the way; if no record of
   it could be read, the loader, and if none of that could, blank RAM. *)
BootedRunsApplication ==
  \A d \in Devices :
    outcome[d].started = "true" =>
      chip[d].program =
        IF outcome[d].image # <<>> THEN deviceList[ColdId[d]].firmwareFileName
        ELSE IF loader # <<>> THEN "loader" ELSE "unknown"

(* The 8051 is let go only on RAM that holds a whole image: a download that
   broke off is never started.  The exception is needed: a loader file that
   cannot be opened is read without an error, and blank RAM is started. *)
StartsWholeImage ==
  [][\A d \in Devices :
       chip[d].cpu = "held" /\ chip'[d].cpu = "running"
         /\ chip'[d].bus # "absent"
       => chip'[d].program \in Programs \/ loader = <<>>]_vars

(* A device that runs its application is left alone, also when it comes back
   on the bus, until somebody unplugs it. *)
ApplicationLeftAlone ==
  [][\A d \in Devices :
       chip[d].program \in DOMAIN Application /\ chip'[d].bus # "absent"
       => chip'[d].program = chip[d].program /\ chip'[d].ram = chip[d].ram]_vars

(* A device as the bus shows it. *)
Stage(d) == IF chip[d].bus # "cold" THEN chip[d].bus
            ELSE IF attached /\ current = d THEN "loading"
            ELSE IF outcome[d].started = "true" THEN "booted"
            ELSE IF outcome[d].started = "false" THEN "failed"
            ELSE "cold"

Boot == INSTANCE DeviceBoot
          WITH Applications <- DOMAIN Application,
               Programs <- Programs \cup {"unknown"},
               stage <- [d \in Devices |-> Stage(d)],
               runs <- [d \in Devices |->
                          IF outcome[d].started = "true" THEN chip[d].program ELSE "none"]

(* The daemon implements DeviceBoot: one device at a time is loaded, each once
   in its life on the bus, never one that is warm or already runs. *)
ImplementsDeviceBoot == Boot!Spec

(* As long as no request fails and the files can be read, every cold device
   with a firmware file that is not unplugged ends up with it running. *)
EveryDeviceBoots ==
  \A d \in Devices :
    chip[d].bus = "cold" ~> \/ chip[d].bus # "cold"
                            \/ faults > 0
                            \/ \A i \in DOMAIN deviceList :
                                 i = ColdId[d] => deviceList[i].firmwareFileName = ""
                            \/ outcome[d].returned = "false"
                            \/ /\ outcome[d].started = "true"
                               /\ outcome[d].image = <<>>
                            \/ loader = <<>> \/ daemon # "serving"

(* "Before starting the download, stop the 8051": internal RAM is written
   only while the 8051 is held in reset, unless a request has failed.  The
   exception is needed: DownloadFirmware drops the result of its Reset8051. *)
HeldWhileLoading ==
  [][\A d \in Devices, a \in Addresses :
       /\ INTERNAL_RAM_ADDRESS(a)
       /\ chip[d].bus = "cold" /\ chip'[d].bus = "cold"
       /\ chip'[d].ram[a] # chip[d].ram[a]
       => chip[d].cpu = "held" \/ faults > 0]_vars
=============================================================================
