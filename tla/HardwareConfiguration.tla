------------------------ MODULE HardwareConfiguration ------------------------
(***************************************************************************)
(* Class HardwareConfiguration: from the property list in the file to the  *)
(* list of known devices.  A property list is a tagged value, [type,       *)
(* value, fits]; the value of a "dictionary" is a function from its keys,  *)
(* that of an "array" a sequence, and fits tells whether CoreFoundation    *)
(* can put a string or a number into the variable it is read into.         *)
(***************************************************************************)
EXTENDS Integers, SequencesExt

(* What readConfigFile is given when the file cannot be opened or parsed. *)
Unreadable == [type |-> "none", value |-> <<>>, fits |-> TRUE]

(* The keys of a device, in the order in which they are looked at. *)
Keys == <<"DeviceName", "FilePath", "ColdBootProductID",
          "WarmFirmwareProductID", "NumericPortNaming", "NumberOfPorts",
          "NumberOfInputPorts", "NumberOfOutputPorts", "SMPTEPort",
          "ReadBufferSize", "WriteBufferSize">>

StringKeys == {"DeviceName", "FilePath"}
RequiredNumbers == {"ColdBootProductID", "WarmFirmwareProductID",
                    "ReadBufferSize", "WriteBufferSize"}

TypeOfKey(key) == CASE key \in StringKeys         -> "string"
                    [] key = "NumericPortNaming"  -> "boolean"
                    [] OTHER                      -> "number"

WellTyped(dict, key) == key \in DOMAIN dict /\ dict[key].type = TypeOfKey(key)

(* What looking at one key ends with: a missing string or a value that does not
   fit gives the entry up, and a missing number that is required is a NULL that
   CFGetTypeID is called with.  A value of another type is passed over. *)
LooksAt(dict, key) ==
  CASE key \notin DOMAIN dict /\ key \in StringKeys      -> "false"
    [] key \notin DOMAIN dict /\ key \in RequiredNumbers -> "crashes"
    [] WellTyped(dict, key) /\ ~dict[key].fits           -> "false"
    [] OTHER                                             -> "true"

(* The first key that ends the look at an entry decides. *)
DeviceResult(dict) ==
  LET stop == SelectInSeq(Keys, LAMBDA key : LooksAt(dict, key) # "true")
  IN  IF stop = 0 THEN "true" ELSE LooksAt(dict, Keys[stop])

(* struct DeviceFirmware; a number that nothing assigned is garbage. *)
DeviceFirmware(dict, garbage) ==
  LET Field(key, default) ==
        IF WellTyped(dict, key) THEN dict[key].value ELSE default
      ports == Field("NumberOfPorts", garbage)
  IN  [modelName              |-> Field("DeviceName", ""),
       firmwareFileName       |-> Field("FilePath", ""),
       coldBootProductID      |-> Field("ColdBootProductID", garbage),
       warmFirmwareProductID  |-> Field("WarmFirmwareProductID", garbage),
       numericPortNaming      |-> Field("NumericPortNaming", FALSE),
       numberOfInputPorts     |-> Field("NumberOfInputPorts", ports),
       numberOfOutputPorts    |-> Field("NumberOfOutputPorts", ports),
       SMPTEport              |-> Field("SMPTEPort", -1),
       readBufSize            |-> Field("ReadBufferSize", garbage),
       writeBufSize           |-> Field("WriteBufferSize", garbage)]

EmptyList == [id \in {} |-> <<>>]

(* Mutant: the first entry of a cold boot id stays. *)
AssignedOnce(deviceList, entry) ==
  [id \in DOMAIN deviceList \cup {entry.coldBootProductID} |->
     IF id \in DOMAIN deviceList THEN deviceList[id] ELSE entry]

(* deviceList[entry.coldBootProductID] = entry. *)
Assigned(deviceList, entry) ==
  [id \in DOMAIN deviceList \cup {entry.coldBootProductID} |->
     IF id = entry.coldBootProductID THEN entry ELSE deviceList[id]]

(* One round of the loop over the device list: what is no dictionary is
   skipped. *)
WithDevice(deviceList, device, garbage) ==
  IF device.type = "dictionary"
  THEN Assigned(deviceList, DeviceFirmware(device.value, garbage))
  ELSE deviceList

DeviceList(devices, garbage) ==
  FoldLeft(LAMBDA deviceList, device : WithDevice(deviceList, device, garbage),
           EmptyList, devices)

(* The loop: an entry that is given up gives up the file. *)
ReadDevices(devices, garbage) ==
  LET stops == {i \in DOMAIN devices : /\ devices[i].type = "dictionary"
                                       /\ DeviceResult(devices[i].value) # "true"}
  IN  IF stops = {} THEN [result |-> "true", deviceList |-> DeviceList(devices, garbage)]
      ELSE [result |-> DeviceResult(devices[Min(stops)].value), deviceList |-> EmptyList]

GivenUp(result) == [result |-> result, deviceList |-> EmptyList]

(* readConfigFile.  The path of the hex loader may be too long for its
   variable, which nothing looks at. *)
ReadConfigFile(plist, garbage) ==
  IF plist.type # "dictionary" THEN GivenUp("false")
  ELSE IF \/ "HexLoader" \notin DOMAIN plist.value
          \/ plist.value["HexLoader"].type # "string" THEN GivenUp("false")
  ELSE IF "Devices" \notin DOMAIN plist.value THEN GivenUp("crashes")
  ELSE IF plist.value["Devices"].type # "array" THEN GivenUp("false")
  ELSE ReadDevices(plist.value["Devices"].value, garbage)

(* The cold boot ids of the entries with a warm boot id. *)
WithWarmId(deviceList, id) ==
  {cold \in DOMAIN deviceList : deviceList[cold].warmFirmwareProductID = id}

(* deviceFirmwareForWarmBootId: the entry with the least cold boot id; there is
   none exactly if it throws. *)
DeviceFirmwareForWarmBootId(deviceList, id) ==
  deviceList[Min(WithWarmId(deviceList, id))]
=============================================================================
