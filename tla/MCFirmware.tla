----------------------------- MODULE MCFirmware -----------------------------
(* Three units: two models with a firmware each, and one that may have none or
   be left out of the configuration.  A loader of one internal record, and
   applications whose records, as in a real image, are not sorted by the kind
   of RAM they go to. *)
EXTENDS FirmwareDownload

CONSTANTS d1, d2, d3

Cold == d1 :> 4097 @@ d2 :> 4112 @@ d3 :> 4144
Warm == d1 :> 4098 @@ d2 :> 4113 @@ d3 :> 4145

Value(type, value) == [type |-> type, value |-> value, fits |-> TRUE]
Parameters(file, cold, warm) ==
  [DeviceName |-> Value("string", "m"), FilePath |-> Value("string", file),
   ColdBootProductID |-> Value("number", cold),
   WarmFirmwareProductID |-> Value("number", warm),
   ReadBufferSize |-> Value("number", 32), WriteBufferSize |-> Value("number", 32)]
Dictionary(file, d) == Value("dictionary", Parameters(file, Cold[d], Warm[d]))

(* An entry without one of its keys, or with a value that does not fit. *)
Without(key) == LET p == Parameters("file1", Cold[d3], Warm[d3])
                IN  Value("dictionary", [k \in DOMAIN p \ {key} |-> p[k]])
TooLong(key) == LET p == Parameters("file1", Cold[d3], Warm[d3])
                IN  Value("dictionary", [p EXCEPT ![key].fits = FALSE])

Config(keys) == Value("dictionary", keys)
Path == Value("string", "loader")
ConfigOf(devices) == Config([HexLoader |-> Path, Devices |-> Value("array", devices)])

Served == {
  ConfigOf(<<Dictionary("file1", d1), Dictionary("file2", d2), Dictionary("", d3)>>),
  ConfigOf(<<Dictionary("file2", d1), Value("string", "comment"),
             Dictionary("file1", d1)>>) }
Refused == {
  ConfigOf(<<Dictionary("file1", d1), bad>>) :
    bad \in {Without("FilePath"), Without("WriteBufferSize"), TooLong("DeviceName")} }
  \cup {Unreadable, Value("array", <<>>), Config([Devices |-> Value("array", <<>>)]),
        Config([HexLoader |-> Value("number", 1), Devices |-> Value("array", <<>>)]),
        Config([HexLoader |-> Path]), Config([HexLoader |-> Path, Devices |-> Path])}
AllConfigs == Served \cup Refused

(* What ConfigurationComplete is proved under. *)
ASSUME ConfigsAreTyped == ReadAsTyped(AllConfigs)

Zero == {0}

Rec(address, data) == [address |-> address, type |-> 0, data |-> data]
EndRecord          == [address |-> 0, type |-> 1, data |-> "end"]

LoaderImage == <<Rec(1, "boot"), EndRecord>>
Images == "file1" :> <<Rec(1, "vector"), Rec(3, "table"), Rec(2, "code"), EndRecord>>
       @@ "file2" :> <<Rec(1, "vector2"), Rec(2, "code"), EndRecord>>

Line(r) == [kind |-> "record", record |-> r]
File(image) == <<[kind |-> "comment"]>> \o [i \in DOMAIN image |-> Line(image[i])]

Whole(image)    == {File(image)}
Damaged(image)  == {Append(File(image), [kind |-> k]) : k \in {"badSum", "noColon", "long", "short"}}
Missing == {<<>>}

LoaderOrDamaged == Whole(LoaderImage) \cup Damaged(LoaderImage) \cup Missing
AppOrDamaged    == [path \in DOMAIN Images |->
                      Whole(Images[path]) \cup Damaged(Images[path]) \cup Missing]

AddressSpace == {0, 1, 2, 3}
HighestInternal == 2
=============================================================================
