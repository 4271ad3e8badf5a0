------------------------ MODULE FirmwareDownloadProofs -----------------------
(* Proofs about the downloader daemon: for any devices, images, configurations
   and faults. *)
EXTENDS FirmwareDownload, SequenceLemmas

(* The calls of StartDevice, by their position. *)
LEMMA CallsOfStartDevice ==
  /\ Len(StartDevice) = 10
  /\ StartDevice[1] = Reset8051(1)
  /\ StartDevice[2] = DownloadFirmwareToRAM("loader", "external")
  /\ StartDevice[3] = Reset8051Unchecked(1)
  /\ StartDevice[4] = DownloadFirmwareToRAM("loader", "internal")
  /\ StartDevice[5] = Reset8051(0)
  /\ StartDevice[6] = DownloadFirmwareToRAM("application", "external")
  /\ StartDevice[7] = Reset8051Unchecked(1)
  /\ StartDevice[8] = DownloadFirmwareToRAM("application", "internal")
  /\ StartDevice[9] = Reset8051(1)
  /\ StartDevice[10] = Reset8051(0)
BY DEF StartDevice, DownloadFirmware

-----------------------------------------------------------------------------
(* What is known of the list of devices and of the loader. *)
KnownInv ==
  /\ configFile \in Configs
  /\ \A d \in Devices : WarmId[d] \notin DOMAIN deviceList
  /\ \A id \in DOMAIN deviceList :
       deviceList[id].firmwareFileName \in {""} \cup DOMAIN Application
  /\ daemon = "starting" => \A d \in Devices : outcome[d] = NoOutcome
  /\ current # NoDevice => daemon = "serving"

(* RAM has nothing but what it had after power up, and records of the image. *)
FromImage(ram, image) ==
  \A a \in Addresses :
    ram[a] = Blank \/ \E r \in Written(image) : r.address = a /\ ram[a] = r.data

(* The records of the image that go to one kind of RAM, up to the n-th, are in
   RAM. *)
LoadedTo(ram, image, mem, n) ==
  \A i \in 1..Len(DataRecords(image)) :
    i <= n /\ ForRAM(DataRecords(image)[i], mem) =>
      ram[DataRecords(image)[i].address] = DataRecords(image)[i].data

Loaded(ram, image, mem) == LoadedTo(ram, image, mem, Len(DataRecords(image)))

(* What the calls before the k-th and, in it, the records before the n-th have
   made of a chip: boot is the loader's image, image the application's, and
   failures counts the requests that have failed. *)
CallInv(c, k, n, boot, image, failures) ==
  /\ k \in {2, 3, 4, 5, 10} => c.cpu = "held" /\ c.program = "none"
  /\ k = 8 => c.cpu = "held" \/ failures > 0
  /\ k \in 1..5 \/ image = <<>> => FromImage(c.ram, boot)
  /\ k = 4 => LoadedTo(c.ram, boot, "internal", n - 1)
  /\ k = 5 \/ (k \in 6..10 /\ image = <<>>) => Loaded(c.ram, boot, "internal")
  /\ k = 6 => LoadedTo(c.ram, image, "external", n - 1)
  /\ k \in 7..10 => Loaded(c.ram, image, "external")
  /\ k = 8 => LoadedTo(c.ram, image, "internal", n - 1)
  /\ k \in 9..10 => Loaded(c.ram, image, "internal")

(* The device that StartDevice is called for, while it is there. *)
LoadingInv ==
  attached =>
    /\ current \in Devices /\ current \notin arrivals
    /\ chip[current].bus = "cold"
    /\ chip[current].program \in {"none", "core", "loader", "unknown"}
    /\ outcome[current].started = "none" /\ outcome[current].image = firmware
    /\ ColdId[current] \in DOMAIN deviceList
    /\ deviceList[ColdId[current]].firmwareFileName \in DOMAIN Application
    /\ firmware \in {<<>>, Application[deviceList[ColdId[current]].firmwareFileName]}
    /\ CallInv(chip[current], call, record, loader, firmware, faults)

(* A device on the bus is as it was plugged in until it is looked at, and only
   one that was booted has an application. *)
DeviceInv(d) ==
  LET c == chip[d]
  IN  /\ c.bus = "absent" => /\ c.program = "none" /\ c.cpu = "running"
                             /\ outcome[d] = NoOutcome
      /\ c.bus = "cold" /\ d \in arrivals =>
           /\ c.program = "core" /\ c.cpu = "running"
           /\ c.ram = [a \in Addresses |-> Blank]
           /\ outcome[d].started = "none"
      /\ c.bus = "warm" => c.program \in DOMAIN Application
      /\ c.program \in DOMAIN Application => outcome[d].started = "true"

IInv == /\ TypeOK /\ KnownInv /\ LoadingInv
        /\ \A d \in Devices : DeviceInv(d)
        /\ BootedRunsApplication

-----------------------------------------------------------------------------
(* Images and RAM. *)

Record == [address : Addresses, type : Nat, data : Contents]

(* The records the loops go through are the first ones of the image. *)
LEMMA ImageRecords ==
  ASSUME NEW image \in {<<>>} \cup AllImages
  PROVE  /\ Len(DataRecords(image)) \in Nat
         /\ \A i \in 1..Len(DataRecords(image)) :
              /\ DataRecords(image)[i] \in Record
              /\ DataRecords(image)[i] \in Written(image)
         /\ \A r \in Written(image) :
              \E i \in 1..Len(DataRecords(image)) : r = DataRecords(image)[i]
<1>1. image \in Seq(Record)
  <2>1. CASE image = <<>>
    BY <2>1
  <2>2. CASE image \in AllImages
    BY <2>2, ImagesAssumption DEF ImagesAssumption, Record
  <2> QED
    BY <2>1, <2>2
<1> DEFINE I == {i \in 1..Len(image) : image[i].type # 0}
           stop == IF I # {} THEN Min(I) ELSE 0
           records == IF stop = 0 THEN image ELSE SubSeq(image, 1, stop - 1)
<1>2. DataRecords(image) = records
  BY DEF DataRecords, SelectInSeq
<1>3. stop \in 0..Len(image)
  <2>1. I \subseteq 1..Len(image) /\ Len(image) \in Nat
    BY <1>1
  <2> HIDE DEF I
  <2>2. CASE I # {}
    <3>1. I \in SUBSET Nat
      BY <2>1
    <3>2. Min(I) \in I
      BY <2>2, <3>1, MinIsLeast
    <3>3. stop = Min(I)
      BY <2>2
    <3> HIDE DEF stop
    <3>4. stop \in 1..Len(image)
      BY <2>1, <3>2, <3>3
    <3> QED
      BY <2>1, <3>4
  <2>3. CASE I = {}
    BY <2>1, <2>3
  <2> QED
    BY <2>2, <2>3
<1> HIDE DEF stop
<1>4. records \in Seq(Record)
  <2>1. CASE stop = 0
    BY <1>1, <2>1
  <2>2. CASE stop # 0
    <3>1. stop - 1 \in 0..Len(image) /\ Len(image) \in Nat
      BY <1>1, <1>3, <2>2
    <3>2. \A i \in 1..(stop - 1) : image[i] \in Record
      BY <1>1, <3>1
    <3>3. SubSeq(image, 1, stop - 1) \in Seq(Record)
      BY <1>1, <3>1, <3>2, SubSeqProperties
    <3> QED
      BY <2>2, <3>3
  <2> QED
    BY <2>1, <2>2
<1> HIDE DEF records
<1>5. Len(records) \in Nat /\ DOMAIN records = 1..Len(records)
  BY <1>4
<1>6. Written(image) = {records[i] : i \in 1..Len(records)}
  BY <1>2, <1>5 DEF Written, ToSet
<1> QED
  BY <1>2, <1>4, <1>5, <1>6

LEMMA NoRecords == DataRecords(<<>>) = <<>> /\ Written(<<>>) = {}
<1>1. SelectInSeq(<<>>, LAMBDA r : r.type # 0) = 0
  <2>1. Len(<<>>) = 0 /\ 1..0 = {}
    OBVIOUS
  <2> QED
    BY <2>1 DEF SelectInSeq
<1>2. DataRecords(<<>>) = <<>>
  BY <1>1 DEF DataRecords
<1> QED
  BY <1>2 DEF Written, ToSet

(* A chip whose RAM holds an application runs that one, once it is let go. *)
LEMMA ProgramOfApplication ==
  ASSUME NEW ram, NEW path \in DOMAIN Application, Holds(ram, Application[path])
  PROVE  Program(ram) = path
<1>1. ASSUME NEW other \in DOMAIN Application, Holds(ram, Application[other]),
             other # path
      PROVE  FALSE
  <2>1. PICK r \in Written(Application[path]), s \in Written(Application[other]) :
               r.address = s.address /\ r.data # s.data
    BY <1>1, ImagesAssumption DEF ImagesAssumption
  <2> QED
    BY <1>1, <2>1 DEF Holds
<1> DEFINE whole == {p \in DOMAIN Application : Holds(ram, Application[p])}
<1>2. path \in whole /\ \A p \in whole : p = path
  BY <1>1
<1>3. Program(ram) = IF whole # {} THEN CHOOSE p \in whole : TRUE
                     ELSE IF Holds(ram, Loader) THEN "loader" ELSE "unknown"
  BY DEF Program
<1> HIDE DEF whole
<1> QED
  BY <1>2, <1>3

(* RAM that holds what the loader file gave and nothing else has no application. *)
LEMMA ProgramOfLoader ==
  ASSUME NEW ram, NEW boot \in {<<>>, Loader}, FromImage(ram, boot), Holds(ram, boot)
  PROVE  Program(ram) = IF boot # <<>> THEN "loader" ELSE "unknown"
<1>1. ASSUME NEW path \in DOMAIN Application, Holds(ram, Application[path])
      PROVE  FALSE
  <2>1. PICK r \in Written(Application[path]) :
               r.data # Blank /\ \A s \in Written(Loader) :
                                   s.address = r.address => s.data # r.data
    BY ImagesAssumption DEF ImagesAssumption
  <2>2. Application[path] \in AllImages
    BY DEF AllImages, Range
  <2>3. r.address \in Addresses
    BY <2>1, <2>2, ImageRecords DEF Record
  <2>4. ram[r.address] = r.data
    BY <1>1, <2>1 DEF Holds
  <2> QED
    BY <2>1, <2>3, <2>4, NoRecords DEF FromImage
<1>2. boot = <<>> => ~Holds(ram, Loader)
  <2> SUFFICES ASSUME boot = <<>>, Holds(ram, Loader) PROVE FALSE
    OBVIOUS
  <2>1. PICK r \in Written(Loader) : r.data # Blank
    BY ImagesAssumption DEF ImagesAssumption
  <2>2. r.address \in Addresses
    BY <2>1, ImageRecords DEF Record, AllImages
  <2> QED
    BY <2>1, <2>2, NoRecords DEF Holds, FromImage
<1> DEFINE whole == {p \in DOMAIN Application : Holds(ram, Application[p])}
<1>3. whole = {}
  BY <1>1
<1>4. Program(ram) = IF whole # {} THEN CHOOSE p \in whole : TRUE
                     ELSE IF Holds(ram, Loader) THEN "loader" ELSE "unknown"
  BY DEF Program
<1> HIDE DEF whole
<1> QED
  BY <1>2, <1>3, <1>4

LEMMA ProgramType ==
  ASSUME NEW ram
  PROVE  Program(ram) \in Programs \cup {"unknown"}
<1> DEFINE whole == {p \in DOMAIN Application : Holds(ram, Application[p])}
           path == CHOOSE p \in whole : TRUE
<1>1. Program(ram) = IF whole # {} THEN path
                     ELSE IF Holds(ram, Loader) THEN "loader" ELSE "unknown"
  BY DEF Program
<1>2. whole # {} => path \in whole
  OBVIOUS
<1>3. whole \subseteq DOMAIN Application
  OBVIOUS
<1> HIDE DEF whole, path
<1> QED
  BY <1>1, <1>2, <1>3 DEF Programs

(* RAM holds an image when both passes have gone through its records; that of
   the loader lies in internal RAM alone. *)
LEMMA LoadedHolds ==
  ASSUME NEW ram, NEW image \in {<<>>} \cup AllImages,
         Loaded(ram, image, "internal"),
         Loaded(ram, image, "external") \/ image \in {<<>>, Loader}
  PROVE  Holds(ram, image)
<1> SUFFICES ASSUME NEW r \in Written(image) PROVE ram[r.address] = r.data
  BY DEF Holds
<1>1. PICK i \in 1..Len(DataRecords(image)) : r = DataRecords(image)[i]
  BY ImageRecords
<1>2. i <= Len(DataRecords(image))
  BY ImageRecords
<1>3. CASE INTERNAL_RAM_ADDRESS(r.address)
  BY <1>1, <1>2, <1>3 DEF Loaded, LoadedTo, ForRAM
<1>4. CASE ~INTERNAL_RAM_ADDRESS(r.address)
  <2>1. image \notin {<<>>, Loader}
    BY <1>4, NoRecords, DownloadAssumption DEF DownloadAssumption
  <2> QED
    BY <1>1, <1>2, <1>4, <2>1 DEF Loaded, LoadedTo, ForRAM
<1> QED
  BY <1>3, <1>4

(* A record that is loaded takes nothing away from what is loaded of the image. *)
LEMMA LoadRecord ==
  ASSUME NEW ram \in [Addresses -> Contents], NEW image \in AllImages,
         NEW i \in 1..Len(DataRecords(image)), NEW mem,
         ForRAM(DataRecords(image)[i], mem)
  PROVE  LET r == DataRecords(image)[i]
             loaded == [ram EXCEPT ![r.address] = r.data]
         IN  /\ loaded \in [Addresses -> Contents]
             /\ \A m, n : LoadedTo(ram, image, m, n) => LoadedTo(loaded, image, m, n)
             /\ LoadedTo(ram, image, mem, i - 1) => LoadedTo(loaded, image, mem, i)
<1> DEFINE records == DataRecords(image)
           r == records[i]
           loaded == [ram EXCEPT ![r.address] = r.data]
<1>1. r \in Record /\ r \in Written(image)
  BY ImageRecords
<1>2. \A j \in 1..Len(records) : records[j] \in Record /\ records[j] \in Written(image)
  BY ImageRecords
<1>3. \A j \in 1..Len(records) :
        records[j].address = r.address => records[j].data = r.data
  <2>1. \A x, y \in Written(image) : x.address = y.address => x.data = y.data
    BY ImagesAssumption DEF ImagesAssumption
  <2> HIDE DEF records, r
  <2> QED
    BY <1>1, <1>2, <2>1
<1>4. i \in Nat /\ Len(records) \in Nat
  BY ImageRecords
<1>5. loaded \in [Addresses -> Contents]
  BY <1>1 DEF Record
<1>6. \A j \in 1..Len(records) :
        /\ loaded[records[j].address] = records[j].data
              \/ loaded[records[j].address] = ram[records[j].address]
        /\ j = i => loaded[records[j].address] = records[j].data
  BY <1>1, <1>2, <1>3 DEF Record
<1> HIDE DEF loaded, records
<1>7. ASSUME NEW m, NEW n, LoadedTo(ram, image, m, n)
      PROVE  LoadedTo(loaded, image, m, n)
  BY <1>6, <1>7 DEF LoadedTo, records
<1>8. ASSUME LoadedTo(ram, image, mem, i - 1)
      PROVE  LoadedTo(loaded, image, mem, i)
  <2>1. ASSUME NEW j \in 1..Len(records), j <= i, ForRAM(records[j], mem)
        PROVE  loaded[records[j].address] = records[j].data
    <3>1. CASE j = i
      BY <1>6, <3>1
    <3>2. CASE j # i
      <4>1. j <= i - 1
        BY <1>4, <2>1, <3>2
      <4> QED
        BY <1>6, <1>8, <2>1, <4>1 DEF LoadedTo, records
    <3> QED
      BY <3>1, <3>2
  <2> QED
    BY <2>1 DEF LoadedTo, records
<1> QED
  BY <1>5, <1>7, <1>8 DEF loaded, records

-----------------------------------------------------------------------------
(* The calls and the chip. *)

LEMMA CallIs ==
  /\ call \in {2, 4, 6, 8} => Call.does = "load" /\ Call.checked
  /\ call \in {1, 3, 5, 7, 9, 10} =>
       /\ Call.does = "reset" /\ Call.bit = IF call \in {5, 10} THEN 0 ELSE 1
       /\ Call.checked <=> call \notin {3, 7}
  /\ call \in {2, 4} => Call.image = "loader"
  /\ call \in {6, 8} => Call.image = "application"
  /\ call \in {2, 6} => Call.ram = "external"
  /\ call \in {4, 8} => Call.ram = "internal"
BY CallsOfStartDevice
   DEF Call, Reset8051, Reset8051Unchecked, DownloadFirmwareToRAM

LEMMA ResetChip ==
  ASSUME NEW c \in Chips
  PROVE  /\ Reset(c, 0) \in Chips /\ Reset(c, 1) \in Chips
         /\ Reset(c, 0).bus = c.bus /\ Reset(c, 0).ram = c.ram
         /\ Reset(c, 0).cpu = "running"
         /\ Reset(c, 0).program = IF c.cpu = "held" THEN Program(c.ram) ELSE c.program
         /\ Reset(c, 1).bus = c.bus /\ Reset(c, 1).ram = c.ram
         /\ Reset(c, 1).cpu = "held" /\ Reset(c, 1).program = "none"
<1> DEFINE Set(cpu, program) == [c EXCEPT !.cpu = cpu, !.program = program]
<1>1. ASSUME NEW cpu \in {"running", "held"},
             NEW program \in {"none", "core", "unknown"} \cup Programs
      PROVE  /\ Set(cpu, program) \in Chips
             /\ Set(cpu, program).bus = c.bus /\ Set(cpu, program).ram = c.ram
             /\ Set(cpu, program).cpu = cpu /\ Set(cpu, program).program = program
  <2> DEFINE stopped == [c EXCEPT !.cpu = cpu]
             next == [stopped EXCEPT !.program = program]
  <2>1. /\ stopped \in Chips /\ stopped.bus = c.bus /\ stopped.ram = c.ram
        /\ stopped.cpu = cpu
    BY DEF Chips
  <2> HIDE DEF stopped
  <2>2. /\ next \in Chips /\ next.bus = stopped.bus /\ next.ram = stopped.ram
        /\ next.cpu = stopped.cpu /\ next.program = program
    BY <2>1 DEF Chips
  <2> QED
    BY <2>1, <2>2 DEF stopped
<1>2. Program(c.ram) \in {"none", "core", "unknown"} \cup Programs
  BY ProgramType
<1>3. c.program \in {"none", "core", "unknown"} \cup Programs
  BY DEF Chips
<1> DEFINE program == IF c.cpu = "held" THEN Program(c.ram) ELSE c.program
<1>4. program \in {"none", "core", "unknown"} \cup Programs
  BY <1>2, <1>3
<1>5. Reset(c, 1) = Set("held", "none") /\ Reset(c, 0) = Set("running", program)
  BY <1>3 DEF Reset, Chips
<1> HIDE DEF program, Set
<1>6. /\ Set("held", "none") \in Chips
      /\ Set("held", "none").bus = c.bus /\ Set("held", "none").ram = c.ram
      /\ Set("held", "none").cpu = "held" /\ Set("held", "none").program = "none"
  BY <1>1
<1>7. /\ Set("running", program) \in Chips
      /\ Set("running", program).bus = c.bus /\ Set("running", program).ram = c.ram
      /\ Set("running", program).cpu = "running"
      /\ Set("running", program).program = program
  BY <1>1, <1>4
<1> QED
  BY <1>5, <1>6, <1>7 DEF program

LEMMA LoadChip ==
  ASSUME NEW c \in Chips, NEW r \in Record, NEW mem
  PROVE  /\ Load(c, r, mem) \in Chips
         /\ Load(c, r, mem).bus = c.bus /\ Load(c, r, mem).cpu = c.cpu
         /\ Load(c, r, mem).ram = [c.ram EXCEPT ![r.address] = r.data]
         /\ Load(c, r, mem).program =
              IF mem = "external" \/ c.cpu = "held" THEN c.program ELSE "unknown"
<1>1. [c.ram EXCEPT ![r.address] = r.data] \in [Addresses -> Contents]
  BY DEF Chips, Record
<1> QED
  BY <1>1 DEF Load, Chips

(* A chip that was just reset is ready for the next call. *)
LEMMA AfterReset ==
  ASSUME NEW c \in Chips, NEW k \in {1, 3, 5, 7, 9}, NEW boot, NEW image, NEW failures,
         CallInv(c, k, 1, boot, image, failures)
  PROVE  CallInv(Reset(c, IF k = 5 THEN 0 ELSE 1), k + 1, 1, boot, image, failures)
<1> DEFINE c2 == Reset(c, IF k = 5 THEN 0 ELSE 1)
<1>1. c2.ram = c.ram /\ (k # 5 => c2.cpu = "held" /\ c2.program = "none")
  BY ResetChip
<1>2. LoadedTo(c.ram, boot, "internal", 0) /\ LoadedTo(c.ram, image, "external", 0)
      /\ LoadedTo(c.ram, image, "internal", 0)
  BY DEF LoadedTo
<1> HIDE DEF c2
<1>3. CallInv(c2, k + 1, 1, boot, image, failures)
  BY <1>1, <1>2 DEF CallInv
<1> QED
  BY <1>3 DEF c2

(* One that was not, for the calls whose result is dropped, is ready as well
   unless somebody looks at its 8051. *)
LEMMA AfterFailedReset ==
  ASSUME NEW c, NEW k \in {3, 7}, NEW boot, NEW image, NEW failures \in Nat,
         CallInv(c, k, 1, boot, image, failures)
  PROVE  CallInv(c, k + 1, 1, boot, image, failures + 1)
<1>1. LoadedTo(c.ram, boot, "internal", 0) /\ LoadedTo(c.ram, image, "internal", 0)
  BY DEF LoadedTo
<1> QED
  BY <1>1 DEF CallInv

(* The image and the kind of RAM that the k-th call is about. *)
Img(k, boot, image) == IF k \in {2, 4} THEN boot ELSE image
Mem(k) == IF k \in {2, 6} THEN "external" ELSE "internal"

LEMMA NothingLoaded ==
  ASSUME NEW ram, NEW image, NEW mem
  PROVE  LoadedTo(ram, image, mem, 0) /\ LoadedTo(ram, image, mem, 1 - 1)
BY DEF LoadedTo

LEMMA ImgType ==
  ASSUME NEW k, NEW boot \in {<<>>, Loader}, NEW image \in {<<>>} \cup AllImages
  PROVE  /\ Img(k, boot, image) \in {<<>>} \cup AllImages
         /\ Len(DataRecords(Img(k, boot, image))) \in Nat
         /\ Img(k, boot, image) = <<>> => Len(DataRecords(Img(k, boot, image))) = 0
<1>1. Img(k, boot, image) \in {<<>>} \cup AllImages
  BY DEF Img, AllImages
<1> QED
  BY <1>1, ImageRecords, NoRecords

(* A record that was loaded is one the loop is done with. *)
LEMMA AfterLoaded ==
  ASSUME NEW c \in Chips, NEW k \in {2, 4, 6, 8}, NEW n \in Nat \ {0},
         NEW boot \in {<<>>, Loader}, NEW image \in {<<>>} \cup AllImages,
         NEW failures, CallInv(c, k, n, boot, image, failures),
         n <= Len(DataRecords(Img(k, boot, image))),
         ForRAM(DataRecords(Img(k, boot, image))[n], Mem(k))
  PROVE  LET c2 == Load(c, DataRecords(Img(k, boot, image))[n], Mem(k))
         IN  /\ CallInv(c2, k, n + 1, boot, image, failures)
             /\ n >= Len(DataRecords(Img(k, boot, image))) =>
                  CallInv(c2, k + 1, 1, boot, image, failures)
<1> DEFINE img == Img(k, boot, image)
           mem == Mem(k)
           r == DataRecords(img)[n]
           c2 == Load(c, r, mem)
           loaded == [c.ram EXCEPT ![r.address] = r.data]
<1>1. /\ img \in {<<>>} \cup AllImages /\ Len(DataRecords(img)) \in Nat
      /\ img = <<>> => Len(DataRecords(img)) = 0
  BY ImgType
<1> HIDE DEF img, mem
<1>2. n <= Len(DataRecords(img)) /\ ForRAM(r, mem)
  BY DEF img, mem
<1>3. img \in AllImages /\ n \in 1..Len(DataRecords(img))
  BY <1>1, <1>2
<1>4. r \in Record /\ r \in Written(img)
  BY <1>1, <1>3, ImageRecords
<1> HIDE DEF r
<1>5. c2.ram = loaded /\ c2.cpu = c.cpu /\ (c.cpu = "held" => c2.program = c.program)
  BY <1>4, LoadChip
<1>6. c.ram \in [Addresses -> Contents]
  BY DEF Chips
<1>7. /\ \A m, j : LoadedTo(c.ram, img, m, j) => LoadedTo(loaded, img, m, j)
      /\ LoadedTo(c.ram, img, mem, n - 1) => LoadedTo(loaded, img, mem, n)
  BY <1>2, <1>3, <1>6, LoadRecord DEF r
<1>8. FromImage(c.ram, img) => FromImage(loaded, img)
  BY <1>4, <1>6 DEF FromImage, Record
<1> HIDE DEF loaded, c2
<1>9. /\ \A m, j : LoadedTo(c.ram, img, m, j) => LoadedTo(c2.ram, img, m, j)
      /\ LoadedTo(c.ram, img, mem, n - 1) => LoadedTo(c2.ram, img, mem, n)
      /\ FromImage(c.ram, img) => FromImage(c2.ram, img)
      /\ img # <<>>
  BY <1>1, <1>3, <1>5, <1>7, <1>8
<1>10. n >= Len(DataRecords(img)) => n = Len(DataRecords(img))
  BY <1>1, <1>3
<1>11. (n + 1) - 1 = n
  OBVIOUS
<1>12. /\ CallInv(c2, k, n + 1, boot, image, failures)
       /\ n >= Len(DataRecords(img)) => CallInv(c2, k + 1, 1, boot, image, failures)
  <2>1. CASE k = 2
    BY <1>5, <1>9, <1>10, <1>11, <2>1, NothingLoaded DEF CallInv, Loaded, img, mem, Img, Mem
  <2>2. CASE k = 4
    BY <1>5, <1>9, <1>10, <1>11, <2>2, NothingLoaded DEF CallInv, Loaded, img, mem, Img, Mem
  <2>3. CASE k = 6
    BY <1>5, <1>9, <1>10, <1>11, <2>3, NothingLoaded DEF CallInv, Loaded, img, mem, Img, Mem
  <2>4. CASE k = 8
    BY <1>5, <1>9, <1>10, <1>11, <2>4, NothingLoaded DEF CallInv, Loaded, img, mem, Img, Mem
  <2> QED
    BY <2>1, <2>2, <2>3, <2>4
<1> QED
  BY <1>12 DEF c2, r, img, mem

(* So is one that the loop passes over, being one for the other kind of RAM. *)
LEMMA AfterPassed ==
  ASSUME NEW c, NEW k \in {2, 4, 6, 8}, NEW n \in Nat \ {0},
         NEW boot \in {<<>>, Loader}, NEW image \in {<<>>} \cup AllImages,
         NEW failures, CallInv(c, k, n, boot, image, failures),
         ~(/\ n <= Len(DataRecords(Img(k, boot, image)))
           /\ ForRAM(DataRecords(Img(k, boot, image))[n], Mem(k)))
  PROVE  /\ CallInv(c, k, n + 1, boot, image, failures)
         /\ n >= Len(DataRecords(Img(k, boot, image))) =>
              CallInv(c, k + 1, 1, boot, image, failures)
<1> DEFINE img == Img(k, boot, image)
           mem == Mem(k)
           records == DataRecords(img)
<1>1. Len(records) \in Nat
  BY ImgType
<1>2. LoadedTo(c.ram, img, mem, n - 1) => LoadedTo(c.ram, img, mem, n)
  <2>1. \A i \in 1..Len(records) : i <= n => i <= n - 1 \/ i = n
    BY <1>1
  <2>2. ASSUME NEW i \in 1..Len(records), i <= n, ForRAM(records[i], mem)
        PROVE  i <= n - 1
    BY <1>1, <2>1, <2>2
  <2> QED
    BY <2>2 DEF LoadedTo
<1>3. n >= Len(records) /\ LoadedTo(c.ram, img, mem, n) => Loaded(c.ram, img, mem)
  BY <1>1 DEF LoadedTo, Loaded
<1>4. (n + 1) - 1 = n
  OBVIOUS
<1> HIDE DEF img, mem
<1>5. CASE k = 2
  BY <1>2, <1>3, <1>4, <1>5, NothingLoaded DEF CallInv, img, mem, Img, Mem
<1>6. CASE k = 4
  BY <1>2, <1>3, <1>4, <1>6, NothingLoaded DEF CallInv, img, mem, Img, Mem
<1>7. CASE k = 6
  BY <1>2, <1>3, <1>4, <1>7, NothingLoaded DEF CallInv, img, mem, Img, Mem
<1>8. CASE k = 8
  BY <1>2, <1>3, <1>4, <1>8, NothingLoaded DEF CallInv, img, mem, Img, Mem
<1> QED
  BY <1>5, <1>6, <1>7, <1>8

-----------------------------------------------------------------------------
(* The files. *)

LEMMA HexFileResult ==
  ASSUME NEW file
  PROVE  ReadFirmwareFromHexFile(file).result \in {"true", "false", "throws"}
BY DEF ReadFirmwareFromHexFile

LEMMA ConfigResult ==
  ASSUME NEW file, NEW garbage
  PROVE  ReadConfigFile(file, garbage).result \in {"true", "false", "crashes"}
<1> DEFINE Results == {"true", "false", "crashes"}
<1>1. ASSUME NEW dict, NEW key
      PROVE  LooksAt(dict, key) \in Results
  BY DEF LooksAt
<1>2. ASSUME NEW dict
      PROVE  DeviceResult(dict) \in Results
  <2> DEFINE stop == SelectInSeq(Keys, LAMBDA key : LooksAt(dict, key) # "true")
  <2>1. DeviceResult(dict) = IF stop = 0 THEN "true" ELSE LooksAt(dict, Keys[stop])
    BY DEF DeviceResult
  <2> HIDE DEF stop
  <2> QED
    BY <1>1, <2>1
<1>3. ASSUME NEW devices
      PROVE  ReadDevices(devices, garbage).result \in Results
  <2> DEFINE stops == {i \in DOMAIN devices : /\ devices[i].type = "dictionary"
                                              /\ DeviceResult(devices[i].value) # "true"}
  <2>1. ReadDevices(devices, garbage).result =
          IF stops = {} THEN "true" ELSE DeviceResult(devices[Min(stops)].value)
    BY DEF ReadDevices
  <2> HIDE DEF stops
  <2> QED
    BY <1>2, <2>1
<1>4. GivenUp("false").result \in Results /\ GivenUp("crashes").result \in Results
  BY DEF GivenUp
<1> DEFINE read == ReadDevices(file.value["Devices"].value, garbage)
<1>5. ReadConfigFile(file, garbage) \in {GivenUp("false"), GivenUp("crashes"), read}
  BY DEF ReadConfigFile
<1>6. read.result \in Results
  BY <1>3
<1> HIDE DEF read
<1> QED
  BY <1>4, <1>5, <1>6

-----------------------------------------------------------------------------
(* The steps. *)

LEMMA SameLoop ==
  ASSUME UNCHANGED <<loader, firmware, call>>
  PROVE  Call' = Call /\ Records' = Records
BY DEF Call, Records

LEMMA InitIInv == Init => IInv
<1> SUFFICES ASSUME Init PROVE IInv
  OBVIOUS
<1>1. Unplugged \in Chips
  BY DEF Unplugged, Chips, Contents
<1>2. EmptyList = [id \in {} |-> <<>>] /\ DOMAIN EmptyList = {}
  BY DEF EmptyList
<1>3. NoOutcome \in [started : {"none", "true", "false"},
                     returned : {"none", "true", "false"},
                     image : {<<>>} \cup Range(Application)]
      /\ NoOutcome.started = "none"
  BY DEF NoOutcome
<1>4. Len(StartDevice) = 10
  BY CallsOfStartDevice
<1>5. TypeOK
  <2>1. /\ outcome \in [Devices -> [started  : {"none", "true", "false"},
                                   returned : {"none", "true", "false"},
                                   image    : {<<>>} \cup Range(Application)]]
        /\ chip \in [Devices -> Chips]
    BY <1>1, <1>3 DEF Init
  <2>2. /\ call \in 0..Len(StartDevice) /\ record \in 1..1 /\ call = 0
        /\ faults \in 0..MaxFaults /\ plugs \in 0..MaxPlugs
    BY <1>4, DownloadAssumption DEF Init, DownloadAssumption
  <2>3. /\ daemon = "starting" /\ loader = <<>> /\ arrivals = {}
        /\ current = NoDevice /\ attached = FALSE /\ firmware = <<>>
    BY DEF Init
  <2> QED
    BY <2>1, <2>2, <2>3 DEF TypeOK
<1>6. KnownInv
  BY <1>2, DownloadAssumption DEF Init, KnownInv, DownloadAssumption
<1>7. LoadingInv
  BY DEF Init, LoadingInv
<1>8. Unplugged.bus = "absent" /\ Unplugged.program = "none" /\ Unplugged.cpu = "running"
  BY DEF Unplugged
<1>9. ASSUME NEW d \in Devices
      PROVE  DeviceInv(d)
  BY <1>3, <1>8, ImagesAssumption DEF Init, DeviceInv, ImagesAssumption
<1>10. BootedRunsApplication
  BY <1>3 DEF Init, BootedRunsApplication
<1> QED
  BY <1>5, <1>6, <1>7, <1>9, <1>10 DEF IInv

LEMMA MainIInv ==
  ASSUME IInv, Main
  PROVE  IInv'
<1>1. PICK garbage \in Garbage, file \in LoaderFiles :
        LET known  == ReadConfigFile(configFile, garbage)
            read   == ReadFirmwareFromHexFile(file)
            result == IF known.result = "true" THEN read.result ELSE known.result
        IN  /\ daemon' = CASE result = "true"                 -> "serving"
                           [] result = "false"                -> "exited"
                           [] result \in {"throws", "crashes"} -> "terminated"
            /\ deviceList' = known.deviceList
            /\ loader' = IF result = "true" THEN read.firmware ELSE <<>>
  <2>1. \A garbage \in Garbage :
          HardwareConfig[configFile][garbage] = ReadConfigFile(configFile, garbage)
    <3>1. configFile \in Configs
      BY DEF IInv, KnownInv
    <3> QED
      BY <3>1 DEF HardwareConfig
  <2> QED
    BY <2>1 DEF Main
<1> DEFINE known  == ReadConfigFile(configFile, garbage)
           read   == ReadFirmwareFromHexFile(file)
<1>2. /\ known.result \in {"true", "false", "crashes"}
      /\ read.result \in {"true", "false", "throws"}
  BY ConfigResult, HexFileResult
<1>3. /\ \A d \in Devices : WarmId[d] \notin DOMAIN known.deviceList
      /\ \A id \in DOMAIN known.deviceList :
           known.deviceList[id].firmwareFileName \in {""} \cup DOMAIN Application
  BY ConfigsAssumption DEF ConfigsAssumption, IInv, KnownInv
<1>4. read.result = "true" => read.firmware \in {<<>>, Loader}
  BY ImagesAssumption DEF ImagesAssumption
<1>5. deviceList' = known.deviceList /\ daemon' \in {"serving", "exited", "terminated"}
  BY <1>1, <1>2
<1>6. loader' \in {<<>>, Loader}
  BY <1>1, <1>2, <1>4
<1> HIDE DEF known, read
<1>7. /\ daemon = "starting" /\ current = NoDevice /\ call = 0
      /\ ~attached /\ \A d \in Devices : outcome[d].started = "none"
  <2>1. NoDevice \notin Devices /\ NoOutcome.started = "none"
    BY DownloadAssumption DEF DownloadAssumption, NoOutcome
  <2> QED
    BY <2>1 DEF IInv, TypeOK, KnownInv, LoadingInv, Main
<1>8. UNCHANGED <<configFile, arrivals, current, attached, firmware, call, record,
                  outcome, chip, faults, plugs>>
  BY DEF Main, progress
<1>9. TypeOK'
  BY <1>5, <1>6, <1>7, <1>8 DEF IInv, TypeOK
<1>10. KnownInv'
  BY <1>3, <1>5, <1>7, <1>8 DEF IInv, KnownInv
<1>11. LoadingInv' /\ BootedRunsApplication'
  BY <1>7, <1>8 DEF LoadingInv, BootedRunsApplication
<1>12. \A d \in Devices : DeviceInv(d)'
  BY <1>8 DEF IInv, DeviceInv
<1> QED
  BY <1>9, <1>10, <1>11, <1>12 DEF IInv

(* Between two callbacks StartDevice has nothing to do with any device. *)
LEMMA Idle ==
  ASSUME IInv, current = NoDevice
  PROVE  ~attached /\ call = 0
BY DownloadAssumption DEF DownloadAssumption, IInv, TypeOK, LoadingInv

LEMMA PassOverIInv ==
  ASSUME IInv, NEW d \in Devices, PassOver(d), UNCHANGED config
  PROVE  IInv'
<1>1. /\ UNCHANGED <<configFile, deviceList, daemon, loader, current, attached,
                     firmware, call, record, outcome, chip, plugs>>
      /\ arrivals' = arrivals \ {d} /\ faults' \in 0..MaxFaults
      /\ current = NoDevice
  BY DownloadAssumption
     DEF PassOver, config, progress, IInv, TypeOK, DownloadAssumption
<1>2. ~attached
  BY <1>1, Idle
<1>3. TypeOK'
  BY <1>1, SameLoop DEF IInv, TypeOK
<1>4. KnownInv' /\ BootedRunsApplication'
  BY <1>1 DEF IInv, KnownInv, BootedRunsApplication
<1>5. LoadingInv'
  BY <1>1, <1>2 DEF LoadingInv
<1>6. \A e \in Devices : DeviceInv(e)'
  BY <1>1 DEF IInv, DeviceInv
<1> QED
  BY <1>3, <1>4, <1>5, <1>6 DEF IInv

Outcomes == [started  : {"none", "true", "false"},
             returned : {"none", "true", "false"},
             image    : {<<>>} \cup Range(Application)]

(* A device that is taken out of the iterator is not one that is absent. *)
LEMMA FoundWithoutIInv ==
  ASSUME IInv, NEW d \in Devices, FoundWithoutFirmware(d), UNCHANGED config
  PROVE  IInv'
<1>1. /\ UNCHANGED <<configFile, deviceList, daemon, loader, current, attached,
                     firmware, call, record, chip, faults, plugs>>
      /\ arrivals' = arrivals \ {d} /\ current = NoDevice /\ daemon = "serving"
      /\ outcome' = [outcome EXCEPT ![d].returned = "true"]
      /\ chip[d].bus # "absent"
  BY DEF FoundWithoutFirmware, MatchDevice, config, progress
<1>2. ~attached
  BY <1>1, Idle
<1>3. /\ outcome' \in [Devices -> Outcomes]
      /\ \A e \in Devices : /\ outcome'[e].started = outcome[e].started
                            /\ outcome'[e].image = outcome[e].image
                            /\ e # d => outcome'[e] = outcome[e]
  <2>1. outcome \in [Devices -> Outcomes]
    BY DEF IInv, TypeOK, Outcomes
  <2> QED
    BY <1>1, <2>1 DEF Outcomes
<1>4. TypeOK'
  BY <1>1, <1>3, SameLoop DEF IInv, TypeOK, Outcomes
<1>5. KnownInv'
  BY <1>1 DEF IInv, KnownInv
<1>6. LoadingInv'
  BY <1>1, <1>2 DEF LoadingInv
<1>7. BootedRunsApplication'
  BY <1>1, <1>3 DEF IInv, BootedRunsApplication
<1>8. \A e \in Devices : DeviceInv(e)'
  BY <1>1, <1>3 DEF IInv, DeviceInv
<1> QED
  BY <1>4, <1>5, <1>6, <1>7, <1>8 DEF IInv

(* Only a cold device matches, by the entry of its cold boot id. *)
LEMMA MatchIsCold ==
  ASSUME IInv, NEW d \in Devices, MatchDevice(d)
  PROVE  /\ chip[d].bus = "cold" /\ ColdId[d] \in DOMAIN deviceList
         /\ FirmwareFileName(d) = deviceList[ColdId[d]].firmwareFileName
         /\ FirmwareFileName(d) \in {""} \cup DOMAIN Application
<1>1. chip[d].bus \in {"absent", "cold", "warm"}
  BY DEF IInv, TypeOK, Chips
<1>2. WarmId[d] \notin DOMAIN deviceList
  BY DEF IInv, KnownInv
<1>3. chip[d].bus = "cold" /\ ProductOf(d) = ColdId[d]
  BY <1>1, <1>2 DEF MatchDevice, ProductOf
<1> QED
  BY <1>3 DEF MatchDevice, FirmwareFileName, IInv, KnownInv

(* FoundInterface enters StartDevice, gives up, or ends the daemon. *)
LEMMA FoundInterfaceCases ==
  ASSUME IInv, NEW d \in Devices, FoundInterface(d), UNCHANGED config
  PROVE  LET name == deviceList[ColdId[d]].firmwareFileName
         IN  /\ UNCHANGED <<configFile, deviceList, loader, chip, faults, plugs>>
             /\ arrivals' = arrivals \ {d} /\ d \in arrivals
             /\ current = NoDevice /\ daemon = "serving" /\ chip[d].bus = "cold"
             /\ ColdId[d] \in DOMAIN deviceList /\ name \in DOMAIN Application
             /\ \/ /\ firmware' \in {<<>>, Application[name]}
                   /\ current' = d /\ attached' = TRUE /\ call' = 1 /\ record' = 1
                   /\ outcome' = [outcome EXCEPT ![d].image = firmware']
                   /\ UNCHANGED daemon
                \/ /\ outcome' = [outcome EXCEPT ![d].returned = "false"]
                   /\ UNCHANGED <<daemon, current, attached, firmware, call, record>>
                \/ /\ daemon' = "terminated"
                   /\ UNCHANGED <<outcome, current, attached, firmware, call, record>>
<1> DEFINE name == deviceList[ColdId[d]].firmwareFileName
<1>1. /\ chip[d].bus = "cold" /\ ColdId[d] \in DOMAIN deviceList
      /\ FirmwareFileName(d) = name /\ name \in DOMAIN Application
  BY MatchIsCold DEF FoundInterface
<1>2. \A file \in FirmwareFiles[name] :
        ReadFirmwareFromHexFile(file).result = "true" =>
          ReadFirmwareFromHexFile(file).firmware \in {<<>>, Application[name]}
  BY <1>1, ImagesAssumption DEF ImagesAssumption
<1> HIDE DEF name
<1>3. PICK file \in FirmwareFiles[name] :
        LET read == ReadFirmwareFromHexFile(file) IN
        \/ /\ read.result = "true"
           /\ current' = d /\ attached' = TRUE
           /\ firmware' = read.firmware /\ call' = 1 /\ record' = 1
           /\ outcome' = [outcome EXCEPT ![d].image = read.firmware]
           /\ UNCHANGED daemon
        \/ /\ read.result = "false"
           /\ outcome' = [outcome EXCEPT ![d].returned = "false"]
           /\ UNCHANGED <<daemon, progress>>
        \/ /\ read.result = "throws"
           /\ daemon' = "terminated"
           /\ UNCHANGED <<outcome, progress>>
  BY <1>1 DEF FoundInterface
<1>4. /\ UNCHANGED <<configFile, deviceList, loader, chip, faults, plugs>>
      /\ arrivals' = arrivals \ {d} /\ d \in arrivals
      /\ current = NoDevice /\ daemon = "serving"
  BY DEF FoundInterface, config
<1> QED
  BY <1>1, <1>2, <1>3, <1>4 DEF progress, name

LEMMA FoundInterfaceIInv ==
  ASSUME IInv, NEW d \in Devices, FoundInterface(d), UNCHANGED config
  PROVE  IInv'
<1> DEFINE name == deviceList[ColdId[d]].firmwareFileName
           entered == /\ firmware' \in {<<>>, Application[name]}
                      /\ current' = d /\ attached' = TRUE /\ call' = 1 /\ record' = 1
                      /\ outcome' = [outcome EXCEPT ![d].image = firmware']
                      /\ UNCHANGED daemon
<1>1. /\ UNCHANGED <<configFile, deviceList, loader, chip, faults, plugs>>
      /\ arrivals' = arrivals \ {d} /\ d \in arrivals
      /\ current = NoDevice /\ daemon = "serving" /\ chip[d].bus = "cold"
      /\ ColdId[d] \in DOMAIN deviceList /\ name \in DOMAIN Application
      /\ \/ entered
         \/ /\ outcome' = [outcome EXCEPT ![d].returned = "false"]
            /\ UNCHANGED <<daemon, current, attached, firmware, call, record>>
         \/ /\ daemon' = "terminated"
            /\ UNCHANGED <<outcome, current, attached, firmware, call, record>>
  BY FoundInterfaceCases
<1> HIDE DEF name
<1>2. ~attached
  BY <1>1, Idle
<1>3. CASE entered
  <2>1. firmware' \in {<<>>} \cup Range(Application)
    BY <1>1, <1>3 DEF Range
  <2>2. /\ outcome' \in [Devices -> Outcomes]
        /\ \A e \in Devices : /\ outcome'[e].started = outcome[e].started
                              /\ e # d => outcome'[e] = outcome[e]
        /\ outcome'[d].image = firmware'
    <3>1. outcome \in [Devices -> Outcomes]
      BY DEF IInv, TypeOK, Outcomes
    <3> QED
      BY <1>3, <2>1, <3>1 DEF Outcomes
  <2>3. /\ chip[d].program = "core" /\ chip[d].ram = [a \in Addresses |-> Blank]
        /\ outcome[d].started = "none"
    BY <1>1 DEF IInv, DeviceInv
  <2>4. Call'.does = "reset" /\ Len(StartDevice) = 10
    BY <1>3, CallsOfStartDevice DEF Call, Reset8051
  <2>5. NoDevice \notin Devices
    BY DownloadAssumption DEF DownloadAssumption
  <2>6. TypeOK'
    BY <1>1, <1>3, <2>1, <2>2, <2>4, <2>5 DEF IInv, TypeOK, Outcomes
  <2>7. KnownInv'
    BY <1>1, <1>3 DEF IInv, KnownInv
  <2>8. LoadingInv'
    <3>1. CallInv(chip[d], 1, 1, loader, firmware', faults)
      BY <2>3 DEF CallInv, FromImage
    <3>2. /\ d \in Devices /\ d \notin arrivals' /\ chip'[d] = chip[d]
          /\ chip[d].program \in {"none", "core", "loader", "unknown"}
          /\ deviceList' = deviceList /\ loader' = loader /\ faults' = faults
      BY <1>1, <2>3
    <3> QED
      BY <1>1, <1>3, <2>2, <2>3, <3>1, <3>2 DEF LoadingInv, name
  <2>9. BootedRunsApplication'
    BY <1>1, <2>2, <2>3 DEF IInv, BootedRunsApplication
  <2>10. \A e \in Devices : DeviceInv(e)'
    BY <1>1, <2>2 DEF IInv, DeviceInv
  <2> QED
    BY <2>6, <2>7, <2>8, <2>9, <2>10 DEF IInv
<1>4. CASE /\ \/ outcome' = [outcome EXCEPT ![d].returned = "false"]
              \/ outcome' = outcome
           /\ daemon' \in {daemon, "terminated"}
           /\ UNCHANGED <<current, attached, firmware, call, record>>
  <2>1. /\ outcome' \in [Devices -> Outcomes]
        /\ \A e \in Devices : /\ outcome'[e].started = outcome[e].started
                              /\ outcome'[e].image = outcome[e].image
                              /\ e # d => outcome'[e] = outcome[e]
    <3>1. outcome \in [Devices -> Outcomes]
      BY DEF IInv, TypeOK, Outcomes
    <3>2. CASE outcome' = [outcome EXCEPT ![d].returned = "false"]
      BY <3>1, <3>2 DEF Outcomes
    <3> QED
      BY <1>4, <3>1, <3>2
  <2>2. TypeOK'
    BY <1>1, <1>4, <2>1, SameLoop DEF IInv, TypeOK, Outcomes
  <2>3. KnownInv'
    BY <1>1, <1>4 DEF IInv, KnownInv
  <2>4. LoadingInv'
    BY <1>2, <1>4 DEF LoadingInv
  <2>5. BootedRunsApplication'
    BY <1>1, <2>1 DEF IInv, BootedRunsApplication
  <2>6. \A e \in Devices : DeviceInv(e)'
    BY <1>1, <2>1 DEF IInv, DeviceInv
  <2> QED
    BY <2>2, <2>3, <2>4, <2>5, <2>6 DEF IInv
<1> HIDE DEF entered
<1> QED
  BY <1>1, <1>3, <1>4

LEMMA PlugIInv ==
  ASSUME IInv, NEW d \in Devices, Plug(d), UNCHANGED config
  PROVE  IInv'
<1> DEFINE new == [bus |-> "cold", cpu |-> "running", program |-> "core",
                   ram |-> [a \in Addresses |-> Blank]]
<1>1. /\ UNCHANGED <<configFile, deviceList, daemon, loader, current, attached,
                     firmware, call, record, faults>>
      /\ arrivals' = arrivals \cup {d} /\ plugs' \in 0..MaxPlugs
      /\ outcome' = [outcome EXCEPT ![d] = NoOutcome]
      /\ chip[d].bus = "absent" /\ chip' = [chip EXCEPT ![d] = new]
  <2>1. [Unplugged EXCEPT !.bus = "cold", !.program = "core"] = new
    <3> DEFINE cold == [Unplugged EXCEPT !.bus = "cold"]
    <3>1. cold = [bus |-> "cold", cpu |-> "running", program |-> "none",
                  ram |-> [a \in Addresses |-> Blank]]
      BY DEF Unplugged
    <3> HIDE DEF cold
    <3>2. [cold EXCEPT !.program = "core"] = new
      BY <3>1
    <3> QED
      BY <3>2 DEF cold
  <2>2. plugs' \in 0..MaxPlugs
    BY DownloadAssumption DEF Plug, IInv, TypeOK, DownloadAssumption
  <2> QED
    BY <2>1, <2>2 DEF Plug, config, progress
<1>2. /\ new \in Chips /\ new.bus = "cold" /\ new.cpu = "running"
      /\ new.program = "core" /\ new.ram = [a \in Addresses |-> Blank]
  BY DEF Chips, Contents
<1> HIDE DEF new
<1>3. NoOutcome \in Outcomes /\ NoOutcome.started = "none"
  BY DEF NoOutcome, Outcomes
<1>4. attached => d # current
  BY <1>1 DEF IInv, LoadingInv
<1>5. TypeOK'
  <2>1. outcome' \in [Devices -> Outcomes] /\ chip' \in [Devices -> Chips]
    BY <1>1, <1>2, <1>3 DEF IInv, TypeOK, Outcomes
  <2> QED
    BY <1>1, <2>1, SameLoop DEF IInv, TypeOK, Outcomes
<1>6. /\ outcome'[d] = NoOutcome /\ chip'[d] = new
      /\ \A e \in Devices : e # d => outcome'[e] = outcome[e] /\ chip'[e] = chip[e]
  BY <1>1 DEF IInv, TypeOK
<1>7. KnownInv'
  BY <1>1, <1>6 DEF IInv, KnownInv
<1>8. LoadingInv'
  <2>1. attached => current \in Devices /\ chip'[current] = chip[current]
                    /\ outcome'[current] = outcome[current]
    BY <1>4, <1>6 DEF IInv, LoadingInv
  <2> QED
    BY <1>1, <1>4, <2>1 DEF IInv, LoadingInv
<1>9. BootedRunsApplication'
  BY <1>1, <1>3, <1>6 DEF IInv, BootedRunsApplication
<1>10. ASSUME NEW e \in Devices
       PROVE  DeviceInv(e)'
  <2>1. "core" \notin DOMAIN Application
    BY ImagesAssumption DEF ImagesAssumption
  <2>2. CASE e = d
    BY <1>2, <1>3, <1>6, <2>1, <2>2 DEF DeviceInv
  <2>3. CASE e # d
    BY <1>1, <1>6, <2>3 DEF IInv, DeviceInv
  <2> QED
    BY <2>2, <2>3
<1> QED
  BY <1>5, <1>7, <1>8, <1>9, <1>10 DEF IInv

LEMMA UnplugIInv ==
  ASSUME IInv, NEW d \in Devices, Unplug(d), UNCHANGED config
  PROVE  IInv'
<1>1. /\ UNCHANGED <<configFile, deviceList, daemon, loader, arrivals, current,
                     firmware, call, record, faults, plugs>>
      /\ attached' = (attached /\ current # d)
      /\ outcome' = [outcome EXCEPT ![d] = NoOutcome]
      /\ chip' = [chip EXCEPT ![d] = Unplugged]
  BY DEF Unplug, config
<1>2. /\ Unplugged \in Chips /\ Unplugged.bus = "absent"
      /\ Unplugged.cpu = "running" /\ Unplugged.program = "none"
  BY DEF Unplugged, Chips, Contents
<1>3. NoOutcome \in Outcomes /\ NoOutcome.started = "none"
  BY DEF NoOutcome, Outcomes
<1>4. TypeOK'
  <2>1. outcome' \in [Devices -> Outcomes] /\ chip' \in [Devices -> Chips]
        /\ attached' \in BOOLEAN
    BY <1>1, <1>2, <1>3 DEF IInv, TypeOK, Outcomes
  <2> QED
    BY <1>1, <2>1, SameLoop DEF IInv, TypeOK, Outcomes
<1>5. /\ outcome'[d] = NoOutcome /\ chip'[d] = Unplugged
      /\ \A e \in Devices : e # d => outcome'[e] = outcome[e] /\ chip'[e] = chip[e]
  BY <1>1 DEF IInv, TypeOK
<1>6. KnownInv'
  BY <1>1, <1>5 DEF IInv, KnownInv
<1>7. LoadingInv'
  <2>1. attached' => attached /\ current \in Devices
                     /\ chip'[current] = chip[current]
                     /\ outcome'[current] = outcome[current]
    BY <1>1, <1>5 DEF IInv, LoadingInv
  <2> QED
    BY <1>1, <2>1 DEF IInv, LoadingInv
<1>8. BootedRunsApplication'
  BY <1>1, <1>3, <1>5 DEF IInv, BootedRunsApplication
<1>9. ASSUME NEW e \in Devices
      PROVE  DeviceInv(e)'
  <2>1. "none" \notin DOMAIN Application
    BY ImagesAssumption DEF ImagesAssumption
  <2>2. CASE e = d
    BY <1>2, <1>5, <2>1, <2>2 DEF DeviceInv
  <2>3. CASE e # d
    BY <1>1, <1>5, <2>3 DEF IInv, DeviceInv
  <2> QED
    BY <2>2, <2>3
<1> QED
  BY <1>4, <1>6, <1>7, <1>8, <1>9 DEF IInv

(* A device with an application is not the one that StartDevice is called for. *)
LEMMA RenumerateIInv ==
  ASSUME IInv, NEW d \in Devices, Renumerate(d), UNCHANGED config
  PROVE  IInv'
<1> DEFINE warm == [chip[d] EXCEPT !.bus = "warm"]
<1>1. /\ UNCHANGED <<configFile, deviceList, daemon, loader, current, firmware,
                     call, record, outcome, faults, plugs>>
      /\ arrivals' = arrivals \cup {d} /\ attached' = (attached /\ current # d)
      /\ chip' = [chip EXCEPT ![d] = warm] /\ chip[d].program \in DOMAIN Application
  BY DEF Renumerate, config
<1>2. /\ warm \in Chips /\ warm.bus = "warm" /\ warm.program = chip[d].program
  BY DEF IInv, TypeOK, Chips
<1> HIDE DEF warm
<1>3. TypeOK'
  <2>1. chip' \in [Devices -> Chips] /\ attached' \in BOOLEAN
    BY <1>1, <1>2 DEF IInv, TypeOK
  <2> QED
    BY <1>1, <2>1, SameLoop DEF IInv, TypeOK
<1>4. /\ chip'[d] = warm /\ \A e \in Devices : e # d => chip'[e] = chip[e]
  BY <1>1 DEF IInv, TypeOK
<1>5. KnownInv'
  BY <1>1 DEF IInv, KnownInv
<1>6. LoadingInv'
  <2>1. attached' => attached /\ current \in Devices /\ current # d
                     /\ chip'[current] = chip[current]
    BY <1>1, <1>4 DEF IInv, LoadingInv
  <2> QED
    BY <1>1, <2>1 DEF IInv, LoadingInv
<1>7. BootedRunsApplication'
  BY <1>1, <1>2, <1>4 DEF IInv, BootedRunsApplication
<1>8. \A e \in Devices : DeviceInv(e)'
  BY <1>1, <1>2, <1>4 DEF IInv, DeviceInv
<1> QED
  BY <1>3, <1>5, <1>6, <1>7, <1>8 DEF IInv

-----------------------------------------------------------------------------
(* The requests. *)

LEMMA DuringStartDevice ==
  ASSUME IInv, current # NoDevice
  PROVE  /\ call \in 1..10 /\ current \in Devices /\ daemon = "serving"
         /\ record \in Nat \ {0} /\ Len(StartDevice) = 10
         /\ loader \in {<<>>, Loader} /\ firmware \in {<<>>} \cup AllImages
         /\ call \in {1, 3, 5, 7, 9, 10} <=> Call.does = "reset"
         /\ call \in {1, 3, 5, 7, 9, 10} => record = 1
         /\ call \in {2, 4, 6, 8} =>
              /\ Records = DataRecords(IF call \in {2, 4} THEN loader ELSE firmware)
              /\ Len(Records) \in Nat /\ record > Len(Records) => Len(Records) = 0
         /\ chip[current] \in Chips
<1>1. /\ call \in 1..10 /\ Len(StartDevice) = 10
      /\ record \in 1..(IF call = 0 \/ Call.does = "reset" \/ Len(Records) = 0
                         THEN 1 ELSE Len(Records))
  BY CallsOfStartDevice DEF IInv, TypeOK
<1>2. /\ daemon = "serving" /\ loader \in {<<>>, Loader}
      /\ current \in Devices /\ chip[current] \in Chips
      /\ firmware \in {<<>>} \cup AllImages
  BY DEF IInv, TypeOK, KnownInv, AllImages
<1>3. call \in {1, 3, 5, 7, 9, 10} \/ call \in {2, 4, 6, 8}
  BY <1>1
<1>4. CASE call \in {1, 3, 5, 7, 9, 10}
  <2>1. Call.does = "reset"
    BY <1>4, CallIs
  <2>2. record \in 1..1
    BY <1>1, <2>1
  <2> QED
    BY <1>1, <1>2, <1>4, <2>1, <2>2
<1>5. CASE call \in {2, 4, 6, 8}
  <2> DEFINE image == IF call \in {2, 4} THEN loader ELSE firmware
  <2>1. Call.does = "load" /\ Records = DataRecords(image)
    BY <1>5, CallIs DEF Records
  <2>2. image \in {<<>>} \cup AllImages
    BY <1>2 DEF AllImages
  <2> HIDE DEF image
  <2>3. Len(Records) \in Nat
    BY <2>1, <2>2, ImageRecords
  <2>4. record \in Nat \ {0} /\ (record > Len(Records) => Len(Records) = 0)
    <3>1. call # 0
      BY <1>5
    <3>2. CASE Len(Records) = 0
      BY <1>1, <2>1, <3>1, <3>2
    <3>3. CASE Len(Records) # 0
      <4>1. record \in 1..Len(Records)
        BY <1>1, <2>1, <3>1, <3>3
      <4> QED
        BY <2>3, <4>1
    <3> QED
      BY <3>2, <3>3
  <2>5. Records = DataRecords(IF call \in {2, 4} THEN loader ELSE firmware)
    BY <2>1 DEF image
  <2> QED
    BY <1>1, <1>2, <1>5, <2>1, <2>3, <2>4, <2>5
<1> QED
  BY <1>3, <1>4, <1>5

(* What a request may make of the chips: the others are left alone, and so is
   the current one when it is gone. *)
Touched ==
  /\ chip' \in [Devices -> Chips]
  /\ \A e \in Devices : e # current => chip'[e] = chip[e]
  /\ ~attached => chip' = chip
  /\ attached => chip'[current].bus = "cold"
  /\ UNCHANGED <<config, daemon, loader, arrivals, plugs>>
  /\ faults' \in 0..MaxFaults

(* StartDevice goes on. *)
Continues ==
  /\ UNCHANGED <<current, attached, firmware, outcome>>
  /\ \/ /\ Call.does = "load" /\ record < Len(Records)
        /\ call' = call /\ record' = record + 1
     \/ call < 10 /\ call' = call + 1 /\ record' = 1
  /\ attached =>
       /\ chip'[current].program \in {"none", "core", "loader", "unknown"}
       /\ CallInv(chip'[current], call', record', loader, firmware, faults')

(* What runs on a device that was booted. *)
Target == IF firmware # <<>> THEN deviceList[ColdId[current]].firmwareFileName
          ELSE IF loader # <<>> THEN "loader" ELSE "unknown"

LEMMA ContinueIInv ==
  ASSUME IInv, current # NoDevice, Touched, Continues
  PROVE  IInv'
<1> USE DEF Continues
<1>1. /\ call \in 1..10 /\ current \in Devices /\ Len(StartDevice) = 10
      /\ record \in Nat \ {0} /\ loader \in {<<>>, Loader}
      /\ firmware \in {<<>>} \cup AllImages
  BY DuringStartDevice
<1>2. UNCHANGED <<configFile, deviceList, daemon, loader, arrivals, plugs>>
  BY DEF Touched, config
<1>3. Call'.does = "reset" \/ Len(Records') \in Nat
  <2>1. Records' = DataRecords(IF Call'.image = "loader" THEN loader ELSE firmware)
    BY <1>2 DEF Records
  <2> DEFINE image == IF Call'.image = "loader" THEN loader ELSE firmware
  <2>2. image \in {<<>>} \cup AllImages
    BY <1>1 DEF AllImages
  <2> HIDE DEF image
  <2>3. Len(DataRecords(image)) \in Nat
    BY <2>2, ImageRecords
  <2> QED
    BY <2>1, <2>3 DEF image
<1>4. /\ call' \in 1..10
      /\ record' \in 1..(IF call' = 0 \/ Call'.does = "reset" \/ Len(Records') = 0
                          THEN 1 ELSE Len(Records'))
  <2>1. CASE Call.does = "load" /\ record < Len(Records) /\ call' = call /\ record' = record + 1
    <3>1. Call' = Call /\ Records' = Records
      BY <1>2, <2>1, SameLoop
    <3>2. Call.does # "reset" /\ call # 0 /\ Len(Records) \in Nat
      BY <1>1, <1>3, <2>1, <3>1
    <3>3. record + 1 \in 1..Len(Records) /\ Len(Records) # 0
      BY <1>1, <2>1, <3>2
    <3> QED
      BY <1>1, <2>1, <3>1, <3>2, <3>3
  <2>2. CASE call < 10 /\ call' = call + 1 /\ record' = 1
    <3>1. call' \in 1..10
      BY <1>1, <2>2
    <3>2. CASE Call'.does = "reset" \/ Len(Records') = 0
      BY <2>2, <3>1, <3>2
    <3>3. CASE ~(Call'.does = "reset" \/ Len(Records') = 0)
      <4>1. 1 \in 1..Len(Records') /\ call' # 0
        BY <1>3, <3>1, <3>3
      <4> QED
        BY <2>2, <3>1, <3>3, <4>1
    <3> QED
      BY <3>2, <3>3
  <2> QED
    BY <2>1, <2>2
<1>5. TypeOK'
  <2>1. call' \in 0..Len(StartDevice) /\ (call' # 0 <=> current' # NoDevice)
    BY <1>1, <1>4
  <2> QED
    BY <1>2, <1>4, <2>1 DEF IInv, TypeOK, Touched
<1>6. KnownInv'
  BY <1>2 DEF IInv, KnownInv
<1>7. LoadingInv'
  BY <1>2 DEF IInv, LoadingInv, Touched
<1>8. BootedRunsApplication'
  BY <1>2 DEF IInv, LoadingInv, BootedRunsApplication, Touched
<1>9. ASSUME NEW e \in Devices
      PROVE  DeviceInv(e)'
  <2>1. CASE chip'[e] = chip[e]
    BY <1>2, <2>1 DEF IInv, DeviceInv
  <2>2. CASE chip'[e] # chip[e]
    <3>1. e = current /\ attached
      BY <2>2 DEF Touched
    <3>2. {"none", "core", "loader", "unknown"} \cap DOMAIN Application = {}
      BY ImagesAssumption DEF ImagesAssumption
    <3>3. chip'[e].bus = "cold" /\ e \notin arrivals
          /\ chip'[e].program \notin DOMAIN Application
      BY <3>1, <3>2 DEF Touched, IInv, LoadingInv
    <3> QED
      BY <1>2, <3>3 DEF DeviceInv
  <2> QED
    BY <2>1, <2>2
<1> QED
  BY <1>5, <1>6, <1>7, <1>8, <1>9 DEF IInv

(* StartDevice is over: with true the device runs what it was to run. *)
LEMMA ReturnIInv ==
  ASSUME IInv, current # NoDevice, Touched, NEW started \in {"true", "false"},
         Return(started),
         started = "false" => chip' = chip,
         attached /\ started = "true" => chip'[current].program = Target
  PROVE  IInv'
<1> DEFINE ended == [started |-> started, returned |-> "true",
                     image |-> outcome[current].image]
<1>1. /\ current' = NoDevice /\ attached' = FALSE /\ firmware' = <<>>
      /\ call' = 0 /\ record' = 1 /\ current \in Devices /\ Len(StartDevice) = 10
      /\ UNCHANGED <<configFile, deviceList, daemon, loader, arrivals, plugs>>
  BY DuringStartDevice DEF Return, Touched, config
<1>2. outcome' = IF attached THEN [outcome EXCEPT ![current] = ended] ELSE outcome
  BY DEF Return
<1>3. /\ outcome \in [Devices -> Outcomes] /\ ended \in Outcomes
      /\ ended.started = started /\ ended.image = outcome[current].image
  BY <1>1 DEF IInv, TypeOK, Outcomes
<1> HIDE DEF ended
<1>4. /\ outcome' \in [Devices -> Outcomes]
      /\ \A e \in Devices : ~attached \/ e # current => outcome'[e] = outcome[e]
      /\ attached => outcome'[current] = ended
  BY <1>1, <1>2, <1>3
<1>5. TypeOK'
  <2>1. /\ call' \in 0..Len(StartDevice) /\ (call' # 0 <=> current' # NoDevice)
        /\ record' \in 1..1
    BY <1>1
  <2> QED
    BY <1>1, <1>4, <2>1 DEF IInv, TypeOK, Touched, Outcomes
<1>6. KnownInv'
  <2>1. daemon # "starting"
    BY DuringStartDevice
  <2> QED
    BY <1>1, <2>1 DEF IInv, KnownInv
<1>7. LoadingInv'
  BY <1>1 DEF LoadingInv
<1>8. ASSUME NEW e \in Devices, outcome'[e].started = "true"
      PROVE  chip'[e].program =
               IF outcome'[e].image # <<>> THEN deviceList'[ColdId[e]].firmwareFileName
               ELSE IF loader' # <<>> THEN "loader" ELSE "unknown"
  <2>1. CASE attached /\ e = current
    <3>1. started = "true" /\ outcome'[e].image = firmware
      BY <1>3, <1>4, <1>8, <2>1 DEF IInv, LoadingInv
    <3> QED
      BY <1>1, <2>1, <3>1 DEF Target
  <2>2. CASE ~(attached /\ e = current)
    BY <1>1, <1>4, <1>8, <2>2 DEF IInv, BootedRunsApplication, Touched
  <2> QED
    BY <2>1, <2>2
<1>9. ASSUME NEW e \in Devices
      PROVE  DeviceInv(e)'
  <2>1. CASE attached /\ e = current
    <3>1. {"none", "core", "loader", "unknown"} \cap DOMAIN Application = {}
      BY ImagesAssumption DEF ImagesAssumption
    <3>2. chip'[e].bus = "cold" /\ e \notin arrivals' /\ outcome'[e].started = started
      BY <1>1, <1>3, <1>4, <2>1 DEF Touched, IInv, LoadingInv
    <3>3. started = "false" => chip'[e].program \notin DOMAIN Application
      BY <2>1, <3>1 DEF IInv, LoadingInv
    <3> QED
      BY <3>2, <3>3 DEF DeviceInv
  <2>2. CASE ~(attached /\ e = current)
    BY <1>1, <1>4, <2>2 DEF IInv, DeviceInv, Touched
  <2> QED
    BY <2>1, <2>2
<1> QED
  BY <1>5, <1>6, <1>7, <1>8, <1>9 DEF IInv, BootedRunsApplication

(* The end of a call, or of one turn of its loop. *)
LEMMA ProceedLoop ==
  ASSUME IInv, current # NoDevice, Proceed, call \in {2, 4, 6, 8}
  PROVE  /\ UNCHANGED <<current, attached, firmware, outcome>>
         /\ \/ /\ Call.does = "load" /\ record < Len(Records)
               /\ call' = call /\ record' = record + 1
            \/ ~(record < Len(Records)) /\ call' = call + 1 /\ record' = 1
<1>1. Call.does = "load" /\ call < Len(StartDevice)
  <2>1. Len(StartDevice) = 10
    BY CallsOfStartDevice
  <2>2. Call.does = "load"
    BY CallIs
  <2> QED
    BY <2>1, <2>2
<1>2. CASE record < Len(Records)
  BY <1>1, <1>2 DEF Proceed
<1>3. CASE ~(record < Len(Records))
  BY <1>1, <1>3 DEF Proceed
<1> QED
  BY <1>2, <1>3

LEMMA ProceedReset ==
  ASSUME IInv, current # NoDevice, Proceed, call \in {1, 3, 5, 7, 9}
  PROVE  /\ UNCHANGED <<current, attached, firmware, outcome>>
         /\ call' = call + 1 /\ record' = 1
<1>1. Call.does # "load" /\ call < Len(StartDevice)
  <2>1. Len(StartDevice) = 10
    BY CallsOfStartDevice
  <2>2. Call.does # "load"
    BY CallIs
  <2> QED
    BY <2>1, <2>2
<1> QED
  BY <1>1 DEF Proceed

LEMMA ProceedLast ==
  ASSUME IInv, current # NoDevice, Proceed, call = 10
  PROVE  Return("true")
<1>1. Call.does # "load" /\ ~(call < Len(StartDevice))
  <2>1. Len(StartDevice) = 10
    BY CallsOfStartDevice
  <2>2. Call.does # "load"
    BY CallIs
  <2> QED
    BY <2>1, <2>2
<1> QED
  BY <1>1 DEF Proceed

LEMMA NothingSent ==
  ASSUME IInv, NothingToSend, UNCHANGED config
  PROVE  current # NoDevice /\ Touched /\ Continues /\ chip' = chip
<1>1. current # NoDevice /\ ~Sends /\ Proceed /\ chip' = chip /\ faults' = faults
      /\ UNCHANGED <<daemon, loader, arrivals, plugs>>
  BY DEF NothingToSend
<1> DEFINE img == Img(call, loader, firmware)
           c == chip[current]
<1>2. /\ call \in {2, 4, 6, 8} /\ Call.does = "load"
      /\ ~(record <= Len(Records) /\ ForRAM(Records[record], Call.ram))
  BY <1>1, CallIs, DuringStartDevice DEF Sends
<1>3. /\ Records = DataRecords(img) /\ Call.ram = Mem(call) /\ Len(Records) \in Nat
      /\ record \in Nat \ {0} /\ loader \in {<<>>, Loader}
      /\ firmware \in {<<>>} \cup AllImages
  BY <1>1, <1>2, CallIs, DuringStartDevice DEF Img, Mem
<1>4. Touched
  BY <1>1 DEF Touched, IInv, TypeOK, LoadingInv
<1>5. attached => CallInv(chip'[current], call', record', loader, firmware, faults')
  <2> SUFFICES ASSUME attached
      PROVE CallInv(c, call', record', loader, firmware, faults)
    BY <1>1
  <2>1. CallInv(c, call, record, loader, firmware, faults)
    BY DEF IInv, LoadingInv
  <2>2. ~(record <= Len(DataRecords(img)) /\ ForRAM(DataRecords(img)[record], Mem(call)))
    BY <1>2, <1>3
  <2> HIDE DEF c
  <2>3. /\ CallInv(c, call, record + 1, loader, firmware, faults)
        /\ record >= Len(DataRecords(img)) =>
             CallInv(c, call + 1, 1, loader, firmware, faults)
    BY <1>2, <1>3, <2>1, <2>2, AfterPassed
  <2> HIDE DEF img
  <2>4. record < Len(Records) \/ record >= Len(DataRecords(img))
    BY <1>3
  <2> QED
    BY <1>1, <1>2, <2>3, <2>4, ProceedLoop
<1>6. attached => chip'[current].program \in {"none", "core", "loader", "unknown"}
  BY <1>1 DEF IInv, LoadingInv
<1>7. call < 10
  BY <1>2
<1>8. Continues
  BY <1>1, <1>2, <1>5, <1>6, <1>7, ProceedLoop DEF Continues
<1> QED
  BY <1>1, <1>4, <1>8

(* A record that was loaded. *)
LEMMA RecordSent ==
  ASSUME IInv, RequestSucceeds, UNCHANGED config, Call.does = "load"
  PROVE  current # NoDevice /\ Touched /\ Continues
<1>1. /\ current # NoDevice /\ Sends /\ Proceed /\ attached /\ faults' = faults
      /\ chip' = [chip EXCEPT ![current] = Load(chip[current], Records[record], Call.ram)]
      /\ UNCHANGED <<daemon, loader, arrivals, plugs>>
  BY DEF RequestSucceeds, After
<1> DEFINE img == Img(call, loader, firmware)
           c == chip[current]
           r == DataRecords(img)[record]
           c2 == Load(c, r, Mem(call))
<1>2. /\ call \in {2, 4, 6, 8}
      /\ record <= Len(Records) /\ ForRAM(Records[record], Call.ram)
  BY <1>1, CallIs, DuringStartDevice DEF Sends
<1>3. Records = DataRecords(img) /\ Call.ram = Mem(call) /\ Len(Records) \in Nat
  BY <1>1, <1>2, CallIs, DuringStartDevice DEF Img, Mem
<1>4. /\ c \in Chips /\ record \in Nat \ {0} /\ loader \in {<<>>, Loader}
      /\ firmware \in {<<>>} \cup AllImages /\ current \in Devices
      /\ CallInv(c, call, record, loader, firmware, faults)
      /\ c.bus = "cold" /\ c.program \in {"none", "core", "loader", "unknown"}
  BY <1>1, DuringStartDevice DEF IInv, LoadingInv
<1>5. record <= Len(DataRecords(img)) /\ ForRAM(DataRecords(img)[record], Mem(call))
  BY <1>2, <1>3
<1> HIDE DEF c
<1>6. /\ CallInv(c2, call, record + 1, loader, firmware, faults)
      /\ record >= Len(DataRecords(img)) =>
           CallInv(c2, call + 1, 1, loader, firmware, faults)
  BY <1>2, <1>4, <1>5, AfterLoaded
<1>7. r \in Record
  <2>1. img \in {<<>>} \cup AllImages
    BY <1>4, ImgType
  <2> HIDE DEF img
  <2>2. record \in 1..Len(DataRecords(img))
    BY <1>3, <1>4, <1>5
  <2> QED
    BY <2>1, <2>2, ImageRecords
<1>8. chip' = [chip EXCEPT ![current] = c2]
  BY <1>1, <1>3 DEF c
<1> HIDE DEF img, r
<1>9. /\ c2 \in Chips /\ c2.bus = "cold"
      /\ c2.program \in {"none", "core", "loader", "unknown"}
  BY <1>4, <1>7, LoadChip
<1> HIDE DEF c2
<1>10. chip'[current] = c2
  BY <1>4, <1>8 DEF IInv, TypeOK
<1>11. Touched
  BY <1>1, <1>4, <1>8, <1>9 DEF Touched, IInv, TypeOK
<1>12. record < Len(Records) \/ record >= Len(DataRecords(img))
  BY <1>3, <1>4
<1>13. call < 10
  BY <1>2
<1>14. /\ UNCHANGED <<current, attached, firmware, outcome>>
       /\ \/ /\ Call.does = "load" /\ record < Len(Records)
             /\ call' = call /\ record' = record + 1
          \/ ~(record < Len(Records)) /\ call' = call + 1 /\ record' = 1
  BY <1>1, <1>2, ProceedLoop
<1>15. CallInv(c2, call', record', loader, firmware, faults')
  BY <1>1, <1>6, <1>12, <1>14
<1> QED
  BY <1>1, <1>9, <1>10, <1>11, <1>13, <1>14, <1>15 DEF Continues

(* What the 8051 is let go on: the loader after the first five calls, and at the
   end what StartDevice is for. *)
LEMMA LetGo ==
  ASSUME IInv, current # NoDevice, attached, call \in {5, 10}
  PROVE  /\ chip[current].cpu = "held"
         /\ call = 5 => Program(chip[current].ram) =
                          IF loader # <<>> THEN "loader" ELSE "unknown"
         /\ call = 10 => Program(chip[current].ram) = Target
<1> DEFINE ram == chip[current].ram
           name == deviceList[ColdId[current]].firmwareFileName
<1>1. /\ CallInv(chip[current], call, record, loader, firmware, faults)
      /\ name \in DOMAIN Application /\ firmware \in {<<>>, Application[name]}
      /\ loader \in {<<>>, Loader} /\ loader \in {<<>>} \cup AllImages
      /\ firmware \in {<<>>} \cup AllImages
  BY DuringStartDevice DEF IInv, LoadingInv, AllImages
<1>2. chip[current].cpu = "held"
  BY <1>1 DEF CallInv
<1>3. ASSUME call = 5 \/ firmware = <<>>
      PROVE  Program(ram) = IF loader # <<>> THEN "loader" ELSE "unknown"
  <2>1. FromImage(ram, loader) /\ Loaded(ram, loader, "internal")
    BY <1>1, <1>3 DEF CallInv
  <2> HIDE DEF ram
  <2>2. Holds(ram, loader)
    BY <1>1, <2>1, LoadedHolds
  <2> QED
    BY <1>1, <2>1, <2>2, ProgramOfLoader
<1>4. ASSUME call = 10, firmware # <<>>
      PROVE  Program(ram) = name
  <2>1. Loaded(ram, firmware, "external") /\ Loaded(ram, firmware, "internal")
    BY <1>1, <1>4 DEF CallInv
  <2> HIDE DEF ram, name
  <2>2. Holds(ram, firmware)
    BY <1>1, <2>1, LoadedHolds
  <2> QED
    BY <1>1, <1>4, <2>2, ProgramOfApplication
<1> QED
  BY <1>2, <1>3, <1>4 DEF Target

LEMMA ResetSent ==
  ASSUME IInv, RequestSucceeds, UNCHANGED config, Call.does = "reset"
  PROVE  /\ current # NoDevice /\ attached /\ Touched
         /\ \/ Continues
            \/ Return("true") /\ chip'[current].program = Target
<1>1. /\ current # NoDevice /\ Proceed /\ attached /\ faults' = faults
      /\ chip' = [chip EXCEPT ![current] = Reset(chip[current], Call.bit)]
      /\ UNCHANGED <<daemon, loader, arrivals, plugs>>
  BY DEF RequestSucceeds, After
<1> DEFINE c == chip[current]
           bit == IF call \in {5, 10} THEN 0 ELSE 1
           c2 == Reset(c, bit)
<1>2. call \in {1, 3, 5, 7, 9, 10} /\ record = 1 /\ Call.bit = bit
  BY <1>1, DuringStartDevice, CallIs
<1>3. /\ c \in Chips /\ current \in Devices /\ c.bus = "cold"
      /\ CallInv(c, call, 1, loader, firmware, faults)
  BY <1>1, <1>2, DuringStartDevice DEF IInv, LoadingInv
<1>4. /\ call = 5 => c2.program = IF loader # <<>> THEN "loader" ELSE "unknown"
      /\ call = 10 => c2.program = Target
      /\ call \in {1, 3, 7, 9} => c2.program = "none"
  BY <1>1, <1>3, LetGo, ResetChip
<1> HIDE DEF c
<1>5. c2 \in Chips /\ c2.bus = "cold"
  BY <1>3, ResetChip
<1>6. chip' = [chip EXCEPT ![current] = c2]
  BY <1>1, <1>2 DEF c
<1>7. ASSUME call \in {1, 3, 5, 7, 9}
      PROVE  CallInv(c2, call + 1, 1, loader, firmware, faults)
  <2>1. c2 = Reset(c, IF call = 5 THEN 0 ELSE 1)
    BY <1>7
  <2> HIDE DEF c2
  <2> QED
    BY <1>3, <1>7, <2>1, AfterReset
<1> HIDE DEF c2
<1>8. chip'[current] = c2
  BY <1>3, <1>6 DEF IInv, TypeOK
<1>9. Touched
  BY <1>1, <1>3, <1>5, <1>6 DEF Touched, IInv, TypeOK
<1>10. CASE call = 10
  BY <1>1, <1>4, <1>8, <1>9, <1>10, ProceedLast
<1>11. CASE call \in {1, 3, 5, 7, 9}
  <2>1. /\ UNCHANGED <<current, attached, firmware, outcome>>
        /\ call' = call + 1 /\ record' = 1 /\ call < 10
    <3>1. call < 10
      BY <1>11
    <3>2. /\ UNCHANGED <<current, attached, firmware, outcome>>
          /\ call' = call + 1 /\ record' = 1
      BY <1>1, <1>11, ProceedReset
    <3> QED
      BY <3>1, <3>2
  <2>2. Continues
    BY <1>1, <1>4, <1>7, <1>8, <1>11, <2>1 DEF Continues
  <2> QED
    BY <1>1, <1>9, <2>2
<1> QED
  BY <1>2, <1>10, <1>11

(* A request that fails ends StartDevice, unless its result is dropped. *)
LEMMA RequestFailed ==
  ASSUME IInv, RequestFails, UNCHANGED config
  PROVE  /\ current # NoDevice /\ Touched /\ chip' = chip
         /\ Continues \/ Return("false")
<1>1. /\ current # NoDevice /\ Faulty /\ chip' = chip
      /\ IF Call.checked THEN Return("false") ELSE Proceed
      /\ UNCHANGED <<daemon, loader, arrivals, plugs>>
  BY DEF RequestFails
<1>2. faults' \in 0..MaxFaults
  BY <1>1, DownloadAssumption DEF Faulty, IInv, TypeOK, DownloadAssumption
<1>3. Touched
  BY <1>1, <1>2 DEF Touched, IInv, TypeOK, LoadingInv
<1>4. CASE Call.checked
  BY <1>1, <1>3, <1>4
<1>5. CASE ~Call.checked
  <2>1. call \in {3, 7} /\ Call.does = "reset" /\ record = 1
    BY <1>1, <1>5, CallIs, DuringStartDevice
  <2>2. /\ UNCHANGED <<current, attached, firmware, outcome>>
        /\ call' = call + 1 /\ record' = 1 /\ call < 10
    <3>1. Proceed
      BY <1>1, <1>5
    <3>2. call \in {1, 3, 5, 7, 9} /\ call < 10
      BY <2>1
    <3>3. /\ UNCHANGED <<current, attached, firmware, outcome>>
          /\ call' = call + 1 /\ record' = 1
      BY <1>1, <3>1, <3>2, ProceedReset
    <3> QED
      BY <3>2, <3>3
  <2>3. ASSUME attached
        PROVE  CallInv(chip[current], call + 1, 1, loader, firmware, faults + 1)
    <3>1. CallInv(chip[current], call, 1, loader, firmware, faults) /\ faults \in Nat
      BY <2>1, <2>3, DownloadAssumption DEF IInv, LoadingInv, TypeOK, DownloadAssumption
    <3> QED
      BY <2>1, <3>1, AfterFailedReset
  <2>4. attached => faults' = faults + 1
    BY <1>1, <2>1 DEF Faulty, Serves
  <2>5. attached => chip[current].program \in {"none", "core", "loader", "unknown"}
    BY DEF IInv, LoadingInv
  <2>6. Continues
    BY <1>1, <2>2, <2>3, <2>4, <2>5 DEF Continues
  <2> QED
    BY <1>1, <1>3, <2>6
<1> QED
  BY <1>4, <1>5

LEMMA RequestedIInv ==
  ASSUME IInv, Requested
  PROVE  IInv'
<1>1. CASE NothingToSend
  BY <1>1, NothingSent, ContinueIInv DEF Requested
<1>2. CASE RequestSucceeds /\ Call.does = "load"
  BY <1>2, RecordSent, ContinueIInv DEF Requested
<1>3. CASE RequestSucceeds /\ Call.does = "reset"
  <2>1. /\ current # NoDevice /\ attached /\ Touched
        /\ \/ Continues
           \/ Return("true") /\ chip'[current].program = Target
    BY <1>3, ResetSent DEF Requested
  <2> QED
    BY <2>1, ContinueIInv, ReturnIInv
<1>4. CASE RequestFails
  <2>1. /\ current # NoDevice /\ Touched /\ chip' = chip
        /\ Continues \/ Return("false")
    BY <1>4, RequestFailed DEF Requested
  <2> QED
    BY <2>1, ContinueIInv, ReturnIInv
<1>5. RequestSucceeds => Call.does \in {"load", "reset"}
  BY DuringStartDevice, CallIs DEF RequestSucceeds
<1> QED
  BY <1>1, <1>2, <1>3, <1>4, <1>5 DEF Requested

LEMMA StepIInv == IInv /\ [Next]_vars => IInv'
<1> SUFFICES ASSUME IInv, [Next]_vars PROVE IInv'
  OBVIOUS
<1>1. CASE Main
  BY <1>1, MainIInv
<1>2. CASE Requested
  BY <1>2, RequestedIInv
<1>3. ASSUME NEW d \in Devices, Arrived(d)
      PROVE  IInv'
  BY <1>3, PassOverIInv, FoundInterfaceIInv, FoundWithoutIInv DEF Arrived
<1>4. ASSUME NEW d \in Devices, Enumerates(d)
      PROVE  IInv'
  BY <1>4, RenumerateIInv DEF Enumerates
<1>5. ASSUME NEW d \in Devices, (Plug(d) \/ Unplug(d)) /\ UNCHANGED config
      PROVE  IInv'
  BY <1>5, PlugIInv, UnplugIInv
<1>6. CASE UNCHANGED vars
  <2>1. UNCHANGED <<configFile, deviceList, daemon, loader, arrivals, current,
                    attached, firmware, call, record, outcome, chip, faults, plugs>>
    BY <1>6 DEF vars, config, progress
  <2>2. TypeOK' /\ KnownInv'
    BY <2>1, SameLoop DEF IInv, TypeOK, KnownInv
  <2>3. LoadingInv' /\ BootedRunsApplication' /\ \A d \in Devices : DeviceInv(d)'
    BY <2>1 DEF IInv, LoadingInv, BootedRunsApplication, DeviceInv
  <2> QED
    BY <2>2, <2>3 DEF IInv
<1> QED
  BY <1>1, <1>2, <1>3, <1>4, <1>5, <1>6 DEF Next

-----------------------------------------------------------------------------
(* What a step does to a device that is on the bus after it. *)
LEMMA ChipStep ==
  ASSUME IInv, [Next]_vars, NEW d \in Devices, chip'[d] # chip[d],
         chip'[d].bus # "absent"
  PROVE  \/ chip[d].bus = "absent"
         \/ /\ chip'[d].bus = "warm" /\ chip'[d].cpu = chip[d].cpu
            /\ chip'[d].program = chip[d].program /\ chip'[d].ram = chip[d].ram
         \/ /\ RequestSucceeds /\ current = d /\ attached /\ Sends
            /\ chip'[d] = After(chip[d])
<1>1. chip \in [Devices -> Chips] /\ Unplugged.bus = "absent"
  BY DEF IInv, TypeOK, Unplugged
<1>2. CASE Main
  BY <1>2 DEF Main
<1>3. CASE Requested
  <2>1. CASE RequestSucceeds
    <3>1. chip' = [chip EXCEPT ![current] = After(chip[current])] /\ attached /\ Sends
      BY <2>1 DEF RequestSucceeds
    <3>2. current = d
      BY <1>1, <3>1
    <3> QED
      BY <1>1, <2>1, <3>1, <3>2
  <2>2. CASE NothingToSend \/ RequestFails
    BY <2>2 DEF NothingToSend, RequestFails
  <2> QED
    BY <1>3, <2>1, <2>2 DEF Requested
<1>4. ASSUME NEW e \in Devices, Arrived(e)
      PROVE  FALSE
  BY <1>4 DEF Arrived, PassOver, FoundInterface, FoundWithoutFirmware
<1>5. ASSUME NEW e \in Devices, Enumerates(e)
      PROVE  /\ chip'[d].bus = "warm" /\ chip'[d].cpu = chip[d].cpu
             /\ chip'[d].program = chip[d].program /\ chip'[d].ram = chip[d].ram
  BY <1>1, <1>5 DEF Enumerates, Renumerate, Chips
<1>6. ASSUME NEW e \in Devices, Plug(e)
      PROVE  chip[d].bus = "absent"
  BY <1>1, <1>6 DEF Plug
<1>7. ASSUME NEW e \in Devices, Unplug(e)
      PROVE  FALSE
  BY <1>1, <1>7 DEF Unplug
<1>8. CASE UNCHANGED vars
  BY <1>8 DEF vars
<1> QED
  BY <1>2, <1>3, <1>4, <1>5, <1>6, <1>7, <1>8 DEF Next

(* What a request does to the device it is made to. *)
LEMMA RequestStep ==
  ASSUME IInv, RequestSucceeds, attached, Sends, NEW c2, c2 = After(chip[current])
  PROVE  /\ chip[current].cpu = "held" /\ c2.cpu = "running" =>
              c2.program = IF call = 5 THEN IF loader # <<>> THEN "loader" ELSE "unknown"
                           ELSE Target
         /\ \A a \in Addresses :
              INTERNAL_RAM_ADDRESS(a) /\ c2.ram[a] # chip[current].ram[a] =>
                chip[current].cpu = "held" \/ faults > 0
<1> DEFINE c == chip[current]
<1>1. current # NoDevice
  BY DEF RequestSucceeds
<1>2. c \in Chips /\ call \in 1..10
  BY <1>1, DuringStartDevice
<1>3. CASE call \in {1, 3, 5, 7, 9, 10}
  <2> DEFINE bit == IF call \in {5, 10} THEN 0 ELSE 1
  <2>1. c2 = Reset(c, bit)
    BY <1>3, CallIs DEF After
  <2>2. c2.ram = c.ram /\ (call \notin {5, 10} => c2.cpu = "held")
        /\ (call \in {5, 10} /\ c.cpu = "held" => c2.program = Program(c.ram))
    BY <1>2, <2>1, ResetChip
  <2>3. call \in {5, 10} => c2.program = IF call = 5
                                       THEN IF loader # <<>> THEN "loader" ELSE "unknown"
                                       ELSE Target
    BY <1>1, <2>2, LetGo
  <2> QED
    BY <2>2, <2>3
<1>4. CASE call \in {2, 4, 6, 8}
  <2> DEFINE img == Img(call, loader, firmware)
             r == DataRecords(img)[record]
  <2>1. /\ c2 = Load(c, Records[record], Call.ram) /\ Records = DataRecords(img)
        /\ Call.ram = Mem(call) /\ ForRAM(Records[record], Call.ram)
        /\ record <= Len(Records) /\ record \in Nat \ {0} /\ Len(Records) \in Nat
        /\ loader \in {<<>>, Loader} /\ firmware \in {<<>>} \cup AllImages
    BY <1>1, <1>4, CallIs, DuringStartDevice DEF After, Sends, Img, Mem
  <2>2. img \in {<<>>} \cup AllImages
    BY <2>1, ImgType
  <2> HIDE DEF img, c
  <2>3. r \in Record
    <3>1. record \in 1..Len(DataRecords(img))
      BY <2>1
    <3> QED
      BY <2>2, <3>1, ImageRecords
  <2> HIDE DEF r
  <2>4. /\ c2.cpu = c.cpu /\ c2.ram = [c.ram EXCEPT ![r.address] = r.data]
        /\ ForRAM(r, Mem(call))
    BY <1>2, <2>1, <2>3, LoadChip DEF r
  <2>5. c.ram \in [Addresses -> Contents]
    BY <1>2 DEF Chips
  <2>6. \A a \in Addresses : c2.ram[a] # c.ram[a] => a = r.address
    BY <2>4, <2>5
  <2>7. CASE call \in {2, 6}
    BY <2>4, <2>6, <2>7 DEF ForRAM, Mem, c
  <2>8. CASE call \in {4, 8}
    <3>1. c.cpu = "held" \/ faults > 0
      BY <2>8 DEF IInv, LoadingInv, CallInv, c
    <3> QED
      BY <2>4, <3>1 DEF c
  <2> QED
    BY <1>4, <2>7, <2>8
<1> QED
  BY <1>2, <1>3, <1>4

-----------------------------------------------------------------------------
(* The steps that the action properties are about. *)
LEMMA StartsWhole ==
  ASSUME IInv, [Next]_vars, NEW d \in Devices,
         chip[d].cpu = "held", chip'[d].cpu = "running", chip'[d].bus # "absent"
  PROVE  chip'[d].program \in Programs \/ loader = <<>>
<1>1. RequestSucceeds /\ current = d /\ attached /\ Sends /\ chip'[d] = After(chip[d])
  <2>1. chip[d].bus # "absent"
    BY DEF IInv, DeviceInv
  <2> QED
    BY <2>1, ChipStep
<1> DEFINE c2 == After(chip[current])
<1>2. c2.program = IF call = 5 THEN IF loader # <<>> THEN "loader" ELSE "unknown"
                   ELSE Target
  <2>1. chip[current].cpu = "held" /\ c2.cpu = "running"
    BY <1>1
  <2> HIDE DEF c2
  <2>2. c2 = After(chip[current])
    BY DEF c2
  <2> QED
    BY <1>1, <2>1, <2>2, RequestStep
<1>3. Target \in Programs \/ loader = <<>>
  BY <1>1 DEF Target, Programs, IInv, LoadingInv
<1> QED
  BY <1>1, <1>2, <1>3 DEF Programs

LEMMA LeavesAlone ==
  ASSUME IInv, [Next]_vars, NEW d \in Devices,
         chip[d].program \in DOMAIN Application, chip'[d].bus # "absent"
  PROVE  chip'[d].program = chip[d].program /\ chip'[d].ram = chip[d].ram
<1>1. chip[d].program \notin {"none", "core", "loader", "unknown"}
  BY ImagesAssumption DEF ImagesAssumption
<1>2. chip[d].bus # "absent"
  BY <1>1 DEF IInv, DeviceInv
<1>3. ~(attached /\ current = d)
  BY <1>1 DEF IInv, LoadingInv
<1> QED
  BY <1>2, <1>3, ChipStep

LEMMA WritesHeld ==
  ASSUME IInv, [Next]_vars, NEW d \in Devices, NEW a \in Addresses,
         INTERNAL_RAM_ADDRESS(a), chip[d].bus = "cold", chip'[d].bus = "cold",
         chip'[d].ram[a] # chip[d].ram[a]
  PROVE  chip[d].cpu = "held" \/ faults > 0
<1>1. RequestSucceeds /\ current = d /\ attached /\ Sends /\ chip'[d] = After(chip[d])
  BY ChipStep
<1> DEFINE c2 == After(chip[current])
<1>2. c2.ram[a] # chip[current].ram[a]
  BY <1>1
<1> HIDE DEF c2
<1>3. c2 = After(chip[current])
  BY DEF c2
<1> QED
  BY <1>1, <1>2, <1>3, RequestStep

-----------------------------------------------------------------------------
(* The configuration file: what is read from it and what is served. *)

(* The lists a loop over the devices goes through. *)
Listed(devices, garbage, n, g) ==
  /\ g[0] = EmptyList
  /\ \A i \in 1..n : g[i] = WithDevice(g[i - 1], devices[i], garbage)

LEMMA ListTrace ==
  ASSUME NEW n \in Nat, NEW bs, DOMAIN bs = 1..n, NEW garbage,
         NEW V, EmptyList \in V,
         \A v \in V, i \in 1..n : WithDevice(v, bs[i], garbage) \in V
  PROVE  \E g : Listed(bs, garbage, n, g) /\ DeviceList(bs, garbage) = g[n]
<1>m. n \in Nat
  OBVIOUS
<1> DEFINE step == [x \in (1..n) \X V |-> WithDevice(x[2], bs[x[1]], garbage)]
           Recursive(f) == f = [s \in SUBSET DOMAIN bs |->
                                  IF s = {} THEN EmptyList
                                  ELSE WithDevice(f[s \ {Max(s)}], bs[Max(s)], garbage)]
           iter == CHOOSE f : Recursive(f)
<1>0. n \in Nat /\ DOMAIN bs = 1..n /\ EmptyList \in V
  OBVIOUS
<1>1. DeviceList(bs, garbage) = iter[DOMAIN bs]
  BY Zenon DEF DeviceList, FoldLeft, MapThenFoldSet
<1>2. step \in [(1..n) \X V -> V]
  <2>1. ASSUME NEW x \in (1..n) \X V
        PROVE  WithDevice(x[2], bs[x[1]], garbage) \in V
    OBVIOUS
  <2> QED
    BY <2>1
<1>3. PICK f : f \in [SUBSET (1..n) -> V] /\ Folded(f, n, EmptyList, step)
  <2> HIDE DEF step
  <2> QED
    BY <1>0, <1>2, FoldExists
<1>4. Recursive(f)
  <2>1. ASSUME NEW s \in SUBSET (1..n), s # {}
        PROVE  f[s] = WithDevice(f[s \ {Max(s)}], bs[Max(s)], garbage)
    <3>1. Max(s) \in s
      BY <1>0, <2>1, MaxIsGreatest
    <3>2. <<Max(s), f[s \ {Max(s)}]>> \in (1..n) \X V
      BY <1>3, <3>1
    <3>3. f[s] = step[<<Max(s), f[s \ {Max(s)}]>>]
      BY <1>3, <2>1 DEF Folded
    <3> QED
      BY <3>2, <3>3
  <2>2. f[{}] = EmptyList
    <3>1. {} \in SUBSET (1..n)
      OBVIOUS
    <3> QED
      BY <1>3, <3>1, Zenon DEF Folded
  <2>3. f = [s \in SUBSET (1..n) |-> f[s]]
    BY <1>3
  <2>4. \A s \in SUBSET (1..n) :
          f[s] = IF s = {} THEN EmptyList ELSE WithDevice(f[s \ {Max(s)}], bs[Max(s)], garbage)
    BY <2>1, <2>2
  <2> QED
    BY <1>0, <2>3, <2>4, Zenon
<1>5. Recursive(iter)
  BY <1>4, Zenon
<1>6. PICK g : g = [i \in 0..n |-> iter[1..i]]
  OBVIOUS
<1>7. \A s \in SUBSET (1..n) : iter[s] = IF s = {} THEN EmptyList
                                       ELSE WithDevice(iter[s \ {Max(s)}], bs[Max(s)], garbage)
  <2>1. iter = [s \in SUBSET (1..n) |-> IF s = {} THEN EmptyList
                                       ELSE WithDevice(iter[s \ {Max(s)}], bs[Max(s)], garbage)]
    <3> QED
      BY <1>0, <1>5, Zenon
  <2> QED
    BY <2>1, Zenon
<1> HIDE DEF iter
<1>8. g[0] = EmptyList
  <2>1. 1..0 = {} /\ {} \in SUBSET (1..n) /\ 0 \in 0..n
    OBVIOUS
  <2> QED
    BY <1>6, <1>7, <2>1, Zenon
<1>9. ASSUME NEW i \in 1..n
      PROVE  g[i] = WithDevice(g[i - 1], bs[i], garbage)
  <2>1. 1..i \in SUBSET (1..n) /\ 1..i # {} /\ i \in 0..n /\ i - 1 \in 0..n
    BY <1>m, Upto, Zenon
  <2>2. Max(1..i) = i /\ (1..i) \ {i} = 1..(i - 1)
    BY <1>m, Upto, Zenon
  <2>3. iter[1..i] = WithDevice(iter[(1..i) \ {Max(1..i)}], bs[Max(1..i)], garbage)
    BY <1>7, <2>1, Zenon
  <2>4. g[i] = iter[1..i] /\ g[i - 1] = iter[1..(i - 1)]
    BY <1>6, <2>1
  <2> QED
    BY <2>2, <2>3, <2>4
<1>10. DeviceList(bs, garbage) = g[n]
  <2>1. n \in 0..n
    OBVIOUS
  <2> QED
    BY <1>0, <1>1, <1>6, <2>1
<1> QED
  BY <1>8, <1>9, <1>10 DEF Listed

(* What an assignment to the list does. *)
LEMMA AssignedType ==
  ASSUME NEW S, NEW T, NEW list \in [S -> T], NEW e \in T, NEW c, c = e.coldBootProductID
  PROVE  Assigned(list, e) \in [S \cup {c} -> T]
BY DEF Assigned

LEMMA AssignedThere ==
  ASSUME NEW list, NEW e
  PROVE  Assigned(list, e)[e.coldBootProductID] = e
BY DEF Assigned

(* After k rounds the list has the models of the dictionaries up to there,
   each with the last entry of its cold boot id. *)
Dicts(bs) == {i \in DOMAIN bs : bs[i].type = "dictionary"}
EntryOf(bs, garbage, i) == DeviceFirmware(bs[i].value, garbage)
ColdOfEntry(bs, garbage, i) == EntryOf(bs, garbage, i).coldBootProductID

HasEntries(list, bs, garbage, k) ==
  /\ DOMAIN list = {ColdOfEntry(bs, garbage, i) : i \in {j \in Dicts(bs) : j <= k}}
  /\ \A i \in Dicts(bs) :
       i <= k /\ (\A j \in Dicts(bs) : i < j /\ j <= k =>
                    ColdOfEntry(bs, garbage, j) # ColdOfEntry(bs, garbage, i))
         => list[ColdOfEntry(bs, garbage, i)] = EntryOf(bs, garbage, i)

Lists(bs, garbage) ==
  UNION {[S -> {EntryOf(bs, garbage, i) : i \in Dicts(bs)}] :
           S \in SUBSET {ColdOfEntry(bs, garbage, i) : i \in Dicts(bs)}}

LEMMA WithDeviceProperties ==
  ASSUME NEW n \in Nat, NEW bs, DOMAIN bs = 1..n, NEW garbage,
         NEW list \in Lists(bs, garbage), NEW i \in 1..n
  PROVE  /\ WithDevice(list, bs[i], garbage) \in Lists(bs, garbage)
         /\ HasEntries(list, bs, garbage, i - 1) =>
              HasEntries(WithDevice(list, bs[i], garbage), bs, garbage, i)
<1> DEFINE E(x) == EntryOf(bs, garbage, x)
           C(x) == ColdOfEntry(bs, garbage, x)
           T == {E(x) : x \in Dicts(bs)}
<1>1. PICK S \in SUBSET {C(x) : x \in Dicts(bs)} : list \in [S -> T]
  BY DEF Lists
<1>2. \A x \in Dicts(bs) : x \in Nat /\ (x <= i <=> x <= i - 1 \/ x = i) /\ ~(i <= i - 1)
  BY DEF Dicts
<1>3. CASE bs[i].type # "dictionary"
  <2>1. WithDevice(list, bs[i], garbage) = list
    BY <1>3 DEF WithDevice
  <2>2. \A x \in Dicts(bs) : x <= i <=> x <= i - 1
    BY <1>2, <1>3 DEF Dicts
  <2>3. {j \in Dicts(bs) : j <= i - 1} = {j \in Dicts(bs) : j <= i}
    BY <2>2
  <2>4. ASSUME HasEntries(list, bs, garbage, i - 1)
        PROVE  HasEntries(list, bs, garbage, i)
    BY <2>2, <2>3, <2>4, Zenon DEF HasEntries
  <2> QED
    BY <2>1, <2>4
<1>4. CASE bs[i].type = "dictionary"
  <2>1. i \in Dicts(bs)
    BY <1>4 DEF Dicts
  <2>2. PICK new : new = WithDevice(list, bs[i], garbage)
    OBVIOUS
  <2>3. new = Assigned(list, E(i))
    BY <1>4, <2>2 DEF WithDevice, EntryOf
  <2>4. E(i) \in T /\ C(i) = E(i).coldBootProductID
    BY <2>1 DEF ColdOfEntry
  <2> HIDE DEF T, E, C
  <2>5. new \in [S \cup {C(i)} -> T] /\ new[C(i)] = E(i) /\ \A id \in S : id # C(i) => new[id] = list[id]
    <3>1. PICK e, c : e \in T /\ e = E(i) /\ c = C(i) /\ c = e.coldBootProductID
      BY <2>4
    <3>2. Assigned(list, e) \in [S \cup {c} -> T]
      BY <1>1, <3>1, AssignedType, Zenon
    <3>3. Assigned(list, e)[e.coldBootProductID] = e
      BY AssignedThere, Zenon
    <3>4. ASSUME NEW id \in S, id # e.coldBootProductID
          PROVE  Assigned(list, e)[id] = list[id]
      BY <1>1, <3>4 DEF Assigned
    <3>5. new = Assigned(list, e)
      BY <2>3, <3>1
    <3>6. new[c] = e /\ \A id \in S : id # c => new[id] = list[id]
      BY <3>1, <3>3, <3>4, <3>5, Zenon
    <3> QED
      BY <3>1, <3>2, <3>5, <3>6
  <2>6. new \in Lists(bs, garbage)
    <3>1. S \cup {C(i)} \in SUBSET {C(x) : x \in Dicts(bs)}
      BY <1>1, <2>1
    <3> QED
      BY <2>5, <3>1 DEF Lists, T, C, E
  <2>7. ASSUME HasEntries(list, bs, garbage, i - 1)
        PROVE  HasEntries(new, bs, garbage, i)
    <3>1. DOMAIN list = S /\ DOMAIN new = S \cup {C(i)}
      BY <1>1, <2>5
    <3>2. S = {C(x) : x \in {j \in Dicts(bs) : j <= i - 1}}
      BY <2>7, <3>1 DEF HasEntries, C
    <3>3. DOMAIN new = {C(x) : x \in {j \in Dicts(bs) : j <= i}}
      BY <1>2, <2>1, <3>1, <3>2
    <3>4. ASSUME NEW x \in Dicts(bs), x <= i,
                 \A j \in Dicts(bs) : x < j /\ j <= i => C(j) # C(x)
          PROVE  new[C(x)] = E(x)
      <4>1. CASE x = i
        BY <2>5, <4>1
      <4>2. CASE x # i
        <5>1. x <= i - 1 /\ x < i
          BY <1>2, <3>4, <4>2
        <5>2. C(i) # C(x)
          <6>1. i <= i
            OBVIOUS
          <6> QED
            BY <2>1, <3>4, <5>1, <6>1
        <5>3. C(x) \in S
          BY <3>2, <5>1
        <5>4. \A j \in Dicts(bs) : x < j /\ j <= i - 1 => C(j) # C(x)
          BY <1>2, <3>4
        <5>5. list[C(x)] = E(x)
          BY <2>7, <5>1, <5>4 DEF HasEntries, C, E
        <5> QED
          BY <2>5, <5>2, <5>3, <5>5
      <4> QED
        BY <4>1, <4>2
    <3> QED
      BY <3>3, <3>4 DEF HasEntries, C, E
  <2> QED
    BY <2>2, <2>6, <2>7
<1> QED
  BY <1>3, <1>4

(* The whole list. *)
LEMMA ListHasEntries ==
  ASSUME NEW n \in Nat, NEW bs, DOMAIN bs = 1..n, NEW garbage
  PROVE  HasEntries(DeviceList(bs, garbage), bs, garbage, n)
<1> DEFINE V == Lists(bs, garbage)
<1>1. EmptyList \in V
  <2> DEFINE T == {EntryOf(bs, garbage, i) : i \in Dicts(bs)}
             C == {ColdOfEntry(bs, garbage, i) : i \in Dicts(bs)}
  <2>1. {} \in SUBSET C /\ EmptyList \in [{} -> T]
    BY DEF EmptyList
  <2>2. V = UNION {[S -> T] : S \in SUBSET C}
    BY DEF Lists
  <2> HIDE DEF V, T, C
  <2> QED
    BY <2>1, <2>2
<1>2. \A v \in V, i \in 1..n : WithDevice(v, bs[i], garbage) \in V
  BY WithDeviceProperties
<1> HIDE DEF V
<1>3. PICK g : Listed(bs, garbage, n, g) /\ DeviceList(bs, garbage) = g[n]
  BY <1>1, <1>2, ListTrace
<1> DEFINE G == {i \in 0..n : g[i] \in V /\ HasEntries(g[i], bs, garbage, i)}
<1>4. 0 \in G
  <2>1. g[0] = EmptyList /\ 0 \in 0..n
    BY <1>3 DEF Listed
  <2>2. \A x \in Dicts(bs) : ~(x <= 0)
    BY DEF Dicts
  <2>3. HasEntries(EmptyList, bs, garbage, 0)
    BY <2>2 DEF HasEntries, EmptyList
  <2> QED
    BY <1>1, <2>1, <2>3
<1>5. ASSUME NEW i \in 1..n, i - 1 \in G
      PROVE  i \in G
  <2>1. g[i - 1] \in V /\ HasEntries(g[i - 1], bs, garbage, i - 1) /\ i \in 0..n
    BY <1>5
  <2>2. g[i] = WithDevice(g[i - 1], bs[i], garbage)
    BY <1>3 DEF Listed
  <2>3. g[i] \in V /\ HasEntries(g[i], bs, garbage, i)
    BY <2>1, <2>2, WithDeviceProperties DEF V
  <2> QED
    BY <2>1, <2>3
<1>6. n \in G
  <2> HIDE DEF G
  <2>1. \A i \in 0..n : i \in G
    BY <1>4, <1>5, AllUpto
  <2> QED
    BY <2>1
<1> QED
  BY <1>3, <1>6

(* readDevice succeeds only on an entry that has every key that is required. *)
LEMMA CompleteDevice ==
  ASSUME NEW dict, DeviceResult(dict) = "true"
  PROVE  StringKeys \cup RequiredNumbers \subseteq DOMAIN dict
<1> DEFINE I == {i \in 1..Len(Keys) : LooksAt(dict, Keys[i]) # "true"}
           stop == IF I # {} THEN Min(I) ELSE 0
<1>1. DeviceResult(dict) = IF stop = 0 THEN "true" ELSE LooksAt(dict, Keys[stop])
  BY DEF DeviceResult, SelectInSeq
<1>2. Len(Keys) = 11
  BY DEF Keys
<1>3. I = {}
  <2> SUFFICES ASSUME I # {} PROVE FALSE
    OBVIOUS
  <2>1. I \subseteq Nat
    BY <1>2
  <2> HIDE DEF I
  <2>2. Min(I) \in I
    BY <2>1, MinIsLeast
  <2>3. Min(I) \in 1..11 /\ LooksAt(dict, Keys[Min(I)]) # "true"
    BY <1>2, <2>2 DEF I
  <2> QED
    BY <1>1, <2>3
<1>4. ASSUME NEW key \in StringKeys \cup RequiredNumbers
      PROVE  key \in DOMAIN dict
  <2>1. \E i \in 1..11 : key = Keys[i]
    BY DEF Keys, StringKeys, RequiredNumbers
  <2>2. LooksAt(dict, key) = "true"
    BY <1>2, <1>3, <2>1
  <2> QED
    BY <2>2 DEF LooksAt
<1> QED
  BY <1>4

(* readConfigFile succeeds only on a file with a device list every entry of which
   it could read, and makes the list of them. *)
LEMMA CompleteFile ==
  ASSUME NEW file \in Configs, NEW garbage \in Garbage,
         ReadConfigFile(file, garbage).result = "true"
  PROVE  /\ HasDevices(file)
         /\ \A i \in DOMAIN DevicesOf(file) :
              DevicesOf(file)[i].type = "dictionary" =>
                DeviceResult(DevicesOf(file)[i].value) = "true"
         /\ ReadConfigFile(file, garbage).deviceList = DeviceList(DevicesOf(file), garbage)
<1>1. /\ HasDevices(file)
      /\ ReadConfigFile(file, garbage) = ReadDevices(DevicesOf(file), garbage)
  <2>1. GivenUp("false").result # "true" /\ GivenUp("crashes").result # "true"
    BY DEF GivenUp
  <2>2. /\ file.type = "dictionary"
        /\ "HexLoader" \in DOMAIN file.value /\ file.value["HexLoader"].type = "string"
        /\ "Devices" \in DOMAIN file.value /\ file.value["Devices"].type = "array"
    BY <2>1, Zenon DEF ReadConfigFile
  <2>3. HasDevices(file)
    BY <2>2 DEF HasDevices
  <2>4. ReadConfigFile(file, garbage) = ReadDevices(DevicesOf(file), garbage)
    BY <2>2 DEF ReadConfigFile, DevicesOf
  <2> QED
    BY <2>3, <2>4
<1>2. PICK n \in Nat : DOMAIN DevicesOf(file) = 1..n
  BY <1>1, ConfigsAssumption DEF ConfigsAssumption
<1> DEFINE stops == {i \in DOMAIN DevicesOf(file) :
                       /\ DevicesOf(file)[i].type = "dictionary"
                       /\ DeviceResult(DevicesOf(file)[i].value) # "true"}
<1>3. ReadDevices(DevicesOf(file), garbage) =
        IF stops = {}
          THEN [result |-> "true", deviceList |-> DeviceList(DevicesOf(file), garbage)]
          ELSE [result |-> DeviceResult(DevicesOf(file)[Min(stops)].value),
                deviceList |-> EmptyList]
  BY DEF ReadDevices
<1>4. stops = {}
  <2> SUFFICES ASSUME stops # {} PROVE FALSE
    OBVIOUS
  <2>1. stops \subseteq Nat
    BY <1>2
  <2>2. Min(stops) \in stops
    <3> HIDE DEF stops
    <3> QED
      BY <2>1, MinIsLeast
  <2>3. DeviceResult(DevicesOf(file)[Min(stops)].value) # "true"
    BY <2>2
  <2> HIDE DEF stops
  <2> QED
    BY <1>1, <1>3, <2>3
<1>5. ReadConfigFile(file, garbage).deviceList = DeviceList(DevicesOf(file), garbage)
  <2> HIDE DEF stops
  <2> QED
    BY <1>1, <1>3, <1>4
<1> QED
  BY <1>1, <1>4, <1>5

(* While the daemon serves, its list is that of a file read to its end. *)
ServedInv ==
  daemon = "serving" =>
    \E garbage \in Garbage :
      /\ ReadConfigFile(configFile, garbage).result = "true"
      /\ deviceList = ReadConfigFile(configFile, garbage).deviceList

LEMMA ServedStep ==
  ASSUME IInv, ServedInv, [Next]_vars
  PROVE  ServedInv'
<1>1. CASE Main
  <2>1. configFile \in Configs /\ configFile' = configFile
    BY <1>1 DEF IInv, KnownInv, Main
  <2>2. PICK garbage \in Garbage, file \in LoaderFiles :
          LET known  == ReadConfigFile(configFile, garbage)
              read   == ReadFirmwareFromHexFile(file)
              result == IF known.result = "true" THEN read.result ELSE known.result
          IN  /\ daemon' = CASE result = "true"                 -> "serving"
                             [] result = "false"                -> "exited"
                             [] result \in {"throws", "crashes"} -> "terminated"
              /\ deviceList' = known.deviceList
    <3>1. \A garbage \in Garbage :
            HardwareConfig[configFile][garbage] = ReadConfigFile(configFile, garbage)
      BY <2>1 DEF HardwareConfig
    <3> QED
      BY <1>1, <3>1 DEF Main
  <2>3. /\ ReadConfigFile(configFile, garbage).result \in {"true", "false", "crashes"}
        /\ ReadFirmwareFromHexFile(file).result \in {"true", "false", "throws"}
    BY ConfigResult, HexFileResult
  <2>4. daemon' = "serving" => ReadConfigFile(configFile, garbage).result = "true"
    BY <2>2, <2>3
  <2>5. deviceList' = ReadConfigFile(configFile, garbage).deviceList
    BY <2>2
  <2> QED
    BY <2>1, <2>4, <2>5 DEF ServedInv
<1>2. CASE ~Main
  <2>1. UNCHANGED <<configFile, deviceList>> /\ daemon' \in {daemon, "terminated"}
    <3>1. CASE UNCHANGED vars
      BY <3>1 DEF vars, config
    <3>2. CASE Requested
      BY <3>2 DEF Requested, NothingToSend, RequestSucceeds, RequestFails, config
    <3>3. ASSUME NEW d \in Devices, Arrived(d)
          PROVE  UNCHANGED <<configFile, deviceList>> /\ daemon' \in {daemon, "terminated"}
      BY <3>3 DEF Arrived, PassOver, FoundInterface, FoundWithoutFirmware, config
    <3>4. ASSUME NEW d \in Devices, Enumerates(d) \/ ((Plug(d) \/ Unplug(d)) /\ UNCHANGED config)
          PROVE  UNCHANGED <<configFile, deviceList>> /\ daemon' = daemon
      BY <3>4 DEF Enumerates, Renumerate, Plug, Unplug, config
    <3> QED
      BY <1>2, <3>1, <3>2, <3>3, <3>4 DEF Next
  <2> QED
    BY <2>1 DEF ServedInv
<1> QED
  BY <1>1, <1>2

(* What the entry of a model that is read as it is meant holds. *)
LEMMA EntryAsTyped ==
  ASSUME NEW dict, NEW garbage, DeviceResult(dict) = "true",
         \A key \in {"ColdBootProductID", "FilePath"} :
           key \in DOMAIN dict => dict[key].type = TypeOfKey(key)
  PROVE  /\ DeviceFirmware(dict, garbage).coldBootProductID = dict["ColdBootProductID"].value
         /\ DeviceFirmware(dict, garbage).firmwareFileName = dict["FilePath"].value
<1>1. "ColdBootProductID" \in DOMAIN dict /\ "FilePath" \in DOMAIN dict
  BY CompleteDevice DEF StringKeys, RequiredNumbers
<1>2. WellTyped(dict, "ColdBootProductID") /\ WellTyped(dict, "FilePath")
  BY <1>1 DEF WellTyped
<1> QED
  BY <1>2 DEF DeviceFirmware

LEMMA ServedIsComplete ==
  ASSUME ReadAsTyped(Configs), configFile \in Configs, ServedInv
  PROVE  ConfigurationComplete
<1> SUFFICES ASSUME daemon = "serving" PROVE ConfigurationComplete
  BY DEF ConfigurationComplete
<1> DEFINE bs == DevicesOf(configFile)
           ColdOf(i) == Entry(i)["ColdBootProductID"].value
<1>1. PICK garbage \in Garbage :
        /\ ReadConfigFile(configFile, garbage).result = "true"
        /\ deviceList = ReadConfigFile(configFile, garbage).deviceList
  BY DEF ServedInv
<1>2. /\ HasDevices(configFile) /\ deviceList = DeviceList(bs, garbage)
      /\ \A i \in Entries : DeviceResult(Entry(i)) = "true"
  BY <1>1, CompleteFile DEF Entries, Entry
<1>3. PICK n \in Nat : DOMAIN bs = 1..n
  BY <1>2, ConfigsAssumption DEF ConfigsAssumption
<1>4. HasEntries(deviceList, bs, garbage, n)
  BY <1>2, <1>3, ListHasEntries
<1>5. Entries = Dicts(bs) /\ \A i \in Entries : i \in 1..n /\ i <= n
  BY <1>3 DEF Entries, Dicts
<1>6. ASSUME NEW i \in Entries
      PROVE  /\ EntryOf(bs, garbage, i).coldBootProductID = ColdOf(i)
             /\ EntryOf(bs, garbage, i).firmwareFileName = Entry(i)["FilePath"].value
             /\ StringKeys \cup RequiredNumbers \subseteq DOMAIN Entry(i)
  <2>1. DeviceResult(Entry(i)) = "true"
    BY <1>2
  <2>2. \A key \in {"ColdBootProductID", "FilePath"} :
          key \in DOMAIN Entry(i) => Entry(i)[key].type = TypeOfKey(key)
    BY <1>2 DEF ReadAsTyped, Entries, Entry
  <2> QED
    BY <2>1, <2>2, CompleteDevice, EntryAsTyped DEF EntryOf, Entry
<1> HIDE DEF bs
<1>7. \A i \in Entries : ColdOfEntry(bs, garbage, i) = ColdOf(i)
  BY <1>6 DEF ColdOfEntry
<1>8. DOMAIN deviceList = {ColdOf(i) : i \in Entries}
  <2>1. DOMAIN deviceList = {ColdOfEntry(bs, garbage, i) : i \in {j \in Entries : j <= n}}
    BY <1>4, <1>5 DEF HasEntries
  <2>2. {j \in Entries : j <= n} = Entries
    BY <1>5
  <2> QED
    BY <1>7, <2>1, <2>2
<1>9. ASSUME NEW i \in Entries, \A j \in Entries : j > i => ColdOf(j) # ColdOf(i)
      PROVE  deviceList[ColdOf(i)].firmwareFileName = Entry(i)["FilePath"].value
  <2>1. \A j \in Entries : i < j /\ j <= n =>
          ColdOfEntry(bs, garbage, j) # ColdOfEntry(bs, garbage, i)
    BY <1>5, <1>7, <1>9
  <2>2. deviceList[ColdOfEntry(bs, garbage, i)] = EntryOf(bs, garbage, i)
    BY <1>4, <1>5, <2>1 DEF HasEntries
  <2> QED
    BY <1>6, <1>7, <2>2
<1> QED
  BY <1>6, <1>8, <1>9 DEF ConfigurationComplete

-----------------------------------------------------------------------------
(* At every moment the chip and the images it holds are where the calls of
   StartDevice made so far have brought them. *)
THEOREM Inductive == Spec => []IInv
BY InitIInv, StepIInv, PTL DEF Spec

(* The variables have their types, and StartDevice leaves nothing behind for the
   next device. *)
THEOREM TypeCorrect == Spec => []TypeOK
<1>1. IInv => TypeOK
  BY DEF IInv
<1> QED
  BY <1>1, Inductive, PTL

(* For files that are read as they are meant the daemon serves every model, none
   else, and each with the firmware of the last entry of its cold boot id. *)
THEOREM ConfigurationServed ==
  ASSUME ReadAsTyped(Configs)
  PROVE  Spec => []ConfigurationComplete
<1>1. Init => ServedInv
  BY DEF Init, ServedInv
<1>2. IInv /\ ServedInv /\ [Next]_vars => ServedInv'
  BY ServedStep
<1>3. IInv /\ ServedInv => ConfigurationComplete
  BY ServedIsComplete DEF IInv, KnownInv
<1> QED
  BY <1>1, <1>2, <1>3, Inductive, PTL DEF Spec

(* "Booted": the device runs the firmware that its model's entry names, whatever
   requests failed on the way and were not looked at. *)
THEOREM Booted == Spec => []BootedRunsApplication
<1>1. IInv => BootedRunsApplication
  BY DEF IInv
<1> QED
  BY <1>1, Inductive, PTL

(* The 8051 is let go only on RAM that holds a whole image, or when there was no
   loader file. *)
THEOREM WholeImages == Spec => StartsWholeImage
<1>1. IInv /\ [Next]_vars =>
        [\A d \in Devices :
           chip[d].cpu = "held" /\ chip'[d].cpu = "running" /\ chip'[d].bus # "absent"
             => chip'[d].program \in Programs \/ loader = <<>>]_vars
  BY StartsWhole
<1> QED
  BY <1>1, Inductive, PTL DEF Spec, StartsWholeImage

(* No request is made to a device that runs an application. *)
THEOREM LeftAlone == Spec => ApplicationLeftAlone
<1>1. IInv /\ [Next]_vars =>
        [\A d \in Devices :
           chip[d].program \in DOMAIN Application /\ chip'[d].bus # "absent"
             => chip'[d].program = chip[d].program /\ chip'[d].ram = chip[d].ram]_vars
  BY LeavesAlone
<1> QED
  BY <1>1, Inductive, PTL DEF Spec, ApplicationLeftAlone

(* Internal RAM is written only while the 8051 is held, or after a failure. *)
THEOREM Held == Spec => HeldWhileLoading
<1>1. IInv /\ [Next]_vars =>
        [\A d \in Devices, a \in Addresses :
           /\ INTERNAL_RAM_ADDRESS(a)
           /\ chip[d].bus = "cold" /\ chip'[d].bus = "cold"
           /\ chip'[d].ram[a] # chip[d].ram[a]
           => chip[d].cpu = "held" \/ faults > 0]_vars
  BY WritesHeld
<1> QED
  BY <1>1, Inductive, PTL DEF Spec, HeldWhileLoading

-----------------------------------------------------------------------------
(* The daemon implements DeviceBoot. *)
Runs(d) == IF outcome[d].started = "true" THEN chip[d].program ELSE "none"

stages == [d \in Devices |-> Stage(d)]
running == [d \in Devices |-> Runs(d)]

(* What the bus shows of a device depends on this much. *)
LEMMA SameStage ==
  ASSUME NEW e \in Devices, chip'[e].bus = chip[e].bus,
         outcome'[e].started = outcome[e].started,
         (attached' /\ current' = e) <=> (attached /\ current = e),
         outcome[e].started = "true" => chip'[e].program = chip[e].program
  PROVE  Stage(e)' = Stage(e) /\ Runs(e)' = Runs(e)
BY DEF Stage, Runs

LEMMA AllSame ==
  ASSUME \A e \in Devices : Stage(e)' = Stage(e) /\ Runs(e)' = Runs(e)
  PROVE  UNCHANGED Boot!bootVars
<1>1. stages' = stages /\ running' = running
  BY DEF stages, running
<1> QED
  BY <1>1 DEF Boot!bootVars, stages, running, Runs

(* One device moves, and the others are shown as before. *)
LEMMA OneMoves ==
  ASSUME NEW d \in Devices, NEW from, NEW to, Stage(d) \in from, Stage(d)' = to,
         \A e \in Devices : e # d => Stage(e)' = Stage(e) /\ Runs(e)' = Runs(e)
  PROVE  /\ Boot!Moves(d, from, to)
         /\ running' = [running EXCEPT ![d] = Runs(d)']
<1>1. stages' = [stages EXCEPT ![d] = to] /\ stages[d] \in from
  BY DEF stages
<1>2. running' = [running EXCEPT ![d] = Runs(d)']
  BY DEF running
<1>3. Boot!Moves(d, from, to)
  BY <1>1 DEF Boot!Moves, stages
<1> QED
  BY <1>2, <1>3

LEMMA SameRuns ==
  ASSUME NEW d \in Devices, running' = [running EXCEPT ![d] = Runs(d)'],
         Runs(d)' = Runs(d)
  PROVE  running' = running
BY DEF running

LEMMA InitRefines == Init => Boot!Init
<1> SUFFICES ASSUME Init PROVE Boot!Init
  OBVIOUS
<1>1. \A d \in Devices : Stage(d) = "absent" /\ Runs(d) = "none"
  BY DEF Init, Stage, Runs, Unplugged, NoOutcome
<1> QED
  BY <1>1 DEF Boot!Init, Boot!Nothing, Runs

LEMMA LoadRefines ==
  ASSUME IInv, NEW d \in Devices, FoundInterface(d), UNCHANGED config
  PROVE  Boot!Load(d) \/ UNCHANGED Boot!bootVars
<1> DEFINE name == deviceList[ColdId[d]].firmwareFileName
<1>1. /\ d \in arrivals /\ current = NoDevice /\ chip[d].bus = "cold" /\ chip' = chip
      /\ \/ /\ current' = d /\ attached' = TRUE
            /\ outcome' = [outcome EXCEPT ![d].image = firmware']
         \/ /\ outcome' = [outcome EXCEPT ![d].returned = "false"]
            /\ UNCHANGED <<current, attached>>
         \/ UNCHANGED <<outcome, current, attached>>
  BY FoundInterfaceCases
<1>2. ~attached /\ outcome[d].started = "none" /\ outcome \in [Devices -> Outcomes]
  BY <1>1, Idle DEF IInv, DeviceInv, TypeOK, Outcomes
<1>3. \A e \in Devices : outcome'[e].started = outcome[e].started
  BY <1>1, <1>2 DEF Outcomes
<1>4. \A e \in Devices : Runs(e)' = Runs(e)
  BY <1>1, <1>3 DEF Runs
<1>5. CASE current' = d /\ attached' = TRUE
  <2>1. \A e \in Devices : e # d => Stage(e)' = Stage(e)
    BY <1>1, <1>2, <1>3, <1>5 DEF Stage
  <2>2. \A e \in Devices : Stage(e) # "loading"
    <3> SUFFICES ASSUME NEW e \in Devices, Stage(e) = "loading" PROVE FALSE
      OBVIOUS
    <3>1. chip[e].bus \in {"absent", "cold", "warm"}
      BY DEF IInv, TypeOK, Chips
    <3> QED
      BY <1>2, <3>1 DEF Stage
  <2>3. Stage(d) = "cold" /\ Stage(d)' = "loading"
    BY <1>1, <1>2, <1>5 DEF Stage
  <2>4. Boot!Moves(d, {"cold"}, "loading") /\ running' = running
    BY <1>4, <2>1, <2>3, OneMoves, SameRuns
  <2> QED
    BY <2>2, <2>4 DEF Boot!Load, stages, running, Runs
<1>6. CASE UNCHANGED <<current, attached>>
  BY <1>1, <1>3, <1>4, <1>6, AllSame DEF Stage
<1> QED
  BY <1>1, <1>5, <1>6

LEMMA ContinueRefines ==
  ASSUME IInv, current # NoDevice, Touched, Continues
  PROVE  UNCHANGED Boot!bootVars
<1>1. \A e \in Devices : Stage(e)' = Stage(e) /\ Runs(e)' = Runs(e)
  <2> SUFFICES ASSUME NEW e \in Devices
               PROVE  Stage(e)' = Stage(e) /\ Runs(e)' = Runs(e)
    OBVIOUS
  <2>1. chip'[e].bus = chip[e].bus
    BY DEF Touched, IInv, LoadingInv
  <2>2. outcome[e].started = "true" => chip'[e] = chip[e]
    BY DEF Touched, IInv, LoadingInv
  <2> QED
    BY <2>1, <2>2, SameStage DEF Continues
<1> QED
  BY <1>1, AllSame

LEMMA ReturnRefines ==
  ASSUME IInv, current # NoDevice, Touched, NEW started \in {"true", "false"},
         Return(started),
         attached /\ started = "true" => chip'[current].program = Target
  PROVE  Boot!Next \/ UNCHANGED Boot!bootVars
<1>1. attached' = FALSE /\ outcome \in [Devices -> Outcomes] /\ current \in Devices
  BY DuringStartDevice DEF Return, IInv, TypeOK, Outcomes
<1>2. CASE ~attached
  <2>1. chip' = chip /\ outcome' = outcome
    BY <1>2 DEF Touched, Return
  <2> QED
    BY <1>1, <1>2, <2>1, SameStage, AllSame
<1>3. CASE attached
  <2>1. PICK d \in Devices : d = current
    BY <1>1
  <2> DEFINE ended == [started |-> started, returned |-> "true", image |-> outcome[d].image]
  <2>2. /\ chip[d].bus = "cold" /\ chip'[d].bus = "cold"
        /\ outcome[d].started = "none" /\ outcome' = [outcome EXCEPT ![d] = ended]
    BY <1>3, <2>1 DEF Touched, Return, IInv, LoadingInv
  <2>3. outcome'[d].started = started
    BY <1>1, <2>1, <2>2
  <2>4. \A e \in Devices : e # d => Stage(e)' = Stage(e) /\ Runs(e)' = Runs(e)
    <3> SUFFICES ASSUME NEW e \in Devices, e # d
                 PROVE  Stage(e)' = Stage(e) /\ Runs(e)' = Runs(e)
      OBVIOUS
    <3>1. chip'[e] = chip[e] /\ outcome'[e] = outcome[e]
      BY <1>1, <2>1, <2>2 DEF Touched
    <3> QED
      BY <1>1, <2>1, <3>1, SameStage
  <2>5. /\ Stage(d) = "loading" /\ Runs(d) = "none"
        /\ Stage(d)' = IF started = "true" THEN "booted" ELSE "failed"
    BY <1>1, <1>3, <2>1, <2>2, <2>3 DEF Stage, Runs
  <2>6. Runs(d)' = IF started = "true" THEN Target ELSE "none"
    BY <1>3, <2>1, <2>3 DEF Runs
  <2>7. Target \in Programs \cup {"unknown"}
    BY <1>3 DEF Target, Programs, IInv, LoadingInv
  <2> DEFINE to == IF started = "true" THEN "booted" ELSE "failed"
  <2>8. Boot!Moves(d, {"loading"}, to) /\ running' = [running EXCEPT ![d] = Runs(d)']
    BY <1>1, <2>4, <2>5, OneMoves
  <2>9. CASE started = "true"
    <3>1. Boot!Boot(d)
      BY <2>6, <2>7, <2>8, <2>9 DEF Boot!Boot, running, Runs
    <3> QED
      BY <1>1, <3>1 DEF Boot!Next
  <2>10. CASE started = "false"
    <3>1. running' = running
      BY <1>1, <2>5, <2>6, <2>8, <2>10, SameRuns
    <3>2. Boot!GiveUp(d)
      BY <2>8, <2>10, <3>1 DEF Boot!GiveUp, running, Runs
    <3> QED
      BY <1>1, <3>2 DEF Boot!Next
  <2> QED
    BY <2>9, <2>10
<1> QED
  BY <1>2, <1>3

LEMMA PlugRefines ==
  ASSUME IInv, NEW d \in Devices, Plug(d)
  PROVE  Boot!Plug(d)
<1> DEFINE c2 == [Unplugged EXCEPT !.bus = "cold", !.program = "core"]
<1>1. /\ chip[d].bus = "absent" /\ chip' = [chip EXCEPT ![d] = c2]
      /\ outcome' = [outcome EXCEPT ![d] = NoOutcome]
      /\ current' = current /\ attached' = attached
  BY DEF Plug, progress
<1>2. c2.bus = "cold" /\ NoOutcome.started = "none"
  BY DEF Unplugged, NoOutcome
<1> HIDE DEF c2
<1>3. /\ chip'[d] = c2 /\ outcome'[d] = NoOutcome /\ outcome[d] = NoOutcome
      /\ ~(attached /\ current = d)
      /\ \A e \in Devices : e # d => chip'[e] = chip[e] /\ outcome'[e] = outcome[e]
  BY <1>1 DEF IInv, TypeOK, DeviceInv, LoadingInv
<1>4. /\ Stage(d) = "absent" /\ Stage(d)' = "cold" /\ Runs(d)' = Runs(d)
  BY <1>1, <1>2, <1>3 DEF Stage, Runs
<1>5. \A e \in Devices : e # d => Stage(e)' = Stage(e) /\ Runs(e)' = Runs(e)
  BY <1>1, <1>3, SameStage
<1>6. Boot!Moves(d, {"absent"}, "cold") /\ running' = running
  BY <1>4, <1>5, OneMoves, SameRuns
<1> QED
  BY <1>6 DEF Boot!Plug, running, Runs

LEMMA UnplugRefines ==
  ASSUME IInv, NEW d \in Devices, Unplug(d)
  PROVE  Boot!Unplug(d)
<1>1. /\ chip[d].bus # "absent" /\ chip' = [chip EXCEPT ![d] = Unplugged]
      /\ outcome' = [outcome EXCEPT ![d] = NoOutcome]
      /\ current' = current /\ attached' = (attached /\ current # d)
  BY DEF Unplug
<1>2. Unplugged.bus = "absent" /\ NoOutcome.started = "none"
  BY DEF Unplugged, NoOutcome
<1>3. /\ chip'[d] = Unplugged /\ outcome'[d] = NoOutcome
      /\ chip[d].bus \in {"cold", "warm"}
      /\ \A e \in Devices : e # d => chip'[e] = chip[e] /\ outcome'[e] = outcome[e]
  BY <1>1 DEF IInv, TypeOK, Chips
<1>4. /\ Stage(d) \in {"cold", "loading", "failed", "booted", "warm"}
      /\ Stage(d)' = "absent" /\ Runs(d)' = "none"
  BY <1>2, <1>3 DEF Stage, Runs
<1>5. \A e \in Devices : e # d => Stage(e)' = Stage(e) /\ Runs(e)' = Runs(e)
  BY <1>1, <1>3, SameStage
<1>6. /\ Boot!Moves(d, {"cold", "loading", "failed", "booted", "warm"}, "absent")
      /\ running' = [running EXCEPT ![d] = "none"]
  BY <1>4, <1>5, OneMoves
<1> QED
  BY <1>6 DEF Boot!Unplug, Boot!Nothing, running, Runs

LEMMA RenumerateRefines ==
  ASSUME IInv, NEW d \in Devices, Renumerate(d)
  PROVE  Boot!Renumerate(d)
<1>1. /\ chip[d].bus = "cold" /\ chip[d].program \in DOMAIN Application
      /\ chip' = [chip EXCEPT ![d].bus = "warm"] /\ outcome' = outcome
      /\ current' = current /\ attached' = (attached /\ current # d)
  BY DEF Renumerate
<1>2. chip[d].program \notin {"none", "core", "loader", "unknown"}
  BY <1>1, ImagesAssumption DEF ImagesAssumption
<1>3. /\ outcome[d].started = "true" /\ ~(attached /\ current = d)
      /\ chip'[d].bus = "warm" /\ chip'[d].program = chip[d].program
      /\ \A e \in Devices : e # d => chip'[e] = chip[e]
  BY <1>1, <1>2 DEF IInv, TypeOK, Chips, DeviceInv, LoadingInv
<1>4. /\ Stage(d) = "booted" /\ Stage(d)' = "warm"
      /\ Runs(d) = chip[d].program /\ Runs(d)' = Runs(d)
  BY <1>1, <1>3 DEF Stage, Runs
<1>5. \A e \in Devices : e # d => Stage(e)' = Stage(e) /\ Runs(e)' = Runs(e)
  BY <1>1, <1>3, SameStage
<1>6. Boot!Moves(d, {"booted"}, "warm") /\ running' = running
  BY <1>4, <1>5, OneMoves, SameRuns
<1>7. running[d] \in DOMAIN Application
  BY <1>1, <1>4 DEF running
<1> QED
  BY <1>6, <1>7 DEF Boot!Renumerate, running, Runs

(* Every step of the daemon is one that DeviceBoot allows, or none. *)
LEMMA StepRefines == IInv /\ [Next]_vars => [Boot!Next]_(Boot!bootVars)
<1> SUFFICES ASSUME IInv, [Next]_vars
             PROVE  Boot!Next \/ UNCHANGED Boot!bootVars
  OBVIOUS
<1>1. ASSUME UNCHANGED <<current, attached, chip, outcome>>
      PROVE  UNCHANGED Boot!bootVars
  BY <1>1, SameStage, AllSame
<1>2. CASE Main \/ UNCHANGED vars
  BY <1>1, <1>2 DEF Main, vars, progress
<1>3. CASE Requested
  <2>1. CASE NothingToSend
    BY <1>3, <2>1, NothingSent, ContinueRefines DEF Requested
  <2>2. CASE RequestSucceeds /\ Call.does = "load"
    BY <1>3, <2>2, RecordSent, ContinueRefines DEF Requested
  <2>3. CASE RequestSucceeds /\ Call.does = "reset"
    <3>1. /\ current # NoDevice /\ attached /\ Touched
          /\ \/ Continues
             \/ Return("true") /\ chip'[current].program = Target
      BY <1>3, <2>3, ResetSent DEF Requested
    <3> QED
      BY <3>1, ContinueRefines, ReturnRefines
  <2>4. CASE RequestFails
    <3>1. /\ current # NoDevice /\ Touched
          /\ Continues \/ Return("false")
      BY <1>3, <2>4, RequestFailed DEF Requested
    <3> QED
      BY <3>1, ContinueRefines, ReturnRefines
  <2>5. RequestSucceeds => Call.does \in {"load", "reset"}
    BY DuringStartDevice, CallIs DEF RequestSucceeds
  <2> QED
    BY <1>3, <2>1, <2>2, <2>3, <2>4, <2>5 DEF Requested
<1>4. ASSUME NEW d \in Devices, Arrived(d)
      PROVE  Boot!Next \/ UNCHANGED Boot!bootVars
  <2>1. CASE PassOver(d)
    BY <1>1, <2>1 DEF PassOver, progress
  <2>2. CASE FoundWithoutFirmware(d)
    <3>1. /\ outcome' = [outcome EXCEPT ![d].returned = "true"]
          /\ UNCHANGED <<current, attached, chip>>
      BY <2>2 DEF FoundWithoutFirmware, progress
    <3>2. outcome \in [Devices -> Outcomes]
      BY DEF IInv, TypeOK, Outcomes
    <3>3. \A e \in Devices : outcome'[e].started = outcome[e].started
      BY <3>1, <3>2 DEF Outcomes
    <3> QED
      BY <3>1, <3>3, SameStage, AllSame
  <2>3. CASE FoundInterface(d)
    BY <1>4, <2>3, LoadRefines DEF Arrived, Boot!Next
  <2> QED
    BY <1>4, <2>1, <2>2, <2>3 DEF Arrived
<1>5. ASSUME NEW d \in Devices, Enumerates(d)
      PROVE  Boot!Next
  BY <1>5, RenumerateRefines DEF Enumerates, Boot!Next
<1>6. ASSUME NEW d \in Devices, Plug(d) \/ Unplug(d)
      PROVE  Boot!Next
  BY <1>6, PlugRefines, UnplugRefines DEF Boot!Next
<1> QED
  BY <1>2, <1>3, <1>4, <1>5, <1>6 DEF Next

(* The daemon loads one device at a time, each once in its life on the bus, and
   never one that is warm or already runs. *)
THEOREM Refinement == Spec => ImplementsDeviceBoot
BY InitRefines, StepRefines, Inductive, PTL DEF Spec, ImplementsDeviceBoot, Boot!Spec
=============================================================================
