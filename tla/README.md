# Verification of the MIDISPORT driver

TLA+ models of the macOS driver for Midiman/M-Audio MIDISPORT interfaces
(`src/MIDISPORT`, a CoreMIDI driver plug-in) and of the daemon that boots the
devices (`src/MIDISPORTFirmwareDownloader`), checked with TLC, and theorems
about them proved with TLAPS.

## The system

A MIDISPORT is an EZ-USB chip that comes up "cold", with no firmware. The
downloader daemon finds it, loads a small loader and then the application
firmware, and starts it; the device leaves the bus and comes back "warm", with
another product id. The driver, a plug-in of the MIDI server, matches the warm
id, makes or finds the MIDI device in the user's MIDI setup, and moves MIDI
bytes between CoreMIDI and the device's USB pipes in *mspackets*: four bytes,
up to three MIDI bytes and one that tells their number and their port.

| component | state | operations | shared with, called by |
|---|---|---|---|
| `Mutex` (USBMIDIDriverBase) | `mMutex`, `mOwner` | `Lock`, `Unlock`, nested by callers | every thread: clients in `Send`, the I/O run loop, the run loop of `Start` |
| `InterfaceState`, write path | `mWriteQueue`, `mWritePending`, `mWriteBuf1/2` | `Send`, `DoWrite`, `WriteCallback` | clients' threads and the I/O run loop, under `mWriteQueueMutex`; the USB stack reads the buffers |
| `MIDISPORT::PrepareOutput` | the front of the queue (`bytesSent`), the two buffers | one call per write | called by `DoWrite` with the mutex held |
| `InterfaceState`, read path; `MIDISPORT::HandleInput` | `mReadBuf`; per-port parse state, *static* | `DoRead`, `ReadCallback`, `HandleInput` | I/O run loop; one parse state for all devices |
| `InterfaceRunner`, `USBDeviceManager` | two notification iterators, `mInterfaceStateList`, the MIDI setup, `connectedMIDISPORT` | `Start`, `Stop`, `DevicesAdded`, `DevicesRemoved` | run loop of `Start`; I/O Kit changes the iterators at any time; `connectedMIDISPORT` is read by `PrepareOutput` |
| `DevicesAdded`, the constructor and the destructor of `InterfaceState` | references to I/O objects and COM interfaces, which of them are open, the event source in the I/O run loop, the endpoints' refCons | one drain of the iterator, `FoundInterface`, `delete` | run loop of `Start`, while callbacks run on the I/O run loop and clients call `Send` |
| `EZUSBLoader` and `main` | the loader image, the place in `StartDevice`, the chip | `StartDevice` with its requests, the found-device callback | the daemon's run loop; the chip's RAM and reset line |
| `IntelHexFile` | none | `ReadFirmwareFromHexFile` | `main`, the callback |
| `HardwareConfiguration` | the device list | `readConfigFile`, look-up by warm and cold boot id | the constructor of `MIDISPORT`, `MatchDevice`; `main`, `EZUSBLoader` |
| `MIDIDriver` (COM glue), USB-MIDI class utilities, debugging aids, installer scripts | | | not modelled |

What is hard about it: `Lock` tests the owner outside the mutex; one
`mWritePending` flag serves two pipes and is handed from the senders to the
callback and back; a packet straddles buffers and a message straddles packets
and reads; a buffer is read by the device while the code runs on; the firmware
image overwrites the program that is loading it; every USB request may fail and
a device may go away between any two of them; arrivals and removals come
through two independent iterators that announce only what enters them after
they were drained; an `InterfaceState` is made and deleted on one run loop
while another calls into it, with nothing but the order of the steps between
them; and every call on a device may fail, each with its own label to leave by.
`PROJECT.json` lists these hazards line by line.

What makes each part correct:

* `Mutex`: mutual exclusion, nesting, no thread waiting for itself;
* write path: per endpoint, words arrive once, in order and without a gap, and
  all of them while nothing fails; no lost wake-up; no buffer refilled under a
  write; no buffer overrun;
* `PrepareOutput`: what comes out of a port is what was sent to it, whatever
  the boundaries; it returns;
* `HandleInput`: whole messages, all bytes, in order, to their own source,
  complete ones at once; no array overrun, whatever the bytes;
* driver and bus: one `InterfaceState` per device on the bus; an online MIDI
  device is served; a known device is recognised;
* lifetime: a callback enters a living `InterfaceState`, one read is chained at
  a time, and one write on an `InterfaceState` that writes to one OUT pipe, no
  chain ends while nothing fails, every handle is released once and closed;
* configuration: the list of devices is that of the file, whole, or nothing;
* downloader: a device runs a whole image or nothing, a running application is
  left alone, every device boots if nothing fails.

## Modules

In the order in which they depend on each other; the modules `MC*` hold the
values of constants for TLC and nothing else.

**`RecursiveLock`** is the abstract lock: a holder and a nesting depth.
**`Mutex`** has a step for every access to shared state in `Mutex::Lock` and
`Unlock`: the test of `mOwner` before the mutex is taken (`LockTest`), the
`pthread_mutex_lock` (`LockAcquire`), the assignment of `mOwner` (`LockOwn`),
the test and reset in `Unlock` (`LeaveSection`), and the
`pthread_mutex_unlock` (`UnlockRelease`). `guards[t]` are the open sections of
thread t with the result each one's `Lock` had, because callers unlock only
what returned true. **`MutexProofs`** has the theorems.

**`OutputPipe`** is the abstract output: per endpoint, a FIFO of numbered
words. **`WritePath`** is the code. A *word* stands for an mspacket; the words
of an endpoint are numbered as `Send` accepts them, and a queue element keeps
the interval of numbers that is still to be sent, which is what `bytesSent`
tells. Every thread has a program counter through `Send` (`SendCall`,
`SendPacket`, `SendKick`), `DoWrite`, `PrepareOutput` (`PrepareWord` per round,
`PrepareEmpty`), the two `WritePipeAsync` calls (`WritePipe1`, `WritePipe2`)
and `Unlock`; the I/O thread also through `WriteCallback` and
`CallbackLocked`. The device (external) takes a word at a time out of the
buffer (`TransferWord`), so that a buffer refilled too early is seen in
`received`, and then completes or fails. The lock is taken in one step here:
that is what `Mutex` shows of it. **`WritePathProofs`** has the theorems.

**`MIDIMessages`** classifies status bytes as `MIDIDataBytes` does.
**`OutputEncoder`** is `PrepareOutput` again, on bytes: how much of a packet an
mspacket takes (`Taken`), the two destination buffers, `Round` for one turn of
the inner loop, `QueueEmpty` with its null mspackets, and the device that
decodes them. It has no threads, for which `WritePath` stands.
**`OutputEncoderProofs`** has the theorems.

**`InputParser`** is `DoRead`, `ReadCallback` and `HandleInput`, a byte a step,
with the static parse state per port (`parse`) and the state that is local to a
call (`preserved`, `inSysex`, `prevInputPort`). Players on the ports choose the
bytes; what breaks into what is set by `Intrusions`.
**`InputParserProofs`** has the theorems.

**`HardwareConfiguration`** is the class of that name, used by both programs. A
property list is a tagged value; `LooksAt` says what a key ends in when it is
missing, of another type or does not fit, `DeviceResult` takes the keys in the
code's order, and `ReadConfigFile` is `readConfigFile`, whose result is a
returned `true` or `false` or a crash. What nothing assigns is `garbage`.

**`IntelHexFile`** and **`FirmwareDownload`**: the reader of hex files, by the
kind of line that ends it, and `main`, the found-device callback and
`StartDevice`. `main` reads a configuration of `Configs`, which fixes the
device list and the firmware file of each model. `StartDevice` is the sequence
of calls the code makes, a reset or a loop over the records of an image for one
kind of RAM, each with a note whether its result is looked at; `call` and
`record` tell where the daemon is in it. `NothingToSend` passes a record for the
other RAM, `RequestSucceeds` and `RequestFails` send what there is to send. The
chip (external) has a reset line, RAM, and the program that runs: writing
internal RAM under a running program leaves it running something unknown, and
external RAM is written by the loader, if it runs. **`DeviceBoot`** is what all
of this comes to on the bus: of each device whether it is absent, cold, being
loaded, given up, booted or back warm, and what it runs; one is loaded at a
time, and none twice before it was unplugged. **`FirmwareDownloadProofs`** has
the theorems.

**`DeviceSetup`** is `InterfaceRunner` with the notifications of
`USBDeviceManager`. An iterator holds objects (`adds`, `removes`), is `armed`
when it was drained, and sends one message (`port`) at the next object. The run
loop's `pc` tells which drain it is in; `DeviceAdded` is matching,
`FoundInterface` with both passes over the setup, and the constructor of
`InterfaceState`, each of which may fail; `DeviceRemoved` is its reverse.
Services are numbered as they are plugged in, so that a replugged unit is a new
service. The plug-in is constructed first (`NewMIDISPORTDriver`), with a
configuration that may not be readable.

**`DeviceHandles`** is `DevicesAdded` call by call, with its labels: `refs`
counts the references to each I/O object and COM interface, `open` holds the
handles that are open, and every call on a device succeeds, or fails because
the device is gone or at the price of a fault. **`InterfaceLife`** extends it
with what keeps those handles: `FoundInterface`, the constructor of
`InterfaceState` up to the first read (`FindPipes`, `AddSource`, `SetPending`,
`FirstRead`), `DeviceRemoved`, `Stop` and the destructor (`AbortPipes`,
`RemoveSource`, `Delete`) on the run loop of `Start`; `ReadCallback` and
`WriteCallback` on the I/O run loop; and `Send` on the clients' threads, which
takes the `InterfaceState` from the endpoint's refCon first and works in it
later. It has what `WritePath`, `InputParser` and `DeviceSetup` share, and
leaves to each of them what is in it: a transfer has no content, the queue is a
number, and the lock, which covers `SendLocked` and `WriteCallback` whole, makes
each of these one step. The number counts *parts*, of which a packet has one for
each buffer that it fills. `FindPipes` finds all pipes of the interface or, when
a call fails, some or none of them (line 228 goes on with the next pipe), and
`DoRead` and `DoWrite` look at those found as the code does. `DoWrite` takes
parts off the queue and starts up to one write on each OUT pipe (`StartWrites`),
each of which may be refused and each of which has a `WriteCallback` of its own;
a write to a pipe that was not found, whose index nothing assigned, is refused or
goes to another pipe. `written` is a history of the OUT pipes an `InterfaceState`
wrote to, `early` of those that `Send` came to before the constructor was done. A thread whose `InterfaceState` is freed under it has
no step left in the model: what it would do is undefined.
**`DeviceSetupProofs`** and **`InterfaceLifeProofs`** have the theorems.

**`SequenceLemmas`** has the facts about sequences that several of the proofs
cite: what `Append`, `Tail`, `RemoveAt` and `FlattenSeq` make of a sequence, and
what a fold from left to right does, step by step.

Threads and the lock (`Mutex`) are below `WritePath`, which is below
`OutputEncoder` in detail of control and above it in detail of data;
`InterfaceLife` composes `DeviceHandles` with what is left of `WritePath`,
`InputParser` and `DeviceSetup` when only their transfers and lifetimes count.

## What the runs check

| run | instance | shows |
|---|---|---|
| `mutex` | 4 threads, sections nested 3 deep | exclusion, no self-deadlock, `RecursiveLock` implemented; no deadlock |
| `write_one` | 2 senders, 1 endpoint, buffers of 3 words, 2 faults, fairness | the inductive invariant; no stranded packet, no lost wake-up; order, no gap, no duplicate; buffers not reused; `OutputPipe` implemented, and its fairness while no write fails: all that is accepted is delivered |
| `write_two` | 1 sender, 2 endpoints, buffers of 2 words, fairness | every word gets to the buffers once and in order |
| `output` | 3 packets to any of 3 ports, buffers of 2 mspackets | round trip of all bytes; all is played |
| `output_short` | a sysex start of 2 bytes | **violation**: `PrepareOutput` does not return |
| `input` | 2 ports interleaved, up to 5 bytes each, a failing read | whole messages, nothing lost or withheld, to their own source; no reading into a buffer that is being parsed; no overrun |
| `input_real_time` | a clock in a note | **violation**: the interrupted message is lost |
| `setup` | 2 models, own locations, 4 configurations, 4 plugs, 2 starts, 1 fault | interfaces follow the bus, notifications are not lost, online devices are served, served devices are online, known devices are recognised |
| `setup_twice` | 2 units of one model | **violation**: the second is added to the setup again |
| `setup_sizes` | 2 models at once | **violation**: buffer size of the other model |
| `firmware` | 3 devices, 3 faults, 3 plugs, 11 configurations, damaged and missing files, fairness | the list is the file's or the daemon does not serve, only whole images are started, booted devices run the application, running applications are left alone, RAM is loaded with the 8051 held, `DeviceBoot` implemented, every device boots |
| `lifetime` | 1 unit with 2 OUT pipes, plugged in twice and unplugged once, 2 interfaces, 1 client, 1 send of up to 2 buffers, 1 fault, fairness of the run loop | callbacks enter living InterfaceStates, the run loop has a service exactly while it adds one; one read at a time, one write at a time where one OUT pipe was written to, and none missing; handles balanced, what is gone gets closed |

The violations are findings in `PROJECT.json`, each with the line that promises
otherwise.

### Divergences stated in the properties' exceptions, or seen in the models

* `ServedIsOnline` excepts units that were plugged in before: when a drain of
  the add iterator returns a replugged unit before the removal of its old
  service is drained, `DeviceRemoved` (USBMIDIDriverBase.cpp:679) marks the
  shared MIDI device offline although it is served.
* `HeldWhileLoading` excepts downloads in which a request failed:
  `DownloadFirmware` drops the result of `Reset8051` (EZLoader.cpp:184). It thus
  excepts just the failure of that reset, after which a running loader is
  overwritten; of that failure `BootedRunsApplication` speaks.
* `EveryDeviceBoots` excepts files that cannot be read, among them a line that
  is cut off, for which `substr` or `stoi` throws and ends the daemon
  (IntelHexFile.cpp:34), where the comment on line 10 promises `false`.
* With two OUT endpoints the first completion clears the one `mWritePending` and
  calls `DoWrite` (USBMIDIDriverBase.cpp:463) while the other endpoint's write
  may be outstanding, whose buffer is then refilled; line 414 asks for
  `mWritePending` to be false, which it is, but no longer says what it should.
  `BufferNotReused` and `DoWriteOnlyWhenIdle` (theorem `IdleWhenCalled`) hold
  with one OUT endpoint.
* For the same reason `OneChain` says of writes that there is one at a time only
  of an `InterfaceState` that wrote to one OUT pipe: each of two writes has a
  `WriteCallback`, and each callback may start writes on both pipes.
* `NoStrandedPackets` and the other properties of `WritePath` are those of an
  interface with an OUT pipe: `WritePath` leaves out the guard on line 417. On
  one that has only its IN pipe (line 256 asks for any) `DoWrite` does nothing,
  and packets stay in the queue without the flag. `InterfaceLife` has the guard.
* `EntersLive` excepts `Send`: the endpoints keep the refCon of a deleted
  `InterfaceState` (nothing resets what USBMIDIDriverBase.cpp:274 set), so that
  a client that sends to an offline device, during `Stop`, or to a device whose
  second `InterfaceState` was not constructed to its end, gets a pointer to
  freed memory. Nor does anything keep the destructor from freeing the memory
  a callback or `Send` is working in.
* `OneChain` excepts InterfaceStates whose refCon was used before line 298 set
  `mWritePending`: the constructor publishes itself first (line 274), `Send`
  sees an unassigned flag, and the write it starts is forgotten, or it starts
  none and leaves its packet in the queue until the next one.
* `ReferencesBalanced` excepts what `DevicesAdded` gets wrong: the `break` on
  USBUtils.cpp:321 skips the release of the interface object and, when it is
  not kept, of the interface; `interfaceIntf` is not reset, so that an interface
  without a plug-in releases the one before it again (line 325).
* `ConfigurationComplete` holds because a missing number crashes: line 48 of
  HardwareConfiguration.cpp promises `true` or `false` for missing parameters,
  and `CFGetTypeID` is called with NULL (line 81). A mistyped value is passed
  over in silence, and leaves its field unassigned.
* The constructor of `MIDISPORT` throws through the plug-in factory when its
  configuration cannot be read (MIDISPORTUSBDriver.cpp:114).
* A firmware file that cannot be opened is read "successfully" without a record
  (IntelHexFile.cpp:14): `StartDevice` then boots the loader alone, and when it
  is the loader's file that is missing, the 8051 is let go on blank RAM
  (EZLoader.cpp:213), which `StartsWholeImage` and `BootedRunsApplication` except.
* A firmware file that is cut off between two lines is read "successfully" as
  well (IntelHexFile.cpp:17-62), and its part of the image would be started. The
  missing End record (Type 1), at which EZLoader.cpp:133 stops, would tell it,
  but nothing asks for that record. No run has such a file: `ImagesAssumption`
  excludes it, and `StartsWholeImage` and `BootedRunsApplication` say nothing of it.
* `downloadFirmwareToDevice` returns true when `StartDevice` returned false
  (MIDISPORTDownloader.cpp:57). Nothing reads the result.
* The parse state of `HandleInput` is static (MIDISPORTUSBDriver.cpp:239): two
  devices would mix their messages. The runs have one device.
* An undefined status byte counts as a message of one byte
  (USBMIDIDriverBase.cpp:136, "we should ignore illegals") and is passed on.
* `PrepareOutput` does not keep to two mspackets per port and transfer
  (MIDISPORTUSBDriver.cpp:354), which its own comment leaves open.

### Bounds

They are constants and named in each module. A write buffer has 8 or 16 words
in the devices; 2 and 3 are the smallest sizes in which a packet straddles a
buffer, a null word just fits and does not fit, and one endpoint's buffer fills
before the other's. Six accepted words fill a buffer of three twice, so that
senders, callback and a third write overlap. Two senders are enough for the
lock: the code distinguishes the holder and the others. Two faults give a
refused write and a failed one. Three packets of up to six bytes straddle two
and three transfers. Five bytes of input hold a sysex of two chunks or two
messages with running status and a clock between them, and a buffer may end
after any byte. Four plugs are two for each of two units, which a replug needs;
two starts let the setup survive a stop. Three faults in a download of nine
requests let both an unchecked and a checked request fail; three devices are
one booting, one waiting and one without firmware. Two interfaces of which the
second is used let the first be released and released again. Two services of a
unit are an old and a new `InterfaceState` on the same endpoints, which is what
a stale refCon needs; one fault ends a constructor at any of its calls. One
unplugging (`MaxUnplugs`) comes at any of them, too, and leaves the old service
for the new one to meet, which from then on only Stop deletes. One
packet of two parts (`MaxSends`, `MaxParts`) starts a write on each of two OUT
pipes, or one and leaves a part for its callback. That a `Send` comes while
the write of an earlier one is pending is not in this instance, but in both runs
of `WritePath`, lock and all; `OneChainHolds` is about any number of sends, OUT
pipes and unpluggings. No counter of the code is cut off by these bounds: they limit the environment (plugs, sends,
unpluggings, faults) only.

### Fairness

`WritePath`: a thread that is inside `Send` or `WriteCallback` goes on (weak
fairness: nothing in there blocks), the run loop hands over completions, the
device goes on reading. `CallbackLocked` has strong fairness: other threads may
take the mutex again and again, and the I/O thread, waiting in
`pthread_mutex_lock`, is assumed not to lose it for ever. Nothing makes a
client send, and nothing makes a write fail. `OutputEncoder`: the loop of
`PrepareOutput` runs on, writes complete. `FirmwareDownload`: the daemon's only
thread runs on and every request succeeds or fails; a started application
re-enumerates. `InterfaceLife`: the run loop of `Start` goes on when it
has something to do, which drains its iterators and runs destructors to their
end; nothing is assumed of clients, the I/O thread or the device. `DeviceSetup`, `Mutex` and `InputParser` are checked for safety
only. Runs in which the system may stop, because clients no longer send or a
bound is used up, say `CHECK_DEADLOCK FALSE`; `mutex` checks deadlock.

## What is proved

All proofs are for every value of the constants that satisfies the named
assumptions of the module, thus for any number of threads, ports, devices and
interfaces, for any buffer size and for any number of plugs, sends and faults:

* `MutexAssumption`, `WritePathAssumption`, `InputParserAssumption`,
  `SetupAssumption`, `DownloadAssumption` and `LifeAssumption` (with at least one
  OUT pipe, as every MIDISPORT has) are the types of
  the constants, and so is `OutputEncoderAssumption`, with a write buffer of more
  than one mspacket (the devices have 8 or 16);
* `HandlesAssumption` also has the interfaces of a device bear different
  numbers, as USB requires of one configuration;
* `ImagesAssumption` says of the firmware that records of an image do not
  contradict each other, that images can be told apart in RAM, and that what a
  file yields is the image or nothing (damage that keeps every checksum right, a
  cut between two lines included, is not considered); `ConfigsAssumption` that a device list is a sequence and that
  no configuration has a warm id of one model for the cold id of another, as
  MIDISPORT_devices.xml has none. The `firmware` run evaluates both.

Some theorems have a hypothesis of their own, because what they say is false
without it; each is satisfied by the instance of a passing run:

| hypothesis | theorems | without it |
|---|---|---|
| `OneOut`: all ports on one OUT endpoint | `OrderKept`, `IdleWhenCalled`, `BufferKept`, `Refinement` of `WritePathProofs` | a buffer is refilled under a write (divergence above) |
| `Clean`: nothing intrudes in a message, one device | `StaysSynced`, `OnlyWholeMessages`, `NoByteLost`, `NothingWithheld` | `input_real_time`; two devices mix the static parse state |
| `OwnModels`: no two units of one product | `ServedOnline`, `OnlyNewInSetup` | `setup_twice`; the removal of one unit marks the other's MIDI device offline |
| `OwnHomes`: a unit returns to where it was | `OnlyNewInSetup` | a unit that moves takes its MIDI device along, and that of its old place is made again |
| `WholeWords`: a packet can be cut into words that end where it ends | `EncoderRoundTrip` | `output_short`: a word reads bytes from behind the packet |
| `NoStrayData`: no packet goes on with data bytes when another ends in an undefined message | `EncoderRoundTrip` | these bytes are sent, though they belong to the undefined message |
| `ReadAsTyped`: a cold boot id is a number, a path is a string | `ConfigurationServed` | a value of another type is passed over, and its field has no value |

`MCOutput` and `MCFirmware` assume `WholeWords`, `NoStrayData` and `ReadAsTyped`
of their instances, so that TLC evaluates them; `MCOutput` also says that
`WholeWords` does not hold of the packets of `output_short`.

**`MutexProofs`.** `Mutex!IInv` says that the owner field names exactly the
thread with open sections, the first of which is the one whose `Lock` returned
true, and that the pthread mutex is held by whoever is named or is between the
two writes of `Lock` or of `Unlock`. Exclusion alone is not inductive: what
makes the unlocked test of `mOwner` safe is that a thread can only find itself
there if it put itself there. From it follow mutual exclusion, that nobody
waits for himself, and the refinement of `RecursiveLock`: every step of `Mutex`
is an `Enter`, a `Leave` or a stutter.

**`WritePathProofs`.** `IInv` holds on every device and with any faults: types,
a thread inside the lock is its holder, a buffer being filled always has room
for a word and the null word, the queue is only left with packets in it after a
write was started, and a set flag has a write, a completion or a callback behind
it until a write fails. It gives `NoStrandedPackets` and `NoLostWakeup`.
`OrderInQueue`: `QueueOrder` on any device. It is inductive with the types and
`Intervals`, that no packet is sent beyond its end; the lemmas say what the three
changes of the queue (`OrderedAppend`, `OrderedTail`, `OrderedFront`) do to the
order of one endpoint's packets among those of the other.
`OneInv` strengthens it under `OneOut`: at most one write,
completion or callback exists, the queue continues exactly what was encoded, and
the words in the buffer that the device has not read are those encoded and not
received, followed by nulls. It gives `PipeOrder`, `BufferNotReused`, the
refinement of `OutputPipe`, and `DoWriteOnlyWhenIdle`, which no run checks any
more. Both invariants were model-checked before they were proved; `OneInv` is no
longer in a run.

**`InputParserProofs`.** For any bytes whatever on any ports and devices,
`ParserInBounds`: the array `completeMessage` and `remainingBytesInMsg` stay
within their bounds; `IInv` there joins the types with `NoOverrun`, and the proof
goes through the four steps of a byte (`TakeStatus`, `TakeData`, `Ship`,
`Restore`) with a lemma each. `ReadAfterParse`: a read is started again only when
its buffer was parsed to the end.

On well-formed input the parser knows of each port how far its message has come
(`StaysSynced`), every packet it delivers is whole (`OnlyWholeMessages`), every
byte a port has sent is in the packets its source was given, in the packet list
or in the message being put together (`NoByteLost`), and complete messages do not
stay behind when a buffer ends (`NothingWithheld`). `Synced` alone is not inductive, because the length of what is held
does not say what is to follow it. `GoodInv` adds that what is held *is* a begun
message or part of a sysex (`InPlace`), that the packet list consists of whole
ones and is empty before the first byte of a buffer, and the equation between
the bytes (`BytesAre`). There is a lemma for each kind of byte a player may send
next (`StatusOfMessage`, `DataOfMessage`, `DataOfRunning`, `DataOfSysex`,
`EndOfSysex`), which together say what `TakeByte` makes of a port's state
(`ByteFollowed`); then come the step of a byte (`ByteInPlace`, `ByteGood`), of
the end of a buffer (`BufferGood`) and the others (`RestGood`).

**`OutputEncoderProofs`.** `EncoderTyped`: a buffer takes a word only when one
more, the null mspacket, still fits, or is written when it is full (`RoomInv`).
`EncoderRoundTrip`: of every port, what clients sent is what the device has put
out, what is in the buffers and what is in the queue, whatever the packets,
wherever a full buffer cuts one in two and however the two buffers fill. The
equation is between messages, not bytes, because undefined messages are dropped
on the way, and it is not inductive: a word that was cut off in the middle of one
would change the meaning of what follows it. `QueueInv` therefore says that the
packet at the front is interrupted only where a word ends (`Cuttable`), and the
others not at all, and `CleanInv` that what was sent to a port does not end
inside an undefined message unless some packet does. `CutWord` is the heart of it: a word and the bytes
left behind it mean what they meant together. `Defined` is a fold, and `ScanCat`
says how it goes over a concatenation.

**`DeviceSetupProofs`.** `NoNotificationLost`: for any units, configurations and
faults, an object in an iterator has a message on the port or a drain that has
yet to end. By itself this is not inductive: when the last object is drained,
nothing it says remains, and the next object must find the iterator armed. `IInv`
adds that an iterator that is not armed has sent its message or is
being drained, and that a driver that does not run has empty iterators.
`OnlineServed`: a MIDI device that is online while the driver runs has an
`InterfaceState`, and if that was constructed to its end, the endpoints lead to
it. It is inductive with the types of its lists (`ServedInv`); the weight of the
proof is in `FoundInterface`, which may append to the setup or change one entry,
and in `DeviceRemoved`, which removes from the middle of the list.

`TypeCorrect` and `BusFollowed` rest on `CoreInv`: an iterator of removals holds
what is gone, and a unit is on the bus as one service at most (`BusInv`); MIDI
devices are those of units where these were plugged in (`SetupInv`); every
`InterfaceState` is that of a service that is present or whose removal is still
in the iterator, and no two are of one service (`ListInv`); and the services that
are present, matched and neither served nor still to be returned are at most as
many as there were faults (`LostInv`). At rest the iterators are empty, and this
is `InterfacesFollowBus`. `ServedOnline` and `OnlyNewInSetup` add to it, with
`ReplugInv`, that a MIDI device offline under a present service has an earlier
service of the same unit to blame.

**`InterfaceLifeProofs`** has four inductive invariants. `IInv` gives
`CallbacksEnterLive`: nothing enters a deleted
`InterfaceState` but `Send`, in the cases `EntersLive` names. It says
that an event source in the I/O run loop is that of an `InterfaceState` not yet
deleted, that a constructor owns the endpoints' refCon until it is done, that
`DeviceRemoved` marks the device offline before it deletes, and that a refCon to
a deleted `InterfaceState` has one of the named excuses. `StateInv` gives
`TypeCorrect`: besides the types, it says where the run loop is and how far the
`InterfaceState` of each service has come (`Places`), which of them has an event
source, and that one that is not made yet has no transfers (`Sources`). `RefInv`
gives `ReferencesKept`. That the handles balance between callbacks says nothing
in the middle of `DevicesAdded`, and there is the work: services not yet returned
have none (`Fresh`), those returned have what their state requires (`Settled`),
and of the one being added `AddingInv` says, label by label, which of the
references and open handles it has by then (`DeviceHeld`, `InterfaceHeld`), with
a fault or an unplugged device behind each one too few.

`ChainInv` gives `OneChainHolds`. It counts the transfers of each `InterfaceState`
and kind wherever one can be, outstanding, completed or in its callback
(`Single`), of reads always, of writes as long as `written` has one OUT pipe
(`WriteChain`), and has no read in an `InterfaceState` whose constructor has not
got to its first one. With one OUT pipe a `DoWrite` starts one write at most
(`DoWriteAlone`), and it is called when none is under way, because the flag is set
while one is. With more pipes the flag does not tell that, and the theorem says
nothing of how many writes there are. That no chain ends (`NothingFailed`) holds
with any OUT pipes: while nothing failed all pipes were found, a running
`InterfaceState` has a read, and a write if it has anything queued, because a
`DoWrite` that leaves something in the queue starts a write (`DoWriteGoesOn`),
and so does each callback. It rests on `StateInv`.

**`FirmwareDownloadProofs`.** `Inductive` is about the middle of `StartDevice`
again: `CallInv` says for each of the ten calls, and in each for every record,
what the calls before it have made of the chip, although the results of some are
dropped: which records of which image are in RAM, that nothing else is, and when
the 8051 is held. `LoadingInv` and `DeviceInv` say that the device loaded is the
one that was cold and untouched when it was found, and that an application runs
only where `StartDevice` returned true; `KnownInv` that the list of devices names
cold ids and known images. From it follow
`TypeCorrect`, `Booted`, `WholeImages`, `LeftAlone`, `Held` and the refinement of
`DeviceBoot`, in which every request of a download is a stutter but the one that
ends it.

`ConfigurationServed` is about the file: `CompleteFile` says that `readConfigFile`
returns true only on a device list whose every entry has each key that is
required (`CompleteDevice`), and `ListHasEntries` what list the loop then makes:
by `HasEntries`, which holds after each of its rounds, the cold boot ids are those
of the entries so far, each with the last entry that has it. `ServedInv` says that
the list of a daemon that serves is one that was read to its end.

**`SequenceLemmas`.** `FlattenSeq` is defined by recursion, and no prover here
takes the induction theorems of the library, which have an operator as a
parameter. Its equations (`FlattenSeq` of an appended sequence and of a
concatenation) are proved from the least length at which one would fail
(`MinIsLeast`, from the well-foundedness of the naturals). A fold is defined by
a function that is chosen; `FoldExists` says that there is one, and the values it
has on `1..i` are then followed from step to step (`AllUpto`, `AllByAdd`, from
`MinIsLeast` again). The folds of the model (`Scan`, `DeviceList`) have their
equations in the modules that need them, because a lemma about every fold would
have the operator as a parameter.

Only model-checked: all liveness (`DeliversAll`, `EveryWordEncoded`, `AllPlayed`,
`EveryDeviceBoots`, `GoneIsClosed`), which is out of the prover's reach under
fairness. Every invariant and every action property of the passing runs, and every
refinement of an abstract specification, is proved.

## What is not modelled

* Version 1 of the driver interface with `FindDevices` and `InterfaceLocator`:
  `V1_MIDI_DRIVER_SUPPORT` is 0 (MIDIDriverClass.h:47).
* The COM glue of `MIDIDriver`: a reference count and forwarding functions,
  called from one thread, with nothing to interleave; the USB-MIDI class
  utilities of USBMIDIDriverBase.cpp:764-980, which nothing calls; logging and
  timing; the installer's scripts.
* What a thread does in an `InterfaceState` that was freed under it, and the
  data race on `connectedMIDISPORT`: undefined behaviour of which the models
  show only that it can be reached.
* A USB request that takes effect in the device and still reports an error: in
  the models a request that fails has changed nothing.
* The failure of the notification requests in the constructor of
  `USBDeviceManager`, after which the driver sees no device at all.
* The 512 bytes of `pbuf` in `HandleInput`, whose record format belongs to
  CoreMIDI, and input ports beyond those a device has.

## Plan

1. The lock of `Mutex` inside `WritePath`, in place of the one-step lock, and
   `WritePath` in `InterfaceLife`, in place of the number that stands for the
   queue.
2. `ReadAsTyped` as a run of its own, on a configuration with a mistyped value.
