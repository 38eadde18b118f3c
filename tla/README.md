# TLA+ models of IntelBluetoothFirmware

IntelBluetoothFirmware is a macOS kernel extension that finds an Intel Bluetooth
controller on USB, brings it into operational mode (patching it, or downloading
a firmware image and booting it) and then leaves it to the system's Bluetooth
stack. This directory holds models of it in TLA+, checked with TLC, and theorems
about them, proved with TLAPS.

Paths below are relative to `src/IntelBluetoothFirmware/` unless they say otherwise.

## The system

| Component | Code | State it keeps | Operations |
|---|---|---|---|
| Driver life cycle | `IntelBluetoothFirmware.cpp` | the USB device controller, the `BtIntel` object, power management and registry state | probe, start, stop, cleanUp, publishReg |
| USB device controller | `USBDeviceController.cpp` | interface, three pipes, `mReadBuffer`, `_hciLock` | initialisation (`init`, `initConfiguration`, `findInterface`, `findPipes`), `sendHCIRequest`, `bulkWrite`, `bulkPipeRead`, `interruptPipeRead`, the completion `interruptHandler`, `free` |
| HCI exchanges and vendor commands | `BtIntel.cpp`, `BtIntelVSC.cpp` | none beyond the call | send a command and read one event; read version, boot parameters, resets, manufacturer mode, event mask, DDC, secure send |
| Gen 2 / Gen 3 setup | `IntelBluetoothOpsGen2.cpp`, `...Gen3.cpp` | name of the loaded file | `setup`, `bootloaderSetup(TLV)`, `downloadFirmware`, header and payload download, version parsing |
| Gen 1 setup | `IntelBluetoothOpsGen1.cpp` | name of the patch file | `setup`, `patching`, enter and leave manufacturer mode |
| Firmware catalogue | `BtIntelFw.cpp`, `FwData.h`, `zutil.c` | the compiled-in files | look up, inflate |
| Patcher | `../IntelBTPatcher/` | a global owner record, saved originals of hooked methods | hooks into IOBluetoothFamily and IOUSBHostFamily |

`start()` creates the device controller and the operations object for the device
ID, and calls `setup()` on its own thread. Setup is a sequence of *exchanges*: a
command goes out as a control request (or, for secure send, a bulk write) and one
event comes back on the interrupt-in pipe (or the bulk-in pipe). The interrupt
read is asynchronous: the calling thread submits a transfer whose completion,
`interruptHandler`, runs on a thread of the USB stack, fills a structure on the
caller's stack and wakes the caller.

### What is hard

* *Interleaving.* The transfer is submitted before the caller takes `_hciLock`
  and sleeps; the completion wakes without the lock and writes into the caller's
  frame; one buffer serves the interrupt and the bulk reads.
* *Timeouts racing answers.* A call that times out aborts a transfer that may have
  taken an event; the event after that is taken for the next command's answer,
  since no event is matched to a command.
* *Failure in the middle.* Every exchange may fail; some failures end the setup,
  some reset the chip, some are ignored, and the reset makes the device vanish and
  come back in another mode.
* *Nested loops over files*, with widths of 8 bits and fixed buffers, none of which
  checks that the bytes a length announces are there.
* *Acquisitions one after the other*, each of which may fail, on a device that
  other clients want and the user may unplug.

What makes each component correct: the pipe returns each event once and in
order, never writes through a stale pointer and always returns; setup reports
success only for a running controller, sends each command only in the mode that
understands it, and gets every chip it can to run the firmware of its file; the
transfer sends a file completely, in order and aligned, reading nothing else;
Gen 1 setup leaves manufacturer mode on every path and activates patches all
together or not at all; the walks over files and version replies find what is
there, and leave the data, or run on, only for known lengths; the life cycle gives
back what it acquired, in the opposite order, and holds nothing when `start()` has
returned.
`PROJECT.json` lists the hazards, each at its line, and the properties that cover it;
those that no property covers are at the end of this file.

## The modules

### EventPipe and InterruptPipe

`EventPipe` is what `interruptPipeRead` promises its callers, in five actions: the
chip produces numbered events; a call returns the oldest unread one, or fails; a
timeout may have lost one event, an error none.

`InterruptPipe` is the code. `pc` is the control point of the driver thread, from
`submit` (before `io()`) over `lock` (before the sleep), `asleep` and `awake` to
the return, or over `abort` and `aborting`; `caller` is the code between calls,
from where it may also enter `bulkPipeRead` or `free()`. A call's stack frame is its
number. A transfer is in `pending` (submitted), `dying` (aborted, its completion
still due) or in `handler`, whose two halves are the stores through the parameter
(`HandlerFill`) and `IOLockWakeup` (`HandlerWake`); the wakeup reaches a thread
that is `asleep` and nobody else. The USB stack may complete a transfer with
data, with nothing, and with an error status in either case, which the code
stores and never reads. An event that broke off is therefore returned like a whole
one, and the models do not tell the two apart. `woken` is a history variable.

The stack's `abort()` is a parameter: `AbortSynchronous` says that it returns only
once no completion of the pipe is running or due. That is its default, and the
code depends on it: with FALSE the safety properties fail at once.

`KeepsPromise` says that InterruptPipe implements EventPipe, where an event held by
a call in progress (`InFlight`) is not consumed yet.

### BootloaderSetup

`IntelBluetoothOpsGen3::setup()` from the first Read Version to the event mask,
with the Gen 2 flow it falls back to for legacy controllers. Each control point of
`pc` is one exchange or one local decision. `Send` may fail with the command
delivered or not; `Receive` takes the oldest event whatever it answers; `NoEvent` is
a read that fails, and like EventPipe's timeout it may lose an event. The chip
works through its commands in order and asynchronously: it answers, verifies a
complete image, boots a verified one, or resets and leaves the bus
(`ChipResets`), after which `Reenumerate` starts the next setup.

A controller is a record of `Chips`: its family; its bootloader (normal, without
acknowledgements, failing to report its boot parameters, or of an unknown secure
boot engine); and the version that its bootloader reports. The family decides the
`Form` of the version answers: legacy in either mode (`SfP`, `JfP`), legacy from
the bootloader and TLV or something unrecognised from the firmware (`ThP`, `Odd`),
always TLV (`TyP`), a variant that setup refuses (`Unsupported`), or a platform that
it does not know and reports as done (`Foreign`). A bootloader that has received a
bad image may say nothing or notify a failure, which setup takes for the success
(only the event's code is looked at), so that it boots in vain. A
file is absent, too short, of a wrong header, or good. Versions are "ours" (that of
the file) or "other". `resetSent`, `verified`, `got` and `stray` are history.

Fragments here are counted; what they hold is FirmwareTransfer's matter.

### FirmwareTransfer

The two header senders, `downloadFirmwarePayload` and `securedSend`, over a file seen
as the offsets at which its commands begin (`WellFormed`): the last one ends where
the file does. That the payload is a multiple of 4 bytes long, as the code's comment
expects, is not assumed: of any other file the loop looks for a command behind the
end (`LookOutside`), and what it does from there on depends on the memory it finds. All of the
repository's `.sfi` files are padded. The numbers are the
code's own (252, 3, 128, 256, 388, 644, 772, 868, 964). `wire` and `inOrder` are
history.

### PatchTransaction and Gen1Patching

`PatchTransaction` is what the Gen 1 set-up does to the patches of a controller, seen as
a transaction: records are played, each once, and the controller takes or refuses them
later; there is one decision, to complete, which takes the whole file, or to give
up; and the controller activates the patches or drops them with no record under way.

`Gen1Patching` is `IntelBluetoothOpsGen1::setup()` with `patching()`, `exitMfg()` and
`setEventMaskMfg()`. A patch file is a sequence of items, commands and the events
expected for them, with the offset of each, and a length: a file may be cut
anywhere, or have a byte where no item begins. The exchanges (`Send`, `Receive`,
`NoEvent`) are those of BootloaderSetup, except that the answer to a record is read
by `intelSendHCISyncEvent`, which reads on until an event has the awaited code
(`RecordEvent`). One turn of the parser is `ParseCommand`, any number of `ParseEvent`
(the last one counts) and `ParseRecord`. The controller is a second actor that
works through its commands in its own time: it takes a record (`ChipTakes`) or refuses
it (`ChipRefuses`), and leaves manufacturer mode in the way it is told
(`ChipLeaves`). A record may itself leave manufacturer mode, as those of
opcode 0xfc11 in the repository's files do. `faults`, `failedAt`,
`refused` (the records refused), `sent`, `reach` and `stray` are history.

`KeepsTransaction` says that Gen1Patching implements PatchTransaction: `sent` are the
records played, `exit` is the decision, and under way are the records
among the commands that the controller has not worked on. The code does it
without any bookkeeping: it never sends a record again, not even one that
was not answered in time, and relies on the controller's order for the rest.

Three limits of the code show in the wording of the properties. A file that is cut
at the end of a record cannot be told from a whole one, so `AllOrNothing` speaks of
the records that are there. Wherever a command may start its header is
read, so up to three bytes behind the end of a cut file; then patching fails
(`ReadsInFile`). And a file that lacks the last event of a
command takes the events of two commands out of step (`LacksEvent`). The
repository's `.bseq` files have none of these flaws, and no record longer
than 250 bytes.

A refused record is taken like any other, which is what `gen1_events` shows of
a patch among several. `intelSendHCISyncEvent` reads on while events of other codes
come: the controller here sends what its commands call for, so an endless stream of
other events is not modelled, and `SetupEnds` does not speak of one.

### Parsers

The walks of `loadDDCConfig`, `parseVersionTLV` and `firmwareVersion` over
length-prefixed data: one action is one turn of the loop, `reach` the end of what
was read, `overflow` whether a copy left its destination. Where the data is cut
short, memory behind it stands in for the rest. A TLV that is stored to one field
carries the name of that field (`SingleTags`), the others that of what they tell.

Nothing is assumed of the lengths. `StaysInside` says of all data which of it is read past
its end, and which is copied past the end of a buffer: that of which an item looked
at `Needs` more bytes than follow, or does not have the room it needs (`Fits`). For
`Plen` is 8 bits wide: a DDC entry of length 253 or 254 is longer than the command
buffer, and one of 255 gives an empty command that is sent again and again for as
long as it does not fail (`WalkEnds`). The repository's `.ddc` entries are shorter
than 60 bytes. Of several TLVs for one field the last wins, so the build that is compared
with that of the file depends on the order in which the controller lists them; the
name of the file comes from `cnvi_top` and `cnvr_top` alone.
`firmwareVersion` walks from offset 0, through the CSS
header as if it were commands, which leads to the right place in every `.sfi` file of
the repository.

### DriverLifecycle

`probe`, `start`, `stop` and `cleanUp` of `IntelBluetoothFirmware`, with the controller's
`init`, `initConfiguration`, `findInterface`, `findPipes` and `free`. Each call that
can fail is an action with both outcomes (`Tries`), and the clean-up goes step by
step, so that another client of the device (`OtherClient`) and the user (`Unplug`,
`Replug`) can act between any two of them. The firmware set-up is one step
that ends one way or the other; that it ends is what `SetupEnds` of BootloaderSetup
and Gen1Patching say.

The model keeps what a reader of the code may not expect: if `super::start` fails,
`start` returns without `PMstop` and the driver stays in the power tree
(`rejected`); a second endpoint of a kind replaces the pipe of the first, which
is then never released (`OneOfAKind`); the check of the number of configurations
compares a value with itself; and `start` calls `stop` after a failure of its
own.

## The runs

| Run | What it shows | Bounds |
|---|---|---|
| `interrupt_pipe` | types, `FrameSafe`, `BufferExclusive`, `AwakeHasAnswer`, the refinement `KeepsPromise`, and `ReadReturns` | 3 events, 3 calls: a call that times out with its event lost, one that gets the next event, and one whose completion is late, in every order |
| `lost_wakeup` | *violation:* a call times out although its event was delivered | 1 event, 1 call |
| `setup` | types, success means operational, fragments only to bootloaders, boot only when verified, parameters never read before they are filled in, exchanges in step, termination; and `Converges`: without a fault a supported controller ends up with our firmware | 2 fragments, 1 DDC entry, 2 faults, 2 enumerations; all 56 controllers, 4 files, 2 modes and 2 versions |
| `setup_notification` | *violation:* boot without the download-done notification | 2 fragments, 1 of the rest |
| `setup_ddc` | *violation:* a late DDC answer fails the setup | 2 fragments, 1 of the rest |
| `setup_limited` | *violation:* fragments to a TLV bootloader that does not acknowledge them | 2 fragments, 1 of the rest |
| `setup_address` | *violation:* SfP and WsP boot with the default address | 2 fragments, 1 of the rest |
| `transfer` | the payload is sent completely, in order, in aligned pieces that fit the command buffer (`PiecesFit`); a command is looked for outside the file only if that is not padded (`ScanInStep`); termination | all files of up to 3 commands with parameter lengths 0, 1, 6, 249, 253, 255, padded or not: runs of one, two and three pieces, pieces of exactly 252 |
| `gen1` | types; manufacturer mode is left on every way out (`LeavesMfg`); patches activated all together or not at all (`AllOrNothing`); exchanges in step; the parser stays in the file; the refinement of PatchTransaction (`KeepsTransaction`); termination; a flawless file patches the controller (`Patches`) | whole files of up to 3 records of 3 kinds, flawed ones of up to 2 records of 5 kinds, cut at each of the last 10 bytes; 2 faults |
| `gen1_events` | *violation:* a patch is activated although the controller refused another one of the file | files of up to 2 records, no faults |
| `parsers` | types; which data is read past its end or copied past a buffer's (`StaysInside`); a DDC file is loaded entry by entry and as a whole; the TLV and boot-parameter walks give what looking at all items at once gives (`LooksRight`); termination but for DDC entries of length 255 (`WalkEnds`) | up to 2 items (DDC lengths 0, 1, 2, 252 to 255, all 19 TLV types with lengths 0 and 4, addresses of 6 and 7 too, commands 0, 6, 7, 255), up to 4 TLVs that share fields; cut at every place of the last header and at the ends of its value |
| `lifecycle` | types; what a part rests on outlives it (`HeldInOrder`); nothing held after `start` (`NothingHeld`); the device is given back (`DeviceGivenBack`) | 2 starts; every order of the three endpoints, one missing, a useless one, a duplicate |

Two fragments tell the first from the last; two faults suffice for one to be
masked by another (a lost acknowledgement followed by a failed reset). In
`gen1` a third record is what it takes for a middle one to go wrong, and two
faults for the exit from manufacturer mode to fail after a record did. In
`parsers` the second item is the one whose place depends on an earlier length;
the lengths lie on both sides of every limit in the code. In `lifecycle` the
second start meets whatever the first one has left behind. In `setup` the
second enumeration starts afresh except for the fault budget, so a third adds
nothing that a second with fewer faults does not show.

Every violation run has its entry under
`findings`, with the comment in the code that it contradicts. The definitions marked
MUTANT are bugs a programmer might make; with each of them in place of the
definition it names, TLC finds the property that PROJECT.json pairs with it violated.

### Fairness

InterruptPipe: the driver thread is scheduled, a sleeping thread's deadline
fires, started completions run and aborted transfers complete. The chip is
never obliged to answer. BootloaderSetup: the driver thread runs (each step of
it is a bounded call, by the property above), the chip works on what it has
received, and a chip that left the bus comes back. FirmwareTransfer: the thread
runs. Parsers: the loops go on, but no command has to fail, so that an empty one
may be sent for ever. Gen1Patching: the driver thread runs, and the
controller works on what it has received, taking or refusing each command.
DriverLifecycle: `start()` runs on to its end; nobody is obliged to plug, open
or match anything.

## The proofs

TLAPS proves, for all values of the constants, every safety invariant and action
property that the passing runs check, and the refinements of EventPipe and
PatchTransaction. Most of them
are not inductive by themselves; each module defines an `IInv` as
a conjunction of named parts, which TLC has confirmed on the run's instance, and
proves that the first states satisfy it and that every step keeps it, with one
step per action. The last steps are all
alike: `IInv` implies the property.

* `InterruptPipeProofs`, given a synchronous abort: `TypeOK`, `FrameSafe`,
  `BufferExclusive`, `AwakeHasAnswer` and the refinement of EventPipe, for any number of
  calls and events. `IInv` follows the one transfer
  a call submits: it belongs to the latest call (`Owned`), is in one place at a
  time (`OneTransfer`), exists only between `io()` and the return (`Phases`; the
  synchronous abort is what closes it there), and the event it carries is the
  newest one the chip handed out and the one in `mReadBuffer` (`Carried`). The
  refinement has one step per action: most stutter, the others are the action of
  EventPipe of the same kind.
* `FirmwareTransferProofs`, for every set of well-formed files: `TypeOK`,
  `ScanInStep`, `SendInFile`, `PayloadInOrder`, `PayloadComplete` and
  `PiecesFit`. The invariant says that `fw_ptr` and
  `fw_ptr + frag_len` are ends of commands and that `fw_ptr` is aligned with the payload
  (`Position`). Lemma `InStepWithFile` draws the conclusion that matters: a run that
  reaches the end of a padded file is a multiple of 4, so it has been sent, and the
  loop does not look for a command behind it.
* `BootloaderSetupProofs`, for any number of fragments, DDC entries, faults and
  enumerations: `TypeOK`, `SuccessMeansOperational`, `DownloadToBootloader`,
  `BootVerified`, `ParamsKnown` and `InStep`. Up to the boot command nothing that is
  under way changes the mode, so every event tells the present mode, and so does
  the version that setup has read (`Before`). From the boot command on (`After`)
  the order of the queues does the work: the controller takes its commands in order,
  no reset is behind the boot command, and a reset sent before it would
  have taken the notification with it; so a notification means that the firmware
  runs and stays. `Params` follows SfP and WsP past the version check.
  `InStep` has an invariant of its own, `Exchanges`: without a fault the command
  just sent, or its one answer, is all there is, except that a controller which
  was reset answers nothing.
* `DriverLifecycleProofs`, for every list of endpoints and any number of starts:
  `TypeOK`, `HeldInOrder` and `NothingHeld`. Each control point of `start` implies what
  is held (`Acquired`) and each of the clean-up what is held no longer (`Absent`). The
  clean-up may begin after any failure because each thing held implies those it
  rests on (`Rests`), and it finds every pipe because with one endpoint of
  each kind no pointer to a pipe is overwritten (`Pointed`).
* `Gen1PatchingProofs`, for every set of well-formed patch files, cut or not, and
  any number of faults: `TypeOK`, `LeavesMfg`, `AllOrNothing`, `ReadsInFile` and `InStep`.
  Three arguments. The offsets of the items of a file ascend (`Ascending`), so the
  commands that the parser has passed are all those before its place, and each of
  them but the present one was sent (`Played`); at the end of the file that is all of
  them. The controller works in order, so what it will be once it is
  done can be read off its queue: a command that leaves manufacturer mode with
  none that enters it behind it (`Out`), a deactivation with no record
  behind it (`Cleared`). And without a fault only the command just
  sent or its answers are under way, of which the awaited one is the last
  (`Exchanges`).
* `Gen1TransactionProofs`, for the same files and faults: the refinement of
  PatchTransaction. The parser never goes back, so what was sent is behind it
  and the record at hand was not sent before (`Once`); and since no record goes out
  after the decision, none is in the queue behind the command that carries it
  out (`Orderly`): when the controller comes to that command, `RecordsShrink`
  says, no record is under way. Each step of the setup and of the controller is then one
  of PatchTransaction, or one that it does not see (`StepKeeps`).
* `ParsersProofs`, for all data: `TypeOK`, `StaysInside`, `LoadedWhole` and
  `LooksRight`. Items lie one behind the other (`Ascending`), so where the pointer is, is known from
  the items passed (`Passed`). Each step looks at one item more (`OneMoreExamined`), or
  again at an entry of length 255, and leaves the data or a buffer exactly if that
  item makes it do so (`ItemExamined`). For each field the walk of a version reply holds the
  last TLV so far that stores it (`Latest`), and at the end the TLVs passed are
  those that looking at all items at once counts (`ReachedPassed`).

`SequenceLemmas` holds what these proofs need of queues, and `LeastElement`: every set
of natural numbers that is not empty has a least element. A statement about all
items of a file, like `Ascending`, follows from it by looking at the least item that
fails: that gives the induction over the data which the library's induction
theorems, with their operator parameters, do not.

The proofs rest on these assumptions, each of which TLC evaluates on the runs:

* `AbortSynchronous`, for InterruptPipe (see above);
* `Fragments` is at least 2, for BootloaderSetup. With a single fragment `InStep` is false, as TLC
  shows: an old SfP or WsP loader without acknowledgements would then get the whole image
  with the first fragment, and its notification would be read as the answer to the boot
  command. The parts of an image's header alone are five fragments;
* `FilesAssumption`, for Gen1Patching: the last event that a file lists for a command
  is the one the controller answers it with last. Of the theorems only
  `ExchangesInStep` uses it;
* the files are well-formed, and the bounds are numbers.

Only model-checked are the liveness properties, which are outside what TLAPS 1.4.5
proves: `ReadReturns`, `SetupEnds`, `Converges`, `Patches`, `WalkEnds`, `DeviceGivenBack` and
`Ends` of FirmwareTransfer.

## Not modelled, and the plan

What is left to do, in this order:

1. An abstract specification of the transfer (a file goes out in order, in aligned
   pieces), as EventPipe is one for the pipe and PatchTransaction for the Gen 1 set-up,
   with the refinement proved.
2. The exchanges of both set-ups stated as readers of EventPipe, so that `Promise`
   carries over to the events they read.
3. The first and the last of the hazards below, which need sizes and parameters
   of files that the models do not have.

Hazards that no property covers, with their lines and reasons in `PROJECT.json`:

* a firmware file of just 644 bytes with an ECDSA header (`IntelBluetoothOpsGen3.cpp:284`);
* an event cut short by a transfer that broke off (`USBDeviceController.cpp:228`);
* a bootloader that reports the version of the file and is booted without a download at
  every enumeration (`IntelBluetoothOpsGen3.cpp:347`), which `Converges` leaves out;
* the leak of the DDC file when an entry fails (`BtIntel.cpp:252`);
* `super::start` failing (`IntelBluetoothFirmware.cpp:66`) and a second endpoint of a kind
  (`USBDeviceController.cpp:153`), which `NothingHeld` leaves out;
* a Gen 1 patch command of 254 or 255 bytes (`IntelBluetoothOpsGen1.cpp:312`).

Not modelled:

* *The patcher* (`../IntelBTPatcher/`) cannot be built or reached as it stands.
  `AsyncOwnerData::action` is declared as a pointer to `IOUSBHostCompletion` and
  then assigned and called as a function; `processKext` is private but called
  from outside the class; and nothing calls `init()`, which would set
  `callbackIBTPatcher`, the pointer that every hook goes through. A model would have to
  guess what the hooks are meant to be. If they are ever repaired, the things to check
  are that one global owner record serves all outstanding transfers and that the
  completion it wraps is not wrapped again.
* *The firmware catalogue* (`BtIntelFw.cpp`, `FwData.h`, `zutil.c`): a lookup and
  zlib's inflate into a buffer of four times the compressed size, which every file of the
  repository fits. It keeps no state, and its outcome is `file` in the models.
* *Details of modelled components:* the contents of version answers beyond their
  form and the version comparison; the order of DDC entries; the bytes of a patch
  command; logging and the registry entries other than `FirmwareLoaded`.
* *Code that is never called:* `IntelBluetoothOpsGen2::setup()` (`start()` makes
  Gen 1 and Gen 3 objects only) and the debug-feature commands.
* *The build scripts and property lists*, which have no run-time state.
