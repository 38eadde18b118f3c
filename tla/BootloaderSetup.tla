--------------------------- MODULE BootloaderSetup ---------------------------
(***************************************************************************)
(* IntelBluetoothOpsGen3::setup() and the IntelBluetoothOpsGen2 functions  *)
(* it falls back to: bringing a controller from whatever state it is found *)
(* in to running operational firmware.                                     *)
(*                                                                         *)
(* The driver runs one setup per enumeration of the device, as a sequence  *)
(* of exchanges: it sends an HCI command (Send) and reads the next event   *)
(* (Receive), any event, without matching it to the command.  A read may   *)
(* time out while the answer is still on its way; what a timeout does to   *)
(* the event queue is what EventPipe promises.                             *)
(*                                                                         *)
(* The chip works on the commands it has received in order and answers in  *)
(* its own time.  Resetting it to the bootloader makes it leave the bus    *)
(* and come back as a new device, for which setup starts again.  The old   *)
(* instance can no longer reach the chip, so the two setups do not         *)
(* interleave and one follows the other here.                              *)
(***************************************************************************)
EXTENDS Naturals, Sequences

CONSTANTS
  Fragments,    \* secure-send fragments of a firmware image
  MaxDdc,       \* bound on the entries of a DDC file
  MaxFaults,    \* bound on lost transfers and premature timeouts
  MaxSessions   \* bound on the enumerations of the device

\* The parts of an image's header alone take more than one fragment.
ASSUME BootloaderSetupAssumption ==
  /\ Fragments \in Nat \ {0, 1}
  /\ MaxDdc \in Nat
  /\ MaxFaults \in Nat
  /\ MaxSessions \in Nat \ {0}

VARIABLES
  (* fixed for a behaviour *)
  hw,        \* the controller, a member of Chips
  file,      \* the firmware file found for it, a member of Files
  (* the chip *)
  mode,      \* "bootloader" or "operational"
  fw,        \* version of the operational firmware
  image,     \* a complete, verified image is in its memory
  online,    \* it is on the bus
  commands,  \* commands received and not worked on yet
  events,    \* events produced and not read yet
  (* the driver *)
  pc,        \* control point of setup()
  ver,       \* mode and version as read by setup()
  params,    \* IntelBootParams has been filled in
  bootAddr,  \* bootParams: "default" or the "image"'s boot address
  sentFrags, \* fragments written
  ddc,       \* DDC entries left to write
  session,   \* number of the enumeration
  faults,    \* faults so far
  (* history, of the current session *)
  resetSent, \* resetToBootloader() was called
  verified,  \* the download-done notification was read
  got,       \* what the event last read is an answer to
  stray      \* an event was read that answers another command

fixedVars   == <<hw, file>>
chipVars    == <<mode, fw, image, online>>
flowVars    == <<ver, params, bootAddr, sentFrags, ddc>>
historyVars == <<resetSent, verified, got, stray>>
vars == <<fixedVars, chipVars, commands, events, pc, flowVars, session, faults,
          historyVars>>

\* SfP stands for 0x0b and 0x0c, whose files carry no usable version; JfP, ThP
\* and Odd for 0x11 to 0x14, apart in the form of the version that the firmware
\* they run reports; TyP for 0x17 and later; Unsupported for the other variants
\* and Foreign for the other platforms.  The boot parameters may report a
\* bootloader that does not acknowledge (limitedCce) or a failure (noParams).
\* blVersion is the version the bootloader reports, ours if it happens to be
\* that of the file.
Chips == [variant   : {"SfP", "JfP", "ThP", "Odd", "TyP", "Unsupported", "Foreign"},
          loader    : {"full", "limitedCce", "noParams", "unknownSbe"},
          blVersion : {"ours", "other"}]
Files == {"absent", "short", "badHeader", "good"}

TLV == hw.variant = "TyP"
SkipsVersionCheck == hw.variant = "SfP"

Ended == {"succeeded", "failed"}
Waits == {"waitTyP", "waitVersion", "waitParams", "waitDownload", "waitBoot",
          "waitDdc", "waitReread", "waitMask"}
Points == Ended \cup Waits \cup
          {"readTyP", "readVersion", "readParams", "getFirmware", "download",
           "resetRetry", "resetFail", "boot", "ddc", "reread", "mask"}

Answered == {"typ", "version", "params", "ddc", "mask"}
Commands == Answered \cup {"verify", "boot", "reset"}
Modes    == {"bootloader", "operational"}
Events   == [to : Commands, mode : Modes, version : {"ours", "other"}]
Unread   == [mode |-> "bootloader", version |-> "other"]

Init == /\ hw \in Chips
        /\ file \in Files
        /\ mode \in Modes
        /\ fw \in {"ours", "other"}
        /\ image = FALSE
        /\ online = TRUE
        /\ commands = <<>>
        /\ events = <<>>
        /\ pc = "readTyP"
        /\ ver = Unread
        /\ params = FALSE
        /\ bootAddr = "default"
        /\ sentFrags = 0
        /\ ddc = 0
        /\ session = 1
        /\ faults = 0
        /\ resetSent = FALSE
        /\ verified = FALSE
        /\ got = "none"
        /\ stray = FALSE

-----------------------------------------------------------------------------
(* Transfers *)

Fault == IF online THEN faults < MaxFaults /\ faults' = faults + 1
                   ELSE UNCHANGED faults

\* sendHCIRequest: a failed transfer may still have reached the chip.
Send(c, next, failure) ==
  \/ /\ online
     /\ commands' = Append(commands, c)
     /\ pc' = next
     /\ UNCHANGED faults
  \/ /\ Fault
     /\ commands' \in {commands} \cup (IF online THEN {Append(commands, c)} ELSE {})
     /\ pc' = failure

\* interruptPipeRead returns the oldest event, which is the answer to `own'
\* if the exchanges are in step.
Receive(own) ==
  /\ events # <<>>
  /\ events' = Tail(events)
  /\ got' = Head(events).to
  /\ stray' = (stray \/ Head(events).to # own)
  /\ UNCHANGED <<commands, faults>>

\* It fails: too early, possibly losing an event that arrives just then, or
\* because there is nothing left that could answer.
NoEvent == /\ \/ Fault
              \/ events = <<>> /\ commands = <<>> /\ UNCHANGED faults
           /\ events' \in {events} \cup (IF events # <<>> THEN {Tail(events)} ELSE {})
           /\ UNCHANGED <<commands, got, stray>>

Rest == UNCHANGED <<fixedVars, chipVars, session>>

-----------------------------------------------------------------------------
(* Reading the version and choosing the way *)

\* The form of the answer to Read Version with parameter 0xff, in mode m.  The
\* platform of an answer that is neither legacy nor TLV is not recognised.
Form(m) == CASE hw.variant \in {"SfP", "JfP"} -> "legacy"
             [] hw.variant = "ThP" -> IF m = "bootloader" THEN "legacy" ELSE "tlv"
             [] hw.variant = "Odd" -> IF m = "bootloader" THEN "legacy" ELSE "odd"
             [] hw.variant = "TyP" -> "tlv"
             [] hw.variant = "Unsupported" -> "unsupported"
             [] hw.variant = "Foreign" -> "odd"

\* The form in which an event is read as a version.
VersionForm(e) == CASE e.to = "typ"     -> Form(e.mode)
                    [] e.to = "version" -> "legacy"
                    [] OTHER            -> "odd"

\* Where setup goes when downloadFirmware returns true: intelBoot, unless the
\* version read at the start said operational.
Proceed == IF ver.mode = "operational" THEN "mask" ELSE "boot"

\* MUTANT of LegacyStart: no early return for SfP and WsP.
LegacyStartNoSkip(v) == IF v.mode = "bootloader" THEN "readParams" ELSE "getFirmware"

\* The start of Gen2's downloadFirmware, for the version v.
LegacyStart(v) == IF v.mode = "bootloader" THEN "readParams"
                  ELSE IF SkipsVersionCheck THEN "mask" ELSE "getFirmware"

ReadVersionTyP == /\ pc = "readTyP"
                  /\ Send("typ", "waitTyP", "failed")
                  /\ Rest
                  /\ UNCHANGED <<events, flowVars, historyVars>>

\* An unrecognised platform is taken for firmware that is already loaded.
VersionTyP == /\ pc = "waitTyP"
              /\ Receive("typ")
              /\ LET e == Head(events)
                     v == [mode |-> e.mode, version |-> e.version]
                 IN /\ ver' = v
                    /\ pc' = CASE VersionForm(e) = "legacy"      -> LegacyStart(v)
                               [] VersionForm(e) = "odd"         -> "succeeded"
                               [] VersionForm(e) = "unsupported" -> "failed"
                               [] VersionForm(e) = "tlv"         ->
                                    IF TLV THEN "getFirmware" ELSE "readVersion"
              /\ Rest
              /\ UNCHANGED <<params, bootAddr, sentFrags, ddc, resetSent, verified>>

ReadVersion == /\ pc = "readVersion"
               /\ Send("version", "waitVersion", "failed")
               /\ Rest
               /\ UNCHANGED <<events, flowVars, historyVars>>

\* readVersion insists on the size of IntelVersion and on nothing else.
VersionSized(e) == VersionForm(e) = "legacy"

Version == /\ pc = "waitVersion"
           /\ Receive("version")
           /\ LET e == Head(events)
                  v == [mode |-> e.mode, version |-> e.version]
              IN IF VersionSized(e) THEN ver' = v /\ pc' = LegacyStart(v)
                                    ELSE pc' = "failed" /\ UNCHANGED ver
           /\ Rest
           /\ UNCHANGED <<params, bootAddr, sentFrags, ddc, resetSent, verified>>

ReadBootParams == /\ pc = "readParams"
                  /\ Send("params", "waitParams", "failed")
                  /\ Rest
                  /\ UNCHANGED <<events, flowVars, historyVars>>

BootParams == /\ pc = "waitParams"
              /\ Receive("params")
              /\ params' = (Head(events).to = "params")
              /\ pc' = IF params' /\ hw.loader \notin {"limitedCce", "noParams"}
                       THEN "getFirmware" ELSE "failed"
              /\ Rest
              /\ UNCHANGED <<ver, bootAddr, sentFrags, ddc, resetSent, verified>>

\* A read of a version or of the boot parameters that fails ends the setup.
ReadFails == /\ pc \in {"waitTyP", "waitVersion", "waitParams", "waitReread"}
             /\ NoEvent
             /\ pc' = "failed"
             /\ Rest
             /\ UNCHANGED <<flowVars, resetSent, verified>>

-----------------------------------------------------------------------------
(* Downloading *)

\* MUTANT of StartDownload: the check of fw_variant / img_type is dropped.
StartDownloadAnyMode == IF TLV /\ file = "badHeader" THEN "resetRetry"
                        ELSE IF TLV /\ hw.loader = "unknownSbe" THEN "waitDownload"
                        ELSE "download"

\* The rest of downloadFirmwareData, once the versions are known to differ.
\* All its failures lead to resetRetry.
StartDownload == IF ver.mode = "operational" THEN "resetRetry"
                 ELSE IF TLV /\ file = "badHeader" THEN "resetRetry"
                 ELSE IF TLV /\ hw.loader = "unknownSbe" THEN "waitDownload"
                 ELSE "download"

\* The file is looked up and looked at: its size, then its version, which
\* also yields the boot address.
FetchFirmware ==
  /\ pc = "getFirmware"
  /\ bootAddr' = IF file \in {"badHeader", "good"} /\ ~SkipsVersionCheck
                 THEN "image" ELSE bootAddr
  /\ pc' = CASE file = "absent" ->
                  IF ver.mode = "operational" THEN "mask" ELSE "failed"
             [] file = "short" -> "failed"
             [] OTHER ->
                  IF ver.version = "ours" /\ ~SkipsVersionCheck
                  THEN Proceed ELSE StartDownload
  /\ Rest
  /\ UNCHANGED <<commands, events, faults, ver, params, sentFrags, ddc, historyVars>>

\* The chip verifies the image once it has all of it.
Written(n) == IF n = Fragments THEN Append(commands, "verify") ELSE commands

\* MUTANT of Downloading: one fragment too many.
DownloadingTooLong(n) == IF n > Fragments THEN "waitDownload" ELSE "download"

Downloading(n) == IF n = Fragments THEN "waitDownload" ELSE "download"

\* One secure-send fragment: a bulk write and the read of its acknowledgement,
\* which a limited bootloader does not send.
SendFragment ==
  /\ pc = "download"
  /\ \/ /\ online /\ hw.loader # "limitedCce"
        /\ sentFrags' = sentFrags + 1
        /\ commands' = Written(sentFrags + 1)
        /\ pc' = Downloading(sentFrags')
        /\ UNCHANGED faults
     \/ /\ Fault \/ (hw.loader = "limitedCce" /\ UNCHANGED faults)
        /\ sentFrags' \in {sentFrags, sentFrags + 1}
        /\ commands' = IF sentFrags' = sentFrags THEN commands ELSE Written(sentFrags')
        /\ pc' = "resetRetry"
  /\ Rest
  /\ UNCHANGED <<events, ver, params, bootAddr, ddc, historyVars>>

DownloadNotified == /\ pc = "waitDownload"
                    /\ Receive("verify")
                    /\ verified' = (Head(events).to = "verify")
                    /\ pc' = IF verified' THEN Proceed ELSE "failed"
                    /\ Rest
                    /\ UNCHANGED <<flowVars, resetSent>>

\* MUTANT of DownloadTimeout: boot all the same.
DownloadTimeoutIgnored == /\ pc = "waitDownload"
                          /\ NoEvent
                          /\ pc' = "boot"
                          /\ Rest
                          /\ UNCHANGED <<flowVars, resetSent, verified>>

DownloadTimeout == /\ pc = "waitDownload"
                   /\ NoEvent
                   /\ pc' = "resetFail"
                   /\ Rest
                   /\ UNCHANGED <<flowVars, resetSent, verified>>

\* resetToBootloader, from the failures that then fail the setup ...
ResetAndFail == /\ pc = "resetFail"
                /\ Send("reset", "failed", "failed")
                /\ resetSent' = TRUE
                /\ Rest
                /\ UNCHANGED <<events, flowVars, verified, got, stray>>

\* MUTANT of ResetToRetry: the reset is left out.
RetryWithoutReset == /\ pc = "resetRetry"
                     /\ pc' = Proceed
                     /\ Rest
                     /\ UNCHANGED <<commands, events, faults, flowVars, historyVars>>

\* ... and from a failed download, after which ret is still true.
ResetToRetry == /\ pc = "resetRetry"
                /\ Send("reset", Proceed, Proceed)
                /\ resetSent' = TRUE
                /\ Rest
                /\ UNCHANGED <<events, flowVars, verified, got, stray>>

-----------------------------------------------------------------------------
(* Booting and configuring *)

\* sendIntelReset with the boot address.
Boot == /\ pc = "boot"
        /\ Send("boot", "waitBoot", "resetFail")
        /\ Rest
        /\ UNCHANGED <<events, flowVars, historyVars>>

\* The DDC file has any number of entries, none if it is not there.
BootNotified == /\ pc = "waitBoot"
                /\ Receive("boot")
                /\ ddc' \in 0 .. MaxDdc
                /\ pc' = IF Head(events).to # "boot" THEN "failed"
                         ELSE IF ddc' > 0 THEN "ddc" ELSE "reread"
                /\ Rest
                /\ UNCHANGED <<ver, params, bootAddr, sentFrags, resetSent, verified>>

\* MUTANT of BootFails: the result of intelBoot is ignored.
BootFailsIgnored == /\ pc = "waitBoot"
                    /\ NoEvent
                    /\ pc' = "reread"
                    /\ Rest
                    /\ UNCHANGED <<flowVars, resetSent, verified>>

\* MUTANT of BootFails: the wait for the boot notification has no deadline.
BootWaitsForever == FALSE

\* A timeout resets the chip, any other error does not.
BootFails == /\ pc = "waitBoot"
             /\ NoEvent
             /\ pc' \in {"resetFail", "failed"}
             /\ Rest
             /\ UNCHANGED <<flowVars, resetSent, verified>>

\* MUTANT of WriteDdc: the entries are sent without reading the answers.
WriteDdcNoAnswer == /\ pc = "ddc"
                    /\ Send("ddc", "reread", "reread")
                    /\ Rest
                    /\ UNCHANGED <<events, flowVars, historyVars>>

\* loadDDCConfig: an entry that fails ends the loading, not the setup.
WriteDdc == /\ pc = "ddc"
            /\ Send("ddc", "waitDdc", "reread")
            /\ Rest
            /\ UNCHANGED <<events, flowVars, historyVars>>

DdcWritten == /\ pc = "waitDdc"
              /\ Receive("ddc")
              /\ ddc' = ddc - 1
              /\ pc' = IF ddc' > 0 THEN "ddc" ELSE "reread"
              /\ Rest
              /\ UNCHANGED <<ver, params, bootAddr, sentFrags, resetSent, verified>>

DdcFails == /\ pc = "waitDdc"
            /\ NoEvent
            /\ pc' = "reread"
            /\ Rest
            /\ UNCHANGED <<flowVars, resetSent, verified>>

Reread == /\ pc = "reread"
          /\ Send(IF TLV THEN "typ" ELSE "version", "waitReread", "failed")
          /\ Rest
          /\ UNCHANGED <<events, flowVars, historyVars>>

\* readVersionTLV takes any event, readVersion only one of the right size.
VersionReread == /\ pc = "waitReread"
                 /\ Receive(IF TLV THEN "typ" ELSE "version")
                 /\ pc' = IF TLV \/ VersionSized(Head(events)) THEN "mask" ELSE "failed"
                 /\ Rest
                 /\ UNCHANGED <<flowVars, resetSent, verified>>

\* setEventMask: its failure is ignored.
SetEventMask == /\ pc = "mask"
                /\ Send("mask", "waitMask", "succeeded")
                /\ Rest
                /\ UNCHANGED <<events, flowVars, historyVars>>

MaskAnswered == /\ pc = "waitMask"
                /\ Receive("mask") \/ NoEvent
                /\ pc' = "succeeded"
                /\ Rest
                /\ UNCHANGED <<flowVars, resetSent, verified>>

-----------------------------------------------------------------------------
(* The chip *)

Work(c) == /\ online
           /\ commands # <<>>
           /\ Head(commands) = c
           /\ UNCHANGED <<fixedVars, pc, flowVars, session, faults, historyVars>>

Event(c, m, v) == [to |-> c, mode |-> m, version |-> v]

Reported == IF mode = "operational" THEN fw ELSE hw.blVersion

ChipAnswers == \E c \in Answered :
  /\ Work(c)
  /\ commands' = Tail(commands)
  /\ events' = Append(events, Event(c, mode, Reported))
  /\ UNCHANGED chipVars

\* A file with a bad header never verifies: nothing is notified, or a failure,
\* which setup does not tell from a success.
ChipVerifies ==
  /\ Work("verify")
  /\ commands' = Tail(commands)
  /\ image' = (file = "good")
  /\ LET notified == Append(events, Event("verify", mode, Reported))
     IN events' \in {notified} \cup (IF image' THEN {} ELSE {events})
  /\ UNCHANGED <<mode, fw, online>>

\* Without a verified image there is nothing to boot and nothing is notified.
ChipBoots ==
  /\ Work("boot")
  /\ commands' = Tail(commands)
  /\ IF image THEN /\ mode' = "operational"
                   /\ fw' = "ours"
                   /\ events' = Append(events, Event("boot", mode', fw'))
              ELSE UNCHANGED <<mode, fw, events>>
  /\ UNCHANGED <<image, online>>

ChipResets ==
  /\ Work("reset")
  /\ commands' = <<>>
  /\ events' = <<>>
  /\ mode' = "bootloader"
  /\ image' = FALSE
  /\ online' = FALSE
  /\ UNCHANGED fw

\* The chip is back on the bus and a new instance of the driver starts.
Reenumerate ==
  /\ ~online
  /\ pc \in Ended
  /\ session < MaxSessions
  /\ session' = session + 1
  /\ online' = TRUE
  /\ pc' = "readTyP"
  /\ ver' = Unread
  /\ params' = FALSE
  /\ bootAddr' = "default"
  /\ sentFrags' = 0
  /\ ddc' = 0
  /\ resetSent' = FALSE
  /\ verified' = FALSE
  /\ got' = "none"
  /\ stray' = FALSE
  /\ UNCHANGED <<fixedVars, mode, fw, image, commands, events, faults>>

-----------------------------------------------------------------------------

Driver == \/ ReadVersionTyP \/ VersionTyP \/ ReadVersion \/ Version
          \/ ReadBootParams \/ BootParams \/ ReadFails
          \/ FetchFirmware \/ SendFragment \/ DownloadNotified \/ DownloadTimeout
          \/ ResetAndFail \/ ResetToRetry
          \/ Boot \/ BootNotified \/ BootFails
          \/ WriteDdc \/ DdcWritten \/ DdcFails \/ Reread \/ VersionReread
          \/ SetEventMask \/ MaskAnswered

Chip == ChipAnswers \/ ChipVerifies \/ ChipBoots \/ ChipResets

\* The last setup has ended and the chip has nothing left to do.
Done == /\ pc \in Ended
        /\ commands = <<>>
        /\ online \/ session = MaxSessions
        /\ UNCHANGED vars

Next == Driver \/ Chip \/ Reenumerate \/ Done

\* The driver's thread runs, the chip works, and a chip that has left comes back.
Spec == Init /\ [][Next]_vars /\ WF_vars(Driver) /\ WF_vars(Chip) /\ WF_vars(Reenumerate)

-----------------------------------------------------------------------------
(* Properties *)

\* Every variable stays in its range.
TypeOK == /\ hw \in Chips
          /\ file \in Files
          /\ mode \in Modes
          /\ fw \in {"ours", "other"}
          /\ image \in BOOLEAN
          /\ online \in BOOLEAN
          /\ commands \in Seq(Commands)
          /\ events \in Seq(Events)
          /\ pc \in Points
          /\ ver \in [mode : Modes, version : {"ours", "other"}]
          /\ params \in BOOLEAN
          /\ bootAddr \in {"default", "image"}
          /\ sentFrags \in 0 .. Fragments
          /\ ddc \in 0 .. MaxDdc
          /\ session \in 1 .. MaxSessions
          /\ faults \in 0 .. MaxFaults
          /\ resetSent \in BOOLEAN
          /\ verified \in BOOLEAN
          /\ got \in Commands \cup {"none"}
          /\ stray \in BOOLEAN

\* setup returns true only when the controller runs operational firmware, or
\* when it found it operational and reset it on purpose to replace that; a
\* platform it does not know it leaves as it is.
SuccessMeansOperational ==
  pc = "succeeded" => \/ mode = "operational"
                      \/ ver.mode = "operational" /\ resetSent
                      \/ hw.variant = "Foreign" /\ sentFrags = 0 /\ ~resetSent

\* Secure-send fragments only go to a bootloader, and only when the boot
\* parameters or the version answer said it was one.
DownloadToBootloader == pc = "download" => mode = "bootloader" /\ ver.mode = "bootloader"

\* Unless the download failed or the bootloader claims our version, the boot
\* command is given only after the download-done notification.
BootVerified == pc \in {"boot", "waitBoot"} =>
                  verified \/ resetSent \/ ver.version = "ours"

\* The name of a SfP or WsP file is made of dev_revid: it is only made once
\* readBootParams has filled params in.
ParamsKnown == SkipsVersionCheck /\ pc \in {"getFirmware", "boot", "ddc"} => params

\* Nothing matches events to commands, yet as long as no transfer has failed
\* every event read is the answer to the command just sent.
InStep == stray => faults > 0

\* Every setup comes to an end.
SetupEnds == pc \notin Ended ~> pc \in Ended

\* Without faults, a supported controller for which there is a firmware file
\* ends up running that firmware, whatever it ran before.
Eligible == /\ hw.variant \in {"JfP", "ThP", "TyP"}
            /\ hw.loader = "full"
            /\ hw.blVersion = "other"
            /\ file = "good"
Converges == Eligible =>
  <>[](faults > 0 \/ (pc = "succeeded" /\ mode = "operational" /\ fw = "ours"))

\* "Before switching the device into operational mode ..., wait for the
\* bootloader notification that all fragments have been successfully received."
\* (A bootloader that claims the file's version already is left out here.)
BootAfterNotification == pc = "waitBoot" /\ ver.version = "other" => verified

\* "The device can work without DDC parameters, so even if it fails to load the
\* file, no need to fail the setup."  So a setup does not fail because the
\* answer to a DDC entry turns up in place of another one.
DdcNeverFails == pc = "failed" => ~(stray /\ got = "ddc")

\* "If the boot parameters indicate that this bootloader does not send them,
\* then abort the setup."
LimitedCceAborts == hw.loader = "limitedCce" => sentFrags = 0

\* "... and it is updated to SKU specific boot parameter after reading
\* Intel_Write_Boot_Params command while downloading the firmware."
BootAddressUpdated == pc = "waitBoot" /\ verified => bootAddr = "image"
=============================================================================
