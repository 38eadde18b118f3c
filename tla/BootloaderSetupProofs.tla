----------------------- MODULE BootloaderSetupProofs -----------------------
(***************************************************************************)
(* Proofs about BootloaderSetup, for any number of fragments, DDC entries, *)
(* faults and enumerations.                                                *)
(*                                                                         *)
(* The argument: up to the boot command nothing changes the controller's   *)
(* mode, so every event tells the present one and so does what setup read. *)
(* After it a notification means that the controller has booted and that   *)
(* no reset is under way, because the controller works in order and a      *)
(* reset sent before would have come first, taking the notification with   *)
(* it.                                                                     *)
(***************************************************************************)
EXTENDS BootloaderSetup, SequenceLemmas

\* Control points before the boot command, or from which there is none.
Fresh == {"readTyP", "waitTyP"}
Early == Fresh \cup {"readVersion", "waitVersion", "readParams", "waitParams",
                     "getFirmware", "download", "waitDownload", "resetRetry"}

\* The fragments and the DDC entries that are left.
Counts ==
  /\ pc \in Early \ {"download", "waitDownload", "resetRetry"} => sentFrags = 0
  /\ pc = "download" => /\ sentFrags < Fragments
                        /\ hw.loader = "limitedCce" => sentFrags = 0
  /\ pc \in {"ddc", "waitDdc"} => ddc > 0

\* A controller that is off the bus has dropped everything.
Dropped == ~online => commands = <<>> /\ events = <<>>

\* No boot notification is under way or to be expected.
NoBoot == /\ "boot" \notin Range(commands)
          /\ \A e \in Range(events) : e.to # "boot"

\* It runs operational firmware and will not be reset.
Operational == mode = "operational" /\ "reset" \notin Range(commands)

\* Before the boot command.
Before ==
  /\ pc \in Early => /\ online
                     /\ NoBoot
                     /\ "reset" \notin Range(commands)
                     /\ \A e \in Range(events) : e.mode = mode
  /\ pc \in Fresh => /\ ~resetSent
                     /\ Range(commands) \subseteq {"typ"}
                     /\ \A e \in Range(events) : e.to = "typ"
  /\ pc \in Early \ Fresh => ver.mode = mode
  /\ pc \in {"readParams", "waitParams", "download", "waitDownload"} =>
       ver.mode = "bootloader"

\* A platform that is not known.
Untouched == hw.variant = "Foreign" /\ sentFrags = 0 /\ ~resetSent

\* From the boot command on.
After ==
  /\ pc = "boot" => NoBoot
  /\ pc = "waitBoot" => /\ NoneBehind(commands, "boot", "reset")
                        /\ (\E e \in Range(events) : e.to = "boot") => Operational
  /\ pc \in {"ddc", "waitDdc", "reread", "waitReread"} => Operational
  /\ pc \in {"mask", "waitMask", "succeeded"} =>
       \/ Operational
       \/ ver.mode = "operational" /\ resetSent
       \/ pc = "succeeded" /\ Untouched

\* Where params matters to a SfP or WsP controller.
Params == SkipsVersionCheck /\ pc \in {"getFirmware", "download", "waitDownload",
            "resetRetry", "boot", "waitBoot", "ddc", "waitDdc"} => params

IInv == TypeOK /\ Counts /\ Dropped /\ Before /\ After /\ Params /\ BootVerified

-----------------------------------------------------------------------------
(* The exchanges, as long as no transfer has failed *)

\* The command whose answer a control point awaits.
Own == CASE pc = "waitTyP"      -> "typ"
         [] pc = "waitVersion"  -> "version"
         [] pc = "waitParams"   -> "params"
         [] pc = "waitDownload" -> "verify"
         [] pc = "waitBoot"     -> "boot"
         [] pc = "waitDdc"      -> "ddc"
         [] pc = "waitReread"   -> IF TLV THEN "typ" ELSE "version"
         [] pc = "waitMask"     -> "mask"

\* Nothing to read, and nothing that will come before a reset.
Quiet == events = <<>> /\ (commands = <<>> \/ Head(commands) = "reset")

\* One answer to come, or there, or never.
Awaiting(own) == \/ Quiet
                 \/ events = <<>> /\ commands = <<own>>
                 \/ commands = <<>> /\ \E e \in Events : e.to = own /\ events = <<e>>

Exchanges ==
  faults = 0 => /\ ~stray
                /\ pc \in Waits => Awaiting(Own)
                /\ pc \notin Waits \cup Ended \cup {"resetFail"} => Quiet

-----------------------------------------------------------------------------
(* Types *)

\* What the exchanges do to the queues.
LEMMA SendQueues ==
  ASSUME TypeOK, NEW c \in Commands, NEW next, NEW failure, Send(c, next, failure)
  PROVE  /\ commands' \in {commands, Append(commands, c)}
         /\ commands' \in Seq(Commands)
         /\ Range(commands') \subseteq Range(commands) \cup {c}
         /\ commands' # commands => online
         /\ faults' \in 0 .. MaxFaults
         /\ pc' \in {next, failure}
<1>1. commands' \in {commands, Append(commands, c)} /\ pc' \in {next, failure}
  BY DEF Send
<1>2. commands' # commands => online
  BY DEF Send
<1>3. faults' \in 0 .. MaxFaults
  BY BootloaderSetupAssumption DEF Send, Fault, TypeOK
<1>4. commands \in Seq(Commands)
  BY DEF TypeOK
<1>5. Append(commands, c) \in Seq(Commands) /\ Range(Append(commands, c)) = Range(commands) \cup {c}
  BY <1>4, RangeAppend, AppendProperties
<1>6. QED
  BY <1>1, <1>2, <1>3, <1>4, <1>5

\* Reading an event takes it off the queue and leaves the commands alone.
LEMMA ReceiveQueues ==
  ASSUME TypeOK, NEW own, Receive(own)
  PROVE  /\ Head(events) \in Events
         /\ Head(events) \in Range(events)
         /\ events' \in Seq(Events)
         /\ Range(events') \subseteq Range(events)
         /\ got' \in Commands /\ stray' \in BOOLEAN
         /\ UNCHANGED <<commands, faults>>
<1>1. events \in Seq(Events) /\ events # <<>> /\ events' = Tail(events)
  BY DEF Receive, TypeOK
<1>2. Head(events) \in Events /\ Head(events) \in Range(events)
      /\ events' \in Seq(Events) /\ Range(events') \subseteq Range(events)
  BY <1>1, RangeHeadTail
<1>3. got' \in Commands
  BY <1>2 DEF Receive, Events
<1>4. stray' \in BOOLEAN
  BY DEF Receive, TypeOK
<1>5. QED
  BY <1>2, <1>3, <1>4 DEF Receive

\* A read that fails may lose the oldest event and nothing else.
LEMMA NoEventQueues ==
  ASSUME TypeOK, NoEvent
  PROVE  /\ events' \in Seq(Events)
         /\ Range(events') \subseteq Range(events)
         /\ faults' \in 0 .. MaxFaults
         /\ UNCHANGED <<commands, got, stray>>
<1>1. events \in Seq(Events)
  BY DEF TypeOK
<1>2. CASE events' = events
  BY <1>1, <1>2, BootloaderSetupAssumption DEF NoEvent, Fault, TypeOK
<1>3. CASE events # <<>> /\ events' = Tail(events)
  <2>1. events' \in Seq(Events) /\ Range(events') \subseteq Range(events)
    BY <1>1, <1>3, RangeHeadTail
  <2>2. QED
    BY <2>1, BootloaderSetupAssumption DEF NoEvent, Fault, TypeOK
<1>4. QED
  BY <1>2, <1>3 DEF NoEvent

\* The controller takes the oldest command.
LEMMA WorkQueues ==
  ASSUME TypeOK, NEW c, Work(c)
  PROVE  /\ commands # <<>> /\ Head(commands) = c /\ c \in Range(commands) /\ online
         /\ Tail(commands) \in Seq(Commands)
         /\ Range(Tail(commands)) \subseteq Range(commands)
  BY RangeHeadTail DEF Work, TypeOK

\* An answer joins the events that are there.
LEMMA EventAppended ==
  ASSUME TypeOK, NEW c \in Commands
  PROVE  Range(Append(events, Event(c, mode, Reported)))
           = Range(events) \cup {Event(c, mode, Reported)}
<1>1. Event(c, mode, Reported) \in Events
  BY DEF TypeOK, Events, Event, Reported, Chips, Modes
<1>2. QED
  BY <1>1, RangeAppend DEF TypeOK

\* A version answer has one of four forms.
LEMMA VersionForms ==
  ASSUME TypeOK
  PROVE  \A e : VersionForm(e) \in {"legacy", "odd", "unsupported", "tlv"}
  BY DEF VersionForm, Form, TypeOK, Chips

\* Every step keeps the variables in range.
LEMMA StepTypeOK == TypeOK /\ Counts /\ [Next]_vars => TypeOK'
<1> SUFFICES ASSUME TypeOK, Counts, [Next]_vars PROVE TypeOK'
  OBVIOUS
<1> USE DEF TypeOK, Counts, Rest, fixedVars, chipVars, flowVars, historyVars,
            Points, Ended, Waits, Commands, Answered, Proceed, LegacyStart
<1>1. CASE ReadVersionTyP
  BY <1>1, SendQueues DEF ReadVersionTyP
<1>2. CASE VersionTyP
  <2>1. ver' \in [mode : Modes, version : {"ours", "other"}]
    BY <1>2, ReceiveQueues DEF VersionTyP, Events
  <2>2. pc' \in Points
    BY <1>2, VersionForms DEF VersionTyP
  <2>3. QED
    BY <1>2, <2>1, <2>2, ReceiveQueues DEF VersionTyP
<1>3. CASE ReadVersion
  BY <1>3, SendQueues DEF ReadVersion
<1>4. CASE Version
  <2>1. ver' \in [mode : Modes, version : {"ours", "other"}]
    BY <1>4, ReceiveQueues DEF Version, Events
  <2>2. QED
    BY <1>4, <2>1, ReceiveQueues DEF Version
<1>5. CASE ReadBootParams
  BY <1>5, SendQueues DEF ReadBootParams
<1>6. CASE BootParams
  BY <1>6, ReceiveQueues DEF BootParams
<1>7. CASE ReadFails
  BY <1>7, NoEventQueues DEF ReadFails
<1>8. CASE FetchFirmware
  BY <1>8 DEF FetchFirmware, StartDownload
<1>9. CASE SendFragment
  <2>1. sentFrags' \in 0 .. Fragments
    BY <1>9, BootloaderSetupAssumption DEF SendFragment
  <2>2. faults' \in 0 .. MaxFaults
    BY <1>9, BootloaderSetupAssumption DEF SendFragment, Fault
  <2>3. commands' \in Seq(Commands)
    <3>1. Append(commands, "verify") \in Seq(Commands)
      BY AppendProperties
    <3>2. QED
      BY <1>9, <3>1 DEF SendFragment, Written
  <2>4. pc' \in Points
    BY <1>9 DEF SendFragment, Downloading
  <2>5. QED
    BY <1>9, <2>1, <2>2, <2>3, <2>4 DEF SendFragment
<1>10. CASE DownloadNotified
  BY <1>10, ReceiveQueues DEF DownloadNotified
<1>11. CASE DownloadTimeout
  BY <1>11, NoEventQueues DEF DownloadTimeout
<1>12. CASE ResetAndFail
  BY <1>12, SendQueues DEF ResetAndFail
<1>13. CASE ResetToRetry
  BY <1>13, SendQueues DEF ResetToRetry
<1>14. CASE Boot
  BY <1>14, SendQueues DEF Boot
<1>15. CASE BootNotified
  BY <1>15, ReceiveQueues DEF BootNotified
<1>16. CASE BootFails
  BY <1>16, NoEventQueues DEF BootFails
<1>17. CASE WriteDdc
  BY <1>17, SendQueues DEF WriteDdc
<1>18. CASE DdcWritten
  BY <1>18, ReceiveQueues, BootloaderSetupAssumption DEF DdcWritten
<1>19. CASE DdcFails
  BY <1>19, NoEventQueues DEF DdcFails
<1>20. CASE Reread
  BY <1>20, SendQueues DEF Reread
<1>21. CASE VersionReread
  BY <1>21, ReceiveQueues DEF VersionReread
<1>22. CASE SetEventMask
  BY <1>22, SendQueues DEF SetEventMask
<1>23. CASE MaskAnswered
  BY <1>23, ReceiveQueues, NoEventQueues DEF MaskAnswered
<1>24. CASE ChipAnswers
  <2>1. \A c \in Answered : Event(c, mode, Reported) \in Events
    BY DEF Events, Event, Reported, Chips, Modes
  <2>2. events' \in Seq(Events)
    BY <1>24, <2>1, AppendProperties DEF ChipAnswers
  <2>3. QED
    BY <1>24, <2>2, WorkQueues DEF ChipAnswers, Work
<1>25. CASE ChipVerifies
  <2>1. Event("verify", mode, Reported) \in Events
    BY DEF Events, Event, Reported, Chips, Modes
  <2>2. events' = events \/ events' = Append(events, Event("verify", mode, Reported))
    BY <1>25 DEF ChipVerifies
  <2>3. events' \in Seq(Events)
    BY <2>1, <2>2, AppendProperties
  <2>4. QED
    BY <1>25, <2>3, WorkQueues DEF ChipVerifies, Work
<1>26. CASE ChipBoots
  <2>1. Event("boot", "operational", "ours") \in Events
    BY DEF Events, Event, Reported, Chips, Modes
  <2>2. events' \in Seq(Events)
    <3>1. CASE image
      <4>1. events' = Append(events, Event("boot", "operational", "ours"))
        BY <1>26, <3>1 DEF ChipBoots
      <4>2. QED
        BY <2>1, <4>1, AppendProperties
    <3>2. CASE ~image
      BY <1>26, <3>2 DEF ChipBoots
    <3>3. QED
      BY <3>1, <3>2
  <2>3. QED
    <3>1. mode' \in Modes /\ fw' \in {"ours", "other"}
      BY <1>26 DEF ChipBoots, Modes
    <3>2. commands' = Tail(commands) /\ UNCHANGED <<image, online>>
      BY <1>26 DEF ChipBoots
    <3>3. QED
      BY <1>26, <2>2, <3>1, <3>2, WorkQueues DEF ChipBoots, Work
<1>27. CASE ChipResets
  <2>1. <<>> \in Seq(Commands) /\ <<>> \in Seq(Events)
    BY EmptySeq
  <2>2. image' \in BOOLEAN /\ online' \in BOOLEAN
    BY <1>27, Zenon DEF ChipResets
  <2>3. QED
    BY <1>27, <2>1, <2>2 DEF ChipResets, Work, Modes
<1>28. CASE Reenumerate
  <2>1. session' \in 1 .. MaxSessions /\ 0 \in 0 .. Fragments /\ 0 \in 0 .. MaxDdc
    BY <1>28, BootloaderSetupAssumption DEF Reenumerate
  <2>2. Unread \in [mode : Modes, version : {"ours", "other"}]
    BY DEF Unread, Modes
  <2>3. QED
    BY <1>28, <2>1, <2>2 DEF Reenumerate
<1>29. CASE Done
  BY <1>29 DEF Done, vars
<1>30. CASE UNCHANGED vars
  BY <1>30 DEF vars
<1>31. QED
  BY <1>1, <1>2, <1>3, <1>4, <1>5, <1>6, <1>7, <1>8, <1>9, <1>10, <1>11, <1>12, <1>13,
     <1>14, <1>15, <1>16, <1>17, <1>18, <1>19, <1>20, <1>21, <1>22, <1>23, <1>24, <1>25,
     <1>26, <1>27, <1>28, <1>29, <1>30
     DEF Next, Driver, Chip

-----------------------------------------------------------------------------
(* One step and one part of the invariant at a time *)

\* Every step keeps the fragments and DDC entries counted right.
LEMMA StepCounts == TypeOK /\ Counts /\ [Next]_vars => Counts'
<1> SUFFICES ASSUME TypeOK, Counts, [Next]_vars PROVE Counts'
  OBVIOUS
<1> USE DEF Counts, Early, Fresh, Rest, fixedVars, chipVars, flowVars,
            historyVars, Ended, Waits, Proceed, LegacyStart
<1>1. CASE ReadVersionTyP
  BY <1>1 DEF ReadVersionTyP, Send
<1>2. CASE VersionTyP
  BY <1>2, VersionForms DEF VersionTyP, Receive
<1>3. CASE ReadVersion
  BY <1>3 DEF ReadVersion, Send
<1>4. CASE Version
  BY <1>4 DEF Version, Receive
<1>5. CASE ReadBootParams
  BY <1>5 DEF ReadBootParams, Send
<1>6. CASE BootParams
  BY <1>6 DEF BootParams, Receive
<1>7. CASE ReadFails
  BY <1>7 DEF ReadFails, NoEvent
<1>8. CASE FetchFirmware
  BY <1>8, BootloaderSetupAssumption DEF FetchFirmware, StartDownload
<1>9. CASE SendFragment
  BY <1>9, BootloaderSetupAssumption DEF SendFragment, Downloading, TypeOK
<1>10. CASE DownloadNotified
  BY <1>10 DEF DownloadNotified, Receive
<1>11. CASE DownloadTimeout
  BY <1>11 DEF DownloadTimeout, NoEvent
<1>12. CASE ResetAndFail
  BY <1>12 DEF ResetAndFail, Send
<1>13. CASE ResetToRetry
  BY <1>13 DEF ResetToRetry, Send
<1>14. CASE Boot
  BY <1>14 DEF Boot, Send
<1>15. CASE BootNotified
  BY <1>15 DEF BootNotified, Receive, TypeOK
<1>16. CASE BootFails
  BY <1>16 DEF BootFails, NoEvent
<1>17. CASE WriteDdc
  BY <1>17 DEF WriteDdc, Send
<1>18. CASE DdcWritten
  BY <1>18 DEF DdcWritten, Receive, TypeOK
<1>19. CASE DdcFails
  BY <1>19 DEF DdcFails, NoEvent
<1>20. CASE Reread
  BY <1>20 DEF Reread, Send
<1>21. CASE VersionReread
  BY <1>21 DEF VersionReread, Receive
<1>22. CASE SetEventMask
  BY <1>22 DEF SetEventMask, Send
<1>23. CASE MaskAnswered
  BY <1>23 DEF MaskAnswered, Receive, NoEvent
<1>24. CASE ChipAnswers
  BY <1>24 DEF ChipAnswers, Work
<1>25. CASE ChipVerifies
  BY <1>25 DEF ChipVerifies, Work
<1>26. CASE ChipBoots
  BY <1>26 DEF ChipBoots, Work
<1>27. CASE ChipResets
  BY <1>27 DEF ChipResets, Work
<1>28. CASE Reenumerate
  BY <1>28 DEF Reenumerate
<1>29. CASE Done
  BY <1>29 DEF Done, vars
<1>30. CASE UNCHANGED vars
  BY <1>30 DEF vars
<1>31. QED
  BY <1>1, <1>2, <1>3, <1>4, <1>5, <1>6, <1>7, <1>8, <1>9, <1>10, <1>11, <1>12, <1>13,
     <1>14, <1>15, <1>16, <1>17, <1>18, <1>19, <1>20, <1>21, <1>22, <1>23, <1>24, <1>25,
     <1>26, <1>27, <1>28, <1>29, <1>30
     DEF Next, Driver, Chip

\* A controller that leaves the bus drops everything, and nothing is added
\* until it is back.
LEMMA StepDropped == TypeOK /\ Before /\ Dropped /\ [Next]_vars => Dropped'
<1> SUFFICES ASSUME TypeOK, Before, Dropped, [Next]_vars PROVE Dropped'
  OBVIOUS
<1> USE DEF Dropped, Rest, fixedVars, chipVars, flowVars, historyVars, Ended,
            Waits, Proceed, LegacyStart
<1>1. CASE ReadVersionTyP
  BY <1>1 DEF ReadVersionTyP, Send
<1>2. CASE VersionTyP
  BY <1>2 DEF VersionTyP, Receive
<1>3. CASE ReadVersion
  BY <1>3 DEF ReadVersion, Send
<1>4. CASE Version
  BY <1>4 DEF Version, Receive
<1>5. CASE ReadBootParams
  BY <1>5 DEF ReadBootParams, Send
<1>6. CASE BootParams
  BY <1>6 DEF BootParams, Receive
<1>7. CASE ReadFails
  BY <1>7 DEF ReadFails, NoEvent
<1>8. CASE FetchFirmware
  BY <1>8 DEF FetchFirmware
<1>9. CASE SendFragment
  BY <1>9 DEF SendFragment, Before, Early
<1>10. CASE DownloadNotified
  BY <1>10 DEF DownloadNotified, Receive
<1>11. CASE DownloadTimeout
  BY <1>11 DEF DownloadTimeout, NoEvent
<1>12. CASE ResetAndFail
  BY <1>12 DEF ResetAndFail, Send
<1>13. CASE ResetToRetry
  BY <1>13 DEF ResetToRetry, Send
<1>14. CASE Boot
  BY <1>14 DEF Boot, Send
<1>15. CASE BootNotified
  BY <1>15 DEF BootNotified, Receive
<1>16. CASE BootFails
  BY <1>16 DEF BootFails, NoEvent
<1>17. CASE WriteDdc
  BY <1>17 DEF WriteDdc, Send
<1>18. CASE DdcWritten
  BY <1>18 DEF DdcWritten, Receive
<1>19. CASE DdcFails
  BY <1>19 DEF DdcFails, NoEvent
<1>20. CASE Reread
  BY <1>20 DEF Reread, Send
<1>21. CASE VersionReread
  BY <1>21 DEF VersionReread, Receive
<1>22. CASE SetEventMask
  BY <1>22 DEF SetEventMask, Send
<1>23. CASE MaskAnswered
  BY <1>23 DEF MaskAnswered, Receive, NoEvent
<1>24. CASE ChipAnswers
  BY <1>24 DEF ChipAnswers, Work
<1>25. CASE ChipVerifies
  BY <1>25 DEF ChipVerifies, Work
<1>26. CASE ChipBoots
  BY <1>26 DEF ChipBoots, Work
<1>27. CASE ChipResets
  BY <1>27 DEF ChipResets, Work
<1>28. CASE Reenumerate
  BY <1>28 DEF Reenumerate
<1>29. CASE Done
  BY <1>29 DEF Done, vars
<1>30. CASE UNCHANGED vars
  BY <1>30 DEF vars
<1>31. QED
  BY <1>1, <1>2, <1>3, <1>4, <1>5, <1>6, <1>7, <1>8, <1>9, <1>10, <1>11, <1>12, <1>13,
     <1>14, <1>15, <1>16, <1>17, <1>18, <1>19, <1>20, <1>21, <1>22, <1>23, <1>24, <1>25,
     <1>26, <1>27, <1>28, <1>29, <1>30
     DEF Next, Driver, Chip

\* SfP and WsP reach the download only through reading the boot parameters.
LEMMA StepParams == TypeOK /\ Params /\ [Next]_vars => Params'
<1> SUFFICES ASSUME TypeOK, Params, [Next]_vars PROVE Params'
  OBVIOUS
<1> USE DEF Params, SkipsVersionCheck, Rest, fixedVars, chipVars, flowVars,
            historyVars, Ended, Waits, Proceed, LegacyStart
<1>1. CASE ReadVersionTyP
  BY <1>1 DEF ReadVersionTyP, Send
<1>2. CASE VersionTyP
  BY <1>2, VersionForms DEF VersionTyP, Receive, VersionForm, Form, TLV
<1>3. CASE ReadVersion
  BY <1>3 DEF ReadVersion, Send
<1>4. CASE Version
  BY <1>4 DEF Version, Receive
<1>5. CASE ReadBootParams
  BY <1>5 DEF ReadBootParams, Send
<1>6. CASE BootParams
  BY <1>6 DEF BootParams, Receive
<1>7. CASE ReadFails
  BY <1>7 DEF ReadFails, NoEvent
<1>8. CASE FetchFirmware
  BY <1>8 DEF FetchFirmware, StartDownload
<1>9. CASE SendFragment
  BY <1>9 DEF SendFragment, Downloading
<1>10. CASE DownloadNotified
  BY <1>10 DEF DownloadNotified, Receive
<1>11. CASE DownloadTimeout
  BY <1>11 DEF DownloadTimeout, NoEvent
<1>12. CASE ResetAndFail
  BY <1>12 DEF ResetAndFail, Send
<1>13. CASE ResetToRetry
  BY <1>13 DEF ResetToRetry, Send
<1>14. CASE Boot
  BY <1>14 DEF Boot, Send
<1>15. CASE BootNotified
  BY <1>15 DEF BootNotified, Receive
<1>16. CASE BootFails
  BY <1>16 DEF BootFails, NoEvent
<1>17. CASE WriteDdc
  BY <1>17 DEF WriteDdc, Send
<1>18. CASE DdcWritten
  BY <1>18 DEF DdcWritten, Receive
<1>19. CASE DdcFails
  BY <1>19 DEF DdcFails, NoEvent
<1>20. CASE Reread
  BY <1>20 DEF Reread, Send
<1>21. CASE VersionReread
  BY <1>21 DEF VersionReread, Receive
<1>22. CASE SetEventMask
  BY <1>22 DEF SetEventMask, Send
<1>23. CASE MaskAnswered
  BY <1>23 DEF MaskAnswered, Receive, NoEvent
<1>24. CASE ChipAnswers
  BY <1>24 DEF ChipAnswers, Work
<1>25. CASE ChipVerifies
  BY <1>25 DEF ChipVerifies, Work
<1>26. CASE ChipBoots
  BY <1>26 DEF ChipBoots, Work
<1>27. CASE ChipResets
  BY <1>27 DEF ChipResets, Work
<1>28. CASE Reenumerate
  BY <1>28 DEF Reenumerate
<1>29. CASE Done
  BY <1>29 DEF Done, vars
<1>30. CASE UNCHANGED vars
  BY <1>30 DEF vars
<1>31. QED
  BY <1>1, <1>2, <1>3, <1>4, <1>5, <1>6, <1>7, <1>8, <1>9, <1>10, <1>11, <1>12, <1>13,
     <1>14, <1>15, <1>16, <1>17, <1>18, <1>19, <1>20, <1>21, <1>22, <1>23, <1>24, <1>25,
     <1>26, <1>27, <1>28, <1>29, <1>30
     DEF Next, Driver, Chip

\* The boot command is reached only by the three ways BootVerified names.
LEMMA StepBootVerified == TypeOK /\ BootVerified /\ [Next]_vars => BootVerified'
<1> SUFFICES ASSUME TypeOK, BootVerified, [Next]_vars PROVE BootVerified'
  OBVIOUS
<1> USE DEF BootVerified, Rest, fixedVars, chipVars, flowVars, historyVars, Ended,
            Waits, Proceed, LegacyStart
<1>1. CASE ReadVersionTyP
  BY <1>1 DEF ReadVersionTyP, Send
<1>2. CASE VersionTyP
  BY <1>2, VersionForms DEF VersionTyP, Receive
<1>3. CASE ReadVersion
  BY <1>3 DEF ReadVersion, Send
<1>4. CASE Version
  BY <1>4 DEF Version, Receive
<1>5. CASE ReadBootParams
  BY <1>5 DEF ReadBootParams, Send
<1>6. CASE BootParams
  BY <1>6 DEF BootParams, Receive
<1>7. CASE ReadFails
  BY <1>7 DEF ReadFails, NoEvent
<1>8. CASE FetchFirmware
  BY <1>8 DEF FetchFirmware, StartDownload
<1>9. CASE SendFragment
  BY <1>9 DEF SendFragment, Downloading
<1>10. CASE DownloadNotified
  BY <1>10 DEF DownloadNotified, Receive
<1>11. CASE DownloadTimeout
  BY <1>11 DEF DownloadTimeout, NoEvent
<1>12. CASE ResetAndFail
  BY <1>12 DEF ResetAndFail, Send
<1>13. CASE ResetToRetry
  BY <1>13 DEF ResetToRetry, Send
<1>14. CASE Boot
  BY <1>14 DEF Boot, Send
<1>15. CASE BootNotified
  BY <1>15 DEF BootNotified, Receive
<1>16. CASE BootFails
  BY <1>16 DEF BootFails, NoEvent
<1>17. CASE WriteDdc
  BY <1>17 DEF WriteDdc, Send
<1>18. CASE DdcWritten
  BY <1>18 DEF DdcWritten, Receive
<1>19. CASE DdcFails
  BY <1>19 DEF DdcFails, NoEvent
<1>20. CASE Reread
  BY <1>20 DEF Reread, Send
<1>21. CASE VersionReread
  BY <1>21 DEF VersionReread, Receive
<1>22. CASE SetEventMask
  BY <1>22 DEF SetEventMask, Send
<1>23. CASE MaskAnswered
  BY <1>23 DEF MaskAnswered, Receive, NoEvent
<1>24. CASE ChipAnswers
  BY <1>24 DEF ChipAnswers, Work
<1>25. CASE ChipVerifies
  BY <1>25 DEF ChipVerifies, Work
<1>26. CASE ChipBoots
  BY <1>26 DEF ChipBoots, Work
<1>27. CASE ChipResets
  BY <1>27 DEF ChipResets, Work
<1>28. CASE Reenumerate
  BY <1>28 DEF Reenumerate
<1>29. CASE Done
  BY <1>29 DEF Done, vars
<1>30. CASE UNCHANGED vars
  BY <1>30 DEF vars
<1>31. QED
  BY <1>1, <1>2, <1>3, <1>4, <1>5, <1>6, <1>7, <1>8, <1>9, <1>10, <1>11, <1>12, <1>13,
     <1>14, <1>15, <1>16, <1>17, <1>18, <1>19, <1>20, <1>21, <1>22, <1>23, <1>24, <1>25,
     <1>26, <1>27, <1>28, <1>29, <1>30
     DEF Next, Driver, Chip

\* Up to the boot command nothing changes the mode, so events and ver tell the
\* present one.
LEMMA StepBefore == TypeOK /\ Dropped /\ Before /\ [Next]_vars => Before'
<1> SUFFICES ASSUME TypeOK, Dropped, Before, [Next]_vars PROVE Before'
  OBVIOUS
<1> USE DEF Before, NoBoot, Early, Fresh, Rest, fixedVars, chipVars, flowVars,
            historyVars, Ended, Waits, Proceed, LegacyStart, Commands, Answered
<1>1. CASE ReadVersionTyP
  BY <1>1, SendQueues DEF ReadVersionTyP
<1>2. CASE VersionTyP
  BY <1>2, ReceiveQueues, VersionForms DEF VersionTyP
<1>3. CASE ReadVersion
  BY <1>3, SendQueues DEF ReadVersion
<1>4. CASE Version
  BY <1>4, ReceiveQueues DEF Version
<1>5. CASE ReadBootParams
  BY <1>5, SendQueues DEF ReadBootParams
<1>6. CASE BootParams
  BY <1>6, ReceiveQueues DEF BootParams
<1>7. CASE ReadFails
  BY <1>7, NoEventQueues DEF ReadFails
<1>8. CASE FetchFirmware
  BY <1>8 DEF FetchFirmware, StartDownload, TypeOK, Modes
<1>9. CASE SendFragment
  <2>1. Range(Append(commands, "verify")) = Range(commands) \cup {"verify"}
    BY RangeAppend DEF TypeOK
  <2>2. commands' = commands \/ commands' = Append(commands, "verify")
    BY <1>9 DEF SendFragment, Written
  <2>3. Range(commands') \subseteq Range(commands) \cup {"verify"}
    BY <2>1, <2>2
  <2>4. pc' \in {"download", "waitDownload", "resetRetry"}
    BY <1>9 DEF SendFragment, Downloading
  <2>5. QED
    BY <1>9, <2>3, <2>4 DEF SendFragment
<1>10. CASE DownloadNotified
  BY <1>10, ReceiveQueues DEF DownloadNotified
<1>11. CASE DownloadTimeout
  BY <1>11, NoEventQueues DEF DownloadTimeout
<1>12. CASE ResetAndFail
  BY <1>12, SendQueues DEF ResetAndFail
<1>13. CASE ResetToRetry
  BY <1>13, SendQueues DEF ResetToRetry
<1>14. CASE Boot
  BY <1>14, SendQueues DEF Boot
<1>15. CASE BootNotified
  BY <1>15, ReceiveQueues DEF BootNotified
<1>16. CASE BootFails
  BY <1>16, NoEventQueues DEF BootFails
<1>17. CASE WriteDdc
  BY <1>17, SendQueues DEF WriteDdc
<1>18. CASE DdcWritten
  BY <1>18, ReceiveQueues DEF DdcWritten
<1>19. CASE DdcFails
  BY <1>19, NoEventQueues DEF DdcFails
<1>20. CASE Reread
  BY <1>20, SendQueues DEF Reread
<1>21. CASE VersionReread
  BY <1>21, ReceiveQueues DEF VersionReread
<1>22. CASE SetEventMask
  BY <1>22, SendQueues DEF SetEventMask
<1>23. CASE MaskAnswered
  BY <1>23, ReceiveQueues, NoEventQueues DEF MaskAnswered
<1>24. CASE ChipAnswers
  <2>1. PICK c \in Answered : Work(c) /\ events' = Append(events, Event(c, mode, Reported))
    BY <1>24 DEF ChipAnswers
  <2>2. Range(events') = Range(events) \cup {Event(c, mode, Reported)}
    BY <2>1, EventAppended
  <2>3. Event(c, mode, Reported).to = c /\ Event(c, mode, Reported).mode = mode
    BY DEF Event
  <2>4. commands' = Tail(commands) /\ UNCHANGED chipVars
    BY <1>24 DEF ChipAnswers
  <2>5. QED
    BY <2>1, <2>2, <2>3, <2>4, WorkQueues DEF Work
<1>25. CASE ChipVerifies
  <2> DEFINE e == Event("verify", mode, Reported)
  <2>1. e.to = "verify" /\ e.mode = mode
    BY DEF Event
  <2>2. events' = events \/ Range(events') = Range(events) \cup {e}
    BY <1>25, EventAppended DEF ChipVerifies
  <2>3. commands' = Tail(commands) /\ UNCHANGED <<mode, fw, online>>
    BY <1>25 DEF ChipVerifies
  <2> HIDE DEF e
  <2>4. QED
    BY <1>25, <2>1, <2>2, <2>3, WorkQueues DEF ChipVerifies, Work
<1>26. CASE ChipBoots
  BY <1>26, WorkQueues DEF ChipBoots, Work
<1>27. CASE ChipResets
  BY <1>27, WorkQueues DEF ChipResets, Work
<1>28. CASE Reenumerate
  BY <1>28, RangeEmpty DEF Reenumerate, Dropped
<1>29. CASE Done
  BY <1>29 DEF Done, vars
<1>30. CASE UNCHANGED vars
  BY <1>30 DEF vars
<1>31. QED
  BY <1>1, <1>2, <1>3, <1>4, <1>5, <1>6, <1>7, <1>8, <1>9, <1>10, <1>11, <1>12, <1>13,
     <1>14, <1>15, <1>16, <1>17, <1>18, <1>19, <1>20, <1>21, <1>22, <1>23, <1>24, <1>25,
     <1>26, <1>27, <1>28, <1>29, <1>30
     DEF Next, Driver, Chip

\* From the boot command on a notification means that the firmware runs.
LEMMA StepAfter == TypeOK /\ Counts /\ Before /\ After /\ [Next]_vars => After'
<1> SUFFICES ASSUME TypeOK, Counts, Before, After, [Next]_vars PROVE After'
  OBVIOUS
<1> USE DEF Before, After, NoBoot, Operational, Early, Fresh, Rest, fixedVars,
            chipVars, flowVars, historyVars, Ended, Waits, Proceed, LegacyStart,
            Commands, Answered, Untouched
<1>1. CASE ReadVersionTyP
  BY <1>1, SendQueues DEF ReadVersionTyP
<1>2. CASE VersionTyP
  <2>1. Head(events).to = "typ" /\ Head(events).mode = mode /\ Head(events).mode \in Modes
    BY <1>2, ReceiveQueues DEF VersionTyP, Events
  <2>2. VersionForm(Head(events)) = "odd" => mode = "operational" \/ Untouched'
    <3>1. sentFrags' = 0 /\ ~resetSent' /\ hw' = hw
      BY <1>2 DEF VersionTyP, Counts
    <3>2. VersionForm(Head(events)) = Form(mode)
      BY <2>1 DEF VersionForm
    <3>3. Form(mode) = "odd" => mode = "operational" \/ hw.variant = "Foreign"
      BY DEF Form, TypeOK, Chips, Modes
    <3>4. QED
      BY <3>1, <3>2, <3>3
  <2>3. ver'.mode = mode /\ commands' = commands /\ mode' = mode
    BY <1>2, <2>1, ReceiveQueues DEF VersionTyP
  <2>4. pc' \in {"readParams", "mask", "getFirmware", "succeeded", "failed", "readVersion"}
    BY <1>2, VersionForms DEF VersionTyP
  <2>5. pc' = "succeeded" => VersionForm(Head(events)) = "odd"
    BY <1>2, VersionForms DEF VersionTyP
  <2>6. pc' = "mask" => ver'.mode # "bootloader"
    BY <1>2, VersionForms DEF VersionTyP
  <2>7. QED
    BY <1>2, <2>1, <2>2, <2>3, <2>4, <2>5, <2>6 DEF VersionTyP, Modes
<1>3. CASE ReadVersion
  BY <1>3, SendQueues DEF ReadVersion
<1>4. CASE Version
  <2>1. Head(events).mode = mode /\ Head(events).mode \in Modes
    BY <1>4, ReceiveQueues DEF Version, Events
  <2>2. QED
    BY <1>4, <2>1, ReceiveQueues DEF Version, Modes
<1>5. CASE ReadBootParams
  BY <1>5, SendQueues DEF ReadBootParams
<1>6. CASE BootParams
  BY <1>6, ReceiveQueues DEF BootParams
<1>7. CASE ReadFails
  BY <1>7, NoEventQueues DEF ReadFails
<1>8. CASE FetchFirmware
  BY <1>8 DEF FetchFirmware, StartDownload
<1>9. CASE SendFragment
  BY <1>9, RangeAppend DEF SendFragment, Downloading, Written, TypeOK
<1>10. CASE DownloadNotified
  BY <1>10, ReceiveQueues DEF DownloadNotified
<1>11. CASE DownloadTimeout
  BY <1>11, NoEventQueues DEF DownloadTimeout
<1>12. CASE ResetAndFail
  BY <1>12, SendQueues DEF ResetAndFail
<1>13. CASE ResetToRetry
  BY <1>13, SendQueues DEF ResetToRetry
<1>14. CASE Boot
  <2>1. NoneBehind(commands, "boot", "reset")
    BY <1>14 DEF Boot, NoneBehind, Range
  <2>2. NoneBehind(commands', "boot", "reset")
    <3>1. NoneBehind(Append(commands, "boot"), "boot", "reset")
      BY <2>1, BehindAppend DEF TypeOK
    <3>2. QED
      BY <1>14, <2>1, <3>1, SendQueues DEF Boot
  <2>3. QED
    BY <1>14, <2>2, SendQueues DEF Boot
<1>15. CASE BootNotified
  BY <1>15, ReceiveQueues DEF BootNotified
<1>16. CASE BootFails
  BY <1>16, NoEventQueues DEF BootFails
<1>17. CASE WriteDdc
  BY <1>17, SendQueues DEF WriteDdc
<1>18. CASE DdcWritten
  BY <1>18, ReceiveQueues DEF DdcWritten
<1>19. CASE DdcFails
  BY <1>19, NoEventQueues DEF DdcFails
<1>20. CASE Reread
  BY <1>20, SendQueues DEF Reread
<1>21. CASE VersionReread
  BY <1>21, ReceiveQueues DEF VersionReread
<1>22. CASE SetEventMask
  BY <1>22, SendQueues DEF SetEventMask
<1>23. CASE MaskAnswered
  BY <1>23, ReceiveQueues, NoEventQueues DEF MaskAnswered
<1>24. CASE ChipAnswers
  <2>1. PICK c \in Answered : Work(c) /\ events' = Append(events, Event(c, mode, Reported))
    BY <1>24 DEF ChipAnswers
  <2>2. Range(events') = Range(events) \cup {Event(c, mode, Reported)}
    BY <2>1, EventAppended
  <2>3. Event(c, mode, Reported).to = c
    BY DEF Event
  <2>4. commands' = Tail(commands) /\ UNCHANGED chipVars
    BY <1>24 DEF ChipAnswers
  <2>5. NoneBehind(commands, "boot", "reset") => NoneBehind(commands', "boot", "reset")
    BY <2>1, <2>4, WorkQueues, BehindTail DEF TypeOK
  <2>6. QED
    BY <2>1, <2>2, <2>3, <2>4, <2>5, WorkQueues DEF Work
<1>25. CASE ChipVerifies
  <2> DEFINE e == Event("verify", mode, Reported)
  <2>1. e.to = "verify"
    BY DEF Event
  <2>2. events' = events \/ Range(events') = Range(events) \cup {e}
    BY <1>25, EventAppended DEF ChipVerifies
  <2>3. commands' = Tail(commands) /\ UNCHANGED <<mode, fw, online>>
    BY <1>25 DEF ChipVerifies
  <2>4. NoneBehind(commands, "boot", "reset") => NoneBehind(commands', "boot", "reset")
    BY <1>25, <2>3, WorkQueues, BehindTail DEF ChipVerifies, TypeOK
  <2> HIDE DEF e
  <2>5. QED
    BY <1>25, <2>1, <2>2, <2>3, <2>4, WorkQueues DEF ChipVerifies, Work
<1>26. CASE ChipBoots
  BY <1>26, WorkQueues, RangeAppend, BehindTail DEF ChipBoots, Work, TypeOK, Event
<1>27. CASE ChipResets
  <2>1. commands' = <<>> /\ events' = <<>> /\ UNCHANGED <<hw, sentFrags, pc, ver, resetSent>>
    BY <1>27 DEF ChipResets, Work
  <2>2. NoneBehind(<<>>, "boot", "reset")
    BY DEF NoneBehind
  <2>3. "reset" \in Range(commands)
    BY <1>27, WorkQueues DEF ChipResets
  <2>4. QED
    BY <2>1, <2>2, <2>3, RangeEmpty
<1>28. CASE Reenumerate
  BY <1>28 DEF Reenumerate
<1>29. CASE Done
  BY <1>29 DEF Done, vars
<1>30. CASE UNCHANGED vars
  BY <1>30 DEF vars
<1>31. QED
  BY <1>1, <1>2, <1>3, <1>4, <1>5, <1>6, <1>7, <1>8, <1>9, <1>10, <1>11, <1>12, <1>13,
     <1>14, <1>15, <1>16, <1>17, <1>18, <1>19, <1>20, <1>21, <1>22, <1>23, <1>24, <1>25,
     <1>26, <1>27, <1>28, <1>29, <1>30
     DEF Next, Driver, Chip

-----------------------------------------------------------------------------
(* Exchanges stay in step *)

\* A command sent into silence is the only one to be answered.
LEMMA SendInStep ==
  ASSUME TypeOK, Dropped, Quiet, NEW c \in Commands, NEW next, NEW failure,
         Send(c, next, failure), UNCHANGED events, faults = 0, faults' = 0
  PROVE  \/ Quiet' /\ pc' \in {next, failure}
         \/ pc' = next /\ events' = <<>> /\ commands' = <<c>>
<1>1. commands \in Seq(Commands)
  BY DEF TypeOK
<1>2. CASE commands' = commands
  BY <1>2 DEF Quiet, Send
<1>3. CASE commands' = Append(commands, c) /\ pc' = next
  <2>1. Head(Append(commands, c)) = IF commands = <<>> THEN c ELSE Head(commands)
    BY <1>1, HeadTailAppend
  <2>2. commands = <<>> => Append(commands, c) = <<c>>
    OBVIOUS
  <2>3. QED
    BY <1>3, <2>1, <2>2 DEF Quiet
<1>4. QED
  BY <1>2, <1>3 DEF Send, Fault, Dropped

\* The event read is the answer, and the only one.
LEMMA ReceiveInStep ==
  ASSUME NEW own, Awaiting(own), Receive(own), ~stray
  PROVE  Quiet' /\ ~stray'
<1>1. PICK e \in Events : commands = <<>> /\ e.to = own /\ events = <<e>>
  BY DEF Awaiting, Quiet, Receive
<1>2. events' = <<>> /\ Head(events) = e
  BY <1>1 DEF Receive
<1>3. QED
  BY <1>1, <1>2 DEF Receive, Quiet

\* Without a fault there is no event only when there is nothing at all.
LEMMA NoEventInStep ==
  ASSUME Dropped, NEW own, Awaiting(own), NoEvent, ~stray, faults = 0, faults' = 0
  PROVE  Quiet' /\ ~stray'
  BY DEF Dropped, NoEvent, Fault, Quiet

\* The controller answers what it was sent, or resets.
LEMMA WorkInStep ==
  ASSUME TypeOK, NEW own \in Commands, NEW c, Work(c),
         c = "reset" => commands' = <<>> /\ events' = <<>>,
         c # "reset" => /\ commands' = Tail(commands)
                        /\ \/ events' = events
                           \/ \E e \in Events : e.to = c /\ events' = Append(events, e)
  PROVE  /\ Quiet => Quiet'
         /\ Awaiting(own) => Quiet' \/ (commands' = <<>> /\ \E e \in Events : e.to = own /\ events' = <<e>>)
<1>1. commands # <<>> /\ Head(commands) = c
  BY DEF Work
<1>2. CASE c = "reset"
  BY <1>2 DEF Quiet
<1>3. CASE c # "reset"
  <2>1. ~Quiet
    BY <1>1, <1>3 DEF Quiet
  <2>2. Awaiting(own) => c = own /\ events = <<>> /\ commands' = <<>>
    <3>1. Head(<<own>>) = own /\ Tail(<<own>>) = <<>>
      OBVIOUS
    <3>2. QED
      BY <1>1, <1>3, <2>1, <3>1 DEF Awaiting
  <2>3. \A e \in Events : Append(<<>>, e) = <<e>>
    OBVIOUS
  <2>4. QED
    BY <1>3, <2>1, <2>2, <2>3 DEF Quiet
<1>4. QED
  BY <1>2, <1>3

\* No step of the controller puts the exchanges out of step.
LEMMA ChipInStep ==
  ASSUME TypeOK, Exchanges, NEW c, Work(c),
         c = "reset" => commands' = <<>> /\ events' = <<>>,
         c # "reset" => /\ commands' = Tail(commands)
                        /\ \/ events' = events
                           \/ \E e \in Events : e.to = c /\ events' = Append(events, e)
  PROVE  Exchanges'
<1> SUFFICES ASSUME faults' = 0
             PROVE  /\ ~stray'
                    /\ pc' \in Waits => Awaiting(Own)'
                    /\ pc' \notin Waits \cup Ended \cup {"resetFail"} => Quiet'
  BY DEF Exchanges
<1>1. faults = 0 /\ UNCHANGED <<pc, hw, stray>>
  BY DEF Work, fixedVars, historyVars
<1>2. Own' = Own
  BY <1>1 DEF Own, TLV
<1>3. pc \in Waits => Own \in Commands
  BY DEF Waits, Own, Commands, Answered
<1>4. Quiet => Quiet'
  BY WorkInStep DEF Commands
<1>5. ASSUME pc \in Waits PROVE Awaiting(Own)'
  <2> DEFINE own == Own
  <2>1. own \in Commands /\ Awaiting(own)
    BY <1>1, <1>3, <1>5 DEF Exchanges
  <2> HIDE DEF own
  <2>2. Quiet' \/ (commands' = <<>> /\ \E e \in Events : e.to = own /\ events' = <<e>>)
    BY <2>1, WorkInStep
  <2> USE DEF own
  <2>3. QED
    BY <1>2, <2>2 DEF Awaiting
<1>6. QED
  BY <1>1, <1>4, <1>5 DEF Exchanges

\* Every step keeps the exchanges in step as long as no transfer fails.
LEMMA StepExchanges == TypeOK /\ Counts /\ Dropped /\ Before /\ Exchanges /\ [Next]_vars => Exchanges'
<1> SUFFICES ASSUME TypeOK, Counts, Dropped, Before, Exchanges, [Next]_vars, faults' = 0
             PROVE  /\ ~stray'
                    /\ pc' \in Waits => Awaiting(Own)'
                    /\ pc' \notin Waits \cup Ended \cup {"resetFail"} => Quiet'
  BY DEF Exchanges
<1> USE DEF Rest, fixedVars, chipVars, flowVars, historyVars, Ended, Waits, Commands,
            Answered, Exchanges
<1>0. Quiet' => Awaiting(Own)'
  BY DEF Awaiting
<1>1. CASE ReadVersionTyP
  <2>1. faults = 0 /\ Quiet
    BY <1>1 DEF ReadVersionTyP, Send, Fault, TypeOK
  <2>2. \/ Quiet' /\ pc' \in {"waitTyP", "failed"}
        \/ pc' = "waitTyP" /\ events' = <<>> /\ commands' = <<"typ">>
    BY <1>1, <2>1, SendInStep DEF ReadVersionTyP
  <2>3. pc' = "waitTyP" => Own' = "typ"
    BY <1>1 DEF ReadVersionTyP, Own
  <2>4. QED
    BY <1>0, <1>1, <2>1, <2>2, <2>3 DEF ReadVersionTyP, Awaiting
<1>2. CASE VersionTyP
  <2>1. faults = 0 /\ Own = "typ"
    BY <1>2 DEF VersionTyP, Receive, Own
  <2>2. Quiet' /\ ~stray'
    BY <1>2, <2>1, ReceiveInStep DEF VersionTyP
  <2>3. QED
    BY <1>0, <2>2
<1>3. CASE ReadVersion
  <2>1. faults = 0 /\ Quiet
    BY <1>3 DEF ReadVersion, Send, Fault, TypeOK
  <2>2. \/ Quiet' /\ pc' \in {"waitVersion", "failed"}
        \/ pc' = "waitVersion" /\ events' = <<>> /\ commands' = <<"version">>
    BY <1>3, <2>1, SendInStep DEF ReadVersion
  <2>3. pc' = "waitVersion" => Own' = "version"
    BY <1>3 DEF ReadVersion, Own
  <2>4. QED
    BY <1>0, <1>3, <2>1, <2>2, <2>3 DEF ReadVersion, Awaiting
<1>4. CASE Version
  <2>1. faults = 0 /\ Own = "version"
    BY <1>4 DEF Version, Receive, Own
  <2>2. Quiet' /\ ~stray'
    BY <1>4, <2>1, ReceiveInStep DEF Version
  <2>3. QED
    BY <1>0, <2>2
<1>5. CASE ReadBootParams
  <2>1. faults = 0 /\ Quiet
    BY <1>5 DEF ReadBootParams, Send, Fault, TypeOK
  <2>2. \/ Quiet' /\ pc' \in {"waitParams", "failed"}
        \/ pc' = "waitParams" /\ events' = <<>> /\ commands' = <<"params">>
    BY <1>5, <2>1, SendInStep DEF ReadBootParams
  <2>3. pc' = "waitParams" => Own' = "params"
    BY <1>5 DEF ReadBootParams, Own
  <2>4. QED
    BY <1>0, <1>5, <2>1, <2>2, <2>3 DEF ReadBootParams, Awaiting
<1>6. CASE BootParams
  <2>1. faults = 0 /\ Own = "params"
    BY <1>6 DEF BootParams, Receive, Own
  <2>2. Quiet' /\ ~stray'
    BY <1>6, <2>1, ReceiveInStep DEF BootParams
  <2>3. QED
    BY <1>0, <2>2
<1>7. CASE ReadFails
  <2>1. faults = 0
    BY <1>7 DEF ReadFails, NoEvent, Fault, TypeOK
  <2>2. Quiet' /\ ~stray'
    BY <1>7, <2>1, NoEventInStep DEF ReadFails
  <2>3. QED
    BY <1>0, <2>2
<1>8. CASE FetchFirmware
  <2>1. Quiet' /\ ~stray'
    BY <1>8 DEF FetchFirmware, Quiet
  <2>2. QED
    BY <1>0, <2>1
<1>9. CASE SendFragment
  <2>1. faults = 0 /\ Quiet /\ events' = events /\ ~stray'
    BY <1>9 DEF SendFragment, Fault, TypeOK
  <2>2. CASE commands' = commands /\ pc' # "waitDownload"
    BY <1>0, <2>1, <2>2 DEF Quiet
  <2>3. CASE commands' = Append(commands, "verify") /\ pc' = "waitDownload"
    <3>1. commands = <<>>
      BY <1>9, <2>1 DEF Quiet, Before, Early, SendFragment, TypeOK, Range
    <3>2. commands' = <<"verify">> /\ events' = <<>>
      BY <2>1, <2>3, <3>1 DEF Quiet
    <3>3. Own' = "verify"
      BY <2>3 DEF Own
    <3>4. QED
      BY <2>1, <2>3, <3>2, <3>3 DEF Awaiting
  <2>4. QED
    <3>1. CASE hw.loader # "limitedCce" /\ online
      <4>1. ~Fault
        BY <2>1, <3>1 DEF Fault
      <4>2. sentFrags' = sentFrags + 1 /\ commands' = Written(sentFrags') /\ pc' = Downloading(sentFrags')
        BY <1>9, <3>1, <4>1 DEF SendFragment
      <4>3. QED
        BY <2>2, <2>3, <4>2 DEF Written, Downloading
    <3>2. CASE ~(hw.loader # "limitedCce" /\ online)
      <4>1. online /\ hw.loader = "limitedCce" /\ sentFrags = 0
        BY <1>9, <3>2 DEF SendFragment, Before, Early, Counts
      <4>2. sentFrags' # Fragments \/ commands' = commands
        BY <1>9, <4>1, BootloaderSetupAssumption DEF SendFragment
      <4>3. QED
        BY <1>9, <2>2, <4>1, <4>2 DEF SendFragment, Written
    <3>3. QED
      BY <3>1, <3>2
<1>10. CASE DownloadNotified
  <2>1. faults = 0 /\ Own = "verify"
    BY <1>10 DEF DownloadNotified, Receive, Own
  <2>2. Quiet' /\ ~stray'
    BY <1>10, <2>1, ReceiveInStep DEF DownloadNotified
  <2>3. QED
    BY <1>0, <2>2
<1>11. CASE DownloadTimeout
  <2>1. faults = 0
    BY <1>11 DEF DownloadTimeout, NoEvent, Fault, TypeOK
  <2>2. Quiet' /\ ~stray'
    BY <1>11, <2>1, NoEventInStep DEF DownloadTimeout
  <2>3. QED
    BY <1>0, <2>2
<1>12. CASE ResetAndFail
  BY <1>12 DEF ResetAndFail, Send, Fault, TypeOK
<1>13. CASE ResetToRetry
  <2>1. faults = 0 /\ Quiet
    BY <1>13 DEF ResetToRetry, Send, Fault, TypeOK
  <2>2. Quiet'
    BY <1>13, <2>1, SendInStep DEF ResetToRetry, Quiet
  <2>3. QED
    BY <1>0, <1>13, <2>1, <2>2 DEF ResetToRetry
<1>14. CASE Boot
  <2>1. faults = 0 /\ Quiet
    BY <1>14 DEF Boot, Send, Fault, TypeOK
  <2>2. \/ Quiet' /\ pc' \in {"waitBoot", "resetFail"}
        \/ pc' = "waitBoot" /\ events' = <<>> /\ commands' = <<"boot">>
    BY <1>14, <2>1, SendInStep DEF Boot
  <2>3. pc' = "waitBoot" => Own' = "boot"
    BY <1>14 DEF Boot, Own
  <2>4. QED
    BY <1>0, <1>14, <2>1, <2>2, <2>3 DEF Boot, Awaiting
<1>15. CASE BootNotified
  <2>1. faults = 0 /\ Own = "boot"
    BY <1>15 DEF BootNotified, Receive, Own
  <2>2. Quiet' /\ ~stray'
    BY <1>15, <2>1, ReceiveInStep DEF BootNotified
  <2>3. QED
    BY <1>0, <2>2
<1>16. CASE BootFails
  <2>1. faults = 0
    BY <1>16 DEF BootFails, NoEvent, Fault, TypeOK
  <2>2. Quiet' /\ ~stray'
    BY <1>16, <2>1, NoEventInStep DEF BootFails
  <2>3. QED
    BY <1>0, <2>2
<1>17. CASE WriteDdc
  <2>1. faults = 0 /\ Quiet
    BY <1>17 DEF WriteDdc, Send, Fault, TypeOK
  <2>2. \/ Quiet' /\ pc' \in {"waitDdc", "reread"}
        \/ pc' = "waitDdc" /\ events' = <<>> /\ commands' = <<"ddc">>
    BY <1>17, <2>1, SendInStep DEF WriteDdc
  <2>3. pc' = "waitDdc" => Own' = "ddc"
    BY <1>17 DEF WriteDdc, Own
  <2>4. QED
    BY <1>0, <1>17, <2>1, <2>2, <2>3 DEF WriteDdc, Awaiting
<1>18. CASE DdcWritten
  <2>1. faults = 0 /\ Own = "ddc"
    BY <1>18 DEF DdcWritten, Receive, Own
  <2>2. Quiet' /\ ~stray'
    BY <1>18, <2>1, ReceiveInStep DEF DdcWritten
  <2>3. QED
    BY <1>0, <2>2
<1>19. CASE DdcFails
  <2>1. faults = 0
    BY <1>19 DEF DdcFails, NoEvent, Fault, TypeOK
  <2>2. Quiet' /\ ~stray'
    BY <1>19, <2>1, NoEventInStep DEF DdcFails
  <2>3. QED
    BY <1>0, <2>2
<1>20. CASE Reread
  <2> DEFINE c == IF TLV THEN "typ" ELSE "version"
  <2>1. faults = 0 /\ Quiet
    BY <1>20 DEF Reread, Send, Fault, TypeOK
  <2>2. \/ Quiet' /\ pc' \in {"waitReread", "failed"}
        \/ pc' = "waitReread" /\ events' = <<>> /\ commands' = <<c>>
    BY <1>20, <2>1, SendInStep DEF Reread
  <2>3. pc' = "waitReread" => Own' = c
    BY <1>20 DEF Reread, Own, TLV
  <2>4. QED
    BY <1>0, <1>20, <2>1, <2>2, <2>3 DEF Reread, Awaiting
<1>21. CASE VersionReread
  <2>1. faults = 0 /\ Own = IF TLV THEN "typ" ELSE "version"
    BY <1>21 DEF VersionReread, Receive, Own
  <2>2. Quiet' /\ ~stray'
    BY <1>21, <2>1, ReceiveInStep DEF VersionReread
  <2>3. QED
    BY <1>0, <2>2
<1>22. CASE SetEventMask
  <2>1. faults = 0 /\ Quiet
    BY <1>22 DEF SetEventMask, Send, Fault, TypeOK
  <2>2. \/ Quiet' /\ pc' \in {"waitMask", "succeeded"}
        \/ pc' = "waitMask" /\ events' = <<>> /\ commands' = <<"mask">>
    BY <1>22, <2>1, SendInStep DEF SetEventMask
  <2>3. pc' = "waitMask" => Own' = "mask"
    BY <1>22 DEF SetEventMask, Own
  <2>4. QED
    BY <1>0, <1>22, <2>1, <2>2, <2>3 DEF SetEventMask, Awaiting
<1>23. CASE MaskAnswered
  <2>1. faults = 0 /\ Own = "mask"
    BY <1>23 DEF MaskAnswered, Receive, NoEvent, Fault, TypeOK, Own
  <2>2. Quiet' /\ ~stray'
    BY <1>23, <2>1, ReceiveInStep, NoEventInStep DEF MaskAnswered
  <2>3. QED
    BY <1>0, <2>2
<1>24. CASE ChipAnswers
  <2>1. \A c \in Answered : Event(c, mode, Reported) \in Events /\ Event(c, mode, Reported).to = c
    BY DEF TypeOK, Events, Event, Reported, Chips
  <2>2. PICK c \in Answered : Work(c) /\ events' = Append(events, Event(c, mode, Reported))
    BY <1>24 DEF ChipAnswers
  <2>3. Exchanges'
    BY <1>24, <2>1, <2>2, ChipInStep DEF ChipAnswers
  <2>4. QED
    BY <2>3
<1>25. CASE ChipVerifies
  <2>1. Event("verify", mode, Reported) \in Events /\ Event("verify", mode, Reported).to = "verify"
    BY DEF TypeOK, Events, Event, Reported, Chips
  <2>2. Exchanges'
    BY <1>25, <2>1, ChipInStep DEF ChipVerifies
  <2>3. QED
    BY <2>2
<1>26. CASE ChipBoots
  <2>1. Event("boot", "operational", "ours") \in Events /\ Event("boot", "operational", "ours").to = "boot"
    BY DEF Events, Event, Modes
  <2>2. events' = events \/ events' = Append(events, Event("boot", "operational", "ours"))
    BY <1>26 DEF ChipBoots
  <2>3. Exchanges'
    BY <1>26, <2>1, <2>2, ChipInStep DEF ChipBoots
  <2>4. QED
    BY <2>3
<1>27. CASE ChipResets
  <2>1. Exchanges'
    BY <1>27, ChipInStep DEF ChipResets
  <2>2. QED
    BY <2>1
<1>28. CASE Reenumerate
  BY <1>28 DEF Reenumerate, Dropped, Quiet
<1>29. CASE Done
  BY <1>29 DEF Done, vars, Awaiting, Quiet, Own
<1>30. CASE UNCHANGED vars
  BY <1>30 DEF vars, Awaiting, Quiet, Own, TLV
<1>31. QED
  BY <1>1, <1>2, <1>3, <1>4, <1>5, <1>6, <1>7, <1>8, <1>9, <1>10, <1>11, <1>12, <1>13,
     <1>14, <1>15, <1>16, <1>17, <1>18, <1>19, <1>20, <1>21, <1>22, <1>23, <1>24, <1>25,
     <1>26, <1>27, <1>28, <1>29, <1>30
     DEF Next, Driver, Chip


-----------------------------------------------------------------------------
(* The invariant and its consequences *)

\* The invariant holds at first.
LEMMA InitIInv == Init => IInv /\ Exchanges
<1> SUFFICES ASSUME Init PROVE IInv /\ Exchanges
  OBVIOUS
<1>1. <<>> \in Seq(Commands) /\ <<>> \in Seq(Events) /\ Range(<<>>) = {}
  BY EmptySeq, RangeEmpty
<1>2. TypeOK
  <2>1. Unread \in [mode : Modes, version : {"ours", "other"}]
    BY DEF Unread, Modes
  <2>2. 0 \in 0 .. Fragments /\ 0 \in 0 .. MaxDdc /\ 1 \in 1 .. MaxSessions /\ 0 \in 0 .. MaxFaults
    BY BootloaderSetupAssumption
  <2>3. QED
    BY <1>1, <2>1, <2>2 DEF Init, TypeOK, Points
<1>3. Counts /\ Dropped /\ Before /\ After /\ Params /\ BootVerified
  BY <1>1
     DEF Init, Counts, Dropped, Before, After, Params, BootVerified, NoBoot, Early,
         Fresh
<1>4. Exchanges
  BY DEF Init, Exchanges, Quiet, Waits
<1>5. QED
  BY <1>2, <1>3, <1>4 DEF IInv

\* Every step keeps it.
LEMMA StepIInv == IInv /\ Exchanges /\ [Next]_vars => IInv' /\ Exchanges'
  BY StepTypeOK, StepCounts, StepDropped, StepBefore, StepAfter, StepParams,
     StepBootVerified, StepExchanges
  DEF IInv

\* The invariant holds throughout.
THEOREM Inductive == Spec => [](IInv /\ Exchanges)
  BY InitIInv, StepIInv, PTL DEF Spec

\* The variables of the setup stay in range, whatever fails and however often
\* the device comes back.
THEOREM TypeCorrect == Spec => []TypeOK
<1>1. IInv => TypeOK
  BY DEF IInv
<1>2. QED
  BY <1>1, Inductive, PTL

\* setup() returns true only for a controller that runs operational firmware,
\* or one whose firmware it reset to replace it.
THEOREM SuccessSafety == Spec => []SuccessMeansOperational
<1>1. IInv => SuccessMeansOperational
  BY DEF IInv, After, Operational, Untouched, SuccessMeansOperational
<1>2. QED
  BY <1>1, Inductive, PTL

\* Fragments are written to bootloaders only.
THEOREM DownloadSafety == Spec => []DownloadToBootloader
<1>1. IInv => DownloadToBootloader
  BY DEF IInv, Before, Early, Fresh, DownloadToBootloader
<1>2. QED
  BY <1>1, Inductive, PTL

\* intelBoot follows the download-done notification, a reset, or the answer that
\* the version of the file is there already.
THEOREM BootSafety == Spec => []BootVerified
<1>1. IInv => BootVerified
  BY DEF IInv
<1>2. QED
  BY <1>1, Inductive, PTL

\* The file names of SfP and WsP are made of boot parameters that were read.
THEOREM ParamsSafety == Spec => []ParamsKnown
<1>1. IInv => ParamsKnown
  BY DEF IInv, Params, ParamsKnown
<1>2. QED
  BY <1>1, Inductive, PTL

\* Nothing matches events to commands, and as long as no transfer has failed
\* nothing has to: every event read answers the command just sent.
THEOREM ExchangesInStep == Spec => []InStep
<1>1. IInv /\ Exchanges => InStep
  BY DEF IInv, TypeOK, Exchanges, InStep
<1>2. QED
  BY <1>1, Inductive, PTL
=============================================================================
