---------------------------- MODULE Gen1Patching ----------------------------
(***************************************************************************)
(* IntelBluetoothOpsGen1::setup(): patching a first-generation controller. *)
(*                                                                         *)
(* The patch file is a list of records, an HCI command and the events the  *)
(* controller is expected to answer it with.  In manufacturer mode the     *)
(* driver plays the file to the controller, record by record, and leaves   *)
(* that mode in one of three ways: without a reset, with a reset that      *)
(* activates the patches, or with one that drops them.                     *)
(*                                                                         *)
(* As in BootloaderSetup a command goes out (waiting becomes TRUE) and the *)
(* next event is read, whatever it answers; only patching() reads on until *)
(* an event of the expected code comes.  The controller works on what it   *)
(* has received in order and in its own time.                              *)
(***************************************************************************)
EXTENDS Naturals, Sequences

CONSTANTS
  PatchFiles, \* the patch files there may be for the controller
  MaxFaults   \* bound on failed transfers and premature timeouts

\* What a file holds at the places where the parser looks: items with the
\* offset of their type byte, and the length of the file.  Past the end of a
\* file that was cut short an item is only what would have been there.
Kinds   == {"command", "event", "other"}
Opcodes == {"patch", "leave", "config"}      \* 0xfc8e, 0xfc11 and the others
Codes   == {"complete", "status", "vendor"}  \* event codes 0x0e, 0x0f and 0xff
Header(kind) == CASE kind = "command" -> 4 [] kind = "event" -> 3 [] OTHER -> 1

End(i) == i.at + Header(i.kind) + i.plen

WellFormed(f) ==
  /\ f.size \in Nat \ {0}
  /\ f.items \in Seq([kind : Kinds, at : Nat, plen : 0 .. 255,
                      op : Opcodes, code : Codes])
  /\ f.items # <<>> /\ f.items[1].at = 0
  /\ \A k \in 1 .. Len(f.items) - 1 : f.items[k + 1].at = End(f.items[k])
  /\ f.size <= End(f.items[Len(f.items)])

ASSUME Gen1Assumption == MaxFaults \in Nat /\ \A f \in PatchFiles : WellFormed(f)

\* The command that loads the vendor configuration is answered twice.
Replies(op)   == IF op = "config" THEN <<"status", "vendor">> ELSE <<"complete">>
LastReply(op) == Replies(op)[Len(Replies(op))]

\* The events listed for a command, if there are any, end with its last answer.
Expects(f) ==
  \A k, n \in DOMAIN f.items :
    /\ k < n /\ f.items[k].kind = "command"
    /\ \A j \in k + 1 .. n : f.items[j].kind = "event"
    /\ n + 1 \in DOMAIN f.items => f.items[n + 1].kind # "event"
    => f.items[n].code = LastReply(f.items[k].op)

\* The files were made for the controller.  Only InStep depends on this.
ASSUME FilesAssumption == \A f \in PatchFiles : Expects(f)

None   == [items |-> <<>>, size |-> 0]
Simple == {"reset", "version", "enter", "mask"}
Ways   == {"disable", "activate", "deactivate"}
Commands(f) == [op : Simple \cup Ways, item : {0}]
               \cup [op : {"record"}, item : DOMAIN f.items]

VARIABLES
  (* fixed for a behaviour *)
  file,         \* the patch file, or None
  found,        \* the controller was patched when setup started
  (* the controller *)
  mfg,          \* it is in manufacturer mode
  loaded,       \* the patch records it has taken
  active,       \* it runs patched
  commands,     \* commands received and not worked on yet
  events,       \* events produced and not read yet
  (* the driver *)
  pc,           \* control point of setup()
  waiting,      \* the command of this point is sent, its answer is awaited
  disablePatch, \* no command that loads a patch was seen
  item,         \* fw_ptr, as the number of the item it points to
  cmd,          \* the command of the record at hand
  evt,          \* the last event expected for it
  exit,         \* the way patching is left
  (* history *)
  faults,       \* number of faults
  failedAt,     \* the control points they happened at
  refused,      \* the records the controller refused
  sent,         \* records sent
  reach,        \* end of what the parser has read
  stray         \* an event was read that answers another command

fixedVars   == <<file, found>>
chipVars    == <<mfg, loaded, active>>
parseVars   == <<disablePatch, item, cmd, evt>>
historyVars == <<refused, sent, reach>>
vars == <<fixedVars, chipVars, commands, events, pc, waiting, parseVars, exit,
          faults, failedAt, historyVars, stray>>

Ended  == {"succeeded", "failed"}
Points == Ended \cup {"hciReset", "readVersion", "getFirmware", "enterMfg",
                      "patching", "expected", "record", "exitMfg", "reread",
                      "maskEnter", "mask", "maskExit"}

Init == /\ file \in PatchFiles \cup {None}
        /\ found \in BOOLEAN
        /\ mfg = FALSE
        /\ loaded = {}
        /\ active = found
        /\ commands = <<>>
        /\ events = <<>>
        /\ pc = "hciReset"
        /\ waiting = FALSE
        /\ disablePatch = TRUE
        /\ item = 1
        /\ cmd = 0
        /\ evt = "none"
        /\ exit = "none"
        /\ faults = 0
        /\ failedAt = {}
        /\ refused = {}
        /\ sent = {}
        /\ reach = 0
        /\ stray = FALSE

-----------------------------------------------------------------------------
(* Exchanges *)

Fault == /\ faults < MaxFaults
         /\ faults' = faults + 1
         /\ failedAt' = failedAt \cup {pc}

NoFault == UNCHANGED <<faults, failedAt>>

\* sendHCIRequest: a failed transfer may still have reached the controller.
Send(c, bad) ==
  /\ ~waiting
  /\ \/ /\ NoFault
        /\ commands' = Append(commands, c)
        /\ waiting' = TRUE
        /\ pc' = pc
     \/ /\ Fault
        /\ commands' \in {commands, Append(commands, c)}
        /\ waiting' = FALSE
        /\ pc' = bad
  /\ UNCHANGED <<events, stray>>

\* interruptPipeRead returns the oldest event, whatever it answers.
Receive(c) ==
  /\ waiting
  /\ events # <<>>
  /\ events' = Tail(events)
  /\ stray' = (stray \/ Head(events).to # c)
  /\ NoFault
  /\ UNCHANGED commands

\* It fails: too early, when an event that arrives just then may be lost, or
\* because nothing is left that could answer.
NoEvent(bad) ==
  /\ waiting
  /\ \/ Fault
     \/ events = <<>> /\ commands = <<>> /\ NoFault
  /\ events' \in {events} \cup (IF events # <<>> THEN {Tail(events)} ELSE {})
  /\ waiting' = FALSE
  /\ pc' = bad
  /\ UNCHANGED <<commands, stray>>

\* intelSendHCISync with an answer that nobody looks at.
Exchange(c, next, bad) ==
  /\ \/ Send(c, bad)
     \/ Receive(c) /\ waiting' = FALSE /\ pc' = next
     \/ NoEvent(bad)
  /\ UNCHANGED <<fixedVars, chipVars, parseVars, exit, historyVars>>

Simply(op) == [op |-> op, item |-> 0]

\* readVersion, which insists on an answer of the size of IntelVersion.
VersionExchange(unpatched, patched) ==
  /\ \/ Send(Simply("version"), "failed")
     \/ /\ Receive(Simply("version"))
        /\ waiting' = FALSE
        /\ pc' = IF Head(events).to # Simply("version") THEN "failed"
                 ELSE IF Head(events).patched THEN patched ELSE unpatched
     \/ NoEvent("failed")
  /\ UNCHANGED <<fixedVars, chipVars, parseVars, exit, historyVars>>

-----------------------------------------------------------------------------
(* setup() up to the patch file *)

HciReset == /\ pc = "hciReset"
            /\ Exchange(Simply("reset"), "readVersion", "failed")

\* A controller that reports a patch number is not patched again.
ReadVersion == /\ pc = "readVersion"
               /\ VersionExchange("getFirmware", "maskEnter")

\* The file for this very version, or the default one, or none at all.
GetFirmware == /\ pc = "getFirmware"
               /\ pc' = IF file = None THEN "maskEnter" ELSE "enterMfg"
               /\ UNCHANGED <<fixedVars, chipVars, commands, events, waiting,
                              parseVars, exit, faults, failedAt, historyVars, stray>>

EnterMfg == /\ pc = "enterMfg"
            /\ Exchange(Simply("enter"), "patching", "failed")

-----------------------------------------------------------------------------
(* patching(), one record *)

\* What the parser is at, past the last item nothing it knows, and what remains
\* of the file there.
Here ==
  IF item \in DOMAIN file.items THEN file.items[item]
  ELSE [kind |-> "other", at |-> End(file.items[Len(file.items)]), plen |-> 0,
        op |-> "config", code |-> "complete"]
Remain == file.size - Here.at

\* MUTANT of AtEnd: the loop runs once more at the end of the file.
AtEndTooLate == Here.at > file.size

AtEnd == Here.at >= file.size

Larger(a, b) == IF a > b THEN a ELSE b

\* MUTANT of Leave: how far patching got is not told.
LeaveUntold(way) == pc' = "exitMfg" /\ UNCHANGED exit

Leave(way) == pc' = "exitMfg" /\ exit' = way

\* The type byte is only looked at if more than a command header remains; a
\* shorter rest fails on its length, after that was read.
CommandFits(i) == /\ Remain > 3 => i.kind = "command"
                  /\ file.size >= i.at + 4 + i.plen

\* MUTANT of LoadsPatch: a command that loads a patch is not noticed.
LoadsPatchNever(i) == FALSE

LoadsPatch(i) == i.op = "patch"

\* The loop of setup() and the command of the next record.
ParseCommand ==
  /\ pc = "patching"
  /\ IF AtEnd
     THEN /\ Leave(IF disablePatch THEN "disable" ELSE "activate")
          /\ UNCHANGED <<parseVars, reach>>
     ELSE LET i == Here IN
          /\ reach' = Larger(reach, i.at + IF Remain > 3 /\ i.kind # "command"
                                           THEN 1 ELSE 4)
          /\ IF CommandFits(i)
             THEN /\ disablePatch' = (disablePatch /\ ~LoadsPatch(i))
                  /\ cmd' = item
                  /\ evt' = "none"
                  /\ item' = item + 1
                  /\ pc' = "expected"
                  /\ UNCHANGED exit
             ELSE /\ Leave("deactivate")
                  /\ UNCHANGED parseVars
  /\ UNCHANGED <<fixedVars, chipVars, commands, events, waiting, faults,
                 failedAt, refused, sent, stray>>

MoreEvents == Remain > 2 /\ Here.kind = "event"

\* Of the events listed for a command the last one is kept.
ParseEvent ==
  /\ pc = "expected"
  /\ MoreEvents
  /\ LET i == file.items[item] IN
     /\ reach' = Larger(reach, i.at + 3)
     /\ IF file.size >= End(i)
        THEN /\ evt' = i.code
             /\ item' = item + 1
             /\ UNCHANGED <<pc, exit>>
        ELSE /\ Leave("deactivate")
             /\ UNCHANGED <<evt, item>>
  /\ UNCHANGED <<fixedVars, chipVars, commands, events, waiting, disablePatch,
                 cmd, faults, failedAt, refused, sent, stray>>

\* A command without an event is a corrupted file.
ParseRecord ==
  /\ pc = "expected"
  /\ ~MoreEvents
  /\ IF evt = "none" THEN Leave("deactivate")
                     ELSE pc' = "record" /\ UNCHANGED exit
  /\ UNCHANGED <<fixedVars, chipVars, commands, events, waiting, parseVars,
                 faults, failedAt, historyVars, stray>>

\* MUTANT of Awaited: the first event is taken for the expected one.
AwaitedAny(e) == TRUE

Awaited(e) == e.code = evt

ThisRecord == [op |-> "record", item |-> cmd]

SendRecord ==
  /\ pc = "record"
  /\ Send(ThisRecord, "exitMfg")
  /\ exit' = IF pc' = "exitMfg" THEN "deactivate" ELSE exit
  /\ sent' = IF commands' # commands THEN sent \cup {cmd} ELSE sent
  /\ UNCHANGED <<fixedVars, chipVars, parseVars, refused, reach>>

\* intelSendHCISyncEvent: events are read until one has the expected code.
\* Its parameters are not compared with those in the file.
RecordEvent ==
  /\ pc = "record"
  /\ Receive(ThisRecord)
  /\ waiting' = ~Awaited(Head(events))
  /\ pc' = IF waiting' THEN pc ELSE "patching"
  /\ UNCHANGED <<fixedVars, chipVars, parseVars, exit, historyVars>>

\* MUTANT of RecordFails: a record that is not answered is sent again.
RecordRetried ==
  /\ pc = "record"
  /\ NoEvent("record")
  /\ UNCHANGED <<fixedVars, chipVars, parseVars, exit, historyVars>>

RecordFails ==
  /\ pc = "record"
  /\ NoEvent("exitMfg")
  /\ exit' = "deactivate"
  /\ UNCHANGED <<fixedVars, chipVars, parseVars, historyVars>>

-----------------------------------------------------------------------------
(* Leaving manufacturer mode, and the event mask *)

\* MUTANT of ExitWay: activation and deactivation are mixed up.
ExitWaySwapped(way) == CASE way = "activate" -> "deactivate"
                         [] way = "deactivate" -> "activate"
                         [] OTHER -> way

\* exitMfg(reset, patched): no reset, a reset that activates, or the other one.
ExitWay(way) == way

AfterExit(way) == IF way = "activate" THEN "reread" ELSE "maskEnter"

\* MUTANT of ExitMfg: a failed patching returns at once.
ExitMfgNotAfterFailure ==
  /\ pc = "exitMfg"
  /\ IF exit = "deactivate"
     THEN /\ pc' = "failed"
          /\ UNCHANGED <<fixedVars, chipVars, commands, events, waiting,
                         parseVars, exit, faults, failedAt, historyVars, stray>>
     ELSE Exchange(Simply(ExitWay(exit)), AfterExit(exit), "failed")

ExitMfg == /\ pc = "exitMfg"
           /\ Exchange(Simply(ExitWay(exit)), AfterExit(exit), "failed")

Reread == /\ pc = "reread"
          /\ VersionExchange("maskEnter", "maskEnter")

\* setEventMaskMfg: entered, set and left, whatever becomes of the mask.  Its
\* result is ignored.
SetEventMaskMfg ==
  \/ pc = "maskEnter" /\ Exchange(Simply("enter"), "mask", "succeeded")
  \/ pc = "mask"      /\ Exchange(Simply("mask"), "maskExit", "maskExit")
  \/ pc = "maskExit"  /\ Exchange(Simply("disable"), "succeeded", "succeeded")

-----------------------------------------------------------------------------
(* The controller *)

Work == /\ commands # <<>>
        /\ commands' = Tail(commands)
        /\ UNCHANGED <<fixedVars, pc, waiting, parseVars, exit, faults, failedAt,
                       sent, reach, stray>>

Answer(c, code) == [to |-> c, code |-> code, patched |-> active]

ChipAnswers ==
  /\ Work
  /\ LET c == Head(commands) IN
     /\ c.op \in Simple
     /\ mfg' = (mfg \/ c.op = "enter")
     /\ events' = Append(events, Answer(c, "complete"))
  /\ UNCHANGED <<loaded, active, refused>>

\* Manufacturer mode is left; a reset decides what becomes of the patches.
ChipLeaves ==
  /\ Work
  /\ LET c == Head(commands) IN
     /\ c.op \in Ways
     /\ mfg' = FALSE
     /\ active' = CASE c.op = "disable"    -> active
                    [] c.op = "activate"   -> active \/ loaded # {}
                    [] c.op = "deactivate" -> FALSE
     /\ loaded' = IF c.op = "deactivate" THEN {} ELSE loaded
     /\ events' = Append(events, Answer(c, "complete"))
  /\ UNCHANGED refused

\* A command of the file is carried out; patches are taken only in manufacturer
\* mode.
ChipTakes ==
  /\ Work
  /\ LET c == Head(commands)
         i == file.items[c.item]
     IN /\ c.op = "record"
        /\ i.op = "patch" => mfg
        /\ loaded' = IF i.op = "patch" THEN loaded \cup {c.item} ELSE loaded
        /\ mfg' = (mfg /\ i.op # "leave")
        /\ events' = events \o [j \in DOMAIN Replies(i.op) |-> Answer(c, Replies(i.op)[j])]
  /\ UNCHANGED <<active, refused>>

\* Or it is refused, which only the parameters of the first event tell.
ChipRefuses ==
  /\ Work
  /\ LET c == Head(commands) IN
     /\ c.op = "record"
     /\ events' = Append(events, Answer(c, Head(Replies(file.items[c.item].op))))
  /\ refused' = refused \cup {Head(commands).item}
  /\ UNCHANGED chipVars

-----------------------------------------------------------------------------

Driver == \/ HciReset \/ ReadVersion \/ GetFirmware \/ EnterMfg
          \/ ParseCommand \/ ParseEvent \/ ParseRecord
          \/ SendRecord \/ RecordEvent \/ RecordFails
          \/ ExitMfg \/ Reread \/ SetEventMaskMfg

Chip == ChipAnswers \/ ChipLeaves \/ ChipTakes \/ ChipRefuses

Done == pc \in Ended /\ commands = <<>> /\ UNCHANGED vars

Next == Driver \/ Chip \/ Done

\* The driver's thread runs, and the controller works on what it is sent.
Spec == Init /\ [][Next]_vars /\ WF_vars(Driver) /\ WF_vars(Chip)

-----------------------------------------------------------------------------
(* Properties *)

\* Every variable stays in its range.
TypeOK == /\ file = None \/ WellFormed(file)
          /\ found \in BOOLEAN
          /\ mfg \in BOOLEAN
          /\ loaded \subseteq DOMAIN file.items
          /\ active \in BOOLEAN
          /\ commands \in Seq(Commands(file))
          /\ events \in Seq([to : Commands(file), code : Codes, patched : BOOLEAN])
          /\ pc \in Points
          /\ waiting \in BOOLEAN
          /\ disablePatch \in BOOLEAN
          /\ item \in 1 .. Len(file.items) + 1
          /\ cmd \in {0} \cup DOMAIN file.items
          /\ evt \in Codes \cup {"none"}
          /\ exit \in Ways \cup {"none"}
          /\ faults \in 0 .. MaxFaults
          /\ failedAt \subseteq Points
          /\ refused \subseteq DOMAIN file.items
          /\ sent \subseteq DOMAIN file.items
          /\ reach \in Nat
          /\ stray \in BOOLEAN

\* Manufacturer mode is left on every way out of setup: only a fault in
\* entering or leaving it can leave the controller there.
LeavesMfg == pc \in Ended /\ commands = <<>> /\ mfg =>
               failedAt \cap {"enterMfg", "exitMfg", "maskEnter", "maskExit"} # {}

CommandsOf(f) == {k \in DOMAIN f.items : f.items[k].kind = "command" /\ f.items[k].at < f.size}

\* Patches are activated all together or not at all: after every record of the
\* file was played without a fault; and when patching ended early and
\* manufacturer mode was left, none is loaded any more.  A controller that was
\* found patched takes none.
AllOrNothing ==
  /\ active /\ ~found => CommandsOf(file) \subseteq sent /\ "record" \notin failedAt
  /\ exit = "deactivate" /\ pc = "succeeded" /\ commands = <<>> =>
       loaded = {} /\ ~active
  /\ found => sent = {}

\* As long as no transfer failed, each event read answers the command just
\* sent, unless the file ends before the last event of a command.
LacksEvent(f) == \E k \in DOMAIN f.items :
                   f.items[k].kind = "event" /\ f.size <= f.items[k].at + 2
InStep == stray => faults > 0 \/ LacksEvent(file)

\* The parser reads inside the file, except that it reads the header of a
\* command wherever one may start: so at most three bytes past the end, and then
\* patching has failed, whatever was found there.
ReadsInFile == reach > file.size => reach <= file.size + 3 /\ exit = "deactivate"

\* Patching is a transaction, for all that records are answered late, not at
\* all, or not taken: each record is played once, there is one decision, and the
\* controller carries it out with no record under way.
UnderWay == {commands[i].item : i \in {j \in DOMAIN commands : commands[j].op = "record"}}

PT == INSTANCE PatchTransaction WITH
        whole    <- CommandsOf(file),
        played   <- sent,
        underWay <- UnderWay,
        patches  <- loaded,
        decision <- exit

KeepsTransaction == PT!Spec

\* Setup comes to an end, whatever the file and the controller do.
SetupEnds == <>(pc \in Ended)

\* A controller that needs patching and gets a file without flaws ends up
\* patched, configured and out of manufacturer mode, also when it refused to
\* leave that mode in the middle of the file.
Flawless(f) ==
  /\ f # None /\ f.size = End(f.items[Len(f.items)])
  /\ f.items[1].kind = "command" /\ f.items[1].op = "patch"
  /\ \A k \in DOMAIN f.items :
       CASE f.items[k].kind = "command" ->
              /\ k < Len(f.items) /\ f.items[k + 1].kind = "event"
              /\ \A j \in 1 .. k - 1 : f.items[j].op # "leave" \/ f.items[k].op # "patch"
         [] f.items[k].kind = "event" -> TRUE
         [] OTHER -> FALSE
Patches == ~found /\ Flawless(file) =>
  <>[](\/ faults > 0
       \/ \E k \in refused : file.items[k].op # "leave"
       \/ pc = "succeeded" /\ active /\ ~mfg)

\* IntelBluetoothOpsGen1.cpp, setup(): "the returned event is compared with the
\* event read from the firmware file", so when the controller refused a patch the
\* others are not activated without it.
RefusedNotActivated ==
  active /\ ~found => \A k \in refused : file.items[k].op # "patch"
=============================================================================
