------------------------- MODULE Gen1PatchingProofs -------------------------
(***************************************************************************)
(* Proofs about Gen1Patching, for every set of patch files and any number  *)
(* of faults.                                                              *)
(*                                                                         *)
(* Three arguments.  The offsets of a file's items ascend, so the commands *)
(* that the parser has passed are all those before its place (Played).     *)
(* The controller works in order, so what it will be once it is done is    *)
(* told by the last command in its queue that matters: one that leaves     *)
(* manufacturer mode and none that enters it behind it (Out), a            *)
(* deactivation and no record behind it (Cleared).  And as long as no      *)
(* transfer fails, only the command just sent or its answers are under way *)
(* (Exchanges).                                                            *)
(***************************************************************************)
EXTENDS Gen1Patching, SequenceLemmas

-----------------------------------------------------------------------------
(* The invariant *)

\* Control points up to the end of the records.
Early == {"hciReset", "readVersion", "getFirmware", "enterMfg", "patching",
          "expected", "record"}

\* What a control point presupposes.
Places ==
  /\ file \in PatchFiles \cup {None}
  /\ pc \in {"enterMfg", "patching", "expected", "record", "exitMfg"} => file # None
  /\ pc \in {"expected", "record"} => cmd \in DOMAIN file.items
  /\ pc = "exitMfg" => exit \in Ways
  /\ pc \in Early => exit = "none"
  /\ pc \in {"getFirmware", "patching", "expected"} \cup Ended => ~waiting

\* An answer is there or will come, except that of a record.
Pending == waiting /\ pc # "record" => events # <<>> \/ commands # <<>>

\* No command of a queue is one of ops, or none behind one of some others.
Lacks(s, ops) == \A i \in DOMAIN s : s[i].op \notin ops
Finally(s, some, ops) ==
  \E i \in DOMAIN s : /\ s[i].op \in some
                      /\ \A j \in DOMAIN s : i < j => s[j].op \notin ops

\* The controller will have left manufacturer mode when it is done.
Out == \/ ~mfg /\ Lacks(commands, {"enter"})
       \/ Finally(commands, Ways, {"enter"})

Missed == failedAt \cap {"enterMfg", "exitMfg", "maskEnter", "maskExit"} # {}

Leaving ==
  ~Missed => /\ pc \in {"hciReset", "readVersion", "getFirmware", "reread"} \cup Ended => Out
             /\ pc \in {"enterMfg", "maskEnter"} /\ ~waiting => Out
             /\ pc \in {"exitMfg", "maskExit"} /\ waiting => Out

\* A controller that was found patched stays so.
AllPatched(s) == \A i \in DOMAIN s : s[i].patched
Found ==
  found => /\ active
           /\ sent = {}
           /\ pc \notin {"getFirmware", "enterMfg", "patching", "expected", "record", "exitMfg"}
           /\ exit = "none"
           /\ AllPatched(events)
           /\ Lacks(commands, {"deactivate"})

\* The commands before k were sent to the controller, but for one perhaps.
SentBefore(k, unsent) ==
  \A j \in DOMAIN file.items : j < k /\ file.items[j].kind = "command" => j \in sent \cup unsent

Played ==
  /\ pc \in Early => "record" \notin failedAt
  /\ pc \in Early \ {"expected", "record"} => SentBefore(item, {})
  /\ pc \in {"expected", "record"} => SentBefore(item, {cmd})
  /\ pc = "record" /\ waiting => cmd \in sent
  /\ exit = "activate" => CommandsOf(file) \subseteq sent /\ "record" \notin failedAt

\* Patches are activated and dropped in no other way than the one chosen.
Chosen ==
  /\ active /\ ~found => exit = "activate"
  /\ exit # "activate" => Lacks(commands, {"activate"})

\* The controller will have no patches loaded when it is done.
Cleared == \/ loaded = {} /\ Lacks(commands, {"record"})
           \/ Finally(commands, {"deactivate"}, {"record"})

Dropping ==
  exit = "deactivate" =>
    /\ pc = "exitMfg" /\ waiting => Cleared
    /\ pc \in {"reread", "maskEnter", "mask", "maskExit", "succeeded"} => Cleared

IInv == /\ TypeOK /\ Places /\ Pending /\ Leaving /\ Found /\ Played /\ Chosen
        /\ Dropping /\ ReadsInFile

-----------------------------------------------------------------------------
(* The exchanges, as long as no transfer has failed *)

\* The command whose answer a control point awaits.
Own == CASE pc = "hciReset"                  -> Simply("reset")
         [] pc \in {"readVersion", "reread"} -> Simply("version")
         [] pc \in {"enterMfg", "maskEnter"} -> Simply("enter")
         [] pc = "record"                    -> ThisRecord
         [] pc = "exitMfg"                   -> Simply(exit)
         [] pc = "mask"                      -> Simply("mask")
         [] pc = "maskExit"                  -> Simply("disable")

Quiet == commands = <<>> /\ events = <<>>

\* One command to be worked on, or its answers to be read; only a record has
\* more than one, and then the awaited one is the last.
Awaiting(own) ==
  \/ commands = <<own>> /\ events = <<>>
  \/ /\ commands = <<>>
     /\ \A i \in DOMAIN events :
          /\ events[i].to = own
          /\ i < Len(events) => pc = "record" /\ events[i].code # evt

\* The events listed so far for the command at hand.
Listed ==
  /\ cmd < item
  /\ \A j \in cmd + 1 .. item - 1 : file.items[j].kind = "event"
  /\ evt = IF item = cmd + 1 THEN "none" ELSE file.items[item - 1].code

Exchanges ==
  faults = 0 /\ ~LacksEvent(file) =>
    /\ ~stray
    /\ pc \in Points \ Ended => IF waiting THEN Awaiting(Own) ELSE Quiet
    /\ pc = "expected" => Listed /\ file.items[cmd].kind = "command"
    /\ pc = "record" => evt = LastReply(file.items[cmd].op)

-----------------------------------------------------------------------------
(* Patch files *)

\* The items of a patch file are numbered from 1 and lie where they say.
LEMMA ItemsOf ==
  ASSUME NEW f, WellFormed(f)
  PROVE  /\ Len(f.items) \in Nat \ {0}
         /\ DOMAIN f.items = 1 .. Len(f.items)
         /\ f.size \in Nat \ {0}
         /\ \A k \in DOMAIN f.items :
              LET i == f.items[k] IN
              /\ i.kind \in Kinds /\ i.at \in Nat /\ i.plen \in Nat
              /\ i.op \in Opcodes /\ i.code \in Codes
              /\ End(i) \in Nat /\ i.at < End(i)
              /\ i.kind = "command" => End(i) = i.at + 4 + i.plen
<1>1. f.items \in Seq([kind : Kinds, at : Nat, plen : 0 .. 255, op : Opcodes, code : Codes])
      /\ f.items # <<>>
  BY DEF WellFormed
<1>2. Len(f.items) \in Nat \ {0} /\ DOMAIN f.items = 1 .. Len(f.items)
  BY <1>1, EmptySeq
<1>3. ASSUME NEW k \in DOMAIN f.items
      PROVE  LET i == f.items[k] IN
             /\ i.kind \in Kinds /\ i.at \in Nat /\ i.plen \in Nat
             /\ i.op \in Opcodes /\ i.code \in Codes
  <2>1. f.items[k] \in [kind : Kinds, at : Nat, plen : 0 .. 255, op : Opcodes, code : Codes]
    BY <1>1, <1>2, ElementOfSeq
  <2>2. QED
    BY <2>1
<1>4. ASSUME NEW k \in DOMAIN f.items
      PROVE  LET i == f.items[k] IN
             /\ End(i) \in Nat /\ i.at < End(i)
             /\ i.kind = "command" => End(i) = i.at + 4 + i.plen
  BY <1>3 DEF End, Header, Kinds
<1>5. f.size \in Nat \ {0}
  BY DEF WellFormed
<1>6. QED
  BY <1>2, <1>3, <1>4, <1>5

\* A later item lies behind.
LEMMA Ascending ==
  ASSUME NEW f, WellFormed(f), NEW j \in DOMAIN f.items, NEW k \in DOMAIN f.items, j < k
  PROVE  f.items[j].at < f.items[k].at
<1> DEFINE T == {n \in 1 .. Len(f.items) : j < n /\ ~ (f.items[j].at < f.items[n].at)}
<1>1. Len(f.items) \in Nat /\ DOMAIN f.items = 1 .. Len(f.items)
  BY ItemsOf
<1>2. \A n \in 1 .. Len(f.items) : f.items[n].at \in Nat /\ f.items[n].at < End(f.items[n]) /\ End(f.items[n]) \in Nat
  BY <1>1, ItemsOf
<1>3. ASSUME NEW n \in T, \A m \in T : n <= m
      PROVE  FALSE
  <2>1. n \in 1 .. Len(f.items) /\ j < n /\ ~ (f.items[j].at < f.items[n].at)
    OBVIOUS
  <2>2. n - 1 \in 1 .. Len(f.items) - 1 /\ n - 1 + 1 = n
    BY <1>1, <2>1
  <2>3. f.items[n].at = End(f.items[n - 1])
    BY <2>2 DEF WellFormed
  <2>4. CASE n - 1 = j
    BY <1>1, <1>2, <2>1, <2>3, <2>4
  <2>5. CASE n - 1 # j
    <3>1. n - 1 \notin T
      BY <1>1, <1>3, <2>1
    <3>2. f.items[j].at < f.items[n - 1].at
      BY <1>1, <2>1, <2>2, <2>5, <3>1
    <3>3. n - 1 \in 1 .. Len(f.items) /\ j \in 1 .. Len(f.items)
      BY <1>1, <2>2
    <3>4. f.items[n - 1].at < f.items[n].at
      BY <1>2, <2>3, <3>3
    <3>5. f.items[j].at \in Nat /\ f.items[n - 1].at \in Nat /\ f.items[n].at \in Nat
      BY <1>2, <2>1, <3>3
    <3>6. f.items[j].at < f.items[n].at
      BY <3>2, <3>4, <3>5
    <3>7. QED
      BY <2>1, <3>6
  <2>6. QED
    BY <2>4, <2>5
<1>4. T \subseteq Nat
  BY <1>1
<1>5. T = {}
  BY <1>3, <1>4, LeastElement
<1>6. QED
  BY <1>1, <1>5

\* The items of whatever file there is.
LEMMA FileItems ==
  ASSUME TypeOK
  PROVE  /\ Len(file.items) \in Nat /\ DOMAIN file.items = 1 .. Len(file.items)
         /\ file # None => WellFormed(file)
<1>1. CASE WellFormed(file)
  BY <1>1, ItemsOf DEF TypeOK
<1>2. CASE file = None
  BY <1>2 DEF None
<1>3. QED
  BY <1>1, <1>2 DEF TypeOK

-----------------------------------------------------------------------------
(* Where the parser is *)

\* Past the last item the file has ended.
LEMMA HereFacts ==
  ASSUME TypeOK, file # None
  PROVE  /\ Here.at \in Nat /\ Here.plen \in Nat /\ file.size \in Nat
         /\ item \in DOMAIN file.items => Here = file.items[item]
         /\ item \notin DOMAIN file.items => /\ AtEnd
                                             /\ Here.kind = "other"
                                             /\ \A k \in DOMAIN file.items : k < item
<1>1. WellFormed(file)
  BY FileItems
<1>2. item \in 1 .. Len(file.items) + 1
  BY DEF TypeOK
<1>3. /\ Len(file.items) \in Nat \ {0}
      /\ DOMAIN file.items = 1 .. Len(file.items)
      /\ file.size \in Nat
  BY <1>1, ItemsOf
<1>4. CASE item \in DOMAIN file.items
  <2>1. Here = file.items[item]
    BY <1>4 DEF Here
  <2>2. QED
    BY <1>1, <1>3, <1>4, <2>1, ItemsOf
<1>5. CASE item \notin DOMAIN file.items
  <2> DEFINE end == End(file.items[Len(file.items)])
  <2>1. item = Len(file.items) + 1
    BY <1>2, <1>3, <1>5
  <2>2. end \in Nat /\ file.size <= end
    <3>1. Len(file.items) \in DOMAIN file.items
      BY <1>3
    <3>2. file.size <= end
      BY <1>1 DEF WellFormed
    <3>3. QED
      BY <1>1, <3>1, <3>2, ItemsOf
  <2>3. Here = [kind |-> "other", at |-> end, plen |-> 0, op |-> "config", code |-> "complete"]
    BY <1>5 DEF Here
  <2> HIDE DEF end
  <2>4. QED
    BY <1>3, <1>5, <2>1, <2>2, <2>3 DEF AtEnd
<1>6. QED
  BY <1>4, <1>5

\* A command that fits is the command of the item at hand.
LEMMA CommandHere ==
  ASSUME TypeOK, file # None, ~AtEnd
  PROVE  /\ item \in DOMAIN file.items
         /\ Here = file.items[item]
         /\ Here.at < file.size
         /\ CommandFits(Here) => Here.kind = "command"
<1>1. item \in DOMAIN file.items /\ Here.at < file.size
  BY HereFacts DEF AtEnd
<1>2. CommandFits(Here) => Here.kind = "command"
  BY HereFacts DEF CommandFits, Remain
<1>3. QED
  BY <1>1, <1>2, HereFacts

\* So is an event, with its header.
LEMMA EventHere ==
  ASSUME TypeOK, file # None, MoreEvents
  PROVE  /\ item \in DOMAIN file.items
         /\ Here = file.items[item]
         /\ Here.kind = "event"
         /\ Here.at + 3 <= file.size
  BY HereFacts DEF MoreEvents, Remain

-----------------------------------------------------------------------------
(* Commands, events and queues of them *)

Events == [to : Commands(file), code : Codes, patched : BOOLEAN]

\* What a command of setup() itself is.
LEMMA SimpleCommand ==
  \A op \in Simple \cup Ways : /\ Simply(op) \in Commands(file)
                               /\ Simply(op).op = op
  BY DEF Simply, Commands

\* What a command of the file is.
LEMMA RecordCommand ==
  cmd \in DOMAIN file.items => /\ ThisRecord \in Commands(file)
                               /\ ThisRecord.op = "record"
                               /\ ThisRecord.item = cmd
  BY DEF ThisRecord, Commands

\* There are no other commands.
LEMMA CommandForms ==
  \A c \in Commands(file) : /\ c.op \in Simple \cup Ways \cup {"record"}
                            /\ c.op = "record" => c.item \in DOMAIN file.items
  BY DEF Commands, Simple, Ways

\* What the exchanges do to the queues.
LEMMA SendQueues ==
  ASSUME TypeOK, NEW c \in Commands(file), NEW bad, Send(c, bad)
  PROVE  /\ commands' \in {commands, Append(commands, c)}
         /\ commands' \in Seq(Commands(file))
         /\ faults' \in 0 .. MaxFaults
         /\ failedAt' \subseteq Points
         /\ pc' \in {pc, bad}
         /\ waiting' \in BOOLEAN
         /\ UNCHANGED <<events, stray>>
<1>1. commands \in Seq(Commands(file)) /\ Append(commands, c) \in Seq(Commands(file))
  BY AppendProperties DEF TypeOK
<1>2. faults' \in 0 .. MaxFaults /\ failedAt' \subseteq Points
  BY Gen1Assumption DEF Send, NoFault, Fault, TypeOK
<1>3. waiting' \in BOOLEAN
  BY Zenon DEF Send, TypeOK
<1>4. QED
  BY <1>1, <1>2, <1>3 DEF Send

\* Reading an event takes it off the queue and leaves the commands alone.
LEMMA ReceiveQueues ==
  ASSUME TypeOK, NEW c, Receive(c)
  PROVE  /\ Head(events) \in Events
         /\ events' \in Seq(Events)
         /\ stray' \in BOOLEAN
         /\ UNCHANGED <<commands, faults, failedAt>>
<1>1. events \in Seq(Events) /\ events # <<>> /\ events' = Tail(events)
  BY DEF Receive, TypeOK, Events
<1>2. Head(events) \in Events /\ events' \in Seq(Events)
  BY <1>1, RangeHeadTail
<1>3. stray' \in BOOLEAN
  BY DEF Receive, TypeOK
<1>4. QED
  BY <1>2, <1>3 DEF Receive, NoFault

\* A read that fails may lose the oldest event and nothing else.
LEMMA NoEventQueues ==
  ASSUME TypeOK, NEW bad, NoEvent(bad)
  PROVE  /\ events' \in Seq(Events)
         /\ faults' \in 0 .. MaxFaults
         /\ failedAt' \subseteq Points
         /\ pc' = bad /\ waiting /\ waiting' = FALSE
         /\ UNCHANGED <<commands, stray>>
<1>1. events \in Seq(Events)
  BY DEF TypeOK, Events
<1>2. CASE events' = events
  BY <1>1, <1>2, Gen1Assumption DEF NoEvent, NoFault, Fault, TypeOK
<1>3. CASE events # <<>> /\ events' = Tail(events)
  <2>1. events' \in Seq(Events)
    BY <1>1, <1>3, RangeHeadTail
  <2>2. QED
    BY <2>1, Gen1Assumption DEF NoEvent, NoFault, Fault, TypeOK
<1>4. QED
  BY <1>2, <1>3 DEF NoEvent

\* What the controller does to them.
LEMMA WorkQueues ==
  ASSUME TypeOK, Work
  PROVE  /\ Head(commands) \in Commands(file)
         /\ commands' \in Seq(Commands(file))
         /\ \A code \in Codes : /\ Answer(Head(commands), code) \in Events
                                /\ Append(events, Answer(Head(commands), code)) \in Seq(Events)
                                /\ Append(events, Answer(Head(commands), code)) # <<>>
<1>1. Head(commands) \in Commands(file) /\ commands' \in Seq(Commands(file))
  BY RangeHeadTail DEF Work, TypeOK
<1>2. ASSUME NEW code \in Codes
      PROVE  Answer(Head(commands), code) \in Events
  BY <1>1 DEF Answer, TypeOK, Events
<1>3. events \in Seq(Events)
  BY DEF TypeOK, Events
<1>4. QED
  BY <1>1, <1>2, <1>3, AppendProperties, EmptySeq

\* Every command of the file has one answer or two.
LEMMA ReplyCodes ==
  \A op : /\ Replies(op) \in Seq(Codes) /\ Replies(op) # <<>>
          /\ Len(Replies(op)) \in {1, 2}
          /\ Head(Replies(op)) \in Codes
          /\ \A j \in DOMAIN Replies(op) : Replies(op)[j] \in Codes
<1> SUFFICES ASSUME NEW op
             PROVE  /\ Replies(op) \in Seq(Codes) /\ Replies(op) # <<>>
                    /\ Len(Replies(op)) \in {1, 2}
                    /\ Head(Replies(op)) \in Codes
                    /\ \A j \in DOMAIN Replies(op) : Replies(op)[j] \in Codes
  OBVIOUS
<1>1. CASE op = "config"
  BY <1>1 DEF Replies, Codes
<1>2. CASE op # "config"
  BY <1>2 DEF Replies, Codes
<1>3. QED
  BY <1>1, <1>2

\* The answers to a record.
LEMMA TakeQueues ==
  ASSUME TypeOK, ChipTakes
  PROVE  LET op == file.items[Head(commands).item].op
             answers == [j \in DOMAIN Replies(op) |-> Answer(Head(commands), Replies(op)[j])]
         IN  /\ events' = events \o answers
             /\ answers \in Seq(Events)
             /\ events' \in Seq(Events)
             /\ events' # <<>>
<1> DEFINE op == file.items[Head(commands).item].op
           answers == [j \in DOMAIN Replies(op) |-> Answer(Head(commands), Replies(op)[j])]
<1>1. events' = events \o answers
  BY DEF ChipTakes
<1>2. DOMAIN Replies(op) = 1 .. Len(Replies(op)) /\ Len(Replies(op)) \in {1, 2}
  BY ReplyCodes
<1>3. \A j \in DOMAIN Replies(op) : Answer(Head(commands), Replies(op)[j]) \in Events
  BY WorkQueues, ReplyCodes DEF ChipTakes
<1>4. answers \in Seq(Events) /\ Len(answers) \in {1, 2}
  <2> HIDE DEF op
  <2> QED
    BY <1>2, <1>3
<1>5. events \in Seq(Events)
  BY DEF TypeOK, Events
<1>6. events' \in Seq(Events) /\ events' # <<>>
  <2> HIDE DEF answers
  <2> QED
    <3>1. /\ events \o answers \in Seq(Events)
          /\ Len(events \o answers) = Len(events) + Len(answers)
      BY <1>4, <1>5, ConcatProperties
    <3>2. Len(events \o answers) # 0
      BY <1>4, <1>5, <3>1, LenProperties
    <3>3. QED
      BY <1>1, <3>1, <3>2, EmptySeq
<1>7. QED
  BY <1>1, <1>4, <1>6


-----------------------------------------------------------------------------
(* One step and one part of the invariant at a time *)

\* The file and the parser stay in range while they rest.
LEMMA RestTypes ==
  ASSUME TypeOK, UNCHANGED <<fixedVars, parseVars, reach>>,
         mfg' \in BOOLEAN, loaded' \subseteq DOMAIN file.items, active' \in BOOLEAN,
         commands' \in Seq(Commands(file)), events' \in Seq(Events),
         pc' \in Points, waiting' \in BOOLEAN, exit' \in Ways \cup {"none"},
         faults' \in 0 .. MaxFaults, failedAt' \subseteq Points,
         refused' \subseteq DOMAIN file.items, sent' \subseteq DOMAIN file.items, stray' \in BOOLEAN
  PROVE  TypeOK'
<1>1. /\ file' = file /\ found' = found /\ reach' = reach
      /\ disablePatch' = disablePatch /\ item' = item /\ cmd' = cmd /\ evt' = evt
  BY DEF fixedVars, parseVars
<1>2. /\ file' = None \/ WellFormed(file')
      /\ found' \in BOOLEAN /\ reach' \in Nat /\ disablePatch' \in BOOLEAN
      /\ item' \in 1 .. Len(file'.items) + 1 /\ cmd' \in {0} \cup DOMAIN file'.items
      /\ evt' \in Codes \cup {"none"}
  BY <1>1 DEF TypeOK
<1>3. /\ loaded' \subseteq DOMAIN file'.items /\ sent' \subseteq DOMAIN file'.items
      /\ refused' \subseteq DOMAIN file'.items
      /\ commands' \in Seq(Commands(file'))
      /\ events' \in Seq([to : Commands(file'), code : Codes, patched : BOOLEAN])
  BY <1>1 DEF Events
<1>4. QED
  BY <1>2, <1>3 DEF TypeOK

\* And so does the controller while setup makes an exchange.
LEMMA ExchangedTypes ==
  ASSUME TypeOK, UNCHANGED <<fixedVars, chipVars, parseVars, historyVars>>,
         commands' \in Seq(Commands(file)), events' \in Seq(Events),
         pc' \in Points, waiting' \in BOOLEAN, exit' \in Ways \cup {"none"},
         faults' \in 0 .. MaxFaults, failedAt' \subseteq Points, stray' \in BOOLEAN
  PROVE  TypeOK'
<1>1. UNCHANGED <<mfg, loaded, active, refused, sent, reach>>
  BY DEF chipVars, historyVars
<1>2. /\ mfg' \in BOOLEAN /\ loaded' \subseteq DOMAIN file.items /\ active' \in BOOLEAN
      /\ refused' \subseteq DOMAIN file.items /\ sent' \subseteq DOMAIN file.items
  BY <1>1 DEF TypeOK
<1>3. QED
  BY <1>1, <1>2, RestTypes

\* The controller works on nothing but its own state and the queues.
LEMMA WorkTypes ==
  ASSUME TypeOK, Work, mfg' \in BOOLEAN, loaded' \subseteq DOMAIN file.items,
         active' \in BOOLEAN, refused' \subseteq DOMAIN file.items, events' \in Seq(Events)
  PROVE  TypeOK'
<1>1. UNCHANGED <<fixedVars, pc, waiting, parseVars, exit, faults, failedAt, sent, reach, stray>>
  BY DEF Work
<1>2. /\ pc' \in Points /\ waiting' \in BOOLEAN /\ exit' \in Ways \cup {"none"}
      /\ faults' \in 0 .. MaxFaults /\ failedAt' \subseteq Points
      /\ sent' \subseteq DOMAIN file.items /\ stray' \in BOOLEAN
  BY <1>1 DEF TypeOK
<1>3. QED
  BY <1>1, <1>2, WorkQueues, RestTypes

\* An exchange moves between control points and keeps the types.
LEMMA ExchangeTypes ==
  ASSUME TypeOK, NEW c \in Commands(file), NEW next \in Points, NEW bad \in Points,
         Exchange(c, next, bad)
  PROVE  TypeOK'
<1>1. UNCHANGED <<fixedVars, chipVars, parseVars, exit, historyVars>>
  BY DEF Exchange
<1>2. /\ commands \in Seq(Commands(file)) /\ events \in Seq(Events)
      /\ pc \in Points /\ exit' \in Ways \cup {"none"} /\ stray \in BOOLEAN
      /\ faults \in 0 .. MaxFaults /\ failedAt \subseteq Points
  BY <1>1 DEF TypeOK, Events
<1>3. CASE Send(c, bad)
  <2>1. /\ commands' \in Seq(Commands(file)) /\ events' = events
        /\ pc' \in Points /\ waiting' \in BOOLEAN /\ stray' = stray
        /\ faults' \in 0 .. MaxFaults /\ failedAt' \subseteq Points
    BY <1>2, <1>3, SendQueues
  <2>2. QED
    BY <1>1, <1>2, <2>1, ExchangedTypes
<1>4. CASE Receive(c) /\ waiting' = FALSE /\ pc' = next
  <2>1. /\ commands' = commands /\ events' \in Seq(Events) /\ stray' \in BOOLEAN
        /\ faults' = faults /\ failedAt' = failedAt
    BY <1>4, ReceiveQueues
  <2>2. QED
    BY <1>1, <1>2, <1>4, <2>1, ExchangedTypes
<1>5. CASE NoEvent(bad)
  <2>1. /\ commands' = commands /\ events' \in Seq(Events) /\ stray' = stray
        /\ pc' = bad /\ waiting' = FALSE
        /\ faults' \in 0 .. MaxFaults /\ failedAt' \subseteq Points
    BY <1>5, NoEventQueues
  <2>2. QED
    BY <1>1, <1>2, <2>1, ExchangedTypes
<1>6. QED
  BY <1>3, <1>4, <1>5 DEF Exchange

\* So does reading the version.
LEMMA VersionTypes ==
  ASSUME TypeOK, NEW unpatched \in Points, NEW patched \in Points,
         VersionExchange(unpatched, patched)
  PROVE  TypeOK'
<1> DEFINE next == IF Head(events).to # Simply("version") THEN "failed"
                   ELSE IF Head(events).patched THEN patched ELSE unpatched
<1>1. Simply("version") \in Commands(file) /\ "failed" \in Points
  BY SimpleCommand DEF Simple, Points, Ended
<1>2. next \in Points
  BY <1>1
<1>3. Exchange(Simply("version"), next, "failed")
  BY DEF VersionExchange, Exchange
<1> HIDE DEF next
<1>4. QED
  BY <1>1, <1>2, <1>3, ExchangeTypes

\* Every step keeps the variables in range.
LEMMA StepTypeOK == TypeOK /\ Places /\ [Next]_vars => TypeOK'
<1> SUFFICES ASSUME TypeOK, Places, [Next]_vars PROVE TypeOK'
  OBVIOUS
<1> USE DEF fixedVars, chipVars, parseVars, historyVars
<1>1. CASE HciReset
  BY <1>1, SimpleCommand, ExchangeTypes DEF HciReset, Points, Simple, Ended
<1>2. CASE ReadVersion
  BY <1>2, VersionTypes DEF ReadVersion, Points
<1>3. CASE GetFirmware
  BY <1>3 DEF GetFirmware, TypeOK, Points
<1>4. CASE EnterMfg
  BY <1>4, SimpleCommand, ExchangeTypes DEF EnterMfg, Points, Simple, Ended
<1>5. CASE ParseCommand
  <2>1. file # None
    BY <1>5 DEF ParseCommand, Places
  <2>2. CASE AtEnd
    BY <1>5, <2>2 DEF ParseCommand, TypeOK, Points, Leave, Ways
  <2>3. CASE ~AtEnd
    <3>1. item \in DOMAIN file.items /\ item + 1 \in 1 .. Len(file.items) + 1
      BY <2>1, <2>3, CommandHere, FileItems DEF TypeOK
    <3>2. reach' \in Nat
      BY <1>5, <2>1, <2>3, HereFacts DEF ParseCommand, Larger, TypeOK
    <3>3. disablePatch' \in BOOLEAN
      BY <1>5, <2>3, Zenon DEF ParseCommand, TypeOK
    <3>4. cmd' \in {0} \cup DOMAIN file.items /\ item' \in 1 .. Len(file.items) + 1
      BY <1>5, <2>3, <3>1 DEF ParseCommand, TypeOK
    <3>5. evt' \in Codes \cup {"none"} /\ exit' \in Ways \cup {"none"} /\ pc' \in Points
      BY <1>5, <2>3 DEF ParseCommand, TypeOK, Leave, Ways, Points
    <3>6. UNCHANGED <<fixedVars, chipVars, commands, events, waiting, faults, failedAt, refused, sent, stray>>
      BY <1>5 DEF ParseCommand
    <3>7. QED
      BY <3>2, <3>3, <3>4, <3>5, <3>6 DEF TypeOK
  <2>4. QED
    BY <2>2, <2>3
<1>6. CASE ParseEvent
  <2>1. file # None
    BY <1>6 DEF ParseEvent, Places
  <2>2. item \in DOMAIN file.items /\ item + 1 \in 1 .. Len(file.items) + 1
    BY <1>6, <2>1, EventHere, FileItems DEF ParseEvent, TypeOK
  <2>3. file.items[item].at \in Nat /\ file.items[item].code \in Codes
    BY <2>1, <2>2, FileItems, ItemsOf
  <2>4. reach' \in Nat
    <3>1. reach' = Larger(reach, file.items[item].at + 3) /\ reach \in Nat
      BY <1>6 DEF ParseEvent, TypeOK
    <3>2. QED
      BY <2>3, <3>1 DEF Larger
  <2>5. QED
    BY <1>6, <2>2, <2>3, <2>4 DEF ParseEvent, TypeOK, Points, Leave, Ways
<1>7. CASE ParseRecord
  BY <1>7 DEF ParseRecord, TypeOK, Points, Leave, Ways
<1>8. CASE SendRecord
  BY <1>8, RecordCommand, SendQueues DEF SendRecord, TypeOK, Places, Points, Ways
<1>9. CASE RecordEvent
  <2>1. /\ UNCHANGED <<fixedVars, chipVars, parseVars, historyVars>>
        /\ waiting' \in BOOLEAN /\ pc' \in Points /\ exit' \in Ways \cup {"none"}
    BY <1>9 DEF RecordEvent, TypeOK, Points
  <2>2. /\ commands' = commands /\ events' \in Seq(Events) /\ stray' \in BOOLEAN
        /\ faults' = faults /\ failedAt' = failedAt
    BY <1>9, ReceiveQueues DEF RecordEvent
  <2>3. /\ commands' \in Seq(Commands(file))
        /\ faults' \in 0 .. MaxFaults /\ failedAt' \subseteq Points
    BY <2>2 DEF TypeOK
  <2>4. QED
    BY <2>1, <2>2, <2>3, ExchangedTypes
<1>10. CASE RecordFails
  <2>1. UNCHANGED <<fixedVars, chipVars, parseVars, historyVars>> /\ exit' = "deactivate"
    BY <1>10 DEF RecordFails
  <2>2. /\ commands' = commands /\ events' \in Seq(Events) /\ stray' = stray
        /\ pc' = "exitMfg" /\ waiting' = FALSE
        /\ faults' \in 0 .. MaxFaults /\ failedAt' \subseteq Points
    BY <1>10, NoEventQueues DEF RecordFails
  <2>3. commands' \in Seq(Commands(file)) /\ stray' \in BOOLEAN
    BY <2>2 DEF TypeOK
  <2>4. pc' \in Points /\ waiting' \in BOOLEAN /\ exit' \in Ways \cup {"none"}
    BY <2>1, <2>2 DEF Points, Ways
  <2>5. QED
    BY <2>1, <2>2, <2>3, <2>4, ExchangedTypes
<1>11. CASE ExitMfg
  BY <1>11, SimpleCommand, ExchangeTypes
     DEF ExitMfg, Places, ExitWay, AfterExit, Points, Ended
<1>12. CASE Reread
  BY <1>12, VersionTypes DEF Reread, Points
<1>13. CASE SetEventMaskMfg
  BY <1>13, SimpleCommand, ExchangeTypes DEF SetEventMaskMfg, Points, Simple, Ways, Ended
<1>14. CASE ChipAnswers
  <2>1. Work /\ events' \in Seq(Events)
    BY <1>14, WorkQueues DEF ChipAnswers, Codes
  <2>2. /\ mfg' \in BOOLEAN /\ loaded' \subseteq DOMAIN file.items /\ active' \in BOOLEAN
        /\ refused' \subseteq DOMAIN file.items
    BY <1>14, Zenon DEF ChipAnswers, chipVars, TypeOK
  <2>3. QED
    BY <2>1, <2>2, WorkTypes
<1>15. CASE ChipLeaves
  <2>1. active' \in BOOLEAN
    BY <1>15, Zenon DEF ChipLeaves, TypeOK, Ways
  <2>2. mfg' \in BOOLEAN /\ loaded' \subseteq DOMAIN file.items /\ refused' \subseteq DOMAIN file.items
    BY <1>15 DEF ChipLeaves, TypeOK
  <2>3. Work /\ events' \in Seq(Events)
    BY <1>15, WorkQueues DEF ChipLeaves, Codes
  <2>4. QED
    BY <2>1, <2>2, <2>3, WorkTypes
<1>16. CASE ChipTakes
  <2>1. Head(commands).op = "record" /\ Head(commands).item \in DOMAIN file.items
    BY <1>16, WorkQueues, CommandForms DEF ChipTakes
  <2>2. loaded' \subseteq DOMAIN file.items
    BY <1>16, <2>1 DEF ChipTakes, TypeOK
  <2>3. mfg' \in BOOLEAN
    BY <1>16, Zenon DEF ChipTakes, TypeOK
  <2>4. Work /\ active' \in BOOLEAN /\ refused' \subseteq DOMAIN file.items
    BY <1>16 DEF ChipTakes, TypeOK
  <2>5. QED
    BY <1>16, <2>2, <2>3, <2>4, TakeQueues, WorkTypes
<1>17. CASE ChipRefuses
  <2>1. Work /\ events' \in Seq(Events)
    BY <1>17, WorkQueues, ReplyCodes DEF ChipRefuses
  <2>2. Head(commands).item \in DOMAIN file.items
    BY <1>17, WorkQueues, CommandForms DEF ChipRefuses
  <2>3. /\ mfg' \in BOOLEAN /\ loaded' \subseteq DOMAIN file.items /\ active' \in BOOLEAN
        /\ refused' \subseteq DOMAIN file.items
    BY <1>17, <2>2 DEF ChipRefuses, chipVars, TypeOK
  <2>4. QED
    BY <2>1, <2>3, WorkTypes
<1>18. CASE Done
  BY <1>18 DEF Done, vars, TypeOK
<1>19. CASE UNCHANGED vars
  BY <1>19 DEF vars, TypeOK
<1>20. QED
  BY <1>1, <1>2, <1>3, <1>4, <1>5, <1>6, <1>7, <1>8, <1>9, <1>10, <1>11, <1>12, <1>13,
     <1>14, <1>15, <1>16, <1>17, <1>18, <1>19
     DEF Next, Driver, Chip

\* Every control point is reached only with what it presupposes.
LEMMA StepPlaces == TypeOK /\ Places /\ Found /\ [Next]_vars => Places'
<1> SUFFICES ASSUME TypeOK, Places, Found, [Next]_vars PROVE Places'
  OBVIOUS
<1> USE DEF fixedVars, chipVars, parseVars, historyVars, Places
<1>1. CASE HciReset
  BY <1>1 DEF HciReset, Exchange, Send, Receive, NoEvent, NoFault, Fault, Early, Ended
<1>2. CASE ReadVersion
  BY <1>2
     DEF ReadVersion, Exchange, Send, Receive, NoEvent, NoFault, Fault,
         VersionExchange, Early, Ended
<1>3. CASE GetFirmware
  BY <1>3 DEF GetFirmware, Early, Ended
<1>4. CASE EnterMfg
  BY <1>4 DEF EnterMfg, Exchange, Send, Receive, NoEvent, NoFault, Fault, Early, Ended
<1>5. CASE ParseCommand
  BY <1>5, CommandHere DEF ParseCommand, Early, Ended, Leave, Ways
<1>6. CASE ParseEvent
  BY <1>6 DEF ParseEvent, Early, Ended, Leave, Ways
<1>7. CASE ParseRecord
  BY <1>7 DEF ParseRecord, Early, Ended, Leave, Ways
<1>8. CASE SendRecord
  BY <1>8
     DEF SendRecord, Exchange, Send, Receive, NoEvent, NoFault, Fault, Early, Ended,
         Ways
<1>9. CASE RecordEvent
  BY <1>9 DEF RecordEvent, Exchange, Send, Receive, NoEvent, NoFault, Fault, Early, Ended
<1>10. CASE RecordFails
  BY <1>10
     DEF RecordFails, Exchange, Send, Receive, NoEvent, NoFault, Fault, Early, Ended,
         Ways
<1>11. CASE ExitMfg
  BY <1>11
     DEF ExitMfg, Exchange, Send, Receive, NoEvent, NoFault, Fault, Early, Ended,
         AfterExit, ExitWay
<1>12. CASE Reread
  BY <1>12
     DEF Reread, Exchange, Send, Receive, NoEvent, NoFault, Fault, VersionExchange,
         Early, Ended
<1>13. CASE SetEventMaskMfg
  BY <1>13
     DEF SetEventMaskMfg, Exchange, Send, Receive, NoEvent, NoFault, Fault, Early,
         Ended
<1>14. CASE ChipAnswers
  BY <1>14 DEF ChipAnswers, Work, Early, Ended
<1>15. CASE ChipLeaves
  BY <1>15 DEF ChipLeaves, Work, Early, Ended
<1>16. CASE ChipTakes
  BY <1>16 DEF ChipTakes, Work, Early, Ended
<1>17. CASE ChipRefuses
  BY <1>17 DEF ChipRefuses, Work, Early, Ended
<1>18. CASE Done
  BY <1>18 DEF Done, vars
<1>19. CASE UNCHANGED vars
  BY <1>19 DEF vars
<1>20. QED
  BY <1>1, <1>2, <1>3, <1>4, <1>5, <1>6, <1>7, <1>8, <1>9, <1>10, <1>11, <1>12, <1>13,
     <1>14, <1>15, <1>16, <1>17, <1>18, <1>19
     DEF Next, Driver, Chip

\* While setup waits, an answer is there or will come.
LEMMA StepPending == TypeOK /\ Places /\ Pending /\ [Next]_vars => Pending'
<1> SUFFICES ASSUME TypeOK, Places, Pending, [Next]_vars PROVE Pending'
  OBVIOUS
<1> USE DEF fixedVars, chipVars, parseVars, historyVars, Pending
<1>1. CASE HciReset
  BY <1>1, AppendProperties, EmptySeq
     DEF HciReset, Exchange, Send, Receive, NoEvent, NoFault, Fault, VersionExchange,
         TypeOK
<1>2. CASE ReadVersion
  BY <1>2, AppendProperties, EmptySeq
     DEF ReadVersion, Exchange, Send, Receive, NoEvent, NoFault, Fault,
         VersionExchange, TypeOK
<1>3. CASE GetFirmware
  BY <1>3 DEF GetFirmware, Places
<1>4. CASE EnterMfg
  BY <1>4, AppendProperties, EmptySeq
     DEF EnterMfg, Exchange, Send, Receive, NoEvent, NoFault, Fault, VersionExchange,
         TypeOK
<1>5. CASE ParseCommand
  BY <1>5 DEF ParseCommand, Places
<1>6. CASE ParseEvent
  BY <1>6 DEF ParseEvent, Places
<1>7. CASE ParseRecord
  BY <1>7 DEF ParseRecord, Places
<1>8. CASE SendRecord
  BY <1>8 DEF SendRecord, Exchange, Send, Receive, NoEvent, NoFault, Fault
<1>9. CASE RecordEvent
  BY <1>9 DEF RecordEvent, Exchange, Send, Receive, NoEvent, NoFault, Fault
<1>10. CASE RecordFails
  BY <1>10 DEF RecordFails, Exchange, Send, Receive, NoEvent, NoFault, Fault
<1>11. CASE ExitMfg
  BY <1>11, AppendProperties, EmptySeq
     DEF ExitMfg, Exchange, Send, Receive, NoEvent, NoFault, Fault, VersionExchange,
         TypeOK
<1>12. CASE Reread
  BY <1>12, AppendProperties, EmptySeq
     DEF Reread, Exchange, Send, Receive, NoEvent, NoFault, Fault, VersionExchange,
         TypeOK
<1>13. CASE SetEventMaskMfg
  BY <1>13, AppendProperties, EmptySeq
     DEF SetEventMaskMfg, Exchange, Send, Receive, NoEvent, NoFault, Fault,
         VersionExchange, TypeOK
<1>14. CASE ChipAnswers
  BY <1>14, WorkQueues DEF ChipAnswers, Work, Codes
<1>15. CASE ChipLeaves
  BY <1>15, WorkQueues DEF ChipLeaves, Work, Codes
<1>16. CASE ChipTakes
  BY <1>16, TakeQueues DEF ChipTakes, Work
<1>17. CASE ChipRefuses
  BY <1>17, WorkQueues, ReplyCodes DEF ChipRefuses, Work
<1>18. CASE Done
  BY <1>18 DEF Done, vars
<1>19. CASE UNCHANGED vars
  BY <1>19 DEF vars
<1>20. QED
  BY <1>1, <1>2, <1>3, <1>4, <1>5, <1>6, <1>7, <1>8, <1>9, <1>10, <1>11, <1>12, <1>13,
     <1>14, <1>15, <1>16, <1>17, <1>18, <1>19
     DEF Next, Driver, Chip

-----------------------------------------------------------------------------
(* What will have become of the queue *)

\* A command of another kind changes nothing in what the queue leads to, one of
\* the kind looked for decides it.
LEMMA QueueGrows ==
  ASSUME TypeOK, NEW c \in Commands(file), NEW some, NEW ops
  PROVE  /\ Lacks(commands, ops) /\ c.op \notin ops => Lacks(Append(commands, c), ops)
         /\ Finally(commands, some, ops) /\ c.op \notin ops => Finally(Append(commands, c), some, ops)
         /\ c.op \in some => Finally(Append(commands, c), some, ops)
<1>1. /\ commands \in Seq(Commands(file))
      /\ Len(commands) \in Nat
      /\ DOMAIN commands = 1 .. Len(commands)
      /\ DOMAIN Append(commands, c) = 1 .. Len(commands) + 1
      /\ \A i \in 1 .. Len(commands) : Append(commands, c)[i] = commands[i]
      /\ Append(commands, c)[Len(commands) + 1] = c
  BY AppendProperties, LenProperties DEF TypeOK
<1>2. Lacks(commands, ops) /\ c.op \notin ops => Lacks(Append(commands, c), ops)
  BY <1>1 DEF Lacks
<1>3. Finally(commands, some, ops) /\ c.op \notin ops => Finally(Append(commands, c), some, ops)
  <2> SUFFICES ASSUME Finally(commands, some, ops), c.op \notin ops
               PROVE  Finally(Append(commands, c), some, ops)
    OBVIOUS
  <2>1. PICK i \in DOMAIN commands :
           commands[i].op \in some /\ \A j \in DOMAIN commands : i < j => commands[j].op \notin ops
    BY DEF Finally
  <2>2. i \in DOMAIN Append(commands, c) /\ Append(commands, c)[i].op \in some
    BY <1>1, <2>1
  <2>3. \A j \in DOMAIN Append(commands, c) : i < j => Append(commands, c)[j].op \notin ops
    BY <1>1, <2>1
  <2>4. QED
    BY <2>2, <2>3 DEF Finally
<1>4. c.op \in some => Finally(Append(commands, c), some, ops)
  BY <1>1 DEF Finally
<1>5. QED
  BY <1>2, <1>3, <1>4

\* Working on a command leaves what it leads to.
LEMMA QueueShrinks ==
  ASSUME TypeOK, Work, NEW some, NEW ops
  PROVE  /\ Lacks(commands, ops) => Lacks(commands', ops) /\ Head(commands).op \notin ops
         /\ Finally(commands, some, ops) =>
              \/ Finally(commands', some, ops)
              \/ Head(commands).op \in some /\ Lacks(commands', ops)
<1>1. /\ commands \in Seq(Commands(file)) /\ commands # <<>> /\ commands' = Tail(commands)
  BY DEF TypeOK, Work
<1>2. /\ Len(commands) \in Nat \ {0}
      /\ DOMAIN commands = 1 .. Len(commands)
      /\ DOMAIN commands' = 1 .. Len(commands) - 1
      /\ \A i \in 1 .. Len(commands) - 1 : commands'[i] = commands[i + 1]
      /\ Head(commands) = commands[1]
  BY <1>1, HeadTailProperties, LenProperties, EmptySeq
<1>3. Lacks(commands, ops) => Lacks(commands', ops) /\ Head(commands).op \notin ops
  BY <1>2 DEF Lacks
<1>4. ASSUME Finally(commands, some, ops)
      PROVE  \/ Finally(commands', some, ops)
             \/ Head(commands).op \in some /\ Lacks(commands', ops)
  <2>1. PICK i \in DOMAIN commands :
           commands[i].op \in some /\ \A j \in DOMAIN commands : i < j => commands[j].op \notin ops
    BY <1>4 DEF Finally
  <2>2. CASE i = 1
    BY <1>2, <2>1, <2>2 DEF Lacks
  <2>3. CASE i # 1
    <3>1. i - 1 \in DOMAIN commands' /\ commands'[i - 1].op \in some
      BY <1>2, <2>1, <2>3
    <3>2. \A j \in DOMAIN commands' : i - 1 < j => commands'[j].op \notin ops
      BY <1>2, <2>1, <2>3
    <3>3. QED
      BY <3>1, <3>2 DEF Finally
  <2>4. QED
    BY <2>2, <2>3
<1>5. QED
  BY <1>3, <1>4

\* The queue after sending, or trying to.
LEMMA QueueSent ==
  ASSUME TypeOK, NEW c \in Commands(file), NEW bad, Send(c, bad), UNCHANGED chipVars
  PROVE  /\ c.op # "enter" /\ Out => Out'
         /\ c.op \in Ways /\ waiting' => Out'
         /\ c.op # "record" /\ Cleared => Cleared'
         /\ c.op = "deactivate" /\ waiting' => Cleared'
<1>1. commands' \in {commands, Append(commands, c)} /\ (waiting' => commands' = Append(commands, c))
  BY DEF Send
<1>2. mfg' = mfg /\ loaded' = loaded
  BY DEF chipVars
<1>3. CASE commands' = commands
  BY <1>1, <1>2, <1>3, QueueGrows DEF Out, Cleared, Lacks, Finally
<1>4. CASE commands' = Append(commands, c)
  BY <1>2, <1>4, QueueGrows DEF Out, Cleared
<1>5. QED
  BY <1>1, <1>3, <1>4

\* The outcomes of an exchange.
Outcome(c, next, bad) ==
  /\ UNCHANGED <<fixedVars, exit>>
  /\ c.op # "enter" /\ Out => Out'
  /\ c.op # "record" /\ Cleared => Cleared'
  /\ \/ /\ ~waiting /\ waiting' /\ pc' = pc /\ failedAt' = failedAt
        /\ c.op \in Ways => Out'
        /\ c.op = "deactivate" => Cleared'
     \/ /\ ~waiting /\ ~waiting' /\ pc' = bad /\ failedAt' = failedAt \cup {pc}
     \/ /\ waiting /\ ~waiting' /\ pc' = next /\ failedAt' = failedAt
        /\ (Out => Out') /\ (Cleared => Cleared')
     \/ /\ waiting /\ ~waiting' /\ pc' = bad
        /\ failedAt' = failedAt \cup {pc} \/ (failedAt' = failedAt /\ events = <<>> /\ commands = <<>>)
        /\ (Out => Out') /\ (Cleared => Cleared')

\* Every step of an exchange has one of these outcomes.
LEMMA ExchangeOutcome ==
  ASSUME TypeOK, NEW c \in Commands(file), NEW next, NEW bad, Exchange(c, next, bad)
  PROVE  Outcome(c, next, bad)
<1>1. UNCHANGED <<fixedVars, chipVars, exit>>
  BY DEF Exchange
<1>2. CASE Send(c, bad)
  <2>1. \/ /\ ~waiting /\ waiting' /\ pc' = pc /\ failedAt' = failedAt
        \/ /\ ~waiting /\ ~waiting' /\ pc' = bad /\ failedAt' = failedAt \cup {pc}
    BY <1>2 DEF Send, Fault, NoFault
  <2>2. QED
    BY <1>1, <1>2, <2>1, QueueSent DEF Outcome
<1>3. ASSUME UNCHANGED commands
      PROVE  (Out => Out') /\ (Cleared => Cleared')
  BY <1>1, <1>3 DEF chipVars, Out, Cleared, Lacks, Finally
<1>4. CASE Receive(c) /\ waiting' = FALSE /\ pc' = next
  BY <1>1, <1>3, <1>4 DEF Receive, NoFault, Outcome
<1>5. CASE NoEvent(bad)
  <2>1. (Out => Out') /\ (Cleared => Cleared')
    BY <1>3, <1>5 DEF NoEvent
  <2>2. /\ waiting /\ ~waiting' /\ pc' = bad
        /\ failedAt' = failedAt \cup {pc} \/ (failedAt' = failedAt /\ events = <<>> /\ commands = <<>>)
    BY <1>5 DEF NoEvent, Fault, NoFault
  <2>3. QED
    BY <1>1, <2>1, <2>2 DEF Outcome
<1>6. QED
  BY <1>2, <1>4, <1>5 DEF Exchange

\* Reading the version is one.
LEMMA VersionOutcome ==
  ASSUME TypeOK, NEW unpatched, NEW patched, VersionExchange(unpatched, patched)
  PROVE  \E next \in {unpatched, patched, "failed"} : Outcome(Simply("version"), next, "failed")
<1> DEFINE next == IF Head(events).to # Simply("version") THEN "failed"
                   ELSE IF Head(events).patched THEN patched ELSE unpatched
<1>1. Exchange(Simply("version"), next, "failed")
  BY DEF VersionExchange, Exchange
<1>2. next \in {unpatched, patched, "failed"}
  OBVIOUS
<1> HIDE DEF next
<1>3. Outcome(Simply("version"), next, "failed")
  BY <1>1, ExchangeOutcome, SimpleCommand DEF Simple
<1>4. QED
  BY <1>2, <1>3

\* The other steps of the driver keep what the queue leads to.
LEMMA LocalQueue ==
  ASSUME UNCHANGED <<chipVars, commands>>
  PROVE  (Out => Out') /\ (Cleared => Cleared')
  BY DEF chipVars, Out, Cleared, Lacks, Finally

\* So does the controller.
LEMMA ChipQueue ==
  ASSUME TypeOK, Chip
  PROVE  (Out => Out') /\ (Cleared => Cleared')
<1>1. Work
  BY DEF Chip, ChipAnswers, ChipLeaves, ChipTakes, ChipRefuses
<1>2. Out => Out'
  <2>1. Lacks(commands, {"enter"}) => Lacks(commands', {"enter"}) /\ Head(commands).op # "enter"
    BY <1>1, QueueShrinks
  <2>2. Finally(commands, Ways, {"enter"}) =>
          \/ Finally(commands', Ways, {"enter"})
          \/ Head(commands).op \in Ways /\ Lacks(commands', {"enter"})
    BY <1>1, QueueShrinks
  <2>3. Head(commands).op # "enter" /\ ~mfg => ~mfg'
    BY DEF Chip, ChipAnswers, ChipLeaves, ChipTakes, ChipRefuses, chipVars
  <2>4. Head(commands).op \in Ways => ~mfg'
    BY DEF Chip, ChipAnswers, ChipLeaves, ChipTakes, ChipRefuses, Ways, Simple
  <2>5. QED
    BY <2>1, <2>2, <2>3, <2>4 DEF Out
<1>3. Cleared => Cleared'
  <2>1. Lacks(commands, {"record"}) => Lacks(commands', {"record"}) /\ Head(commands).op # "record"
    BY <1>1, QueueShrinks
  <2>2. Finally(commands, {"deactivate"}, {"record"}) =>
          \/ Finally(commands', {"deactivate"}, {"record"})
          \/ Head(commands).op = "deactivate" /\ Lacks(commands', {"record"})
    BY <1>1, QueueShrinks
  <2>3. Head(commands).op # "record" /\ loaded = {} => loaded' = {}
    BY DEF Chip, ChipAnswers, ChipLeaves, ChipTakes, ChipRefuses, chipVars
  <2>4. Head(commands).op = "deactivate" => loaded' = {}
    BY DEF Chip, ChipAnswers, ChipLeaves, ChipTakes, ChipRefuses, Ways, Simple
  <2>5. QED
    BY <2>1, <2>2, <2>3, <2>4 DEF Cleared
<1>4. QED
  BY <1>2, <1>3

\* On every way out the controller will leave manufacturer mode.
LEMMA StepLeaving == TypeOK /\ Places /\ Pending /\ Leaving /\ [Next]_vars => Leaving'
<1> SUFFICES ASSUME TypeOK, Places, Pending, Leaving, [Next]_vars PROVE Leaving'
  OBVIOUS
<1> USE DEF fixedVars, Leaving, Missed, Ended
<1>1. CASE HciReset
  BY <1>1, SimpleCommand, ExchangeOutcome
     DEF HciReset, Outcome, Simple, Ways, ExitWay, AfterExit, Places, Pending
<1>2. CASE ReadVersion
  BY <1>2, SimpleCommand, VersionOutcome DEF ReadVersion, Outcome, Simple
<1>3. CASE GetFirmware
  BY <1>3, LocalQueue DEF GetFirmware, Leave, Places
<1>4. CASE EnterMfg
  BY <1>4, SimpleCommand, ExchangeOutcome
     DEF EnterMfg, Outcome, Simple, Ways, ExitWay, AfterExit, Places, Pending
<1>5. CASE ParseCommand
  BY <1>5, LocalQueue DEF ParseCommand, Leave, Places
<1>6. CASE ParseEvent
  BY <1>6, LocalQueue DEF ParseEvent, Leave, Places
<1>7. CASE ParseRecord
  BY <1>7, LocalQueue DEF ParseRecord, Leave, Places
<1>8. CASE SendRecord
  BY <1>8, LocalQueue DEF SendRecord, Exchange, Send, Receive, NoEvent, NoFault, Fault
<1>9. CASE RecordEvent
  BY <1>9, LocalQueue DEF RecordEvent, Exchange, Send, Receive, NoEvent, NoFault, Fault
<1>10. CASE RecordFails
  BY <1>10, LocalQueue DEF RecordFails, Exchange, Send, Receive, NoEvent, NoFault, Fault
<1>11. CASE ExitMfg
  BY <1>11, SimpleCommand, ExchangeOutcome
     DEF ExitMfg, Outcome, Simple, Ways, ExitWay, AfterExit, Places, Pending
<1>12. CASE Reread
  BY <1>12, SimpleCommand, VersionOutcome DEF Reread, Outcome, Simple
<1>13. CASE SetEventMaskMfg
  <2>1. CASE pc = "maskEnter" /\ Exchange(Simply("enter"), "mask", "succeeded")
    <3>1. Outcome(Simply("enter"), "mask", "succeeded")
      BY <2>1, SimpleCommand, ExchangeOutcome DEF Simple
    <3>2. QED
      BY <2>1, <3>1 DEF Outcome, Pending
  <2>2. CASE pc = "mask" /\ Exchange(Simply("mask"), "maskExit", "maskExit")
    <3>1. Outcome(Simply("mask"), "maskExit", "maskExit")
      BY <2>2, SimpleCommand, ExchangeOutcome DEF Simple
    <3>2. QED
      BY <2>2, <3>1 DEF Outcome
  <2>3. CASE pc = "maskExit" /\ Exchange(Simply("disable"), "succeeded", "succeeded")
    <3>1. Outcome(Simply("disable"), "succeeded", "succeeded") /\ Simply("disable").op \in Ways
      BY <2>3, SimpleCommand, ExchangeOutcome DEF Ways
    <3>2. QED
      BY <2>3, <3>1 DEF Outcome, Pending
  <2>4. QED
    BY <1>13, <2>1, <2>2, <2>3 DEF SetEventMaskMfg
<1>14. CASE ChipAnswers
  BY <1>14, ChipQueue DEF ChipAnswers, Chip, Work
<1>15. CASE ChipLeaves
  BY <1>15, ChipQueue DEF ChipLeaves, Chip, Work
<1>16. CASE ChipTakes
  BY <1>16, ChipQueue DEF ChipTakes, Chip, Work
<1>17. CASE ChipRefuses
  BY <1>17, ChipQueue DEF ChipRefuses, Chip, Work
<1>18. CASE Done
  BY <1>18, LocalQueue DEF Done, vars
<1>19. CASE UNCHANGED vars
  BY <1>19, LocalQueue DEF vars
<1>20. QED
  BY <1>1, <1>2, <1>3, <1>4, <1>5, <1>6, <1>7, <1>8, <1>9, <1>10, <1>11, <1>12, <1>13,
     <1>14, <1>15, <1>16, <1>17, <1>18, <1>19
     DEF Next, Driver, Chip

\* Once the exit that drops the patches is sent, they will be dropped.
LEMMA StepDropping == TypeOK /\ Places /\ Dropping /\ [Next]_vars => Dropping'
<1> SUFFICES ASSUME TypeOK, Places, Dropping, [Next]_vars PROVE Dropping'
  OBVIOUS
<1> USE DEF fixedVars, Dropping
<1>1. CASE HciReset
  BY <1>1, SimpleCommand, ExchangeOutcome
     DEF HciReset, Outcome, Simple, Ways, ExitWay, AfterExit, Places, Pending
<1>2. CASE ReadVersion
  BY <1>2, SimpleCommand, VersionOutcome DEF ReadVersion, Outcome, Simple, Places, Early
<1>3. CASE GetFirmware
  BY <1>3, LocalQueue DEF GetFirmware, Places, Early
<1>4. CASE EnterMfg
  BY <1>4, SimpleCommand, ExchangeOutcome
     DEF EnterMfg, Outcome, Simple, Ways, ExitWay, AfterExit, Places, Pending
<1>5. CASE ParseCommand
  BY <1>5, LocalQueue DEF ParseCommand, Leave, Places
<1>6. CASE ParseEvent
  BY <1>6, LocalQueue DEF ParseEvent, Leave, Places
<1>7. CASE ParseRecord
  BY <1>7, LocalQueue DEF ParseRecord, Leave, Places
<1>8. CASE SendRecord
  BY <1>8, LocalQueue DEF SendRecord, Exchange, Send, Receive, NoEvent, NoFault, Fault
<1>9. CASE RecordEvent
  BY <1>9, LocalQueue DEF RecordEvent, Exchange, Send, Receive, NoEvent, NoFault, Fault
<1>10. CASE RecordFails
  BY <1>10, LocalQueue DEF RecordFails, Exchange, Send, Receive, NoEvent, NoFault, Fault
<1>11. CASE ExitMfg
  BY <1>11, SimpleCommand, ExchangeOutcome
     DEF ExitMfg, Outcome, Simple, Ways, ExitWay, AfterExit, Places, Pending
<1>12. CASE Reread
  BY <1>12, SimpleCommand, VersionOutcome DEF Reread, Outcome, Simple
<1>13. CASE SetEventMaskMfg
  BY <1>13, SimpleCommand, ExchangeOutcome
     DEF SetEventMaskMfg, Outcome, Simple, Ways, ExitWay, AfterExit, Places, Pending
<1>14. CASE ChipAnswers
  BY <1>14, ChipQueue DEF ChipAnswers, Chip, Work
<1>15. CASE ChipLeaves
  BY <1>15, ChipQueue DEF ChipLeaves, Chip, Work
<1>16. CASE ChipTakes
  BY <1>16, ChipQueue DEF ChipTakes, Chip, Work
<1>17. CASE ChipRefuses
  BY <1>17, ChipQueue DEF ChipRefuses, Chip, Work
<1>18. CASE Done
  BY <1>18, LocalQueue DEF Done, vars
<1>19. CASE UNCHANGED vars
  BY <1>19, LocalQueue DEF vars
<1>20. QED
  BY <1>1, <1>2, <1>3, <1>4, <1>5, <1>6, <1>7, <1>8, <1>9, <1>10, <1>11, <1>12, <1>13,
     <1>14, <1>15, <1>16, <1>17, <1>18, <1>19
     DEF Next, Driver, Chip

\* The events tell of a patched controller as long as it is one.
LEMMA PatchedEvents ==
  ASSUME TypeOK, AllPatched(events)
  PROVE  /\ events # <<>> => Head(events).patched /\ AllPatched(Tail(events))
         /\ \A e \in Events : e.patched => AllPatched(Append(events, e))
         /\ \A s \in Seq(Events) : AllPatched(s) => AllPatched(events \o s)
<1>1. events \in Seq(Events)
  BY DEF TypeOK, Events
<1>2. events # <<>> => Head(events).patched /\ AllPatched(Tail(events))
  BY <1>1, HeadTailProperties, LenProperties, EmptySeq DEF AllPatched
<1>3. ASSUME NEW e \in Events, e.patched
      PROVE  AllPatched(Append(events, e))
  <2>1. /\ DOMAIN Append(events, e) = 1 .. Len(events) + 1
        /\ DOMAIN events = 1 .. Len(events) /\ Len(events) \in Nat
        /\ \A i \in 1 .. Len(events) : Append(events, e)[i] = events[i]
        /\ Append(events, e)[Len(events) + 1] = e
    BY <1>1, AppendProperties, LenProperties
  <2>2. QED
    BY <1>3, <2>1 DEF AllPatched
<1>4. ASSUME NEW s \in Seq(Events), AllPatched(s)
      PROVE  AllPatched(events \o s)
  <2>1. /\ events \o s \in Seq(Events)
        /\ Len(events \o s) = Len(events) + Len(s)
        /\ \A i \in 1 .. Len(events) + Len(s) :
             (events \o s)[i] = IF i <= Len(events) THEN events[i] ELSE s[i - Len(events)]
    BY <1>1, ConcatProperties
  <2>2. /\ DOMAIN (events \o s) = 1 .. Len(events) + Len(s)
        /\ DOMAIN events = 1 .. Len(events) /\ Len(events) \in Nat
        /\ DOMAIN s = 1 .. Len(s) /\ Len(s) \in Nat
    BY <1>1, <2>1, LenProperties
  <2>3. ASSUME NEW i \in 1 .. Len(events) + Len(s)
        PROVE  (events \o s)[i].patched
    <3>1. CASE i <= Len(events)
      BY <2>1, <2>2, <3>1 DEF AllPatched
    <3>2. CASE Len(events) < i
      BY <1>4, <2>1, <2>2, <3>2 DEF AllPatched
    <3>3. QED
      BY <2>2, <3>1, <3>2
  <2>4. QED
    BY <2>2, <2>3 DEF AllPatched
<1>5. QED
  BY <1>2, <1>3, <1>4

\* What an exchange leaves of the commands and events.
LEMMA ExchangeFound ==
  ASSUME TypeOK, NEW op \in Simple \cup Ways, NEW next, NEW bad,
         Exchange(Simply(op), next, bad), NEW ops
  PROVE  /\ op \notin ops /\ Lacks(commands, ops) => Lacks(commands', ops)
         /\ AllPatched(events) => AllPatched(events')
         /\ pc' \in {pc, next, bad}
         /\ (waiting /\ events # <<>>) \/ pc' \in {pc, bad}
<1>1. Simply(op) \in Commands(file) /\ Simply(op).op = op
  BY SimpleCommand
<1>2. commands' \in {commands, Append(commands, Simply(op))}
  BY DEF Exchange, Send, Receive, NoEvent
<1>3. op \notin ops /\ Lacks(commands, ops) => Lacks(commands', ops)
  BY <1>1, <1>2, QueueGrows DEF Lacks
<1>4. events' = events \/ (events # <<>> /\ events' = Tail(events))
  BY DEF Exchange, Send, Receive, NoEvent
<1>5. AllPatched(events) => AllPatched(events')
  BY <1>4, PatchedEvents DEF AllPatched
<1>6. pc' \in {pc, next, bad} /\ ((waiting /\ events # <<>>) \/ pc' \in {pc, bad})
  BY DEF Exchange, Send, Receive, NoEvent
<1>7. QED
  BY <1>3, <1>5, <1>6

\* A controller found patched stays so in the exchanges that lead nowhere near
\* the patching.
LEMMA FoundKept ==
  ASSUME TypeOK, Found, NEW op \in Simple \cup {"disable"}, NEW next, NEW bad,
         Exchange(Simply(op), next, bad),
         LET away == {"getFirmware", "enterMfg", "patching", "expected", "record", "exitMfg"}
         IN  bad \notin away /\ (found /\ waiting /\ events # <<>> => next \notin away)
  PROVE  Found'
<1>1. op \in Simple \cup Ways /\ op \notin {"deactivate"}
  BY DEF Simple, Ways
<1>2. /\ Lacks(commands, {"deactivate"}) => Lacks(commands', {"deactivate"})
      /\ AllPatched(events) => AllPatched(events')
      /\ pc' \in {pc, next, bad}
      /\ (waiting /\ events # <<>>) \/ pc' \in {pc, bad}
  BY <1>1, ExchangeFound
<1>3. UNCHANGED <<found, active, sent, exit>>
  BY DEF Exchange, fixedVars, chipVars, historyVars
<1>4. QED
  BY <1>2, <1>3 DEF Found

\* An exchange chooses nothing, but for the one that leaves as was chosen.
LEMMA ChosenKept ==
  ASSUME TypeOK, Chosen, NEW op \in Simple \cup Ways, NEW next, NEW bad,
         Exchange(Simply(op), next, bad), op # "activate" \/ exit = "activate"
  PROVE  Chosen'
<1>1. op \notin {"activate"} /\ Lacks(commands, {"activate"}) => Lacks(commands', {"activate"})
  BY ExchangeFound
<1>2. UNCHANGED <<found, active, exit>>
  BY DEF Exchange, fixedVars, chipVars
<1>3. QED
  BY <1>1, <1>2 DEF Chosen

\* Reading the version is such an exchange.
LEMMA VersionExchanged ==
  ASSUME NEW unpatched, NEW patched, VersionExchange(unpatched, patched)
  PROVE  LET next == IF Head(events).to # Simply("version") THEN "failed"
                     ELSE IF Head(events).patched THEN patched ELSE unpatched
         IN  Exchange(Simply("version"), next, "failed")
  BY DEF VersionExchange, Exchange

\* A controller that was found patched is left alone.
LEMMA StepFound == TypeOK /\ Places /\ Found /\ [Next]_vars => Found'
<1> SUFFICES ASSUME TypeOK, Places, Found, [Next]_vars PROVE Found'
  OBVIOUS
<1>1. CASE HciReset
  BY <1>1, FoundKept DEF HciReset, Simple
<1>2. CASE ReadVersion
  BY <1>2, VersionExchanged, PatchedEvents, FoundKept DEF ReadVersion, Simple, Found
<1>3. CASE GetFirmware
  BY <1>3 DEF GetFirmware, Found, fixedVars
<1>4. CASE EnterMfg
  BY <1>4 DEF EnterMfg, Found, Exchange, fixedVars
<1>5. CASE ParseCommand
  BY <1>5 DEF ParseCommand, Found, fixedVars
<1>6. CASE ParseEvent
  BY <1>6 DEF ParseEvent, Found, fixedVars
<1>7. CASE ParseRecord
  BY <1>7 DEF ParseRecord, Found, fixedVars
<1>8. CASE SendRecord
  BY <1>8 DEF SendRecord, Found, fixedVars
<1>9. CASE RecordEvent
  BY <1>9 DEF RecordEvent, Found, fixedVars
<1>10. CASE RecordFails
  BY <1>10 DEF RecordFails, Found, fixedVars
<1>11. CASE ExitMfg
  BY <1>11 DEF ExitMfg, Found, Exchange, fixedVars
<1>12. CASE Reread
  BY <1>12, VersionExchanged, FoundKept DEF Reread, Simple
<1>13. CASE SetEventMaskMfg
  BY <1>13, FoundKept DEF SetEventMaskMfg, Simple
<1>14. CASE ChipAnswers
  BY <1>14, PatchedEvents, QueueShrinks, WorkQueues
     DEF ChipAnswers, Work, fixedVars, Answer, Codes, Found
<1>15. CASE ChipLeaves
  BY <1>15, PatchedEvents, QueueShrinks, WorkQueues
     DEF ChipLeaves, Work, fixedVars, Answer, Codes, Ways, Found
<1>16. CASE ChipTakes
  BY <1>16, PatchedEvents, QueueShrinks, WorkQueues, TakeQueues
     DEF ChipTakes, Work, fixedVars, Answer, AllPatched, Found
<1>17. CASE ChipRefuses
  BY <1>17, PatchedEvents, QueueShrinks, WorkQueues, ReplyCodes
     DEF ChipRefuses, Work, fixedVars, Answer, chipVars, Found
<1>18. CASE Done
  BY <1>18 DEF Done, vars, Found, fixedVars, chipVars, historyVars, AllPatched, Lacks
<1>19. CASE UNCHANGED vars
  BY <1>19 DEF vars, fixedVars, chipVars, historyVars, Found, AllPatched, Lacks
<1>20. QED
  BY <1>1, <1>2, <1>3, <1>4, <1>5, <1>6, <1>7, <1>8, <1>9, <1>10, <1>11, <1>12, <1>13,
     <1>14, <1>15, <1>16, <1>17, <1>18, <1>19
     DEF Next, Driver, Chip

\* Patches are activated and dropped only by the exit that was chosen.
LEMMA StepChosen == TypeOK /\ Places /\ Found /\ Chosen /\ [Next]_vars => Chosen'
<1> SUFFICES ASSUME TypeOK, Places, Found, Chosen, [Next]_vars PROVE Chosen'
  OBVIOUS
<1>1. CASE HciReset
  BY <1>1, ChosenKept DEF HciReset, Simple, Ways
<1>2. CASE ReadVersion
  BY <1>2, VersionExchanged, ChosenKept DEF ReadVersion, Simple
<1>3. CASE GetFirmware
  BY <1>3 DEF GetFirmware, Chosen, fixedVars, chipVars
<1>4. CASE EnterMfg
  BY <1>4, ChosenKept DEF EnterMfg, Simple, Ways
<1>5. CASE ParseCommand
  BY <1>5 DEF ParseCommand, Chosen, fixedVars, chipVars, Places, Early, Leave
<1>6. CASE ParseEvent
  BY <1>6 DEF ParseEvent, Chosen, fixedVars, chipVars, Places, Early, Leave
<1>7. CASE ParseRecord
  BY <1>7 DEF ParseRecord, Chosen, fixedVars, chipVars, Places, Early, Leave
<1>8. CASE SendRecord
  BY <1>8, RecordCommand, SendQueues, QueueGrows
     DEF SendRecord, Chosen, fixedVars, chipVars, Places, Early
<1>9. CASE RecordEvent
  BY <1>9 DEF RecordEvent, Chosen, fixedVars, chipVars, Receive
<1>10. CASE RecordFails
  BY <1>10 DEF RecordFails, Chosen, fixedVars, chipVars, Places, Early, NoEvent
<1>11. CASE ExitMfg
  BY <1>11, ChosenKept DEF ExitMfg, Simple, Ways, Places, ExitWay
<1>12. CASE Reread
  BY <1>12, VersionExchanged, ChosenKept DEF Reread, Simple
<1>13. CASE SetEventMaskMfg
  BY <1>13, ChosenKept DEF SetEventMaskMfg, Simple, Ways
<1>14. CASE ChipAnswers
  BY <1>14, QueueShrinks DEF ChipAnswers, Work, fixedVars, chipVars, Chosen
<1>15. CASE ChipLeaves
  BY <1>15, QueueShrinks DEF ChipLeaves, Work, fixedVars, chipVars, Ways, Chosen
<1>16. CASE ChipTakes
  BY <1>16, QueueShrinks DEF ChipTakes, Work, fixedVars, chipVars, Chosen
<1>17. CASE ChipRefuses
  BY <1>17, QueueShrinks DEF ChipRefuses, Work, fixedVars, chipVars, Chosen
<1>18. CASE Done
  BY <1>18 DEF Done, vars, Chosen, fixedVars, chipVars, Lacks
<1>19. CASE UNCHANGED vars
  BY <1>19 DEF vars, fixedVars, chipVars, Chosen, Lacks
<1>20. QED
  BY <1>1, <1>2, <1>3, <1>4, <1>5, <1>6, <1>7, <1>8, <1>9, <1>10, <1>11, <1>12, <1>13,
     <1>14, <1>15, <1>16, <1>17, <1>18, <1>19
     DEF Next, Driver, Chip

\* An exchange plays nothing.
LEMMA PlayedKept ==
  ASSUME TypeOK, Played, NEW c, NEW next, NEW bad, Exchange(c, next, bad),
         pc \notin {"expected", "record"}, {next, bad} \cap {"expected", "record"} = {},
         {next, bad} \cap Early # {} => pc \in Early
  PROVE  Played'
<1>1. UNCHANGED <<file, item, cmd, exit, sent>>
  BY DEF Exchange, fixedVars, parseVars, historyVars
<1>2. failedAt' = failedAt \/ failedAt' = failedAt \cup {pc}
  BY DEF Exchange, Send, Receive, NoEvent, Fault, NoFault
<1>3. "record" \notin failedAt => "record" \notin failedAt'
  BY <1>2
<1>4. pc' \in {pc, next, bad}
  BY DEF Exchange, Send, Receive, NoEvent
<1>5. pc' \notin {"expected", "record"} /\ (pc' \in Early => pc \in Early)
  BY <1>4
<1>6. QED
  BY <1>1, <1>3, <1>5 DEF Played, SentBefore, CommandsOf

\* A record that went out is among those sent.
LEMMA SendAppends ==
  ASSUME TypeOK, Places, SendRecord
  PROVE  /\ \/ waiting' /\ cmd \in sent' /\ pc' = pc /\ failedAt' = failedAt /\ exit' = exit
            \/ ~waiting' /\ pc' = "exitMfg" /\ exit' = "deactivate"
         /\ sent \subseteq sent'
         /\ pc' # "exitMfg" => exit' = exit
<1>1. pc = "record" /\ cmd \in DOMAIN file.items /\ Send(ThisRecord, "exitMfg")
  BY DEF SendRecord, Places
<1>2. Append(commands, ThisRecord) # commands
  <2>1. commands \in Seq(Commands(file)) /\ ThisRecord \in Commands(file)
    BY <1>1, RecordCommand DEF TypeOK
  <2>2. Len(Append(commands, ThisRecord)) = Len(commands) + 1 /\ Len(commands) \in Nat
    BY <2>1, AppendProperties, LenProperties
  <2>3. Len(commands) + 1 # Len(commands)
    BY <2>2
  <2>4. QED
    BY <2>2, <2>3
<1>3. CASE waiting'
  BY <1>1, <1>2, <1>3 DEF SendRecord, Send, NoFault
<1>4. CASE ~waiting'
  BY <1>1, <1>4 DEF SendRecord, Send
<1>5. QED
  BY <1>3, <1>4

\* The commands that the parser has passed at the end of the file are all it has.
LEMMA AllPlayed ==
  ASSUME TypeOK, file # None, AtEnd, SentBefore(item, {})
  PROVE  CommandsOf(file) \subseteq sent
<1>1. SUFFICES ASSUME NEW k \in DOMAIN file.items, file.items[k].kind = "command",
                      file.items[k].at < file.size
               PROVE  k \in sent
  BY DEF CommandsOf
<1>2. k < item
  <2>1. CASE item \notin DOMAIN file.items
    BY <2>1, HereFacts
  <2>2. CASE item \in DOMAIN file.items
    <3>1. WellFormed(file) /\ k \in Nat /\ item \in Nat
      BY <2>2, FileItems
    <3>2. file.items[item].at \in Nat /\ file.items[k].at \in Nat /\ file.size \in Nat
      BY <3>1, <2>2, ItemsOf
    <3>3. file.items[k].at < file.items[item].at
      BY <1>1, <2>2, <3>2, HereFacts DEF AtEnd
    <3>4. ~ (item < k) /\ item # k
      BY <2>2, <3>1, <3>2, <3>3, Ascending
    <3>5. QED
      BY <3>1, <3>4
  <2>3. QED
    BY <2>1, <2>2
<1>3. QED
  BY <1>1, <1>2 DEF SentBefore

\* The commands that the parser has passed were sent.
LEMMA StepPlayed == TypeOK /\ Places /\ Found /\ Played /\ [Next]_vars => Played'
<1> SUFFICES ASSUME TypeOK, Places, Found, Played, [Next]_vars PROVE Played'
  OBVIOUS
<1>1. CASE HciReset
  BY <1>1, PlayedKept DEF HciReset, Early
<1>2. CASE ReadVersion
  BY <1>2, VersionExchanged, PlayedKept DEF ReadVersion, Early
<1>3. CASE GetFirmware
  BY <1>3
     DEF GetFirmware, Played, fixedVars, parseVars, historyVars, SentBefore,
         CommandsOf, Early
<1>4. CASE EnterMfg
  BY <1>4, PlayedKept DEF EnterMfg, Early
<1>5. CASE ParseCommand
  BY <1>5, AllPlayed, CommandHere, FileItems
     DEF ParseCommand, Played, fixedVars, parseVars, historyVars, SentBefore,
         CommandsOf, Places, Early, Leave
<1>6. CASE ParseEvent
  BY <1>6, EventHere, FileItems
     DEF ParseEvent, Played, fixedVars, parseVars, historyVars, SentBefore,
         CommandsOf, Places, Early, Leave
<1>7. CASE ParseRecord
  BY <1>7
     DEF ParseRecord, Played, fixedVars, parseVars, historyVars, SentBefore,
         CommandsOf, Places, Early, Leave
<1>8. CASE SendRecord
  BY <1>8, SendAppends
     DEF SendRecord, Played, fixedVars, parseVars, historyVars, SentBefore,
         CommandsOf, Places, Early
<1>9. CASE RecordEvent
  BY <1>9
     DEF RecordEvent, Played, fixedVars, parseVars, historyVars, SentBefore,
         CommandsOf, Places, Early, Receive, NoFault
<1>10. CASE RecordFails
  BY <1>10
     DEF RecordFails, Played, fixedVars, parseVars, historyVars, SentBefore,
         CommandsOf, Places, Early, NoEvent, Fault, NoFault
<1>11. CASE ExitMfg
  BY <1>11, PlayedKept DEF ExitMfg, Early, AfterExit
<1>12. CASE Reread
  BY <1>12, VersionExchanged, PlayedKept DEF Reread, Early
<1>13. CASE SetEventMaskMfg
  BY <1>13, PlayedKept DEF SetEventMaskMfg, Early
<1>14. CASE ChipAnswers
  BY <1>14
     DEF ChipAnswers, Work, Played, fixedVars, parseVars, historyVars, SentBefore,
         CommandsOf, chipVars
<1>15. CASE ChipLeaves
  BY <1>15
     DEF ChipLeaves, Work, Played, fixedVars, parseVars, historyVars, SentBefore,
         CommandsOf, chipVars
<1>16. CASE ChipTakes
  BY <1>16
     DEF ChipTakes, Work, Played, fixedVars, parseVars, historyVars, SentBefore,
         CommandsOf, chipVars
<1>17. CASE ChipRefuses
  BY <1>17
     DEF ChipRefuses, Work, Played, fixedVars, parseVars, historyVars, SentBefore,
         CommandsOf, chipVars
<1>18. CASE Done
  BY <1>18 DEF Done, vars, Played, fixedVars, parseVars, historyVars, SentBefore, CommandsOf
<1>19. CASE UNCHANGED vars
  BY <1>19 DEF vars, Played, fixedVars, parseVars, historyVars, SentBefore, CommandsOf
<1>20. QED
  BY <1>1, <1>2, <1>3, <1>4, <1>5, <1>6, <1>7, <1>8, <1>9, <1>10, <1>11, <1>12, <1>13,
     <1>14, <1>15, <1>16, <1>17, <1>18, <1>19
     DEF Next, Driver, Chip

\* The parser looks only at bytes of the file, or patching fails.
LEMMA StepReads == TypeOK /\ Places /\ ReadsInFile /\ [Next]_vars => ReadsInFile'
<1> SUFFICES ASSUME TypeOK, Places, ReadsInFile, [Next]_vars PROVE ReadsInFile'
  OBVIOUS
<1>0. /\ file.size \in Nat /\ reach \in Nat
      /\ pc \in Early => reach <= file.size
  <2>1. file.size \in Nat /\ reach \in Nat
    BY ItemsOf DEF TypeOK, None
  <2>2. QED
    BY <2>1 DEF Places, ReadsInFile
<1>1. CASE HciReset
  BY <1>1
     DEF HciReset, Exchange, VersionExchange, ReadsInFile, fixedVars,
         historyVars
<1>2. CASE ReadVersion
  BY <1>2
     DEF ReadVersion, Exchange, VersionExchange, ReadsInFile, fixedVars,
         historyVars
<1>3. CASE GetFirmware
  BY <1>3 DEF GetFirmware, ReadsInFile, fixedVars, historyVars
<1>4. CASE EnterMfg
  BY <1>4
     DEF EnterMfg, Exchange, VersionExchange, ReadsInFile, fixedVars,
         historyVars
<1>5. CASE ParseCommand
  <2>1. reach <= file.size /\ file # None /\ file' = file
    BY <1>0, <1>5 DEF ParseCommand, Places, Early, fixedVars
  <2>2. Here.at \in Nat /\ Here.plen \in Nat
    BY <2>1, HereFacts
  <2>3. CASE AtEnd
    BY <1>0, <1>5, <2>1, <2>3 DEF ParseCommand, ReadsInFile, fixedVars
  <2>4. CASE ~AtEnd /\ CommandFits(Here)
    <3>1. Here.kind = "command" /\ file.size >= Here.at + 4 + Here.plen
      BY <2>1, <2>4, CommandHere DEF CommandFits
    <3>2. reach' = Larger(reach, Here.at + 4)
      BY <1>5, <2>4, <3>1 DEF ParseCommand
    <3>3. Here.at + 4 <= file.size
      BY <1>0, <2>2, <3>1
    <3>4. reach' <= file.size
      BY <1>0, <2>1, <2>2, <3>2, <3>3 DEF Larger
    <3>5. QED
      BY <1>0, <2>1, <2>2, <3>2, <3>4 DEF ReadsInFile, Larger
  <2>5. CASE ~AtEnd /\ ~CommandFits(Here)
    <3>1. exit' = "deactivate"
      BY <1>5, <2>5 DEF ParseCommand, Leave
    <3>2. Here.at < file.size
      BY <2>1, <2>5, CommandHere
    <3>3. \/ reach' = Larger(reach, Here.at + 1)
          \/ reach' = Larger(reach, Here.at + 4)
      BY <1>5, <2>5 DEF ParseCommand
    <3>4. reach' <= file.size + 3
      BY <1>0, <2>1, <2>2, <3>2, <3>3 DEF Larger
    <3>5. QED
      BY <2>1, <3>1, <3>4 DEF ReadsInFile
  <2>6. QED
    BY <2>3, <2>4, <2>5
<1>6. CASE ParseEvent
  <2>1. reach <= file.size /\ file # None /\ file' = file
    BY <1>0, <1>6 DEF ParseEvent, Places, Early, fixedVars
  <2>2. reach' = Larger(reach, Here.at + 3) /\ Here.at \in Nat /\ Here.at + 3 <= file.size
    BY <1>6, <2>1, EventHere, HereFacts DEF ParseEvent
  <2>3. reach' \in Nat /\ reach' <= file.size
    BY <1>0, <2>1, <2>2 DEF Larger
  <2>4. QED
    BY <1>0, <2>1, <2>3 DEF ReadsInFile
<1>7. CASE ParseRecord
  BY <1>0, <1>7 DEF ParseRecord, ReadsInFile, fixedVars, historyVars, Early
<1>8. CASE SendRecord
  BY <1>8 DEF SendRecord, ReadsInFile, fixedVars, historyVars
<1>9. CASE RecordEvent
  BY <1>9 DEF RecordEvent, ReadsInFile, fixedVars, historyVars
<1>10. CASE RecordFails
  BY <1>10 DEF RecordFails, ReadsInFile, fixedVars, historyVars
<1>11. CASE ExitMfg
  BY <1>11
     DEF ExitMfg, Exchange, VersionExchange, ReadsInFile, fixedVars,
         historyVars
<1>12. CASE Reread
  BY <1>12
     DEF Reread, Exchange, VersionExchange, ReadsInFile, fixedVars,
         historyVars
<1>13. CASE SetEventMaskMfg
  BY <1>13
     DEF SetEventMaskMfg, Exchange, VersionExchange, ReadsInFile,
         fixedVars, historyVars
<1>14. CASE ChipAnswers
  BY <1>14 DEF ChipAnswers, Work, ReadsInFile, fixedVars, historyVars
<1>15. CASE ChipLeaves
  BY <1>15 DEF ChipLeaves, Work, ReadsInFile, fixedVars, historyVars
<1>16. CASE ChipTakes
  BY <1>16 DEF ChipTakes, Work, ReadsInFile, fixedVars, historyVars
<1>17. CASE ChipRefuses
  BY <1>17 DEF ChipRefuses, Work, ReadsInFile, fixedVars, historyVars
<1>18. CASE Done
  BY <1>18 DEF Done, vars, ReadsInFile, fixedVars, historyVars
<1>19. CASE UNCHANGED vars
  BY <1>19 DEF vars, ReadsInFile, fixedVars, historyVars
<1>20. QED
  BY <1>1, <1>2, <1>3, <1>4, <1>5, <1>6, <1>7, <1>8, <1>9, <1>10, <1>11, <1>12, <1>13,
     <1>14, <1>15, <1>16, <1>17, <1>18, <1>19
     DEF Next, Driver, Chip

-----------------------------------------------------------------------------
(* Exchanges in step *)

\* Sending puts one command under way.
LEMMA SendInStep ==
  ASSUME TypeOK, NEW c, NEW bad, Send(c, bad), faults' = 0, Quiet
  PROVE  /\ waiting' /\ pc' = pc /\ stray' = stray
         /\ commands' = <<c>> /\ events' = <<>>
<1>1. Append(<<>>, c) = <<c>>
  OBVIOUS
<1>2. ~Fault
  BY Gen1Assumption DEF Fault, TypeOK
<1>3. QED
  BY <1>1, <1>2 DEF Send, Quiet

\* Reading takes an answer of that command.
LEMMA ReceiveInStep ==
  ASSUME TypeOK, NEW c, Receive(c), Awaiting(c)
  PROVE  /\ stray' = stray /\ commands' = <<>> /\ faults' = faults
         /\ \A i \in DOMAIN events' :
              /\ events'[i].to = c
              /\ i < Len(events') => pc = "record" /\ events'[i].code # evt
         /\ pc # "record" \/ Head(events).code = evt => events' = <<>>
<1>1. /\ events \in Seq(Events) /\ events # <<>> /\ events' = Tail(events)
  BY DEF Receive, TypeOK, Events
<1>2. /\ Len(events) \in Nat \ {0}
      /\ DOMAIN events = 1 .. Len(events)
      /\ Len(events') = Len(events) - 1
      /\ DOMAIN events' = 1 .. Len(events) - 1
      /\ \A i \in 1 .. Len(events) - 1 : events'[i] = events[i + 1]
      /\ Head(events) = events[1]
      /\ events' \in Seq(Events)
  BY <1>1, HeadTailProperties, LenProperties, EmptySeq
<1>3. /\ commands = <<>>
      /\ \A i \in DOMAIN events :
           /\ events[i].to = c
           /\ i < Len(events) => pc = "record" /\ events[i].code # evt
  BY <1>1 DEF Awaiting
<1>4. stray' = stray
  BY <1>2, <1>3 DEF Receive, TypeOK
<1>5. \A i \in DOMAIN events' :
        /\ events'[i].to = c
        /\ i < Len(events') => pc = "record" /\ events'[i].code # evt
  BY <1>2, <1>3
<1>6. ASSUME pc # "record" \/ Head(events).code = evt
      PROVE  events' = <<>>
  <2>1. ~ (1 < Len(events))
    BY <1>2, <1>3, <1>6
  <2>2. Len(events') = 0
    BY <1>2, <2>1
  <2>3. QED
    BY <1>2, <2>2, EmptySeq
<1>7. QED
  BY <1>3, <1>4, <1>5, <1>6 DEF Receive, NoFault

\* No answer comes, without a fault, only when there is nothing left.
LEMMA NoEventInStep ==
  ASSUME TypeOK, NEW bad, NoEvent(bad), faults' = 0
  PROVE  Quiet' /\ stray' = stray /\ pc' = bad /\ ~waiting'
<1>1. ~Fault
  BY Gen1Assumption DEF Fault, TypeOK
<1>2. QED
  BY <1>1 DEF NoEvent, Quiet

\* Without a fault there has been none before.
LEMMA FaultsGrow ==
  TypeOK /\ [Next]_vars /\ faults' = 0 => faults = 0
<1> SUFFICES ASSUME TypeOK, [Next]_vars, faults' = 0 PROVE faults = 0
  OBVIOUS
<1>1. faults' = faults \/ faults' = faults + 1
  BY
     DEF Next, Driver, Chip, Done, vars, HciReset, ReadVersion, GetFirmware,
         EnterMfg, ParseCommand,
         ParseEvent, ParseRecord, SendRecord, RecordEvent, RecordFails, ExitMfg, Reread, SetEventMaskMfg,
         ChipAnswers, ChipLeaves, ChipTakes, ChipRefuses, Work, Exchange, VersionExchange,
         Send, Receive, NoEvent, NoFault, Fault
<1>2. QED
  BY <1>1, Gen1Assumption DEF TypeOK

\* An exchange stays in step.
LEMMA ExchangeInStep ==
  ASSUME TypeOK, Exchanges, faults = 0, NEW c, NEW next, NEW bad, Exchange(c, next, bad),
         pc \in Points \ (Ended \cup {"record", "expected"}), Own = c,
         {next, bad} \cap {"record", "expected"} = {}
  PROVE  Exchanges'
<1> SUFFICES ASSUME faults' = 0, ~LacksEvent(file)' PROVE Exchanges'
  BY DEF Exchanges
<1>1. UNCHANGED <<file, item, cmd, evt, exit>>
  BY DEF Exchange, fixedVars, parseVars
<1>2. ~stray /\ (IF waiting THEN Awaiting(c) ELSE Quiet)
  BY <1>1 DEF Exchanges
<1>3. CASE Send(c, bad)
  <2>1. Quiet
    BY <1>2, <1>3 DEF Send
  <2>2. waiting' /\ pc' = pc /\ stray' = stray /\ commands' = <<c>> /\ events' = <<>>
    BY <1>3, <2>1, SendInStep
  <2>3. Own' = c
    BY <1>1, <2>2 DEF Own, ThisRecord
  <2>4. QED
    BY <1>2, <2>2, <2>3 DEF Exchanges, Awaiting
<1>4. CASE Receive(c) /\ waiting' = FALSE /\ pc' = next
  <2>1. Awaiting(c)
    BY <1>2, <1>4 DEF Receive
  <2>2. stray' = stray /\ Quiet'
    BY <1>4, <2>1, ReceiveInStep DEF Quiet
  <2>3. QED
    BY <1>2, <1>4, <2>2 DEF Exchanges
<1>5. CASE NoEvent(bad)
  <2>1. Quiet' /\ stray' = stray /\ pc' = bad /\ ~waiting'
    BY <1>5, NoEventInStep
  <2>2. QED
    BY <1>2, <2>1 DEF Exchanges
<1>6. QED
  BY <1>3, <1>4, <1>5 DEF Exchange

\* The events listed for a record end with the last one that the controller
\* answers it with.
LEMMA AwaitsLast ==
  ASSUME TypeOK, Places, pc = "expected", Listed, file.items[cmd].kind = "command",
         ~MoreEvents, evt # "none", ~LacksEvent(file)
  PROVE  evt = LastReply(file.items[cmd].op)
<1>1. file \in PatchFiles /\ file # None /\ WellFormed(file) /\ cmd \in DOMAIN file.items
  BY FileItems DEF Places
<1>2. item \in 1 .. Len(file.items) + 1 /\ cmd \in 1 .. Len(file.items) /\ Len(file.items) \in Nat
      /\ DOMAIN file.items = 1 .. Len(file.items)
  BY <1>1, FileItems DEF TypeOK
<1>3. cmd < item /\ item # cmd + 1 /\ evt = file.items[item - 1].code
      /\ \A j \in cmd + 1 .. item - 1 : file.items[j].kind = "event"
  BY DEF Listed
<1>4. item - 1 \in DOMAIN file.items /\ cmd < item - 1 /\ item - 1 + 1 = item
  BY <1>2, <1>3
<1>5. ASSUME item \in DOMAIN file.items
      PROVE  file.items[item].kind # "event"
  <2>1. Here = file.items[item] /\ Here.at \in Nat /\ file.size \in Nat
    BY <1>1, <1>5, HereFacts
  <2>2. Here.kind = "event" => Remain > 2
    BY <1>5, <2>1 DEF LacksEvent, Remain
  <2>3. QED
    BY <2>1, <2>2 DEF MoreEvents
<1>6. Expects(file)
  BY <1>1, FilesAssumption
<1> DEFINE n == item - 1
<1>7. n \in DOMAIN file.items /\ cmd < n /\ n + 1 = item
      /\ \A j \in cmd + 1 .. n : file.items[j].kind = "event"
  BY <1>3, <1>4
<1>8. n + 1 \in DOMAIN file.items => file.items[n + 1].kind # "event"
  BY <1>5, <1>7
<1>9. evt = file.items[n].code
  BY <1>3
<1> HIDE DEF n
<1>10. file.items[n].code = LastReply(file.items[cmd].op)
  BY <1>1, <1>6, <1>7, <1>8 DEF Expects
<1>11. QED
  BY <1>9, <1>10

\* What the controller works on is the command that is awaited.
LEMMA WorkInStep ==
  ASSUME TypeOK, Places, Exchanges, faults = 0, ~LacksEvent(file), Work, pc \notin Ended
  PROVE  /\ waiting /\ Awaiting(Own) /\ Own = Head(commands)
         /\ commands = <<Own>> /\ commands' = <<>> /\ events = <<>>
         /\ Own' = Own
         /\ Own.op = "record" => pc = "record" /\ Own.item = cmd
<1>1. commands # <<>> /\ commands' = Tail(commands) /\ UNCHANGED <<pc, cmd, exit>>
  BY DEF Work, parseVars
<1>2. waiting /\ Awaiting(Own)
  BY <1>1 DEF Exchanges, TypeOK, Quiet
<1>3. commands = <<Own>> /\ events = <<>>
  BY <1>1, <1>2 DEF Awaiting
<1>4. commands' = <<>> /\ Own = Head(commands)
  BY <1>1, <1>3
<1>5. Own' = Own
  BY <1>1 DEF Own, ThisRecord
<1>6. Own.op = "record" => pc = "record" /\ Own.item = cmd
  <2>1. pc \in {"hciReset", "readVersion", "reread", "enterMfg", "maskEnter", "record", "exitMfg", "mask", "maskExit"}
    BY <1>2 DEF Places, TypeOK, Points
  <2>2. CASE pc = "record"
    BY <2>2 DEF Own, ThisRecord
  <2>3. CASE pc # "record"
    BY <2>1, <2>3 DEF Own, Simply, Places, Ways
  <2>4. QED
    BY <2>2, <2>3
<1>7. QED
  BY <1>1, <1>2, <1>3, <1>4, <1>5, <1>6

\* Its answers are all there is to read then.
LEMMA ChipInStep ==
  ASSUME TypeOK, Places, Exchanges, faults = 0, ~LacksEvent(file), Work,
         pc \notin Ended =>
           \A i \in DOMAIN events' :
             /\ events'[i].to = Head(commands)
             /\ i < Len(events') => Head(commands).op = "record" /\ events'[i].code # evt
  PROVE  Exchanges'
<1>1. UNCHANGED <<file, pc, waiting, item, cmd, evt, exit, stray>>
  BY DEF Work, fixedVars, parseVars
<1>2. CASE pc \in Ended
  BY <1>1, <1>2 DEF Exchanges, Ended
<1>3. CASE pc \notin Ended
  <2>1. waiting /\ Own = Head(commands) /\ commands' = <<>> /\ Own' = Own
        /\ (Own.op = "record" => pc = "record")
    BY <1>3, WorkInStep
  <2>2. Awaiting(Own)'
    BY <1>1, <1>3, <2>1 DEF Awaiting
  <2>3. pc # "expected"
    BY <2>1 DEF Places
  <2>4. QED
    BY <1>1, <2>1, <2>2, <2>3 DEF Exchanges
<1>4. QED
  BY <1>2, <1>3

\* Between exchanges nothing is under way.
LEMMA LocalInStep ==
  ASSUME TypeOK, Places, Exchanges, faults = 0, ~LacksEvent(file),
         pc \in {"getFirmware", "patching", "expected"},
         UNCHANGED <<commands, events, waiting, stray>>, pc' \notin {"expected", "record"}
  PROVE  Exchanges'
<1>1. ~waiting /\ pc \in Points \ Ended
  BY DEF Places, Points, Ended
<1>2. Quiet /\ ~stray
  BY <1>1 DEF Exchanges
<1>3. Quiet' /\ ~stray' /\ ~waiting'
  BY <1>1, <1>2 DEF Quiet
<1>4. QED
  BY <1>3 DEF Exchanges

\* Every step keeps the exchanges in step as long as no transfer fails.
LEMMA StepExchanges == TypeOK /\ Places /\ Exchanges /\ [Next]_vars => Exchanges'
<1> SUFFICES ASSUME TypeOK, Places, Exchanges, [Next]_vars PROVE Exchanges'
  OBVIOUS
<1> SUFFICES ASSUME faults' = 0, ~LacksEvent(file)' PROVE Exchanges'
  BY DEF Exchanges
<1>0. faults = 0 /\ file' = file /\ ~LacksEvent(file)
  <2>1. file' = file
    BY
       DEF Next, Driver, Chip, Done, vars, HciReset, ReadVersion, GetFirmware,
           EnterMfg, ParseCommand,
           ParseEvent, ParseRecord, SendRecord, RecordEvent, RecordFails, ExitMfg, Reread, SetEventMaskMfg,
           ChipAnswers, ChipLeaves, ChipTakes, ChipRefuses, Work, Exchange, VersionExchange, fixedVars
  <2>2. QED
    BY <2>1, FaultsGrow
<1>1. CASE HciReset
  BY <1>0, <1>1, ExchangeInStep DEF HciReset, Own, Points, Ended
<1>2. CASE ReadVersion
  BY <1>0, <1>2, VersionExchanged, ExchangeInStep DEF ReadVersion, Own, Points, Ended
<1>3. CASE GetFirmware
  BY <1>0, <1>3, LocalInStep DEF GetFirmware, Points, Ended
<1>4. CASE EnterMfg
  BY <1>0, <1>4, ExchangeInStep DEF EnterMfg, Own, Points, Ended
<1>5. CASE ParseCommand
  <2>1. Quiet /\ ~stray /\ ~waiting
    BY <1>0, <1>5 DEF ParseCommand, Exchanges, Places, Points, Ended
  <2>2. Quiet' /\ ~stray' /\ ~waiting'
    BY <1>5, <2>1 DEF ParseCommand, Quiet
  <2>3. CASE pc' = "exitMfg"
    BY <2>2, <2>3 DEF Exchanges
  <2>4. CASE pc' # "exitMfg"
    <3>1. ~AtEnd /\ CommandFits(Here) /\ file # None
      BY <1>5, <2>4 DEF ParseCommand, Leave, Places
    <3>2. /\ cmd' = item /\ evt' = "none" /\ item' = item + 1 /\ pc' = "expected"
      BY <1>5, <3>1 DEF ParseCommand
    <3>3. item \in Nat /\ file.items[item].kind = "command"
      BY <3>1, CommandHere, FileItems
    <3>4. Listed'
      BY <3>2, <3>3 DEF Listed
    <3>5. file'.items[cmd'].kind = "command"
      BY <1>0, <3>2, <3>3
    <3>6. QED
      BY <2>2, <3>2, <3>4, <3>5 DEF Exchanges
  <2>5. QED
    BY <2>3, <2>4
<1>6. CASE ParseEvent
  <2>1. Quiet /\ ~stray /\ ~waiting /\ Listed /\ file.items[cmd].kind = "command"
    BY <1>0, <1>6 DEF ParseEvent, Exchanges, Places, Points, Ended
  <2>2. Quiet' /\ ~stray' /\ ~waiting' /\ cmd' = cmd
    BY <1>6, <2>1 DEF ParseEvent, Quiet
  <2>3. CASE pc' = "exitMfg"
    BY <2>2, <2>3 DEF Exchanges
  <2>4. CASE pc' # "exitMfg"
    <3>1. evt' = file.items[item].code /\ item' = item + 1 /\ pc' = "expected"
      BY <1>6, <2>4 DEF ParseEvent, Leave
    <3>2. file # None /\ MoreEvents /\ cmd \in DOMAIN file.items
      BY <1>6 DEF ParseEvent, Places
    <3>3. item \in Nat /\ cmd \in Nat /\ file.items[item].kind = "event"
      BY <3>2, EventHere, FileItems
    <3>4. Listed'
      <4>1. cmd < item /\ \A j \in cmd + 1 .. item - 1 : file.items[j].kind = "event"
        BY <2>1 DEF Listed
      <4>2. \A j \in cmd + 1 .. item' - 1 : file.items[j].kind = "event"
        BY <3>1, <3>3, <4>1
      <4>3. cmd < item' /\ item' # cmd + 1 /\ item' - 1 = item
        BY <3>1, <3>3, <4>1
      <4>4. QED
        BY <1>0, <2>2, <3>1, <4>2, <4>3 DEF Listed
    <3>5. QED
      BY <1>0, <2>1, <2>2, <3>1, <3>4 DEF Exchanges
  <2>5. QED
    BY <2>3, <2>4
<1>7. CASE ParseRecord
  <2>1. Quiet /\ ~stray /\ ~waiting /\ Listed /\ file.items[cmd].kind = "command"
    BY <1>0, <1>7 DEF ParseRecord, Exchanges, Places, Points, Ended
  <2>2. Quiet' /\ ~stray' /\ ~waiting' /\ cmd' = cmd /\ evt' = evt
    BY <1>7, <2>1 DEF ParseRecord, Quiet, parseVars
  <2>3. CASE evt = "none"
    BY <1>7, <2>2, <2>3 DEF ParseRecord, Leave, Exchanges
  <2>4. CASE evt # "none"
    <3>1. evt = LastReply(file.items[cmd].op)
      BY <1>0, <1>7, <2>1, <2>4, AwaitsLast DEF ParseRecord
    <3>2. pc' = "record"
      BY <1>7, <2>4 DEF ParseRecord
    <3>3. QED
      BY <1>0, <2>2, <3>1, <3>2 DEF Exchanges
  <2>5. QED
    BY <2>3, <2>4
<1>8. CASE SendRecord
  <2>1. ~waiting /\ Send(ThisRecord, "exitMfg") /\ cmd' = cmd /\ evt' = evt
    BY <1>8 DEF SendRecord, Send, parseVars
  <2>2. Quiet /\ ~stray /\ evt = LastReply(file.items[cmd].op) /\ pc = "record"
    BY <1>0, <1>8, <2>1 DEF SendRecord, Exchanges, Points, Ended
  <2>3. waiting' /\ pc' = pc /\ stray' = stray /\ commands' = <<ThisRecord>> /\ events' = <<>>
    BY <2>1, <2>2, SendInStep
  <2>4. Own' = ThisRecord
    BY <2>1, <2>2, <2>3 DEF Own, ThisRecord
  <2>5. QED
    BY <1>0, <2>1, <2>2, <2>3, <2>4 DEF Exchanges, Awaiting
<1>9. CASE RecordEvent
  <2>1. Receive(ThisRecord) /\ waiting /\ pc = "record" /\ cmd' = cmd /\ evt' = evt /\ Own = ThisRecord
    BY <1>9 DEF RecordEvent, Receive, parseVars, Own
  <2>2. Awaiting(ThisRecord) /\ ~stray /\ evt = LastReply(file.items[cmd].op)
    BY <1>0, <2>1 DEF Exchanges, Points, Ended
  <2>3. /\ stray' = stray /\ commands' = <<>>
        /\ \A i \in DOMAIN events' :
              /\ events'[i].to = ThisRecord
              /\ i < Len(events') => pc = "record" /\ events'[i].code # evt
        /\ Head(events).code = evt => events' = <<>>
    BY <2>1, <2>2, ReceiveInStep
  <2>4. CASE Head(events).code = evt
    <3>1. ~waiting' /\ pc' = "patching" /\ Quiet'
      BY <1>9, <2>3, <2>4 DEF RecordEvent, Awaited, Quiet
    <3>2. QED
      BY <2>2, <2>3, <3>1 DEF Exchanges
  <2>5. CASE Head(events).code # evt
    <3>1. waiting' /\ pc' = "record"
      BY <1>9, <2>5 DEF RecordEvent, Awaited
    <3>2. Own' = ThisRecord
      BY <2>1, <3>1 DEF Own, ThisRecord
    <3>3. QED
      BY <1>0, <2>1, <2>2, <2>3, <3>1, <3>2 DEF Exchanges, Awaiting
  <2>6. QED
    BY <2>4, <2>5
<1>10. CASE RecordFails
  BY <1>0, <1>10, NoEventInStep DEF RecordFails, Exchanges, fixedVars, parseVars
<1>11. CASE ExitMfg
  BY <1>0, <1>11, ExchangeInStep DEF ExitMfg, Own, Points, Ended, ExitWay, AfterExit, Places
<1>12. CASE Reread
  BY <1>0, <1>12, VersionExchanged, ExchangeInStep DEF Reread, Own, Points, Ended
<1>13. CASE SetEventMaskMfg
  BY <1>0, <1>13, ExchangeInStep DEF SetEventMaskMfg, Own, Points, Ended
<1>14. CASE ChipAnswers
  <2>1. Work /\ \E code : events' = Append(events, Answer(Head(commands), code))
    BY <1>14 DEF ChipAnswers
  <2>2. ASSUME pc \notin Ended
        PROVE  \A i \in DOMAIN events' :
                 /\ events'[i].to = Head(commands)
                 /\ i < Len(events') => Head(commands).op = "record" /\ events'[i].code # evt
    <3>1. events = <<>>
      BY <1>0, <2>1, <2>2, WorkInStep
    <3>2. \A e : Append(<<>>, e) = <<e>> /\ DOMAIN <<e>> = {1} /\ Len(<<e>>) = 1 /\ <<e>>[1] = e
      OBVIOUS
    <3>3. QED
      BY <2>1, <3>1, <3>2 DEF Answer
  <2>3. QED
    BY <1>0, <2>1, <2>2, ChipInStep
<1>15. CASE ChipLeaves
  <2>1. Work /\ \E code : events' = Append(events, Answer(Head(commands), code))
    BY <1>15 DEF ChipLeaves
  <2>2. ASSUME pc \notin Ended
        PROVE  \A i \in DOMAIN events' :
                 /\ events'[i].to = Head(commands)
                 /\ i < Len(events') => Head(commands).op = "record" /\ events'[i].code # evt
    <3>1. events = <<>>
      BY <1>0, <2>1, <2>2, WorkInStep
    <3>2. \A e : Append(<<>>, e) = <<e>> /\ DOMAIN <<e>> = {1} /\ Len(<<e>>) = 1 /\ <<e>>[1] = e
      OBVIOUS
    <3>3. QED
      BY <2>1, <3>1, <3>2 DEF Answer
  <2>3. QED
    BY <1>0, <2>1, <2>2, ChipInStep
<1>16. CASE ChipTakes
  <2> DEFINE op == file.items[Head(commands).item].op
             answers == [j \in DOMAIN Replies(op) |-> Answer(Head(commands), Replies(op)[j])]
  <2>1. Work /\ Head(commands).op = "record" /\ events' = events \o answers
        /\ answers \in Seq(Events)
    BY <1>16, TakeQueues DEF ChipTakes
  <2>2. ASSUME pc \notin Ended
        PROVE  \A i \in DOMAIN events' :
                 /\ events'[i].to = Head(commands)
                 /\ i < Len(events') => Head(commands).op = "record" /\ events'[i].code # evt
    <3>1. events = <<>> /\ Own = Head(commands) /\ pc = "record" /\ Own.item = cmd
      BY <1>0, <2>1, <2>2, WorkInStep
    <3>2. evt = LastReply(op)
      BY <1>0, <3>1 DEF Exchanges
    <3>3. events' = answers
      BY <2>1, <3>1, ConcatEmptySeq
    <3>4. DOMAIN Replies(op) = 1 .. Len(Replies(op)) /\ Len(Replies(op)) \in {1, 2}
      BY ReplyCodes
    <3>5. \A i \in 1 .. Len(Replies(op)) : i < Len(Replies(op)) => Replies(op)[i] # evt
      <4>1. CASE op = "config"
        BY <3>2, <4>1 DEF Replies, LastReply
      <4>2. CASE op # "config"
        BY <4>2 DEF Replies
      <4>3. QED
        BY <4>1, <4>2
    <3>6. \A c, code : Answer(c, code).to = c /\ Answer(c, code).code = code
      BY DEF Answer
    <3> HIDE DEF op
    <3>7. /\ DOMAIN answers = 1 .. Len(Replies(op)) /\ Len(answers) = Len(Replies(op))
          /\ \A i \in 1 .. Len(Replies(op)) : answers[i] = Answer(Head(commands), Replies(op)[i])
      BY <2>1, <3>4
    <3> HIDE DEF answers
    <3>8. QED
      BY <2>1, <3>3, <3>5, <3>6, <3>7
  <2>3. QED
    BY <1>0, <2>1, <2>2, ChipInStep
<1>17. CASE ChipRefuses
  <2>1. Work /\ \E code : events' = Append(events, Answer(Head(commands), code))
    BY <1>17 DEF ChipRefuses
  <2>2. ASSUME pc \notin Ended
        PROVE  \A i \in DOMAIN events' :
                 /\ events'[i].to = Head(commands)
                 /\ i < Len(events') => Head(commands).op = "record" /\ events'[i].code # evt
    <3>1. events = <<>>
      BY <1>0, <2>1, <2>2, WorkInStep
    <3>2. \A e : Append(<<>>, e) = <<e>> /\ DOMAIN <<e>> = {1} /\ Len(<<e>>) = 1 /\ <<e>>[1] = e
      OBVIOUS
    <3>3. QED
      BY <2>1, <3>1, <3>2 DEF Answer
  <2>3. QED
    BY <1>0, <2>1, <2>2, ChipInStep
<1>18. CASE Done
  BY <1>0, <1>18
     DEF Done, vars, Exchanges, Quiet, Awaiting, Own, ThisRecord, Listed, fixedVars,
         parseVars
<1>19. CASE UNCHANGED vars
  BY <1>0, <1>19
     DEF vars, Exchanges, Quiet, Awaiting, Own, ThisRecord, Listed, fixedVars,
         parseVars
<1>20. QED
  BY <1>0, <1>1, <1>2, <1>3, <1>4, <1>5, <1>6, <1>7, <1>8, <1>9, <1>10, <1>11, <1>12,
     <1>13, <1>14, <1>15, <1>16, <1>17, <1>18, <1>19
     DEF Next, Driver, Chip


-----------------------------------------------------------------------------
(* The invariant and its consequences *)

\* It holds at first.
LEMMA InitIInv == Init => IInv /\ Exchanges
<1> SUFFICES ASSUME Init PROVE IInv /\ Exchanges
  OBVIOUS
<1>0. \A S : <<>> \in Seq(S)
  BY EmptySeq
<1>1. TypeOK
  <2>1. file = None \/ WellFormed(file)
    BY Gen1Assumption DEF Init
  <2>2. 1 \in 1 .. Len(file.items) + 1
    BY <2>1, ItemsOf DEF None
  <2>3. 0 \in 0 .. MaxFaults
    BY Gen1Assumption
  <2>4. QED
    BY <1>0, <2>1, <2>2, <2>3 DEF Init, TypeOK, Points
<1>2. Places /\ Pending /\ Leaving
  BY DEF Init, Places, Pending, Leaving, Early, Ended, Out, Lacks
<1>3. Found /\ Chosen /\ Dropping
  BY DEF Init, Found, Chosen, Dropping, AllPatched, Lacks
<1>4. Played
  BY <1>1, FileItems DEF Init, Played, SentBefore, Early
<1>5. ReadsInFile
  <2>1. file.size \in Nat
    BY <1>1, ItemsOf DEF TypeOK, None
  <2>2. QED
    BY <2>1 DEF Init, ReadsInFile
<1>6. Exchanges
  BY DEF Init, Exchanges, Quiet
<1>7. QED
  BY <1>1, <1>2, <1>3, <1>4, <1>5, <1>6 DEF IInv

\* Every step keeps it.
LEMMA StepIInv == IInv /\ Exchanges /\ [Next]_vars => IInv' /\ Exchanges'
  BY StepTypeOK, StepPlaces, StepPending, StepLeaving, StepFound, StepPlayed, StepChosen,
     StepDropping, StepReads, StepExchanges
  DEF IInv

\* The invariant holds throughout.
THEOREM Inductive == Spec => [](IInv /\ Exchanges)
  BY InitIInv, StepIInv, PTL DEF Spec

\* The variables of the setup stay in range, whatever the file, however often
\* transfers fail.
THEOREM TypeCorrect == Spec => []TypeOK
<1>1. IInv => TypeOK
  BY DEF IInv
<1>2. QED
  BY <1>1, Inductive, PTL

\* setup() leaves manufacturer mode on every way out, unless entering or leaving
\* it failed.
THEOREM LeavingSafety == Spec => []LeavesMfg
<1>1. IInv => LeavesMfg
  BY DEF IInv, Leaving, Missed, Out, Lacks, Finally, LeavesMfg
<1>2. QED
  BY <1>1, Inductive, PTL

\* Patches are activated only after every record of the file was played without
\* a fault, dropped if patching ended early, and not loaded twice.
THEOREM PatchSafety == Spec => []AllOrNothing
<1>1. ASSUME IInv PROVE AllOrNothing
  <2>1. active /\ ~found => CommandsOf(file) \subseteq sent /\ "record" \notin failedAt
    BY <1>1 DEF IInv, Chosen, Played
  <2>2. exit = "deactivate" /\ pc = "succeeded" /\ commands = <<>> => loaded = {} /\ ~active
    BY <1>1 DEF IInv, Chosen, Found, Dropping, Cleared, Finally
  <2>3. found => sent = {}
    BY <1>1 DEF IInv, Found
  <2>4. QED
    BY <2>1, <2>2, <2>3 DEF AllOrNothing
<1>2. QED
  BY <1>1, Inductive, PTL

\* The parser reads at most three bytes past the end of a file, and then patching
\* has failed.
THEOREM ReadingSafety == Spec => []ReadsInFile
<1>1. IInv => ReadsInFile
  BY DEF IInv
<1>2. QED
  BY <1>1, Inductive, PTL

\* As long as no transfer has failed every event read answers the command just
\* sent, if the files list the events that the controller answers with.
THEOREM ExchangesInStep == Spec => []InStep
<1>1. IInv /\ Exchanges => InStep
  BY DEF IInv, TypeOK, Exchanges, InStep
<1>2. QED
  BY <1>1, Inductive, PTL

=============================================================================
