------------------------ MODULE Gen1TransactionProofs ------------------------
(***************************************************************************)
(* The proof that Gen1Patching implements PatchTransaction.                *)
(*                                                                         *)
(* The parser never goes back, so a record is not sent twice, not even one *)
(* whose answer did not come (Once).  No record is sent once the decision  *)
(* is made, and the command that carries it out goes out after it was      *)
(* made; so in the queue no record is behind that command (Orderly), and   *)
(* when the controller comes to it there is none under way.                *)
(***************************************************************************)
EXTENDS Gen1PatchingProofs

Settling == {"activate", "deactivate"}

\* Records sent are behind the parser, and the one at hand was not sent before.
Once ==
  /\ \A k \in sent : k < item
  /\ pc \in {"expected", "record"} => cmd < item /\ cmd \in CommandsOf(file)
  /\ pc \in {"expected", "record"} /\ ~waiting => cmd \notin sent

\* A queue of commands holds each of its records once, and none behind a
\* command that settles what becomes of the patches.
RecordsOf(s) == {s[i].item : i \in {j \in DOMAIN s : s[j].op = "record"}}
Orderly(s) ==
  \A i, j \in DOMAIN s :
    i < j /\ s[j].op = "record" =>
      /\ s[i].op \notin Settling
      /\ s[i].op = "record" => s[i].item # s[j].item

Settled ==
  /\ RecordsOf(commands) \subseteq sent
  /\ sent \subseteq CommandsOf(file)
  /\ Orderly(commands)
  /\ exit # "deactivate" => Lacks(commands, {"deactivate"})

-----------------------------------------------------------------------------
(* The queue *)

\* Any other command leaves the records under way and their order as they are;
\* a record joins them.
LEMMA RecordsGrow ==
  ASSUME TypeOK, NEW c \in Commands(file)
  PROVE  LET s == Append(commands, c) IN
         /\ c.op # "record" => RecordsOf(s) = RecordsOf(commands)
         /\ c.op = "record" => RecordsOf(s) = RecordsOf(commands) \cup {c.item}
         /\ c.op # "record" /\ Orderly(commands) => Orderly(s)
         /\ /\ c.op = "record" /\ Orderly(commands)
            /\ Lacks(commands, Settling) /\ c.item \notin RecordsOf(commands)
            => Orderly(s)
<1> DEFINE s == Append(commands, c)
<1>1. /\ Len(commands) \in Nat
      /\ DOMAIN commands = 1 .. Len(commands)
      /\ DOMAIN s = 1 .. Len(commands) + 1
      /\ \A i \in 1 .. Len(commands) : s[i] = commands[i]
      /\ s[Len(commands) + 1] = c
  BY AppendProperties, LenProperties DEF TypeOK
<1> HIDE DEF s
<1>2. DOMAIN s = DOMAIN commands \cup {Len(commands) + 1}
  BY <1>1
<1>3. \A k : k \in RecordsOf(s) <=> k \in RecordsOf(commands) \/ (c.op = "record" /\ k = c.item)
  BY <1>1, <1>2 DEF RecordsOf
<1>4. ASSUME Orderly(commands),
             c.op = "record" => Lacks(commands, Settling) /\ c.item \notin RecordsOf(commands)
      PROVE  Orderly(s)
  <2> SUFFICES ASSUME NEW i \in DOMAIN s, NEW j \in DOMAIN s, i < j, s[j].op = "record"
               PROVE  /\ s[i].op \notin Settling
                      /\ s[i].op = "record" => s[i].item # s[j].item
    BY DEF Orderly
  <2>1. i \in DOMAIN commands /\ s[i] = commands[i]
    BY <1>1
  <2>2. CASE j \in DOMAIN commands
    BY <1>1, <1>4, <2>1, <2>2 DEF Orderly
  <2>3. CASE j = Len(commands) + 1
    BY <1>1, <1>4, <2>1, <2>3 DEF Lacks, RecordsOf
  <2>4. QED
    BY <1>2, <2>2, <2>3
<1>5. QED
  BY <1>3, <1>4 DEF s

\* What the controller takes first is one of the records, or not; and if it
\* settles what becomes of the patches there are none.
LEMMA RecordsShrink ==
  ASSUME TypeOK, Work, Orderly(commands)
  PROVE  LET c == Head(commands) IN
         /\ Orderly(commands')
         /\ c.op # "record" => RecordsOf(commands') = RecordsOf(commands)
         /\ c.op = "record" => /\ c.item \in RecordsOf(commands)
                               /\ RecordsOf(commands') = RecordsOf(commands) \ {c.item}
         /\ c.op \in Settling => RecordsOf(commands) = {}
<1>1. /\ Len(commands) \in Nat \ {0}
      /\ DOMAIN commands = 1 .. Len(commands)
      /\ DOMAIN commands' = 1 .. Len(commands) - 1
      /\ \A i \in 1 .. Len(commands) - 1 : commands'[i] = commands[i + 1]
      /\ Head(commands) = commands[1]
  BY HeadTailProperties, LenProperties, EmptySeq DEF Work, TypeOK
<1>2. \A i \in DOMAIN commands : i = 1 \/ (i - 1 \in DOMAIN commands' /\ commands'[i - 1] = commands[i])
  BY <1>1
<1>3. \A i \in DOMAIN commands' : i + 1 \in DOMAIN commands /\ i + 1 > 1 /\ commands'[i] = commands[i + 1]
  BY <1>1
<1>4. Orderly(commands')
  <2> SUFFICES ASSUME NEW i \in DOMAIN commands', NEW j \in DOMAIN commands', i < j,
                      commands'[j].op = "record"
               PROVE  /\ commands'[i].op \notin Settling
                      /\ commands'[i].op = "record" => commands'[i].item # commands'[j].item
    BY DEF Orderly
  <2>1. i + 1 < j + 1
    BY <1>1
  <2>2. QED
    BY <1>3, <2>1 DEF Orderly
<1>5. 1 \in DOMAIN commands
  BY <1>1
<1>6. \A j \in DOMAIN commands : j # 1 => 1 < j
  BY <1>1
<1>7. RecordsOf(commands') \subseteq RecordsOf(commands)
  BY <1>3 DEF RecordsOf
<1>8. \A k \in RecordsOf(commands) :
        k \in RecordsOf(commands') \/ (Head(commands).op = "record" /\ k = Head(commands).item)
  BY <1>1, <1>2 DEF RecordsOf
<1>9. Head(commands).op = "record" => /\ Head(commands).item \in RecordsOf(commands)
                                      /\ Head(commands).item \notin RecordsOf(commands')
  <2> SUFFICES ASSUME Head(commands).op = "record"
               PROVE  /\ Head(commands).item \in RecordsOf(commands)
                      /\ Head(commands).item \notin RecordsOf(commands')
    OBVIOUS
  <2>1. Head(commands).item \in RecordsOf(commands)
    BY <1>1, <1>5 DEF RecordsOf
  <2>2. ASSUME NEW i \in DOMAIN commands', commands'[i].op = "record"
        PROVE  commands'[i].item # Head(commands).item
    BY <1>1, <1>3, <1>5, <2>2 DEF Orderly
  <2>3. QED
    BY <2>1, <2>2 DEF RecordsOf
<1>10. Head(commands).op \in Settling => RecordsOf(commands) = {}
  <2> SUFFICES ASSUME Head(commands).op \in Settling, NEW i \in DOMAIN commands,
                      commands[i].op = "record"
               PROVE  FALSE
    BY DEF RecordsOf
  <2>1. CASE i = 1
    BY <1>1, <2>1 DEF Settling
  <2>2. CASE i # 1
    BY <1>1, <1>5, <1>6, <2>2 DEF Orderly
  <2>3. QED
    BY <2>1, <2>2
<1>11. QED
  BY <1>4, <1>7, <1>8, <1>9, <1>10

-----------------------------------------------------------------------------
(* Steps *)

\* What PatchTransaction is about stays as it is.
Rests == UNCHANGED <<CommandsOf(file), sent, UnderWay, loaded, active, exit>>

\* An exchange of the setup itself moves no record.
LEMMA ExchangeRests ==
  ASSUME TypeOK, Once, Settled,
         NEW op \in Simple \cup Ways, NEW next, NEW bad, Exchange(Simply(op), next, bad),
         pc \notin {"expected", "record"}, {next, bad} \cap {"expected", "record"} = {},
         op = "deactivate" => exit = "deactivate"
  PROVE  Once' /\ Settled' /\ Rests
<1> DEFINE c == Simply(op)
<1>1. c \in Commands(file) /\ c.op = op /\ op # "record"
  BY SimpleCommand DEF Simple, Ways
<1>2. commands' \in {commands, Append(commands, c)} /\ pc' \in {pc, next, bad}
  BY DEF Exchange, Send, Receive, NoEvent
<1> HIDE DEF c
<1>3. RecordsOf(commands') = RecordsOf(commands) /\ Orderly(commands')
  <2>1. Orderly(commands)
    BY DEF Settled
  <2>2. CASE commands' = commands
    BY <2>1, <2>2
  <2>3. CASE commands' = Append(commands, c)
    BY <1>1, <2>1, <2>3, RecordsGrow
  <2>4. QED
    BY <1>2, <2>2, <2>3
<1>4. UNCHANGED <<fixedVars, chipVars, parseVars, exit, historyVars>>
  BY DEF Exchange
<1>5. /\ file' = file /\ CommandsOf(file)' = CommandsOf(file) /\ sent' = sent
      /\ loaded' = loaded /\ active' = active /\ exit' = exit /\ item' = item
  BY <1>4 DEF fixedVars, chipVars, parseVars, historyVars, CommandsOf
<1>6. exit # "deactivate" => Lacks(commands', {"deactivate"})
  BY <1>1, <1>2, QueueGrows DEF Settled
<1>7. Once'
  BY <1>2, <1>5 DEF Once
<1>8. Settled'
  BY <1>3, <1>5, <1>6 DEF Settled
<1>9. Rests
  BY <1>3, <1>5 DEF Rests, UnderWay, RecordsOf, CommandsOf
<1>10. QED
  BY <1>7, <1>8, <1>9

\* A decision of the parser moves none either.
LEMMA DecisionKeeps ==
  ASSUME TypeOK, Once, Settled, exit = "none",
         UNCHANGED <<fixedVars, chipVars, commands, sent>>, item' = item,
         pc' \notin {"expected", "record"}
  PROVE  /\ Once' /\ Settled'
         /\ UNCHANGED <<CommandsOf(file), sent, UnderWay, loaded, active>>
<1>1. /\ file' = file /\ CommandsOf(file)' = CommandsOf(file)
      /\ loaded' = loaded /\ active' = active /\ sent' = sent /\ commands' = commands
  BY DEF fixedVars, chipVars, CommandsOf
<1>2. Once'
  BY <1>1 DEF Once
<1>3. Settled'
  BY <1>1 DEF Settled
<1>4. QED
  BY <1>1, <1>2, <1>3 DEF UnderWay

\* A step with which nothing happens to the patches is none of the transaction's.
LEMMA RestingKeeps == Rests => [PT!Next]_PT!sessionVars
  BY DEF Rests, PT!sessionVars

\* The controller has nothing to do with what is sent and decided.
LEMMA WorkKeeps ==
  ASSUME TypeOK, Once, Settled, Work
  PROVE  /\ Once' /\ Settled'
         /\ UNCHANGED <<CommandsOf(file), sent, exit>>
<1>1. /\ file' = file /\ CommandsOf(file)' = CommandsOf(file) /\ sent' = sent
      /\ exit' = exit /\ pc' = pc /\ waiting' = waiting /\ item' = item /\ cmd' = cmd
  BY DEF Work, fixedVars, parseVars, CommandsOf
<1>2. Once'
  BY <1>1 DEF Once
<1>3. RecordsOf(commands') \subseteq RecordsOf(commands) /\ Orderly(commands')
  <2>1. Orderly(commands)
    BY DEF Settled
  <2>2. CASE Head(commands).op = "record"
    BY <2>1, <2>2, RecordsShrink
  <2>3. CASE Head(commands).op # "record"
    BY <2>1, <2>3, RecordsShrink
  <2>4. QED
    BY <2>2, <2>3
<1>4. exit # "deactivate" => Lacks(commands', {"deactivate"})
  BY QueueShrinks DEF Settled
<1>5. Settled'
  BY <1>1, <1>3, <1>4 DEF Settled
<1>6. QED
  BY <1>1, <1>2, <1>5

-----------------------------------------------------------------------------
(* The steps of the setup and of the controller *)

Keeps == Once' /\ Settled' /\ [PT!Next]_PT!sessionVars

\* The parser decides, or goes on without anybody noticing.
LEMMA ParserKeeps ==
  ASSUME IInv, Once, Settled, ParseCommand \/ ParseEvent \/ ParseRecord
  PROVE  Keeps
<1>1. /\ TypeOK /\ exit = "none" /\ file # None
      /\ UNCHANGED <<fixedVars, chipVars, commands, sent>>
      /\ file' = file /\ sent' = sent /\ loaded' = loaded /\ active' = active
      /\ commands' = commands
  BY DEF IInv, Places, Early, ParseCommand, ParseEvent, ParseRecord, fixedVars,
         chipVars, parseVars, historyVars
<1>2. ASSUME Leave("deactivate"), item' = item
      PROVE  Keeps
  <2>1. /\ Once' /\ Settled' /\ exit' = "deactivate"
        /\ UNCHANGED <<CommandsOf(file), sent, UnderWay, loaded, active>>
    BY <1>1, <1>2, DecisionKeeps DEF Leave
  <2>2. PT!GiveUp
    BY <1>1, <2>1 DEF PT!GiveUp
  <2>3. QED
    BY <2>1, <2>2 DEF Keeps, PT!Next
<1>3. ASSUME exit' = exit, Once'
      PROVE  Keeps
  <2>1. Settled'
    BY <1>1, <1>3 DEF Settled, CommandsOf
  <2>2. Rests
    BY <1>1, <1>3 DEF Rests, UnderWay, CommandsOf
  <2>3. QED
    BY <1>3, <2>1, <2>2, RestingKeeps DEF Keeps
<1>4. CASE ParseCommand
  <2>1. CASE AtEnd
    <3>1. item' = item /\ pc' = "exitMfg" /\ exit' \in {"disable", "activate"}
      BY <1>4, <2>1 DEF ParseCommand, Leave, parseVars
    <3>2. /\ Once' /\ Settled'
          /\ UNCHANGED <<CommandsOf(file), sent, UnderWay, loaded, active>>
      BY <1>1, <3>1, DecisionKeeps
    <3>3. CommandsOf(file) \subseteq sent
      BY <1>1, <1>4, <2>1, AllPlayed DEF ParseCommand, IInv, Played, Early
    <3>4. PT!Complete
      BY <1>1, <3>1, <3>2, <3>3 DEF PT!Complete
    <3>5. QED
      BY <3>2, <3>4 DEF Keeps, PT!Next
  <2>2. CASE ~AtEnd /\ ~CommandFits(Here)
    BY <1>2, <1>4, <2>2 DEF ParseCommand, parseVars
  <2>3. CASE ~AtEnd /\ CommandFits(Here)
    <3>1. cmd' = item /\ item' = item + 1 /\ exit' = exit
      BY <1>4, <2>3 DEF ParseCommand
    <3>2. item \in Nat /\ item \in CommandsOf(file)
      BY <1>1, <2>3, CommandHere, FileItems DEF CommandsOf
    <3>3. \A k \in sent : k \in Nat
      BY <1>1, FileItems DEF TypeOK
    <3>4. \A k \in sent : k < item /\ k < item + 1 /\ k # item
      BY <3>2, <3>3 DEF Once
    <3>5. item < item + 1
      BY <3>2
    <3>6. Once'
      BY <1>1, <3>1, <3>2, <3>4, <3>5 DEF Once, CommandsOf
    <3>7. QED
      BY <1>3, <3>1, <3>6
  <2>4. QED
    BY <2>1, <2>2, <2>3
<1>5. CASE ParseEvent
  <2>1. CASE pc' = "exitMfg"
    BY <1>2, <1>5, <2>1 DEF ParseEvent, Leave
  <2>2. CASE pc' # "exitMfg"
    <3>1. pc = "expected" /\ pc' = pc /\ waiting' = waiting /\ exit' = exit
          /\ cmd' = cmd /\ item' = item + 1
      BY <1>5, <2>2 DEF ParseEvent, Leave
    <3>2. item \in Nat /\ cmd \in Nat /\ \A k \in sent : k \in Nat
      BY <1>1, <1>5, EventHere, FileItems DEF TypeOK, ParseEvent, IInv
    <3>3. \A k \in sent : k < item + 1
      BY <3>2 DEF Once
    <3>4. cmd < item + 1
      BY <3>1, <3>2 DEF Once
    <3>5. Once'
      BY <1>1, <3>1, <3>3, <3>4 DEF Once, CommandsOf
    <3>6. QED
      BY <1>3, <3>1, <3>5
  <2>3. QED
    BY <2>1, <2>2
<1>6. CASE ParseRecord
  <2>1. CASE evt = "none"
    BY <1>2, <1>6, <2>1 DEF ParseRecord, parseVars
  <2>2. CASE evt # "none"
    <3>1. exit' = exit /\ item' = item /\ cmd' = cmd /\ waiting' = waiting /\ ~waiting
          /\ pc = "expected" /\ pc' = "record"
      BY <1>6, <2>2 DEF ParseRecord, parseVars, IInv, Places
    <3>2. Once'
      BY <1>1, <3>1 DEF Once, CommandsOf
    <3>3. QED
      BY <1>3, <3>1, <3>2
  <2>3. QED
    BY <2>1, <2>2
<1>7. QED
  BY <1>4, <1>5, <1>6

\* A record goes out once, before the decision, or it fails and is the last.
LEMMA RecordKeeps ==
  ASSUME IInv, Once, Settled, SendRecord
  PROVE  Keeps
<1>1. /\ TypeOK /\ pc = "record" /\ ~waiting /\ exit = "none"
      /\ cmd < item /\ cmd \in CommandsOf(file) /\ cmd \in DOMAIN file.items
      /\ cmd \notin sent
  BY DEF IInv, Places, Early, SendRecord, Send, Once
<1>2. ~active
  BY <1>1 DEF IInv, Chosen, Found
<1>3. Lacks(commands, Settling)
  BY <1>1 DEF IInv, Chosen, Settled, Lacks, Settling
<1>4. /\ file' = file /\ CommandsOf(file)' = CommandsOf(file) /\ item' = item
      /\ cmd' = cmd /\ loaded' = loaded /\ active' = active
  BY DEF SendRecord, fixedVars, chipVars, parseVars, CommandsOf
<1>5. \/ waiting' /\ exit' = exit /\ pc' = "record" /\ cmd \in sent'
      \/ ~waiting' /\ exit' = "deactivate" /\ pc' = "exitMfg"
  BY <1>1, SendAppends DEF IInv
<1>6. Once'
  <2>1. sent' \subseteq sent \cup {cmd}
    BY DEF SendRecord
  <2>2. \A k \in sent' : k < item
    BY <1>1, <2>1 DEF Once
  <2>3. QED
    BY <1>1, <1>4, <1>5, <2>2 DEF Once
<1>7. ThisRecord \in Commands(file) /\ ThisRecord.op = "record" /\ ThisRecord.item = cmd
  BY <1>1, RecordCommand
<1>8. exit' # "deactivate" => Lacks(commands', {"deactivate"})
  BY <1>1, <1>5, <1>7, SendQueues, QueueGrows DEF SendRecord, Settled
<1>9. CASE commands' = commands
  <2>1. sent' = sent
    BY <1>9 DEF SendRecord
  <2>2. exit' = "deactivate"
    BY <1>1, <1>5, <2>1
  <2>3. Settled'
    BY <1>4, <1>8, <1>9, <2>1 DEF Settled
  <2>4. PT!GiveUp
    BY <1>1, <1>4, <1>9, <2>1, <2>2 DEF PT!GiveUp, UnderWay
  <2>5. QED
    BY <1>6, <2>3, <2>4 DEF Keeps, PT!Next
<1>10. CASE commands' # commands
  <2>1. sent' = sent \cup {cmd}
    BY <1>10 DEF SendRecord
  <2>2. commands' = Append(commands, ThisRecord)
    BY <1>1, <1>7, <1>10, SendQueues DEF SendRecord
  <2>3. cmd \notin RecordsOf(commands) /\ Orderly(commands)
    BY <1>1 DEF Settled
  <2>4. RecordsOf(commands') = RecordsOf(commands) \cup {cmd} /\ Orderly(commands')
    BY <1>1, <1>3, <1>7, <2>2, <2>3, RecordsGrow
  <2>5. Settled'
    BY <1>1, <1>4, <1>8, <2>1, <2>4 DEF Settled
  <2>6. PT!Play(cmd)
    BY <1>1, <2>1, <2>4 DEF PT!Play, UnderWay, RecordsOf
  <2>7. CASE exit' = exit
    <3>1. PT!PlayRecord(cmd)
      BY <1>1, <1>2, <1>4, <2>6, <2>7 DEF PT!PlayRecord
    <3>2. QED
      BY <1>1, <1>6, <2>5, <3>1 DEF Keeps, PT!Next
  <2>8. CASE exit' = "deactivate"
    <3>1. PT!GiveUp
      BY <1>1, <1>2, <1>4, <2>6, <2>8 DEF PT!GiveUp
    <3>2. QED
      BY <1>6, <2>5, <3>1 DEF Keeps, PT!Next
  <2>9. QED
    BY <1>5, <2>7, <2>8
<1>11. QED
  BY <1>9, <1>10

\* A record whose answer does not come is given up with all others.
LEMMA FailureKeeps ==
  ASSUME IInv, Once, Settled, RecordFails
  PROVE  Keeps
<1>1. /\ TypeOK /\ exit = "none" /\ exit' = "deactivate" /\ pc' = "exitMfg"
      /\ item' = item /\ UNCHANGED <<fixedVars, chipVars, commands, sent>>
  BY DEF IInv, Places, Early, RecordFails, NoEvent, parseVars, historyVars
<1>2. /\ Once' /\ Settled'
      /\ UNCHANGED <<CommandsOf(file), sent, UnderWay, loaded, active>>
  BY <1>1, DecisionKeeps
<1>3. PT!GiveUp
  BY <1>1, <1>2 DEF PT!GiveUp
<1>4. QED
  BY <1>2, <1>3 DEF Keeps, PT!Next

\* An event read for a record is not seen by the transaction.
LEMMA AnswerKeeps ==
  ASSUME IInv, Once, Settled, RecordEvent
  PROVE  Keeps
<1>1. /\ file' = file /\ CommandsOf(file)' = CommandsOf(file) /\ item' = item
      /\ cmd' = cmd /\ loaded' = loaded /\ active' = active /\ sent' = sent
      /\ exit' = exit /\ commands' = commands /\ pc = "record"
      /\ (waiting' /\ pc' = "record") \/ pc' = "patching"
  BY DEF RecordEvent, Receive, fixedVars, chipVars, parseVars, historyVars, CommandsOf
<1>2. Once'
  BY <1>1 DEF Once
<1>3. Settled'
  BY <1>1 DEF Settled
<1>4. Rests
  BY <1>1 DEF Rests, UnderWay
<1>5. QED
  BY <1>2, <1>3, <1>4, RestingKeeps DEF Keeps

\* The controller takes records, refuses them and carries out the decision.
LEMMA ChipKeeps ==
  ASSUME IInv, Once, Settled, Chip
  PROVE  Keeps
<1> DEFINE c == Head(commands)
<1>1. TypeOK /\ Work /\ Orderly(commands)
  BY DEF IInv, Chip, ChipAnswers, ChipLeaves, ChipTakes, ChipRefuses, Settled
<1>2. Once' /\ Settled' /\ UNCHANGED <<CommandsOf(file), sent, exit>>
  BY <1>1, WorkKeeps
<1>3. c.op # "record" => UnderWay' = UnderWay
  BY <1>1, RecordsShrink DEF UnderWay, RecordsOf
<1>4. c.op = "record" => c.item \in UnderWay /\ UnderWay' = UnderWay \ {c.item}
  BY <1>1, RecordsShrink DEF UnderWay, RecordsOf
<1>5. c.op \in Settling => UnderWay = {}
  BY <1>1, RecordsShrink DEF UnderWay, RecordsOf
<1>6. UnderWay \subseteq CommandsOf(file)
  BY DEF UnderWay, RecordsOf, Settled
<1>7. CASE ChipAnswers
  <2>1. c.op # "record" /\ loaded' = loaded /\ active' = active
    BY <1>7 DEF ChipAnswers, Simple
  <2>2. Rests
    BY <1>2, <1>3, <2>1 DEF Rests
  <2>3. QED
    BY <1>2, <2>2, RestingKeeps DEF Keeps
<1>8. CASE ChipLeaves
  <2>1. CASE c.op = "disable"
    <3>1. loaded' = loaded /\ active' = active
      BY <1>8, <2>1 DEF ChipLeaves
    <3>2. Rests
      BY <1>2, <1>3, <2>1, <3>1 DEF Rests
    <3>3. QED
      BY <1>2, <3>2, RestingKeeps DEF Keeps
  <2>2. CASE c.op = "activate"
    <3>1. loaded' = loaded /\ active' = (active \/ loaded # {})
      BY <1>8, <2>2 DEF ChipLeaves
    <3>2. exit = "activate"
      BY <1>1, <2>2, QueueShrinks DEF IInv, Chosen
    <3>3. PT!Activate
      BY <1>2, <1>3, <1>5, <2>2, <3>1, <3>2 DEF PT!Activate, Settling
    <3>4. QED
      BY <1>2, <3>3 DEF Keeps, PT!Next
  <2>3. CASE c.op = "deactivate"
    <3>1. loaded' = {} /\ active' = FALSE
      BY <1>8, <2>3 DEF ChipLeaves
    <3>2. exit = "deactivate"
      BY <1>1, <2>3, QueueShrinks DEF Settled
    <3>3. PT!Drop
      BY <1>2, <1>3, <1>5, <2>3, <3>1, <3>2 DEF PT!Drop, Settling
    <3>4. QED
      BY <1>2, <3>3 DEF Keeps, PT!Next
  <2>4. QED
    BY <1>8, <2>1, <2>2, <2>3 DEF ChipLeaves, Ways
<1>9. CASE ChipTakes \/ ChipRefuses
  <2>1. c.op = "record" /\ loaded' \in {loaded, loaded \cup {c.item}} /\ active' = active
    BY <1>9 DEF ChipTakes, ChipRefuses, chipVars
  <2>2. PT!Take(c.item)
    BY <1>2, <1>4, <2>1 DEF PT!Take
  <2>3. c.item \in CommandsOf(file)
    BY <1>4, <1>6, <2>1
  <2>4. QED
    BY <1>2, <2>2, <2>3 DEF Keeps, PT!Next
<1>10. QED
  BY <1>7, <1>8, <1>9 DEF Chip

-----------------------------------------------------------------------------
(* The transaction *)

\* It begins with nothing sent.
LEMMA InitKeeps == Init => Once /\ Settled /\ PT!Init
<1> SUFFICES ASSUME Init PROVE Once /\ Settled /\ PT!Init
  OBVIOUS
<1>1. RecordsOf(<<>>) = {} /\ Orderly(<<>>) /\ Lacks(<<>>, {"deactivate"})
  BY DEF RecordsOf, Orderly, Lacks
<1>2. UnderWay = {}
  BY <1>1 DEF Init, UnderWay, RecordsOf
<1>3. Once /\ Settled
  BY <1>1 DEF Init, Once, Settled
<1>4. PT!Init
  BY <1>2 DEF Init, PT!Init
<1>5. QED
  BY <1>3, <1>4

\* Every step is one of the transaction's, or none that it sees.
LEMMA StepKeeps == IInv /\ Once /\ Settled /\ [Next]_vars => Keeps
<1> SUFFICES ASSUME IInv, Once, Settled, [Next]_vars PROVE Keeps
  OBVIOUS
<1>0. TypeOK
  BY DEF IInv
<1>1. ASSUME NEW op \in Simple \cup Ways, NEW next, NEW bad, Exchange(Simply(op), next, bad),
             pc \notin {"expected", "record"}, {next, bad} \cap {"expected", "record"} = {},
             op = "deactivate" => exit = "deactivate"
      PROVE  Keeps
  BY <1>0, <1>1, ExchangeRests, RestingKeeps DEF Keeps
<1>2. CASE HciReset
  BY <1>1, <1>2 DEF HciReset, Simple
<1>3. CASE ReadVersion
  BY <1>1, <1>3, VersionExchanged DEF ReadVersion, Simple
<1>4. CASE GetFirmware
  <2>1. /\ file' = file /\ CommandsOf(file)' = CommandsOf(file) /\ sent' = sent
        /\ loaded' = loaded /\ active' = active /\ exit' = exit /\ item' = item
        /\ commands' = commands /\ pc' \notin {"expected", "record"}
    BY <1>4 DEF GetFirmware, fixedVars, chipVars, parseVars, historyVars, CommandsOf
  <2>2. Once' /\ Settled' /\ Rests
    BY <2>1 DEF Once, Settled, Rests, UnderWay
  <2>3. QED
    BY <2>2, RestingKeeps DEF Keeps
<1>5. CASE EnterMfg
  BY <1>1, <1>5 DEF EnterMfg, Simple
<1>6. CASE ParseCommand \/ ParseEvent \/ ParseRecord
  BY <1>6, ParserKeeps
<1>7. CASE SendRecord
  BY <1>7, RecordKeeps
<1>8. CASE RecordEvent
  BY <1>8, AnswerKeeps
<1>9. CASE RecordFails
  BY <1>9, FailureKeeps
<1>10. CASE ExitMfg
  <2>1. exit \in Ways
    BY <1>10 DEF IInv, Places, ExitMfg
  <2>2. Exchange(Simply(exit), AfterExit(exit), "failed")
    BY <1>10 DEF ExitMfg, ExitWay
  <2>3. AfterExit(exit) \in {"reread", "maskEnter"}
    BY DEF AfterExit
  <2>4. QED
    BY <1>1, <1>10, <2>1, <2>2, <2>3 DEF ExitMfg
<1>11. CASE Reread
  BY <1>1, <1>11, VersionExchanged DEF Reread, Simple
<1>12. CASE SetEventMaskMfg
  BY <1>1, <1>12 DEF SetEventMaskMfg, Simple, Ways
<1>13. CASE Chip
  BY <1>13, ChipKeeps
<1>14. CASE Done \/ UNCHANGED vars
  <2>1. UNCHANGED vars
    BY <1>14 DEF Done
  <2>2. Once' /\ Settled' /\ Rests
    BY <2>1 DEF vars, fixedVars, chipVars, parseVars, historyVars, Once, Settled, Rests,
                UnderWay, CommandsOf
  <2>3. QED
    BY <2>2, RestingKeeps DEF Keeps
<1>15. QED
  BY <1>2, <1>3, <1>4, <1>5, <1>6, <1>7, <1>8, <1>9, <1>10, <1>11, <1>12, <1>13, <1>14
     DEF Next, Driver

\* Patching is a transaction: setup() and the controller together implement
\* PatchTransaction, for every set of files and any number of faults.
THEOREM Transaction == Spec => KeepsTransaction
<1>1. IInv /\ Once /\ Settled /\ [Next]_vars
      => Once' /\ Settled' /\ [PT!Next]_PT!sessionVars
  BY StepKeeps DEF Keeps
<1>2. QED
  BY <1>1, InitKeeps, Inductive, PTL DEF Spec, KeepsTransaction, PT!Spec
=============================================================================
