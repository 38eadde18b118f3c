----------------------- MODULE FirmwareTransferProofs -----------------------
(***************************************************************************)
(* Proofs about FirmwareTransfer, for every well-formed firmware file,     *)
(* however many commands it has and however long they are.                 *)
(*                                                                         *)
(* The argument: fw_ptr and fw_ptr + frag_len are always ends of commands, *)
(* and fw_ptr is aligned with the payload.  So a run that reaches the end  *)
(* of the file is as long as a padded payload leaves it, a multiple of 4,  *)
(* and has been sent: the loop never looks for a command there.            *)
(***************************************************************************)
EXTENDS FirmwareTransfer, TLAPS

\* Where commands end, which is where one begins or where the file ends.
Ends4(f) == DOMAIN f.next \cup {f.length}

\* The position of the payload loop.
Position == /\ fw_ptr \in Ends4(file)
            /\ fw_ptr + frag_len \in Ends4(file)
            /\ (fw_ptr - file.payload) % 4 = 0

\* How far the payload has been sent, seen from each control point.
Progress == /\ pc = "header" => /\ type # "data"
                                /\ fw_ptr = file.payload /\ frag_len = 0
                                /\ wire = file.payload
            /\ pc = "payload" => /\ wire = fw_ptr
                                 /\ frag_len = 0 \/ frag_len % 4 # 0
            /\ pc = "done" => wire = file.length
            /\ ScanInStep
            /\ inOrder

\* What securedSend has left of its arguments.
Sending == pc = "send" =>
             IF type = "data"
             THEN /\ frag_len % 4 = 0
                  /\ len % 4 = 0
                  /\ fragment = wire
                  /\ fragment + len = fw_ptr + frag_len
             ELSE /\ fw_ptr = file.payload /\ frag_len = 0
                  /\ wire = file.payload
                  /\ fragment + len <= file.length

IInv == TypeOK /\ Position /\ Progress /\ Sending

-----------------------------------------------------------------------------
(* Lemmas about files and headers *)

\* The lemma on alignment is about integers.
LEMMA NatInt == \A n \in Nat : n \in Int
  OBVIOUS

\* Sums and differences of multiples of 4 are multiples of 4.
LEMMA Aligned == \A a, b \in Int : a % 4 = 0 /\ b % 4 = 0 => (a + b) % 4 = 0 /\ (a - b) % 4 = 0
  OBVIOUS

\* Ends of commands are offsets from the payload to the length.
LEMMA EndsBounds == ASSUME NEW f, WellFormed(f)
                    PROVE  /\ f.length \in Nat
                           /\ f.payload \in Nat
                           /\ f.payload >= 644
                           /\ f.payload \in Ends4(f)
                           /\ \A o \in Ends4(f) : o \in Nat /\ f.payload <= o /\ o <= f.length
<1>1. f.length \in Nat /\ f.payload \in {644, 964} /\ DOMAIN f.next \subseteq f.payload .. f.length - 1
  BY DEF WellFormed
<1>2. f.payload \in Ends4(f)
  BY DEF WellFormed, Ends4
<1>3. f.payload <= f.length
  BY <1>1, <1>2 DEF Ends4
<1>4. QED
  BY <1>1, <1>2, <1>3 DEF Ends4

\* The command at an offset ends further on.
LEMMA NextEnds == ASSUME NEW f, WellFormed(f), NEW o \in DOMAIN f.next
                  PROVE  f.next[o] \in Ends4(f) /\ f.next[o] > o
<1>1. f.next[o] \in Ends4(f) /\ f.next[o] >= o + HdrSize
  BY DEF WellFormed, Ends4
<1>2. o \in Nat
  BY EndsBounds DEF Ends4
<1>3. f.next[o] \in Nat
  BY <1>1, EndsBounds
<1>4. QED
  BY <1>1, <1>2, <1>3 DEF HdrSize

\* The parts of the header lie before the payload.
LEMMA HeaderBounds == ASSUME NEW f, WellFormed(f), NEW k \in 1 .. 3
                      PROVE  LET s == Segments(f.engine)[k] IN
                             /\ s.type \in {"init", "pkey", "sign"}
                             /\ s.first \in Nat /\ s.len \in Nat
                             /\ s.first + s.len <= f.payload
<1>1. CASE f.engine = "rsa"
  <2>1. f.payload \in {644, 964}
    BY DEF WellFormed
  <2>2. k = 1 \/ k = 2 \/ k = 3
    OBVIOUS
  <2>3. QED
    BY <1>1, <2>1, <2>2 DEF Segments, Segment
<1>2. CASE f.engine = "ecdsa"
  <2>1. f.payload = 964
    BY <1>2 DEF WellFormed
  <2>2. k = 1 \/ k = 2 \/ k = 3
    OBVIOUS
  <2>3. QED
    BY <1>2, <2>1, <2>2 DEF Segments, Segment
<1>3. QED
  BY <1>1, <1>2 DEF WellFormed

\* The heart of the argument.
LEMMA InStepWithFile ==
  ASSUME IInv, Padded(file), pc = "payload", fw_ptr < file.length
  PROVE  fw_ptr + frag_len \in DOMAIN file.next
<1>1. WellFormed(file) /\ fw_ptr \in Nat /\ frag_len \in Nat
  BY DEF IInv, TypeOK
<1>2. fw_ptr + frag_len # file.length
  <2> SUFFICES ASSUME fw_ptr + frag_len = file.length PROVE FALSE
    OBVIOUS
  <2>1. (file.length - file.payload) % 4 = 0 /\ (fw_ptr - file.payload) % 4 = 0
    BY DEF IInv, Position, Padded
  <2>2. file.length \in Int /\ file.payload \in Int
    BY <1>1, EndsBounds
  <2>3. frag_len = (file.length - file.payload) - (fw_ptr - file.payload)
    BY <1>1, <2>2
  <2>4. file.length - file.payload \in Int /\ fw_ptr - file.payload \in Int
    BY <1>1, <2>2
  <2>5. ((file.length - file.payload) - (fw_ptr - file.payload)) % 4 = 0
    BY <2>1, <2>4, Aligned, Zenon
  <2>6. frag_len = 0
    BY <2>3, <2>5 DEF IInv, Progress
  <2>7. QED
    BY <1>1, <2>2, <2>6
<1>3. QED
  BY <1>2 DEF IInv, Position, Ends4

-----------------------------------------------------------------------------
(* The invariant *)

\* The invariant holds at first.
LEMMA InitIInv == Init => IInv
<1> SUFFICES ASSUME Init PROVE IInv
  OBVIOUS
<1>1. WellFormed(file)
  BY FilesWellFormed DEF Init
<1>2. file.payload \in Nat /\ file.payload \in Ends4(file)
  BY <1>1, EndsBounds
<1>3. TypeOK
  BY <1>1, <1>2 DEF Init, TypeOK
<1>4. QED
  BY <1>2, <1>3 DEF Init, IInv, Position, Progress, Sending, ScanInStep

\* Every step keeps it.
LEMMA StepIInv == IInv /\ [Next]_vars => IInv'
<1> SUFFICES ASSUME IInv, [Next]_vars PROVE IInv'
  OBVIOUS
<1> USE DEF IInv, TypeOK, Ended, Position, Progress, Sending, ScanInStep
<1>1. /\ WellFormed(file)
      /\ file.length \in Nat /\ file.payload \in Nat
      /\ \A o \in Ends4(file) : o \in Nat /\ o <= file.length
  BY EndsBounds
<1>2. CASE SendHeader
  <2> DEFINE s == Segments(file.engine)[segment']
  <2>1. segment' \in 1 .. 3
    BY <1>2 DEF SendHeader
  <2>2. /\ s.type \in {"init", "pkey", "sign"} /\ s.first \in Nat /\ s.len \in Nat
        /\ s.first + s.len <= file.payload
    BY <1>1, <2>1, HeaderBounds
  <2>3. file.payload <= file.length
    BY <1>1, EndsBounds
  <2>4. QED
    BY <1>1, <1>2, <2>1, <2>2, <2>3 DEF SendHeader, SecuredSend
<1>3. CASE HeaderDone
  BY <1>3 DEF HeaderDone
<1>4. CASE TakeCommand
  <2> DEFINE o == fw_ptr + frag_len
  <2>1. o \in DOMAIN file.next
    BY <1>4 DEF TakeCommand
  <2>2. file.next[o] \in Ends4(file) /\ file.next[o] > o /\ file.next[o] \in Nat
    BY <1>1, <2>1, NextEnds
  <2>3. frag_len' = file.next[o] - fw_ptr /\ frag_len' \in Nat /\ fw_ptr + frag_len' = file.next[o]
    BY <1>4, <2>2 DEF TakeCommand, RunLength
  <2>4. UNCHANGED <<file, fw_ptr, segment, wire, inOrder>>
    BY <1>4 DEF TakeCommand, SecuredSend
  <2>5. CASE frag_len' % 4 = 0
    BY <1>4, <2>2, <2>3, <2>4, <2>5 DEF TakeCommand, SecuredSend, EndsRun
  <2>6. CASE frag_len' % 4 # 0
    BY <1>4, <2>2, <2>3, <2>4, <2>6 DEF TakeCommand, EndsRun
  <2>7. QED
    BY <2>5, <2>6
<1>5. CASE PayloadDone
  <2>1. fw_ptr = file.length
    BY <1>1, <1>5 DEF PayloadDone
  <2>2. Padded(file)
    BY <2>1 DEF Padded
  <2>3. QED
    BY <1>1, <1>5, <2>1, <2>2 DEF PayloadDone
<1>6. CASE SendPiece
  <2>1. /\ Piece \in Nat /\ Piece <= len
        /\ len % 4 = 0 => Piece % 4 = 0
    BY <1>6 DEF SendPiece, Piece, Chunk
  <2>2. len % 4 = 0 => (len - Piece) % 4 = 0
    BY <2>1, Aligned
  <2>3. CASE type = "data"
    <3>1. /\ len' = len - Piece /\ len' \in Nat
          /\ fragment' = fragment + Piece /\ fragment' \in Nat
          /\ fragment' + len' = fragment + len
      BY <1>6, <2>1 DEF SendPiece
    <3>2. len' % 4 = 0
      BY <1>6, <2>2, <2>3, <3>1 DEF SendPiece
    <3>3. wire' = fragment' /\ inOrder'
      BY <1>6, <2>3, <3>1 DEF SendPiece
    <3>4. UNCHANGED <<file, pc, segment, fw_ptr, frag_len, type>> /\ pc = "send"
      BY <1>6 DEF SendPiece
    <3>5. QED
      BY <2>3, <3>1, <3>2, <3>3, <3>4
  <2>4. CASE type # "data"
    BY <1>6, <2>1, <2>4 DEF SendPiece
  <2>5. QED
    BY <2>3, <2>4
<1>7. CASE SendFails
  BY <1>7 DEF SendFails
<1>8. CASE Sent
  <2>1. CASE type = "data"
    <3>1. frag_len % 4 = 0 /\ fw_ptr - file.payload \in Int
      BY <1>1, <1>8, <2>1 DEF Sent
    <3>2. ((fw_ptr - file.payload) + frag_len) % 4 = 0
      BY <3>1, Aligned, NatInt, Zenon
    <3>3. (fw_ptr + frag_len) - file.payload = (fw_ptr - file.payload) + frag_len
      BY <1>1
    <3>4. QED
      BY <1>1, <1>8, <2>1, <3>2, <3>3 DEF Sent
  <2>2. CASE type # "data"
    BY <1>1, <1>8, <2>2 DEF Sent
  <2>3. QED
    BY <2>1, <2>2
<1>9. CASE UNCHANGED vars
  BY <1>9 DEF vars
<1>10. CASE LookOutside
  <2>1. ~Padded(file)
    BY <1>10, InStepWithFile DEF LookOutside
  <2>2. QED
    BY <1>10, <2>1 DEF LookOutside
<1>11. QED
  BY <1>2, <1>3, <1>4, <1>5, <1>6, <1>7, <1>8, <1>9, <1>10 DEF Next, Step, Done

-----------------------------------------------------------------------------
(* Theorems *)

\* The invariant holds throughout.
THEOREM Inductive == Spec => []IInv
  BY InitIInv, StepIInv, PTL DEF Spec

\* The variables of the transfer stay in range for every firmware file.
THEOREM TypeCorrect == Spec => []TypeOK
<1>1. IInv => TypeOK
  BY DEF IInv
<1>2. QED
  BY <1>1, Inductive, PTL

\* The payload loop looks for commands only where the file has one, if the
\* payload is padded, and comes to its end only then.
THEOREM ScanSafety == Spec => []ScanInStep
<1>1. IInv => ScanInStep
  BY DEF IInv, Progress
<1>2. QED
  BY <1>1, Inductive, PTL

\* securedSend copies only bytes of the file.
THEOREM SendSafety == Spec => []SendInFile
<1>1. IInv => SendInFile
  <2> SUFFICES ASSUME IInv, pc = "send" PROVE fragment + len <= file.length
    BY DEF SendInFile
  <2>1. \A o \in Ends4(file) : o <= file.length
    BY EndsBounds DEF IInv, TypeOK
  <2>2. QED
    BY <2>1 DEF IInv, TypeOK, Position, Sending
<1>2. QED
  BY <1>1, Inductive, PTL

\* The payload is sent in order, without gaps or repetitions.
THEOREM PayloadOrdered == Spec => []PayloadInOrder
<1>1. IInv => PayloadInOrder
  BY DEF IInv, Progress, PayloadInOrder
<1>2. QED
  BY <1>1, Inductive, PTL

\* A download that succeeds has sent the whole payload.
THEOREM PayloadWhole == Spec => []PayloadComplete
<1>1. IInv => PayloadComplete
  BY DEF IInv, Progress, PayloadComplete
<1>2. QED
  BY <1>1, Inductive, PTL

\* Every piece of the payload is a multiple of 4 bytes long, and every piece of
\* the file fits the buffer of a secure-send command.
THEOREM PieceSafety == Spec => PiecesFit
<1> DEFINE Fit == /\ type = "data" /\ wire' # wire => (wire' - wire) % 4 = 0
                  /\ pc = "send" => HdrSize + 1 + (len - len') <= CmdBufSize
<1>1. IInv /\ [Next]_vars => [Fit]_vars
  <2> SUFFICES ASSUME IInv, Next PROVE Fit
    OBVIOUS
  <2>1. CASE SendPiece
    <3>1. Piece \in Nat /\ Piece <= Chunk /\ len \in Nat /\ len' = len - Piece
      BY <2>1 DEF SendPiece, Piece, Chunk, IInv, TypeOK
    <3>2. HdrSize + 1 + (len - len') <= CmdBufSize
      BY <3>1 DEF HdrSize, Chunk, CmdBufSize
    <3>3. ASSUME type = "data" PROVE (wire' - wire) % 4 = 0
      <4>1. Piece % 4 = 0
        BY <2>1, <3>3 DEF SendPiece, Piece, Chunk, IInv, TypeOK, Sending
      <4>2. wire' = wire + Piece
        BY <2>1, <3>3 DEF SendPiece, IInv, Sending
      <4>3. QED
        BY <3>1, <4>1, <4>2 DEF IInv, TypeOK
    <3>4. QED
      BY <3>2, <3>3
  <2>2. CASE ~SendPiece
    <3>1. wire' = wire /\ (pc = "send" => len' = len)
      BY <2>2 DEF Next, Step, Done, vars, SendHeader, HeaderDone, TakeCommand,
                  LookOutside, PayloadDone, SendFails, Sent, SecuredSend
    <3>2. QED
      BY <3>1 DEF HdrSize, CmdBufSize, IInv, TypeOK
  <2>3. QED
    BY <2>1, <2>2
<1>2. QED
  BY <1>1, Inductive, PTL DEF Spec, PiecesFit
=============================================================================
