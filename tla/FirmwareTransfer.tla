-------------------------- MODULE FirmwareTransfer --------------------------
(***************************************************************************)
(* Sending a firmware file to the bootloader: rsaHeaderSecureSend or       *)
(* ecdsaHeaderSecureSend, then downloadFirmwarePayload, all of them by way *)
(* of securedSend, which cuts what it is given into secure-send commands.  *)
(*                                                                         *)
(* A file is seen as the offsets at which its commands begin.  What is to  *)
(* be shown is that two nested loops, one walking over commands and one    *)
(* cutting runs of commands into pieces, send the payload completely, in   *)
(* order, in aligned pieces, and look outside the file only when its       *)
(* commands do not align.                                                  *)
(***************************************************************************)
EXTENDS Integers, Sequences

CONSTANT Files  \* firmware files, described below

\* The fragment length of a secure-send command, the size of a command header,
\* and that of the buffer in which a command is put together.
Chunk      == 252
HdrSize    == 3
CmdBufSize == 256

\* The parts of the header, sent one after the other.
Segment(t, o, n) == [type |-> t, first |-> o, len |-> n]
Segments(engine) ==
  IF engine = "rsa"
  THEN <<Segment("init", 0, 128), Segment("pkey", 128, 256), Segment("sign", 388, 256)>>
  ELSE <<Segment("init", 644, 128), Segment("pkey", 772, 96), Segment("sign", 868, 96)>>

\* A file: the engine its header is for, the offset of its payload, its length,
\* and for each offset at which a command begins the offset at which it ends.
\* The last command ends where the file does.
WellFormed(f) ==
  LET starts == DOMAIN f.next IN
  /\ f.engine \in {"rsa", "ecdsa"}
  /\ f.payload \in IF f.engine = "rsa" THEN {644, 964} ELSE {964}
  /\ f.length \in Nat
  /\ f.payload \in starts \cup {f.length}
  /\ starts \subseteq f.payload .. f.length - 1
  /\ \A o \in starts : f.next[o] \in starts \cup {f.length} /\ f.next[o] >= o + HdrSize

\* Intel_NOP commands align the whole payload, as "it happens".
Padded(f) == (f.length - f.payload) % 4 = 0

ASSUME FilesWellFormed == \A f \in Files : WellFormed(f)

VARIABLES
  file,     \* the file being sent
  pc,       \* "header", "payload", "send" (in securedSend), "done", "failed",
            \* or "outside": a command is looked for where the file has none
  segment,  \* number of header parts handed to securedSend
  fw_ptr,   \* downloadFirmwarePayload: start of the run of commands
  frag_len, \* its length so far
  type,     \* securedSend: the fragment type,
  fragment, \* the first byte it still has to send,
  len,      \* and how many
  wire,     \* history: the end of the payload sent
  inOrder   \* history: every piece began where the one before it ended

vars == <<file, pc, segment, fw_ptr, frag_len, type, fragment, len, wire, inOrder>>

Init == /\ file \in Files
        /\ pc = "header"
        /\ segment = 0
        /\ fw_ptr = file.payload
        /\ frag_len = 0
        /\ type = "init"
        /\ fragment = 0
        /\ len = 0
        /\ wire = file.payload
        /\ inOrder = TRUE

\* Calling securedSend.
SecuredSend(t, n, first) == /\ pc' = "send"
                            /\ type' = t
                            /\ len' = n
                            /\ fragment' = first
                            /\ UNCHANGED <<file, wire, inOrder>>

SendHeader == /\ pc = "header"
              /\ segment < 3
              /\ segment' = segment + 1
              /\ LET s == Segments(file.engine)[segment']
                 IN SecuredSend(s.type, s.len, s.first)
              /\ UNCHANGED <<fw_ptr, frag_len>>

HeaderDone == /\ pc = "header"
              /\ segment = 3
              /\ pc' = "payload"
              /\ UNCHANGED <<file, segment, fw_ptr, frag_len, type, fragment, len, wire, inOrder>>

\* MUTANT of RunLength: the command header is not counted.
RunLengthNoHdr(o) == file.next[o] - fw_ptr - HdrSize

\* Length of the run of commands from fw_ptr to the end of the one at o.
RunLength(o) == file.next[o] - fw_ptr

\* MUTANT of EndsRun: every command is sent on its own.
EndsRunAlways(n) == n > 0

\* A run is sent as soon as it is a multiple of 4 bytes long.
EndsRun(n) == n % 4 = 0

\* One turn of the loop: take the next command in, and send the run if aligned.
TakeCommand == /\ pc = "payload"
               /\ fw_ptr < file.length
               /\ fw_ptr + frag_len \in DOMAIN file.next
               /\ frag_len' = RunLength(fw_ptr + frag_len)
               /\ IF EndsRun(frag_len')
                  THEN SecuredSend("data", frag_len', fw_ptr)
                  ELSE UNCHANGED <<file, pc, type, fragment, len, wire, inOrder>>
               /\ UNCHANGED <<segment, fw_ptr>>

\* Only fw_ptr is compared with the length.  What comes of a header that is not
\* one of the file depends on what it is taken from and ends the model.
LookOutside == /\ pc = "payload"
               /\ fw_ptr < file.length
               /\ fw_ptr + frag_len \notin DOMAIN file.next
               /\ pc' = "outside"
               /\ UNCHANGED <<file, segment, fw_ptr, frag_len, type, fragment, len, wire, inOrder>>

\* MUTANT of PayloadDone: a last command without parameters is forgotten.
PayloadDoneEarly ==
  /\ pc = "payload"
  /\ fw_ptr + HdrSize + 1 >= file.length
  /\ pc' = "done"
  /\ UNCHANGED <<file, segment, fw_ptr, frag_len, type, fragment, len, wire, inOrder>>

PayloadDone == /\ pc = "payload"
               /\ fw_ptr >= file.length
               /\ pc' = "done"
               /\ UNCHANGED <<file, segment, fw_ptr, frag_len, type, fragment, len, wire, inOrder>>

\* MUTANT of Piece: as much as the buffer holds, without the header.
PieceTooLong == IF len > CmdBufSize THEN CmdBufSize ELSE len

\* MUTANT of Piece: every piece is a full one.
PieceFull == Chunk

\* Length of the next piece.
Piece == IF len > Chunk THEN Chunk ELSE len

\* MUTANT of SendPiece: the pointer is moved by a full piece.
SendPieceStride == /\ pc = "send"
                   /\ len > 0
                   /\ len' = len - Piece
                   /\ fragment' = fragment + Chunk
                   /\ UNCHANGED <<file, pc, segment, fw_ptr, frag_len, type, wire, inOrder>>

\* MUTANT of SendPiece: the pointer is not moved on.
SendPieceSame == /\ pc = "send"
                 /\ len > 0
                 /\ len' = len - Piece
                 /\ IF type = "data" THEN /\ inOrder' = (inOrder /\ fragment = wire)
                                          /\ wire' = fragment + Piece
                                     ELSE UNCHANGED <<wire, inOrder>>
                 /\ UNCHANGED <<file, pc, segment, fw_ptr, frag_len, type, fragment>>

\* One secure-send command, acknowledged.
SendPiece == /\ pc = "send"
             /\ len > 0
             /\ len' = len - Piece
             /\ fragment' = fragment + Piece
             /\ IF type = "data" THEN /\ inOrder' = (inOrder /\ fragment = wire)
                                      /\ wire' = fragment + Piece
                                 ELSE UNCHANGED <<wire, inOrder>>
             /\ UNCHANGED <<file, pc, segment, fw_ptr, frag_len, type>>

\* One that is not: everything is given up.
SendFails == /\ pc = "send"
             /\ len > 0
             /\ pc' = "failed"
             /\ UNCHANGED <<file, segment, fw_ptr, frag_len, type, fragment, len, wire, inOrder>>

\* MUTANT of Sent: fw_ptr stays where it is.
SentInPlace == /\ pc = "send"
               /\ len = 0
               /\ pc' = IF type = "data" THEN "payload" ELSE "header"
               /\ frag_len' = 0
               /\ UNCHANGED <<file, segment, fw_ptr, type, fragment, len, wire, inOrder>>

\* securedSend returns to the header or to the payload loop.
Sent == /\ pc = "send"
        /\ len = 0
        /\ IF type = "data"
           THEN /\ pc' = "payload"
                /\ fw_ptr' = fw_ptr + frag_len
                /\ frag_len' = 0
           ELSE pc' = "header" /\ UNCHANGED <<fw_ptr, frag_len>>
        /\ UNCHANGED <<file, segment, type, fragment, len, wire, inOrder>>

Step == \/ SendHeader \/ HeaderDone \/ TakeCommand \/ LookOutside \/ PayloadDone
        \/ SendPiece \/ SendFails \/ Sent

Ended == {"done", "failed", "outside"}

Done == pc \in Ended /\ UNCHANGED vars

Next == Step \/ Done

Spec == Init /\ [][Next]_vars /\ WF_vars(Step)

-----------------------------------------------------------------------------
(* Properties *)

\* Every variable stays in its range.
TypeOK == /\ WellFormed(file)
          /\ pc \in Ended \cup {"header", "payload", "send"}
          /\ segment \in 0 .. 3
          /\ fw_ptr \in Nat
          /\ frag_len \in Nat
          /\ type \in {"init", "pkey", "sign", "data"}
          /\ fragment \in Nat
          /\ len \in Nat
          /\ wire \in Nat
          /\ inOrder \in BOOLEAN

\* The payload loop looks for a command where there is none only if the payload
\* is not padded to a multiple of 4 bytes, although nothing but fw_ptr is
\* compared with the length; and then it never comes to its end.
ScanInStep == /\ pc = "outside" => ~Padded(file)
              /\ pc = "done" => Padded(file)

\* securedSend only copies bytes of the file.
SendInFile == pc = "send" => fragment + len <= file.length

\* No byte of the payload is skipped, repeated or sent out of order ...
PayloadInOrder == inOrder

\* ... and a successful download has sent all of it.
PayloadComplete == pc = "done" => wire = file.length

\* "The parameter length of the secure send command requires a 4 byte
\* alignment": every single piece of the payload is aligned, cut or not, and
\* every piece fits the buffer behind the command's header and its type byte.
PiecesFit == [][/\ type = "data" /\ wire' # wire => (wire' - wire) % 4 = 0
                /\ pc = "send" => HdrSize + 1 + (len - len') <= CmdBufSize]_vars

\* The download comes to an end.
Ends == <>(pc \in Ended)
=============================================================================
