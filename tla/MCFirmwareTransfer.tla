------------------------- MODULE MCFirmwareTransfer -------------------------
(* Small firmware files: up to MaxCommands commands, with parameter lengths *)
(* around the alignment and around the limits of a secure-send piece.       *)
EXTENDS FirmwareTransfer, FiniteSets

CONSTANTS MaxCommands, ParamLengths

\* Offset of the i-th command of a sequence of parameter lengths.
Offset(start, s, i) ==
  LET at[k \in 1 .. Len(s) + 1] ==
        IF k = 1 THEN start ELSE at[k - 1] + HdrSize + s[k - 1]
  IN at[i]

MCFile(engine, start, s) ==
  LET at(i) == Offset(start, s, i)
      starts == {at(i) : i \in 1 .. Len(s)}
  IN [engine |-> engine, payload |-> start, length |-> at(Len(s) + 1),
      next |-> [o \in starts |-> at(1 + CHOOSE i \in 1 .. Len(s) : at(i) = o)]]

MCFiles ==
  {MCFile(h[1], h[2], s) :
     h \in {<<"rsa", 644>>, <<"rsa", 964>>, <<"ecdsa", 964>>},
     s \in UNION {[1 .. n -> ParamLengths] : n \in 0 .. MaxCommands}}
=============================================================================
