--------------------------- MODULE MCGen1Patching ---------------------------
(***************************************************************************)
(* Small patch files for Gen1Patching: sequences of records like those of  *)
(* the repository's .bseq files, whole, cut short anywhere in their last   *)
(* record, without that record's events, or with a byte that is neither a  *)
(* command nor an event in its place.                                      *)
(***************************************************************************)
EXTENDS Gen1Patching, SequencesExt

CONSTANT MaxRecords

Item(kind, op, code, plen) ==
  [kind |-> kind, at |-> 0, plen |-> plen, op |-> op, code |-> code]
Command(op, plen) == Item("command", op, "complete", plen)
Event(code)       == Item("event", "config", code, 1)

Patch  == <<Command("patch", 2), Event("complete")>>
Quit   == <<Command("leave", 0), Event("complete")>>
Config == <<Command("config", 1), Event("status"), Event("vendor")>>
Silent == <<Command("config", 0)>>
Junk   == <<Item("other", "config", "complete", 3)>>

Records == {Patch, Quit, Config}
Whole == UNION {[1 .. n -> Records] : n \in 1 .. MaxRecords}
Flawed == UNION {[1 .. n -> Records \cup {Silent, Junk}] : n \in 1 .. MaxRecords - 1}

\* The same items at their offsets.
Placed(s) ==
  LET at[k \in 1 .. Len(s)] ==
        IF k = 1 THEN 0 ELSE at[k - 1] + Header(s[k - 1].kind) + s[k - 1].plen
  IN [k \in 1 .. Len(s) |-> [s[k] EXCEPT !.at = at[k]]]

Length(items) == End(items[Len(items)])

MCPatchFiles ==
  {[items |-> i, size |-> Length(i)] : i \in {Placed(FlattenSeq(w)) : w \in Whole}}
  \cup
  UNION {{[items |-> i, size |-> n] : n \in {k \in 1 .. Length(i) : k > Length(i) - 10}}
         : i \in {Placed(FlattenSeq(w)) : w \in Flawed}}
=============================================================================
