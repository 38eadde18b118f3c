------------------------------ MODULE MCParsers ------------------------------
(***************************************************************************)
(* Small data for Parsers: up to MaxItems items with lengths around those  *)
(* that matter, whole or cut at every place in the header of the last item *)
(* and at the ends of its value.                                           *)
(***************************************************************************)
EXTENDS Parsers

CONSTANT MaxItems

Item0(tag, len) == [tag |-> tag, at |-> 0, len |-> len]

\* The lengths around those of the fields, of a command and of one byte.
Choices == [ddc  |-> {Item0("entry", l) : l \in {0, 1, 2, 252, 253, 254, 255}},
            tlv  |-> {Item0(t, l) : t \in Tags.tlv, l \in {0, 4}}
                    \cup {Item0("otp_bd_addr", l) : l \in {6, 7}},
            boot |-> {Item0(t, l) : t \in Tags.boot, l \in {0, 6, 7, 255}}]

\* Longer replies, of those TLVs that share fields.
Shared == {Item0(t, 4) : t \in {"timeStamp", "buildNum", "minFw"}}

Lists(w) == UNION {[1 .. n -> Choices[w]] : n \in 1 .. MaxItems}
            \cup (IF w = "tlv" THEN UNION {[1 .. n -> Shared] : n \in 3 .. 4} ELSE {})

\* The same items at their offsets.
Placed(w, s) ==
  LET at[k \in 1 .. Len(s)] == IF k = 1 THEN Start(w)
                               ELSE at[k - 1] + Header(w) + s[k - 1].len
  IN [k \in 1 .. Len(s) |-> [s[k] EXCEPT !.at = at[k]]]

Sizes(w, items) ==
  LET l == items[Len(items)] IN
  {n \in l.at .. End(w, l) : n <= l.at + Header(w) + 1 \/ n >= End(w, l) - 1}

MCInputs == UNION {UNION {{[walk |-> w, items |-> i, size |-> n] : n \in Sizes(w, i)}
                          : i \in {Placed(w, s) : s \in Lists(w)}} : w \in Walks}
=============================================================================
