------------------------------- MODULE Parsers -------------------------------
(***************************************************************************)
(* The three walks over length-prefixed data that the driver has been      *)
(* given by a file or by the controller:                                   *)
(*                                                                         *)
(*   "ddc"   BtIntel::loadDDCConfig sends each entry of a DDC file,        *)
(*   "tlv"   IntelBluetoothOpsGen3::parseVersionTLV fills in a version     *)
(*           from the TLVs of a reply,                                     *)
(*   "boot"  IntelBluetoothOpsGen2::firmwareVersion looks for the boot     *)
(*           parameters among the commands of a firmware file.             *)
(*                                                                         *)
(* Each reads a length, does something with what it governs and goes that  *)
(* far on, until its offset is no longer below the size.  None checks that *)
(* what it reads is there: that is a property of well-made data, and what  *)
(* holds of other data is said below.                                      *)
(***************************************************************************)
EXTENDS Naturals, Sequences

CONSTANT Inputs  \* the data to walk

Walks == {"ddc", "tlv", "boot"}

\* The TLVs that are stored to one field, under the name of that field.
SingleTags == {"cnvi_top", "cnvr_top", "cnvi_bt", "cnvr_bt", "dev_rev_id", "img_type",
               "build_type", "secure_boot", "otp_lock", "api_lock", "debug_lock",
               "limited_cce", "sbe_type", "otp_bd_addr", "git_sha1"}

Tags == [ddc  |-> {"entry"},
         tlv  |-> SingleTags \cup {"timeStamp", "buildNum", "minFw", "unknown"},
         boot |-> {"writeBootParams", "otherCommand"}]

\* Bytes before the value, and the offset of the first item: the status byte of
\* a reply comes first.
Header(walk) == CASE walk = "ddc" -> 1 [] walk = "tlv" -> 2 [] walk = "boot" -> 3
Start(walk)  == IF walk = "tlv" THEN 1 ELSE 0

End(walk, i) == i.at + Header(walk) + i.len

\* The data as its items, each with its offset and the length it claims.  The
\* last one may be cut short: then memory behind the data stands in for it.
WellFormed(in) ==
  /\ in.walk \in Walks
  /\ in.items \in Seq([tag : Tags[in.walk], at : Nat, len : 0 .. 255])
  /\ in.items # <<>> /\ in.items[1].at = Start(in.walk)
  /\ \A k \in 1 .. Len(in.items) - 1 : in.items[k + 1].at = End(in.walk, in.items[k])
  /\ in.size \in Nat /\ in.size <= End(in.walk, in.items[Len(in.items)])

ASSUME ParsersAssumption == \A in \in Inputs : WellFormed(in)

\* The fields of IntelVersionTLV.
Fields == SingleTags \cup {"min_fw_build_nn", "min_fw_build_cw", "min_fw_build_yy",
                           "timestamp", "build_num"}

VARIABLES
  input,    \* what is walked
  pc,       \* "walking", or the result
  pos,      \* number of the item the pointer is at
  sent,     \* DDC: the commands sent, as ranges of the file
  held,     \* DDC: fwData is allocated
  fields,   \* TLV: the item each field was taken from, 0 if it is as before
  boot,     \* boot: the item the boot address was taken from, or 0
  reach,    \* end of what has been read
  overflow  \* more was copied than the destination holds

vars == <<input, pc, pos, sent, held, fields, boot, reach, overflow>>

walk  == input.walk
Count == Len(input.items)

\* What the pointer is at; past the last item, nothing known.
Item == IF pos <= Count THEN input.items[pos]
        ELSE [tag |-> CASE walk = "ddc" -> "entry" [] walk = "tlv" -> "unknown"
                        [] walk = "boot" -> "otherCommand",
              at |-> End(walk, input.items[Count]), len |-> 0]
At == Item.at

Init == /\ input \in Inputs
        /\ pc = "walking"
        /\ pos = 1
        /\ sent = <<>>
        /\ held = (walk = "ddc")
        /\ fields = [f \in Fields |-> 0]
        /\ boot = 0
        /\ reach = 0
        /\ overflow = FALSE

-----------------------------------------------------------------------------
(* The common part *)

\* MUTANT of AtEnd: the loop runs once more at the end of the data.
AtEndTooLate == At > input.size

AtEnd == At >= input.size

\* The loop body, in the walk it belongs to.
Body(w) == pc = "walking" /\ walk = w /\ ~AtEnd /\ UNCHANGED input

Reads(n) == reach' = IF At + n > reach THEN At + n ELSE reach

-----------------------------------------------------------------------------
(* loadDDCConfig *)

\* MUTANT of Plen: the length byte is counted twice.
PlenTwice(i) == (i.len + 2) % 256

\* The length byte goes along as the first byte of the command, whose length
\* is kept in one byte too.
Plen(i) == (i.len + 1) % 256

\* What CMD_BUF_MAX_SIZE leaves for the parameters.
Room == 253

CopyEntry == /\ Reads(IF Plen(Item) = 0 THEN 1 ELSE Plen(Item))
             /\ overflow' = (overflow \/ Plen(Item) > Room)

\* An entry is written, and the pointer moved on by that length: by nothing
\* for length 0, and such an empty command, sent again and again, is not noted.
EntryWritten ==
  /\ Body("ddc")
  /\ CopyEntry
  /\ sent' = IF Plen(Item) = 0 THEN sent
             ELSE Append(sent, [from |-> At, length |-> Plen(Item)])
  /\ pos' = IF Plen(Item) = 0 THEN pos ELSE pos + 1
  /\ UNCHANGED <<pc, held, fields, boot>>

\* MUTANT of EntryFails: the next entry is tried.
EntryFailsSkipped ==
  /\ Body("ddc")
  /\ CopyEntry
  /\ pos' = IF Plen(Item) = 0 THEN pos ELSE pos + 1
  /\ UNCHANGED <<pc, sent, held, fields, boot>>

\* The file is not released when an entry fails.
EntryFails ==
  /\ Body("ddc")
  /\ CopyEntry
  /\ pc' = "failed"
  /\ UNCHANGED <<pos, sent, held, fields, boot>>

-----------------------------------------------------------------------------
(* parseVersionTLV *)

\* The fields a TLV is stored to and the bytes of its value that are read,
\* whatever length it claims.
Stores == [tag \in Tags.tlv |->
             CASE tag = "timeStamp" -> {"min_fw_build_cw", "min_fw_build_yy", "timestamp"}
               [] tag = "buildNum"  -> {"min_fw_build_nn", "build_num"}
               [] tag = "minFw"     -> {"min_fw_build_nn", "min_fw_build_cw", "min_fw_build_yy"}
               [] tag = "unknown"   -> {}
               [] OTHER             -> {tag}]
Width(i) == CASE i.tag \in {"cnvi_top", "cnvr_top", "cnvi_bt", "cnvr_bt", "buildNum", "git_sha1"} -> 4
              [] i.tag = "minFw"                     -> 3
              [] i.tag \in {"timeStamp", "dev_rev_id"} -> 2
              [] i.tag = "otp_bd_addr"               -> i.len
              [] i.tag = "unknown"                   -> 0
              [] OTHER                               -> 1

\* MUTANT of Store: the first of several TLVs counts.
StoreFirst(f) == IF f \in Stores[Item.tag] /\ fields[f] = 0 THEN pos ELSE fields[f]

Store(f) == IF f \in Stores[Item.tag] THEN pos ELSE fields[f]

\* The Bluetooth address is copied with the length the TLV claims.
TakeTlv ==
  /\ Body("tlv")
  /\ Reads(2 + Width(Item))
  /\ fields' = [f \in Fields |-> Store(f)]
  /\ overflow' = (overflow \/ (Item.tag = "otp_bd_addr" /\ Item.len > 6))
  /\ pos' = pos + 1
  /\ UNCHANGED <<pc, sent, held, boot>>

-----------------------------------------------------------------------------
(* firmwareVersion *)

\* MUTANT of SkipCommand: the pointer stays.
SkipCommandNot ==
  /\ Body("boot")
  /\ Item.tag # "writeBootParams"
  /\ Reads(3)
  /\ UNCHANGED <<pc, pos, sent, held, fields, boot, overflow>>

SkipCommand ==
  /\ Body("boot")
  /\ Item.tag # "writeBootParams"
  /\ Reads(3)
  /\ pos' = pos + 1
  /\ UNCHANGED <<pc, sent, held, fields, boot, overflow>>

\* The boot address and the build of the file, seven bytes, are taken from the
\* first such command.
FindParams ==
  /\ Body("boot")
  /\ Item.tag = "writeBootParams"
  /\ Reads(3 + 7)
  /\ boot' = pos
  /\ pc' = "succeeded"
  /\ UNCHANGED <<pos, sent, held, fields, overflow>>

-----------------------------------------------------------------------------

\* The end of the data: what firmwareVersion looks for is not there.
Finish == /\ pc = "walking"
          /\ AtEnd
          /\ pc' = IF walk = "boot" THEN "failed" ELSE "succeeded"
          /\ held' = FALSE
          /\ UNCHANGED <<input, pos, sent, fields, boot, reach, overflow>>

Advance == EntryWritten \/ TakeTlv \/ SkipCommand \/ FindParams \/ Finish
Step    == Advance \/ EntryFails

Done == pc # "walking" /\ UNCHANGED vars

Next == Step \/ Done

\* The loops go on; nothing says that a command ever fails.
Spec == Init /\ [][Next]_vars /\ WF_vars(Advance)

-----------------------------------------------------------------------------
(* Properties *)

\* Every variable stays in its range.
TypeOK == /\ WellFormed(input)
          /\ pc \in {"walking", "succeeded", "failed"}
          /\ pos \in 1 .. Count + 1
          /\ sent \in Seq([from : Nat, length : 0 .. 255])
          /\ held \in BOOLEAN
          /\ fields \in [Fields -> 0 .. Count]
          /\ boot \in 0 .. Count
          /\ reach \in Nat
          /\ overflow \in BOOLEAN

\* The items that begin inside the data, and those of them already looked at.
Reached  == {k \in DOMAIN input.items : input.items[k].at < input.size}
Examined == {k \in Reached : k < pos \/ (k = pos /\ pc # "walking")}

\* The bytes from its first on that an item must have behind it, and whether its
\* value has room in what it is copied to: the command of an entry, the address
\* at the end of the version.
Needs(i) == CASE walk = "ddc"  -> IF i.len = 255 THEN 1 ELSE 1 + i.len
              [] walk = "tlv"  -> 2 + Width(i)
              [] walk = "boot" -> IF i.tag = "writeBootParams" THEN 3 + 7 ELSE 3
Fits(i)  == CASE walk = "ddc"  -> i.len \notin {253, 254}
              [] walk = "tlv"  -> i.tag = "otp_bd_addr" => i.len <= 6
              [] walk = "boot" -> TRUE

\* Exactly which data is read past its end, or copied past the end of a buffer:
\* that of which an item looked at wants more bytes than there are behind its
\* first, or has a value longer than its room.  No other item of the data and no
\* length an item claims for itself makes a difference.
StaysInside ==
  /\ reach > input.size <=> \E k \in Examined : input.items[k].at + Needs(input.items[k]) > input.size
  /\ overflow <=> \E k \in Examined : ~Fits(input.items[k])

\* A DDC file counts as loaded only when each of its entries has been written,
\* once and in order, none before the one it follows, and it is released then.
WrittenUpTo(offset) ==
  /\ \A k \in DOMAIN sent : sent[k].from = IF k = 1 THEN 0 ELSE sent[k - 1].from + sent[k - 1].length
  /\ offset = IF sent = <<>> THEN 0 ELSE sent[Len(sent)].from + sent[Len(sent)].length
LoadedWhole == walk = "ddc" =>
                 /\ WrittenUpTo(At)
                 /\ pc = "succeeded" => At >= input.size /\ ~held

\* The result is that of looking at the items all at once: of several TLVs that
\* store a field the last counts, of several boot parameters the first.  So
\* when a reply has its TLVs in the order of their types, the build to compare
\* with that of the file is the one of MIN_FW, if there is one.
Extreme(S, Better(_, _)) ==
  IF S = {} THEN 0 ELSE CHOOSE k \in S : \A j \in S : j = k \/ Better(k, j)
MinFwLast == \A j, k \in Reached :
  input.items[j].tag = "minFw" /\ input.items[k].tag \in {"timeStamp", "buildNum"} => k < j
LooksRight == pc # "walking" =>
  CASE walk = "tlv" ->
         /\ \A f \in Fields :
              fields[f] = Extreme({k \in Reached : f \in Stores[input.items[k].tag]},
                                  LAMBDA a, b : a > b)
         /\ MinFwLast /\ (\E k \in Reached : input.items[k].tag = "minFw") =>
              /\ fields["min_fw_build_nn"] = fields["min_fw_build_cw"]
              /\ fields["min_fw_build_nn"] = fields["min_fw_build_yy"]
    [] walk = "boot" ->
         boot = Extreme({k \in Reached : input.items[k].tag = "writeBootParams"},
                        LAMBDA a, b : a < b)
    [] walk = "ddc" -> TRUE

\* Every walk ends, unless it comes to a DDC entry of length 255: its command has
\* length 0, and the pointer stays where it is for as long as the command does
\* not fail.
WalkEnds == <>[](pc # "walking" \/ (walk = "ddc" /\ ~AtEnd /\ Item.len = 255))
=============================================================================
