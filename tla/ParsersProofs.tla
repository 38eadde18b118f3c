---------------------------- MODULE ParsersProofs ----------------------------
(***************************************************************************)
(* Proofs about Parsers, for all data.                                     *)
(*                                                                         *)
(* The items of the data lie one behind the other, so those the walk has   *)
(* passed are those before its offset (Passed).  For each field the walk   *)
(* of a reply holds the last TLV so far that stores it (Latest).           *)
(***************************************************************************)
EXTENDS Parsers, SequenceLemmas

-----------------------------------------------------------------------------
(* The invariant *)

\* The items passed begin inside the data.
Passed == \A k \in DOMAIN input.items : k < pos => input.items[k].at < input.size

\* Nothing ends at the end of the data but is not there yet.
Ends ==
  /\ pc = "succeeded" /\ walk # "boot" => AtEnd
  /\ pc = "failed" => walk = "ddc" \/ (walk = "boot" /\ AtEnd)

\* Of the TLVs passed that store a field the last one counts.
Latest ==
  walk = "tlv" =>
    \A f \in Fields :
      /\ fields[f] < pos
      /\ fields[f] # 0 => f \in Stores[input.items[fields[f]].tag]
      /\ \A k \in DOMAIN input.items :
           fields[f] < k /\ k < pos => f \notin Stores[input.items[k].tag]

\* No boot parameters were passed, and those found are at the pointer.
FirstParams ==
  walk = "boot" =>
    /\ \A k \in DOMAIN input.items : k < pos => input.items[k].tag # "writeBootParams"
    /\ IF pc = "succeeded" THEN /\ boot = pos /\ pos \in DOMAIN input.items
                                /\ input.items[pos].tag = "writeBootParams" /\ ~AtEnd
       ELSE boot = 0

IInv == TypeOK /\ Passed /\ Ends /\ Latest /\ FirstParams /\ LoadedWhole /\ StaysInside

-----------------------------------------------------------------------------
(* Data *)

\* The items of the data are numbered from 1 and lie where they say.
LEMMA ItemsOf ==
  ASSUME NEW in, WellFormed(in)
  PROVE  /\ in.walk \in Walks
         /\ Len(in.items) \in Nat \ {0}
         /\ DOMAIN in.items = 1 .. Len(in.items)
         /\ in.size \in Nat
         /\ \A k \in DOMAIN in.items :
              /\ in.items[k].tag \in Tags[in.walk]
              /\ in.items[k].at \in Nat
              /\ in.items[k].len \in 0 .. 255
              /\ End(in.walk, in.items[k]) = in.items[k].at + Header(in.walk) + in.items[k].len
              /\ End(in.walk, in.items[k]) \in Nat
              /\ in.items[k].at < End(in.walk, in.items[k])
<1>1. in.items \in Seq([tag : Tags[in.walk], at : Nat, len : 0 .. 255]) /\ in.items # <<>>
      /\ in.walk \in Walks /\ in.size \in Nat
  BY DEF WellFormed
<1>2. Len(in.items) \in Nat \ {0} /\ DOMAIN in.items = 1 .. Len(in.items)
  BY <1>1, EmptySeq
<1>3. Header(in.walk) \in 1 .. 3
  BY <1>1 DEF Header, Walks
<1>4. ASSUME NEW k \in DOMAIN in.items
      PROVE  /\ in.items[k].tag \in Tags[in.walk]
             /\ in.items[k].at \in Nat
             /\ in.items[k].len \in 0 .. 255
  <2>1. k \in 1 .. Len(in.items)
    BY <1>2
  <2>2. in.items[k] \in [tag : Tags[in.walk], at : Nat, len : 0 .. 255]
    BY <1>1, <2>1, ElementOfSeq
  <2>3. QED
    BY <2>2
<1>5. ASSUME NEW k \in DOMAIN in.items
      PROVE  /\ End(in.walk, in.items[k]) = in.items[k].at + Header(in.walk) + in.items[k].len
             /\ End(in.walk, in.items[k]) \in Nat
             /\ in.items[k].at < End(in.walk, in.items[k])
  <2>1. End(in.walk, in.items[k]) = in.items[k].at + Header(in.walk) + in.items[k].len
    BY DEF End
  <2>2. in.items[k].at \in Nat /\ in.items[k].len \in 0 .. 255
    BY <1>4
  <2>3. \A a \in Nat, h \in 1 .. 3, l \in 0 .. 255 : a + h + l \in Nat /\ a < a + h + l
    OBVIOUS
  <2>4. QED
    BY <1>3, <2>1, <2>2, <2>3
<1>6. QED
  BY <1>1, <1>2, <1>4, <1>5

\* A later item begins where an earlier one has ended.
LEMMA Ascending ==
  ASSUME NEW in, WellFormed(in), NEW j \in DOMAIN in.items, NEW k \in DOMAIN in.items, j < k
  PROVE  End(in.walk, in.items[j]) <= in.items[k].at
<1> DEFINE T == {n \in 1 .. Len(in.items) : j < n /\ ~ (End(in.walk, in.items[j]) <= in.items[n].at)}
<1>1. Len(in.items) \in Nat /\ DOMAIN in.items = 1 .. Len(in.items)
  BY ItemsOf
<1>2. \A n \in 1 .. Len(in.items) : /\ in.items[n].at \in Nat
                                    /\ End(in.walk, in.items[n]) \in Nat
                                    /\ in.items[n].at < End(in.walk, in.items[n])
  BY <1>1, ItemsOf
<1>3. ASSUME NEW n \in T, \A m \in T : n <= m
      PROVE  FALSE
  <2>1. n \in 1 .. Len(in.items) /\ j < n /\ ~ (End(in.walk, in.items[j]) <= in.items[n].at)
    OBVIOUS
  <2>2. n - 1 \in 1 .. Len(in.items) - 1 /\ n - 1 + 1 = n
    BY <1>1, <2>1
  <2>3. in.items[n].at = End(in.walk, in.items[n - 1])
    BY <2>2 DEF WellFormed
  <2>4. CASE n - 1 = j
    BY <1>1, <1>2, <2>1, <2>3, <2>4
  <2>5. CASE n - 1 # j
    <3>1. n - 1 \notin T
      BY <1>1, <1>3, <2>1
    <3>2. End(in.walk, in.items[j]) <= in.items[n - 1].at
      BY <1>1, <2>1, <2>2, <2>5, <3>1
    <3>3. n - 1 \in 1 .. Len(in.items) /\ j \in 1 .. Len(in.items)
      BY <1>1, <2>2
    <3>4. in.items[n - 1].at < in.items[n].at
      BY <1>2, <2>3, <3>3
    <3>5. /\ End(in.walk, in.items[j]) \in Nat
          /\ in.items[n - 1].at \in Nat
          /\ in.items[n].at \in Nat
      BY <1>2, <2>1, <3>3
    <3>6. End(in.walk, in.items[j]) <= in.items[n].at
      BY <3>2, <3>4, <3>5
    <3>7. QED
      BY <2>1, <3>6
  <2>6. QED
    BY <2>4, <2>5
<1>4. T \subseteq Nat
  BY <1>1
<1>5. T = {}
  BY <1>3, <1>4, LeastElement
<1>6. QED
  BY <1>1, <1>5

\* Where the pointer is.
LEMMA ItemFacts ==
  ASSUME TypeOK
  PROVE  /\ walk \in Walks /\ Count \in Nat \ {0} /\ DOMAIN input.items = 1 .. Count
         /\ At \in Nat /\ input.size \in Nat
         /\ pos \in DOMAIN input.items => Item = input.items[pos] /\ pos + 1 \in 1 .. Count + 1
         /\ pos \notin DOMAIN input.items => AtEnd /\ pos = Count + 1
         /\ ~AtEnd => pos \in DOMAIN input.items /\ At < input.size
<1>1. /\ WellFormed(input) /\ pos \in 1 .. Count + 1
      /\ walk \in Walks /\ Count \in Nat \ {0} /\ DOMAIN input.items = 1 .. Count
      /\ input.size \in Nat /\ Len(input.items) = Count
  BY ItemsOf DEF TypeOK, walk, Count
<1>2. CASE pos \in DOMAIN input.items
  <2>1. Item = input.items[pos] /\ pos + 1 \in 1 .. Count + 1
    BY <1>1, <1>2 DEF Item
  <2>2. At = input.items[pos].at /\ At \in Nat
    BY <1>1, <1>2, <2>1, ItemsOf DEF At
  <2>3. QED
    BY <1>1, <1>2, <2>1, <2>2 DEF AtEnd
<1>3. CASE pos \notin DOMAIN input.items
  <2>1. pos = Count + 1 /\ Count \in DOMAIN input.items
    BY <1>1, <1>3
  <2>2. At = End(walk, input.items[Count])
    BY <1>1, <2>1 DEF At, Item
  <2>3. End(walk, input.items[Count]) \in Nat
    BY <1>1, <2>1, ItemsOf DEF walk
  <2>4. input.size <= End(walk, input.items[Count])
    BY <1>1 DEF WellFormed, walk
  <2>5. QED
    BY <1>1, <1>3, <2>1, <2>2, <2>3, <2>4 DEF AtEnd
<1>4. QED
  BY <1>2, <1>3

\* One item on, the offset is the end of this item.
LEMMA OneItemOn ==
  ASSUME TypeOK, ~AtEnd, pos' = pos + 1, input' = input
  PROVE  At' = End(walk, Item) /\ End(walk, Item) = At + Header(walk) + Item.len
<1>1. /\ WellFormed(input) /\ pos \in 1 .. Count /\ Count \in Nat \ {0}
      /\ Item = input.items[pos] /\ Len(input.items) = Count
  BY ItemFacts DEF TypeOK, Count
<1>2. End(walk, Item) = At + Header(walk) + Item.len
  BY DEF End, At
<1>3. Count' = Count /\ walk' = walk
  BY DEF Count, walk
<1>4. CASE pos < Count
  <2>1. pos + 1 <= Count /\ pos \in 1 .. Len(input.items) - 1
    BY <1>1, <1>4
  <2>2. Item' = input.items[pos + 1]
    BY <1>3, <2>1 DEF Item
  <2>3. input.items[pos + 1].at = End(input.walk, input.items[pos])
    BY <1>1, <2>1 DEF WellFormed
  <2>4. QED
    BY <1>1, <1>2, <2>2, <2>3 DEF At, walk
<1>5. CASE pos = Count
  <2>1. ~ (pos + 1 <= Count)
    BY <1>1, <1>5
  <2>2. Item'.at = End(walk, input.items[Count])
    BY <1>3, <2>1 DEF Item
  <2>3. QED
    BY <1>1, <1>2, <1>5, <2>2 DEF At
<1>6. QED
  BY <1>1, <1>4, <1>5


-----------------------------------------------------------------------------
(* One step and one part of the invariant at a time *)

\* The offset, and how far the data was read, are numbers.
LEMMA ReadsType ==
  ASSUME TypeOK, NEW n \in Nat, Reads(n)
  PROVE  reach' \in Nat /\ (reach' = reach \/ reach' = At + n)
  BY ItemFacts DEF Reads, TypeOK

\* A length kept in one byte.
LEMMA PlenByte ==
  ASSUME TypeOK, walk = "ddc", ~AtEnd
  PROVE  /\ Plen(Item) \in 0 .. 255
         /\ Plen(Item) = IF Item.len = 255 THEN 0 ELSE Item.len + 1
         /\ Plen(Item) # 0 => Plen(Item) = Item.len + 1
         /\ Plen(Item) # 0 => End(walk, Item) = At + Plen(Item)
<1>1. Item.len \in 0 .. 255 /\ At \in Nat
  BY ItemFacts, ItemsOf DEF TypeOK
<1>2. Plen(Item) = IF Item.len = 255 THEN 0 ELSE Item.len + 1
  <2>1. \A l \in 0 .. 255 : (l + 1) % 256 = IF l = 255 THEN 0 ELSE l + 1
    OBVIOUS
  <2>2. QED
    BY <1>1, <2>1 DEF Plen
<1>3. End(walk, Item) = At + 1 + Item.len
  BY DEF End, Header, At
<1>4. QED
  BY <1>1, <1>2, <1>3

\* The bytes read of a value.
LEMMA WidthType ==
  ASSUME TypeOK, walk = "tlv", ~AtEnd
  PROVE  Width(Item) \in Nat /\ Item.tag \in Tags.tlv /\ Item.len \in 0 .. 255
<1>1. Item.tag \in Tags.tlv /\ Item.len \in 0 .. 255
  BY ItemFacts, ItemsOf, ZenonT(40) DEF TypeOK, walk, Tags
<1>2. QED
  BY <1>1 DEF Width, Tags

\* The variables stay in their ranges.
LEMMA StepTypeOK == TypeOK /\ [Next]_vars => TypeOK'
<1> SUFFICES ASSUME TypeOK, [Next]_vars PROVE TypeOK'
  OBVIOUS
<1>1. CASE EntryWritten
  <2>1. ~AtEnd /\ walk = "ddc" /\ UNCHANGED <<input, pc, held, fields, boot>>
    BY <1>1 DEF EntryWritten, Body
  <2>2. Plen(Item) \in 0 .. 255 /\ At \in Nat
    BY <2>1, PlenByte, ItemFacts
  <2>3. sent' \in Seq([from : Nat, length : 0 .. 255])
    <3>1. sent \in Seq([from : Nat, length : 0 .. 255])
      BY DEF TypeOK
    <3>2. Append(sent, [from |-> At, length |-> Plen(Item)]) \in Seq([from : Nat, length : 0 .. 255])
      BY <2>2, <3>1, AppendProperties
    <3>3. QED
      BY <1>1, <3>1, <3>2 DEF EntryWritten
  <2>4. pos' \in 1 .. Count + 1
    BY <1>1, <2>1, ItemFacts DEF EntryWritten, TypeOK
  <2>5. reach' \in Nat
    <3> DEFINE n == IF Plen(Item) = 0 THEN 1 ELSE Plen(Item)
    <3>1. n \in Nat
      BY <2>2
    <3>2. Reads(n)
      BY <1>1, Zenon DEF EntryWritten, CopyEntry
    <3> HIDE DEF n
    <3>3. QED
      BY <3>1, <3>2, ReadsType
  <2>6. overflow' \in BOOLEAN
    BY <1>1, Zenon DEF EntryWritten, CopyEntry, TypeOK
  <2>7. QED
    BY <2>1, <2>3, <2>4, <2>5, <2>6 DEF TypeOK, Count
<1>2. CASE EntryFails
  <2>1. ~AtEnd /\ walk = "ddc" /\ pc' = "failed" /\ UNCHANGED <<input, pos, sent, held, fields, boot>>
    BY <1>2 DEF EntryFails, Body
  <2>2. Plen(Item) \in 0 .. 255
    BY <2>1, PlenByte
  <2>3. reach' \in Nat
    BY <1>2, <2>2, ReadsType DEF EntryFails, CopyEntry
  <2>4. overflow' \in BOOLEAN
    BY <1>2, Zenon DEF EntryFails, CopyEntry, TypeOK
  <2>5. QED
    BY <2>1, <2>3, <2>4 DEF TypeOK, Count
<1>3. CASE TakeTlv
  <2>1. ~AtEnd /\ walk = "tlv" /\ pos' = pos + 1 /\ UNCHANGED <<input, pc, sent, held, boot>>
    BY <1>3 DEF TakeTlv, Body
  <2>2. pos' \in 1 .. Count + 1 /\ pos \in 0 .. Count
    BY <2>1, ItemFacts DEF TypeOK
  <2>3. reach' \in Nat
    BY <1>3, <2>1, WidthType, ReadsType DEF TakeTlv
  <2>4. overflow' \in BOOLEAN
    BY <1>3, Zenon DEF TakeTlv, TypeOK
  <2>5. fields' \in [Fields -> 0 .. Count]
    BY <1>3, <2>2 DEF TakeTlv, TypeOK, Store
  <2>6. QED
    BY <2>1, <2>2, <2>3, <2>4, <2>5 DEF TypeOK, Count
<1>4. CASE SkipCommand
  BY <1>4, ItemFacts, ReadsType DEF SkipCommand, Body, TypeOK, Count, walk
<1>5. CASE FindParams
  BY <1>5, ItemFacts, ReadsType DEF FindParams, Body, TypeOK, Count, walk
<1>6. CASE Finish
  BY <1>6 DEF Finish, TypeOK, Count, walk
<1>7. CASE Done
  BY <1>7 DEF Done, vars, TypeOK, Count, walk
<1>8. CASE UNCHANGED vars
  BY <1>8 DEF vars, TypeOK, Count, walk
<1>9. QED
  BY <1>1, <1>2, <1>3, <1>4, <1>5, <1>6, <1>7, <1>8 DEF Next, Step, Advance

\* The items passed begin inside the data.
LEMMA StepPassed == TypeOK /\ Passed /\ [Next]_vars => Passed'
<1> SUFFICES ASSUME TypeOK, Passed, [Next]_vars PROVE Passed'
  OBVIOUS
<1>1. CASE EntryWritten
  <2>1. ~AtEnd /\ input' = input /\ (pos' = pos \/ pos' = pos + 1)
    BY <1>1 DEF EntryWritten, Body
  <2>2. pos \in DOMAIN input.items /\ input.items[pos].at < input.size
        /\ pos \in Nat /\ DOMAIN input.items \subseteq Nat
    BY <2>1, ItemFacts DEF TypeOK, At
  <2>3. \A k \in DOMAIN input.items : k < pos + 1 => k < pos \/ k = pos
    BY <2>2
  <2>4. QED
    BY <2>1, <2>2, <2>3 DEF Passed
<1>2. CASE EntryFails
  BY <1>2 DEF EntryFails, Body, Passed
<1>3. CASE TakeTlv
  <2>1. ~AtEnd /\ input' = input /\ (pos' = pos \/ pos' = pos + 1)
    BY <1>3 DEF TakeTlv, Body
  <2>2. pos \in DOMAIN input.items /\ input.items[pos].at < input.size
        /\ pos \in Nat /\ DOMAIN input.items \subseteq Nat
    BY <2>1, ItemFacts DEF TypeOK, At
  <2>3. \A k \in DOMAIN input.items : k < pos + 1 => k < pos \/ k = pos
    BY <2>2
  <2>4. QED
    BY <2>1, <2>2, <2>3 DEF Passed
<1>4. CASE SkipCommand
  <2>1. ~AtEnd /\ input' = input /\ (pos' = pos \/ pos' = pos + 1)
    BY <1>4 DEF SkipCommand, Body
  <2>2. pos \in DOMAIN input.items /\ input.items[pos].at < input.size
        /\ pos \in Nat /\ DOMAIN input.items \subseteq Nat
    BY <2>1, ItemFacts DEF TypeOK, At
  <2>3. \A k \in DOMAIN input.items : k < pos + 1 => k < pos \/ k = pos
    BY <2>2
  <2>4. QED
    BY <2>1, <2>2, <2>3 DEF Passed
<1>5. CASE FindParams
  BY <1>5 DEF FindParams, Body, Passed
<1>6. CASE Finish
  BY <1>6 DEF Finish, Passed
<1>7. CASE Done
  BY <1>7 DEF Done, vars, Passed
<1>8. CASE UNCHANGED vars
  BY <1>8 DEF vars, Passed
<1>9. QED
  BY <1>1, <1>2, <1>3, <1>4, <1>5, <1>6, <1>7, <1>8 DEF Next, Step, Advance

\* A walk ends at the end of the data.
LEMMA StepEnds == TypeOK /\ Ends /\ [Next]_vars => Ends'
<1> SUFFICES ASSUME TypeOK, Ends, [Next]_vars PROVE Ends'
  OBVIOUS
<1>1. CASE EntryWritten
  BY <1>1 DEF EntryWritten, Body, Ends, walk
<1>2. CASE EntryFails
  BY <1>2 DEF EntryFails, Body, Ends, walk
<1>3. CASE TakeTlv
  BY <1>3 DEF TakeTlv, Body, Ends, walk
<1>4. CASE SkipCommand
  BY <1>4 DEF SkipCommand, Body, Ends, walk
<1>5. CASE FindParams
  BY <1>5 DEF FindParams, Body, Ends, walk
<1>6. CASE Finish
  BY <1>6, ItemFacts DEF Finish, Ends, AtEnd, At, Item, Count, walk, Walks
<1>7. CASE Done
  BY <1>7 DEF Done, vars, Ends, AtEnd, At, Item, Count, walk
<1>8. CASE UNCHANGED vars
  BY <1>8 DEF vars, Ends, AtEnd, At, Item, Count, walk
<1>9. QED
  BY <1>1, <1>2, <1>3, <1>4, <1>5, <1>6, <1>7, <1>8 DEF Next, Step, Advance

\* The last TLV that stores a field counts.
LEMMA StepLatest == TypeOK /\ Latest /\ [Next]_vars => Latest'
<1> SUFFICES ASSUME TypeOK, Latest, [Next]_vars PROVE Latest'
  OBVIOUS
<1>1. CASE EntryWritten
  BY <1>1 DEF EntryWritten, Body, Latest, walk
<1>2. CASE EntryFails
  BY <1>2 DEF EntryFails, Body, Latest, walk
<1>3. CASE TakeTlv
  <2>1. ~AtEnd /\ walk = "tlv" /\ pos' = pos + 1 /\ input' = input
        /\ fields' = [f \in Fields |-> Store(f)]
    BY <1>3 DEF TakeTlv, Body
  <2>2. pos \in DOMAIN input.items /\ Item = input.items[pos] /\ pos \in Nat
        /\ DOMAIN input.items \subseteq Nat
    BY <2>1, ItemFacts DEF TypeOK
  <2>3. ASSUME NEW f \in Fields
        PROVE  /\ fields'[f] < pos + 1
               /\ fields'[f] # 0 => f \in Stores[input.items[fields'[f]].tag]
               /\ \A k \in DOMAIN input.items :
                    fields'[f] < k /\ k < pos + 1 => f \notin Stores[input.items[k].tag]
    <3>1. fields[f] \in Nat /\ fields'[f] = Store(f)
      BY <2>1 DEF TypeOK
    <3>2. /\ fields[f] < pos
          /\ fields[f] # 0 => f \in Stores[input.items[fields[f]].tag]
          /\ \A k \in DOMAIN input.items :
               fields[f] < k /\ k < pos => f \notin Stores[input.items[k].tag]
      BY <2>1 DEF Latest
    <3>3. CASE f \in Stores[Item.tag]
      BY <2>2, <3>1, <3>3 DEF Store
    <3>4. CASE f \notin Stores[Item.tag]
      <4>1. fields'[f] = fields[f]
        BY <3>1, <3>4 DEF Store
      <4>2. \A k \in DOMAIN input.items : k < pos + 1 => k < pos \/ k = pos
        BY <2>2
      <4>3. QED
        BY <2>2, <3>1, <3>2, <3>4, <4>1, <4>2
    <3>5. QED
      BY <3>3, <3>4
  <2>4. QED
    BY <2>1, <2>3 DEF Latest
<1>4. CASE SkipCommand
  BY <1>4 DEF SkipCommand, Body, Latest, walk
<1>5. CASE FindParams
  BY <1>5 DEF FindParams, Body, Latest, walk
<1>6. CASE Finish
  BY <1>6 DEF Finish, Latest, walk
<1>7. CASE Done
  BY <1>7 DEF Done, vars, Latest, walk
<1>8. CASE UNCHANGED vars
  BY <1>8 DEF vars, Latest, walk
<1>9. QED
  BY <1>1, <1>2, <1>3, <1>4, <1>5, <1>6, <1>7, <1>8 DEF Next, Step, Advance

\* The first boot parameters count.
LEMMA StepFirstParams == TypeOK /\ FirstParams /\ [Next]_vars => FirstParams'
<1> SUFFICES ASSUME TypeOK, FirstParams, [Next]_vars PROVE FirstParams'
  OBVIOUS
<1>1. CASE EntryWritten
  BY <1>1 DEF EntryWritten, Body, FirstParams, walk
<1>2. CASE EntryFails
  BY <1>2 DEF EntryFails, Body, FirstParams, walk
<1>3. CASE TakeTlv
  BY <1>3 DEF TakeTlv, Body, FirstParams, walk
<1>4. CASE SkipCommand
  <2>1. ~AtEnd /\ walk = "boot" /\ pc = "walking" /\ pos' = pos + 1 /\ UNCHANGED <<input, pc, boot>>
        /\ Item.tag # "writeBootParams"
    BY <1>4 DEF SkipCommand, Body
  <2>2. pos \in DOMAIN input.items /\ Item = input.items[pos] /\ pos \in Nat
        /\ DOMAIN input.items \subseteq Nat
    BY <2>1, ItemFacts DEF TypeOK
  <2>3. \A k \in DOMAIN input.items : k < pos + 1 => k < pos \/ k = pos
    BY <2>2
  <2>4. QED
    BY <2>1, <2>2, <2>3 DEF FirstParams, walk
<1>5. CASE FindParams
  <2>1. ~AtEnd /\ walk = "boot" /\ pc' = "succeeded" /\ boot' = pos /\ UNCHANGED <<input, pos>>
        /\ Item.tag = "writeBootParams"
    BY <1>5 DEF FindParams, Body
  <2>2. pos \in DOMAIN input.items /\ Item = input.items[pos]
    BY <2>1, ItemFacts
  <2>3. ~AtEnd'
    BY <2>1 DEF AtEnd, At, Item, Count, walk
  <2>4. QED
    BY <2>1, <2>2, <2>3 DEF FirstParams, walk
<1>6. CASE Finish
  BY <1>6 DEF Finish, FirstParams, walk
<1>7. CASE Done
  BY <1>7 DEF Done, vars, FirstParams, walk, AtEnd, At, Item, Count
<1>8. CASE UNCHANGED vars
  BY <1>8 DEF vars, FirstParams, walk, AtEnd, At, Item, Count
<1>9. QED
  BY <1>1, <1>2, <1>3, <1>4, <1>5, <1>6, <1>7, <1>8 DEF Next, Step, Advance


\* The commands written cover one entry more.
LEMMA WrittenOneMore ==
  ASSUME TypeOK, WrittenUpTo(At), NEW n \in Nat,
         sent' = Append(sent, [from |-> At, length |-> n]), At' = At + n
  PROVE  WrittenUpTo(At)'
<1>1. /\ Len(sent) \in Nat /\ DOMAIN sent = 1 .. Len(sent)
      /\ DOMAIN sent' = 1 .. Len(sent) + 1 /\ Len(sent') = Len(sent) + 1 /\ sent' # <<>>
      /\ \A k \in 1 .. Len(sent) : sent'[k] = sent[k]
      /\ sent'[Len(sent) + 1] = [from |-> At, length |-> n]
      /\ sent = <<>> <=> Len(sent) = 0
  BY AppendProperties, LenProperties, EmptySeq DEF TypeOK
<1>2. ASSUME NEW k \in 1 .. Len(sent) + 1
      PROVE  sent'[k].from = IF k = 1 THEN 0 ELSE sent'[k - 1].from + sent'[k - 1].length
  <2>1. CASE k \in 1 .. Len(sent)
    <3>1. sent'[k] = sent[k] /\ (k # 1 => sent'[k - 1] = sent[k - 1])
      BY <1>1, <2>1
    <3>2. QED
      BY <1>1, <2>1, <3>1, ZenonT(40) DEF WrittenUpTo
  <2>2. CASE k = Len(sent) + 1
    <3>1. sent'[k].from = At
      BY <1>1, <2>2
    <3>2. CASE Len(sent) = 0
      BY <1>1, <2>2, <3>1, <3>2 DEF WrittenUpTo
    <3>3. CASE Len(sent) # 0
      <4>1. k # 1 /\ k - 1 = Len(sent) /\ Len(sent) \in 1 .. Len(sent)
        BY <1>1, <2>2, <3>3
      <4>2. sent'[Len(sent)] = sent[Len(sent)]
        BY <1>1, <4>1
      <4>3. At = sent[Len(sent)].from + sent[Len(sent)].length
        BY <1>1, <3>3 DEF WrittenUpTo
      <4>4. QED
        BY <3>1, <4>1, <4>2, <4>3
    <3>4. QED
      BY <3>2, <3>3
  <2>3. QED
    BY <1>1, <1>2, <2>1, <2>2
<1>3. At' = sent'[Len(sent')].from + sent'[Len(sent')].length
  BY <1>1
<1>4. QED
  BY <1>1, <1>2, <1>3 DEF WrittenUpTo

\* A DDC file is written entry by entry.
LEMMA StepLoadedWhole == TypeOK /\ LoadedWhole /\ [Next]_vars => LoadedWhole'
<1> SUFFICES ASSUME TypeOK, LoadedWhole, [Next]_vars PROVE LoadedWhole'
  OBVIOUS
<1>1. CASE EntryWritten
  <2>1. ~AtEnd /\ walk = "ddc" /\ pc' = "walking" /\ input' = input /\ walk' = walk
    BY <1>1 DEF EntryWritten, Body, walk
  <2>2. WrittenUpTo(At)
    BY <2>1 DEF LoadedWhole
  <2>3. CASE Plen(Item) = 0
    BY <1>1, <2>1, <2>2, <2>3 DEF EntryWritten, LoadedWhole, WrittenUpTo, At, Item, Count
  <2>4. CASE Plen(Item) # 0
    <3>1. Plen(Item) \in Nat /\ End(walk, Item) = At + Plen(Item)
      BY <2>1, <2>4, PlenByte
    <3>2. pos' = pos + 1 /\ sent' = Append(sent, [from |-> At, length |-> Plen(Item)])
      BY <1>1, <2>4 DEF EntryWritten
    <3>3. At' = At + Plen(Item)
      BY <2>1, <3>1, <3>2, OneItemOn
    <3>4. WrittenUpTo(At)'
      BY <2>2, <3>1, <3>2, <3>3, WrittenOneMore
    <3>5. QED
      BY <2>1, <3>4 DEF LoadedWhole
  <2>5. QED
    BY <2>3, <2>4
<1>2. CASE EntryFails
  BY <1>2 DEF EntryFails, Body, LoadedWhole, WrittenUpTo, walk, At, Item, Count
<1>3. CASE TakeTlv
  BY <1>3 DEF TakeTlv, Body, LoadedWhole, walk
<1>4. CASE SkipCommand
  BY <1>4 DEF SkipCommand, Body, LoadedWhole, walk
<1>5. CASE FindParams
  BY <1>5 DEF FindParams, Body, LoadedWhole, walk
<1>6. CASE Finish
  BY <1>6 DEF Finish, AtEnd, LoadedWhole, WrittenUpTo, walk, At, Item, Count
<1>7. CASE Done
  BY <1>7 DEF Done, vars, LoadedWhole, WrittenUpTo, walk, At, Item, Count
<1>8. CASE UNCHANGED vars
  BY <1>8 DEF vars, LoadedWhole, WrittenUpTo, walk, At, Item, Count
<1>9. QED
  BY <1>1, <1>2, <1>3, <1>4, <1>5, <1>6, <1>7, <1>8 DEF Next, Step, Advance


\* With an item passed, or the walk ended at it, one more has been looked at.
LEMMA OneMoreExamined ==
  ASSUME TypeOK, pc = "walking", ~AtEnd, input' = input,
         (pos' = pos + 1 /\ pc' = pc) \/ (pos' = pos /\ pc' # "walking")
  PROVE  /\ pos \in DOMAIN input.items /\ Item = input.items[pos]
         /\ Examined' = Examined \cup {pos}
<1>1. /\ pos \in DOMAIN input.items /\ Item = input.items[pos] /\ At < input.size
      /\ DOMAIN input.items \subseteq Nat /\ pos \in Nat
  BY ItemFacts DEF TypeOK
<1>2. pos \in Reached /\ Reached' = Reached /\ Reached \subseteq Nat
  BY <1>1 DEF Reached, At
<1>3. \A k \in Reached : k < pos + 1 <=> k < pos \/ k = pos
  BY <1>1, <1>2
<1>4. QED
  BY <1>1, <1>2, <1>3 DEF Examined

\* What an item needs is a number.
LEMMA NeedsType ==
  ASSUME TypeOK, ~AtEnd
  PROVE  Needs(Item) \in Nat /\ Item.len \in 0 .. 255
<1>1. Item.len \in 0 .. 255 /\ walk \in Walks
  BY ItemFacts, ItemsOf DEF TypeOK
<1>2. CASE walk = "ddc"
  BY <1>1, <1>2 DEF Needs
<1>3. CASE walk = "tlv"
  BY <1>1, <1>3, WidthType DEF Needs
<1>4. CASE walk = "boot"
  BY <1>1, <1>4 DEF Needs
<1>5. QED
  BY <1>1, <1>2, <1>3, <1>4 DEF Walks

\* An item is looked at: the data is left, or the room exceeded, if it was before
\* or if this item makes it so.
LEMMA ItemExamined ==
  ASSUME TypeOK, StaysInside, pc = "walking", ~AtEnd, input' = input,
         (pos' = pos + 1 /\ pc' = pc) \/ (pos' = pos /\ pc' # "walking"),
         Reads(Needs(Item)), overflow' <=> overflow \/ ~Fits(Item)
  PROVE  StaysInside'
<1>1. Examined' = Examined \cup {pos} /\ Item = input.items[pos] /\ pos \in DOMAIN input.items
  BY OneMoreExamined
<1>2. Needs(Item) \in Nat /\ At \in Nat /\ reach \in Nat /\ input.size \in Nat
      /\ At = input.items[pos].at
  BY <1>1, NeedsType, ItemFacts DEF TypeOK, At
<1>3. reach' > input.size <=> reach > input.size \/ At + Needs(Item) > input.size
  BY <1>2 DEF Reads
<1>4. \A i : Needs(i)' = Needs(i) /\ Fits(i)' = Fits(i)
  BY DEF Needs, Fits, walk
<1>5. (reach > input.size <=> \E k \in Examined : input.items[k].at + Needs(input.items[k]) > input.size)
      /\ (overflow <=> \E k \in Examined : ~Fits(input.items[k]))
  BY DEF StaysInside
<1>6. reach' > input.size <=>
        \E k \in Examined' : input.items[k].at + Needs(input.items[k]) > input.size
  BY <1>1, <1>2, <1>3, <1>5
<1>7. overflow' <=> \E k \in Examined' : ~Fits(input.items[k])
  BY <1>1, <1>5
<1>8. QED
  BY <1>4, <1>6, <1>7 DEF StaysInside

\* What is copied of an entry.
LEMMA EntryExamined ==
  ASSUME TypeOK, walk = "ddc", ~AtEnd, CopyEntry
  PROVE  Reads(Needs(Item)) /\ (overflow' <=> overflow \/ ~Fits(Item))
<1>1. Item.len \in 0 .. 255
  BY NeedsType
<1>2. Plen(Item) = IF Item.len = 255 THEN 0 ELSE Item.len + 1
  BY PlenByte
<1>3. Needs(Item) = IF Plen(Item) = 0 THEN 1 ELSE Plen(Item)
  BY <1>1, <1>2 DEF Needs
<1>4. Plen(Item) > Room <=> ~Fits(Item)
  BY <1>1, <1>2 DEF Fits, Room
<1>5. Reads(Needs(Item))
  BY <1>3, Zenon DEF CopyEntry
<1>6. overflow' <=> overflow \/ ~Fits(Item)
  BY <1>4, Zenon DEF CopyEntry
<1>7. QED
  BY <1>5, <1>6

\* It stays known which data is left.
LEMMA StepStaysInside == TypeOK /\ StaysInside /\ [Next]_vars => StaysInside'
<1> SUFFICES ASSUME TypeOK, StaysInside, [Next]_vars PROVE StaysInside'
  OBVIOUS
<1>1. CASE EntryWritten
  <2>1. /\ ~AtEnd /\ walk = "ddc" /\ pc = "walking" /\ pc' = pc /\ input' = input
        /\ CopyEntry /\ pos' = IF Plen(Item) = 0 THEN pos ELSE pos + 1
    BY <1>1 DEF EntryWritten, Body
  <2>2. Reads(Needs(Item)) /\ (overflow' <=> overflow \/ ~Fits(Item))
    BY <2>1, EntryExamined
  <2>3. CASE Plen(Item) = 0
    <3>1. Item.len = 255 /\ At \in Nat /\ reach \in Nat /\ input.size \in Nat /\ At < input.size
      <4>1. Item.len \in 0 .. 255 /\ Plen(Item) = IF Item.len = 255 THEN 0 ELSE Item.len + 1
        BY <2>1, PlenByte, NeedsType
      <4>2. Item.len = 255
        BY <2>3, <4>1
      <4>3. QED
        BY <2>1, <4>2, ItemFacts DEF TypeOK
    <3>2. Needs(Item) = 1 /\ Fits(Item)
      BY <2>1, <3>1 DEF Needs, Fits
    <3>3. reach' > input.size <=> reach > input.size
      BY <2>2, <3>1, <3>2 DEF Reads
    <3>4. overflow' <=> overflow
      BY <2>2, <3>2
    <3>5. Examined' = Examined
      BY <2>1, <2>3 DEF Examined, Reached
    <3>6. \A i : Needs(i)' = Needs(i) /\ Fits(i)' = Fits(i)
      BY <2>1 DEF Needs, Fits, walk
    <3>7. QED
      BY <2>1, <3>3, <3>4, <3>5, <3>6 DEF StaysInside
  <2>4. CASE Plen(Item) # 0
    BY <2>1, <2>2, <2>4, ItemExamined
  <2>5. QED
    BY <2>3, <2>4
<1>2. CASE EntryFails
  <2>1. /\ ~AtEnd /\ walk = "ddc" /\ pc = "walking" /\ pc' # "walking" /\ input' = input
        /\ pos' = pos /\ CopyEntry
    BY <1>2 DEF EntryFails, Body
  <2>2. QED
    BY <2>1, EntryExamined, ItemExamined
<1>3. CASE TakeTlv
  <2>1. /\ ~AtEnd /\ walk = "tlv" /\ pc = "walking" /\ pc' = pc /\ input' = input
        /\ pos' = pos + 1 /\ Reads(2 + Width(Item))
    BY <1>3 DEF TakeTlv, Body
  <2>2. Needs(Item) = 2 + Width(Item)
    BY <2>1 DEF Needs
  <2>3. Item.tag = "otp_bd_addr" /\ Item.len > 6 <=> ~Fits(Item)
    BY <2>1, NeedsType DEF Fits
  <2>4. overflow' <=> overflow \/ ~Fits(Item)
    BY <1>3, <2>3, Zenon DEF TakeTlv
  <2>5. QED
    BY <2>1, <2>2, <2>4, ItemExamined
<1>4. CASE SkipCommand
  <2>1. /\ ~AtEnd /\ walk = "boot" /\ pc = "walking" /\ pc' = pc /\ input' = input
        /\ pos' = pos + 1 /\ Item.tag # "writeBootParams" /\ Reads(3) /\ overflow' = overflow
    BY <1>4 DEF SkipCommand, Body
  <2>2. Needs(Item) = 3 /\ Fits(Item)
    BY <2>1 DEF Needs, Fits
  <2>3. QED
    BY <2>1, <2>2, ItemExamined
<1>5. CASE FindParams
  <2>1. /\ ~AtEnd /\ walk = "boot" /\ pc = "walking" /\ pc' # "walking" /\ input' = input
        /\ pos' = pos /\ Item.tag = "writeBootParams" /\ Reads(3 + 7) /\ overflow' = overflow
    BY <1>5 DEF FindParams, Body
  <2>2. Needs(Item) = 3 + 7 /\ Fits(Item)
    BY <2>1 DEF Needs, Fits
  <2>3. QED
    BY <2>1, <2>2, ItemExamined
<1>6. CASE Finish
  <2>1. AtEnd /\ UNCHANGED <<input, pos, reach, overflow>>
    BY <1>6 DEF Finish
  <2>2. pos \notin Reached
    BY <2>1, ItemFacts DEF AtEnd, At, Reached
  <2>3. Examined' = Examined /\ \A i : Needs(i)' = Needs(i) /\ Fits(i)' = Fits(i)
    BY <2>1, <2>2 DEF Examined, Reached, Needs, Fits, walk
  <2>4. QED
    BY <2>1, <2>3 DEF StaysInside
<1>7. CASE UNCHANGED vars
  <2>1. Examined' = Examined /\ \A i : Needs(i)' = Needs(i) /\ Fits(i)' = Fits(i)
    BY <1>7 DEF vars, Examined, Reached, Needs, Fits, walk
  <2>2. QED
    BY <1>7, <2>1 DEF vars, StaysInside
<1>8. QED
  BY <1>1, <1>2, <1>3, <1>4, <1>5, <1>6, <1>7 DEF Next, Step, Advance, Done


-----------------------------------------------------------------------------
(* The invariant and its consequences *)

\* It holds at first.
LEMMA InitIInv == Init => IInv
<1> SUFFICES ASSUME Init PROVE IInv
  OBVIOUS
<1>1. WellFormed(input)
  BY ParsersAssumption DEF Init
<1>2. Count \in Nat \ {0} /\ DOMAIN input.items = 1 .. Count /\ walk \in Walks /\ input.size \in Nat
  BY <1>1, ItemsOf DEF Count, walk
<1>3. pos = 1 /\ reach = 0 /\ sent = <<>> /\ pc = "walking" /\ boot = 0 /\ overflow = FALSE
      /\ fields = [f \in Fields |-> 0]
  BY DEF Init
<1>4. TypeOK
  <2>1. sent \in Seq([from : Nat, length : 0 .. 255])
    BY <1>3, EmptySeq
  <2>2. held \in BOOLEAN
    BY Zenon DEF Init
  <2>3. fields \in [Fields -> 0 .. Count] /\ pos \in 1 .. Count + 1 /\ boot \in 0 .. Count
    BY <1>2, <1>3
  <2>4. QED
    BY <1>1, <1>3, <2>1, <2>2, <2>3 DEF TypeOK
<1>5. Passed /\ Ends /\ Latest /\ FirstParams /\ StaysInside
  <2>1. Passed /\ Ends /\ Latest /\ FirstParams
    BY <1>2, <1>3 DEF Passed, Ends, Latest, FirstParams
  <2>2. Examined = {}
    BY <1>2, <1>3 DEF Examined, Reached
  <2>3. QED
    BY <1>2, <1>3, <2>1, <2>2 DEF StaysInside
<1>6. LoadedWhole
  <2>1. walk = "ddc" => At = 0
    BY <1>1, <1>2, <1>3 DEF WellFormed, Start, At, Item, walk
  <2>2. QED
    BY <1>3, <2>1 DEF LoadedWhole, WrittenUpTo
<1>7. QED
  BY <1>4, <1>5, <1>6 DEF IInv

\* Every step keeps it.
LEMMA StepIInv == IInv /\ [Next]_vars => IInv'
  BY StepTypeOK, StepPassed, StepEnds, StepLatest, StepFirstParams, StepLoadedWhole,
     StepStaysInside
  DEF IInv

\* At the end of the data the items reached are those passed.
LEMMA ReachedPassed ==
  ASSUME IInv, AtEnd
  PROVE  Reached = {k \in DOMAIN input.items : k < pos}
<1>1. WellFormed(input) /\ DOMAIN input.items \subseteq Nat /\ pos \in Nat
  BY ItemFacts DEF IInv, TypeOK
<1>2. ASSUME NEW k \in DOMAIN input.items, input.items[k].at < input.size
      PROVE  k < pos
  <2>1. CASE pos \notin DOMAIN input.items
    BY <1>2, <2>1, ItemFacts DEF IInv
  <2>2. CASE pos \in DOMAIN input.items
    <3>1. input.items[pos].at >= input.size /\ input.items[pos].at \in Nat
      BY <2>2, ItemFacts DEF IInv, AtEnd, At
    <3>2. k # pos
      BY <1>2, <2>2, <3>1, ItemFacts DEF IInv
    <3>3. ASSUME pos < k
          PROVE  FALSE
      <4>1. End(input.walk, input.items[pos]) <= input.items[k].at
        BY <1>1, <1>2, <2>2, <3>3, Ascending
      <4>2. input.items[pos].at < End(input.walk, input.items[pos])
            /\ End(input.walk, input.items[pos]) \in Nat
            /\ input.items[k].at \in Nat /\ input.size \in Nat
        BY <1>1, <1>2, <2>2, ItemsOf
      <4>3. QED
        BY <1>2, <3>1, <4>1, <4>2
    <3>4. QED
      BY <1>1, <3>2, <3>3
  <2>3. QED
    BY <2>1, <2>2
<1>3. QED
  BY <1>2 DEF IInv, Passed, Reached

\* The invariant holds throughout.
THEOREM Inductive == Spec => []IInv
  BY InitIInv, StepIInv, PTL DEF Spec

\* The variables of the walks stay in range, whatever the data.
THEOREM TypeCorrect == Spec => []TypeOK
<1>1. IInv => TypeOK
  BY DEF IInv
<1>2. QED
  BY <1>1, Inductive, PTL

\* Of any data, exactly that is read past its end, or copied past the end of a
\* buffer, which has an item looked at that wants more than there is behind it or
\* whose value is too long for its room.
THEOREM InsideSafety == Spec => []StaysInside
<1>1. IInv => StaysInside
  BY DEF IInv
<1>2. QED
  BY <1>1, Inductive, PTL

\* loadDDCConfig succeeds only when each entry of the file was written, once and
\* in order.
THEOREM LoadingSafety == Spec => []LoadedWhole
<1>1. IInv => LoadedWhole
  BY DEF IInv
<1>2. QED
  BY <1>1, Inductive, PTL

\* parseVersionTLV and firmwareVersion find what looking at the items all at once
\* finds.
THEOREM ParsingCorrect == Spec => []LooksRight
<1>1. ASSUME IInv, pc # "walking", walk = "tlv"
      PROVE  \A f \in Fields :
               fields[f] = Extreme({k \in Reached : f \in Stores[input.items[k].tag]},
                                   LAMBDA a, b : a > b)
  <2> SUFFICES ASSUME NEW f \in Fields
               PROVE  fields[f] = Extreme({k \in Reached : f \in Stores[input.items[k].tag]},
                                          LAMBDA a, b : a > b)
    OBVIOUS
  <2> DEFINE S == {k \in Reached : f \in Stores[input.items[k].tag]}
  <2>1. AtEnd /\ pos \in Nat /\ DOMAIN input.items \subseteq Nat
    BY <1>1, ItemFacts DEF IInv, Ends, TypeOK
  <2>2. Reached = {k \in DOMAIN input.items : k < pos}
    BY <1>1, <2>1, ReachedPassed
  <2>3. /\ fields[f] \in 0 .. Count /\ fields[f] < pos
        /\ fields[f] # 0 => f \in Stores[input.items[fields[f]].tag]
        /\ \A k \in DOMAIN input.items :
             fields[f] < k /\ k < pos => f \notin Stores[input.items[k].tag]
    BY <1>1 DEF IInv, TypeOK, Latest
  <2>4. DOMAIN input.items = 1 .. Count /\ Count \in Nat
    BY <1>1, ItemFacts DEF IInv
  <2>5. fields[f] # 0 => fields[f] \in S
    BY <2>2, <2>3, <2>4
  <2>6. \A k \in S : k <= fields[f] /\ k \in Nat \ {0}
    BY <2>1, <2>2, <2>3, <2>4
  <2>7. fields[f] = 0 => S = {}
    BY <2>6
  <2>8. S # {} => /\ fields[f] \in S
                  /\ \A j \in S : j = fields[f] \/ fields[f] > j
                  /\ \A k \in S : (\A j \in S : j = k \/ k > j) => k = fields[f]
    BY <2>3, <2>5, <2>6, <2>7
  <2>9. S = {} => fields[f] = 0
    BY <2>5
  <2> HIDE DEF S
  <2>10. fields[f] = IF S = {} THEN 0 ELSE CHOOSE k \in S : \A j \in S : j = k \/ k > j
    BY <2>8, <2>9
  <2> USE DEF S
  <2>11. QED
    BY <2>10, Zenon DEF Extreme
<1>2. ASSUME IInv, pc # "walking", walk = "tlv", MinFwLast,
             \E k \in Reached : input.items[k].tag = "minFw"
      PROVE  /\ fields["min_fw_build_nn"] = fields["min_fw_build_cw"]
             /\ fields["min_fw_build_nn"] = fields["min_fw_build_yy"]
  <2>1. AtEnd /\ pos \in Nat /\ DOMAIN input.items = 1 .. Count /\ Count \in Nat
    BY <1>2, ItemFacts DEF IInv, Ends, TypeOK
  <2>2. Reached = {k \in DOMAIN input.items : k < pos}
    BY <1>2, <2>1, ReachedPassed
  <2>3. \A k \in DOMAIN input.items : input.items[k].tag \in Tags.tlv
    BY <1>2, ItemsOf DEF IInv, TypeOK, walk, Tags
  <2>4. PICK m \in Reached : input.items[m].tag = "minFw"
    BY <1>2
  <2> DEFINE Of(f) == {"minFw"} \cup IF f = "min_fw_build_nn" THEN {"buildNum"} ELSE {"timeStamp"}
             Three == {"min_fw_build_nn", "min_fw_build_cw", "min_fw_build_yy"}
  <2>5. \A f \in Three : \A tag \in Tags.tlv : f \in Stores[tag] <=> tag \in Of(f)
    <3>1. \A f \in Three : f \notin SingleTags
      BY DEF SingleTags
    <3>2. ASSUME NEW f \in Three, NEW tag \in SingleTags
          PROVE  f \notin Stores[tag] /\ tag \notin Of(f)
      <4>1. Stores[tag] = {tag}
        BY DEF Stores, Tags, SingleTags
      <4>2. QED
        BY <3>1, <4>1 DEF SingleTags
    <3>3. ASSUME NEW f \in Three, NEW tag \in {"timeStamp", "buildNum", "minFw", "unknown"}
          PROVE  f \in Stores[tag] <=> tag \in Of(f)
      <4>1. /\ Stores["timeStamp"] = {"min_fw_build_cw", "min_fw_build_yy", "timestamp"}
            /\ Stores["buildNum"] = {"min_fw_build_nn", "build_num"}
            /\ Stores["minFw"] = Three /\ Stores["unknown"] = {}
        BY DEF Stores, Tags
      <4>2. QED
        BY <4>1
    <3>4. QED
      BY <3>2, <3>3 DEF Tags
  <2>6. ASSUME NEW f \in Three
        PROVE  /\ fields[f] \in Reached /\ input.items[fields[f]].tag = "minFw"
               /\ \A k \in Reached : input.items[k].tag = "minFw" => k <= fields[f]
    <3>1. /\ f \in Fields /\ fields[f] \in 0 .. Count /\ fields[f] < pos
          /\ fields[f] # 0 => f \in Stores[input.items[fields[f]].tag]
          /\ \A k \in DOMAIN input.items :
               fields[f] < k /\ k < pos => f \notin Stores[input.items[k].tag]
      <4>1. f \in Fields
        BY DEF Fields
      <4>2. fields[f] \in 0 .. Count
        BY <1>2, <4>1 DEF IInv, TypeOK
      <4>3. QED
        BY <1>2, <4>1, <4>2 DEF IInv, Latest
    <3>2. \A k \in Reached : input.items[k].tag = "minFw" => k <= fields[f]
      <4>1. SUFFICES ASSUME NEW k \in Reached, input.items[k].tag = "minFw"
                     PROVE  k <= fields[f]
        OBVIOUS
      <4>2. f \in Stores[input.items[k].tag] /\ k \in DOMAIN input.items /\ k < pos
        BY <2>2, <2>3, <2>5, <4>1
      <4>3. QED
        BY <2>1, <3>1, <4>2
    <3>3. m <= fields[f] /\ m \in 1 .. Count
      BY <2>1, <2>2, <2>4, <3>2
    <3>4. fields[f] \in Reached /\ fields[f] \in DOMAIN input.items /\ fields[f] # 0
      BY <2>1, <2>2, <3>1, <3>3
    <3>5. input.items[fields[f]].tag \in Of(f)
      BY <2>3, <2>5, <3>1, <3>4
    <3>6. input.items[fields[f]].tag \notin {"timeStamp", "buildNum"}
      BY <1>2, <2>1, <2>4, <3>1, <3>3, <3>4 DEF MinFwLast
    <3>7. QED
      BY <3>2, <3>4, <3>5, <3>6
  <2>7. \A f, g \in Three : fields[f] <= fields[g]
    BY <2>6
  <2>8. \A f \in Three : fields[f] \in Nat
    BY <2>1, <2>2, <2>6
  <2>9. QED
    BY <2>7, <2>8
<1>3. ASSUME IInv, pc # "walking", walk = "boot"
      PROVE  boot = Extreme({k \in Reached : input.items[k].tag = "writeBootParams"},
                            LAMBDA a, b : a < b)
  <2> DEFINE S == {k \in Reached : input.items[k].tag = "writeBootParams"}
  <2>1. pos \in Nat /\ DOMAIN input.items = 1 .. Count /\ Count \in Nat
    BY <1>3, ItemFacts DEF IInv, TypeOK
  <2>2. \A k \in DOMAIN input.items : k < pos => input.items[k].tag # "writeBootParams"
    BY <1>3 DEF IInv, FirstParams
  <2>3. CASE pc = "succeeded"
    <3>1. boot = pos /\ pos \in DOMAIN input.items /\ input.items[pos].tag = "writeBootParams" /\ ~AtEnd
      BY <1>3, <2>3 DEF IInv, FirstParams
    <3>2. pos \in S
      BY <1>3, <3>1, ItemFacts DEF IInv, Reached, At
    <3>3. \A k \in S : k = pos \/ pos < k
      BY <2>1, <2>2, <3>1 DEF Reached
    <3>4. \A k \in S : (\A j \in S : j = k \/ k < j) => k = pos
      BY <2>1, <3>1, <3>2, <3>3 DEF Reached
    <3> HIDE DEF S
    <3>5. boot = IF S = {} THEN 0 ELSE CHOOSE k \in S : \A j \in S : j = k \/ k < j
      BY <3>1, <3>2, <3>3, <3>4
    <3> USE DEF S
    <3>6. QED
      BY <3>5, Zenon DEF Extreme
  <2>4. CASE pc = "failed"
    <3>1. AtEnd /\ boot = 0
      BY <1>3, <2>4 DEF IInv, Ends, FirstParams
    <3>2. S = {}
      BY <1>3, <2>2, <3>1, ReachedPassed
    <3> HIDE DEF S
    <3>3. boot = IF S = {} THEN 0 ELSE CHOOSE k \in S : \A j \in S : j = k \/ k < j
      BY <3>1, <3>2
    <3> USE DEF S
    <3>4. QED
      BY <3>3, Zenon DEF Extreme
  <2>5. QED
    BY <1>3, <2>3, <2>4 DEF IInv, TypeOK
<1>4. IInv => LooksRight
  <2> SUFFICES ASSUME IInv, pc # "walking" PROVE LooksRight
    BY DEF LooksRight
  <2>1. walk \in Walks
    BY ItemFacts DEF IInv
  <2>2. CASE walk = "ddc"
    BY <2>2 DEF LooksRight
  <2>3. CASE walk = "boot"
    BY <1>3, <2>3, Zenon DEF LooksRight
  <2>4. CASE walk = "tlv"
    BY <1>1, <1>2, <2>4, Zenon DEF LooksRight
  <2>5. QED
    BY <2>1, <2>2, <2>3, <2>4 DEF Walks
<1>5. QED
  BY <1>4, Inductive, PTL

=============================================================================
