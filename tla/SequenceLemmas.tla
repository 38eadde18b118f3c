--------------------------- MODULE SequenceLemmas ---------------------------
(***************************************************************************)
(* Lemmas about sequences used as queues: what Append and Tail leave of    *)
(* the values in them and of the order they come in; and the least element *)
(* of a set of numbers, on which arguments about "the first item that"     *)
(* rest.                                                                   *)
(***************************************************************************)
EXTENDS Integers, SequenceTheorems, WellFoundedInduction, TLAPS

\* No b comes after an a.
NoneBehind(s, a, b) == \A i, j \in DOMAIN s : i < j /\ s[i] = a => s[j] # b

\* Nothing is in the empty queue.
LEMMA RangeEmpty == Range(<<>>) = {}
  BY DEF Range

\* One element is in a queue of one element.
LEMMA RangeSingle == \A x : Range(<<x>>) = {x}
  BY DEF Range

\* Append adds one element.
LEMMA RangeAppend == ASSUME NEW S, NEW s \in Seq(S), NEW x \in S
                     PROVE  Range(Append(s, x)) = Range(s) \cup {x}
<1>1. /\ Len(s) \in Nat
      /\ DOMAIN s = 1 .. Len(s)
      /\ DOMAIN Append(s, x) = 1 .. Len(s) + 1
      /\ \A i \in 1 .. Len(s) : Append(s, x)[i] = s[i]
      /\ Append(s, x)[Len(s) + 1] = x
  BY AppendProperties, LenProperties
<1>2. Range(Append(s, x)) \subseteq Range(s) \cup {x}
  BY <1>1 DEF Range
<1>3. \A y \in Range(s) : y \in Range(Append(s, x))
  BY <1>1 DEF Range
<1>4. x \in Range(Append(s, x))
  BY <1>1 DEF Range
<1>5. QED
  BY <1>2, <1>3, <1>4

\* Taking the head of a queue adds nothing to it.
LEMMA RangeHeadTail == ASSUME NEW S, NEW s \in Seq(S), s # <<>>
                       PROVE  /\ Head(s) \in Range(s)
                              /\ Range(Tail(s)) \subseteq Range(s)
                              /\ Head(s) \in S
                              /\ Tail(s) \in Seq(S)
  BY DEF Range

\* What is appended comes behind everything else.
LEMMA BehindAppend == ASSUME NEW S, NEW s \in Seq(S), NEW x \in S, NEW a, NEW b,
                             NoneBehind(s, a, b), x # b \/ a \notin Range(s)
                      PROVE  NoneBehind(Append(s, x), a, b)
  BY DEF NoneBehind, Range

\* Once an a has been taken, no b is left.
LEMMA BehindTail == ASSUME NEW S, NEW s \in Seq(S), s # <<>>, NEW a, NEW b,
                           NoneBehind(s, a, b)
                    PROVE  /\ NoneBehind(Tail(s), a, b)
                           /\ Head(s) = a => b \notin Range(Tail(s))
  BY DEF NoneBehind, Range

-----------------------------------------------------------------------------

Below == {p \in Nat \X Nat : p[1] < p[2]}

\* Every set of numbers that is not empty has a least element.
LEMMA LeastElement == ASSUME NEW T, T \subseteq Nat, T # {}
                      PROVE  \E x \in T : \A y \in T : x <= y
<1>1. IsWellFoundedOn(Below, Nat)
  BY NatLessThanWellFounded, Zenon DEF OpToRel, Below
<1>2. PICK x \in T : \A y \in T : ~ (<<y, x>> \in Below)
  BY <1>1, WFMin
<1>3. \A y \in T : <<y, x>> \in Below <=> y < x
  BY DEF Below
<1>4. \A y \in T : x \in Nat /\ y \in Nat /\ ~ (y < x)
  BY <1>2, <1>3
<1>5. \A y \in T : x <= y
  BY <1>4
<1>6. QED
  BY <1>5
=============================================================================
