--------------------------- MODULE Bsearch_proofs ----------------------------
(***************************************************************************)
(* Proofs about Bsearch, for lists of every length of which two lengths    *)
(* can be added without a wrap (HalfRange), sorted or not.                 *)
(***************************************************************************)
EXTENDS Bsearch, TLAPS

HalfRange == 2 * MaxLen < SizeT

(* What the search has not looked at lies between its two ends: to the     *)
(* left everything is smaller than the pin, to the right larger.           *)
LeftSmaller == Abstract!Sorted(list) => \A k \in 1..Len(list) : k < ileft => list[k] < pin
RightLarger == Abstract!Sorted(list) => \A k \in 1..Len(list) : k > iright => list[k] > pin
Ends == iright <= Len(list) /\ ileft <= iright + 1

(* The index compared last is next to the end it has moved: what the       *)
(* computation of the insert position rests on.                            *)
LastProbe == IF probed THEN pc = "search" => iright = i \/ ileft = i + 2
                       ELSE ileft = 1 /\ iright = Len(list)

Answered == pc = "search" <=> retIdx = Unset

IInv == /\ TypeOK /\ LeftSmaller /\ RightLarger /\ Ends
        /\ LastProbe /\ ComparesElements /\ Answered

-----------------------------------------------------------------------------
(* A list is a sequence of keys no longer than MaxLen.                     *)
LEMMA ListsAreSequences == \A s \in Lists : s \in Seq(Keys) /\ Len(s) \in 0..MaxLen
BY LenAssumption DEF Lists

(* The pin and the elements of the list are integers, and so are ordered.  *)
LEMMA ElementsAreOrdered ==
  ASSUME TypeOK
  PROVE  pin \in Int /\ \A k \in 1..Len(list) : list[k] \in Int
<1>1. pin \in Int
  BY KeysAssumption DEF TypeOK
<1>2. list \in Seq(Keys)
  BY ListsAreSequences DEF TypeOK
<1>3. \A k \in 1..Len(list) : list[k] \in Keys
  BY <1>2
<1> QED
  BY <1>1, <1>3, KeysAssumption

(* Without a wrap the arithmetic of size_t is that of the numbers.         *)
LEMMA NoWrap ==
  ASSUME NEW n \in Nat, n < SizeT
  PROVE  n % SizeT = n
BY SizeAssumption

(* The middle of the interval is in it, and what is left on either side is *)
(* no more than half.                                                      *)
LEMMA MiddleInside ==
  ASSUME HalfRange, TypeOK, Ends, ileft <= iright
  PROVE  /\ Middle \in 0..(Len(list) - 1)
         /\ ileft <= Middle + 1
         /\ Middle + 1 <= iright
         /\ Middle + 1 - ileft <= Left \div 2
         /\ iright - (Middle + 1) <= Left \div 2
         /\ Behind(Middle) = Middle + 2
<1>1. /\ ileft \in Nat /\ iright \in Nat /\ 1 <= ileft
      /\ Len(list) \in Nat /\ Len(list) <= MaxLen /\ iright <= Len(list)
  BY ListsAreSequences, LenAssumption DEF TypeOK, Ends
<1>2. Plus(ileft, iright) = ileft + iright
  BY <1>1, NoWrap, LenAssumption, SizeAssumption DEF Plus, HalfRange
<1> DEFINE m == (ileft + iright) \div 2
<1>3. m \in Nat /\ ileft <= m /\ m <= iright /\ 2 * m <= ileft + iright /\ ileft + iright <= 2 * m + 1
  BY <1>1
<1>4. Middle = m - 1
  BY <1>1, <1>2, <1>3, NoWrap, LenAssumption, SizeAssumption DEF Middle, Minus
<1>5. Behind(Middle) = Middle + 2
  BY <1>1, <1>3, <1>4, NoWrap, LenAssumption, SizeAssumption DEF Behind, Plus, HalfRange
<1> QED
  BY <1>1, <1>3, <1>4, <1>5 DEF Left

(* The invariant holds when the search begins.                             *)
LEMMA InitInvariant == HalfRange /\ Init => IInv
<1> SUFFICES ASSUME HalfRange, Init PROVE IInv
  OBVIOUS
<1>1. list \in Lists /\ Len(list) \in 0..MaxLen
  BY ListsAreSequences DEF Init
<1>2. TypeOK
  <2>1. list \in Lists /\ pin \in Keys /\ probed \in BOOLEAN
    BY DEF Init
  <2>2. iright \in 0..MaxLen
    BY <1>1 DEF Init
  <2>3. ileft \in 1..(MaxLen + 1) /\ i \in 0..MaxLen
    BY LenAssumption DEF Init
  <2> QED
    BY <2>1, <2>2, <2>3 DEF Init, TypeOK
<1>3. LeftSmaller /\ RightLarger
  BY <1>1 DEF Init, LeftSmaller, RightLarger
<1>4. Ends /\ LastProbe /\ ComparesElements /\ Answered
  BY <1>1 DEF Init, Ends, LastProbe, ComparesElements, Answered
<1> QED
  BY <1>2, <1>3, <1>4 DEF IInv

(* A step of the loop, with what it knows of the middle and its element.   *)
LEMMA ProbeOutcome ==
  ASSUME HalfRange, IInv, Probe
  PROVE  LET m == Middle
             e == list[m + 1]
         IN  /\ m \in 0..(Len(list) - 1)
             /\ ileft <= m + 1 /\ m + 1 <= iright
             /\ m + 1 - ileft <= Left \div 2
             /\ iright - (m + 1) <= Left \div 2
             /\ e \in Int /\ pin \in Int
             /\ i' = m /\ probed' = TRUE /\ list' = list /\ pin' = pin
             /\ \/ e > pin /\ iright' = m /\ UNCHANGED <<ileft, pc, retIdx>>
                \/ e < pin /\ ileft' = m + 2 /\ UNCHANGED <<iright, pc, retIdx>>
                \/ /\ e = pin /\ pc' = "found" /\ retIdx' = m
                   /\ UNCHANGED <<ileft, iright>>
<1> DEFINE m == Middle
           e == list[m + 1]
<1>1. /\ m \in 0..(Len(list) - 1) /\ ileft <= m + 1 /\ m + 1 <= iright
      /\ m + 1 - ileft <= Left \div 2 /\ iright - (m + 1) <= Left \div 2
      /\ Behind(m) = m + 2
  BY MiddleInside DEF IInv, Probe, Loop
<1>2. list \in Seq(Keys) /\ Len(list) \in 0..MaxLen
  BY ListsAreSequences DEF IInv, TypeOK
<1>3. Element(m) = {e}
  BY <1>1, <1>2 DEF Element
<1>4. e \in Int /\ pin \in Int
  BY <1>1, <1>2, ElementsAreOrdered DEF IInv
<1> QED
  BY <1>1, <1>3, <1>4 DEF Probe

(* When the two ends have met, the insert position computed from the index *)
(* compared last is the one between them.                                  *)
LEMMA InsertInside ==
  ASSUME HalfRange, IInv, GiveUp
  PROVE  /\ InsertPosition = iright /\ InsertPosition = ileft - 1
         /\ InsertPosition \in 0..MaxLen
<1>1. /\ Len(list) \in 0..MaxLen /\ Len(list) >= 1
      /\ ileft > iright /\ ileft <= iright + 1 /\ iright <= Len(list) /\ iright \in 0..MaxLen
      /\ ileft \in 1..(MaxLen + 1) /\ i \in 0..MaxLen
  BY ListsAreSequences DEF IInv, TypeOK, Ends, GiveUp
<1>2. ileft = iright + 1
  BY <1>1, LenAssumption
<1>3. (iright = i \/ ileft = i + 2) /\ i < Len(list)
  BY <1>1, LenAssumption DEF IInv, LastProbe, ComparesElements, GiveUp
<1>4. Plus(i, 1) = i + 1 /\ Plus(i, 2) = i + 2
  BY <1>1, <1>3, NoWrap, LenAssumption, SizeAssumption DEF Plus, HalfRange
<1> QED
  BY <1>1, <1>2, <1>3, <1>4, LenAssumption DEF InsertPosition

(* Every turn of the loop, and every way out of it, preserves the invariant.*)
LEMMA StepInvariant == HalfRange /\ IInv /\ [Next]_vars => IInv'
<1> SUFFICES ASSUME HalfRange, IInv, [Next]_vars PROVE IInv'
  OBVIOUS
<1>0. /\ list \in Seq(Keys) /\ Len(list) \in 0..MaxLen
      /\ pin \in Int /\ \A k \in 1..Len(list) : list[k] \in Int
  BY ListsAreSequences, ElementsAreOrdered DEF IInv, TypeOK
<1>1. CASE Empty
  BY <1>0, <1>1, LenAssumption
     DEF Empty, IInv, TypeOK, LeftSmaller, RightLarger, Ends, LastProbe, ComparesElements, Answered,
         Unset
<1>2. CASE Probe
  <2> DEFINE m == Middle
  <2>0. /\ m \in 0..(Len(list) - 1) /\ ileft <= m + 1 /\ m + 1 <= iright
        /\ i' = m /\ probed' = TRUE /\ list' = list /\ pin' = pin
        /\ \/ list[m + 1] > pin /\ iright' = m /\ UNCHANGED <<ileft, pc, retIdx>>
           \/ list[m + 1] < pin /\ ileft' = m + 2 /\ UNCHANGED <<iright, pc, retIdx>>
           \/ pc' = "found" /\ retIdx' = m /\ UNCHANGED <<ileft, iright>>
    BY <1>2, ProbeOutcome
  <2>1. TypeOK'
    BY <1>0, <2>0, LenAssumption DEF IInv, TypeOK
  <2>2. LeftSmaller'
    <3> SUFFICES ASSUME Abstract!Sorted(list), NEW k \in 1..Len(list), k < ileft'
                 PROVE  list[k] < pin
      BY <2>0 DEF LeftSmaller
    <3>1. CASE k < ileft
      BY <3>1 DEF IInv, LeftSmaller
    <3>2. CASE ~(k < ileft)
      <4>1. k <= m + 1 /\ m + 1 \in 1..Len(list) /\ list[m + 1] < pin
        BY <1>0, <2>0, <3>2 DEF IInv, TypeOK
      <4>2. list[k] <= list[m + 1]
        BY <1>0, <4>1 DEF Abstract!Sorted
      <4> QED
        BY <1>0, <4>1, <4>2
    <3> QED
      BY <3>1, <3>2
  <2>3. RightLarger'
    <3> SUFFICES ASSUME Abstract!Sorted(list), NEW k \in 1..Len(list), k > iright'
                 PROVE  list[k] > pin
      BY <2>0 DEF RightLarger
    <3>1. CASE k > iright
      BY <3>1 DEF IInv, RightLarger
    <3>2. CASE ~(k > iright)
      <4>1. k >= m + 1 /\ m + 1 \in 1..Len(list) /\ list[m + 1] > pin
        BY <1>0, <2>0, <3>2 DEF IInv, TypeOK
      <4>2. list[m + 1] <= list[k]
        BY <1>0, <4>1 DEF Abstract!Sorted
      <4> QED
        BY <1>0, <4>1, <4>2
    <3> QED
      BY <3>1, <3>2
  <2>4. Ends' /\ LastProbe' /\ ComparesElements'
    BY <1>0, <2>0 DEF IInv, TypeOK, Ends, LastProbe, ComparesElements
  <2>5. Answered'
    BY <1>0, <1>2, <2>0 DEF IInv, Answered, Unset, Probe, Loop
  <2> QED
    BY <2>1, <2>2, <2>3, <2>4, <2>5 DEF IInv
<1>3. CASE GiveUp
  <2>1. InsertPosition \in 0..MaxLen
    BY <1>0, <1>3, InsertInside
  <2> QED
    BY <1>0, <1>3, <2>1
       DEF GiveUp, IInv, TypeOK, LeftSmaller, RightLarger, Ends, LastProbe, ComparesElements,
           Answered, Unset
<1>4. CASE UNCHANGED vars
  BY <1>4 DEF vars, IInv, TypeOK, LeftSmaller, RightLarger, Ends, LastProbe, ComparesElements, Answered
<1> QED
  BY <1>1, <1>2, <1>3, <1>4 DEF Next

-----------------------------------------------------------------------------
(* pf_bsearch_r keeps ileft one past the list at most, the index compared  *)
(* and the position it hands back in the range of the list.                *)
THEOREM TypeCorrect == HalfRange => (Spec => []TypeOK)
<1> SUFFICES ASSUME HalfRange PROVE Spec => []TypeOK
  OBVIOUS
<1>1. Init => IInv
  BY InitInvariant
<1>2. IInv /\ [Next]_vars => IInv'
  BY StepInvariant
<1>3. IInv => TypeOK
  BY DEF IInv
<1> QED
  BY <1>1, <1>2, <1>3, PTL DEF Spec

(* The comparison is only ever called with an index of the list.           *)
THEOREM OnlyElementsCompared == HalfRange => (Spec => []ComparesElements)
<1> SUFFICES ASSUME HalfRange PROVE Spec => []ComparesElements
  OBVIOUS
<1>1. Init => IInv
  BY InitInvariant
<1>2. IInv /\ [Next]_vars => IInv'
  BY StepInvariant
<1>3. IInv => ComparesElements
  BY DEF IInv
<1> QED
  BY <1>1, <1>2, <1>3, PTL DEF Spec

(* A turn of the loop leaves at most half of what was left, so that a list *)
(* of n elements takes no more turns than n has binary digits.             *)
THEOREM LogarithmicSearch == HalfRange => (Spec => Halves)
<1> SUFFICES ASSUME HalfRange PROVE Spec => Halves
  OBVIOUS
<1>1. Init => IInv
  BY InitInvariant
<1>2. IInv /\ [Next]_vars => IInv'
  BY StepInvariant
<1>3. IInv /\ [Next]_vars => [pc = "search" /\ pc' = "search" => Left' <= Left \div 2]_vars
  <2> SUFFICES ASSUME IInv, Next, pc = "search", pc' = "search"
               PROVE  Left' <= Left \div 2
    OBVIOUS
  <2>1. Probe
    BY DEF Next, Empty, GiveUp
  <2>2. ileft \in Int /\ iright \in Int
    BY LenAssumption DEF IInv, TypeOK
  <2> QED
    BY <2>1, <2>2, ProbeOutcome DEF Left
<1> QED
  BY <1>1, <1>2, <1>3, PTL DEF Spec, Halves

(* The search gives the answer SortedList asks for: the position of an     *)
(* element equal to the pin, or the only position it can be inserted at.   *)
(* In a list that is not sorted it may miss the pin, but never finds an    *)
(* element that is not equal to it.                                        *)
THEOREM SortedListImplemented == HalfRange => (Spec => ImplementsSortedList)
<1> SUFFICES ASSUME HalfRange PROVE Spec => ImplementsSortedList
  OBVIOUS
<1> DEFINE answer == IF pc = "search" THEN [found |-> FALSE, at |-> -1]
                                      ELSE [found |-> pc = "found", at |-> retIdx]
<1>1. Init => Abstract!SearchInit
  BY DEF Init, Abstract!SearchInit, Abstract!Pending
<1>2. IInv /\ [Next]_vars => [Abstract!Answer]_<<list, pin, answer>>
  <2> SUFFICES ASSUME IInv, [Next]_vars
               PROVE  [Abstract!Answer]_<<list, pin, answer>>
    OBVIOUS
  <2>0. Len(list) \in 0..MaxLen /\ list \in Seq(Keys)
    BY ListsAreSequences DEF IInv, TypeOK
  <2>1. CASE Empty
    <3>1. Abstract!Insertable(list, pin, 0)
      BY <2>0, <2>1 DEF Empty, Abstract!Insertable
    <3>2. answer' = [found |-> FALSE, at |-> 0]
      BY <2>1 DEF Empty
    <3>3. 0 \in 0..Len(list)
      BY <2>0
    <3>4. answer' \in Abstract!Answers(list, pin)
      BY <3>1, <3>2, <3>3, Zenon DEF Abstract!Answers
    <3> QED
      BY <2>1, <3>4 DEF Empty, Abstract!Answer, Abstract!Pending
  <2>2. CASE Probe
    <3> DEFINE m == Middle
    <3>1. /\ m \in 0..(Len(list) - 1) /\ list' = list /\ pin' = pin
          /\ \/ UNCHANGED <<pc, retIdx>>
             \/ list[m + 1] = pin /\ pc' = "found" /\ retIdx' = m
      BY <2>2, ProbeOutcome
    <3>2. CASE UNCHANGED <<pc, retIdx>>
      BY <3>1, <3>2
    <3>3. CASE list[m + 1] = pin /\ pc' = "found" /\ retIdx' = m
      <4>1. m + 1 \in 1..Len(list) /\ m = (m + 1) - 1
        BY <2>0, <3>1
      <4>2. answer' \in Abstract!Answers(list, pin)
        BY <3>3, <4>1 DEF Abstract!Answers
      <4> QED
        BY <2>2, <3>1, <4>2 DEF Probe, Loop, Abstract!Answer, Abstract!Pending
    <3> QED
      BY <3>1, <3>2, <3>3
  <2>3. CASE GiveUp
    <3> DEFINE p == InsertPosition
    <3>1. p = iright /\ p = ileft - 1 /\ p \in 0..MaxLen /\ p \in 0..Len(list)
      BY <2>0, <2>3, InsertInside DEF IInv, TypeOK, Ends
    <3>2. answer' = [found |-> FALSE, at |-> p]
      BY <2>3 DEF GiveUp
    <3>3. Abstract!Sorted(list) => Abstract!Insertable(list, pin, p)
      <4> SUFFICES ASSUME Abstract!Sorted(list) PROVE Abstract!Insertable(list, pin, p)
        OBVIOUS
      <4>1. \A k \in 1..p : list[k] < pin
        BY <2>0, <3>1 DEF IInv, TypeOK, LeftSmaller
      <4>2. \A k \in (p + 1)..Len(list) : list[k] > pin
        BY <2>0, <3>1 DEF IInv, TypeOK, RightLarger
      <4> QED
        BY <4>1, <4>2 DEF Abstract!Insertable
    <3>4. answer' \in Abstract!Answers(list, pin)
      BY <3>1, <3>2, <3>3, Zenon DEF Abstract!Answers
    <3> QED
      BY <2>3, <3>4 DEF GiveUp, Abstract!Answer, Abstract!Pending
  <2>4. CASE UNCHANGED vars
    BY <2>4 DEF vars
  <2> QED
    BY <2>1, <2>2, <2>3, <2>4 DEF Next
<1>3. Init => IInv
  BY InitInvariant
<1>4. IInv /\ [Next]_vars => IInv'
  BY StepInvariant
<1> QED
  BY <1>1, <1>2, <1>3, <1>4, PTL DEF Spec, ImplementsSortedList, Abstract!SearchSpec
=============================================================================
