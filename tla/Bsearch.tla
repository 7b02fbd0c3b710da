------------------------------ MODULE Bsearch -------------------------------
(***************************************************************************)
(* pf_bsearch_r of utils.c: the binary search gencctcmd uses to find a     *)
(* board in the list it has read.  The C code keeps ileft and iright       *)
(* counted from one, so that they never become negative, and the index i   *)
(* it hands to the comparison counted from zero.  Both are size_t: sums    *)
(* and differences wrap at SizeT.                                          *)
(*                                                                         *)
(* Elements are compared by a callback; what it compares is a total order, *)
(* here the order of the integers.                                         *)
(***************************************************************************)
EXTENDS Integers, Sequences

CONSTANTS
    SizeT,    \* SIZE_MAX + 1
    MaxLen,   \* the longest list
    Keys      \* what the elements and the pin are compared by

ASSUME SizeAssumption == SizeT \in Nat /\ SizeT > 0
ASSUME LenAssumption == MaxLen \in Nat /\ MaxLen < SizeT
ASSUME KeysAssumption == Keys \subseteq Int

VARIABLES
    list, pin,      \* userdata, data_pinpoint
    ileft, iright,
    i,              \* the index compared last
    probed,         \* the loop body has run
    pc,             \* "search", or "found" (0) or "missing" (-1) once returned
    retIdx          \* *ret_idx

vars == <<list, pin, ileft, iright, i, probed, pc, retIdx>>

Plus(a, b) == (a + b) % SizeT
Minus(a, b) == (a - b) % SizeT

Unset == -1

Lists == UNION {[1..n -> Keys] : n \in 0..MaxLen}

Init ==
    /\ list \in Lists
    /\ pin \in Keys
    /\ ileft = 1
    /\ iright = Len(list)
    /\ i = 0
    /\ probed = FALSE
    /\ pc = "search"
    /\ retIdx = Unset

(* An empty list: "num_data < 1". *)
Empty ==
    /\ pc = "search"
    /\ Len(list) < 1
    /\ pc' = "missing"
    /\ retIdx' = 0
    /\ UNCHANGED <<list, pin, ileft, iright, i, probed>>

(* Broken: the middle of indexes from one is taken for an index from zero. *)
MiddleNotShifted == Plus(ileft, iright) \div 2

Middle == Minus(Plus(ileft, iright) \div 2, 1)

(* Reading behind the end of the list is undefined: any element. *)
Element(m) == IF m < Len(list) THEN {list[m + 1]} ELSE Keys

(* Broken: an index from zero is taken for one from one. *)
BehindNotShifted(m) == m

(* Broken: the middle stays in the interval. *)
BehindKeeps(m) == Plus(m, 1)

(* The element behind the middle, counted from one. *)
Behind(m) == Plus(m, 2)

Loop == pc = "search" /\ Len(list) >= 1 /\ ileft <= iright

(* One turn of the loop: the interval is cut, or the element is the one.   *)
Probe ==
    /\ Loop
    /\ i' = Middle
    /\ probed' = TRUE
    /\ \E e \in Element(Middle) :
         \/ /\ e > pin
            /\ iright' = Middle
            /\ UNCHANGED <<ileft, pc, retIdx>>
         \/ /\ e < pin
            /\ ileft' = Behind(Middle)
            /\ UNCHANGED <<iright, pc, retIdx>>
         \/ /\ e = pin
            /\ pc' = "found"
            /\ retIdx' = Middle
            /\ UNCHANGED <<ileft, iright>>
    /\ UNCHANGED <<list, pin>>

(* Broken: always the index compared last. *)
InsertPositionLast == i

(* Where the pin would be inserted, from the side the last turn cut off.   *)
InsertPosition ==
    IF iright <= i THEN i
    ELSE IF ileft >= Plus(i, 2) THEN Plus(i, 1)
    ELSE retIdx

GiveUp ==
    /\ pc = "search"
    /\ Len(list) >= 1
    /\ ileft > iright
    /\ pc' = "missing"
    /\ retIdx' = InsertPosition
    /\ UNCHANGED <<list, pin, ileft, iright, i, probed>>

Next == Empty \/ Probe \/ GiveUp

Spec == Init /\ [][Next]_vars

(* The function is called and runs. *)
FairSpec == Spec /\ WF_vars(Next)

-----------------------------------------------------------------------------
(* Every variable stays in its domain. *)
TypeOK ==
    /\ list \in Lists
    /\ pin \in Keys
    /\ ileft \in 1..(MaxLen + 1)
    /\ iright \in 0..MaxLen
    /\ i \in 0..MaxLen
    /\ probed \in BOOLEAN
    /\ pc \in {"search", "found", "missing"}
    /\ retIdx \in 0..MaxLen \cup {Unset}

(* The comparison is never called with an index that is not one of the     *)
(* list, not even if the list is not sorted.                               *)
ComparesElements == probed => i < Len(list)

(* "the position of the required data; if failed ... the insert position": *)
(* pf_bsearch_r promises what SortedList says.                             *)
Abstract == INSTANCE SortedList WITH
    answer <- IF pc = "search" THEN [found |-> FALSE, at |-> -1]
                               ELSE [found |-> pc = "found", at |-> retIdx]

ImplementsSortedList == Abstract!SearchSpec

(* Every turn of the loop that does not end it leaves at most half of what *)
(* was left: the search needs no more turns than the length has digits.    *)
Left == iright + 1 - ileft

Halves == [][pc = "search" /\ pc' = "search" => Left' <= Left \div 2]_vars

(* The search ends, whatever the list. *)
SearchEnds == <>(pc # "search")
=============================================================================
