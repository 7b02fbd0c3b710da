----------------------------- MODULE SortedList -----------------------------
(***************************************************************************)
(* What a search of a sorted list promises its caller: one answer, given   *)
(* once.  If an element is equal to the pin, the position of such an       *)
(* element; if none is, the position at which the pin can be inserted.     *)
(* Positions are counted from zero, as the callers do.                     *)
(***************************************************************************)
EXTENDS Lookup

VARIABLES list, pin, answer

Pending == [found |-> FALSE, at |-> -1]

Answer ==
    /\ answer = Pending
    /\ answer' \in Answers(list, pin)
    /\ UNCHANGED <<list, pin>>

SearchInit == answer = Pending

SearchSpec == SearchInit /\ [][Answer]_<<list, pin, answer>>
=============================================================================
