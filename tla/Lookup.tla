------------------------------- MODULE Lookup --------------------------------
(***************************************************************************)
(* The answers a search for x in the sequence s may give.  Positions are   *)
(* counted from zero, as the callers do.                                   *)
(***************************************************************************)
EXTENDS Integers, Sequences

Sorted(s) == \A j, k \in 1..Len(s) : j < k => s[j] <= s[k]

(* Everything before the position is smaller, everything from it on larger. *)
Insertable(s, x, p) ==
    /\ \A k \in 1..p : s[k] < x
    /\ \A k \in (p + 1)..Len(s) : s[k] > x

(* The answers to a search for x in s.  If s is not sorted x may be missed, *)
(* but what is found is always equal to it.                                *)
Answers(s, x) ==
    {[found |-> TRUE, at |-> k - 1] : k \in {k \in 1..Len(s) : s[k] = x}}
    \cup {[found |-> FALSE, at |-> p] : p \in {p \in 0..Len(s) : Sorted(s) => Insertable(s, x, p)}}
=============================================================================
