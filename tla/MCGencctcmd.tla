----------------------------- MODULE MCGencctcmd ------------------------------
(***************************************************************************)
(* Gencctcmd for TLC: two clusters of two boards, lists with room for two  *)
(* rows at first, so that three rows make one grow.  Row(n) is the row of  *)
(* the n-th name of a board, Long(n) one too long, right behind it.        *)
(***************************************************************************)
EXTENDS Gencctcmd

Row(n) == [t |-> "row", n |-> 2 * n]
Long(n) == [t |-> "long", n |-> 2 * n + 1]
Comment == [t |-> "comment", n |-> 0]
Blank == [t |-> "blank", n |-> 0]

Calls ==
    {[opt |-> "c", arg |-> <<P, N(1)>>],
     [opt |-> "c", arg |-> <<P, All>>],
     [opt |-> "i", lines |-> <<Comment, Row(1), Blank, Row(2), Row(3)>>],
     [opt |-> "i", lines |-> <<Row(4)>>],
     [opt |-> "i", lines |-> <<Long(0), Row(4)>>],
     [opt |-> "j", lines |-> <<Row(3), Comment, Row(4), Row(5)>>],
     [opt |-> "j", lines |-> <<Row(4), Row(1)>>],
     [opt |-> "j", lines |-> <<Row(3), Long(3), Row(5)>>],
     [opt |-> "j", lines |-> <<>>],
     [opt |-> "b", arg |-> <<P, N(0), Comma, Other>>],
     [opt |-> "b", arg |-> <<P, All>>],
     [opt |-> "b", arg |-> <<P, N(1), Semi, V, N(1)>>],
     [opt |-> "a", arg |-> <<P, N(0), Comma, N(1), Semi, V, N(3)>>],
     [opt |-> "p", arg |-> <<P, All>>],
     [opt |-> "r", arg |-> <<P, N(1)>>],
     [opt |-> "w", arg |-> <<P, N(0)>>],
     [opt |-> "d", arg |-> <<>>]}
=============================================================================
