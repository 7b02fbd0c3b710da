------------------------------ MODULE MCSession ------------------------------
(***************************************************************************)
(* Session for TLC.  A header of two bytes and a checksum (MinLen = 3), so *)
(* that a header can be a mixture of two packets; a buffer that holds one  *)
(* packet and a part of the next; a bulk write that does not fit into it.  *)
(***************************************************************************)
EXTENDS Session

CONSTANT c1

Sizes == [k \in Requests |-> CASE k = "read" -> 3 [] k = "write" -> 4 [] k = "bulk" -> 6]

Write == <<"write">>
Empty == <<>>
AnyOf(files) == [Clients -> files]

Writes == AnyOf({Write, Write \o Write})
FittingScripts == AnyOf({Empty, Write, Write \o Write, <<"read", "write">>})
SleepScripts == AnyOf({<<"write", "sleep">>})

(* Not every pair of files: with these every one meets a different one. *)
Files(one, other) == [c \in Clients |-> IF c = c1 THEN one ELSE other]

AnyScripts == {Files(Write, <<"write", "read">>), Files(<<"bulk">>, <<"write", "read">>),
               Files(<<"bulk">>, Empty)}
=============================================================================
