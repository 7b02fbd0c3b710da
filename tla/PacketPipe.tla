----------------------------- MODULE PacketPipe -----------------------------
(***************************************************************************)
(* What a receive buffer promises whoever writes packets to a connection:  *)
(* packets numbered 1, 2, 3, ... are handled one at a time, in the order   *)
(* they were sent, none twice and none skipped, however the byte stream    *)
(* was cut into reads.                                                     *)
(***************************************************************************)
EXTENDS Naturals, Sequences

VARIABLES
    sent,      \* the number of packets written so far
    handled    \* the numbers of the packets handled, in order

pipeVars == <<sent, handled>>

PipeInit == sent = 0 /\ handled = <<>>

Accept == sent' = sent + 1 /\ UNCHANGED handled

Deliver ==
    /\ Len(handled) < sent
    /\ handled' = Append(handled, Len(handled) + 1)
    /\ UNCHANGED sent

PipeNext == Accept \/ Deliver

PipeSpec == PipeInit /\ [][PipeNext]_pipeVars
=============================================================================
