-------------------------------- MODULE Rack --------------------------------
(***************************************************************************)
(* One I/O device of the rack and the power switches and attenuators wired *)
(* to it, driven by the scripts gencctcmd writes.  A script is sent line   *)
(* by line by edio24cli and may be cut off behind any line: the session    *)
(* ends, the device keeps its outputs.  Then another script comes.         *)
(*                                                                         *)
(* The device and what is wired to it are external: the device drives the  *)
(* pins that are configured as outputs; an attenuator follows the data bus *)
(* while its latch is high and holds its value while it is low.            *)
(***************************************************************************)
EXTENDS CctScript

CONSTANT Requests   \* the options gencctcmd is called with: [opt, arg]

ASSUME RequestsAssumption ==
    \A r \in Requests : r.opt \in {"n", "w", "a", "p"} /\ r.arg \in Seq(Tokens)

VARIABLES
    todo,     \* the blocks of the script not executed to their end
    at,       \* the next line of the first of them
    request,  \* the request the last script was written for
    done,     \* that script was executed to its end
    config,   \* the pins configured as inputs
    out,      \* the output register
    atten,    \* the setting of every attenuator
    want      \* what the last block executed set it to, if that is known

vars == <<todo, at, request, done, config, out, atten, want>>

Unknown == {-1}   \* not a set of bits

None == [opt |-> "none", arg |-> <<>>]

Words == SUBSET (0..(3 * W - 1))

Init ==
    /\ todo = <<>>
    /\ at = 1
    /\ request = None
    /\ done = FALSE
    /\ config \in {{}, 0..(3 * W - 1)}
    /\ out = {}
    /\ atten \in [Low -> {{}}]
    /\ want = [k \in Low |-> Unknown]

-----------------------------------------------------------------------------
(* The device. *)

Driven(o, c) == o \ c

Power == {k \in Low : PowerPort + k \in Driven(out, config)}

LatchOpen(o, c, k) == LatchPort + k \in Driven(o, c)

Bus(o, c) == {k \in Low : BusPort + k \in Driven(o, c)}

Write(word, l) == (word \ l.mask) \cup (l.value \cap l.mask)

Line == BlockLines(Head(todo))[at]

Drive ==
    /\ config' = IF Line.op = "DConfigW" THEN Write(config, Line) ELSE config
    /\ out' = IF Line.op = "DOutW" THEN Write(out, Line) ELSE out
    /\ atten' = [k \in Low |-> IF LatchOpen(out', config', k) THEN Bus(out', config') ELSE atten[k]]

-----------------------------------------------------------------------------
(* A script is written and its execution begins. *)
Begin(r) ==
    /\ todo = <<>>
    /\ todo' = Blocks(r)
    /\ at' = 1
    /\ request' = r
    /\ done' = (todo' = <<>>)
    /\ UNCHANGED <<config, out, atten, want>>

(* The next line of a block is executed. *)
Execute ==
    /\ todo # <<>>
    /\ at < Len(BlockLines(Head(todo)))
    /\ Drive
    /\ at' = at + 1
    /\ UNCHANGED <<todo, request, done, want>>

Selected == IF todo # <<>> /\ Head(todo).kind = "atten" THEN Head(todo).pins ELSE {}

(* The last one is: the attenuators it was for are set. *)
Complete ==
    /\ todo # <<>>
    /\ at = Len(BlockLines(Head(todo)))
    /\ Drive
    /\ todo' = Tail(todo)
    /\ at' = 1
    /\ done' = (Tail(todo) = <<>>)
    /\ want' = [k \in Low |-> IF k \in Selected THEN Head(todo).val ELSE want[k]]
    /\ UNCHANGED request

(* The session ends before the script does: what was being set is unknown, *)
(* and so are the attenuators whose latches are still open.                *)
Interrupt ==
    /\ todo # <<>>
    /\ todo' = <<>>
    /\ at' = 1
    /\ done' = FALSE
    /\ want' = [k \in Low |-> IF k \in Selected \/ LatchOpen(out, config, k) THEN Unknown ELSE want[k]]
    /\ UNCHANGED <<request, config, out, atten>>

Next == (\E r \in Requests : Begin(r)) \/ Execute \/ Complete \/ Interrupt

Spec == Init /\ [][Next]_vars

-----------------------------------------------------------------------------
(* Every variable stays in its domain. *)
TypeOK ==
    /\ todo \in Seq(Block)
    /\ at \in 1..8
    /\ request \in Requests \cup {None}
    /\ done \in BOOLEAN
    /\ config \in Words
    /\ out \in Words
    /\ atten \in [Low -> SUBSET Low]
    /\ want \in [Low -> (SUBSET Low) \cup {Unknown}]

(* The latches an interrupted script has left open. *)
Torn == {k \in Low : LatchOpen(out, config, k) /\ ~(k \in Selected /\ at \in {6, 7})}

(* An attenuator never takes a value nobody asked for, not even while its  *)
(* latch is open: it changes to the value of the block that selects it, or *)
(* it is one whose latch an interrupted script has left open.              *)
ChangesAsAsked == [][\A k \in Low : atten'[k] # atten[k] =>
    \/ k \in Selected /\ atten'[k] = Head(todo).val
    \/ k \in Torn]_vars

(* However many scripts were cut off before, and wherever: an attenuator   *)
(* has the value of the last block that was executed to its end for it,    *)
(* unless a later script that selected it, or left its latch open, was cut *)
(* off.                                                                    *)
HoldsWhatWasSet == \A k \in Low :
    want[k] = Unknown \/ k \in Selected \/ atten[k] = want[k]

(* Power is switched in one line, and by no script for the attenuators.    *)
PowerSwitchedAtOnce == [][Power' # Power =>
    /\ todo # <<>>
    /\ Head(todo).kind = "power"
    /\ Power' = Head(todo).pins]_vars

(* When a script is over no latch is open but those of an interrupted one  *)
(* it did not select: a retry repairs what the interruption left.          *)
LatchesClosed == \A k \in Low : want[k] # Unknown =>
    ~LatchOpen(out, config, k) \/ k \in Selected

(* The n highest bits of a set of bits, read as a number. *)
Read(bits) ==
    LET value[n \in 0..W] ==
          IF n = 0 THEN 0 ELSE 2 * value[n - 1] + (IF W - n \in bits THEN 1 ELSE 0)
    IN  value

Number2(bits) == Read(bits)[W]

(* A script of -a that was executed to its end leaves the two switches of  *)
(* every board it names at the value asked for, put together; what the     *)
(* switches were before, and what was cut off before, does not matter.     *)
CombinedValueSet == done /\ request.opt = "a" =>
    LET r == Parse(request.arg, 0)
    IN  \A j \in r.mask \cap {0, 1} :
          r.ok /\ r.val <= Number2(Low) => Number2(atten[2 * j]) + Number2(atten[2 * j + 1]) = r.val

(* A script of -p that was executed to its end has switched on the boards  *)
(* it names and switched off all others: help(), "'p=' -- all off".        *)
PowerAsAsked == done /\ request.opt = "p" =>
    Power = {b - 1 : b \in Parse(request.arg, 0).mask \cap 1..W}
=============================================================================
