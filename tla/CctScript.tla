----------------------------- MODULE CctScript ------------------------------
(***************************************************************************)
(* The command scripts gencctcmd writes for the I/O devices of a rack: the *)
(* parsing of its arguments and the lines it prints for them.              *)
(*                                                                         *)
(* A device has three ports of W pins: the power switches at port 0, the   *)
(* latches of the attenuators at port 1, the data bus of the attenuators   *)
(* at port 2.  A word of the device is a set of pins, a byte the set of    *)
(* its bits; an argument is a sequence of tokens.                          *)
(***************************************************************************)
EXTENDS Integers, Sequences

CONSTANT W   \* pins of a port: 8 in the code

ASSUME WidthAssumption == W \in Nat /\ W > 0

Low == 0..(W - 1)

(* Broken: the bits above a port are kept. *)
BitsUnmasked(v) == {b \in 0..(W + 1) : (v \div 2^b) % 2 = 1}

(* v >> n *)
Shifted(v) == LET shift[n \in 0..W] == IF n = 0 THEN v ELSE shift[n - 1] \div 2 IN shift

(* v & 0xFF *)
Bits(v) == {b \in Low : Shifted(v)[b] % 2 = 1}

(* The first pin of each port. *)
PowerPort == 0
LatchPort == W
BusPort == 2 * W

Port(S, first) == {first + p : p \in S}

-----------------------------------------------------------------------------
(* parse_values_atten *)

P == [t |-> "p="]
V == [t |-> "v="]
All == [t |-> "all"]
Comma == [t |-> "comma"]
Semi == [t |-> "semi"]
Other == [t |-> "other"]
N(k) == [t |-> "number", n |-> k]

Tokens == {P, V, All, Comma, Semi, Other} \cup [t : {"number"}, n : Nat]

AllPins == 0..31

(* EDIO24_INVALID_INT *)
Unset == -1

Start(v) == [type |-> "", got |-> FALSE, mask |-> {}, val |-> v, skip |-> FALSE, ok |-> TRUE]

(* Behind a number or "all" the loop steps over one more character, unseen: *)
(* a separator is lost, and of a word the rest is an error.                *)
Skipped(s, tk) == [s EXCEPT !.skip = FALSE, !.ok = tk.t \notin {"p=", "v=", "all"}]

(* Broken: of a list of positions only the first is kept. *)
NumberKeepsFirst(s, k) ==
    [s EXCEPT !.mask = IF s.type = "p=" /\ @ = {} THEN {k} ELSE @,
              !.val = IF s.type = "v=" THEN k ELSE @,
              !.got = TRUE, !.skip = TRUE]

(* A position of more than 31 shifts an int too far: it has no meaning in  *)
(* the code, and is none of the pins here.                                 *)
Number(s, k) ==
    [s EXCEPT !.mask = IF s.type = "p=" THEN @ \cup {k} ELSE @,
              !.val = IF s.type = "v=" THEN k ELSE @,
              !.got = TRUE, !.skip = TRUE]

Token(s, tk) ==
    CASE tk.t \in {"p=", "v="} -> [s EXCEPT !.type = tk.t, !.got = FALSE]
      [] tk.t = "all" /\ s.type = "p=" ->
           [s EXCEPT !.mask = AllPins, !.type = "", !.got = TRUE, !.skip = TRUE]
      [] tk.t = "all" /\ s.type # "p=" -> [s EXCEPT !.ok = FALSE]
      [] tk.t = "comma" -> s
      [] tk.t = "semi" -> [s EXCEPT !.type = ""]
      [] tk.t = "number" -> Number(s, tk.n)
      [] tk.t = "other" -> [s EXCEPT !.ok = FALSE]

Turn(s, tk) == IF ~s.ok THEN s ELSE IF s.skip THEN Skipped(s, tk) ELSE Token(s, tk)

(* The loop behind each token. *)
Scan(arg, v) ==
    LET state[n \in 0..Len(arg)] == IF n = 0 THEN Start(v) ELSE Turn(state[n - 1], arg[n])
    IN  state

(* What was read before an error stays read: the callers that do not look  *)
(* at the return value go on with it.                                      *)
Parse(arg, v) ==
    LET s == Scan(arg, v)[Len(arg)]
    IN  [ok |-> arg # <<>> /\ s.ok /\ ~(s.type = "v=" /\ ~s.got), mask |-> s.mask, val |-> s.val]

-----------------------------------------------------------------------------
(* The blocks of lines written for an argument: output_power, output_atten. *)

Block == [kind : {"power", "atten"}, pins : SUBSET Low, val : SUBSET Low]

(* parse_values_power: a value is not allowed. *)
OutputPower(arg) ==
    LET r == Parse(arg, Unset)
    IN  IF r.ok /\ r.val = Unset
          THEN <<[kind |-> "power", pins |-> r.mask \cap Low, val |-> {}]>> ELSE <<>>

OutputAtten(arg) ==
    LET r == Parse(arg, 31)
    IN  IF r.ok THEN <<[kind |-> "atten", pins |-> r.mask \cap Low, val |-> Bits(r.val)]>> ELSE <<>>

DConfigW(mask, value) == [op |-> "DConfigW", mask |-> mask, value |-> value]
DOutW(mask, value) == [op |-> "DOutW", mask |-> mask, value |-> value]
Sleep == [op |-> "Sleep", mask |-> {}, value |-> {}]

AllOutputs == DConfigW(0..(3 * W - 1), {})

PowerLines(b) == <<AllOutputs, DOutW(Port(Low, PowerPort), Port(b.pins, PowerPort))>>

(* Broken: the script does not close the latches behind the value. *)
AttenLinesLeaveOpen(b) ==
    <<AllOutputs,
      DOutW(Port(b.pins, LatchPort), {}),
      DOutW(Port(Low, BusPort), Port(b.val, BusPort)),
      Sleep,
      DOutW(Port(b.pins, LatchPort), Port(b.pins, LatchPort)),
      Sleep,
      Sleep,
      DOutW(Port(Low, BusPort), {})>>

(* Broken: the latches are written as a whole port, others go with them. *)
AttenLinesAllLatches(b) ==
    <<AllOutputs,
      DOutW(Port(b.pins, LatchPort), {}),
      DOutW(Port(Low, BusPort), Port(b.val, BusPort)),
      Sleep,
      DOutW(Port(Low, LatchPort), Port(Low, LatchPort)),
      Sleep,
      DOutW(Port(Low, LatchPort), {}),
      DOutW(Port(Low, BusPort), {})>>

(* Broken: the bus is written over the power switches. *)
AttenLinesOverPower(b) ==
    <<AllOutputs,
      DOutW(Port(b.pins, LatchPort), {}),
      DOutW(Port(Low, PowerPort), Port(b.val, PowerPort)),
      Sleep,
      DOutW(Port(b.pins, LatchPort), Port(b.pins, LatchPort)),
      Sleep,
      DOutW(Port(b.pins, LatchPort), {}),
      DOutW(Port(Low, BusPort), {})>>

(* The latches go low, the value is put on the bus, the latches go high    *)
(* and low again, and the bus is cleared.                                  *)
AttenLines(b) ==
    <<AllOutputs,
      DOutW(Port(b.pins, LatchPort), {}),
      DOutW(Port(Low, BusPort), Port(b.val, BusPort)),
      Sleep,
      DOutW(Port(b.pins, LatchPort), Port(b.pins, LatchPort)),
      Sleep,
      DOutW(Port(b.pins, LatchPort), {}),
      DOutW(Port(Low, BusPort), {})>>

BlockLines(b) == IF b.kind = "power" THEN PowerLines(b) ELSE AttenLines(b)

-----------------------------------------------------------------------------
(* do_setatten: an attenuator of a board is a pair of switches, upper and  *)
(* lower, each set to one half of the value.                               *)

Half1(val) == val \div 2
Half2(val) == IF Half1(val) = 0 THEN val ELSE val - Half1(val)

(* The arguments are printed into a text, and parsed again. *)
Pair(boards, first, second) == (IF 0 \in boards THEN first ELSE <<>>) \o (IF 1 \in boards THEN second ELSE <<>>)

SetAtten(arg) ==
    LET r == Parse(arg, 0)
        v1 == <<V, N(Half1(r.val)), Semi, P>>
        v2 == <<V, N(Half2(r.val)), Semi, P>>
    IN  IF Half1(r.val) = Half2(r.val)
          THEN OutputAtten(v1 \o Pair(r.mask, <<N(0), Comma, N(1)>>, <<Comma, N(2), Comma, N(3)>>))
          ELSE OutputAtten(v1 \o Pair(r.mask, <<N(0)>>, <<Comma, N(2)>>))
               \o OutputAtten(v2 \o Pair(r.mask, <<N(1)>>, <<Comma, N(3)>>))

(* Broken: the boards are counted from 0. *)
ListedFromZero(boards) ==
    LET text[n \in 0..W] == IF n = 0 THEN <<P>>
                            ELSE IF n \in boards THEN text[n - 1] \o <<N(n), Comma>> ELSE text[n - 1]
    IN  text

(* What is printed for the first n boards; position 0 is the root, the     *)
(* boards 1..W are the pins 0..W-1.                                        *)
Listed(boards) ==
    LET text[n \in 0..W] == IF n = 0 THEN <<P>>
                            ELSE IF n \in boards THEN text[n - 1] \o <<N(n - 1), Comma>> ELSE text[n - 1]
    IN  text

(* do_setpower *)
SetPower(arg) == OutputPower(Listed(Parse(arg, 0).mask)[W])

(* What an option of gencctcmd writes for one device. *)
Blocks(r) ==
    CASE r.opt = "n" -> OutputAtten(r.arg)
      [] r.opt = "w" -> OutputPower(r.arg)
      [] r.opt = "a" -> SetAtten(r.arg)
      [] r.opt = "p" -> SetPower(r.arg)
=============================================================================
