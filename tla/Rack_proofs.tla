---------------------------- MODULE Rack_proofs ------------------------------
(***************************************************************************)
(* Proofs about Rack, for ports of any width and any set of requests.      *)
(*                                                                         *)
(* First what the lines of a block do to the registers and what that does  *)
(* to the attenuators (IInv).  Then what the two options -p and -a that    *)
(* print a text and parse it again make of it: the loop of the parser is a *)
(* recursive function, and what it reads of a text is proved token by      *)
(* token, and of a list by induction on the list (module Induction).       *)
(***************************************************************************)
EXTENDS Rack, Induction, TLAPS

(* The three ports of a word, pin by pin. *)
Switch(o, k) == PowerPort + k \in o
Latch(o, k) == LatchPort + k \in o
Data(o, k) == BusPort + k \in o

(* The pins of the ports are different pins. *)
LEMMA Ports ==
  ASSUME NEW S \in SUBSET Low, NEW k \in Low
  PROVE  /\ Switch(Port(S, PowerPort), k) <=> k \in S
         /\ Latch(Port(S, LatchPort), k) <=> k \in S
         /\ Data(Port(S, BusPort), k) <=> k \in S
         /\ ~Switch(Port(S, LatchPort), k) /\ ~Switch(Port(S, BusPort), k)
         /\ ~Latch(Port(S, PowerPort), k) /\ ~Latch(Port(S, BusPort), k)
         /\ ~Data(Port(S, PowerPort), k) /\ ~Data(Port(S, LatchPort), k)
<1>1. W \in Nat /\ W > 0 /\ k \in 0..(W - 1) /\ \A p \in S : p \in 0..(W - 1)
  BY WidthAssumption DEF Low
<1> QED
  BY <1>1 DEF Port, Switch, Latch, Data, PowerPort, LatchPort, BusPort

(* Pins put on any of the ports are pins of the device.                    *)
LEMMA PortsAreWords ==
  ASSUME NEW S \in SUBSET Low, NEW first \in {PowerPort, LatchPort, BusPort}
  PROVE  Port(S, first) \in Words
<1>1. W \in Nat /\ W > 0 /\ \A p \in S : p \in 0..(W - 1)
  BY WidthAssumption DEF Low
<1>2. \A p \in S : first + p \in 0..(3 * W - 1)
  BY <1>1 DEF PowerPort, LatchPort, BusPort
<1> QED
  BY <1>2 DEF Port, Words

(* Sequences of no element and of one.                                     *)
LEMMA Singletons == \A S : <<>> \in Seq(S) /\ \A x \in S : <<x>> \in Seq(S)
OBVIOUS

(* Whatever its arguments are, gencctcmd writes blocks. *)
LEMMA BlocksTyped == \A r \in Requests : Blocks(r) \in Seq(Block)
<1>1. ASSUME NEW arg PROVE OutputPower(arg) \in Seq(Block)
  <2> DEFINE b == [kind |-> "power", pins |-> Parse(arg, Unset).mask \cap Low, val |-> {}]
  <2>1. b \in Block
    BY DEF Block
  <2>2. OutputPower(arg) = <<b>> \/ OutputPower(arg) = <<>>
    BY DEF OutputPower
  <2> HIDE DEF b
  <2> QED
    BY <2>1, <2>2, Singletons
<1>2. ASSUME NEW arg PROVE OutputAtten(arg) \in Seq(Block)
  <2> DEFINE b == [kind |-> "atten", pins |-> Parse(arg, 31).mask \cap Low,
                   val |-> Bits(Parse(arg, 31).val)]
  <2>1. b \in Block
    BY DEF Block, Bits
  <2>2. OutputAtten(arg) = <<b>> \/ OutputAtten(arg) = <<>>
    BY DEF OutputAtten
  <2> HIDE DEF b
  <2> QED
    BY <2>1, <2>2, Singletons
<1>3. ASSUME NEW arg PROVE SetPower(arg) \in Seq(Block)
  BY <1>1 DEF SetPower
<1>4. ASSUME NEW arg PROVE SetAtten(arg) \in Seq(Block)
  BY <1>2 DEF SetAtten
<1> SUFFICES ASSUME NEW r \in Requests PROVE Blocks(r) \in Seq(Block)
  OBVIOUS
<1>5. \/ Blocks(r) = OutputAtten(r.arg) \/ Blocks(r) = OutputPower(r.arg)
      \/ Blocks(r) = SetAtten(r.arg) \/ Blocks(r) = SetPower(r.arg)
  BY RequestsAssumption, Zenon DEF Blocks
<1> QED
  BY <1>1, <1>2, <1>3, <1>4, <1>5

-----------------------------------------------------------------------------
(* What a line does to the registers, pin by pin. *)

(* The lines of a block, one by one.                                       *)
LEMMA LineAt ==
  ASSUME NEW b \in Block
  PROVE  /\ b.kind = "power" => Len(BlockLines(b)) = 2
         /\ b.kind = "atten" => Len(BlockLines(b)) = 8
         /\ BlockLines(b)[1] = AllOutputs
         /\ b.kind = "power" => BlockLines(b)[2] = DOutW(Port(Low, PowerPort), Port(b.pins, PowerPort))
         /\ b.kind = "atten" =>
              /\ BlockLines(b)[2] = DOutW(Port(b.pins, LatchPort), {})
              /\ BlockLines(b)[3] = DOutW(Port(Low, BusPort), Port(b.val, BusPort))
              /\ BlockLines(b)[4] = Sleep
              /\ BlockLines(b)[5] = DOutW(Port(b.pins, LatchPort), Port(b.pins, LatchPort))
              /\ BlockLines(b)[6] = Sleep
              /\ BlockLines(b)[7] = DOutW(Port(b.pins, LatchPort), {})
              /\ BlockLines(b)[8] = DOutW(Port(Low, BusPort), {})
<1>1. CASE b.kind = "power"
  BY <1>1 DEF BlockLines, PowerLines
<1>2. CASE b.kind = "atten"
  BY <1>2 DEF BlockLines, AttenLines
<1> QED
  BY <1>1, <1>2 DEF Block

(* A block has two lines or eight.                                         *)
LEMMA BlockLengths ==
  \A b \in Block : Len(BlockLines(b)) \in {2, 8} /\ 1 \in 1..Len(BlockLines(b))
<1>1. ASSUME NEW b \in Block PROVE Len(BlockLines(b)) \in {2, 8}
  BY LineAt DEF Block
<1>2. \A n \in {2, 8} : 1 \in 1..n
  OBVIOUS
<1> QED
  BY <1>1, <1>2, Zenon

(* A write to one port sets its selected pins, and no others. *)
LEMMA WriteSwitches ==
  ASSUME NEW o, NEW S \in SUBSET Low, NEW k \in Low
  PROVE  LET w == Write(o, DOutW(Port(Low, PowerPort), Port(S, PowerPort)))
         IN  /\ Switch(w, k) <=> k \in S
             /\ Latch(w, k) <=> Latch(o, k)
             /\ Data(w, k) <=> Data(o, k)
<1>1. /\ Switch(Port(Low, PowerPort), k) /\ (Switch(Port(S, PowerPort), k) <=> k \in S)
      /\ ~Latch(Port(Low, PowerPort), k) /\ ~Data(Port(Low, PowerPort), k)
  BY Ports
<1> QED
  BY <1>1 DEF Write, DOutW, Switch, Latch, Data

(* A write to latches sets or clears those selected, and nothing else.     *)
LEMMA WriteLatches ==
  ASSUME NEW o, NEW S \in SUBSET Low, NEW T \in {{}, Port(S, LatchPort)}, NEW k \in Low
  PROVE  LET w == Write(o, DOutW(Port(S, LatchPort), T))
         IN  /\ Switch(w, k) <=> Switch(o, k)
             /\ Latch(w, k) <=> IF k \in S THEN T # {} ELSE Latch(o, k)
             /\ Data(w, k) <=> Data(o, k)
<1>1. /\ ~Switch(Port(S, LatchPort), k) /\ ~Data(Port(S, LatchPort), k)
      /\ Latch(Port(S, LatchPort), k) <=> k \in S
  BY Ports
<1> QED
  BY <1>1 DEF Write, DOutW, Switch, Latch, Data

(* A write to the bus sets all of it, and nothing else.                    *)
LEMMA WriteData ==
  ASSUME NEW o, NEW S \in SUBSET Low, NEW k \in Low
  PROVE  LET w == Write(o, DOutW(Port(Low, BusPort), Port(S, BusPort)))
         IN  /\ Switch(w, k) <=> Switch(o, k)
             /\ Latch(w, k) <=> Latch(o, k)
             /\ Data(w, k) <=> k \in S
<1>1. /\ Data(Port(Low, BusPort), k) /\ (Data(Port(S, BusPort), k) <=> k \in S)
      /\ ~Latch(Port(Low, BusPort), k) /\ ~Switch(Port(Low, BusPort), k)
  BY Ports
<1> QED
  BY <1>1 DEF Write, DOutW, Switch, Latch, Data

(* No bits, no pins: an empty value clears the bus.                        *)
LEMMA EmptyPort == Port({}, BusPort) = {}
BY DEF Port

(* A line is a write of words or a sleep; only the first configures.       *)
LEMMA LinesTyped ==
  ASSUME NEW b \in Block, NEW n \in 1..8, b.kind = "power" => n \in 1..2
  PROVE  LET l == BlockLines(b)[n]
         IN  /\ l.op \in {"DConfigW", "DOutW", "Sleep"}
             /\ n # 1 => l.op # "DConfigW"
             /\ l.mask \in Words /\ l.value \in Words
<1>1. b.pins \in SUBSET Low /\ b.val \in SUBSET Low /\ b.kind \in {"power", "atten"} /\ Low \in SUBSET Low
  BY DEF Block
<1>2. /\ Port(Low, PowerPort) \in Words /\ Port(b.pins, PowerPort) \in Words
      /\ Port(b.pins, LatchPort) \in Words /\ Port(Low, BusPort) \in Words
      /\ Port(b.val, BusPort) \in Words /\ {} \in Words /\ 0..(3 * W - 1) \in Words
  BY <1>1, PortsAreWords DEF Words
<1>3. CASE n = 1
  <2>1. BlockLines(b)[n] = DConfigW(0..(3 * W - 1), {})
    BY <1>3, LineAt DEF AllOutputs
  <2> QED
    BY <1>2, <1>3, <2>1 DEF DConfigW
<1>4. CASE n # 1 /\ b.kind = "power"
  <2>1. BlockLines(b)[n] = DOutW(Port(Low, PowerPort), Port(b.pins, PowerPort))
    BY <1>4, LineAt
  <2> QED
    BY <1>2, <2>1 DEF DOutW
<1>5. CASE n # 1 /\ b.kind = "atten"
  <2>1. CASE n \in {4, 6}
    <3>1. BlockLines(b)[n] = Sleep
      BY <1>5, <2>1, LineAt
    <3> QED
      BY <1>2, <3>1 DEF Sleep
  <2>2. CASE n \notin {4, 6}
    <3>1. PICK m \in Words, v \in Words : BlockLines(b)[n] = DOutW(m, v)
      BY <1>2, <1>5, <2>2, LineAt
    <3> QED
      BY <3>1 DEF DOutW
  <2> QED
    BY <2>1, <2>2
<1> QED
  BY <1>1, <1>3, <1>4, <1>5

-----------------------------------------------------------------------------
(* The inductive invariant. *)

Current == Head(todo)

AtALine == IF todo = <<>> THEN at = 1 ELSE at \in 1..Len(BlockLines(Current))

(* Nothing is driven before the pins are configured, and then all are.     *)
Configured == config = {} \/ (out = {} /\ at = 1)

(* Where a block for attenuators stands: the bus carries the value from    *)
(* line 4 to line 7, the latches are high behind line 5 only.              *)
Stage == todo # <<>> /\ Current.kind = "atten" =>
    /\ at \in 4..7 => \A k \in Low : Data(out, k) <=> k \in Current.val
    /\ at \in {3, 4, 5, 8} => \A k \in Current.pins : ~Latch(out, k)
    /\ at \in 6..8 => \A k \in Current.pins : atten[k] = Current.val

IInv == /\ TypeOK /\ AtALine /\ Configured /\ Stage
        /\ HoldsWhatWasSet /\ LatchesClosed

(* What is driven can be read off the output register alone. *)
LEMMA OutIsDriven ==
  ASSUME IInv, NEW k \in Low
  PROVE  /\ LatchOpen(out, config, k) <=> Latch(out, k)
         /\ k \in Power <=> Switch(out, k)
BY DEF IInv, Configured, LatchOpen, Driven, Latch, Power, Switch

(* What is known of the block under execution and of the place in it.      *)
LEMMA CurrentTyped ==
  ASSUME IInv, todo # <<>>
  PROVE  /\ Current \in Block /\ Current.pins \in SUBSET Low /\ Current.val \in SUBSET Low
         /\ Current.kind \in {"power", "atten"}
         /\ Tail(todo) \in Seq(Block)
         /\ at \in 1..8
         /\ Current.kind = "power" => at \in 1..2
<1>1. todo \in Seq(Block) /\ at \in 1..8
  BY DEF IInv, TypeOK
<1>2. Current \in Block /\ Tail(todo) \in Seq(Block)
  BY <1>1 DEF Current
<1>3. Current.kind = "power" => at \in 1..2
  BY <1>2, LineAt DEF IInv, AtALine
<1> QED
  BY <1>1, <1>2, <1>3 DEF Block

(* The registers and attenuators behind a line, from what they were.       *)
LEMMA DriveEffect ==
  ASSUME IInv, todo # <<>>, Drive
  PROVE  /\ config' = {} /\ out' \in Words
         /\ \A k \in Low :
              atten'[k] = IF Latch(out', k) THEN {d \in Low : Data(out', d)} ELSE atten[k]
         /\ atten' \in [Low -> SUBSET Low]
<1>1. Current \in Block /\ at \in 1..8 /\ (Current.kind = "power" => at \in 1..2)
  BY CurrentTyped
<1>2. Line = BlockLines(Current)[at]
  BY DEF Line, Current
<1>3. /\ Line.op \in {"DConfigW", "DOutW", "Sleep"} /\ (at # 1 => Line.op # "DConfigW")
      /\ Line.mask \in Words /\ Line.value \in Words
  BY <1>1, <1>2, LinesTyped
<1>4. config \in Words /\ out \in Words /\ atten \in [Low -> SUBSET Low]
  BY DEF IInv, TypeOK
<1>5. out' \in Words
  BY <1>3, <1>4 DEF Drive, Write, Words
<1>6. config' = {}
  <2>1. CASE at = 1
    <3>1. Line = DConfigW(0..(3 * W - 1), {})
      BY <1>1, <1>2, <2>1, LineAt DEF AllOutputs
    <3>2. config' = config \ (0..(3 * W - 1))
      BY <3>1 DEF Drive, Write, DConfigW
    <3> QED
      BY <1>4, <3>2 DEF Words
  <2>2. CASE at # 1
    <3>1. Line.op # "DConfigW"
      BY <1>3, <2>2
    <3> QED
      BY <2>2, <3>1 DEF Drive, IInv, Configured
  <2> QED
    BY <2>1, <2>2
<1>7. \A k \in Low : LatchOpen(out', config', k) <=> Latch(out', k)
  BY <1>6 DEF LatchOpen, Driven, Latch
<1>8. Bus(out', config') = {d \in Low : Data(out', d)}
  BY <1>6 DEF Bus, Driven, Data
<1>9. \A k \in Low : atten'[k] = IF Latch(out', k) THEN {d \in Low : Data(out', d)} ELSE atten[k]
  BY <1>7, <1>8 DEF Drive
<1> QED
  BY <1>4, <1>5, <1>6, <1>8, <1>9 DEF Drive

(* The output register behind every line. *)
LEMMA RegisterEffect ==
  ASSUME IInv, todo # <<>>, Drive, NEW k \in Low
  PROVE  LET low == Current.kind = "atten" /\ at \in {2, 7} /\ k \in Current.pins
             high == Current.kind = "atten" /\ at = 5 /\ k \in Current.pins
         IN  /\ Latch(out', k) <=> (high \/ (Latch(out, k) /\ ~low))
             /\ Current.kind = "atten" /\ at = 3 => (Data(out', k) <=> k \in Current.val)
             /\ at \notin {3, 8} => (Data(out', k) <=> Data(out, k))
             /\ Switch(out', k) <=> IF Current.kind = "power" /\ at = 2
                                      THEN k \in Current.pins ELSE Switch(out, k)
<1>1. /\ Current \in Block /\ Current.pins \in SUBSET Low /\ Current.val \in SUBSET Low
      /\ at \in 1..8 /\ Current.kind \in {"power", "atten"}
      /\ Current.kind = "power" => at \in 1..2
  BY CurrentTyped
<1>2. Line = BlockLines(Current)[at]
  BY DEF Line, Current
<1>3. Low \in SUBSET Low /\ {} \in SUBSET Low
  OBVIOUS
<1>4. CASE at = 1
  <2>1. Line.op = "DConfigW"
    BY <1>1, <1>2, <1>4, LineAt DEF AllOutputs, DConfigW
  <2>2. out' = out
    BY <2>1 DEF Drive
  <2> QED
    BY <1>4, <2>2
<1>5. CASE Current.kind = "power" /\ at = 2
  <2>0. Line = DOutW(Port(Low, PowerPort), Port(Current.pins, PowerPort))
    BY <1>1, <1>2, <1>5, LineAt
  <2>1. out' = Write(out, DOutW(Port(Low, PowerPort), Port(Current.pins, PowerPort)))
    BY <2>0 DEF Drive, DOutW
  <2> QED
    BY <1>1, <1>5, <2>1, WriteSwitches
<1>6. CASE Current.kind = "atten" /\ at \in {2, 7}
  <2>0. Line = DOutW(Port(Current.pins, LatchPort), {})
    BY <1>1, <1>2, <1>6, LineAt
  <2>1. out' = Write(out, DOutW(Port(Current.pins, LatchPort), {}))
    BY <2>0 DEF Drive, DOutW
  <2> QED
    BY <1>1, <1>6, <2>1, WriteLatches
<1>7. CASE Current.kind = "atten" /\ at = 3
  <2>0. Line = DOutW(Port(Low, BusPort), Port(Current.val, BusPort))
    BY <1>1, <1>2, <1>7, LineAt
  <2>1. out' = Write(out, DOutW(Port(Low, BusPort), Port(Current.val, BusPort)))
    BY <2>0 DEF Drive, DOutW
  <2> QED
    BY <1>1, <1>7, <2>1, WriteData
<1>8. CASE Current.kind = "atten" /\ at \in {4, 6}
  <2>1. Line = Sleep
    BY <1>1, <1>2, <1>8, LineAt
  <2>2. out' = out
    BY <2>1 DEF Drive, Sleep
  <2> QED
    BY <1>8, <2>2
<1>9. CASE Current.kind = "atten" /\ at = 5
  <2>0. Line = DOutW(Port(Current.pins, LatchPort), Port(Current.pins, LatchPort))
    BY <1>1, <1>2, <1>9, LineAt
  <2>1. out' = Write(out, DOutW(Port(Current.pins, LatchPort), Port(Current.pins, LatchPort)))
    BY <2>0 DEF Drive, DOutW
  <2>2. k \in Current.pins => Port(Current.pins, LatchPort) # {}
    BY <1>1, Ports DEF Latch
  <2> QED
    BY <1>1, <1>9, <2>1, <2>2, WriteLatches
<1>10. CASE Current.kind = "atten" /\ at = 8
  <2>0. Line = DOutW(Port(Low, BusPort), Port({}, BusPort))
    BY <1>1, <1>2, <1>10, LineAt, EmptyPort
  <2>1. out' = Write(out, DOutW(Port(Low, BusPort), Port({}, BusPort)))
    BY <2>0 DEF Drive, DOutW
  <2> QED
    BY <1>1, <1>3, <1>10, <2>1, WriteData
<1> QED
  BY <1>1, <1>4, <1>5, <1>6, <1>7, <1>8, <1>9, <1>10

-----------------------------------------------------------------------------
(* The invariant holds before the first script.                            *)
LEMMA InitInvariant == Init => IInv
<1> SUFFICES ASSUME Init PROVE IInv
  OBVIOUS
<1>1. TypeOK
  <2>0. <<>> \in Seq(Block) /\ {} \in SUBSET Low
    BY Singletons
  <2>1. todo \in Seq(Block) /\ at \in 1..8 /\ request \in Requests \cup {None} /\ done \in BOOLEAN
    <3>1. todo = <<>> /\ at = 1 /\ request = None /\ done = FALSE
      BY DEF Init
    <3>2. todo \in Seq(Block)
      BY <2>0, <3>1, Zenon
    <3>3. at \in 1..8
      BY <3>1
    <3>4. request \in Requests \cup {None} /\ done \in BOOLEAN
      BY <3>1, Zenon
    <3> QED
      BY <3>2, <3>3, <3>4
  <2>2. config \in Words /\ out \in Words
    BY DEF Init, Words
  <2>3. atten \in [Low -> SUBSET Low]
    <3>1. atten \in [Low -> {{}}]
      BY DEF Init
    <3> QED
      BY <2>0, <3>1
  <2>4. want \in [Low -> (SUBSET Low) \cup {Unknown}]
    BY DEF Init
  <2> QED
    BY <2>1, <2>2, <2>3, <2>4 DEF TypeOK
<1>2. AtALine /\ Configured /\ Stage
  BY DEF Init, AtALine, Configured, Stage
<1>3. HoldsWhatWasSet /\ LatchesClosed
  BY DEF Init, HoldsWhatWasSet, LatchesClosed
<1> QED
  BY <1>1, <1>2, <1>3 DEF IInv

(* An attenuator that is known and not being set keeps still. *)
LEMMA OthersKeepStill ==
  ASSUME IInv, todo # <<>>, Drive, NEW k \in Low, k \notin Selected, ~Latch(out, k)
  PROVE  ~Latch(out', k) /\ atten'[k] = atten[k]
<1>1. ~(Current.kind = "atten" /\ k \in Current.pins)
  BY DEF Selected, Current
<1>2. ~Latch(out', k)
  BY <1>1, RegisterEffect
<1> QED
  BY <1>2, DriveEffect

(* What a line of a block for attenuators makes of one it selects.         *)
LEMMA SelectedFollow ==
  ASSUME IInv, todo # <<>>, Drive, Current.kind = "atten", NEW k \in Current.pins
  PROVE  /\ at \in {2, 3, 4, 7, 8} => ~Latch(out', k) /\ atten'[k] = atten[k]
         /\ at = 5 => atten'[k] = Current.val
         /\ at = 6 => atten'[k] = Current.val
<1>1. k \in Low /\ Current.val \in SUBSET Low
  BY CurrentTyped
<1>2. Latch(out', k) <=> (at = 5 \/ (Latch(out, k) /\ at \notin {2, 7}))
  BY <1>1, RegisterEffect
<1>3. at \in {3, 4, 8} => ~Latch(out, k)
  BY DEF IInv, Stage
<1>4. at \in {2, 3, 4, 7, 8} => ~Latch(out', k) /\ atten'[k] = atten[k]
  BY <1>1, <1>2, <1>3, DriveEffect
<1>5. at \in {5, 6} => {d \in Low : Data(out', d)} = Current.val
  <2> SUFFICES ASSUME at \in {5, 6} PROVE \A d \in Low : Data(out', d) <=> d \in Current.val
    BY <1>1
  <2>1. \A d \in Low : Data(out, d) <=> d \in Current.val
    BY DEF IInv, Stage
  <2>2. \A d \in Low : Data(out', d) <=> Data(out, d)
    BY RegisterEffect
  <2> QED
    BY <2>1, <2>2
<1>6. at = 6 => atten[k] = Current.val
  BY DEF IInv, Stage
<1> QED
  BY <1>1, <1>2, <1>4, <1>5, <1>6, DriveEffect

(* Every line, and every interruption, preserves the invariant.            *)
LEMMA StepInvariant == IInv /\ [Next]_vars => IInv'
<1> SUFFICES ASSUME IInv, [Next]_vars PROVE IInv'
  OBVIOUS
<1>0. TypeOK /\ AtALine /\ Configured /\ Stage /\ HoldsWhatWasSet /\ LatchesClosed
  BY DEF IInv
<1>1. ASSUME NEW r \in Requests, Begin(r) PROVE IInv'
  <2>1. todo' \in Seq(Block)
    BY <1>1, BlocksTyped DEF Begin
  <2>2. TypeOK'
    BY <1>0, <1>1, <2>1 DEF Begin, TypeOK
  <2>3. AtALine'
    <3>1. todo' # <<>> => Head(todo') \in Block
      BY <2>1
    <3>3. todo' # <<>> => 1 \in 1..Len(BlockLines(Head(todo')))
      BY <3>1, BlockLengths, Zenon
    <3> QED
      BY <1>1, <3>3, Zenon DEF Begin, AtALine, Current
  <2>4. Configured' /\ Stage'
    BY <1>0, <1>1 DEF Begin, Configured, Stage
  <2>5. Selected = {}
    BY <1>1 DEF Begin, Selected
  <2>6. HoldsWhatWasSet' /\ LatchesClosed'
    BY <1>0, <1>1, <2>5 DEF Begin, HoldsWhatWasSet, LatchesClosed, LatchOpen, Driven
  <2> QED
    BY <2>2, <2>3, <2>4, <2>6 DEF IInv
<1>2. CASE Execute
  <2>0. todo # <<>> /\ Drive /\ at' = at + 1 /\ UNCHANGED <<todo, request, done, want>>
        /\ at < Len(BlockLines(Current))
    BY <1>2 DEF Execute, Current
  <2>1. /\ Current \in Block /\ Current.pins \in SUBSET Low /\ Current.kind \in {"power", "atten"}
        /\ at \in 1..8 /\ Current' = Current
    BY <2>0, CurrentTyped DEF Current
  <2>2. Len(BlockLines(Current)) \in {2, 8}
    BY <2>1, LineAt
  <2>3. TypeOK'
    <3> DEFINE n == Len(BlockLines(Current))
    <3>0. at < n /\ n \in {2, 8} /\ at \in 1..8 /\ at' = at + 1
      BY <2>0, <2>1, <2>2
    <3> HIDE DEF n
    <3>1. at' \in 1..8
      BY <3>0
    <3>2. config' \in Words /\ out' \in Words /\ atten' \in [Low -> SUBSET Low]
      BY <2>0, DriveEffect DEF Words
    <3> QED
      BY <1>0, <2>0, <3>1, <3>2 DEF TypeOK
  <2>4. AtALine'
    BY <2>0, <2>1, <2>2 DEF AtALine, Current
  <2>5. Configured'
    BY <2>0, DriveEffect DEF Configured
  <2>6. Stage'
    <3> SUFFICES ASSUME Current.kind = "atten"
                 PROVE  /\ at' \in 4..7 => \A k \in Low : Data(out', k) <=> k \in Current.val
                        /\ at' \in {3, 4, 5, 8} => \A k \in Current.pins : ~Latch(out', k)
                        /\ at' \in 6..8 => \A k \in Current.pins : atten'[k] = Current.val
      BY <2>0, <2>1 DEF Stage
    <3>1. at' \in 4..7 => \A k \in Low : Data(out', k) <=> k \in Current.val
      <4>1. CASE at = 3
        BY <2>0, <4>1, RegisterEffect
      <4>2. CASE at \in 4..6
        BY <1>0, <2>0, <4>2, RegisterEffect DEF Stage
      <4> QED
        BY <2>0, <2>1, <4>1, <4>2
    <3>2. at' \in {3, 4, 5, 8} => \A k \in Current.pins : ~Latch(out', k)
      BY <2>0, <2>1, SelectedFollow
    <3>3. at' \in 6..8 => \A k \in Current.pins : atten'[k] = Current.val
      BY <1>0, <2>0, <2>1, SelectedFollow DEF Stage
    <3> QED
      BY <3>1, <3>2, <3>3
  <2>7. Selected' = Selected
    BY <2>0 DEF Selected
  <2>8. HoldsWhatWasSet' /\ LatchesClosed'
    <3> SUFFICES ASSUME NEW k \in Low, want[k] # Unknown, k \notin Selected
                 PROVE  atten'[k] = want[k] /\ ~LatchOpen(out', config', k)
      BY <2>0, <2>7 DEF HoldsWhatWasSet, LatchesClosed
    <3>1. ~Latch(out, k) /\ atten[k] = want[k]
      BY <1>0, OutIsDriven DEF HoldsWhatWasSet, LatchesClosed
    <3> QED
      BY <2>0, <3>1, OthersKeepStill, DriveEffect DEF LatchOpen, Driven, Latch
  <2> QED
    BY <2>3, <2>4, <2>5, <2>6, <2>8 DEF IInv
<1>3. CASE Complete
  <2>0. todo # <<>> /\ Drive /\ at' = 1 /\ todo' = Tail(todo) /\ UNCHANGED request
        /\ at = Len(BlockLines(Current)) /\ done' \in BOOLEAN
        /\ want' = [k \in Low |-> IF k \in Selected THEN Current.val ELSE want[k]]
    BY <1>3 DEF Complete, Current
  <2>1. /\ Current \in Block /\ Current.pins \in SUBSET Low /\ Current.val \in SUBSET Low
        /\ Current.kind \in {"power", "atten"} /\ Tail(todo) \in Seq(Block)
    BY <2>0, CurrentTyped
  <2>2. Current.kind = "atten" => at = 8
    BY <2>0, <2>1, LineAt
  <2>3. TypeOK'
    <3>1. config' \in Words /\ out' \in Words /\ atten' \in [Low -> SUBSET Low]
      BY <2>0, DriveEffect DEF Words
    <3>2. want' \in [Low -> (SUBSET Low) \cup {Unknown}]
      BY <1>0, <2>0, <2>1 DEF TypeOK
    <3> QED
      BY <1>0, <2>0, <2>1, <3>1, <3>2 DEF TypeOK
  <2>4. AtALine'
    <3>1. todo' # <<>> => Head(todo') \in Block
      BY <2>0, <2>1
    <3>3. todo' # <<>> => 1 \in 1..Len(BlockLines(Head(todo')))
      BY <3>1, BlockLengths, Zenon
    <3> QED
      BY <2>0, <3>3, Zenon DEF AtALine, Current
  <2>5. Configured' /\ Stage'
    BY <2>0, DriveEffect DEF Configured, Stage
  <2>6. HoldsWhatWasSet' /\ LatchesClosed'
    <3> SUFFICES ASSUME NEW k \in Low, want'[k] # Unknown
                 PROVE  atten'[k] = want'[k] /\ ~LatchOpen(out', config', k)
      BY DEF HoldsWhatWasSet, LatchesClosed
    <3>1. CASE k \in Selected
      <4>1. Current.kind = "atten" /\ k \in Current.pins
        BY <3>1 DEF Selected, Current
      <4>2. at = 8
        BY <2>2, <4>1
      <4>3. atten[k] = Current.val
        BY <1>0, <2>0, <4>1, <4>2 DEF Stage
      <4>4. atten'[k] = atten[k] /\ ~Latch(out', k)
        BY <2>0, <4>1, <4>2, SelectedFollow
      <4> QED
        BY <2>0, <3>1, <4>3, <4>4, DriveEffect DEF LatchOpen, Driven, Latch
    <3>2. CASE k \notin Selected
      <4>1. want[k] # Unknown /\ want'[k] = want[k]
        BY <2>0, <3>2
      <4>2. ~Latch(out, k) /\ atten[k] = want[k]
        BY <1>0, <3>2, <4>1, OutIsDriven DEF HoldsWhatWasSet, LatchesClosed
      <4> QED
        BY <2>0, <3>2, <4>1, <4>2, OthersKeepStill, DriveEffect DEF LatchOpen, Driven, Latch
    <3> QED
      BY <3>1, <3>2
  <2> QED
    BY <2>3, <2>4, <2>5, <2>6 DEF IInv
<1>4. CASE Interrupt
  <2>0. /\ todo' = <<>> /\ at' = 1 /\ done' = FALSE /\ UNCHANGED <<request, config, out, atten>>
        /\ want' = [k \in Low |-> IF k \in Selected \/ LatchOpen(out, config, k) THEN Unknown ELSE want[k]]
    BY <1>4 DEF Interrupt
  <2>1. TypeOK'
    <3>1. want' \in [Low -> (SUBSET Low) \cup {Unknown}]
      BY <1>0, <2>0 DEF TypeOK
    <3>2. todo' \in Seq(Block) /\ at' \in 1..8
      <4>1. <<>> \in Seq(Block)
        BY Singletons
      <4>2. todo' \in Seq(Block)
        BY <2>0, <4>1, Zenon
      <4> QED
        BY <2>0, <4>2
    <3>3. /\ request' \in Requests \cup {None} /\ done' \in BOOLEAN /\ config' \in Words
          /\ out' \in Words /\ atten' \in [Low -> SUBSET Low]
      BY <1>0, <2>0 DEF TypeOK
    <3> QED
      BY <3>1, <3>2, <3>3 DEF TypeOK
  <2>2. AtALine' /\ Configured' /\ Stage'
    BY <1>0, <2>0 DEF AtALine, Configured, Stage
  <2>3. HoldsWhatWasSet' /\ LatchesClosed'
    BY <1>0, <2>0 DEF HoldsWhatWasSet, LatchesClosed, LatchOpen, Driven
  <2> QED
    BY <2>1, <2>2, <2>3 DEF IInv
<1>5. CASE UNCHANGED vars
  BY <1>0, <1>5 DEF vars, IInv, TypeOK, AtALine, Current, Configured, Stage, HoldsWhatWasSet,
     LatchesClosed, Selected, LatchOpen, Driven, Latch, Data
<1> QED
  BY <1>1, <1>2, <1>3, <1>4, <1>5 DEF Next

(* The invariant holds in every reachable state.                           *)
LEMMA InvariantHolds == Spec => []IInv
<1> QED
  BY InitInvariant, StepInvariant, PTL DEF Spec

-----------------------------------------------------------------------------
(* Every variable stays in its domain. *)
THEOREM TypeCorrect == Spec => []TypeOK
<1>1. IInv => TypeOK
  BY DEF IInv
<1> QED
  BY <1>1, InvariantHolds, PTL

(* Scripts may be cut off behind any line, any number of times: an         *)
(* attenuator that no cut off script touched since has the value of the    *)
(* last block executed to its end for it.                                  *)
THEOREM HeldAsSet == Spec => []HoldsWhatWasSet
<1>1. IInv => HoldsWhatWasSet
  BY DEF IInv
<1> QED
  BY <1>1, InvariantHolds, PTL

(* A latch is open while the block of its attenuator is executed, or       *)
(* because a script was cut off, and then the setting counts as unknown.   *)
THEOREM ClosedWhenKnown == Spec => []LatchesClosed
<1>1. IInv => LatchesClosed
  BY DEF IInv
<1> QED
  BY <1>1, InvariantHolds, PTL

(* The steps that drive the device are the only ones it notices. *)
LEMMA OnlyLinesDrive ==
  ASSUME Next
  PROVE  (todo # <<>> /\ Drive) \/ UNCHANGED <<config, out, atten>>
BY Zenon DEF Next, Begin, Execute, Complete, Interrupt

(* No attenuator takes a value that is only on its way to another one.     *)
THEOREM NoForeignValue == Spec => ChangesAsAsked
<1>1. ASSUME IInv, [Next]_vars, NEW k \in Low, atten'[k] # atten[k]
      PROVE  (k \in Selected /\ atten'[k] = Head(todo).val) \/ k \in Torn
  <2>1. todo # <<>> /\ Drive
    BY <1>1, OnlyLinesDrive DEF vars
  <2>2. Latch(out', k)
    BY <1>1, <2>1, DriveEffect
  <2>3. LatchOpen(out, config, k) <=> Latch(out, k)
    BY <1>1, OutIsDriven
  <2>4. CASE k \notin Selected
    <3>1. ~(Current.kind = "atten" /\ k \in Current.pins)
      BY <2>1, <2>4 DEF Selected, Current
    <3>2. Latch(out, k)
      BY <1>1, <2>1, <2>2, <3>1, RegisterEffect
    <3> QED
      BY <2>3, <2>4, <3>2 DEF Torn
  <2>5. CASE k \in Selected
    <3>1. Current.kind = "atten" /\ k \in Current.pins
      BY <2>1, <2>5 DEF Selected, Current
    <3>2. at \in 1..8
      BY <1>1, <2>1, CurrentTyped
    <3>3. at \notin {2, 3, 4, 7, 8}
      BY <1>1, <2>1, <3>1, SelectedFollow
    <3>4. CASE at \in {5, 6}
      BY <1>1, <2>1, <2>5, <3>1, <3>4, SelectedFollow DEF Current
    <3>5. CASE at = 1
      <4>1. Latch(out, k)
        BY <1>1, <2>1, <2>2, <3>5, RegisterEffect
      <4> QED
        BY <2>3, <3>5, <4>1 DEF Torn
    <3> QED
      BY <3>2, <3>3, <3>4, <3>5
  <2> QED
    BY <2>4, <2>5
<1>2. IInv /\ [Next]_vars =>
        [\A k \in Low : atten'[k] # atten[k] =>
            \/ k \in Selected /\ atten'[k] = Head(todo).val
            \/ k \in Torn]_vars
  BY <1>1
<1> QED
  BY <1>2, InvariantHolds, PTL DEF Spec, ChangesAsAsked

(* The power switches change together, at one line, of a block for them.   *)
THEOREM OneLineSwitches == Spec => PowerSwitchedAtOnce
<1>1. ASSUME IInv, [Next]_vars, Power' # Power
      PROVE  todo # <<>> /\ Head(todo).kind = "power" /\ Power' = Head(todo).pins
  <2>1. todo # <<>> /\ Drive
    <3>1. ~UNCHANGED <<config, out, atten>>
      BY <1>1 DEF Power, Driven
    <3> QED
      BY <1>1, <3>1, OnlyLinesDrive DEF vars
  <2>2. Power = {k \in Low : Switch(out, k)}
    BY <1>1, OutIsDriven DEF Power
  <2>3. Power' = {k \in Low : Switch(out', k)}
    <3>1. config' = {}
      BY <1>1, <2>1, DriveEffect
    <3> QED
      BY <3>1 DEF Power, Driven, Switch
  <2>4. \A k \in Low : Switch(out', k) <=> IF Current.kind = "power" /\ at = 2
                                             THEN k \in Current.pins ELSE Switch(out, k)
    BY <1>1, <2>1, RegisterEffect
  <2>5. Current.kind = "power" /\ at = 2
    BY <1>1, <2>2, <2>3, <2>4
  <2>6. Power' = Current.pins
    <3>1. Current.pins \in SUBSET Low
      BY <1>1, <2>1, CurrentTyped
    <3> QED
      BY <2>3, <2>4, <2>5, <3>1
  <2> QED
    BY <2>1, <2>5, <2>6 DEF Current
<1>2. IInv /\ [Next]_vars =>
        [Power' # Power => /\ todo # <<>>
                           /\ Head(todo).kind = "power"
                           /\ Power' = Head(todo).pins]_vars
  BY <1>1
<1> QED
  BY <1>2, InvariantHolds, PTL DEF Spec, PowerSwitchedAtOnce

-----------------------------------------------------------------------------
(* What the parser makes of a text, token by token. *)

(* The states of its loop, for values of the set Vals.                     *)
States(Vals) ==
    [type : {"", "p=", "v="}, got : BOOLEAN, mask : SUBSET Nat, val : Vals,
     skip : BOOLEAN, ok : BOOLEAN]

(* A token is a word, or a number.                                         *)
LEMMA TokenKinds ==
  ASSUME NEW tk \in Tokens
  PROVE  /\ tk.t \in {"p=", "v=", "all", "comma", "semi", "other", "number"}
         /\ tk.t = "number" => tk.n \in Nat /\ tk = N(tk.n)
<1>1. CASE tk \in [t : {"number"}, n : Nat]
  BY <1>1 DEF N
<1>2. CASE tk \in {P, V, All}
  <2>1. tk.t \in {"p=", "v=", "all"}
    BY <1>2 DEF P, V, All
  <2> QED
    BY <2>1
<1>3. CASE tk \in {Comma, Semi, Other}
  <2>1. tk.t \in {"comma", "semi", "other"}
    BY <1>3 DEF Comma, Semi, Other
  <2> QED
    BY <2>1
<1> QED
  BY <1>1, <1>2, <1>3 DEF Tokens

(* Every token leads from a state to a state.                              *)
LEMMA TurnTyped ==
  ASSUME NEW Vals, Nat \subseteq Vals, NEW s \in States(Vals), NEW tk \in Tokens
  PROVE  Turn(s, tk) \in States(Vals)
<1>1. AllPins \in SUBSET Nat
  BY DEF AllPins
<1>2. /\ tk.t \in {"p=", "v=", "all", "comma", "semi", "other", "number"}
      /\ tk.t = "number" => tk.n \in Nat
  BY TokenKinds
<1>3. CASE ~s.ok
  BY <1>3 DEF Turn
<1>4. CASE s.ok /\ s.skip
  <2> DEFINE u == tk.t \notin {"p=", "v=", "all"}
  <2>1. u \in BOOLEAN
    OBVIOUS
  <2>2. Turn(s, tk) = [s EXCEPT !.skip = FALSE, !.ok = u]
    BY <1>4 DEF Turn, Skipped
  <2> HIDE DEF u
  <2> QED
    BY <2>1, <2>2 DEF States
<1>5. CASE s.ok /\ ~s.skip
  <2>1. Turn(s, tk) = Token(s, tk)
    BY <1>5 DEF Turn
  <2>2. CASE tk.t = "number"
    <3> DEFINE m == IF s.type = "p=" THEN s.mask \cup {tk.n} ELSE s.mask
               u == IF s.type = "v=" THEN tk.n ELSE s.val
    <3>1. m \in SUBSET Nat /\ u \in Vals
      BY <1>2, <2>2 DEF States
    <3>2. Token(s, tk) = Number(s, tk.n)
      BY <2>2 DEF Token
    <3>3. Number(s, tk.n) = [s EXCEPT !.mask = m, !.val = u, !.got = TRUE, !.skip = TRUE]
      BY Zenon DEF Number
    <3> HIDE DEF m, u
    <3>4. [s EXCEPT !.mask = m, !.val = u, !.got = TRUE, !.skip = TRUE] \in States(Vals)
      BY <3>1 DEF States
    <3> QED
      BY <2>1, <3>2, <3>3, <3>4, Zenon
  <2>3. CASE tk.t \in {"p=", "v="}
    <3>1. Token(s, tk) = [s EXCEPT !.type = tk.t, !.got = FALSE]
      BY <2>3 DEF Token
    <3>2. [s EXCEPT !.type = tk.t, !.got = FALSE] \in States(Vals)
      BY <2>3 DEF States
    <3> QED
      BY <2>1, <3>1, <3>2
  <2>4. CASE tk.t = "all"
    <3>1. \/ Token(s, tk) = [s EXCEPT !.mask = AllPins, !.type = "", !.got = TRUE, !.skip = TRUE]
          \/ Token(s, tk) = [s EXCEPT !.ok = FALSE]
      BY <2>4 DEF Token
    <3>2. CASE Turn(s, tk) = [s EXCEPT !.mask = AllPins, !.type = "", !.got = TRUE, !.skip = TRUE]
      BY <1>1, <3>2 DEF States
    <3>3. CASE Turn(s, tk) = [s EXCEPT !.ok = FALSE]
      BY <3>3 DEF States
    <3> QED
      BY <2>1, <3>1, <3>2, <3>3
  <2>5. CASE tk.t \in {"comma", "semi", "other"}
    <3>1. \/ Token(s, tk) = s \/ Token(s, tk) = [s EXCEPT !.type = ""]
          \/ Token(s, tk) = [s EXCEPT !.ok = FALSE]
      BY <2>5 DEF Token
    <3> QED
      BY <2>1, <3>1 DEF States
  <2> QED
    BY <1>2, <2>2, <2>3, <2>4, <2>5
<1> QED
  BY <1>3, <1>4, <1>5 DEF States

(* The loop over a text is defined.                                        *)
LEMMA ScanDef ==
  ASSUME NEW Vals, Nat \subseteq Vals, NEW s \in Seq(Tokens), NEW v \in Vals
  PROVE  /\ Scan(s, v)[0] = Start(v)
         /\ \A n \in 1..Len(s) : Scan(s, v)[n] = Turn(Scan(s, v)[n - 1], s[n])
         /\ \A n \in 0..Len(s) : Scan(s, v)[n] \in States(Vals)
<1> DEFINE top == Len(s)
           B == States(Vals)
           base == Start(v)
           step == [z \in (1..top) \X B |-> Turn(z[2], s[z[1]])]
           def(f) == [n \in 0..top |-> IF n = 0 THEN Start(v) ELSE Turn(f[n - 1], s[n])]
<1>1. top \in Nat /\ \A n \in 1..top : s[n] \in Tokens
  OBVIOUS
<1>2. base \in B
  BY DEF Start, States
<1>3. step \in [(1..top) \X B -> B]
  <2> SUFFICES ASSUME NEW n \in 1..top, NEW u \in B PROVE Turn(u, s[n]) \in B
    OBVIOUS
  <2> QED
    BY <1>1, TurnTyped
<1>4. PICK f : Computes(f, top, B, base, step)
  <2> HIDE DEF top, B, base, step, def
  <2> QED
    BY <1>1, <1>2, <1>3, LoopDefined
<1>5. f \in [0..top -> B] /\ f[0] = base /\ \A n \in 1..top : f[n] = step[<<n, f[n - 1]>>]
  BY <1>4 DEF Computes
<1>6. ASSUME NEW n \in 0..top PROVE f[n] = def(f)[n]
  <2>1. CASE n = 0
    BY <1>5, <2>1
  <2>2. CASE n # 0
    <3>1. n \in 1..top /\ n - 1 \in 0..top
      BY <1>1, <2>2
    <3>2. f[n - 1] \in B
      BY <1>5, <3>1
    <3>3. step[<<n, f[n - 1]>>] = Turn(f[n - 1], s[n])
      <4> HIDE DEF B
      <4> QED
        BY <3>1, <3>2
    <3> QED
      BY <1>5, <2>2, <3>1, <3>3
  <2> QED
    BY <2>1, <2>2
<1>7. f = def(f)
  BY <1>5, <1>6
<1>8. Scan(s, v) = def(Scan(s, v))
  BY <1>7 DEF Scan
<1> DEFINE g == Scan(s, v)
<1> HIDE DEF g
<1>9. \A n \in 0..top : g[n] = IF n = 0 THEN Start(v) ELSE Turn(g[n - 1], s[n])
  BY <1>8 DEF g
<1>10. g[0] = Start(v)
  BY <1>1, <1>9
<1>11. \A n \in 1..top : g[n] = Turn(g[n - 1], s[n])
  BY <1>1, <1>9
<1>12. \A n \in 0..top : g[n] \in B
  <2> DEFINE S == {n \in Nat : g[n] \in B}
  <2>1. 0 \in S
    BY <1>2, <1>10
  <2>2. ASSUME NEW n \in 1..top, n - 1 \in S PROVE n \in S
    <3>1. g[n - 1] \in B /\ s[n] \in Tokens /\ n \in Nat
      BY <1>1, <2>2
    <3> HIDE DEF B
    <3>2. g[n] \in B
      BY <1>11, <3>1, TurnTyped DEF B
    <3> QED
      BY <3>1, <3>2
  <2> HIDE DEF S, top
  <2>3. \A n \in 0..top : n \in S
    BY <1>1, <2>1, <2>2, LoopInduction
  <2> QED
    BY <2>3 DEF S
<1> QED
  BY <1>10, <1>11, <1>12 DEF g

(* What it knows behind the whole of a text.                               *)
Behind(s, v) == Scan(s, v)[Len(s)]

(* It knows nothing yet behind no text, and one more token is one more turn. *)
LEMMA BehindAppend ==
  ASSUME NEW Vals, Nat \subseteq Vals, NEW s \in Seq(Tokens), NEW tk \in Tokens, NEW v \in Vals
  PROVE  /\ Behind(<<>>, v) = Start(v)
         /\ Behind(s, v) \in States(Vals)
         /\ Behind(Append(s, tk), v) = Turn(Behind(s, v), tk)
<1> DEFINE t == Append(s, tk)
           e == <<>>
           f == Scan(s, v)
           g == Scan(t, v)
           m == Len(s)
<1>1. /\ t \in Seq(Tokens) /\ m \in Nat /\ Len(t) = m + 1 /\ t[m + 1] = tk
      /\ \A n \in 1..m : t[n] = s[n]
  OBVIOUS
<1>2. e \in Seq(Tokens) /\ Len(e) = 0
  OBVIOUS
<1>3. Scan(e, v)[0] = Start(v)
  <2> HIDE DEF e
  <2> QED
    BY <1>2, ScanDef
<1>4. Behind(<<>>, v) = Start(v)
  BY <1>2, <1>3 DEF Behind
<1> HIDE DEF t, e
<1>5. /\ f[0] = Start(v) /\ (\A n \in 1..m : f[n] = Turn(f[n - 1], s[n]))
      /\ \A n \in 0..m : f[n] \in States(Vals)
  BY ScanDef
<1>6. g[0] = Start(v) /\ \A n \in 1..m + 1 : g[n] = Turn(g[n - 1], t[n])
  BY <1>1, ScanDef
<1> HIDE DEF f, g, m
<1>7. \A n \in 0..m : g[n] = f[n]
  <2> DEFINE S == {n \in Nat : g[n] = f[n]}
  <2>1. 0 \in S
    BY <1>5, <1>6
  <2>2. ASSUME NEW n \in 1..m, n - 1 \in S PROVE n \in S
    <3>1. g[n - 1] = f[n - 1] /\ t[n] = s[n] /\ n \in 1..m + 1 /\ n \in Nat
      BY <1>1, <2>2
    <3>2. g[n] = f[n]
      BY <1>5, <1>6, <3>1
    <3> QED
      BY <3>1, <3>2
  <2> HIDE DEF S
  <2>3. \A n \in 0..m : n \in S
    BY <1>1, <2>1, <2>2, LoopInduction
  <2> QED
    BY <2>3 DEF S
<1>8. g[m + 1] = Turn(f[m], tk)
  <2>1. m + 1 \in 1..m + 1 /\ m + 1 - 1 = m /\ m \in 0..m
    BY <1>1
  <2> QED
    BY <1>1, <1>6, <1>7, <2>1
<1>9. Behind(s, v) = f[m] /\ Behind(t, v) = g[m + 1]
  BY <1>1 DEF Behind, f, g, m
<1>10. f[m] \in States(Vals)
  BY <1>1, <1>5
<1> QED
  BY <1>4, <1>8, <1>9, <1>10 DEF t

(* The words are tokens, and so are the numbers. *)
LEMMA TokensOfTexts ==
  /\ P \in Tokens /\ V \in Tokens /\ Comma \in Tokens /\ Semi \in Tokens
  /\ \A k \in Nat : N(k) \in Tokens
<1>1. \A k \in Nat : N(k) \in [t : {"number"}, n : Nat]
  BY DEF N
<1> QED
  BY <1>1 DEF Tokens

(* One more token. *)
LEMMA BehindMore ==
  \A s \in Seq(Tokens) : \A tk \in Tokens, v \in Int :
     Append(s, tk) \in Seq(Tokens) /\ Behind(Append(s, tk), v) = Turn(Behind(s, v), tk)
<1> SUFFICES ASSUME NEW s \in Seq(Tokens), NEW tk \in Tokens, NEW v \in Int
             PROVE  Append(s, tk) \in Seq(Tokens) /\ Behind(Append(s, tk), v) = Turn(Behind(s, v), tk)
  OBVIOUS
<1>1. Nat \subseteq Int /\ Append(s, tk) \in Seq(Tokens)
  OBVIOUS
<1> QED
  BY <1>1, BehindAppend

(* The first token. *)
LEMMA BehindOne ==
  \A a \in Tokens, v \in Int : <<a>> \in Seq(Tokens) /\ Behind(<<a>>, v) = Turn(Start(v), a)
<1> SUFFICES ASSUME NEW a \in Tokens, NEW v \in Int
             PROVE  <<a>> \in Seq(Tokens) /\ Behind(<<a>>, v) = Turn(Start(v), a)
  OBVIOUS
<1> DEFINE e == <<>>
<1>1. e \in Seq(Tokens) /\ <<a>> \in Seq(Tokens) /\ <<a>> = Append(e, a) /\ Nat \subseteq Int
  OBVIOUS
<1>2. Behind(e, v) = Start(v)
  BY <1>1, BehindAppend
<1> HIDE DEF e
<1>3. Behind(Append(e, a), v) = Turn(Behind(e, v), a)
  BY <1>1, BehindAppend
<1> QED
  BY <1>1, <1>2, <1>3

(* Two more tokens. *)
LEMMA BehindTwo ==
  ASSUME NEW s \in Seq(Tokens), NEW a \in Tokens, NEW b \in Tokens, NEW v \in Int
  PROVE  /\ s \o <<a, b>> \in Seq(Tokens)
         /\ Behind(s \o <<a, b>>, v) = Turn(Turn(Behind(s, v), a), b)
<1> DEFINE t == Append(s, a)
<1>1. t \in Seq(Tokens) /\ Nat \subseteq Int
  OBVIOUS
<1>2. s \o <<a, b>> = Append(t, b)
  OBVIOUS
<1>3. Behind(t, v) = Turn(Behind(s, v), a)
  BY <1>1, BehindAppend
<1> HIDE DEF t
<1>4. Behind(Append(t, b), v) = Turn(Behind(t, v), b)
  BY <1>1, BehindAppend
<1>5. Append(t, b) \in Seq(Tokens)
  BY <1>1
<1> QED
  BY <1>2, <1>3, <1>4, <1>5

(* The loop in a list of positions: those seen are m; and at a place where *)
(* it looks at the next one.                                               *)
InList(s, m, v) == s \in States(Int) /\ s.ok /\ s.type = "p=" /\ s.mask = m /\ s.val = v

Ready(s, m, v) == InList(s, m, v) /\ ~s.skip

(* A number is put into the list, the comma behind it is not looked at.    *)
LEMMA ListTurns ==
  \A s, m, v :
     /\ \A k \in Nat : Ready(s, m, v) => InList(Turn(s, N(k)), m \cup {k}, v)
     /\ InList(s, m, v) => Ready(Turn(s, Comma), m, v)
<1>1. ASSUME NEW s, NEW m, NEW v, NEW k \in Nat, Ready(s, m, v)
      PROVE  InList(Turn(s, N(k)), m \cup {k}, v)
  <2> DEFINE l == m \cup {k}
  <2>1. /\ s \in States(Int) /\ s.ok /\ ~s.skip /\ s.type = "p=" /\ s.mask = m /\ s.val = v
        /\ m \in SUBSET Nat
    BY <1>1 DEF Ready, InList, States
  <2>2. Turn(s, N(k)) = Number(s, k)
    BY <2>1 DEF Turn, Token, N
  <2>3. Number(s, k) = [s EXCEPT !.mask = l, !.val = v, !.got = TRUE, !.skip = TRUE]
    BY <2>1 DEF Number
  <2>4. l \in SUBSET Nat
    BY <2>1
  <2> HIDE DEF l
  <2>5. PICK t : t = [s EXCEPT !.mask = l, !.val = v, !.got = TRUE, !.skip = TRUE]
    OBVIOUS
  <2>6. t \in States(Int) /\ t.ok = s.ok /\ t.type = "p=" /\ t.mask = l /\ t.val = v
    BY <2>1, <2>4, <2>5 DEF States
  <2> QED
    BY <2>1, <2>2, <2>3, <2>5, <2>6 DEF InList, l
<1>2. ASSUME NEW s, NEW m, NEW v, InList(s, m, v)
      PROVE  Ready(Turn(s, Comma), m, v)
  <2>1. s \in States(Int) /\ s.ok /\ s.type = "p=" /\ s.mask = m /\ s.val = v
    BY <1>2 DEF InList
  <2>2. CASE ~s.skip
    <3>1. Turn(s, Comma) = s
      BY <2>1, <2>2 DEF Turn, Token, Comma
    <3> QED
      BY <1>2, <2>2, <3>1 DEF Ready
  <2>3. CASE s.skip
    <3>1. Turn(s, Comma) = [s EXCEPT !.skip = FALSE, !.ok = TRUE]
      BY <2>1, <2>3 DEF Turn, Skipped, Comma
    <3>2. PICK t : t = [s EXCEPT !.skip = FALSE, !.ok = TRUE]
      OBVIOUS
    <3>3. t \in States(Int) /\ t.ok /\ t.type = "p=" /\ t.mask = m /\ t.val = v /\ ~t.skip
      BY <2>1, <3>2 DEF States
    <3> QED
      BY <3>1, <3>2, <3>3 DEF Ready, InList
  <2> QED
    BY <2>2, <2>3
<1> QED
  BY <1>1, <1>2

(* The parser is through with a list. *)
LEMMA ListParsed ==
  \A s, v0, m, v : s # <<>> /\ InList(Behind(s, v0), m, v) =>
     Parse(s, v0) = [ok |-> TRUE, mask |-> m, val |-> v]
<1> SUFFICES ASSUME NEW s, NEW v0, NEW m, NEW v, s # <<>>, InList(Behind(s, v0), m, v)
             PROVE  Parse(s, v0) = [ok |-> TRUE, mask |-> m, val |-> v]
  OBVIOUS
<1> DEFINE b == Behind(s, v0)
           whole == s # <<>> /\ b.ok /\ ~(b.type = "v=" /\ ~b.got)
<1>1. b.ok /\ b.type = "p=" /\ b.mask = m /\ b.val = v
  BY DEF InList
<1>2. Parse(s, v0) = [ok |-> whole, mask |-> b.mask, val |-> b.val]
  BY DEF Behind, Parse
<1> HIDE DEF b
<1>3. whole = TRUE
  BY <1>1
<1> HIDE DEF whole
<1> QED
  BY <1>1, <1>2, <1>3

(* The text of do_setpower is defined for every set of boards.             *)
LEMMA ListedDef ==
  ASSUME NEW boards
  PROVE  /\ Listed(boards)[0] = <<P>>
         /\ \A n \in 1..W : Listed(boards)[n] = IF n \in boards
              THEN Listed(boards)[n - 1] \o <<N(n - 1), Comma>> ELSE Listed(boards)[n - 1]
         /\ \A n \in 0..W : Listed(boards)[n] \in Seq(Tokens)
<1> DEFINE B == Seq(Tokens)
           base == <<P>>
           more(u, n) == IF n \in boards THEN u \o <<N(n - 1), Comma>> ELSE u
           step == [z \in (1..W) \X B |-> more(z[2], z[1])]
           def(f) == [n \in 0..W |-> IF n = 0 THEN base ELSE more(f[n - 1], n)]
<1>1. W \in Nat
  BY WidthAssumption
<1>2. base \in B
  BY TokensOfTexts, Singletons
<1>3. \A n \in 1..W : \A u \in B : more(u, n) \in B
  <2> SUFFICES ASSUME NEW n \in 1..W, NEW u \in B PROVE u \o <<N(n - 1), Comma>> \in B
    OBVIOUS
  <2>1. N(n - 1) \in Tokens /\ Comma \in Tokens
    BY <1>1, TokensOfTexts
  <2> QED
    BY <2>1
<1>4. step \in [(1..W) \X B -> B]
  <2> HIDE DEF B, more
  <2> QED
    BY <1>3
<1>5. PICK f : Computes(f, W, B, base, step)
  <2> HIDE DEF B, base, step, more, def
  <2> QED
    BY <1>1, <1>2, <1>4, LoopDefined
<1>6. f \in [0..W -> B] /\ f[0] = base /\ \A n \in 1..W : f[n] = step[<<n, f[n - 1]>>]
  BY <1>5 DEF Computes
<1>7. ASSUME NEW n \in 0..W PROVE f[n] = def(f)[n]
  <2> HIDE DEF B, base, more
  <2>1. CASE n = 0
    BY <1>6, <2>1
  <2>2. CASE n # 0
    <3>1. n \in 1..W /\ n - 1 \in 0..W
      BY <1>1, <2>2
    <3>2. f[n - 1] \in B
      BY <1>6, <3>1
    <3>3. step[<<n, f[n - 1]>>] = more(f[n - 1], n)
      BY <3>1, <3>2
    <3> QED
      BY <1>6, <2>2, <3>1, <3>3
  <2> QED
    BY <2>1, <2>2
<1>8. f = def(f)
  BY <1>6, <1>7
<1>9. Listed(boards) = def(Listed(boards))
  BY <1>8 DEF Listed
<1> DEFINE g == Listed(boards)
<1> HIDE DEF g
<1>10. \A n \in 0..W : g[n] = IF n = 0 THEN base ELSE more(g[n - 1], n)
  BY <1>9 DEF g
<1>11. g[0] = base
  <2> HIDE DEF B, base, more
  <2> QED
    BY <1>1, <1>10
<1>12. \A n \in 1..W : g[n] = more(g[n - 1], n)
  <2> HIDE DEF B, base, more
  <2> QED
    BY <1>1, <1>10
<1>13. \A n \in 0..W : g[n] \in B
  <2> DEFINE S == {n \in Nat : g[n] \in B}
  <2> HIDE DEF B, base, more
  <2>1. 0 \in S
    BY <1>2, <1>11
  <2>2. ASSUME NEW n \in 1..W, n - 1 \in S PROVE n \in S
    BY <1>1, <1>3, <1>12, <2>2
  <2> HIDE DEF S
  <2>3. \A n \in 0..W : n \in S
    BY <1>1, <2>1, <2>2, LoopInduction
  <2> QED
    BY <2>3 DEF S
<1> QED
  BY <1>11, <1>12, <1>13 DEF g

(* The pins of the first n boards. *)
PinsOf(boards, n) == {b - 1 : b \in boards \cap 1..n}

(* What do_setpower prints is read as the pins of the boards it was given. *)
LEMMA ListedParsed ==
  ASSUME NEW boards
  PROVE  Parse(Listed(boards)[W], Unset) = [ok |-> TRUE, mask |-> PinsOf(boards, W), val |-> Unset]
<1> DEFINE text == Listed(boards)
           S == {n \in Nat : text[n] # <<>> /\ Ready(Behind(text[n], Unset), PinsOf(boards, n), Unset)}
<1>1. W \in Nat /\ Unset \in Int /\ Nat \subseteq Int
  BY WidthAssumption DEF Unset
<1>2. /\ text[0] = <<P>>
      /\ \A n \in 1..W : text[n] = IF n \in boards THEN text[n - 1] \o <<N(n - 1), Comma>> ELSE text[n - 1]
      /\ \A n \in 0..W : text[n] \in Seq(Tokens)
  BY ListedDef
<1> HIDE DEF text
<1>3. 0 \in S
  <2>1. <<P>> # <<>>
    OBVIOUS
  <2>2. Behind(<<P>>, Unset) = Turn(Start(Unset), P)
    BY <1>1, TokensOfTexts, BehindOne
  <2>3. Ready(Turn(Start(Unset), P), {}, Unset)
    <3>1. Turn(Start(Unset), P) = [Start(Unset) EXCEPT !.type = "p=", !.got = FALSE]
      BY DEF Turn, Token, Start, P
    <3>2. Turn(Start(Unset), P) \in States(Int)
      BY <1>1, <3>1 DEF Start, States
    <3>3. PICK t : t = [Start(Unset) EXCEPT !.type = "p=", !.got = FALSE]
      OBVIOUS
    <3>4. t.ok /\ t.type = "p=" /\ t.mask = {} /\ t.val = Unset /\ ~t.skip
      BY <3>3 DEF Start
    <3> QED
      BY <3>1, <3>2, <3>3, <3>4 DEF Ready, InList
  <2>4. PinsOf(boards, 0) = {}
    BY DEF PinsOf
  <2> QED
    BY <1>2, <2>1, <2>2, <2>3, <2>4
<1>4. ASSUME NEW n \in 1..W, n - 1 \in S PROVE n \in S
  <2>1. /\ n - 1 \in 0..W /\ n \in Nat /\ n - 1 \in Nat /\ text[n - 1] \in Seq(Tokens)
        /\ text[n - 1] # <<>>
    BY <1>1, <1>2, <1>4
  <2>2. Ready(Behind(text[n - 1], Unset), PinsOf(boards, n - 1), Unset)
    BY <1>4
  <2>3. CASE n \notin boards
    <3>1. PinsOf(boards, n) = PinsOf(boards, n - 1)
      BY <2>1, <2>3 DEF PinsOf
    <3>2. text[n] = text[n - 1]
      BY <1>2, <2>3
    <3> QED
      BY <2>1, <2>2, <3>1, <3>2
  <2>4. CASE n \in boards
    <3>1. PinsOf(boards, n) = PinsOf(boards, n - 1) \cup {n - 1}
      BY <2>1, <2>4 DEF PinsOf
    <3>2. text[n] = text[n - 1] \o <<N(n - 1), Comma>>
      BY <1>2, <2>4
    <3>3. N(n - 1) \in Tokens /\ Comma \in Tokens
      BY <2>1, TokensOfTexts
    <3>4. Behind(text[n], Unset) = Turn(Turn(Behind(text[n - 1], Unset), N(n - 1)), Comma)
      BY <1>1, <2>1, <3>2, <3>3, BehindTwo
    <3>5. InList(Turn(Behind(text[n - 1], Unset), N(n - 1)), PinsOf(boards, n), Unset)
      BY <2>1, <2>2, <3>1, ListTurns
    <3>6. Ready(Behind(text[n], Unset), PinsOf(boards, n), Unset)
      BY <3>4, <3>5, ListTurns
    <3>7. text[n] # <<>>
      BY <2>1, <3>2, <3>3
    <3> QED
      BY <2>1, <3>6, <3>7
  <2> QED
    BY <2>3, <2>4
<1>5. W \in S
  <2> HIDE DEF S
  <2>1. \A n \in 0..W : n \in S
    BY <1>1, <1>3, <1>4, LoopInduction
  <2> QED
    BY <1>1, <2>1
<1>6. text[W] # <<>> /\ InList(Behind(text[W], Unset), PinsOf(boards, W), Unset)
  BY <1>5 DEF Ready
<1> HIDE DEF S
<1> QED
  BY <1>6, ListParsed DEF text

(* So the script of -p is one block, for those pins.                       *)
LEMMA PowerScript ==
  ASSUME NEW arg
  PROVE  SetPower(arg) = <<[kind |-> "power", pins |-> PinsOf(Parse(arg, 0).mask, W), val |-> {}]>>
<1> DEFINE boards == Parse(arg, 0).mask
           pins == PinsOf(boards, W)
<1> HIDE DEF boards
<1>1. Parse(Listed(boards)[W], Unset) = [ok |-> TRUE, mask |-> pins, val |-> Unset]
  BY ListedParsed
<1>2. pins \cap Low = pins
  BY WidthAssumption DEF PinsOf, Low
<1> HIDE DEF pins
<1>3. OutputPower(Listed(boards)[W]) = <<[kind |-> "power", pins |-> pins, val |-> {}]>>
  BY <1>1, <1>2 DEF OutputPower
<1> QED
  BY <1>3 DEF SetPower, boards, pins

(* Where a script of -p stands: its block is to be executed, or it was and *)
(* the switches are as it says, or the script was cut off.                 *)
PowerScriptAt == request.opt = "p" =>
    /\ todo # <<>> => todo = SetPower(request.arg) /\ ~done
    /\ done => Power = PinsOf(Parse(request.arg, 0).mask, W)

(* A line changes the switches to what its block says, all of them.        *)
LEMMA PowerEffect ==
  ASSUME IInv, todo # <<>>, Drive, Current.kind = "power", at = 2
  PROVE  Power' = Current.pins
<1>1. config' = {}
  BY DriveEffect
<1>2. Power' = {k \in Low : Switch(out', k)}
  BY <1>1 DEF Power, Driven, Switch
<1>3. \A k \in Low : Switch(out', k) <=> k \in Current.pins
  BY RegisterEffect
<1>4. Current.pins \in SUBSET Low
  BY CurrentTyped
<1> QED
  BY <1>2, <1>3, <1>4

(* No request is made by the initial value, and the options are known.     *)
LEMMA RequestsKnown ==
  ASSUME NEW r \in Requests
  PROVE  r.opt \in {"n", "w", "a", "p"} /\ r.arg \in Seq(Tokens)
BY RequestsAssumption

(* Every step keeps that.                                                  *)
LEMMA StepPowerScript == IInv /\ PowerScriptAt /\ [Next]_vars => PowerScriptAt'
<1> SUFFICES ASSUME IInv, PowerScriptAt, [Next]_vars, request'.opt = "p"
             PROVE  /\ todo' # <<>> => todo' = SetPower(request'.arg) /\ ~done'
                    /\ done' => Power' = PinsOf(Parse(request'.arg, 0).mask, W)
  BY DEF PowerScriptAt
<1>1. ASSUME NEW r \in Requests, Begin(r)
      PROVE  /\ todo' # <<>> => todo' = SetPower(request'.arg) /\ ~done'
             /\ done' => Power' = PinsOf(Parse(request'.arg, 0).mask, W)
  <2>1. request' = r /\ todo' = Blocks(r) /\ (done' <=> todo' = <<>>)
    BY <1>1 DEF Begin
  <2>2. Blocks(r) = SetPower(r.arg)
    BY <2>1 DEF Blocks
  <2>3. SetPower(r.arg) # <<>>
    BY PowerScript
  <2> QED
    BY <2>1, <2>2, <2>3
<1>2. CASE Execute
  <2>1. todo # <<>> /\ UNCHANGED <<todo, request, done>>
    BY <1>2 DEF Execute
  <2> QED
    BY <2>1 DEF PowerScriptAt
<1>3. CASE Complete
  <2>1. /\ todo # <<>> /\ Drive /\ request' = request /\ todo' = Tail(todo)
        /\ at = Len(BlockLines(Current))
    BY <1>3 DEF Complete, Current
  <2> DEFINE b == [kind |-> "power", pins |-> PinsOf(Parse(request.arg, 0).mask, W), val |-> {}]
  <2>2. todo = <<b>>
    BY <2>1, PowerScript DEF PowerScriptAt
  <2>3. Current = b /\ Tail(todo) = <<>>
    BY <2>2 DEF Current
  <2>4. b.kind = "power" /\ b.pins = PinsOf(Parse(request.arg, 0).mask, W)
    OBVIOUS
  <2> HIDE DEF b
  <2>5. at = 2
    BY <2>1, <2>3, <2>4, CurrentTyped, LineAt
  <2> QED
    BY <2>1, <2>3, <2>4, <2>5, PowerEffect
<1>4. CASE Interrupt
  BY <1>4 DEF Interrupt
<1>5. CASE UNCHANGED vars
  BY <1>5 DEF vars, PowerScriptAt, Power, Driven
<1> QED
  BY <1>1, <1>2, <1>3, <1>4, <1>5 DEF Next

(* Whatever was cut off before, a script of -p that was executed to its    *)
(* end has switched on the boards it names, and no others.                 *)
THEOREM PowerSwitched == Spec => []PowerAsAsked
<1>1. Init => PowerScriptAt
  BY DEF Init, None, PowerScriptAt
<1>2. PowerScriptAt => PowerAsAsked
  BY DEF PowerScriptAt, PowerAsAsked, PinsOf
<1> QED
  BY <1>1, <1>2, InvariantHolds, StepPowerScript, PTL DEF Spec

-----------------------------------------------------------------------------
(* Numbers and their bits. *)

(* Shifting is defined for every number.                                   *)
LEMMA ShiftedDef ==
  ASSUME NEW v \in Nat
  PROVE  /\ Shifted(v)[0] = v
         /\ \A n \in 1..W : Shifted(v)[n] = Shifted(v)[n - 1] \div 2
         /\ \A n \in 0..W : Shifted(v)[n] \in Nat
<1> DEFINE step == [z \in (1..W) \X Nat |-> z[2] \div 2]
           def(f) == [n \in 0..W |-> IF n = 0 THEN v ELSE f[n - 1] \div 2]
<1>1. W \in Nat /\ \A u \in Nat : u \div 2 \in Nat
  BY WidthAssumption
<1>2. step \in [(1..W) \X Nat -> Nat]
  BY <1>1
<1>3. PICK f : Computes(f, W, Nat, v, step)
  <2> HIDE DEF step, def
  <2> QED
    BY <1>1, <1>2, LoopDefined
<1>4. f \in [0..W -> Nat] /\ f[0] = v /\ \A n \in 1..W : f[n] = step[<<n, f[n - 1]>>]
  BY <1>3 DEF Computes
<1>5. ASSUME NEW n \in 0..W PROVE f[n] = def(f)[n]
  <2>1. CASE n = 0
    BY <1>4, <2>1
  <2>2. CASE n # 0
    <3>1. n \in 1..W /\ n - 1 \in 0..W
      BY <1>1, <2>2
    <3>2. f[n - 1] \in Nat
      BY <1>4, <3>1
    <3>3. step[<<n, f[n - 1]>>] = f[n - 1] \div 2
      BY <3>1, <3>2
    <3> QED
      BY <1>4, <2>2, <3>1, <3>3
  <2> QED
    BY <2>1, <2>2
<1>6. f = def(f)
  BY <1>4, <1>5
<1>7. Shifted(v) = def(Shifted(v))
  BY <1>6 DEF Shifted
<1> DEFINE g == Shifted(v)
<1> HIDE DEF g
<1>8. \A n \in 0..W : g[n] = IF n = 0 THEN v ELSE g[n - 1] \div 2
  BY <1>7 DEF g
<1>9. g[0] = v /\ \A n \in 1..W : g[n] = g[n - 1] \div 2
  BY <1>1, <1>8
<1>10. \A n \in 0..W : g[n] \in Nat
  <2> DEFINE S == {n \in Nat : g[n] \in Nat}
  <2>1. 0 \in S
    BY <1>9
  <2>2. ASSUME NEW n \in 1..W, n - 1 \in S PROVE n \in S
    <3>1. g[n - 1] \in Nat /\ n \in Nat
      BY <1>1, <2>2
    <3> QED
      BY <1>9, <3>1
  <2> HIDE DEF S
  <2>3. \A n \in 0..W : n \in S
    BY <1>1, <2>1, <2>2, LoopInduction
  <2> QED
    BY <2>3 DEF S
<1> QED
  BY <1>9, <1>10 DEF g

(* So is reading the bits, from the highest.                               *)
LEMMA ReadDef ==
  ASSUME NEW bits
  PROVE  /\ Read(bits)[0] = 0
         /\ \A n \in 1..W : Read(bits)[n] = 2 * Read(bits)[n - 1] + (IF W - n \in bits THEN 1 ELSE 0)
         /\ \A n \in 0..W : Read(bits)[n] \in Nat
<1> DEFINE bit(n) == IF W - n \in bits THEN 1 ELSE 0
           step == [z \in (1..W) \X Nat |-> 2 * z[2] + bit(z[1])]
           def(f) == [n \in 0..W |-> IF n = 0 THEN 0 ELSE 2 * f[n - 1] + bit(n)]
<1>1. W \in Nat /\ \A n : bit(n) \in Nat
  BY WidthAssumption
<1>2. step \in [(1..W) \X Nat -> Nat]
  <2> HIDE DEF bit
  <2> QED
    BY <1>1
<1>3. PICK f : Computes(f, W, Nat, 0, step)
  <2> HIDE DEF step, def
  <2> QED
    BY <1>1, <1>2, LoopDefined
<1>4. f \in [0..W -> Nat] /\ f[0] = 0 /\ \A n \in 1..W : f[n] = step[<<n, f[n - 1]>>]
  BY <1>3 DEF Computes
<1>5. ASSUME NEW n \in 0..W PROVE f[n] = def(f)[n]
  <2> HIDE DEF bit
  <2>1. CASE n = 0
    BY <1>4, <2>1
  <2>2. CASE n # 0
    <3>1. n \in 1..W /\ n - 1 \in 0..W
      BY <1>1, <2>2
    <3>2. f[n - 1] \in Nat
      BY <1>4, <3>1
    <3>3. step[<<n, f[n - 1]>>] = 2 * f[n - 1] + bit(n)
      BY <3>1, <3>2
    <3> QED
      BY <1>4, <2>2, <3>1, <3>3
  <2> QED
    BY <2>1, <2>2
<1>6. f = def(f)
  BY <1>4, <1>5
<1>7. Read(bits) = def(Read(bits))
  BY <1>6 DEF Read
<1> DEFINE g == Read(bits)
<1> HIDE DEF g
<1>8. \A n \in 0..W : g[n] = IF n = 0 THEN 0 ELSE 2 * g[n - 1] + bit(n)
  BY <1>7 DEF g
<1>9. g[0] = 0 /\ \A n \in 1..W : g[n] = 2 * g[n - 1] + bit(n)
  <2> HIDE DEF bit
  <2> QED
    BY <1>1, <1>8
<1>10. \A n \in 0..W : g[n] \in Nat
  <2> DEFINE S == {n \in Nat : g[n] \in Nat}
  <2> HIDE DEF bit
  <2>1. 0 \in S
    BY <1>9
  <2>2. ASSUME NEW n \in 1..W, n - 1 \in S PROVE n \in S
    <3>1. g[n - 1] \in Nat /\ n \in Nat /\ bit(n) \in Nat
      BY <1>1, <2>2
    <3> QED
      BY <1>9, <3>1
  <2> HIDE DEF S
  <2>3. \A n \in 0..W : n \in S
    BY <1>1, <2>1, <2>2, LoopInduction
  <2> QED
    BY <2>3 DEF S
<1> QED
  BY <1>9, <1>10 DEF g

(* Of a number that fits into a port nothing is left behind its bits.      *)
LEMMA ShiftedOut ==
  ASSUME NEW v \in Nat, v <= Number2(Low)
  PROVE  Shifted(v)[W] = 0
<1> DEFINE f == Shifted(v)
           g == Read(Low)
           S == {n \in Nat : f[n] <= g[W - n]}
<1>1. W \in Nat
  BY WidthAssumption
<1>2. f[0] = v /\ (\A n \in 1..W : f[n] = f[n - 1] \div 2) /\ \A n \in 0..W : f[n] \in Nat
  BY ShiftedDef
<1>3. /\ g[0] = 0 /\ \A n \in 1..W : g[n] = 2 * g[n - 1] + (IF W - n \in Low THEN 1 ELSE 0)
      /\ \A n \in 0..W : g[n] \in Nat
  BY ReadDef
<1>4. v <= g[W]
  BY DEF Number2
<1> HIDE DEF f, g
<1>5. 0 \in S
  BY <1>1, <1>2, <1>4
<1>6. ASSUME NEW n \in 1..W, n - 1 \in S PROVE n \in S
  <2> DEFINE m == W - n
  <2>1. /\ W - (n - 1) = m + 1 /\ m \in 0..W /\ m + 1 \in 1..W /\ m + 1 - 1 = m
        /\ n \in Nat /\ n - 1 \in 0..W /\ n \in 0..W
    BY <1>1
  <2> HIDE DEF m
  <2>2. f[n - 1] <= g[m + 1] /\ f[n - 1] \in Nat /\ g[m] \in Nat /\ g[m + 1] \in Nat
    BY <1>2, <1>3, <1>6, <2>1
  <2>3. g[m + 1] <= 2 * g[m] + 1
    BY <1>3, <2>1, <2>2
  <2>4. f[n] = f[n - 1] \div 2
    BY <1>2
  <2>5. \A a, b, c \in Nat : a <= b /\ b <= 2 * c + 1 => a \div 2 <= c
    OBVIOUS
  <2>6. f[n] <= g[m]
    BY <2>2, <2>3, <2>4, <2>5
  <2> QED
    BY <2>1, <2>6 DEF m
<1>7. W \in S
  <2> HIDE DEF S
  <2>1. \A n \in 0..W : n \in S
    BY <1>1, <1>5, <1>6, LoopInduction
  <2> QED
    BY <1>1, <2>1
<1>8. f[W] <= g[0] /\ f[W] \in Nat
  BY <1>1, <1>2, <1>7
<1> QED
  BY <1>3, <1>8 DEF f

(* A number that fits into a port is read back from its bits.              *)
LEMMA ReadBits ==
  ASSUME NEW v \in Nat, v <= Number2(Low)
  PROVE  Number2(Bits(v)) = v
<1> DEFINE f == Shifted(v)
           bits == Bits(v)
           g == Read(bits)
           S == {n \in Nat : g[n] = f[W - n]}
<1>1. W \in Nat
  BY WidthAssumption
<1>2. f[0] = v /\ (\A n \in 1..W : f[n] = f[n - 1] \div 2) /\ \A n \in 0..W : f[n] \in Nat
  BY ShiftedDef
<1>3. /\ g[0] = 0 /\ \A n \in 1..W : g[n] = 2 * g[n - 1] + (IF W - n \in bits THEN 1 ELSE 0)
  BY ReadDef
<1>4. f[W] = 0
  BY ShiftedOut
<1>5. \A b \in 0..(W - 1) : b \in bits <=> f[b] % 2 = 1
  BY <1>1 DEF Bits, Low
<1> HIDE DEF f, g, bits
<1>6. 0 \in S
  BY <1>1, <1>3, <1>4
<1>7. ASSUME NEW n \in 1..W, n - 1 \in S PROVE n \in S
  <2> DEFINE m == W - n
  <2>1. /\ W - (n - 1) = m + 1 /\ m \in 0..(W - 1) /\ m + 1 \in 1..W /\ m + 1 - 1 = m
        /\ n \in Nat /\ m \in 0..W
    BY <1>1
  <2>2. g[n] = 2 * g[n - 1] + (IF m \in bits THEN 1 ELSE 0)
    BY <1>3
  <2> HIDE DEF m
  <2>3. g[n - 1] = f[m + 1] /\ f[m + 1] = f[m] \div 2 /\ f[m] \in Nat
    BY <1>2, <1>7, <2>1
  <2>4. m \in bits <=> f[m] % 2 = 1
    BY <1>5, <2>1
  <2>5. \A a \in Nat : a = 2 * (a \div 2) + (IF a % 2 = 1 THEN 1 ELSE 0)
    OBVIOUS
  <2>6. g[n] = f[m]
    BY <2>2, <2>3, <2>4, <2>5
  <2> QED
    BY <2>1, <2>6 DEF m
<1>8. W \in S
  <2> HIDE DEF S
  <2>1. \A n \in 0..W : n \in S
    BY <1>1, <1>6, <1>7, LoopInduction
  <2> QED
    BY <1>1, <2>1
<1>9. g[W] = f[0]
  BY <1>1, <1>8
<1> QED
  BY <1>2, <1>9 DEF Number2, g, bits

-----------------------------------------------------------------------------
(* The texts do_setatten prints, and what is read from them. *)

(* The parser in the list of positions behind a text.                      *)
ListBehind(t, m, v) == t \in Seq(Tokens) /\ t # <<>> /\ InList(Behind(t, 31), m, v)

(* The beginning of such a text: the value, and "p=".                      *)
ValueText(h) == <<V, N(h), Semi, P>>

(* The value is read, the semicolon behind it is not looked at.            *)
LEMMA ValueRead ==
  ASSUME NEW h \in Nat
  PROVE  ListBehind(ValueText(h), {}, h) /\ Ready(Behind(ValueText(h), 31), {}, h)
<1> DEFINE t1 == <<V>>
           t2 == t1 \o <<N(h), Semi>>
           s1 == Turn(Start(31), V)
           s2 == Turn(s1, N(h))
           s3 == Turn(s2, Semi)
           s4 == Turn(s3, P)
<1>1. V \in Tokens /\ N(h) \in Tokens /\ Semi \in Tokens /\ P \in Tokens /\ 31 \in Int /\ Nat \subseteq Int
  BY TokensOfTexts
<1>2. t1 \in Seq(Tokens) /\ Behind(t1, 31) = s1
  BY <1>1, BehindOne
<1>3. ValueText(h) = Append(t2, P) /\ ValueText(h) # <<>>
  BY DEF ValueText
<1> HIDE DEF t1
<1>4. t2 \in Seq(Tokens) /\ Behind(t2, 31) = s3
  BY <1>1, <1>2, BehindTwo
<1> HIDE DEF t2, s3
<1>5. Behind(Append(t2, P), 31) = s4 /\ Append(t2, P) \in Seq(Tokens)
  <2>1. Append(t2, P) \in Seq(Tokens) /\ Behind(Append(t2, P), 31) = Turn(Behind(t2, 31), P)
    BY <1>1, <1>4, BehindMore
  <2> QED
    BY <1>4, <2>1
<1>6. s1.ok /\ ~s1.skip /\ s1.type = "v=" /\ s1.mask = {}
  <2>1. s1 = [Start(31) EXCEPT !.type = "v=", !.got = FALSE]
    BY DEF Turn, Token, Start, V
  <2>2. PICK t : t = [Start(31) EXCEPT !.type = "v=", !.got = FALSE]
    OBVIOUS
  <2> QED
    BY <2>1, <2>2 DEF Start
<1>7. s1 \in States(Int)
  <2>1. Start(31) \in States(Int)
    BY DEF Start, States
  <2> QED
    BY <1>1, <2>1, TurnTyped
<1> HIDE DEF s1
<1>8. s2 \in States(Int) /\ s3 \in States(Int)
  <2>1. s2 \in States(Int)
    BY <1>1, <1>7, TurnTyped
  <2> QED
    BY <1>1, <2>1, TurnTyped DEF s3
<1>9. s2.ok /\ s2.skip /\ s2.mask = {} /\ s2.val = h
  <2>1. s2 = Number(s1, h)
    BY <1>6 DEF Turn, Token, N
  <2>2. Number(s1, h) = [s1 EXCEPT !.mask = {}, !.val = h, !.got = TRUE, !.skip = TRUE]
    BY <1>6 DEF Number
  <2>3. PICK t : t = [s1 EXCEPT !.mask = {}, !.val = h, !.got = TRUE, !.skip = TRUE]
    OBVIOUS
  <2>4. t.ok /\ t.skip /\ t.mask = {} /\ t.val = h
    BY <1>6, <1>7, <2>3 DEF States
  <2> QED
    BY <2>1, <2>2, <2>3, <2>4
<1> HIDE DEF s2
<1>10. s3.ok /\ ~s3.skip /\ s3.mask = {} /\ s3.val = h
  <2>1. s3 = [s2 EXCEPT !.skip = FALSE, !.ok = TRUE]
    BY <1>9 DEF s3, Turn, Skipped, Semi
  <2> QED
    BY <1>8, <1>9, <2>1 DEF States
<1>11. Ready(s4, {}, h)
  <2>1. s4 = [s3 EXCEPT !.type = "p=", !.got = FALSE]
    BY <1>10 DEF Turn, Token, P
  <2> HIDE DEF s4
  <2> QED
    BY <1>8, <1>10, <2>1 DEF States, Ready, InList
<1> HIDE DEF s4
<1> QED
  BY <1>3, <1>5, <1>11 DEF ListBehind, Ready

(* The first position, and one more behind a comma.                        *)
LEMMA Positions ==
  \A t, m, v : \A k \in Nat : ListBehind(t, m, v) =>
     /\ Ready(Behind(t, 31), m, v) => ListBehind(t \o <<N(k)>>, m \cup {k}, v)
     /\ ListBehind(t \o <<Comma, N(k)>>, m \cup {k}, v)
<1> SUFFICES ASSUME NEW t, NEW m, NEW v, NEW k \in Nat, ListBehind(t, m, v)
             PROVE  /\ Ready(Behind(t, 31), m, v) => ListBehind(t \o <<N(k)>>, m \cup {k}, v)
                    /\ ListBehind(t \o <<Comma, N(k)>>, m \cup {k}, v)
  OBVIOUS
<1>1. /\ N(k) \in Tokens /\ Comma \in Tokens /\ 31 \in Int /\ Nat \subseteq Int
      /\ t \in Seq(Tokens) /\ t # <<>> /\ InList(Behind(t, 31), m, v)
  BY TokensOfTexts DEF ListBehind
<1>2. ASSUME Ready(Behind(t, 31), m, v) PROVE ListBehind(t \o <<N(k)>>, m \cup {k}, v)
  <2>1. /\ t \o <<N(k)>> = Append(t, N(k)) /\ t \o <<N(k)>> \in Seq(Tokens)
        /\ t \o <<N(k)>> # <<>>
    BY <1>1
  <2>2. Behind(Append(t, N(k)), 31) = Turn(Behind(t, 31), N(k))
    BY <1>1, BehindAppend
  <2>3. InList(Turn(Behind(t, 31), N(k)), m \cup {k}, v)
    BY <1>2, ListTurns
  <2> QED
    BY <2>1, <2>2, <2>3 DEF ListBehind
<1>3. ListBehind(t \o <<Comma, N(k)>>, m \cup {k}, v)
  <2>1. t \o <<Comma, N(k)>> # <<>>
    BY <1>1
  <2>2. /\ t \o <<Comma, N(k)>> \in Seq(Tokens)
        /\ Behind(t \o <<Comma, N(k)>>, 31) = Turn(Turn(Behind(t, 31), Comma), N(k))
    BY <1>1, BehindTwo
  <2>3. Ready(Turn(Behind(t, 31), Comma), m, v)
    BY <1>1, ListTurns
  <2>4. InList(Turn(Turn(Behind(t, 31), Comma), N(k)), m \cup {k}, v)
    BY <2>3, ListTurns
  <2> QED
    BY <2>1, <2>2, <2>4 DEF ListBehind
<1> QED
  BY <1>2, <1>3

(* The switches of the boards: the upper and the lower of each pair.       *)
Upper(boards) == {2 * j : j \in boards \cap {0, 1}}
Lower(boards) == {2 * j + 1 : j \in boards \cap {0, 1}}

(* Texts are put together in any order.                                    *)
LEMMA TextsJoined ==
  \A t, x, y \in Seq(Tokens) : t \o (x \o y) = (t \o x) \o y /\ t \o <<>> = t /\ x \o y \in Seq(Tokens)
OBVIOUS

(* The text for one of the switches of each pair is read as those.         *)
LEMMA HalfRead ==
  ASSUME NEW boards, NEW h \in Nat, NEW a \in Nat, NEW b \in Nat
  PROVE  ListBehind(ValueText(h) \o Pair(boards, <<N(a)>>, <<Comma, N(b)>>),
                    (IF 0 \in boards THEN {a} ELSE {}) \cup (IF 1 \in boards THEN {b} ELSE {}), h)
<1> DEFINE t == ValueText(h)
           x == IF 0 \in boards THEN <<N(a)>> ELSE <<>>
           y == IF 1 \in boards THEN <<Comma, N(b)>> ELSE <<>>
           m == IF 0 \in boards THEN {a} ELSE {}
           l == IF 1 \in boards THEN {b} ELSE {}
<1>1. ListBehind(t, {}, h) /\ Ready(Behind(t, 31), {}, h) /\ t \in Seq(Tokens)
  BY ValueRead DEF ListBehind
<1>2. x \in Seq(Tokens) /\ y \in Seq(Tokens)
  <2>1. N(a) \in Tokens /\ N(b) \in Tokens /\ Comma \in Tokens
    BY TokensOfTexts
  <2> QED
    BY <2>1
<1> HIDE DEF t
<1>3. ListBehind(t \o x, m, h)
  <2>1. CASE 0 \in boards
    <3>1. ListBehind(t \o <<N(a)>>, {} \cup {a}, h)
      BY <1>1, Positions
    <3> QED
      BY <2>1, <3>1
  <2>2. CASE 0 \notin boards
    <3>1. t \o <<>> = t
      BY <1>1
    <3> QED
      BY <1>1, <2>2, <3>1
  <2> QED
    BY <2>1, <2>2
<1> HIDE DEF x, m
<1>4. ListBehind((t \o x) \o y, m \cup l, h)
  <2> DEFINE u == t \o x
  <2>1. u \in Seq(Tokens)
    BY <1>1, <1>2
  <2> HIDE DEF u
  <2>2. CASE 1 \in boards
    <3>1. ListBehind(u \o <<Comma, N(b)>>, m \cup {b}, h)
      BY <1>3, Positions DEF u
    <3> QED
      BY <2>2, <3>1 DEF u
  <2>3. CASE 1 \notin boards
    <3>1. u \o <<>> = u /\ m \cup {} = m
      BY <2>1
    <3>2. ListBehind(u \o <<>>, m \cup {}, h)
      BY <1>3, <3>1 DEF u
    <3> QED
      BY <2>3, <3>2 DEF u
  <2> QED
    BY <2>2, <2>3
<1> HIDE DEF y, l
<1>5. t \o (x \o y) = (t \o x) \o y
  BY <1>1, <1>2, TextsJoined
<1>6. ListBehind(t \o (x \o y), m \cup l, h)
  BY <1>4, <1>5
<1> QED
  BY <1>6 DEF Pair, t, x, y, m, l

(* And the one for both.                                                   *)
LEMMA BothRead ==
  ASSUME NEW boards, NEW h \in Nat
  PROVE  ListBehind(ValueText(h) \o Pair(boards, <<N(0), Comma, N(1)>>, <<Comma, N(2), Comma, N(3)>>),
                    (IF 0 \in boards THEN {0, 1} ELSE {}) \cup (IF 1 \in boards THEN {2, 3} ELSE {}), h)
<1> DEFINE t == ValueText(h)
           x == IF 0 \in boards THEN <<N(0), Comma, N(1)>> ELSE <<>>
           y == IF 1 \in boards THEN <<Comma, N(2), Comma, N(3)>> ELSE <<>>
           m == IF 0 \in boards THEN {0, 1} ELSE {}
           l == IF 1 \in boards THEN {2, 3} ELSE {}
<1>1. ListBehind(t, {}, h) /\ Ready(Behind(t, 31), {}, h) /\ t \in Seq(Tokens)
  BY ValueRead DEF ListBehind
<1>2. N(0) \in Tokens /\ N(1) \in Tokens /\ N(2) \in Tokens /\ N(3) \in Tokens /\ Comma \in Tokens
  BY TokensOfTexts
<1>3. x \in Seq(Tokens) /\ y \in Seq(Tokens)
  BY <1>2
<1> HIDE DEF t
<1>4. ListBehind(t \o x, m, h)
  <2>1. CASE 0 \in boards
    <3>1. ListBehind(t \o <<N(0)>>, {} \cup {0}, h)
      BY <1>1, Positions
    <3>2. ListBehind((t \o <<N(0)>>) \o <<Comma, N(1)>>, ({} \cup {0}) \cup {1}, h)
      BY <3>1, Positions
    <3>3. (t \o <<N(0)>>) \o <<Comma, N(1)>> = t \o <<N(0), Comma, N(1)>>
      BY <1>1, <1>2
    <3>4. ({} \cup {0}) \cup {1} = {0, 1}
      OBVIOUS
    <3>5. x = <<N(0), Comma, N(1)>> /\ m = {0, 1}
      BY <2>1
    <3> HIDE DEF x, m
    <3> QED
      BY <3>2, <3>3, <3>4, <3>5
  <2>2. CASE 0 \notin boards
    <3>1. t \o <<>> = t
      BY <1>1
    <3> QED
      BY <1>1, <2>2, <3>1
  <2> QED
    BY <2>1, <2>2
<1> HIDE DEF x, m
<1>5. ListBehind((t \o x) \o y, m \cup l, h)
  <2> DEFINE u == t \o x
  <2>1. u \in Seq(Tokens)
    BY <1>1, <1>3
  <2> HIDE DEF u
  <2>2. CASE 1 \in boards
    <3>1. ListBehind(u \o <<Comma, N(2)>>, m \cup {2}, h)
      BY <1>4, Positions DEF u
    <3>2. ListBehind((u \o <<Comma, N(2)>>) \o <<Comma, N(3)>>, (m \cup {2}) \cup {3}, h)
      BY <3>1, Positions
    <3>3. (u \o <<Comma, N(2)>>) \o <<Comma, N(3)>> = u \o <<Comma, N(2), Comma, N(3)>>
      BY <1>2, <2>1
    <3>4. (m \cup {2}) \cup {3} = m \cup {2, 3}
      OBVIOUS
    <3>5. y = <<Comma, N(2), Comma, N(3)>> /\ l = {2, 3}
      BY <2>2
    <3> HIDE DEF y, l
    <3> QED
      BY <3>2, <3>3, <3>4, <3>5 DEF u
  <2>3. CASE 1 \notin boards
    <3>1. u \o <<>> = u /\ m \cup {} = m
      BY <2>1
    <3>2. ListBehind(u \o <<>>, m \cup {}, h)
      BY <1>4, <3>1 DEF u
    <3> QED
      BY <2>3, <3>2 DEF u
  <2> QED
    BY <2>2, <2>3
<1> HIDE DEF y, l
<1>6. t \o (x \o y) = (t \o x) \o y
  BY <1>1, <1>3, TextsJoined
<1>7. ListBehind(t \o (x \o y), m \cup l, h)
  BY <1>5, <1>6
<1> QED
  BY <1>7 DEF Pair, t, x, y, m, l

(* A text read as a list is one block.                                     *)
LEMMA OneBlock ==
  \A t, m, h : ListBehind(t, m, h) =>
     OutputAtten(t) = <<[kind |-> "atten", pins |-> m \cap Low, val |-> Bits(h)]>>
<1> SUFFICES ASSUME NEW t, NEW m, NEW h, ListBehind(t, m, h)
             PROVE  OutputAtten(t) = <<[kind |-> "atten", pins |-> m \cap Low, val |-> Bits(h)]>>
  OBVIOUS
<1>1. Parse(t, 31) = [ok |-> TRUE, mask |-> m, val |-> h]
  BY ListParsed DEF ListBehind
<1> DEFINE r == Parse(t, 31)
<1>2. r.ok /\ r.mask = m /\ r.val = h
  BY <1>1
<1>3. OutputAtten(t) = IF r.ok THEN <<[kind |-> "atten", pins |-> r.mask \cap Low, val |-> Bits(r.val)]>>
                               ELSE <<>>
  BY DEF OutputAtten
<1> HIDE DEF r
<1>4. OutputAtten(t) = <<[kind |-> "atten", pins |-> r.mask \cap Low, val |-> Bits(r.val)]>>
  BY <1>2, <1>3
<1> QED
  BY <1>2, <1>4

(* What is read of any argument is a set of positions and a number.        *)
LEMMA ParseTyped ==
  \A arg \in Seq(Tokens) : Parse(arg, 0).mask \in SUBSET Nat /\ Parse(arg, 0).val \in Nat
<1> SUFFICES ASSUME NEW arg \in Seq(Tokens)
             PROVE  Parse(arg, 0).mask \in SUBSET Nat /\ Parse(arg, 0).val \in Nat
  OBVIOUS
<1>1. P \in Tokens /\ 0 \in Nat
  BY TokensOfTexts
<1>2. Behind(arg, 0) \in States(Nat)
  BY <1>1, BehindAppend
<1>3. Parse(arg, 0).mask = Behind(arg, 0).mask /\ Parse(arg, 0).val = Behind(arg, 0).val
  BY DEF Parse, Behind
<1> QED
  BY <1>2, <1>3 DEF States

(* The two halves of a value add up to it.                                 *)
LEMMA HalvesAddUp ==
  \A v \in Nat : Half1(v) \in Nat /\ Half2(v) \in Nat /\ Half1(v) + Half2(v) = v
BY DEF Half1, Half2

(* Any bits that are set are known.                                        *)
LEMMA BitsKnown == \A h : Bits(h) \in SUBSET Low /\ Bits(h) # Unknown
BY DEF Bits, Low, Unknown

AttenBlock(pins, h) == [kind |-> "atten", pins |-> pins, val |-> Bits(h)]

(* The script of -a: a block for all switches of the boards it names, or   *)
(* one for the upper and one for the lower.                                *)
LEMMA AttenScript ==
  ASSUME W >= 4, NEW arg \in Seq(Tokens)
  PROVE  LET r == Parse(arg, 0)
             h1 == Half1(r.val)
             h2 == Half2(r.val)
         IN  SetAtten(arg) =
               IF h1 = h2 THEN <<AttenBlock(Upper(r.mask) \cup Lower(r.mask), h1)>>
                          ELSE <<AttenBlock(Upper(r.mask), h1), AttenBlock(Lower(r.mask), h2)>>
<1> DEFINE r == Parse(arg, 0)
           h1 == Half1(r.val)
           h2 == Half2(r.val)
           boards == r.mask
           both == ValueText(h1) \o Pair(boards, <<N(0), Comma, N(1)>>, <<Comma, N(2), Comma, N(3)>>)
           upper == ValueText(h1) \o Pair(boards, <<N(0)>>, <<Comma, N(2)>>)
           lower == ValueText(h2) \o Pair(boards, <<N(1)>>, <<Comma, N(3)>>)
<1>1. h1 \in Nat /\ h2 \in Nat
  BY ParseTyped, HalvesAddUp
<1>2. SetAtten(arg) = IF h1 = h2 THEN OutputAtten(both) ELSE OutputAtten(upper) \o OutputAtten(lower)
  BY DEF SetAtten, ValueText
<1> HIDE DEF r, h1, h2
<1> DEFINE all == (IF 0 \in boards THEN {0, 1} ELSE {}) \cup (IF 1 \in boards THEN {2, 3} ELSE {})
           even == (IF 0 \in boards THEN {0} ELSE {}) \cup (IF 1 \in boards THEN {2} ELSE {})
           odd == (IF 0 \in boards THEN {1} ELSE {}) \cup (IF 1 \in boards THEN {3} ELSE {})
<1>3. ListBehind(both, all, h1)
  BY <1>1, BothRead
<1>4. ListBehind(upper, even, h1)
  <2>1. 0 \in Nat /\ 2 \in Nat
    OBVIOUS
  <2> QED
    BY <1>1, <2>1, HalfRead
<1>5. ListBehind(lower, odd, h2)
  <2>1. 1 \in Nat /\ 3 \in Nat
    OBVIOUS
  <2> QED
    BY <1>1, <2>1, HalfRead
<1> HIDE DEF both, upper, lower, boards
<1>6. {0, 1, 2, 3} \subseteq Low
  BY WidthAssumption DEF Low
<1>7. even = Upper(boards) /\ odd = Lower(boards) /\ all = Upper(boards) \cup Lower(boards)
  BY DEF Upper, Lower
<1>8. all \cap Low = all /\ even \cap Low = even /\ odd \cap Low = odd
  BY <1>6
<1> HIDE DEF all, even, odd
<1>9. /\ OutputAtten(both) = <<AttenBlock(all, h1)>>
      /\ OutputAtten(upper) = <<AttenBlock(even, h1)>>
      /\ OutputAtten(lower) = <<AttenBlock(odd, h2)>>
  BY <1>3, <1>4, <1>5, <1>8, OneBlock DEF AttenBlock
<1>10. <<AttenBlock(even, h1)>> \o <<AttenBlock(odd, h2)>> = <<AttenBlock(even, h1), AttenBlock(odd, h2)>>
  <2> DEFINE x == AttenBlock(even, h1)
             y == AttenBlock(odd, h2)
             T == {x, y}
  <2>1. x \in T /\ y \in T
    OBVIOUS
  <2> HIDE DEF x, y, T
  <2>2. <<x>> \in Seq(T) /\ <<y>> \in Seq(T)
    BY <2>1, Singletons
  <2>3. <<x>> \o <<y>> = <<x, y>>
    <3> DEFINE u == <<x>> \o <<y>>
    <3>1. u \in Seq(T) /\ Len(u) = 2 /\ u[1] = x /\ u[2] = y
      BY <2>1, <2>2
    <3> HIDE DEF u
    <3>2. u = <<x, y>>
      BY <2>1, <3>1
    <3> QED
      BY <3>2 DEF u
  <2> QED
    BY <2>3 DEF x, y
<1>11. SetAtten(arg) = IF h1 = h2 THEN <<AttenBlock(all, h1)>>
                                  ELSE <<AttenBlock(even, h1), AttenBlock(odd, h2)>>
  BY <1>2, <1>9, <1>10
<1> QED
  BY <1>7, <1>11 DEF boards, h1, h2, r

(* The attenuators of a block are set to its value.                        *)
IsSet(w, b) == \A k \in b.pins : w[k] = b.val

(* A script of one block for attenuators, or of two for different ones.    *)
IsScript(s) ==
    \/ \E b : s = <<b>> /\ b.kind = "atten" /\ b.pins \subseteq Low
    \/ \E b, c : /\ s = <<b, c>> /\ b.kind = "atten" /\ c.kind = "atten"
                 /\ b.pins \subseteq Low /\ c.pins \subseteq Low /\ b.pins \cap c.pins = {}

LEMMA AttenScriptShape ==
  ASSUME W >= 4, NEW arg \in Seq(Tokens)
  PROVE  IsScript(SetAtten(arg))
<1> DEFINE r == Parse(arg, 0)
           u == AttenBlock(Upper(r.mask), Half1(r.val))
           l == AttenBlock(Lower(r.mask), Half2(r.val))
           a == AttenBlock(Upper(r.mask) \cup Lower(r.mask), Half1(r.val))
<1>1. SetAtten(arg) = <<a>> \/ SetAtten(arg) = <<u, l>>
  BY AttenScript
<1>2. /\ Upper(r.mask) \subseteq Low /\ Lower(r.mask) \subseteq Low
      /\ Upper(r.mask) \cap Lower(r.mask) = {}
  BY WidthAssumption DEF Upper, Lower, Low
<1>3. /\ a.kind = "atten" /\ a.pins = Upper(r.mask) \cup Lower(r.mask)
      /\ u.kind = "atten" /\ u.pins = Upper(r.mask)
      /\ l.kind = "atten" /\ l.pins = Lower(r.mask)
  BY DEF AttenBlock
<1> HIDE DEF a, u, l, r
<1> QED
  BY <1>1, <1>2, <1>3 DEF IsScript

(* Where a script of -a stands: nothing of it is executed, or of two       *)
(* blocks one is; or all is; or the script was cut off.                    *)
AttenScriptAt == request.opt = "a" =>
    LET s == SetAtten(request.arg)
    IN  /\ todo # <<>> =>
             ~done /\ (todo = s \/ (Len(s) = 2 /\ todo = <<s[2]>> /\ IsSet(want, s[1])))
        /\ done => todo = <<>> /\ \A i \in 1..Len(s) : IsSet(want, s[i])

(* Every step keeps that.                                                  *)
LEMMA StepAttenScript ==
  ASSUME W >= 4
  PROVE  IInv /\ AttenScriptAt /\ [Next]_vars => AttenScriptAt'
<1> DEFINE s == SetAtten(request.arg)
           Goal == /\ todo' # <<>> =>
                        /\ ~done'
                        /\ \/ todo' = SetAtten(request'.arg)
                           \/ /\ Len(SetAtten(request'.arg)) = 2
                              /\ todo' = <<SetAtten(request'.arg)[2]>>
                              /\ IsSet(want', SetAtten(request'.arg)[1])
                   /\ done' => /\ todo' = <<>>
                               /\ \A i \in 1..Len(SetAtten(request'.arg)) :
                                    IsSet(want', SetAtten(request'.arg)[i])
<1> SUFFICES ASSUME IInv, AttenScriptAt, [Next]_vars, request'.opt = "a" PROVE Goal
  BY DEF AttenScriptAt
<1>1. ASSUME NEW r \in Requests, Begin(r) PROVE Goal
  <2>1. request' = r /\ todo' = Blocks(r) /\ (done' <=> todo' = <<>>)
    BY <1>1 DEF Begin
  <2>2. Blocks(r) = SetAtten(r.arg)
    BY <2>1 DEF Blocks
  <2>3. r.arg \in Seq(Tokens)
    BY RequestsKnown
  <2>4. SetAtten(r.arg) # <<>>
    <3> DEFINE t == SetAtten(r.arg)
    <3>1. IsScript(t)
      BY <2>3, AttenScriptShape
    <3> HIDE DEF t
    <3>2. \A b, c : <<b>> # <<>> /\ <<b, c>> # <<>>
      OBVIOUS
    <3>3. t # <<>>
      BY <3>1, <3>2 DEF IsScript
    <3> QED
      BY <3>3 DEF t
  <2> QED
    BY <2>1, <2>2, <2>4
<1>2. CASE Execute
  <2>1. todo # <<>> /\ UNCHANGED <<todo, request, done, want>>
    BY <1>2 DEF Execute
  <2> QED
    BY <2>1 DEF AttenScriptAt
<1>3. CASE Complete
  <2>1. /\ todo # <<>> /\ request' = request /\ todo' = Tail(todo) /\ (done' <=> Tail(todo) = <<>>)
        /\ want' = [k \in Low |-> IF k \in Selected THEN Head(todo).val ELSE want[k]]
    BY <1>3 DEF Complete
  <2>2. request.arg \in Seq(Tokens)
    <3>1. request \in Requests
      BY <2>1 DEF IInv, TypeOK, None
    <3> QED
      BY <3>1, RequestsKnown
  <2>3. todo = s \/ (Len(s) = 2 /\ todo = <<s[2]>> /\ IsSet(want, s[1]))
    BY <2>1 DEF AttenScriptAt
  <2>4. IsScript(s)
    BY <2>2, AttenScriptShape
  <2>5. ASSUME NEW b, Head(todo) = b, b.kind = "atten", b.pins \subseteq Low
        PROVE  /\ IsSet(want', b)
               /\ \A c : c.pins \subseteq Low /\ c.pins \cap b.pins = {} /\ IsSet(want, c) => IsSet(want', c)
    <3>1. Selected = b.pins
      BY <2>1, <2>5 DEF Selected
    <3> QED
      BY <2>1, <2>5, <3>1 DEF IsSet
  <2> HIDE DEF s
  <2>6. CASE \E b : s = <<b>> /\ b.kind = "atten" /\ b.pins \subseteq Low
    <3>1. PICK b : s = <<b>> /\ b.kind = "atten" /\ b.pins \subseteq Low
      BY <2>6
    <3>2. Len(s) = 1 /\ s[1] = b /\ Head(s) = b /\ Tail(s) = <<>>
      BY <3>1
    <3>3. todo = s
      BY <2>3, <3>2
    <3>4. IsSet(want', b)
      BY <2>5, <3>1, <3>2, <3>3
    <3> QED
      BY <2>1, <3>2, <3>3, <3>4 DEF s
  <2>7. CASE \E b, c : /\ s = <<b, c>> /\ b.kind = "atten" /\ c.kind = "atten"
                       /\ b.pins \subseteq Low /\ c.pins \subseteq Low /\ b.pins \cap c.pins = {}
    <3>1. PICK b, c : /\ s = <<b, c>> /\ b.kind = "atten" /\ c.kind = "atten"
                      /\ b.pins \subseteq Low /\ c.pins \subseteq Low /\ b.pins \cap c.pins = {}
      BY <2>7
    <3>2. Len(s) = 2 /\ s[1] = b /\ s[2] = c /\ Head(s) = b /\ Tail(s) = <<c>>
      BY <3>1
    <3>3. CASE todo = s
      <4>1. IsSet(want', b)
        BY <2>5, <3>1, <3>2, <3>3
      <4>2. todo' = <<s[2]>> /\ ~done'
        BY <2>1, <3>2, <3>3
      <4> QED
        BY <2>1, <3>2, <4>1, <4>2 DEF s
    <3>4. CASE todo = <<c>> /\ IsSet(want, b)
      <4>1. Head(todo) = c /\ Tail(todo) = <<>>
        BY <3>4
      <4>2. IsSet(want', c) /\ IsSet(want', b)
        BY <2>5, <3>1, <3>4, <4>1
      <4>3. \A i \in 1..Len(s) : IsSet(want', s[i])
        BY <3>2, <4>2
      <4> QED
        BY <2>1, <4>1, <4>3 DEF s
    <3> QED
      BY <2>3, <3>2, <3>3, <3>4
  <2> QED
    BY <2>4, <2>6, <2>7 DEF IsScript
<1>4. CASE Interrupt
  BY <1>4 DEF Interrupt
<1>5. CASE UNCHANGED vars
  BY <1>5 DEF vars, AttenScriptAt
<1> QED
  BY <1>1, <1>2, <1>3, <1>4, <1>5 DEF Next

(* Then the two switches of a board have the value together.               *)
LEMMA SwitchesAddUp ==
  ASSUME W >= 4, IInv, AttenScriptAt
  PROVE  CombinedValueSet
<1> DEFINE r == Parse(request.arg, 0)
           h1 == Half1(r.val)
           h2 == Half2(r.val)
           s == SetAtten(request.arg)
<1> SUFFICES ASSUME done, request.opt = "a", NEW j \in r.mask \cap {0, 1}, r.val <= Number2(Low)
             PROVE  Number2(atten[2 * j]) + Number2(atten[2 * j + 1]) = r.val
  BY DEF CombinedValueSet
<1>1. request.arg \in Seq(Tokens)
  <2>1. request \in Requests
    BY DEF IInv, TypeOK, None
  <2> QED
    BY <2>1, RequestsKnown
<1>2. todo = <<>> /\ \A i \in 1..Len(s) : IsSet(want, s[i])
  BY DEF AttenScriptAt
<1>3. s = IF h1 = h2 THEN <<AttenBlock(Upper(r.mask) \cup Lower(r.mask), h1)>>
                     ELSE <<AttenBlock(Upper(r.mask), h1), AttenBlock(Lower(r.mask), h2)>>
  BY <1>1, AttenScript
<1>4. r.val \in Nat /\ h1 \in Nat /\ h2 \in Nat /\ h1 + h2 = r.val
  BY <1>1, ParseTyped, HalvesAddUp
<1> HIDE DEF s, h1, h2
<1>5. 2 * j \in Upper(r.mask) /\ 2 * j + 1 \in Lower(r.mask) /\ 2 * j \in Low /\ 2 * j + 1 \in Low
  <2>1. j \in {0, 1} /\ j \in r.mask
    OBVIOUS
  <2> HIDE DEF r
  <2>2. 2 * j \in Upper(r.mask) /\ 2 * j + 1 \in Lower(r.mask)
    BY <2>1 DEF Upper, Lower
  <2>3. 2 * j \in Low /\ 2 * j + 1 \in Low
    BY <2>1, WidthAssumption DEF Low
  <2> QED
    BY <2>2, <2>3
<1> HIDE DEF r
<1>6. want[2 * j] = Bits(h1) /\ want[2 * j + 1] = Bits(h2)
  <2>1. \A pins, h : AttenBlock(pins, h).pins = pins /\ AttenBlock(pins, h).val = Bits(h)
    BY DEF AttenBlock
  <2>2. CASE h1 = h2
    <3> DEFINE b == AttenBlock(Upper(r.mask) \cup Lower(r.mask), h1)
    <3>1. s = <<b>>
      BY <1>3, <2>2
    <3>2. b.pins = Upper(r.mask) \cup Lower(r.mask) /\ b.val = Bits(h1)
      BY <2>1
    <3> HIDE DEF b
    <3>3. Len(s) = 1 /\ s[1] = b
      BY <3>1
    <3>4. IsSet(want, b)
      BY <1>2, <3>3
    <3> QED
      BY <1>5, <2>2, <3>2, <3>4 DEF IsSet
  <2>3. CASE h1 # h2
    <3> DEFINE b == AttenBlock(Upper(r.mask), h1)
               c == AttenBlock(Lower(r.mask), h2)
    <3>1. s = <<b, c>>
      BY <1>3, <2>3
    <3>2. b.pins = Upper(r.mask) /\ b.val = Bits(h1) /\ c.pins = Lower(r.mask) /\ c.val = Bits(h2)
      BY <2>1
    <3> HIDE DEF b, c
    <3>3. Len(s) = 2 /\ s[1] = b /\ s[2] = c
      BY <3>1
    <3>4. IsSet(want, b) /\ IsSet(want, c)
      BY <1>2, <3>3
    <3> QED
      BY <1>5, <3>2, <3>4 DEF IsSet
  <2> QED
    BY <2>2, <2>3
<1>7. Selected = {}
  BY <1>2 DEF Selected
<1>8. atten[2 * j] = Bits(h1) /\ atten[2 * j + 1] = Bits(h2)
  BY <1>5, <1>6, <1>7, BitsKnown DEF IInv, HoldsWhatWasSet
<1>9. Number2(Low) \in Int
  <2>1. W \in 0..W
    BY WidthAssumption
  <2> QED
    BY <2>1, ReadDef DEF Number2
<1>10. h1 <= Number2(Low) /\ h2 <= Number2(Low)
  BY <1>4, <1>9
<1>11. Number2(Bits(h1)) = h1 /\ Number2(Bits(h2)) = h2
  BY <1>4, <1>10, ReadBits
<1> QED
  BY <1>4, <1>8, <1>11

(* Whatever was cut off before, a script of -a that was executed to its    *)
(* end leaves the two switches of each board it names at the value asked   *)
(* for, put together: on ports with a pin for every switch, as the 8 of    *)
(* the code have.                                                          *)
THEOREM SettingsAddUp ==
  ASSUME W >= 4
  PROVE  Spec => []CombinedValueSet
<1>1. Init => AttenScriptAt
  BY DEF Init, None, AttenScriptAt
<1>2. IInv /\ AttenScriptAt /\ [Next]_vars => AttenScriptAt'
  BY StepAttenScript
<1>3. IInv /\ AttenScriptAt => CombinedValueSet
  BY SwitchesAddUp
<1> QED
  BY <1>1, <1>2, <1>3, InvariantHolds, PTL DEF Spec
=============================================================================
