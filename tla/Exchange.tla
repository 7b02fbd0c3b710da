------------------------------- MODULE Exchange -------------------------------
(***************************************************************************)
(* One request after the other: a program that uses libedio24, or the      *)
(* client for a line of its script, builds a packet, the simulator answers *)
(* it from its output buffer, the client verifies what it receives.  A     *)
(* byte of a request may be damaged on the way.                            *)
(***************************************************************************)
EXTENDS Packet

CONSTANTS
    Ops,       \* requests built by a direct call of the library
    Lines,     \* lines of the client's script
    Sequels,   \* bound: what is built after the first request
    SzBuf,     \* the size of the buffer a request is built in: 100
    Fills,     \* what malloc may leave in a new output buffer
    OutInit,   \* its size: 7 + 30
    Damages,   \* values a damaged byte may take
    RandFail,  \* the simulator answers some requests with a random error
    MaxFrames  \* bound: the requests made, none after a damaged one

ASSUME DamagesAssumption == Damages \subseteq Byte
ASSUME FillsAssumption == Fills \subseteq Byte
ASSUME OutAssumption == OutInit \in Nat
ASSUME FramesAssumption == MaxFrames \in Nat

VARIABLES
    frame,     \* g_edio24cli.frame
    built,     \* the number of requests built
    line,      \* the line the request under way was built for, or NoLine
    req,       \* the request under way
    rx,        \* its bytes as the simulator receives them
    damaged,   \* one of them is not the one that was sent
    out,       \* the contents of buffer_out
    reply,     \* what the simulator sends back
    ret,       \* what edio24_svr_process_tcp returned
    verdict,   \* what edio24_cli_verify_tcp returned
    phase

vars == <<frame, built, line, req, rx, damaged, out, reply, ret, verdict, phase>>

NoLine == [word |-> "none", x |-> 0, y |-> 0, payload |-> <<>>]

Fresh(n) == {[i \in 1..n |-> fill] : fill \in Fills}

Init ==
    /\ frame \in {0, 255}
    /\ built = 0
    /\ line = NoLine
    /\ req = [op |-> "none"]
    /\ rx = <<>>
    /\ damaged = FALSE
    /\ out \in Fresh(OutInit)
    /\ reply = <<>>
    /\ ret = 0
    /\ verdict = 0
    /\ phase = "build"

(***************************************************************************)
(* process_command: a line has a word, two hexadecimal numbers x and y and *)
(* the bytes of a payload.  "Reset" asks for the status.  The numbers of   *)
(* every memory read are looked for at the place they have in a            *)
(* "ConfigMemoryR" line: in the longer words the first, or both, come out  *)
(* as 0, and for "SettingsMemoryR" the second as x.                        *)
(***************************************************************************)
PlainWords == [DIn |-> "DIN_R", DOutR |-> "DOUT_R", DConfigR |-> "DCONF_R",
               CounterR |-> "COUNTER_R", CounterW |-> "COUNTER_W", Reset |-> "STATUS",
               Status |-> "STATUS", NetworkConfig |-> "NETWORK_CONF",
               FirmwareUpgrade |-> "FIRMWARE"]
ReadWords == [ConfigMemoryR |-> "CONF_MEM_R", SettingsMemoryR |-> "SET_MEM_R",
              BootloaderMemoryR |-> "BOOT_MEM_R"]
OtherWords == [DOutW |-> "DOUT_W", DConfigW |-> "DCONF_W", BlinkLED |-> "BLINKLED",
               ConfigMemoryW |-> "CONF_MEM_W", SettingsMemoryW |-> "SET_MEM_W",
               BootloaderMemoryW |-> "BOOT_MEM_W"]

Known(l) == l.word \in DOMAIN PlainWords \cup DOMAIN ReadWords \cup DOMAIN OtherWords

Parsed(l) ==
    LET call(op, a, b) == [op |-> op, a |-> a, b |-> b, payload |-> l.payload]
    IN  CASE l.word \in DOMAIN PlainWords -> call(PlainWords[l.word], 0, 0)
          [] l.word = "ConfigMemoryR" -> call("CONF_MEM_R", l.x, l.y)
          [] l.word = "SettingsMemoryR" -> call("SET_MEM_R", 0, l.x)
          [] l.word = "BootloaderMemoryR" -> call("BOOT_MEM_R", 0, 0)
          [] l.word \in DOMAIN OtherWords -> call(OtherWords[l.word], l.x, l.y)

(***************************************************************************)
(* What is ever asked for: numbers, an address of 16 bits, and a payload   *)
(* the count has room for.                                                 *)
(***************************************************************************)
Asked == Ops \cup Sequels \cup {Parsed(l) : l \in {k \in Lines : Known(k)}}

ASSUME AskedAssumption == \A r \in Asked :
    /\ r.op \in DOMAIN CMD
    /\ r.a \in Nat /\ r.b \in Nat
    /\ r.op \in MemRead => r.a \in Word
    /\ r.payload \in Seq(Byte) /\ Len(r.payload) + 2 \in Word

(* edio24_pkt_create_cmd_xxx: nothing is built without the room asked for. *)
Build(r) ==
    /\ phase = "build"
    /\ built < MaxFrames
    /\ ~damaged
    /\ RoomChecked(r) <= SzBuf
    /\ req' = r
    /\ rx' = Request(r, frame)
    /\ frame' = (frame + 1) % 256
    /\ built' = built + 1
    /\ phase' = "simulator"
    /\ UNCHANGED <<damaged, out, reply, ret, verdict>>

Call(r) == Build(r) /\ line' = NoLine

(* A line without a known word is ignored. *)
ProcessCommand(l) == Known(l) /\ Build(Parsed(l)) /\ line' = l

Damage(i, b) ==
    /\ phase = "simulator"
    /\ ~damaged
    /\ b # rx[i]
    /\ rx' = [rx EXCEPT ![i] = b]
    /\ damaged' = TRUE
    /\ UNCHANGED <<frame, built, line, req, out, reply, ret, verdict, phase>>

(***************************************************************************)
(* Each call of edio24svr_process_data allocates buffer_out anew; several  *)
(* requests processed in one call share it.                                *)
(***************************************************************************)
NewCall ==
    /\ phase = "simulator"
    /\ Len(out) # OutInit \/ out \notin Fresh(OutInit)
    /\ out' \in Fresh(OutInit)
    /\ UNCHANGED <<frame, built, line, req, rx, damaged, reply, ret, verdict, phase>>

Ready == phase = "simulator" /\ NeededIn(rx) = 0

Length == LenData(rx)

(* The count was damaged: the simulator waits for the rest of the packet. *)
Wait ==
    /\ phase = "simulator"
    /\ NeededIn(rx) > 0
    /\ phase' = "waiting"
    /\ UNCHANGED <<frame, built, line, req, rx, damaged, out, reply, ret, verdict>>

(* ret is 2 or -1, and sz_out is still the size of buffer_out. *)
Refuse ==
    /\ Ready
    /\ ReturnCode(rx) # 0
    /\ ret' = ReturnCode(rx)
    /\ reply' = out
    /\ phase' = "client"
    /\ UNCHANGED <<frame, built, line, req, rx, damaged, out, verdict>>

(* sz_needed_out: realloc keeps the old contents and adds unwritten bytes. *)
Grow ==
    /\ Ready
    /\ ReturnCode(rx) = 0
    /\ MIN + Length > Len(out)
    /\ \E more \in Fresh(MIN + Length - Len(out)) : out' = out \o more
    /\ UNCHANGED <<frame, built, line, req, rx, damaged, reply, ret, verdict, phase>>

Statuses ==
    LET forced == IF RandFail THEN 1..MSG_ERROR_OTHER ELSE {}
    IN  IF OutOfRange(rx) THEN {MSG_ERROR_PARAMETER} ELSE {MSG_SUCCESS} \cup forced

Answer ==
    /\ Ready
    /\ ReturnCode(rx) = 0
    /\ MIN + Length <= Len(out)
    /\ \E status \in Statuses : reply' = Respond(rx, out, status, Length)
    /\ out' = reply' \o SubSeq(out, Len(reply') + 1, Len(out))
    /\ ret' = 0
    /\ phase' = "client"
    /\ UNCHANGED <<frame, built, line, req, rx, damaged, verdict>>

ClientVerifies ==
    /\ phase = "client"
    /\ verdict' = IF NeededIn(reply) > 0 THEN 1 ELSE ClientReturnCode(reply)
    /\ phase' = "build"
    /\ UNCHANGED <<frame, built, line, req, rx, damaged, out, reply, ret>>

Next ==
    \/ \E r \in IF built = 0 THEN Ops ELSE Sequels : Call(r)
    \/ \E l \in IF built = 0 THEN Lines ELSE {} : ProcessCommand(l)
    \/ \E i \in 1..Len(rx), b \in Damages : Damage(i, b)
    \/ NewCall \/ Wait \/ Refuse \/ Grow \/ Answer
    \/ ClientVerifies

Spec == Init /\ [][Next]_vars

-----------------------------------------------------------------------------
(* Every byte is a byte: the arithmetic of builders and responses wraps    *)
(* where the unsigned char of the code does.                               *)
TypeOK ==
    /\ frame \in Byte
    /\ built \in 0..MaxFrames
    /\ rx \in Seq(Byte)
    /\ damaged \in BOOLEAN
    /\ out \in Seq(Byte)
    /\ reply \in Seq(Byte)
    /\ ret \in {0, 2, -1}
    /\ verdict \in {0, 1, 2, -1}
    /\ phase \in {"build", "simulator", "waiting", "client"}

Sent == phase = "simulator" /\ ~damaged

(* While a packet arrives the receiver never waits for more bytes than the *)
(* sender still has to send: it would wait for ever for the last packet of *)
(* a session, or swallow the start of the next one.                        *)
NeverWaitsTooLong == Sent =>
    \A n \in 0..Len(rx) :
      /\ NeededIn(SubSeq(rx, 1, n)) <= Len(rx) - n
      /\ NeededIn(SubSeq(rx, 1, n)) = 0 <=> n = Len(rx)

(* The simulator accepts every supported request and takes exactly its     *)
(* bytes.                                                                  *)
AcceptsWhatIsBuilt == Sent /\ Command(req) \in Supported =>
    ReturnCode(rx) = 0 /\ Processed(rx) = Len(rx)

(* A single damaged byte, wherever the count is intact, never goes         *)
(* unnoticed: the simulator refuses the packet.                            *)
DamageRefused ==
    phase = "client" /\ damaged /\ Count(rx) = Len(rx) - MIN => ret # 0

(* A response without data is accepted by the client as the answer to the  *)
(* request it was sent for: same command, same frame, nothing left over.   *)
ShortRepliesMatch ==
    phase = "client" /\ ret = 0 /\ LenData(rx) < 2 =>
      /\ NeededIn(reply) = 0
      /\ ClientReturnCode(reply) = 0
      /\ Processed(reply) = Len(reply)
      /\ reply[2] = rx[2] + MSG_REPLY /\ reply[3] = rx[3]

(* A range is read only if it lies in the memory: an accepted request      *)
(* never reads past the last address.                                      *)
ReadsStayInside ==
    phase = "client" /\ ret = 0 /\ ~damaged =>
      \A k \in Checked(rx[2]) :
        LenData(rx) > 0 => req.a + LenData(rx) - 1 <= MaxAddress[k]

(* "can be used to test your custom commands with edio24cli": the client   *)
(* understands the answer to every request the simulator accepts.          *)
RepliesReadable ==
    phase = "client" /\ ret = 0 => NeededIn(reply) = 0 /\ ClientReturnCode(reply) = 0
=============================================================================
