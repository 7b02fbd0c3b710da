-------------------------------- MODULE Packet --------------------------------
(***************************************************************************)
(* The packets of the E-DIO24 protocol, byte by byte, as libedio24.c       *)
(* builds and reads them:                                                  *)
(*                                                                         *)
(*   start  command  frame  status  count-low  count-high  data  checksum  *)
(***************************************************************************)
EXTENDS Integers, Sequences, SequencesExt

Byte == 0..255
Word == {n \in Nat : n \div 256 \in Byte}     \* what two bytes can hold

MSG_START == 219
MSG_REPLY == 128
MSG_INDEX_DATA == 6
MIN == MSG_INDEX_DATA + 1     \* EDIO24_PKT_LENGTH_MIN

MSG_SUCCESS == 0
MSG_ERROR_PROTOCOL == 1
MSG_ERROR_PARAMETER == 2
MSG_ERROR_OTHER == 6

(* The command codes, CMD_xxx. *)
CMD == [DIN_R |-> 0, DOUT_R |-> 2, DOUT_W |-> 3, DCONF_R |-> 4, DCONF_W |-> 5,
        COUNTER_R |-> 48, COUNTER_W |-> 49, CONF_MEM_R |-> 64, CONF_MEM_W |-> 65,
        USR_MEM_R |-> 66, USR_MEM_W |-> 67, SET_MEM_R |-> 68, SET_MEM_W |-> 69,
        BOOT_MEM_R |-> 70, BOOT_MEM_W |-> 71, BLINKLED |-> 80, RESET |-> 81,
        STATUS |-> 82, NETWORK_CONF |-> 84, FIRMWARE |-> 96]

Codes(names) == {CMD[k] : k \in names}

(* What the two switches, the simulator's and the client's, know. *)
Supported == Codes(DOMAIN CMD \ {"RESET", "FIRMWARE"})

-----------------------------------------------------------------------------
(* Writing a packet. *)

Low(v) == v % 256
High(v) == (v \div 256) % 256
Third(v) == (v \div 65536) % 256

(* edio24_pkt_checksum: what the loop has added up after n bytes.          *)
Sums(s) == LET sum[n \in 0..Len(s)] == IF n = 0 THEN 0 ELSE (sum[n - 1] + s[n]) % 256
           IN  sum

(* Broken: the sum as an int, without the wrap of an unsigned char. *)
ChecksumUnwrapped(s) == FoldSeq(LAMBDA b, sum : b + sum, 0, s)

Checksum(s) == Sums(s)[Len(s)]

Seal(s) == Append(s, 255 - Checksum(s))

Frame(cmd, frame, status, data) ==
    Seal(<<MSG_START, cmd, frame, status, Low(Len(data)), High(Len(data))>> \o data)

(***************************************************************************)
(* A request is a record [op, a, b, payload]: mask and value, address and  *)
(* count, or address and payload, as the edio24_pkt_create_cmd_xxx take.   *)
(***************************************************************************)
Plain == {"DIN_R", "DOUT_R", "DCONF_R", "COUNTER_R", "COUNTER_W", "RESET", "STATUS", "NETWORK_CONF"}
Masked == {"DOUT_W", "DCONF_W"}
MemRead == {"CONF_MEM_R", "USR_MEM_R", "SET_MEM_R", "BOOT_MEM_R"}
MemWrite == {"CONF_MEM_W", "USR_MEM_W", "SET_MEM_W", "BOOT_MEM_W"}

Data(r) ==
    CASE r.op \in Plain -> <<>>
      [] r.op \in Masked -> <<Low(r.a), High(r.a), Third(r.a), Low(r.b), High(r.b), Third(r.b)>>
      [] r.op \in MemRead -> <<Low(r.a), High(r.a), Low(r.b), High(r.b)>>
      [] r.op \in MemWrite -> <<Low(r.a), High(r.a)>> \o r.payload
      [] r.op = "BLINKLED" -> <<Low(r.a)>>
      [] r.op = "FIRMWARE" -> <<173, 173>>

(* edio24_pkt_create_cmd_firmware puts another command into the packet. *)
Command(r) == IF r.op = "FIRMWARE" THEN CMD.BLINKLED ELSE CMD[r.op]

(* The room the functions ask for: the payload of a write is not counted. *)
RoomChecked(r) == MIN + IF r.op \in MemWrite THEN 2 ELSE Len(Data(r))

Request(r, frame) == Frame(Command(r), frame, MSG_SUCCESS, Data(r))

-----------------------------------------------------------------------------
(* Reading a packet. *)

Count(s) == s[5] + 256 * s[6]

(* Broken: the two bytes of the count the wrong way round. *)
VerifySwapped(s) ==
    LET count == 256 * s[5] + s[6]
    IN  /\ Len(s) >= MIN + count
        /\ s[MIN + count] + Checksum(SubSeq(s, 1, MSG_INDEX_DATA + count)) = 255

(* Broken: the last byte before the checksum is left out of the sum. *)
VerifyShort(s) ==
    /\ Len(s) >= MIN + Count(s)
    /\ s[MIN + Count(s)] + Checksum(SubSeq(s, 1, MSG_INDEX_DATA + Count(s) - 1)) = 255

(* edio24_pkt_verify, for a buffer that holds at least a header. *)
Verify(s) ==
    /\ Len(s) >= MIN + Count(s)
    /\ s[MIN + Count(s)] + Checksum(SubSeq(s, 1, MSG_INDEX_DATA + Count(s))) = 255

(***************************************************************************)
(* edio24_pkt_read_value of two bytes.  Beyond the end of the buffer it    *)
(* returns -1 and leaves the caller's variable unset; the requests of this *)
(* client carry all their arguments, so that does not happen here.         *)
(***************************************************************************)
ReadValue(s, off) ==
    IF Verify(s) /\ MIN + off + 2 <= Len(s) THEN s[MIN + off] + 256 * s[MIN + off + 1] ELSE -1

(* Broken: the checksum is forgotten in what is asked for. *)
NeededInShort(s) ==
    IF Len(s) < MIN THEN MIN - Len(s)
    ELSE IF MSG_INDEX_DATA + Count(s) > Len(s) THEN MSG_INDEX_DATA + Count(s) - Len(s) ELSE 0

(* sz_needed_in: the bytes both ends wait for before they look further. *)
NeededIn(s) ==
    IF Len(s) < MIN THEN MIN - Len(s)
    ELSE IF MIN + Count(s) > Len(s) THEN MIN + Count(s) - Len(s) ELSE 0

(* sz_processed of an accepted packet. *)
Processed(s) == MIN + Count(s)

-----------------------------------------------------------------------------
(* The simulator: edio24_svr_process_tcp once it has enough bytes. *)

MaxAddress == [CONF_MEM_R |-> 15, USR_MEM_R |-> 3823, SET_MEM_R |-> 255]

Checked(cmd) == {k \in DOMAIN MaxAddress : CMD[k] = cmd}

(* Broken: the end of the range is not checked. *)
InRangeStart(max, address, size) == size >= 1 /\ size <= 1024 /\ address <= max

InRange(max, address, size) ==
    size >= 1 /\ size <= 1024 /\ address <= max /\ address + size <= max

Requested(s) == ReadValue(s, 2)

OutOfRange(s) == \E k \in Checked(s[2]) :
    ~InRange(MaxAddress[k], ReadValue(s, 0), Requested(s))

(* len_data: the bytes of data in the response. *)
LenData(s) ==
    CASE s[2] \in Codes({"DIN_R", "DCONF_R", "DOUT_R"}) -> 3
      [] s[2] = CMD.COUNTER_R -> 4
      [] s[2] = CMD.STATUS -> 2
      [] s[2] = CMD.NETWORK_CONF -> 12
      [] s[2] \in Codes(MemRead) -> IF OutOfRange(s) THEN 0 ELSE Requested(s)
      [] OTHER -> 0

ReturnCode(s) ==
    IF s[2] \notin Supported THEN -1 ELSE IF Verify(s) THEN 0 ELSE 2

(***************************************************************************)
(* The response in buffer_out, whose old contents are out.  The data bytes *)
(* are written first.  edio24_pkt_create_respond is told that the buffer   *)
(* has the size of a pointer, so with two bytes of data or more it refuses *)
(* and the header and the checksum keep their old contents; with one byte  *)
(* it copies the first byte of the buffer over it.                         *)
(***************************************************************************)
SizeofPointer == 8

(* Broken: a response with one byte of data is refused as well. *)
RespondStrict(s, out, status, len) ==
    IF MIN + len < SizeofPointer
      THEN Frame(s[2] + MSG_REPLY, s[3], status, SubSeq(out, 1, len))
      ELSE [i \in 1..(MIN + len) |->
              IF i \in MIN..(MSG_INDEX_DATA + len) THEN (i - MSG_INDEX_DATA) % 256 ELSE out[i]]

Respond(s, out, status, len) ==
    IF MIN + len <= SizeofPointer
      THEN Frame(s[2] + MSG_REPLY, s[3], status, SubSeq(out, 1, len))
      ELSE [i \in 1..(MIN + len) |->
              IF i \in MIN..(MSG_INDEX_DATA + len) THEN (i - MSG_INDEX_DATA) % 256 ELSE out[i]]

-----------------------------------------------------------------------------
(* The client: edio24_cli_verify_tcp once it has enough bytes. *)
ClientReturnCode(s) ==
    IF ~Verify(s) THEN 2 ELSE IF s[2] % MSG_REPLY \in Supported THEN 0 ELSE -1
=============================================================================
