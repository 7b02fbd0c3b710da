------------------------------- MODULE Framing -------------------------------
(***************************************************************************)
(* How libedio24 finds one packet in a receive buffer.  The simulator      *)
(* (edio24_svr_process_tcp) and the client (edio24_cli_verify_tcp) make    *)
(* the same three decisions, in the same order:                            *)
(*                                                                         *)
(*   - fewer than MinLen bytes, or fewer than the count field of the       *)
(*     header claims: need more data;                                      *)
(*   - the claimed bytes do not add up to the checksum, or name a command  *)
(*     the switch does not know: rejected, and left in the buffer;         *)
(*   - otherwise the packet is accepted, and its bytes are removed.        *)
(*                                                                         *)
(* A byte is modelled by the packet it was sent in and its place in it, so *)
(* that bytes of different packets are never mistaken for one another.  A  *)
(* header put together from the bytes of two packets carries some count    *)
(* nobody chose: what it claims is then left open.  That such a mixture    *)
(* happens to pass the 8-bit checksum is not modelled.                     *)
(***************************************************************************)
EXTENDS Naturals, Sequences

CONSTANT MinLen   \* EDIO24_PKT_LENGTH_MIN: the header and the trailing checksum

ASSUME MinLenAssumption == MinLen \in Nat /\ MinLen >= 2

(***************************************************************************)
(* "ok": a supported command with a good checksum; "illegal": the checksum *)
(* is wrong (the functions return 2); "fatal": an unsupported command (the *)
(* functions return -1).                                                   *)
(***************************************************************************)
Kinds == {"ok", "illegal", "fatal"}

(* The bytes of packet p as they are written to the connection. *)
Bytes(p) == [i \in 1..p.size |-> [pkt |-> p, pos |-> i]]

(* The first n bytes of the buffer are the first n of one packet. *)
Whole(buf, n) == \A i \in 1..n : buf[i] = [pkt |-> buf[1].pkt, pos |-> i]

(* The six header bytes, the count field with them, are of one packet. *)
HeaderWhole(buf) == Whole(buf, MinLen - 1)

(* The size the header claims: MSG_INDEX_DATA + 1 + count. *)
Claimed(buf) == buf[1].pkt.size

(* The buffer starts at the start of a packet and holds nothing else up to *)
(* the end of it.                                                          *)
Synced(buf) == \A i \in 1..Len(buf) :
    i <= Claimed(buf) => buf[i] = [pkt |-> buf[1].pkt, pos |-> i]

(* edio24_pkt_verify and the switch on the command, for a whole frame. *)
Intact(buf) == Whole(buf, Claimed(buf)) /\ buf[1].pkt.kind = "ok"

NeedMore(buf) ==
    Len(buf) >= MinLen /\ HeaderWhole(buf) => Len(buf) < Claimed(buf)

Rejects(buf) ==
    /\ Len(buf) >= MinLen
    /\ HeaderWhole(buf) => Len(buf) >= Claimed(buf) /\ ~Intact(buf)

Accepts(buf) ==
    /\ Len(buf) >= MinLen
    /\ HeaderWhole(buf)
    /\ Len(buf) >= Claimed(buf)
    /\ Intact(buf)

(* The return value of a rejection: 2 for a bad checksum, -1 for a command  *)
(* that is not supported.                                                  *)
RejectKind(buf) == IF buf[1].pkt.kind = "fatal" THEN "fatal" ELSE "illegal"

(* Broken: the checksum is left behind. *)
DropFrameButChecksum(buf) == SubSeq(buf, Claimed(buf), Len(buf))

(* memmove of what follows the packet just processed to the front. *)
DropFrame(buf) == SubSeq(buf, Claimed(buf) + 1, Len(buf))
=============================================================================
