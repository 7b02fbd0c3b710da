----------------------------- MODULE RecvBuffer -----------------------------
(***************************************************************************)
(* The receive path of one TCP connection: on_tcp_svr_read with            *)
(* edio24svr_process_data in edio24sim.c (role = "sim") and                *)
(* on_tcp_cli_read with edio24cli_process_data in edio24cli.c              *)
(* (role = "cli").  libuv hands the callback an arbitrary chunk of the     *)
(* stream; the callback moves it piecewise into a buffer of Cap bytes and  *)
(* after every piece processes as many packets as the buffer holds.        *)
(***************************************************************************)
EXTENDS Framing

CONSTANTS
    Roles,        \* whose receive path: "sim", "cli"
    Cap,          \* sizeof buffer: (7 + 6) * 5 in the sim, 7 + 1024 in the cli
    Contents,     \* the packets the peer may send: size, kind, and reply, the
                  \* size of the response the sim sends for it
    OutInit,      \* the first size of the sim's buffer_out: 7 + 30
    Requests,     \* num_requests of the client, which closes after as many responses
    MaxPackets    \* bound: packets the peer sends

ASSUME RolesAssumption == Roles \subseteq {"sim", "cli"}
ASSUME CapAssumption == Cap \in Nat /\ Cap >= MinLen
ASSUME ContentsAssumption == \A p \in Contents :
    /\ p \in [size : Nat, kind : Kinds, reply : Nat]
    /\ p.size >= MinLen
ASSUME ReplyAssumption == OutInit \in Nat
ASSUME BoundAssumption == MaxPackets \in Nat /\ Requests \in Nat

Sizes == {p.size : p \in Contents}
SentKinds == {p.kind : p \in Contents}
ReplySizes == {p.reply : p \in Contents}

Packet == [id : 1..MaxPackets, size : Sizes, kind : SentKinds, reply : ReplySizes]

Byte == [pkt : Packet, pos : Nat]

VARIABLES
    role,      \* whose receive path it is
    nsent,     \* packets the peer has written
    fin,       \* the peer has closed its end
    wire,      \* bytes written and not yet read by libuv
    chunk,     \* the bytes of the current read not yet copied
    buffer,    \* buffer[0 .. sz_data - 1]
    outcap,    \* buf.len of edio24svr_process_data
    pc,        \* where the read callback stands; "poll" between callbacks
    handled,   \* the numbers of the packets accepted, in order
    junk,      \* frames sent whose contents the process function never wrote
    rejected,  \* the kinds of packet the process function has refused
    lost       \* a stalled callback has thrown bytes away

vars == <<role, nsent, fin, wire, chunk, buffer, outcap, pc, handled, junk, rejected, lost>>

Init ==
    /\ role \in Roles
    /\ nsent = 0
    /\ fin = FALSE
    /\ wire = <<>>
    /\ chunk = <<>>
    /\ buffer = <<>>
    /\ outcap = OutInit
    /\ pc = "poll"
    /\ handled = <<>>
    /\ junk = 0
    /\ rejected = {}
    /\ lost = FALSE

-----------------------------------------------------------------------------
(* The peer. *)

Send(size, kind, reply) ==
    /\ ~fin
    /\ nsent < MaxPackets
    /\ nsent' = nsent + 1
    /\ wire' = wire \o Bytes([id |-> nsent + 1, size |-> size, kind |-> kind, reply |-> reply])
    /\ UNCHANGED <<role, fin, chunk, buffer, outcap, pc, handled, junk, rejected, lost>>

PeerSend == \E p \in Contents : Send(p.size, p.kind, p.reply)

PeerClose ==
    /\ ~fin
    /\ fin' = TRUE
    /\ UNCHANGED <<role, nsent, wire, chunk, buffer, outcap, pc, handled, junk, rejected, lost>>

-----------------------------------------------------------------------------
(* The read callback.  The definitions marked "Broken" are the mistakes    *)
(* the properties are there to find; no specification uses them.           *)

(* nread > 0: the callback first processes what the buffer already holds. *)
Read(n) ==
    /\ pc = "poll"
    /\ chunk' = SubSeq(wire, 1, n)
    /\ wire' = SubSeq(wire, n + 1, Len(wire))
    /\ outcap' = OutInit
    /\ pc' = "process"
    /\ UNCHANGED <<role, nsent, fin, buffer, handled, junk, rejected, lost>>

ReadChunk == \E n \in 1..Len(wire) : Read(n)

(* nread < 0: the peer has closed and everything it sent has been read. *)
ReadEof ==
    /\ pc = "poll"
    /\ fin
    /\ wire = <<>>
    /\ pc' = "closed"
    /\ UNCHANGED <<role, nsent, fin, wire, chunk, buffer, outcap, handled, junk, rejected, lost>>

(* One turn of the loop that accepts the frame at the head of the buffer. *)
HasRoomForReply == role = "sim" => buffer[1].pkt.reply <= outcap

(* Broken: sz_processed is not taken off the buffer. *)
ProcessFrameKeeps ==
    /\ pc = "process"
    /\ Accepts(buffer)
    /\ HasRoomForReply
    /\ handled' = Append(handled, buffer[1].pkt.id)
    /\ UNCHANGED <<role, nsent, fin, wire, chunk, buffer, outcap, pc, junk, rejected, lost>>

(* Broken: one frame per call, as if there were no loop. *)
ProcessFrameOnce ==
    /\ pc = "process"
    /\ Accepts(buffer)
    /\ HasRoomForReply
    /\ buffer' = DropFrame(buffer)
    /\ handled' = Append(handled, buffer[1].pkt.id)
    /\ pc' = "copy"
    /\ UNCHANGED <<role, nsent, fin, wire, chunk, outcap, junk, rejected, lost>>

ProcessFrame ==
    /\ pc = "process"
    /\ Accepts(buffer)
    /\ HasRoomForReply
    /\ buffer' = DropFrame(buffer)
    /\ handled' = Append(handled, buffer[1].pkt.id)
    /\ UNCHANGED <<role, nsent, fin, wire, chunk, outcap, pc, junk, rejected, lost>>

(* Broken: realloc_buffer finds the buffer large enough already. *)
GrowReplyBufferNot ==
    /\ pc = "process"
    /\ Accepts(buffer)
    /\ ~HasRoomForReply
    /\ UNCHANGED vars

(* sz_needed_out > 0: buffer_out is extended by what is missing. *)
GrowReplyBuffer ==
    /\ pc = "process"
    /\ Accepts(buffer)
    /\ ~HasRoomForReply
    /\ outcap' = outcap + (buffer[1].pkt.reply - outcap)
    /\ UNCHANGED <<role, nsent, fin, wire, chunk, buffer, pc, handled, junk, rejected, lost>>

(* sz_needed_in > 0: out of the loop. *)
ProcessNeedsMore ==
    /\ pc = "process"
    /\ NeedMore(buffer)
    /\ pc' = "copy"
    /\ UNCHANGED <<role, nsent, fin, wire, chunk, buffer, outcap, handled, junk, rejected, lost>>

(* Broken: a rejected frame is taken off the buffer as well. *)
ProcessRejectsDrops ==
    /\ pc = "process"
    /\ Rejects(buffer)
    /\ pc' = "copy"
    /\ buffer' = DropFrame(buffer)
    /\ rejected' = rejected \cup {RejectKind(buffer)}
    /\ UNCHANGED <<role, nsent, fin, wire, chunk, outcap, handled, junk, lost>>

(***************************************************************************)
(* ret is 2 or negative: out of the loop.  *sz_out still is the size of    *)
(* buffer_out, so the sim sends all of it although nothing was written.    *)
(***************************************************************************)
ProcessRejects ==
    /\ pc = "process"
    /\ Rejects(buffer)
    /\ pc' = "copy"
    /\ junk' = IF role = "sim" THEN junk + 1 ELSE junk
    /\ rejected' = rejected \cup {RejectKind(buffer)}
    /\ UNCHANGED <<role, nsent, fin, wire, chunk, buffer, outcap, handled, lost>>

(* Broken: one byte more than there is room for. *)
CopySizePastEnd ==
    IF Len(chunk) + Len(buffer) > Cap THEN Cap - Len(buffer) + 1 ELSE Len(chunk)

(* Broken: a read that does not fit as a whole is not copied at all. *)
CopySizeAllOrNothing == IF Len(chunk) + Len(buffer) > Cap THEN 0 ELSE Len(chunk)

(* sz_copy: what is left of the read, or as much of it as the buffer takes. *)
CopySize == IF Len(chunk) + Len(buffer) > Cap THEN Cap - Len(buffer) ELSE Len(chunk)

CopyChunk ==
    /\ pc = "copy"
    /\ CopySize > 0
    /\ buffer' = buffer \o SubSeq(chunk, 1, CopySize)
    /\ chunk' = SubSeq(chunk, CopySize + 1, Len(chunk))
    /\ outcap' = OutInit
    /\ pc' = "process"
    /\ UNCHANGED <<role, nsent, fin, wire, handled, junk, rejected, lost>>

(* The client ends its session once it has counted enough responses. *)
SessionOver == role = "cli" /\ Len(handled) >= Requests

(* The whole read has been copied and processed. *)
ReadDone ==
    /\ pc = "copy"
    /\ chunk = <<>>
    /\ pc' = IF SessionOver THEN "closed" ELSE "poll"
    /\ UNCHANGED <<role, nsent, fin, wire, chunk, buffer, outcap, handled, junk, rejected, lost>>

(***************************************************************************)
(* The buffer is full and nothing in it can be processed: the rest of the  *)
(* read is freed.  The sim closes the connection; in the client that call  *)
(* is commented out.                                                       *)
(***************************************************************************)
Stall ==
    /\ pc = "copy"
    /\ chunk # <<>>
    /\ CopySize = 0
    /\ chunk' = <<>>
    /\ lost' = TRUE
    /\ pc' = IF role = "sim" \/ SessionOver THEN "closed" ELSE "poll"
    /\ UNCHANGED <<role, nsent, fin, wire, buffer, outcap, handled, junk, rejected>>

-----------------------------------------------------------------------------
Peer == PeerSend \/ PeerClose

Callback ==
    \/ ReadChunk \/ ReadEof
    \/ ProcessFrame \/ GrowReplyBuffer \/ ProcessNeedsMore \/ ProcessRejects
    \/ CopyChunk \/ ReadDone \/ Stall

Next == Peer \/ Callback

Spec == Init /\ [][Next]_vars

(* libuv's loop keeps running callbacks as long as there is something to do. *)
FairSpec == Spec /\ WF_vars(Callback)

-----------------------------------------------------------------------------
(* Every variable stays in its domain; the buffer never holds more than    *)
(* sizeof(buffer) bytes (the assertions in on_tcp_svr_read and             *)
(* on_tcp_cli_read).                                                       *)
TypeOK ==
    /\ role \in Roles
    /\ nsent \in 0..MaxPackets
    /\ fin \in BOOLEAN
    /\ wire \in Seq(Byte)
    /\ chunk \in Seq(Byte)
    /\ buffer \in Seq(Byte)
    /\ Len(buffer) <= Cap
    /\ outcap \in Nat
    /\ pc \in {"poll", "process", "copy", "closed"}
    /\ handled \in Seq(1..MaxPackets)
    /\ junk \in Nat
    /\ rejected \subseteq {"illegal", "fatal"}
    /\ lost \in BOOLEAN

(* The packets accepted are the first ones sent, in the order they were    *)
(* sent, each once: no way of cutting the stream into reads, copies and    *)
(* memmoves skips, repeats or reorders one.                                *)
InOrder ==
    /\ Len(handled) <= nsent
    /\ \A i \in 1..Len(handled) : handled[i] = i

(* Within one connection the head of the buffer always is the head of a    *)
(* packet: memmove never leaves the decoder to read a header from the      *)
(* middle of one packet or from two packets.                               *)
InSync == Synced(buffer)

(* When the callback returns to libuv no complete acceptable packet is     *)
(* left behind in the buffer: it would wait for bytes nobody may send.     *)
NothingLeftBehind == pc \in {"poll", "closed"} => ~Accepts(buffer)

(* Bytes are thrown away only behind a packet that could never be          *)
(* processed: one that is larger than the buffer or that was rejected.     *)
StallIsHopeless ==
    lost => /\ Len(buffer) = Cap
            /\ Claimed(buffer) > Cap \/ Rejects(buffer)

(* A packet that has been rejected is never removed: it blocks the head of *)
(* the buffer, and everything sent behind it, for the rest of the          *)
(* connection.                                                             *)
RejectBlocks == rejected # {} => Rejects(buffer) /\ Len(handled) < nsent

(* The receive buffer implements the in-order exactly-once packet pipe.    *)
Pipe == INSTANCE PacketPipe WITH sent <- nsent

ImplementsPipe == Pipe!PipeSpec

(* The packet at the head can never be processed. *)
Blocked == buffer # <<>> /\ (Claimed(buffer) > Cap \/ Rejects(buffer))

(* Every packet sent is handled in the end, unless one was refused or does *)
(* not fit into the buffer, or the client has all the responses it waits   *)
(* for.                                                                    *)
EveryPacketHandled == \A k \in 1..MaxPackets :
    (nsent >= k) ~> (Len(handled) >= k \/ Blocked \/ (pc = "closed" /\ SessionOver))

(* The read callback always gives control back to libuv: neither the       *)
(* while(1) of the process function nor the copy loop spins.               *)
CallbackReturns == (pc # "poll") ~> (pc \in {"poll", "closed"})
=============================================================================
