------------------------ MODULE SessionStream_proofs ------------------------
(***************************************************************************)
(* Proofs about the bytes of Session.                                      *)
(*                                                                         *)
(* Whatever the pieces the bytes of a client arrive in, they are a stream: *)
(* packet after packet, each from its first byte to its last.  The loops   *)
(* of edio24svr_process_data (Drain) and on_tcp_svr_read (CopyLoop) are    *)
(* recursive functions; that they are defined for every buffer, and what   *)
(* they take out of a stream, is proved by induction on the bytes left     *)
(* (module Induction).                                                     *)
(*                                                                         *)
(* SInv: what is not executed yet of a client's stream is in the buffer    *)
(* and on its way, unless an earlier client left something at the head.    *)
(* It gives the types and the refinement of ExclusiveDevice, for every     *)
(* value of the constants.                                                 *)
(*                                                                         *)
(* TInv: when no client stops in the middle and every packet fits, nobody  *)
(* leaves anything behind: the loop never stalls, the buffer is empty when *)
(* a connection is closed, and every response answers a command.           *)
(***************************************************************************)
EXTENDS Session_proofs, Induction, SequenceTheorems, FiniteSetTheorems

Drained == [buf : Seq(Cell), ids : Seq(Clients \X Nat), out : Seq({"response", "junk"})]

(* A packet that is accepted is at the head, whole, and longer than 0.     *)
LEMMA AcceptedFrame ==
    ASSUME NEW b \in Seq(Cell), Accepts(b)
    PROVE  /\ Claimed(b) \in Nat /\ Claimed(b) > 0 /\ Claimed(b) <= Len(b)
           /\ b[1] \in Cell /\ b # <<>>
           /\ DropFrame(b) \in Seq(Cell)
           /\ Len(DropFrame(b)) = Len(b) - Claimed(b)
           /\ \A i \in 1..Len(b) - Claimed(b) : DropFrame(b)[i] = b[Claimed(b) + i]
<1>1. Len(b) \in Nat /\ Len(b) >= MinLen /\ Len(b) >= Claimed(b)
    BY DEF Accepts
<1>2. 1 \in 1..Len(b) /\ b[1] \in Cell
    BY <1>1, MinLenAssumption
<1>3. Claimed(b) \in Nat /\ Claimed(b) >= MinLen
    BY <1>2 DEF Claimed, Cell, PacketSize
<1>4. Claimed(b) + 1 \in 1..Len(b) + 1 /\ Len(b) \in 0..Len(b)
    BY <1>1, <1>3, MinLenAssumption
<1> QED
    BY <1>1, <1>2, <1>3, <1>4, MinLenAssumption DEF DropFrame

(* What the loop of edio24svr_process_data does, as the code writes it.    *)
LEMMA DrainDef ==
    /\ Drain \in [Seq(Cell) -> Drained]
    /\ \A b \in Seq(Cell) :
         Drain[b] = IF Accepts(b)
                      THEN [buf |-> Drain[DropFrame(b)].buf,
                            ids |-> <<b[1].pkt.id>> \o Drain[DropFrame(b)].ids,
                            out |-> <<Response(b[1].pkt)>> \o Drain[DropFrame(b)].out]
                      ELSE [buf |-> b, ids |-> <<>>, out |-> <<>>]
<1> DEFINE A == Seq(Cell)
           Ends == {b \in A : ~Accepts(b)}
           base == [b \in Ends |-> [buf |-> b, ids |-> <<>>, out |-> <<>>]]
           next == [b \in A |-> DropFrame(b)]
           size == [b \in A |-> Len(b)]
           step == [z \in (A \ Ends) \X Drained |->
                      [buf |-> z[2].buf, ids |-> <<z[1][1].pkt.id>> \o z[2].ids,
                       out |-> <<Response(z[1][1].pkt)>> \o z[2].out]]
           def(f) == [b \in A |->
                        IF Accepts(b)
                          THEN [buf |-> f[DropFrame(b)].buf,
                                ids |-> <<b[1].pkt.id>> \o f[DropFrame(b)].ids,
                                out |-> <<Response(b[1].pkt)>> \o f[DropFrame(b)].out]
                          ELSE [buf |-> b, ids |-> <<>>, out |-> <<>>]]
<1>1. base \in [Ends -> Drained]
    BY DEF Drained
<1>2. step \in [(A \ Ends) \X Drained -> Drained]
    <2> SUFFICES ASSUME NEW b \in A \ Ends, NEW r \in Drained
                 PROVE  [buf |-> r.buf, ids |-> <<b[1].pkt.id>> \o r.ids,
                         out |-> <<Response(b[1].pkt)>> \o r.out] \in Drained
        OBVIOUS
    <2>1. b[1] \in Cell
        BY AcceptedFrame
    <2>2. <<b[1].pkt.id>> \in Seq(Clients \X Nat) /\ <<Response(b[1].pkt)>> \in Seq({"response", "junk"})
        BY <2>1 DEF Cell, Response
    <2>3. /\ <<b[1].pkt.id>> \o r.ids \in Seq(Clients \X Nat)
          /\ <<Response(b[1].pkt)>> \o r.out \in Seq({"response", "junk"})
        BY <2>2 DEF Drained
    <2> QED BY <2>3 DEF Drained
<1>3. Descends(A, Ends, next, size)
    <2> SUFFICES ASSUME NEW b \in A
                 PROVE  size[b] \in Nat /\ (b \notin Ends => next[b] \in A /\ size[next[b]] < size[b])
        BY DEF Descends
    <2>1. size[b] \in Nat
        OBVIOUS
    <2>2. ASSUME b \notin Ends PROVE next[b] \in A /\ size[next[b]] < size[b]
        <3>1. Accepts(b)
            BY <2>2
        <3> QED BY <3>1, AcceptedFrame
    <2> QED BY <2>1, <2>2
<1>4. PICK f \in [A -> Drained] : Obeys(f, A, Ends, base, next, step)
    <2> HIDE DEF A, Ends, base, next, size, step
    <2>1. Ends \in SUBSET A
        BY DEF Ends
    <2> QED BY <1>1, <1>2, <1>3, <2>1, Recursion
<1>5. ASSUME NEW b \in A
      PROVE  f[b] = def(f)[b]
    <2>1. f[b] = IF b \in Ends THEN base[b] ELSE step[<<b, f[next[b]]>>]
        BY <1>4 DEF Obeys
    <2>2. CASE Accepts(b)
        <3>1. DropFrame(b) \in A /\ f[DropFrame(b)] \in Drained
            BY <2>2, AcceptedFrame
        <3> QED BY <2>1, <2>2, <3>1
    <2>3. CASE ~Accepts(b)
        BY <2>1, <2>3
    <2> QED BY <2>2, <2>3
<1>6. f = def(f)
    BY <1>5
<1>7. Drain = def(Drain)
    BY <1>6 DEF Drain
<1>8. ASSUME NEW b \in A PROVE Drain[b] = def(Drain)[b]
    BY <1>7
<1>9. \A b \in A : b \in {x \in A : Drain[x] \in Drained}
    <2> DEFINE P == {x \in A : Drain[x] \in Drained}
    <2>1. \A b \in A : size[b] \in Nat
        OBVIOUS
    <2>2. ASSUME NEW b \in A, \A y \in A : size[y] < size[b] => y \in P
          PROVE  b \in P
        <3>1. CASE Accepts(b)
            <4>1. DropFrame(b) \in A /\ size[DropFrame(b)] < size[b]
                BY <3>1, AcceptedFrame
            <4>2. Drain[DropFrame(b)] \in Drained
                BY <2>2, <4>1
            <4>3. b \in A \ Ends
                BY <3>1
            <4>4. step[<<b, Drain[DropFrame(b)]>>] \in Drained
                BY <1>2, <4>2, <4>3
            <4> QED BY <1>8, <3>1, <4>2, <4>3, <4>4
        <3>2. CASE ~Accepts(b)
            BY <1>1, <1>8, <3>2 DEF Drained
        <3> QED BY <3>1, <3>2
    <2> HIDE DEF A, P, size
    <2>3. \A b \in A : b \in P
        BY <2>1, <2>2, SizeInduction
    <2> QED BY <2>3 DEF P
<1>10. Drain \in [A -> Drained]
    BY <1>7, <1>9
<1> QED
    BY <1>8, <1>10

(* A buffer without a packet at its head is left as it is.                 *)
LEMMA DrainIdle ==
    ASSUME NEW b \in Seq(Cell), ~Accepts(b)
    PROVE  Drain[b].buf = b /\ Drain[b].ids = <<>> /\ Drain[b].out = <<>>
<1>1. Drain[b] = [buf |-> b, ids |-> <<>>, out |-> <<>>]
    BY DrainDef
<1> QED
    BY <1>1

(* A packet at the head is taken out first.                                *)
LEMMA DrainTakes ==
    ASSUME NEW b \in Seq(Cell), Accepts(b)
    PROVE  /\ DropFrame(b) \in Seq(Cell) /\ Drain[DropFrame(b)] \in Drained
           /\ Drain[b].buf = Drain[DropFrame(b)].buf
           /\ Drain[b].ids = <<b[1].pkt.id>> \o Drain[DropFrame(b)].ids
           /\ Drain[b].out = <<Response(b[1].pkt)>> \o Drain[DropFrame(b)].out
<1>1. DropFrame(b) \in Seq(Cell)
    BY AcceptedFrame
<1>2. Drain[b] = [buf |-> Drain[DropFrame(b)].buf,
                  ids |-> <<b[1].pkt.id>> \o Drain[DropFrame(b)].ids,
                  out |-> <<Response(b[1].pkt)>> \o Drain[DropFrame(b)].out]
    BY DrainDef
<1>3. Drain[DropFrame(b)] \in Drained
    BY <1>1, DrainDef
<1> QED
    BY <1>1, <1>2, <1>3

-----------------------------------------------------------------------------
(* The bytes in s were all sent by client c.                               *)
Of(c, s) == \A i \in 1..Len(s) : s[i].pkt.id[1] = c

(* Byte b was sent by the client of byte a, and right after it.            *)
Follows(a, b) ==
    \/ b.pkt = a.pkt /\ a.pos < a.pkt.size /\ b.pos = a.pos + 1
    \/ a.pos = a.pkt.size /\ b.pos = 1 /\ b.pkt.id = <<a.pkt.id[1], a.pkt.id[2] + 1>>

(* s holds what client c sent from the start of its packet m on.           *)
Stream(s, c, m) ==
    /\ s # <<>> => s[1].pos = 1 /\ s[1].pkt.id = <<c, m>>
    /\ \A i \in 1..Len(s) - 1 : Follows(s[i], s[i + 1])

(* It ends with the end of packet k, or is empty behind it.                *)
Complete(s, m, k) ==
    IF s = <<>> THEN m = k + 1
    ELSE s[Len(s)].pos = s[Len(s)].pkt.size /\ s[Len(s)].pkt.id[2] = k

(* The bytes of s are bytes of t. *)
Within(s, t) == \A i \in 1..Len(s) : \E j \in 1..Len(t) : s[i] = t[j]

(* Concatenation is associative.                                           *)
LEMMA CellsAssociative == \A a, b, d \in Seq(Cell) : (a \o b) \o d = a \o (b \o d)
BY ConcatAssociative

(* One element in front of a sequence.                                     *)
LEMMA InFront ==
    ASSUME NEW S, NEW e \in S, NEW a \in Seq(S)
    PROVE  /\ <<e>> \o a \in Seq(S)
           /\ Len(<<e>> \o a) = Len(a) + 1 /\ Len(a) \in Nat
           /\ (<<e>> \o a)[1] = e
           /\ \A i \in 1..Len(a) : (<<e>> \o a)[i + 1] = a[i]
<1>1. <<e>> \in Seq(S) /\ Len(<<e>>) = 1 /\ <<e>>[1] = e /\ Len(a) \in Nat
    OBVIOUS
<1> DEFINE h == <<e>>
<1> HIDE DEF h
<1>2. /\ h \o a \in Seq(S) /\ Len(h \o a) = Len(h) + Len(a)
      /\ \A i \in 1..Len(h) + Len(a) :
           (h \o a)[i] = IF i <= Len(h) THEN h[i] ELSE a[i - Len(h)]
    <2>1. h \in Seq(S)
        BY <1>1 DEF h
    <2> QED BY <2>1, ConcatProperties
<1>3. Len(h) = 1 /\ h[1] = e
    BY <1>1 DEF h
<1>4. (h \o a)[1] = e /\ Len(h \o a) = Len(a) + 1
    <2>1. 1 \in 1..1 + Len(a)
        BY <1>1
    <2> QED BY <1>1, <1>2, <1>3, <2>1
<1>5. ASSUME NEW i \in 1..Len(a) PROVE (h \o a)[i + 1] = a[i]
    <2>1. i + 1 \in 1..1 + Len(a) /\ ~(i + 1 <= 1) /\ i + 1 - 1 = i
        BY <1>1
    <2> QED BY <1>2, <1>3, <2>1
<1> QED
    BY <1>1, <1>2, <1>4, <1>5 DEF h

(* Concatenation, element by element.                                      *)
LEMMA Concat ==
    ASSUME NEW a \in Seq(Cell), NEW b \in Seq(Cell)
    PROVE  /\ a \o b \in Seq(Cell)
           /\ Len(a \o b) = Len(a) + Len(b)
           /\ \A i \in 1..Len(a) : (a \o b)[i] = a[i]
           /\ \A i \in 1..Len(b) : (a \o b)[Len(a) + i] = b[i]
           /\ Len(a) \in Nat /\ Len(b) \in Nat
           /\ a \o b = <<>> <=> Len(a) + Len(b) = 0
OBVIOUS

(* A sequence is empty if and only if it has no element.                   *)
LEMMA EmptyLen == \A a \in Seq(Cell) : Len(a) \in Nat /\ (a = <<>> <=> Len(a) = 0)
OBVIOUS

(* Every byte of a stream was sent by its client, none in a packet before  *)
(* the first.                                                              *)
LEMMA StreamOwn ==
    ASSUME NEW s \in Seq(Cell), NEW c, NEW m \in Nat, Stream(s, c, m)
    PROVE  Of(c, s) /\ \A i \in 1..Len(s) : s[i].pkt.id[2] >= m
<1> DEFINE S == {n \in Nat : n + 1 \in 1..Len(s) =>
                                s[n + 1].pkt.id[1] = c /\ s[n + 1].pkt.id[2] >= m}
<1>1. Len(s) \in Nat /\ (s = <<>> <=> Len(s) = 0)
    BY EmptyLen
<1>2. 0 \in S
    <2> SUFFICES ASSUME 1 \in 1..Len(s)
                 PROVE  s[1].pkt.id[1] = c /\ s[1].pkt.id[2] >= m
        OBVIOUS
    <2>1. s[1].pkt.id = <<c, m>>
        BY <1>1 DEF Stream
    <2> QED BY <2>1
<1>3. ASSUME NEW n \in S PROVE n + 1 \in S
    <2> SUFFICES ASSUME (n + 1) + 1 \in 1..Len(s)
                 PROVE  s[(n + 1) + 1].pkt.id[1] = c /\ s[(n + 1) + 1].pkt.id[2] >= m
        OBVIOUS
    <2>1. n + 1 \in 1..Len(s) - 1 /\ n + 1 \in 1..Len(s)
        BY <1>1
    <2> DEFINE a == s[n + 1]
               b == s[(n + 1) + 1]
    <2>2. Follows(a, b) /\ a.pkt.id[1] = c /\ a.pkt.id[2] >= m
        BY <2>1 DEF Stream
    <2>3. a \in Cell
        BY <2>1
    <2> HIDE DEF a, b
    <2>4. a.pkt.id[2] \in Nat
        BY <2>3 DEF Cell
    <2>5. CASE b.pkt = a.pkt
        BY <2>2, <2>5 DEF b
    <2>6. CASE b.pkt.id = <<a.pkt.id[1], a.pkt.id[2] + 1>>
        <3>1. b.pkt.id[1] = c /\ b.pkt.id[2] = a.pkt.id[2] + 1
            BY <2>2, <2>6
        <3> QED BY <2>2, <2>4, <3>1 DEF b
    <2> QED BY <2>2, <2>5, <2>6 DEF Follows
<1>4. S = Nat
    <2>1. S \in SUBSET Nat
        OBVIOUS
    <2> HIDE DEF S
    <2> QED BY <1>2, <1>3, <2>1, SetInduction
<1>5. ASSUME NEW i \in 1..Len(s) PROVE s[i].pkt.id[1] = c /\ s[i].pkt.id[2] >= m
    <2>1. i - 1 \in Nat /\ (i - 1) + 1 = i
        BY <1>1
    <2>2. i - 1 \in S
        BY <1>4, <2>1
    <2> QED BY <2>1, <2>2
<1> QED
    BY <1>5 DEF Of

(* Behind an accepted packet of a stream the next one starts.              *)
LEMMA DropStream ==
    ASSUME NEW b \in Seq(Cell), NEW s \in Seq(Cell), NEW c \in Clients, NEW m \in Nat,
           Accepts(b), Stream(b \o s, c, m)
    PROVE  /\ b[1].pkt.id = <<c, m>>
           /\ Stream(DropFrame(b) \o s, c, m + 1)
           /\ \A k \in Nat : Complete(b \o s, m, k) => Complete(DropFrame(b) \o s, m + 1, k)
<1> DEFINE q == Claimed(b)
           d == DropFrame(b)
           t == b \o s
           u == d \o s
<1>1. /\ q \in Nat /\ q > 0 /\ q <= Len(b) /\ b # <<>> /\ Len(b) \in Nat /\ Len(s) \in Nat
      /\ d \in Seq(Cell) /\ Len(d) = Len(b) - q
      /\ \A i \in 1..Len(b) - q : d[i] = b[q + i]
    BY AcceptedFrame, EmptyLen
<1>2. /\ t \in Seq(Cell) /\ Len(t) = Len(b) + Len(s) /\ t # <<>>
      /\ \A i \in 1..Len(b) : t[i] = b[i]
      /\ \A i \in 1..Len(s) : t[Len(b) + i] = s[i]
    BY <1>1, Concat
<1>3. /\ u \in Seq(Cell) /\ Len(u) = Len(d) + Len(s)
      /\ \A i \in 1..Len(d) : u[i] = d[i]
      /\ \A i \in 1..Len(s) : u[Len(d) + i] = s[i]
      /\ u = <<>> <=> Len(u) = 0
    BY <1>1, Concat
<1>4. t[1] = b[1] /\ t[q] = [pkt |-> b[1].pkt, pos |-> q] /\ q = b[1].pkt.size
    <2>1. b[q] = [pkt |-> b[1].pkt, pos |-> q]
        <3>1. Whole(b, q)
            BY DEF Accepts, Intact
        <3> HIDE DEF q
        <3>2. q \in 1..q
            BY <1>1
        <3> QED BY <3>1, <3>2 DEF Whole
    <2> QED BY <1>1, <1>2, <2>1 DEF Claimed
<1> HIDE DEF q, d, t, u
<1>5. Len(u) = Len(t) - q /\ \A i \in 1..Len(u) : u[i] = t[q + i]
    <2>1. Len(u) = Len(t) - q
        BY <1>1, <1>2, <1>3
    <2>2. ASSUME NEW i \in 1..Len(u) PROVE u[i] = t[q + i]
        <3>1. CASE i <= Len(d)
            <4>1. i \in 1..Len(d) /\ q + i \in 1..Len(b)
                BY <1>1, <3>1
            <4> QED BY <1>1, <1>2, <1>3, <4>1
        <3>2. CASE ~(i <= Len(d))
            <4>1. i - Len(d) \in 1..Len(s)
                BY <1>1, <1>3, <3>2
            <4>2. u[Len(d) + (i - Len(d))] = s[i - Len(d)] /\ t[Len(b) + (i - Len(d))] = s[i - Len(d)]
                BY <1>2, <1>3, <4>1
            <4>3. Len(d) + (i - Len(d)) = i /\ Len(b) + (i - Len(d)) = q + i
                BY <1>1
            <4> QED BY <4>2, <4>3
        <3> QED BY <3>1, <3>2
    <2> QED BY <2>1, <2>2
<1>6. b[1].pkt.id = <<c, m>>
    BY <1>2, <1>4 DEF Stream, t
<1>7. Stream(u, c, m + 1)
    <2>1. ASSUME u # <<>> PROVE u[1].pos = 1 /\ u[1].pkt.id = <<c, m + 1>>
        <3>1. q \in 1..Len(t) - 1 /\ 1 \in 1..Len(u)
            BY <1>1, <1>2, <1>3, <1>5, <2>1
        <3>2. Follows(t[q], t[q + 1])
            BY <3>1 DEF Stream, t
        <3>3. t[q].pos = q /\ t[q].pkt = b[1].pkt /\ u[1] = t[q + 1]
            BY <1>4, <1>5, <3>1
        <3>4. ~(t[q].pos < t[q].pkt.size)
            BY <1>1, <1>4, <3>3
        <3>5. u[1].pos = 1 /\ u[1].pkt.id = <<b[1].pkt.id[1], b[1].pkt.id[2] + 1>>
            BY <3>2, <3>3, <3>4 DEF Follows
        <3> QED BY <1>6, <3>5
    <2>2. ASSUME NEW i \in 1..Len(u) - 1 PROVE Follows(u[i], u[i + 1])
        <3>1. /\ q + i \in 1..Len(t) - 1 /\ i \in 1..Len(u) /\ i + 1 \in 1..Len(u)
              /\ q + (i + 1) = (q + i) + 1
            BY <1>1, <1>2, <1>3, <1>5
        <3>2. Follows(t[q + i], t[(q + i) + 1])
            BY <3>1 DEF Stream, t
        <3>3. u[i] = t[q + i] /\ u[i + 1] = t[(q + i) + 1]
            BY <1>5, <3>1
        <3> QED BY <3>2, <3>3
    <2> QED BY <2>1, <2>2 DEF Stream
<1>8. ASSUME NEW k \in Nat, Complete(t, m, k)
      PROVE  Complete(u, m + 1, k)
    <2>1. t[Len(t)].pos = t[Len(t)].pkt.size /\ t[Len(t)].pkt.id[2] = k
        BY <1>2, <1>8 DEF Complete
    <2>2. CASE u = <<>>
        <3>1. Len(t) = q
            BY <1>1, <1>2, <1>3, <1>5, <2>2
        <3>2. b[1].pkt.id[2] = k
            BY <1>4, <2>1, <3>1
        <3>3. m = k
            BY <1>6, <3>2
        <3> QED BY <2>2, <3>3 DEF Complete
    <2>3. CASE u # <<>>
        <3>1. Len(u) \in 1..Len(u) /\ q + Len(u) = Len(t)
            BY <1>1, <1>2, <1>3, <1>5, <2>3
        <3>2. u[Len(u)] = t[Len(t)]
            BY <1>5, <3>1
        <3> QED BY <2>1, <2>3, <3>2 DEF Complete
    <2> QED BY <2>2, <2>3
<1> QED
    BY <1>6, <1>7, <1>8 DEF t, u, d

(* The packets of client c from number m on.                               *)
Numbered(ids, c, m) == \A i \in 1..Len(ids) : ids[i] = <<c, m + i - 1>>

(* What is taken out of a stream are its packets, one after the other, and *)
(* what is left is the rest of it; one response is written for each.       *)
DrainedOf(b, s, c, m, r) ==
    /\ Numbered(r.ids, c, m)
    /\ Stream(r.buf \o s, c, m + Len(r.ids))
    /\ \A k \in Nat : Complete(b \o s, m, k) => Complete(r.buf \o s, m + Len(r.ids), k)

(* What the loop takes out of a stream is its packets, by size induction.  *)
LEMMA DrainStream ==
    ASSUME NEW s \in Seq(Cell), NEW c \in Clients
    PROVE  \A b \in Seq(Cell) : \A m \in Nat :
               Stream(b \o s, c, m) => DrainedOf(b, s, c, m, Drain[b])
<1> DEFINE A == Seq(Cell)
           P == {b \in A : \A m \in Nat :
                    Stream(b \o s, c, m) => DrainedOf(b, s, c, m, Drain[b])}
           size == [b \in A |-> Len(b)]
<1>1. \A b \in A : size[b] \in Nat
    OBVIOUS
<1>2. ASSUME NEW b \in A, \A y \in A : size[y] < size[b] => y \in P
      PROVE  b \in P
    <2> SUFFICES ASSUME NEW m \in Nat, Stream(b \o s, c, m)
                 PROVE  DrainedOf(b, s, c, m, Drain[b])
        OBVIOUS
    <2>1. CASE ~Accepts(b)
        <3>1. Drain[b].buf = b /\ Drain[b].ids = <<>>
            BY <2>1, DrainIdle
        <3>2. Len(Drain[b].ids) = 0 /\ m + 0 = m
            BY <3>1
        <3>3. Numbered(Drain[b].ids, c, m)
            BY <3>2 DEF Numbered
        <3> QED BY <3>1, <3>2, <3>3 DEF DrainedOf
    <2>2. CASE Accepts(b)
        <3> DEFINE d == DropFrame(b)
                   r == Drain[d]
                   z == Drain[b]
        <3>1. d \in A /\ size[d] < size[b]
            BY <2>2, AcceptedFrame
        <3>2. /\ b[1].pkt.id = <<c, m>> /\ Stream(d \o s, c, m + 1)
              /\ \A k \in Nat : Complete(b \o s, m, k) => Complete(d \o s, m + 1, k)
            BY <2>2, DropStream
        <3>3. DrainedOf(d, s, c, m + 1, r)
            <4>1. d \in P /\ m + 1 \in Nat
                BY <1>2, <3>1
            <4> QED BY <4>1, <3>2
        <3>4. r \in Drained /\ z.buf = r.buf /\ z.ids = <<b[1].pkt.id>> \o r.ids
            BY <2>2, DrainTakes
        <3> HIDE DEF d, r, z
        <3>5. /\ r.ids \in Seq(Clients \X Nat) /\ Len(r.ids) \in Nat
              /\ Len(z.ids) = Len(r.ids) + 1
              /\ z.ids \in Seq(Clients \X Nat)
              /\ z.ids[1] = <<c, m>>
              /\ \A i \in 1..Len(r.ids) : z.ids[i + 1] = r.ids[i]
            <4>1. r.ids \in Seq(Clients \X Nat) /\ <<c, m>> \in Clients \X Nat
                BY <3>4 DEF Drained
            <4>2. z.ids = <<<<c, m>>>> \o r.ids
                BY <3>2, <3>4
            <4> QED BY <4>1, <4>2, InFront
        <3>6. Numbered(z.ids, c, m)
            <4>1. \A i \in 1..Len(r.ids) : r.ids[i] = <<c, m + 1 + i - 1>>
                BY <3>3 DEF DrainedOf, Numbered
            <4>2. ASSUME NEW i \in 1..Len(z.ids) PROVE z.ids[i] = <<c, m + i - 1>>
                <5>1. CASE i = 1
                    BY <3>5, <5>1
                <5>2. CASE i # 1
                    <6>1. i - 1 \in 1..Len(r.ids)
                        BY <3>5, <5>2
                    <6>2. z.ids[(i - 1) + 1] = <<c, m + 1 + (i - 1) - 1>>
                        BY <3>5, <4>1, <6>1
                    <6> QED BY <6>1, <6>2
                <5> QED BY <5>1, <5>2
            <4> QED BY <4>2 DEF Numbered
        <3>7. m + Len(z.ids) = m + 1 + Len(r.ids)
            <4>1. \A l \in Nat : m + (l + 1) = m + 1 + l
                OBVIOUS
            <4> QED BY <3>5, <4>1
        <3>8. /\ Stream(z.buf \o s, c, m + Len(z.ids))
              /\ \A k \in Nat : Complete(b \o s, m, k) => Complete(z.buf \o s, m + Len(z.ids), k)
            BY <3>2, <3>3, <3>4, <3>7 DEF DrainedOf
        <3>9. DrainedOf(b, s, c, m, z)
            BY <3>6, <3>8 DEF DrainedOf
        <3> QED BY <3>9 DEF z
    <2> QED BY <2>1, <2>2
<1>3. \A b \in A : b \in P
    <2> HIDE DEF A, P, size
    <2> QED BY <1>1, <1>2, SizeInduction
<1> QED
    BY <1>3

(* The loop stops at a buffer it can take nothing out of, which holds      *)
(* bytes of the one it began with; one response is written per packet.     *)
LEMMA DrainEnds ==
    \A b \in Seq(Cell) :
        /\ ~Accepts(Drain[b].buf)
        /\ Within(Drain[b].buf, b)
        /\ Len(Drain[b].buf) <= Len(b)
        /\ Len(Drain[b].out) = Len(Drain[b].ids)
<1> DEFINE A == Seq(Cell)
           Q(b) == /\ ~Accepts(Drain[b].buf)
                   /\ Within(Drain[b].buf, b)
                   /\ Len(Drain[b].buf) <= Len(b)
                   /\ Len(Drain[b].out) = Len(Drain[b].ids)
           P == {b \in A : Q(b)}
           size == [b \in A |-> Len(b)]
<1>1. \A b \in A : size[b] \in Nat
    OBVIOUS
<1>2. ASSUME NEW b \in A, \A y \in A : size[y] < size[b] => y \in P
      PROVE  b \in P
    <2>1. CASE ~Accepts(b)
        <3>1. Drain[b].buf = b /\ Drain[b].ids = <<>> /\ Drain[b].out = <<>>
            BY <2>1, DrainIdle
        <3> QED BY <2>1, <3>1 DEF Within
    <2>2. CASE Accepts(b)
        <3> DEFINE d == DropFrame(b)
                   r == Drain[d]
                   z == Drain[b]
                   q == Claimed(b)
        <3>1. /\ d \in A /\ size[d] < size[b] /\ Len(d) = Len(b) - q
              /\ q \in Nat /\ q > 0 /\ q <= Len(b)
              /\ \A i \in 1..Len(b) - q : d[i] = b[q + i]
            BY <2>2, AcceptedFrame
        <3>2. Q(d)
            BY <1>2, <3>1
        <3>3. /\ r \in Drained /\ z.buf = r.buf /\ b[1] \in Cell
              /\ z.ids = <<b[1].pkt.id>> \o r.ids /\ z.out = <<Response(b[1].pkt)>> \o r.out
            BY <2>2, DrainTakes, AcceptedFrame
        <3> HIDE DEF d, r, z, q
        <3>4. Len(z.ids) = Len(r.ids) + 1 /\ Len(z.out) = Len(r.out) + 1
            <4>1. r.ids \in Seq(Clients \X Nat) /\ <<b[1].pkt.id>> \in Seq(Clients \X Nat)
                BY <3>3 DEF Drained, Cell
            <4>2. /\ r.out \in Seq({"response", "junk"})
                  /\ <<Response(b[1].pkt)>> \in Seq({"response", "junk"})
                BY <3>3 DEF Drained, Response
            <4> QED BY <3>3, <4>1, <4>2
        <3>5. Within(z.buf, b)
            <4> SUFFICES ASSUME NEW i \in 1..Len(z.buf)
                         PROVE  \E j \in 1..Len(b) : z.buf[i] = b[j]
                BY DEF Within
            <4>1. PICK j \in 1..Len(d) : z.buf[i] = d[j]
                BY <3>2, <3>3 DEF Within, r
            <4>2. q + j \in 1..Len(b) /\ d[j] = b[q + j]
                BY <3>1
            <4> QED BY <4>1, <4>2
        <3>6. ~Accepts(z.buf) /\ Len(z.buf) <= Len(b) /\ Len(z.out) = Len(z.ids)
            <4>1. Len(r.buf) \in Nat /\ Len(b) \in Nat
                BY <3>3, EmptyLen DEF Drained
            <4> QED BY <3>1, <3>2, <3>3, <3>4, <4>1 DEF r
        <3> QED BY <3>5, <3>6 DEF z
    <2> QED BY <2>1, <2>2
<1>3. \A b \in A : b \in P
    <2> HIDE DEF A, P, size
    <2> QED BY <1>1, <1>2, SizeInduction
<1> QED
    BY <1>3

-----------------------------------------------------------------------------
(* What is processed is what the loop takes out; whether the head that is  *)
(* left is refused only shows in the last response.                        *)
LEMMA ProcessDrain ==
    ASSUME NEW b \in Seq(Cell), NEW x \in BOOLEAN
    PROVE  /\ Process(b, x) \in Drained
           /\ Process(b, x).buf = Drain[b].buf
           /\ Process(b, x).ids = Drain[b].ids
           /\ ~Refuses(Drain[b].buf, x) => Process(b, x).out = Drain[b].out
<1>1. Drain[b] \in Drained
    BY DrainDef
<1> DEFINE r == Drain[b]
<1> HIDE DEF r
<1>2. r \in Drained
    BY <1>1 DEF r
<1>3. r = [buf |-> r.buf, ids |-> r.ids, out |-> r.out]
    BY <1>2 DEF Drained
<1>4. Process(b, x) = [r EXCEPT !.out = IF Refuses(r.buf, x) THEN Append(@, "junk") ELSE @]
    BY DEF Process, r
<1>5. r.out \in Seq({"response", "junk"}) /\ Append(r.out, "junk") \in Seq({"response", "junk"})
    BY <1>2 DEF Drained
<1>6. [r EXCEPT !.out = IF Refuses(r.buf, x) THEN Append(@, "junk") ELSE @] \in Drained
    BY <1>2, <1>5 DEF Drained
<1>7. /\ Process(b, x).buf = r.buf /\ Process(b, x).ids = r.ids
      /\ Process(b, x).out = IF Refuses(r.buf, x) THEN Append(r.out, "junk") ELSE r.out
    BY <1>3, <1>4
<1> QED
    BY <1>4, <1>6, <1>7 DEF r

(* One pass of the loop of on_tcp_svr_read.                                *)
Room(x) == CopySize(x[1], x[2])
Filled(x) == x[1] \o SubSeq(x[2], 1, Room(x))
Pass(x) == Process(Filled(x), x[3])
NextPass(x) == <<Pass(x).buf, SubSeq(x[2], Room(x) + 1, Len(x[2])), x[3]>>

Chunks == Seq(Cell) \X Seq(Cell) \X BOOLEAN

Copied == [buf : Seq(Cell), ids : Seq(Clients \X Nat), out : Seq({"response", "junk"}),
           stalled : BOOLEAN]

(* What is copied leaves that much less of the new data.                   *)
LEMMA PassProperties ==
    ASSUME NEW x \in Chunks, Room(x) > 0
    PROVE  /\ Room(x) \in Nat /\ Room(x) <= Len(x[2])
           /\ SubSeq(x[2], 1, Room(x)) \in Seq(Cell)
           /\ Len(SubSeq(x[2], 1, Room(x))) = Room(x)
           /\ \A i \in 1..Room(x) : SubSeq(x[2], 1, Room(x))[i] = x[2][i]
           /\ Filled(x) \in Seq(Cell)
           /\ Pass(x) \in Drained
           /\ NextPass(x) \in Chunks
           /\ Len(NextPass(x)[2]) = Len(x[2]) - Room(x)
           /\ \A i \in 1..Len(x[2]) - Room(x) : NextPass(x)[2][i] = x[2][Room(x) + i]
<1> DEFINE a == x[1]
           b == x[2]
           n == Room(x)
           f == SubSeq(b, 1, n)
           g == SubSeq(b, n + 1, Len(b))
<1>1. a \in Seq(Cell) /\ b \in Seq(Cell) /\ x[3] \in BOOLEAN
    BY DEF Chunks
<1>2. Len(a) \in Nat /\ Len(b) \in Nat
    BY <1>1
<1>3. n \in Nat /\ n > 0 /\ n <= Len(b)
    <2>1. n = (IF Len(b) + Len(a) > Cap THEN Cap - Len(a) ELSE Len(b)) /\ n > 0
        BY DEF Room, CopySize
    <2> HIDE DEF a, b, n
    <2> QED BY <1>2, <2>1, RoomAssumption
<1> HIDE DEF a, b, n
<1>4. f \in Seq(Cell) /\ Len(f) = n /\ \A i \in 1..n : f[i] = b[i]
    BY <1>1, <1>2, <1>3
<1>5. g \in Seq(Cell) /\ Len(g) = Len(b) - n /\ \A i \in 1..Len(b) - n : g[i] = b[n + i]
    BY <1>1, <1>2, <1>3
<1>6. Filled(x) = a \o f /\ NextPass(x) = <<Pass(x).buf, g, x[3]>>
    BY DEF Filled, NextPass, a, b, n
<1>7. Filled(x) \in Seq(Cell)
    BY <1>1, <1>4, <1>6, Concat
<1>8. Pass(x) \in Drained
    BY <1>1, <1>7, ProcessDrain DEF Pass
<1>9. NextPass(x) \in Chunks
    <2>1. Pass(x).buf \in Seq(Cell)
        BY <1>8 DEF Drained
    <2>2. \A h, i \in Seq(Cell), v \in BOOLEAN : <<h, i, v>> \in Chunks
        BY DEF Chunks
    <2>3. NextPass(x) = <<Pass(x).buf, g, x[3]>> /\ g \in Seq(Cell) /\ x[3] \in BOOLEAN
        BY <1>1, <1>5, <1>6
    <2> HIDE DEF g
    <2> QED BY <2>1, <2>2, <2>3
<1> QED
    BY <1>3, <1>4, <1>5, <1>6, <1>7, <1>8, <1>9 DEF a, b, n

(* The loop of on_tcp_svr_read, as the code writes it.                     *)
LEMMA CopyLoopDef ==
    /\ CopyLoop \in [Chunks -> Copied]
    /\ \A x \in Chunks :
         CopyLoop[x] =
           IF Room(x) > 0
             THEN [buf |-> CopyLoop[NextPass(x)].buf,
                   ids |-> Pass(x).ids \o CopyLoop[NextPass(x)].ids,
                   out |-> Pass(x).out \o CopyLoop[NextPass(x)].out,
                   stalled |-> CopyLoop[NextPass(x)].stalled]
             ELSE [buf |-> x[1], ids |-> <<>>, out |-> <<>>, stalled |-> x[2] # <<>>]
<1> DEFINE A == Chunks
           Ends == {x \in A : ~(Room(x) > 0)}
           base == [x \in Ends |->
                      [buf |-> x[1], ids |-> <<>>, out |-> <<>>, stalled |-> x[2] # <<>>]]
           next == [x \in A |-> NextPass(x)]
           size == [x \in A |-> Len(x[2])]
           step == [z \in (A \ Ends) \X Copied |->
                      [buf |-> z[2].buf, ids |-> Pass(z[1]).ids \o z[2].ids,
                       out |-> Pass(z[1]).out \o z[2].out, stalled |-> z[2].stalled]]
           def(f) == [x \in A |->
                        IF Room(x) > 0
                          THEN [buf |-> f[NextPass(x)].buf,
                                ids |-> Pass(x).ids \o f[NextPass(x)].ids,
                                out |-> Pass(x).out \o f[NextPass(x)].out,
                                stalled |-> f[NextPass(x)].stalled]
                          ELSE [buf |-> x[1], ids |-> <<>>, out |-> <<>>,
                                stalled |-> x[2] # <<>>]]
<1>1. base \in [Ends -> Copied]
    BY DEF Copied, Chunks
<1>2. step \in [(A \ Ends) \X Copied -> Copied]
    <2> SUFFICES ASSUME NEW x \in A \ Ends, NEW r \in Copied
                 PROVE  [buf |-> r.buf, ids |-> Pass(x).ids \o r.ids,
                         out |-> Pass(x).out \o r.out, stalled |-> r.stalled] \in Copied
        OBVIOUS
    <2>1. Pass(x) \in Drained
        BY PassProperties
    <2>2. Pass(x).ids \in Seq(Clients \X Nat) /\ Pass(x).out \in Seq({"response", "junk"})
        BY <2>1 DEF Drained
    <2>3. /\ Pass(x).ids \o r.ids \in Seq(Clients \X Nat)
          /\ Pass(x).out \o r.out \in Seq({"response", "junk"})
        BY <2>2 DEF Copied
    <2> QED BY <2>3 DEF Copied
<1>3. Descends(A, Ends, next, size)
    <2> SUFFICES ASSUME NEW x \in A
                 PROVE  size[x] \in Nat /\ (x \notin Ends => next[x] \in A /\ size[next[x]] < size[x])
        BY DEF Descends
    <2>1. size[x] \in Nat
        <3>1. x[2] \in Seq(Cell)
            BY DEF Chunks
        <3> QED BY <3>1
    <2>2. ASSUME x \notin Ends PROVE next[x] \in A /\ size[next[x]] < size[x]
        <3>1. Room(x) > 0
            BY <2>2
        <3>2. /\ NextPass(x) \in A /\ Room(x) \in Nat /\ Room(x) <= Len(x[2])
              /\ Len(NextPass(x)[2]) = Len(x[2]) - Room(x)
            BY <3>1, PassProperties
        <3> QED BY <2>1, <3>1, <3>2
    <2> QED BY <2>1, <2>2
<1>4. PICK f \in [A -> Copied] : Obeys(f, A, Ends, base, next, step)
    <2> HIDE DEF A, Ends, base, next, size, step
    <2>1. Ends \in SUBSET A
        BY DEF Ends
    <2> QED BY <1>1, <1>2, <1>3, <2>1, Recursion
<1>5. ASSUME NEW x \in A
      PROVE  f[x] = def(f)[x]
    <2>1. f[x] = IF x \in Ends THEN base[x] ELSE step[<<x, f[next[x]]>>]
        BY <1>4 DEF Obeys
    <2>2. CASE Room(x) > 0
        <3>1. NextPass(x) \in A /\ f[NextPass(x)] \in Copied
            BY <2>2, PassProperties
        <3> QED BY <2>1, <2>2, <3>1
    <2>3. CASE ~(Room(x) > 0)
        BY <2>1, <2>3
    <2> QED BY <2>2, <2>3
<1>6. f = def(f)
    BY <1>5
<1>7. CopyLoop = def(CopyLoop)
    <2>1. \A g : [x \in Seq(Cell) \X Seq(Cell) \X BOOLEAN |->
                    LET n == CopySize(x[1], x[2])
                        p == Process(x[1] \o SubSeq(x[2], 1, n), x[3])
                        r == g[<<p.buf, SubSeq(x[2], n + 1, Len(x[2])), x[3]>>]
                    IN  IF n > 0
                          THEN [buf |-> r.buf, ids |-> p.ids \o r.ids, out |-> p.out \o r.out,
                                stalled |-> r.stalled]
                          ELSE [buf |-> x[1], ids |-> <<>>, out |-> <<>>,
                                stalled |-> x[2] # <<>>]] = def(g)
        BY DEF Room, Filled, Pass, NextPass, Chunks
    <2> HIDE DEF def
    <2> QED BY <1>6, <2>1 DEF CopyLoop
<1>8. ASSUME NEW x \in A PROVE CopyLoop[x] = def(CopyLoop)[x]
    BY <1>7
<1>9. \A x \in A : x \in {y \in A : CopyLoop[y] \in Copied}
    <2> DEFINE P == {y \in A : CopyLoop[y] \in Copied}
    <2>1. \A x \in A : size[x] \in Nat
        BY <1>3 DEF Descends
    <2>2. ASSUME NEW x \in A, \A y \in A : size[y] < size[x] => y \in P
          PROVE  x \in P
        <3>1. CASE Room(x) > 0
            <4>1. NextPass(x) \in A /\ size[NextPass(x)] < size[x]
                BY <1>3, <3>1 DEF Descends
            <4>2. CopyLoop[NextPass(x)] \in Copied
                BY <2>2, <4>1
            <4>3. x \in A \ Ends
                BY <3>1
            <4>4. step[<<x, CopyLoop[NextPass(x)]>>] \in Copied
                BY <1>2, <4>2, <4>3
            <4> QED BY <1>8, <3>1, <4>2, <4>3, <4>4
        <3>2. CASE ~(Room(x) > 0)
            <4>1. x \in Ends /\ base[x] \in Copied
                BY <1>1, <3>2
            <4> QED BY <1>8, <3>2, <4>1
        <3> QED BY <3>1, <3>2
    <2> HIDE DEF A, P, size
    <2>3. \A x \in A : x \in P
        BY <2>1, <2>2, SizeInduction
    <2> QED BY <2>3 DEF P
<1>10. CopyLoop \in [A -> Copied]
    BY <1>7, <1>9
<1> QED
    BY <1>8, <1>10

(* Without room nothing is copied; with room there is one more pass.       *)
LEMMA CopyLoopStops ==
    ASSUME NEW x \in Chunks, ~(Room(x) > 0)
    PROVE  /\ CopyLoop[x].buf = x[1] /\ CopyLoop[x].ids = <<>> /\ CopyLoop[x].out = <<>>
           /\ CopyLoop[x].stalled = (x[2] # <<>>)
<1>1. CopyLoop[x] = [buf |-> x[1], ids |-> <<>>, out |-> <<>>, stalled |-> x[2] # <<>>]
    BY CopyLoopDef
<1> QED
    BY <1>1

(* With room, a pass is made and the loop goes on with what is left.       *)
LEMMA CopyLoopGoesOn ==
    ASSUME NEW x \in Chunks, Room(x) > 0
    PROVE  /\ CopyLoop[NextPass(x)] \in Copied
           /\ CopyLoop[x].buf = CopyLoop[NextPass(x)].buf
           /\ CopyLoop[x].ids = Pass(x).ids \o CopyLoop[NextPass(x)].ids
           /\ CopyLoop[x].out = Pass(x).out \o CopyLoop[NextPass(x)].out
           /\ CopyLoop[x].stalled = CopyLoop[NextPass(x)].stalled
<1> DEFINE p == Pass(x)
           r == CopyLoop[NextPass(x)]
           z == CopyLoop[x]
<1>1. r \in Copied
    BY CopyLoopDef, PassProperties
<1>2. z = [buf |-> r.buf, ids |-> p.ids \o r.ids, out |-> p.out \o r.out, stalled |-> r.stalled]
    BY CopyLoopDef
<1> HIDE DEF p, r, z
<1>3. z.buf = r.buf /\ z.ids = p.ids \o r.ids /\ z.out = p.out \o r.out /\ z.stalled = r.stalled
    BY <1>2
<1> QED
    BY <1>1, <1>3 DEF p, r, z

(* To prove something of every run of the loop: of one without a pass, and *)
(* of one with a pass if it holds of the rest of the run.                  *)
LEMMA CopyInduction ==
    ASSUME NEW P,
           \A x \in Chunks : ~(Room(x) > 0) => x \in P,
           \A x \in Chunks : Room(x) > 0 /\ NextPass(x) \in P => x \in P
    PROVE  \A x \in Chunks : x \in P
<1> DEFINE size == [x \in Chunks |-> Len(x[2])]
<1>1. \A x \in Chunks : size[x] \in Nat
    <2> TAKE x \in Chunks
    <2>1. x[2] \in Seq(Cell)
        BY DEF Chunks
    <2> QED BY <2>1
<1>2. ASSUME NEW x \in Chunks, \A y \in Chunks : size[y] < size[x] => y \in P
      PROVE  x \in P
    <2>1. CASE Room(x) > 0
        <3>1. /\ NextPass(x) \in Chunks /\ Room(x) \in Nat /\ Room(x) <= Len(x[2])
              /\ Len(NextPass(x)[2]) = Len(x[2]) - Room(x)
            BY <2>1, PassProperties
        <3>2. size[NextPass(x)] < size[x]
            BY <1>1, <2>1, <3>1
        <3> QED BY <1>2, <2>1, <3>1, <3>2
    <2>2. CASE ~(Room(x) > 0)
        BY <2>2
    <2> QED BY <2>1, <2>2
<1> HIDE DEF size
<1> QED
    BY <1>1, <1>2, SizeInduction

(* What one pass leaves in the buffer: bytes that were there or were       *)
(* copied, not more than fit, and no packet that could be taken out.       *)
LEMMA PassEnds ==
    ASSUME NEW y \in Chunks, Room(y) > 0
    PROVE  /\ NextPass(y)[1] = Drain[Filled(y)].buf
           /\ ~Accepts(NextPass(y)[1]) /\ Within(NextPass(y)[1], Filled(y))
           /\ Len(y[1]) <= Cap => Len(NextPass(y)[1]) <= Cap
<1>1. y[1] \in Seq(Cell) /\ y[2] \in Seq(Cell) /\ y[3] \in BOOLEAN
    BY DEF Chunks
<1>2. Filled(y) \in Seq(Cell) /\ NextPass(y)[1] = Drain[Filled(y)].buf
    BY <1>1, PassProperties, ProcessDrain DEF NextPass, Pass
<1>3. /\ ~Accepts(NextPass(y)[1]) /\ Len(NextPass(y)[1]) <= Len(Filled(y))
      /\ Within(NextPass(y)[1], Filled(y))
    BY <1>2, DrainEnds
<1>4. ASSUME Len(y[1]) <= Cap PROVE Len(NextPass(y)[1]) <= Cap
    <2>1. Len(Filled(y)) = Len(y[1]) + Room(y)
        BY <1>1, PassProperties, Concat DEF Filled
    <2>2. Room(y) = IF Len(y[2]) + Len(y[1]) > Cap THEN Cap - Len(y[1]) ELSE Len(y[2])
        BY DEF Room, CopySize
    <2>3. Len(y[1]) \in Nat /\ Len(y[2]) \in Nat
        BY <1>1
    <2>4. \A k, l, n \in Nat :
              n = (IF l + k > Cap THEN Cap - k ELSE l) => k + n <= Cap
        BY RoomAssumption
    <2>5. Room(y) \in Nat
        BY PassProperties
    <2>6. Len(Filled(y)) <= Cap
        BY <2>1, <2>2, <2>3, <2>4, <2>5
    <2>7. Len(NextPass(y)[1]) \in Nat /\ Len(Filled(y)) \in Nat
        BY <1>2, DrainDef, EmptyLen DEF Drained
    <2> QED BY <1>3, <2>6, <2>7, RoomAssumption
<1> QED
    BY <1>2, <1>3, <1>4

(* The buffer never holds more than its size, and behind every pass no     *)
(* packet that could be taken out.                                         *)
LEMMA CopyEnds ==
    ASSUME NEW x \in Chunks, ~Accepts(x[1]), Len(x[1]) <= Cap
    PROVE  ~Accepts(CopyLoop[x].buf) /\ Len(CopyLoop[x].buf) <= Cap
<1> DEFINE Q(y) == ~Accepts(y[1]) /\ Len(y[1]) <= Cap =>
                     ~Accepts(CopyLoop[y].buf) /\ Len(CopyLoop[y].buf) <= Cap
           P == {y \in Chunks : Q(y)}
<1>1. ASSUME NEW y \in Chunks, ~(Room(y) > 0) PROVE y \in P
    BY <1>1, CopyLoopStops
<1>2. ASSUME NEW y \in Chunks, Room(y) > 0, NextPass(y) \in P PROVE y \in P
    <2>1. CopyLoop[y].buf = CopyLoop[NextPass(y)].buf
        BY <1>2, CopyLoopGoesOn
    <2> QED BY <1>2, <2>1, PassEnds
<1>3. \A y \in Chunks : y \in P
    <2> HIDE DEF P
    <2> QED BY <1>1, <1>2, CopyInduction
<1> QED
    BY <1>3

(* A head that another client left behind, and that is not a whole packet, *)
(* is never completed by the bytes of client c.                            *)
ForeignTo(c, b) == b # <<>> /\ b[1].pkt.id[1] # c

(* An incomplete packet of another client at the head blocks a pass.       *)
LEMMA ForeignStays ==
    ASSUME NEW b \in Seq(Cell), NEW s \in Seq(Cell), NEW c,
           ~Accepts(b), ForeignTo(c, b), Of(c, s)
    PROVE  ~Accepts(b \o s) /\ ForeignTo(c, b \o s) /\ (b \o s)[1] = b[1]
<1>1. /\ b \o s \in Seq(Cell) /\ Len(b \o s) = Len(b) + Len(s)
      /\ \A i \in 1..Len(b) : (b \o s)[i] = b[i]
      /\ \A i \in 1..Len(s) : (b \o s)[Len(b) + i] = s[i]
      /\ Len(b) \in Nat /\ Len(s) \in Nat /\ b # <<>>
    BY Concat DEF ForeignTo
<1> DEFINE t == b \o s
           q == b[1].pkt.size
<1>2. 1 \in 1..Len(b) /\ b[1] \in Cell /\ t[1] = b[1] /\ t # <<>>
    BY <1>1, EmptyLen
<1>3. q \in Nat /\ q >= MinLen /\ b[1].pkt.kind = "ok"
    BY <1>2 DEF Cell, PacketSize
<1>4. Claimed(b) = q /\ Claimed(t) = q
    BY <1>2 DEF Claimed
<1> HIDE DEF t, q
<1>5. ASSUME Accepts(t) PROVE FALSE
    <2>1. Len(t) >= q /\ Whole(t, q)
        BY <1>4, <1>5 DEF Accepts, Intact
    <2>2. CASE q <= Len(b)
        <3>1. Whole(b, q)
            BY <1>1, <1>2, <1>3, <2>1, <2>2 DEF Whole, t
        <3>2. HeaderWhole(b)
            BY <1>3, <3>1, MinLenAssumption DEF HeaderWhole, Whole
        <3>3. Len(b) >= MinLen
            BY <1>1, <1>3, <2>2, MinLenAssumption
        <3> QED BY <1>3, <1>4, <2>2, <3>1, <3>2, <3>3 DEF Accepts, Intact
    <2>3. CASE ~(q <= Len(b))
        <3>1. Len(b) + 1 \in 1..q /\ 1 \in 1..Len(s)
            BY <1>1, <1>3, <2>1, <2>3 DEF t
        <3>2. t[Len(b) + 1].pkt = b[1].pkt
            <4>1. t[Len(b) + 1] = [pkt |-> t[1].pkt, pos |-> Len(b) + 1]
                BY <2>1, <3>1 DEF Whole
            <4>2. t[1] = b[1]
                BY <1>2
            <4> QED BY <4>1, <4>2
        <3>3. t[Len(b) + 1] = s[1] /\ s[1].pkt.id[1] = c
            BY <1>1, <3>1 DEF t, Of
        <3> QED BY <3>2, <3>3 DEF ForeignTo
    <2> QED BY <2>2, <2>3
<1> QED
    BY <1>2, <1>5 DEF t, ForeignTo

(* So nothing is executed for c while it lies at the head.                 *)
LEMMA CopyForeign ==
    ASSUME NEW c, NEW x \in Chunks, ~Accepts(x[1]), ForeignTo(c, x[1]), Of(c, x[2])
    PROVE  CopyLoop[x].ids = <<>> /\ ForeignTo(c, CopyLoop[x].buf) /\ CopyLoop[x].buf[1] = x[1][1]
<1> DEFINE Q(y) == ~Accepts(y[1]) /\ ForeignTo(c, y[1]) /\ Of(c, y[2]) =>
                     /\ CopyLoop[y].ids = <<>> /\ ForeignTo(c, CopyLoop[y].buf)
                     /\ CopyLoop[y].buf[1] = y[1][1]
           P == {y \in Chunks : Q(y)}
<1>1. ASSUME NEW y \in Chunks, ~(Room(y) > 0) PROVE y \in P
    BY <1>1, CopyLoopStops
<1>2. ASSUME NEW y \in Chunks, Room(y) > 0, NextPass(y) \in P PROVE y \in P
    <2> SUFFICES ASSUME ~Accepts(y[1]), ForeignTo(c, y[1]), Of(c, y[2])
                 PROVE  /\ CopyLoop[y].ids = <<>> /\ ForeignTo(c, CopyLoop[y].buf)
                        /\ CopyLoop[y].buf[1] = y[1][1]
        OBVIOUS
    <2>1. y[1] \in Seq(Cell) /\ y[2] \in Seq(Cell) /\ y[3] \in BOOLEAN /\ Len(y[2]) \in Nat
        BY DEF Chunks
    <2>2. /\ Room(y) \in Nat /\ Room(y) <= Len(y[2])
          /\ SubSeq(y[2], 1, Room(y)) \in Seq(Cell)
          /\ Len(SubSeq(y[2], 1, Room(y))) = Room(y)
          /\ \A i \in 1..Room(y) : SubSeq(y[2], 1, Room(y))[i] = y[2][i]
          /\ Len(NextPass(y)[2]) = Len(y[2]) - Room(y)
          /\ \A i \in 1..Len(y[2]) - Room(y) : NextPass(y)[2][i] = y[2][Room(y) + i]
          /\ Filled(y) \in Seq(Cell)
        BY <1>2, PassProperties
    <2>3. Of(c, SubSeq(y[2], 1, Room(y)))
        BY <2>1, <2>2 DEF Of
    <2>4. Of(c, NextPass(y)[2])
        <3> SUFFICES ASSUME NEW i \in 1..Len(NextPass(y)[2])
                     PROVE  NextPass(y)[2][i].pkt.id[1] = c
            BY DEF Of
        <3>1. i \in 1..Len(y[2]) - Room(y) /\ Room(y) + i \in 1..Len(y[2])
            BY <2>1, <2>2
        <3> QED BY <2>2, <3>1 DEF Of
    <2>5. ~Accepts(Filled(y)) /\ ForeignTo(c, Filled(y)) /\ Filled(y)[1] = y[1][1]
        BY <2>1, <2>2, <2>3, ForeignStays DEF Filled
    <2>6. Pass(y).ids = <<>> /\ NextPass(y)[1] = Filled(y)
        <3>1. Drain[Filled(y)].buf = Filled(y) /\ Drain[Filled(y)].ids = <<>>
            BY <2>2, <2>5, DrainIdle
        <3>2. Pass(y).ids = <<>> /\ Pass(y).buf = Filled(y)
            BY <2>1, <2>2, <3>1, ProcessDrain DEF Pass
        <3> QED BY <3>2 DEF NextPass
    <2>7. /\ CopyLoop[NextPass(y)].ids = <<>> /\ ForeignTo(c, CopyLoop[NextPass(y)].buf)
          /\ CopyLoop[NextPass(y)].buf[1] = y[1][1]
        BY <1>2, <2>4, <2>5, <2>6
    <2>8. /\ CopyLoop[y].buf = CopyLoop[NextPass(y)].buf
          /\ CopyLoop[y].ids = Pass(y).ids \o CopyLoop[NextPass(y)].ids
        BY <1>2, CopyLoopGoesOn
    <2>9. CopyLoop[y].ids = <<>>
        BY <2>6, <2>7, <2>8
    <2> QED BY <2>7, <2>8, <2>9
<1>3. \A y \in Chunks : y \in P
    <2> HIDE DEF P
    <2> QED BY <1>1, <1>2, CopyInduction
<1> QED
    BY <1>3

(* Numbers go on behind one another. *)
LEMMA NumberedConcat ==
    ASSUME NEW a \in Seq(Clients \X Nat), NEW b \in Seq(Clients \X Nat), NEW c, NEW m \in Nat,
           Numbered(a, c, m), Numbered(b, c, m + Len(a))
    PROVE  /\ Numbered(a \o b, c, m) /\ Len(a \o b) = Len(a) + Len(b)
           /\ a \o b \in Seq(Clients \X Nat)
           /\ Len(a) \in Nat /\ Len(b) \in Nat
<1>1. /\ Len(a) \in Nat /\ Len(b) \in Nat /\ Len(a \o b) = Len(a) + Len(b)
      /\ a \o b \in Seq(Clients \X Nat)
      /\ \A i \in 1..Len(a) : (a \o b)[i] = a[i]
      /\ \A i \in 1..Len(b) : (a \o b)[Len(a) + i] = b[i]
    OBVIOUS
<1>2. ASSUME NEW i \in 1..Len(a \o b) PROVE (a \o b)[i] = <<c, m + i - 1>>
    <2>1. CASE i <= Len(a)
        <3>1. i \in 1..Len(a)
            BY <1>1, <2>1
        <3> QED BY <1>1, <3>1 DEF Numbered
    <2>2. CASE ~(i <= Len(a))
        <3>1. i - Len(a) \in 1..Len(b) /\ Len(a) + (i - Len(a)) = i
            BY <1>1, <2>2
        <3>2. (a \o b)[Len(a) + (i - Len(a))] = <<c, m + Len(a) + (i - Len(a)) - 1>>
            BY <1>1, <3>1 DEF Numbered
        <3>3. m + Len(a) + (i - Len(a)) - 1 = m + i - 1
            BY <1>1
        <3> QED BY <3>1, <3>2, <3>3
    <2> QED BY <2>1, <2>2
<1> QED
    BY <1>1, <1>2 DEF Numbered

(* The buffer, the new data and what follows them, divided as one pass     *)
(* divides them.                                                           *)
LEMMA PassDivides ==
    ASSUME NEW x \in Chunks, Room(x) > 0, NEW s \in Seq(Cell)
    PROVE  /\ x[1] \o (x[2] \o s) = Filled(x) \o (NextPass(x)[2] \o s)
           /\ NextPass(x)[2] \o s \in Seq(Cell)
<1> DEFINE a == x[1]
           b == x[2]
           n == Room(x)
           f == SubSeq(b, 1, n)
           g == SubSeq(b, n + 1, Len(b))
<1>1. a \in Seq(Cell) /\ b \in Seq(Cell) /\ Len(b) \in Nat
    BY DEF Chunks
<1>2. n \in Nat /\ n <= Len(b) /\ f \in Seq(Cell) /\ Filled(x) = a \o f
    BY PassProperties DEF Filled
<1>3. NextPass(x)[2] = g
    BY DEF NextPass
<1> HIDE DEF a, b, n
<1>4. g \in Seq(Cell) /\ Len(g) = Len(b) - n /\ \A i \in 1..Len(g) : g[i] = b[n + i]
    BY <1>1, <1>2
<1>5. f \in Seq(Cell) /\ Len(f) = n /\ \A i \in 1..n : f[i] = b[i]
    BY <1>1, <1>2
<1> HIDE DEF f, g
<1>6. f \o g = b
    <2>1. Len(f \o g) = Len(b) /\ f \o g \in Seq(Cell)
        <3>1. Len(f \o g) = Len(f) + Len(g) /\ f \o g \in Seq(Cell)
            BY <1>4, <1>5, Concat
        <3> QED BY <1>1, <1>2, <1>4, <1>5, <3>1
    <2>2. ASSUME NEW i \in 1..Len(b) PROVE (f \o g)[i] = b[i]
        <3>1. CASE i <= n
            <4>1. i \in 1..Len(f) /\ i \in 1..n
                BY <1>2, <1>5, <3>1
            <4> QED BY <1>4, <1>5, <4>1, Concat
        <3>2. CASE ~(i <= n)
            <4>1. i - n \in 1..Len(g) /\ n + (i - n) = i
                BY <1>1, <1>2, <1>4, <3>2
            <4>2. (f \o g)[n + (i - n)] = g[i - n] /\ g[i - n] = b[n + (i - n)]
                BY <1>4, <1>5, <4>1, Concat
            <4> QED BY <4>1, <4>2
        <3> QED BY <3>1, <3>2
    <2> QED BY <1>1, <2>1, <2>2, SeqEqual
<1>7. /\ a \o ((f \o g) \o s) = a \o (f \o (g \o s))
      /\ a \o (f \o (g \o s)) = (a \o f) \o (g \o s)
      /\ g \o s \in Seq(Cell)
    <2>1. g \o s \in Seq(Cell)
        BY <1>4, Concat
    <2>2. (f \o g) \o s = f \o (g \o s)
        BY <1>4, <1>5, CellsAssociative
    <2>3. (a \o f) \o (g \o s) = a \o (f \o (g \o s))
        <3> DEFINE h == g \o s
        <3>1. h \in Seq(Cell)
            BY <2>1
        <3> HIDE DEF h
        <3>2. (a \o f) \o h = a \o (f \o h)
            BY <1>1, <1>5, <3>1, CellsAssociative
        <3> QED BY <3>2 DEF h
    <2> QED BY <2>1, <2>2, <2>3
<1>8. a \o (b \o s) = Filled(x) \o (g \o s)
    BY <1>2, <1>6, <1>7
<1> QED
    BY <1>3, <1>7, <1>8 DEF a, b

(* The run of the loop on a stream: its packets are executed in the order  *)
(* they were sent, the buffer holds bytes of the stream only, and unless   *)
(* the loop stalls nothing of the stream is lost.                          *)
CopiedOf(x, s, c, m, r) ==
    /\ Numbered(r.ids, c, m)
    /\ Of(c, r.buf)
    /\ \/ r.stalled
       \/ /\ Stream(r.buf \o s, c, m + Len(r.ids))
          /\ \A k \in Nat : Complete(x[1] \o (x[2] \o s), m, k) =>
                              Complete(r.buf \o s, m + Len(r.ids), k)

(* By induction on what is left to copy, pass by pass.                     *)
LEMMA CopyStream ==
    ASSUME NEW s \in Seq(Cell), NEW c \in Clients
    PROVE  \A x \in Chunks : \A m \in Nat :
               Stream(x[1] \o (x[2] \o s), c, m) => CopiedOf(x, s, c, m, CopyLoop[x])
<1> DEFINE P == {x \in Chunks : \A m \in Nat :
                   Stream(x[1] \o (x[2] \o s), c, m) => CopiedOf(x, s, c, m, CopyLoop[x])}
<1>1. ASSUME NEW x \in Chunks, ~(Room(x) > 0) PROVE x \in P
    <2> SUFFICES ASSUME NEW m \in Nat, Stream(x[1] \o (x[2] \o s), c, m)
                 PROVE  CopiedOf(x, s, c, m, CopyLoop[x])
        OBVIOUS
    <2> DEFINE r == CopyLoop[x]
    <2>1. r.buf = x[1] /\ r.ids = <<>> /\ r.stalled = (x[2] # <<>>)
        BY <1>1, CopyLoopStops
    <2> HIDE DEF r
    <2>2. Len(r.ids) = 0 /\ m + 0 = m
        BY <2>1
    <2>3. Numbered(r.ids, c, m)
        BY <2>2 DEF Numbered
    <2>4. Of(c, r.buf)
        <3> DEFINE a == x[1]
                   t == x[2] \o s
        <3>1. a \in Seq(Cell) /\ t \in Seq(Cell)
            BY Concat DEF Chunks
        <3>2. Of(c, a \o t)
            <4>1. a \o t \in Seq(Cell) /\ Stream(a \o t, c, m)
                BY <3>1, Concat
            <4> QED BY <4>1, StreamOwn
        <3> HIDE DEF a, t
        <3>3. Of(c, a)
            <4>1. /\ \A i \in 1..Len(a) : (a \o t)[i] = a[i]
                  /\ Len(a \o t) = Len(a) + Len(t) /\ Len(a) \in Nat /\ Len(t) \in Nat
                BY <3>1, Concat
            <4> QED BY <3>2, <4>1 DEF Of
        <3> QED BY <2>1, <3>3 DEF a
    <2>5. CASE x[2] # <<>>
        BY <2>1, <2>3, <2>4, <2>5 DEF CopiedOf, r
    <2>6. CASE x[2] = <<>>
        <3>1. x[2] \o s = s
            BY <2>6
        <3> QED BY <2>1, <2>2, <2>3, <2>4, <3>1 DEF CopiedOf, r
    <2> QED BY <2>5, <2>6
<1>2. ASSUME NEW x \in Chunks, Room(x) > 0, NextPass(x) \in P PROVE x \in P
    <2> SUFFICES ASSUME NEW m \in Nat, Stream(x[1] \o (x[2] \o s), c, m)
                 PROVE  CopiedOf(x, s, c, m, CopyLoop[x])
        OBVIOUS
    <2> DEFINE y == NextPass(x)
               u == y[2] \o s
               p == Pass(x)
               r == CopyLoop[y]
               z == CopyLoop[x]
    <2>1. /\ x[1] \o (x[2] \o s) = Filled(x) \o u /\ u \in Seq(Cell)
          /\ Filled(x) \in Seq(Cell) /\ p \in Drained /\ y \in Chunks
        BY <1>2, PassDivides, PassProperties
    <2>2. p.buf = Drain[Filled(x)].buf /\ p.ids = Drain[Filled(x)].ids /\ y[1] = p.buf
        BY <2>1, ProcessDrain DEF Pass, NextPass, Chunks
    <2>3. /\ r \in Copied /\ z.buf = r.buf /\ z.ids = p.ids \o r.ids /\ z.stalled = r.stalled
        BY <1>2, CopyLoopGoesOn
    <2> HIDE DEF y, u, p, r, z
    <2>4. /\ Numbered(p.ids, c, m) /\ Stream(p.buf \o u, c, m + Len(p.ids))
          /\ \A k \in Nat : Complete(Filled(x) \o u, m, k) => Complete(p.buf \o u, m + Len(p.ids), k)
        <3>1. DrainedOf(Filled(x), u, c, m, Drain[Filled(x)])
            BY <2>1, DrainStream
        <3> QED BY <2>2, <3>1 DEF DrainedOf
    <2>5. p.ids \in Seq(Clients \X Nat) /\ r.ids \in Seq(Clients \X Nat) /\ Len(p.ids) \in Nat
        BY <2>1, <2>3 DEF Drained, Copied
    <2>6. CopiedOf(y, s, c, m + Len(p.ids), r)
        <3>1. Stream(y[1] \o (y[2] \o s), c, m + Len(p.ids)) /\ m + Len(p.ids) \in Nat
            BY <2>2, <2>4, <2>5 DEF u
        <3> QED BY <1>2, <3>1 DEF y, r
    <2>7. /\ Numbered(z.ids, c, m) /\ Len(z.ids) = Len(p.ids) + Len(r.ids) /\ Len(r.ids) \in Nat
        <3>1. Numbered(r.ids, c, m + Len(p.ids))
            BY <2>6 DEF CopiedOf
        <3> DEFINE i == p.ids
                   j == r.ids
        <3>2. /\ i \in Seq(Clients \X Nat) /\ j \in Seq(Clients \X Nat)
              /\ Numbered(i, c, m) /\ Numbered(j, c, m + Len(i))
            BY <2>4, <2>5, <3>1
        <3> HIDE DEF i, j
        <3>3. /\ Numbered(i \o j, c, m) /\ Len(i \o j) = Len(i) + Len(j) /\ Len(j) \in Nat
            BY <3>2, NumberedConcat
        <3> QED BY <2>3, <3>3 DEF i, j
    <2>8. m + Len(z.ids) = m + Len(p.ids) + Len(r.ids)
        <3>1. \A k, l \in Nat : m + (k + l) = m + k + l
            OBVIOUS
        <3> QED BY <2>5, <2>7, <3>1
    <2>9. ASSUME ~z.stalled
          PROVE  /\ Stream(z.buf \o s, c, m + Len(z.ids))
                 /\ \A k \in Nat : Complete(x[1] \o (x[2] \o s), m, k) =>
                                     Complete(z.buf \o s, m + Len(z.ids), k)
        <3>1. /\ Stream(r.buf \o s, c, m + Len(p.ids) + Len(r.ids))
              /\ \A k \in Nat : Complete(y[1] \o (y[2] \o s), m + Len(p.ids), k) =>
                                  Complete(r.buf \o s, m + Len(p.ids) + Len(r.ids), k)
            BY <2>3, <2>6, <2>9 DEF CopiedOf
        <3> QED BY <2>1, <2>2, <2>3, <2>4, <2>8, <3>1 DEF u
    <2>10. Of(c, z.buf)
        BY <2>3, <2>6 DEF CopiedOf
    <2> QED BY <2>7, <2>9, <2>10 DEF CopiedOf, z
<1>3. \A x \in Chunks : x \in P
    <2> HIDE DEF P
    <2> QED BY <1>1, <1>2, CopyInduction
<1> QED
    BY <1>3

-----------------------------------------------------------------------------
(* The first bytes of what follows the buffer are still a stream.          *)
LEMMA StreamPrefix ==
    ASSUME NEW b \in Seq(Cell), NEW s \in Seq(Cell), NEW n \in 0..Len(s), NEW c, NEW m \in Nat,
           Stream(b \o s, c, m)
    PROVE  SubSeq(s, 1, n) \in Seq(Cell) /\ Stream(b \o SubSeq(s, 1, n), c, m)
<1> DEFINE f == SubSeq(s, 1, n)
           t == b \o s
           u == b \o f
<1>1. f \in Seq(Cell) /\ Len(f) = n /\ \A i \in 1..n : f[i] = s[i]
    OBVIOUS
<1>2. Len(s) \in Nat /\ Len(b) \in Nat
    BY EmptyLen
<1> HIDE DEF f
<1>3. /\ t \in Seq(Cell) /\ Len(t) = Len(b) + Len(s)
      /\ \A i \in 1..Len(b) : t[i] = b[i]
      /\ \A i \in 1..Len(s) : t[Len(b) + i] = s[i]
      /\ u \in Seq(Cell) /\ Len(u) = Len(b) + n
      /\ \A i \in 1..Len(b) : u[i] = b[i]
      /\ \A i \in 1..n : u[Len(b) + i] = f[i]
      /\ (t = <<>> <=> Len(t) = 0) /\ (u = <<>> <=> Len(u) = 0)
    BY <1>1, Concat
<1>4. ASSUME NEW i \in 1..Len(u) PROVE u[i] = t[i] /\ i \in 1..Len(t)
    <2>1. i \in 1..Len(t)
        BY <1>2, <1>3
    <2>2. CASE i <= Len(b)
        <3>1. i \in 1..Len(b)
            BY <1>2, <1>3, <2>2
        <3> QED BY <1>3, <2>1, <3>1
    <2>3. CASE ~(i <= Len(b))
        <3>1. i - Len(b) \in 1..n /\ i - Len(b) \in 1..Len(s) /\ Len(b) + (i - Len(b)) = i
            BY <1>2, <1>3, <2>3
        <3>2. /\ u[Len(b) + (i - Len(b))] = f[i - Len(b)]
              /\ t[Len(b) + (i - Len(b))] = s[i - Len(b)]
              /\ f[i - Len(b)] = s[i - Len(b)]
            BY <1>1, <1>3, <3>1
        <3> QED BY <2>1, <3>1, <3>2
    <2> QED BY <2>2, <2>3
<1>5. Stream(t, c, m)
    BY DEF t
<1> HIDE DEF t, u
<1>6. Stream(u, c, m)
    <2>1. ASSUME u # <<>> PROVE u[1].pos = 1 /\ u[1].pkt.id = <<c, m>>
        <3>1. 1 \in 1..Len(u)
            BY <1>2, <1>3, <2>1
        <3>2. u[1] = t[1] /\ t # <<>>
            BY <1>3, <1>4, <3>1
        <3> QED BY <1>5, <3>2 DEF Stream
    <2>2. ASSUME NEW i \in 1..Len(u) - 1 PROVE Follows(u[i], u[i + 1])
        <3>1. i \in 1..Len(u) /\ i + 1 \in 1..Len(u)
            BY <1>2, <1>3
        <3>2. u[i] = t[i] /\ u[i + 1] = t[i + 1] /\ i \in 1..Len(t) - 1
            <4>1. i + 1 \in 1..Len(t) /\ Len(t) \in Nat
                BY <1>2, <1>3, <1>4, <3>1
            <4>2. i \in 1..Len(t) - 1
                BY <3>1, <4>1
            <4> QED BY <1>4, <3>1, <4>2
        <3> QED BY <1>5, <3>2 DEF Stream
    <2> QED BY <2>1, <2>2 DEF Stream
<1> QED
    BY <1>1, <1>6 DEF f, u

(* The bytes of a packet.                                                  *)
Packets == [id : Clients \X Nat, size : PacketSize, kind : {"ok"}, reply : Requests]

(* The bytes of a packet, in their order.                                  *)
LEMMA BytesOf ==
    ASSUME NEW p \in Packets
    PROVE  /\ Bytes(p) \in Seq(Cell) /\ Len(Bytes(p)) = p.size
           /\ p.size \in Nat /\ p.size >= MinLen /\ p.size >= 1
           /\ \A i \in 1..p.size : Bytes(p)[i] = [pkt |-> p, pos |-> i]
<1>1. p.size \in Nat /\ p.size >= MinLen /\ p.size >= 1
    BY MinLenAssumption DEF Packets, PacketSize
<1>2. \A i \in 1..p.size : [pkt |-> p, pos |-> i] \in Cell
    BY <1>1 DEF Packets, Cell
<1> QED
    BY <1>1, <1>2 DEF Bytes

(* The next packet of the client goes on where a complete stream ends.     *)
LEMMA StreamAppend ==
    ASSUME NEW t \in Seq(Cell), NEW c \in Clients, NEW m \in Nat, NEW k \in Nat,
           NEW p \in Packets, p.id = <<c, k + 1>>,
           Stream(t, c, m), Complete(t, m, k)
    PROVE  Stream(t \o Bytes(p), c, m) /\ Complete(t \o Bytes(p), m, k + 1)
<1> DEFINE b == Bytes(p)
           u == t \o b
           q == p.size
<1>1. /\ b \in Seq(Cell) /\ Len(b) = q /\ q \in Nat /\ q >= 1
      /\ \A i \in 1..q : b[i] = [pkt |-> p, pos |-> i]
    BY BytesOf
<1> HIDE DEF b
<1>2. /\ u \in Seq(Cell) /\ Len(u) = Len(t) + q /\ Len(t) \in Nat
      /\ \A i \in 1..Len(t) : u[i] = t[i]
      /\ \A i \in 1..q : u[Len(t) + i] = [pkt |-> p, pos |-> i]
      /\ u # <<>> /\ (t = <<>> <=> Len(t) = 0)
    <2>1. /\ u \in Seq(Cell) /\ Len(u) = Len(t) + Len(b) /\ Len(t) \in Nat
          /\ \A i \in 1..Len(t) : u[i] = t[i]
          /\ \A i \in 1..Len(b) : u[Len(t) + i] = b[i]
          /\ u = <<>> <=> Len(t) + Len(b) = 0
        BY <1>1, Concat
    <2>2. t = <<>> <=> Len(t) = 0
        BY EmptyLen
    <2> HIDE DEF u, q
    <2>3. Len(u) = Len(t) + q /\ u # <<>>
        BY <1>1, <2>1
    <2>4. \A i \in 1..q : u[Len(t) + i] = [pkt |-> p, pos |-> i]
        BY <1>1, <2>1
    <2> QED BY <2>1, <2>2, <2>3, <2>4
<1> HIDE DEF u
<1>3. u[1].pos = 1 /\ u[1].pkt.id = <<c, m>>
    <2>1. CASE t = <<>>
        <3>1. u[Len(t) + 1] = [pkt |-> p, pos |-> 1] /\ Len(t) + 1 = 1 /\ m = k + 1
            BY <1>1, <1>2, <2>1 DEF Complete
        <3> QED BY <3>1
    <2>2. CASE t # <<>>
        <3>1. 1 \in 1..Len(t)
            BY <1>2, <2>2
        <3> QED BY <1>2, <2>2, <3>1 DEF Stream
    <2> QED BY <2>1, <2>2
<1>4. ASSUME NEW i \in 1..Len(u) - 1 PROVE Follows(u[i], u[i + 1])
    <2>1. CASE i < Len(t)
        <3>1. i \in 1..Len(t) - 1 /\ i \in 1..Len(t) /\ i + 1 \in 1..Len(t)
            BY <1>2, <2>1
        <3> QED BY <1>2, <3>1 DEF Stream
    <2>2. CASE i = Len(t)
        <3>1. t # <<>> /\ i \in 1..Len(t)
            BY <1>2, <2>2
        <3>2. u[i] = t[i] /\ u[i + 1] = [pkt |-> p, pos |-> 1]
            <4>1. 1 \in 1..q
                BY <1>1
            <4>2. u[Len(t) + 1] = [pkt |-> p, pos |-> 1]
                BY <1>2, <4>1
            <4> QED BY <1>2, <2>2, <3>1, <4>2
        <3>3. t[i].pos = t[i].pkt.size /\ t[i].pkt.id[2] = k
            BY <2>2, <3>1 DEF Complete
        <3>4. t[i].pkt.id[1] = c
            BY <3>1, StreamOwn DEF Of
        <3> QED BY <3>2, <3>3, <3>4 DEF Follows
    <2>3. CASE i > Len(t)
        <3> DEFINE j == i - Len(t)
        <3>1. j \in 1..q /\ j + 1 \in 1..q /\ Len(t) + j = i /\ Len(t) + (j + 1) = i + 1 /\ j < q
            BY <1>1, <1>2, <2>3
        <3> HIDE DEF j
        <3>2. u[i] = [pkt |-> p, pos |-> j] /\ u[i + 1] = [pkt |-> p, pos |-> j + 1]
            <4>1. /\ u[Len(t) + j] = [pkt |-> p, pos |-> j]
                  /\ u[Len(t) + (j + 1)] = [pkt |-> p, pos |-> j + 1]
                BY <1>2, <3>1
            <4> QED BY <3>1, <4>1
        <3> QED BY <3>1, <3>2 DEF Follows
    <2>4. i \in Nat
        BY <1>2
    <2> QED BY <1>2, <2>1, <2>2, <2>3, <2>4
<1>5. u[Len(u)].pos = u[Len(u)].pkt.size /\ u[Len(u)].pkt.id[2] = k + 1
    <2>1. q \in 1..q
        BY <1>1
    <2>2. u[Len(u)] = [pkt |-> p, pos |-> q]
        BY <1>2, <2>1
    <2> QED BY <2>2
<1>6. Stream(u, c, m)
    BY <1>3, <1>4 DEF Stream
<1>7. Complete(u, m, k + 1)
    BY <1>2, <1>5 DEF Complete
<1> QED
    BY <1>6, <1>7 DEF u, b

(* How many of the first lines of a script are packets.                    *)
LEMMA SentCount ==
    ASSUME NEW c \in Clients, NEW n \in Nat
    PROVE  /\ Sent(c, n) \in Nat /\ Sent(c, n) <= n
           /\ Sent(c, 0) = 0
           /\ Sent(c, n + 1) = IF script[c][n + 1] # "sleep" THEN Sent(c, n) + 1 ELSE Sent(c, n)
<1> DEFINE S == {i \in 1..n : script[c][i] # "sleep"}
           T == {i \in 1..(n + 1) : script[c][i] # "sleep"}
<1>1. IsFiniteSet(1..n) /\ Cardinality(1..n) = n
    BY FS_Interval
<1>2. IsFiniteSet(S) /\ Cardinality(S) <= n /\ Cardinality(S) \in Nat
    <2>1. S \in SUBSET (1..n)
        OBVIOUS
    <2> HIDE DEF S
    <2> QED BY <1>1, <2>1, FS_Subset, FS_CardinalityType
<1>3. Cardinality({}) = 0
    BY FS_EmptySet
<1>4. {i \in 1..0 : script[c][i] # "sleep"} = {}
    OBVIOUS
<1>5. CASE script[c][n + 1] # "sleep"
    <2>1. T = S \cup {n + 1} /\ n + 1 \notin S
        BY <1>5
    <2> HIDE DEF S, T
    <2>2. Cardinality(T) = Cardinality(S) + 1
        BY <1>2, <2>1, FS_AddElement
    <2> QED BY <1>2, <1>3, <1>4, <1>5, <2>2 DEF Sent, S, T
<1>6. CASE script[c][n + 1] = "sleep"
    <2>1. T = S
        BY <1>6
    <2> QED BY <1>2, <1>3, <1>4, <1>6, <2>1 DEF Sent
<1> QED
    BY <1>5, <1>6

-----------------------------------------------------------------------------
(* The callback on a buffer without a packet at its head: what it does to  *)
(* the buffer is what the loop does.                                       *)
LEMMA ReadCallbackLoop ==
    ASSUME NEW chunk \in Seq(Cell), NEW r \in ReadResults(chunk),
           buffer \in Seq(Cell), ~Accepts(buffer)
    PROVE  \E before, after \in BOOLEAN :
              /\ <<buffer, chunk, after>> \in Chunks
              /\ r \in Copied
              /\ r.buf = CopyLoop[<<buffer, chunk, after>>].buf
              /\ r.ids = CopyLoop[<<buffer, chunk, after>>].ids
              /\ r.stalled = CopyLoop[<<buffer, chunk, after>>].stalled
              /\ r.out = Process(buffer, before).out \o CopyLoop[<<buffer, chunk, after>>].out
<1>1. PICK before \in BOOLEAN, after \in BOOLEAN : r = ReadCallback(chunk, before, after)
    BY DEF ReadResults
<1> DEFINE p == Process(buffer, before)
           x == <<buffer, chunk, after>>
           l == CopyLoop[x]
<1>2. p \in Drained /\ p.buf = buffer /\ p.ids = <<>>
    BY ProcessDrain, DrainIdle
<1>3. x \in Chunks
    BY DEF Chunks
<1>4. l \in Copied
    BY <1>3, CopyLoopDef
<1>5. r = [l EXCEPT !.ids = p.ids \o @, !.out = p.out \o @]
    BY <1>1, <1>2 DEF ReadCallback
<1> HIDE DEF p, l
<1>6. /\ l.buf \in Seq(Cell) /\ l.ids \in Seq(Clients \X Nat) /\ l.stalled \in BOOLEAN
      /\ p.out \in Seq({"response", "junk"}) /\ l.out \in Seq({"response", "junk"})
    BY <1>2, <1>4 DEF Drained, Copied
<1>7. l = [buf |-> l.buf, ids |-> l.ids, out |-> l.out, stalled |-> l.stalled]
    BY <1>4 DEF Copied
<1>8. r = [buf |-> l.buf, ids |-> p.ids \o l.ids, out |-> p.out \o l.out, stalled |-> l.stalled]
    BY <1>5, <1>7
<1>9. p.ids \o l.ids = l.ids
    BY <1>2, <1>6
<1>10. p.out \o l.out \in Seq({"response", "junk"})
    BY <1>6
<1>11. /\ r.buf = l.buf /\ r.ids = l.ids /\ r.stalled = l.stalled
       /\ r.out = p.out \o l.out
    BY <1>8, <1>9
<1>12. r \in Copied
    BY <1>6, <1>8, <1>9, <1>10 DEF Copied
<1> QED
    BY <1>3, <1>11, <1>12 DEF p, l

(***************************************************************************)
(* The strengthening for ServesExclusively.  What is in the buffer and on  *)
(* its way from a client, together, is what that client has sent and what  *)
(* has not been executed, in order and without a gap, up to the last of    *)
(* its lines unless the connection was reset; but not when another client  *)
(* left something at the head of the buffer, or the loop has stalled.      *)
(***************************************************************************)
Unread(c, s) ==
    /\ Stream(s, c, Len(ran[c]) + 1)
    /\ c \notin broken => Complete(s, Len(ran[c]) + 1, Sent(c, nreq[c]))

Lines == \A c \in Clients :
    /\ nreq[c] <= Requested(c)
    /\ cpc[c] \in Before \cup {"connecting"} => nreq[c] = 0
    /\ cpc[c] = "sending" => nreq[c] < Requested(c)

Leftover == ~Accepts(buffer) /\ (buffer # <<>> => buffer[1].pkt.id[1] \in served)

InOrder == \A c \in Clients : Numbered(ran[c], c, 1)

OwnBytes == \A c \in Clients : Of(c, up[c])

Waiting == \A c \in Clients : c \notin served => ran[c] = <<>> /\ Unread(c, up[c])

Open == \A c \in Clients : conn = c =>
    /\ c \in served
    /\ closing \/ ForeignTo(c, buffer) \/ Unread(c, buffer \o up[c])

SInv == TypeOK /\ Lines /\ Leftover /\ InOrder /\ OwnBytes /\ Waiting /\ Open

(* Nobody has sent anything yet. *)
LEMMA InitSInv == Init => SInv
<1> SUFFICES ASSUME Init PROVE SInv
    OBVIOUS
<1> USE DEF Init
<1>1. TypeOK
    <2>1. buffer \in Seq(Cell) /\ Len(buffer) <= Cap
        <3>1. Len(buffer) = 0
            OBVIOUS
        <3> QED BY <3>1, RoomAssumption
    <2>2. starts \in 1..MaxStarts
        BY StartsAssumption
    <2>3. /\ up \in [Clients -> Seq(Cell)]
          /\ down \in [Clients -> Seq({"response", "junk"})]
          /\ ran \in [Clients -> Seq(Clients \X Nat)]
        OBVIOUS
    <2>4. /\ cpc \in [Clients -> {"idle", "asked", "refused", "connecting", "sending", "session",
                                  "lost", "aborted", "done", "failed"}]
          /\ nreq \in [Clients -> Nat] /\ nresp \in [Clients -> Nat]
          /\ stuck \in [Clients -> BOOLEAN] /\ answers \in [Clients -> SUBSET {0, 1}]
        OBVIOUS
    <2>5. /\ script \in Scripts /\ asked \subseteq Clients /\ backlog \in Seq(Clients)
          /\ held \in Clients \cup {None} /\ conn \in Clients \cup {None}
          /\ broken \subseteq Clients /\ hungup \subseteq Clients /\ served \subseteq Clients
        OBVIOUS
    <2>6. alive \in BOOLEAN /\ used \in BOOLEAN /\ closing \in BOOLEAN
        BY Zenon
    <2> HIDE DEF Init
    <2> QED BY <2>1, <2>2, <2>3, <2>4, <2>5, <2>6 DEF TypeOK
<1>2. script \in [Clients -> Seq(Commands)]
    BY ScriptsAssumption
<1>3. Lines
    BY <1>2 DEF Lines, Requested, Before
<1>4. ~Accepts(<<>>)
    BY MinLenAssumption DEF Accepts
<1>5. Leftover /\ InOrder /\ OwnBytes /\ Open
    <2>1. Leftover /\ Open
        BY <1>4, ClientsAssumption DEF Leftover, Open
    <2>2. InOrder /\ OwnBytes
        BY DEF InOrder, OwnBytes, Numbered, Of
    <2> QED BY <2>1, <2>2
<1>6. Waiting
    <2> SUFFICES ASSUME NEW c \in Clients PROVE Unread(c, up[c])
        BY DEF Waiting
    <2>1. Len(ran[c]) + 1 = 1 /\ up[c] = <<>> /\ nreq[c] = 0 /\ Len(up[c]) = 0
        OBVIOUS
    <2>2. Sent(c, 0) = 0
        BY SentCount
    <2>3. Complete(<<>>, 1, 0)
        BY DEF Complete
    <2>4. Stream(<<>>, c, 1)
        BY DEF Stream
    <2> QED BY <2>1, <2>2, <2>3, <2>4 DEF Unread
<1> QED
    BY <1>1, <1>3, <1>5, <1>6 DEF SInv

(* Everything but the types, for a step that moves no byte and runs no     *)
(* command.                                                                *)
Moves == Lines /\ Leftover /\ InOrder /\ OwnBytes /\ Waiting /\ Open

(* A step that touches none of the bytes preserves what is said of them.   *)
LEMMA StillStep ==
    ASSUME Moves,
           UNCHANGED <<script, nreq, up, buffer, ran, conn, closing, served>>,
           broken \subseteq broken',
           \A x \in Clients : cpc'[x] \in Before \cup {"connecting"} => nreq[x] = 0,
           \A x \in Clients : cpc'[x] = "sending" => nreq[x] < Requested(x)
    PROVE  Moves'
<1>1. Lines'
    BY DEF Moves, Lines, Requested
<1>2. Leftover' /\ InOrder' /\ OwnBytes'
    BY DEF Moves, Leftover, InOrder, OwnBytes
<1>3. \A c \in Clients : \A s : Unread(c, s) => Unread(c, s)'
    BY DEF Unread, Sent
<1>4. Waiting'
    BY <1>3 DEF Moves, Waiting
<1>5. Open'
    BY <1>3 DEF Moves, Open
<1> QED
    BY <1>1, <1>2, <1>4, <1>5 DEF Moves

(* What a client does, but for its packets, keeps every type.              *)
LEMMA ClientTyped ==
    ASSUME TypeOK, NEW c \in Clients,
           \/ Ask(c) \/ (\E a \in {0, 1} : ReadAnswer(c, a)) \/ OnConnect(c) \/ WriteKills(c)
           \/ ReadResponse(c) \/ ReadJunk(c) \/ ReadBehindJunk(c) \/ ReadHangup(c) \/ Timeout(c)
    PROVE  TypeOK'
<1> USE DEF TypeOK, cliVars, udpVars, simVars, lisVars, devVars, tcpVars, rxVars
<1>1. CASE Ask(c)
    BY <1>1 DEF Ask
<1>2. ASSUME NEW a \in {0, 1}, ReadAnswer(c, a) PROVE TypeOK'
    <2>1. /\ cpc' = [cpc EXCEPT ![c] = "connecting"] \/ cpc' = [cpc EXCEPT ![c] = "refused"]
          /\ backlog' = Append(backlog, c) \/ backlog' = backlog
          /\ hungup' = hungup \cup {c} \/ hungup' = hungup
          /\ broken' = broken \cup {c} \/ broken' = broken
          /\ UNCHANGED <<script, nreq, nresp, stuck, udpVars, simVars, held, devVars, up, down,
                         buffer, ran>>
        BY <1>2 DEF ReadAnswer, Connect
    <2>2. backlog \in Seq(Clients)
        OBVIOUS
    <2>3. Append(backlog, c) \in Seq(Clients)
        <3> HIDE DEF TypeOK
        <3> QED BY <2>2
    <2> QED BY <2>1, <2>2, <2>3
<1>3. CASE OnConnect(c)
    BY <1>3 DEF OnConnect, NowAt
<1>4. CASE WriteKills(c)
    BY <1>4 DEF WriteKills
<1>5. CASE ReadResponse(c) \/ ReadJunk(c) \/ ReadBehindJunk(c)
    <2>1. down[c] \in Seq({"response", "junk"}) /\ down[c] # <<>>
        BY <1>5 DEF ReadResponse, ReadJunk, ReadBehindJunk
    <2>2. /\ Tail(down[c]) \in Seq({"response", "junk"})
          /\ \A n \in 1..Len(down[c]) :
               SubSeq(down[c], n + 1, Len(down[c])) \in Seq({"response", "junk"})
        <3> DEFINE T == {"response", "junk"}
                   d == down[c]
        <3>1. d \in Seq(T) /\ d # <<>>
            BY <2>1
        <3> HIDE DEF TypeOK, T, d
        <3>2. Tail(d) \in Seq(T)
            BY <3>1
        <3>3. ASSUME NEW n \in 1..Len(d) PROVE SubSeq(d, n + 1, Len(d)) \in Seq(T)
            <4>1. Len(d) \in Nat /\ \A i \in n + 1..Len(d) : d[i] \in T
                BY <3>1
            <4> QED BY <3>1, <4>1
        <3> QED BY <3>2, <3>3 DEF d, T
    <2>3. down' = down \/ \E d \in Seq({"response", "junk"}) : down' = [down EXCEPT ![c] = d]
        BY <1>5, <2>2 DEF ReadResponse, ReadJunk, ReadBehindJunk
    <2>4. down' \in [Clients -> Seq({"response", "junk"})]
        BY <2>3
    <2>5. nresp' = nresp \/ nresp' = [nresp EXCEPT ![c] = @ + 1]
        BY <1>5 DEF ReadResponse, ReadJunk, ReadBehindJunk
    <2>6. stuck' = stuck \/ stuck' = [stuck EXCEPT ![c] = TRUE]
        BY <1>5 DEF ReadResponse, ReadJunk, ReadBehindJunk
    <2>7. cpc' = [cpc EXCEPT ![c] = "done"] \/ cpc' = [cpc EXCEPT ![c] = "session"]
        BY <1>5 DEF ReadResponse, ReadJunk, ReadBehindJunk, AfterRead
    <2>8. UNCHANGED <<script, nreq, udpVars, simVars, lisVars, devVars, up, broken, rxVars>>
        BY <1>5 DEF ReadResponse, ReadJunk, ReadBehindJunk
    <2>9. nresp' \in [Clients -> Nat]
        <3>1. nresp \in [Clients -> Nat]
            OBVIOUS
        <3> HIDE DEF TypeOK
        <3>2. nresp[c] + 1 \in Nat
            BY <3>1
        <3> QED BY <2>5, <3>1, <3>2
    <2>10. stuck' \in [Clients -> BOOLEAN]
        BY <2>6
    <2>11. cpc' \in [Clients -> {"idle", "asked", "refused", "connecting", "sending",
                                "session", "lost", "aborted", "done", "failed"}]
        BY <2>7
    <2> QED BY <2>4, <2>8, <2>9, <2>10, <2>11
<1>6. CASE ReadHangup(c)
    BY <1>6 DEF ReadHangup
<1>7. CASE Timeout(c)
    BY <1>7 DEF Timeout
<1> QED
    BY <1>1, <1>2, <1>3, <1>4, <1>5, <1>6, <1>7

(* The invariant is the types and what a step may disturb.                 *)
LEMMA SInvMoves == SInv <=> TypeOK /\ Moves
BY DEF SInv, Moves

(* What a client does, but for its packets, moves no byte to the device.   *)
LEMMA ClientSInv ==
    ASSUME SInv, NEW c \in Clients,
           \/ Ask(c) \/ (\E a \in {0, 1} : ReadAnswer(c, a)) \/ OnConnect(c) \/ WriteKills(c)
           \/ ReadResponse(c) \/ ReadJunk(c) \/ ReadBehindJunk(c) \/ ReadHangup(c) \/ Timeout(c)
    PROVE  SInv'
<1>1. TypeOK /\ TypeOK'
    BY ClientTyped DEF SInv
<1>2. UNCHANGED <<script, nreq, up, buffer, ran, conn, closing, served>>
    BY DEF Ask, ReadAnswer, Connect, OnConnect, WriteKills, ReadResponse, ReadJunk,
           ReadBehindJunk, ReadHangup, Timeout, cliVars, devVars, tcpVars, rxVars
<1>3. broken \subseteq broken'
    BY DEF Ask, ReadAnswer, Connect, OnConnect, WriteKills, ReadResponse, ReadJunk,
           ReadBehindJunk, ReadHangup, Timeout, tcpVars
<1>4. \E s \in States : /\ cpc' = [cpc EXCEPT ![c] = s]
                        /\ s \in Before \cup {"connecting"} => cpc[c] \in Before
                        /\ s = "sending" => 0 < Requested(c) /\ cpc[c] = "connecting"
    BY DEF Ask, ReadAnswer, Connect, OnConnect, NowAt, WriteKills, ReadResponse, ReadJunk,
           ReadBehindJunk, ReadHangup, Timeout, AfterRead, States, Before
<1>5. cpc \in [Clients -> States] /\ Lines
    BY <1>1 DEF TypeOK, States, Before, SInv
<1>6. \A x \in Clients : cpc'[x] \in Before \cup {"connecting"} => nreq[x] = 0
    BY <1>4, <1>5 DEF Lines
<1>7. \A x \in Clients : cpc'[x] = "sending" => nreq[x] < Requested(x)
    BY <1>4, <1>5 DEF Lines
<1>8. Moves'
    BY <1>2, <1>3, <1>6, <1>7, StillStep, SInvMoves
<1> QED
    BY <1>1, <1>8, SInvMoves DEF SInv, Moves

(* The packet of a line that is not a sleep.                               *)
LEMMA PacketOfLine ==
    ASSUME NEW c \in Clients, NEW n \in Nat, n < Requested(c), script \in Scripts,
           script[c][n + 1] # "sleep"
    PROVE  PacketOf(c, n + 1) \in Packets /\ PacketOf(c, n + 1).id = <<c, Sent(c, n) + 1>>
<1>1. script[c] \in Seq(Commands)
    BY ScriptsAssumption
<1>2. n + 1 \in 1..Len(script[c])
    BY <1>1 DEF Requested
<1>3. script[c][n + 1] \in Requests
    <2>1. script[c][n + 1] \in Commands
        BY <1>1, <1>2
    <2> QED BY <2>1 DEF Commands
<1>4. Sent(c, n + 1) = Sent(c, n) + 1 /\ Sent(c, n) \in Nat
    BY SentCount
<1>5. CmdSize[script[c][n + 1]] \in PacketSize
    BY <1>3, SizeAssumption
<1> QED
    BY <1>3, <1>4, <1>5 DEF PacketOf, Packets

(* The client writes the packet of the next line behind all it has sent.   *)
LEMMA ProcessLineSInv ==
    ASSUME SInv, NEW c \in Clients, ProcessLine(c)
    PROVE  SInv'
<1> DEFINE n == nreq[c]
           b == Bytes(PacketOf(c, n + 1))
           lost == script[c][n + 1] = "sleep" \/ c \in broken
<1>1. /\ cpc[c] = "sending"
      /\ nreq' = [nreq EXCEPT ![c] = n + 1]
      /\ cpc' = [cpc EXCEPT ![c] = NowAt(c, n + 1)]
      /\ up' = IF lost THEN up ELSE [up EXCEPT ![c] = up[c] \o b]
      /\ UNCHANGED <<script, nresp, stuck, udpVars, simVars, lisVars, devVars, down, broken, rxVars>>
    BY DEF ProcessLine
<1>2. UNCHANGED <<buffer, ran, conn, closing, served>>
    BY <1>1 DEF devVars, rxVars
<1>3. TypeOK /\ Lines /\ Leftover /\ InOrder /\ OwnBytes /\ Waiting /\ Open
    BY DEF SInv
<1>4. /\ script \in Scripts /\ nreq \in [Clients -> Nat] /\ n \in Nat
      /\ up \in [Clients -> Seq(Cell)] /\ buffer \in Seq(Cell)
      /\ ran \in [Clients -> Seq(Clients \X Nat)]
      /\ cpc \in [Clients -> States]
    BY <1>3 DEF TypeOK, States, Before
<1>5. n < Requested(c) /\ Requested(c) \in Nat
    <2>1. script[c] \in Seq(Commands)
        BY <1>4, ScriptsAssumption
    <2> QED BY <1>1, <1>3, <2>1 DEF Lines, Requested
<1>6. ASSUME ~lost
      PROVE  /\ PacketOf(c, n + 1) \in Packets /\ PacketOf(c, n + 1).id = <<c, Sent(c, n) + 1>>
             /\ b \in Seq(Cell) /\ Sent(c, n + 1) = Sent(c, n) + 1 /\ Sent(c, n) \in Nat
    BY <1>4, <1>5, <1>6, PacketOfLine, BytesOf, SentCount
<1> HIDE DEF b, lost
<1>7. up' \in [Clients -> Seq(Cell)] /\ \A x \in Clients : x # c => up'[x] = up[x]
    <2>1. CASE lost
        BY <1>1, <1>4, <2>1
    <2>2. CASE ~lost
        <3>1. up[c] \o b \in Seq(Cell)
            BY <1>4, <1>6, <2>2, Concat
        <3> QED BY <1>1, <1>4, <2>2, <3>1
    <2> QED BY <2>1, <2>2
<1>8. TypeOK'
    <2>1. nreq' \in [Clients -> Nat]
        BY <1>1, <1>4
    <2>2. cpc' \in [Clients -> States]
        BY <1>1, <1>4 DEF NowAt, States
    <2> QED BY <1>1, <1>3, <1>7, <2>1, <2>2
        DEF TypeOK, States, Before, udpVars, simVars, lisVars, devVars, rxVars
<1>9. Lines'
    <2> SUFFICES ASSUME NEW x \in Clients
                 PROVE  /\ nreq'[x] <= Requested(x)
                        /\ cpc'[x] \in Before \cup {"connecting"} => nreq'[x] = 0
                        /\ cpc'[x] = "sending" => nreq'[x] < Requested(x)
        BY <1>1 DEF Lines, Requested
    <2>1. CASE x = c
        <3>1. nreq'[x] = n + 1 /\ cpc'[x] = NowAt(c, n + 1)
            BY <1>1, <1>4, <2>1
        <3> QED BY <1>4, <1>5, <2>1, <3>1 DEF NowAt, Before
    <2>2. CASE x # c
        BY <1>1, <1>3, <1>4, <2>2 DEF Lines
    <2> QED BY <2>1, <2>2
<1>10. Leftover' /\ InOrder'
    BY <1>2, <1>3 DEF Leftover, InOrder
<1>11. OwnBytes'
    <2> SUFFICES ASSUME NEW x \in Clients PROVE Of(x, up'[x])
        BY DEF OwnBytes
    <2>1. CASE x # c \/ lost
        BY <1>1, <1>3, <1>7, <2>1 DEF OwnBytes
    <2>2. CASE x = c /\ ~lost
        <3> DEFINE s == up[c]
                   p == PacketOf(c, n + 1)
                   q == Sent(c, n) + 1
        <3>1. Of(c, s) /\ s \in Seq(Cell)
            BY <1>3, <1>4 DEF OwnBytes
        <3>2. up'[x] = s \o b
            BY <1>1, <1>4, <2>2
        <3>3. p \in Packets /\ p.id = <<c, q>>
            BY <1>6, <2>2
        <3> HIDE DEF s, p, q
        <3>4. /\ b \in Seq(Cell) /\ Len(b) = p.size
              /\ \A i \in 1..p.size : b[i] = [pkt |-> p, pos |-> i]
            BY <3>3, BytesOf DEF b, p
        <3>5. /\ Len(s \o b) = Len(s) + Len(b) /\ Len(s) \in Nat /\ Len(b) \in Nat
              /\ \A i \in 1..Len(s) : (s \o b)[i] = s[i]
              /\ \A i \in 1..Len(b) : (s \o b)[Len(s) + i] = b[i]
            BY <3>1, <3>4, Concat
        <3>6. ASSUME NEW i \in 1..Len(s \o b) PROVE (s \o b)[i].pkt.id[1] = c
            <4>1. CASE i <= Len(s)
                <5>1. i \in 1..Len(s)
                    BY <3>5, <4>1
                <5> QED BY <3>1, <3>5, <5>1 DEF Of
            <4>2. CASE ~(i <= Len(s))
                <5>1. i - Len(s) \in 1..Len(b) /\ Len(s) + (i - Len(s)) = i
                    BY <3>5, <4>2
                <5>2. (s \o b)[Len(s) + (i - Len(s))] = [pkt |-> p, pos |-> i - Len(s)]
                    BY <3>4, <3>5, <5>1
                <5> QED BY <3>3, <5>1, <5>2
            <4> QED BY <4>1, <4>2
        <3> QED BY <2>2, <3>2, <3>6 DEF Of
    <2> QED BY <2>1, <2>2
<1>12. ASSUME NEW t \in Seq(Cell), Unread(c, t \o up[c])
       PROVE  /\ Stream(t \o up'[c], c, Len(ran[c]) + 1)
              /\ c \notin broken => Complete(t \o up'[c], Len(ran[c]) + 1, Sent(c, n + 1))
    <2> DEFINE s == up[c]
               m == Len(ran[c]) + 1
               k == Sent(c, n)
               p == PacketOf(c, n + 1)
    <2>1. s \in Seq(Cell) /\ m \in Nat /\ k \in Nat /\ t \o s \in Seq(Cell)
        <3>1. s \in Seq(Cell) /\ ran[c] \in Seq(Clients \X Nat)
            BY <1>4
        <3>2. k \in Nat
            BY <1>4, SentCount
        <3> QED BY <3>1, <3>2, Concat
    <2>2. Stream(t \o s, c, m) /\ (c \notin broken => Complete(t \o s, m, k))
        BY <1>12 DEF Unread
    <2>3. CASE lost
        <3>1. up'[c] = s
            BY <1>1, <2>3
        <3>2. c \notin broken => Sent(c, n + 1) = k
            BY <1>4, <2>3, SentCount DEF lost
        <3> QED BY <2>2, <3>1, <3>2
    <2>4. CASE ~lost
        <3>1. up'[c] = s \o b /\ c \notin broken
            BY <1>1, <1>4, <2>4 DEF lost
        <3>2. p \in Packets /\ p.id = <<c, k + 1>> /\ b \in Seq(Cell) /\ Sent(c, n + 1) = k + 1
            BY <1>6, <2>4
        <3>3. Complete(t \o s, m, k)
            BY <2>2, <3>1
        <3> HIDE DEF s, m, k, p
        <3>4. Stream((t \o s) \o Bytes(p), c, m) /\ Complete((t \o s) \o Bytes(p), m, k + 1)
            BY <2>1, <2>2, <3>2, <3>3, StreamAppend
        <3>5. (t \o s) \o b = t \o (s \o b)
            BY <2>1, <3>2, CellsAssociative
        <3>6. b = Bytes(p)
            BY DEF b, p
        <3> QED BY <3>1, <3>2, <3>4, <3>5, <3>6 DEF m
    <2> QED BY <2>3, <2>4
<1>13. nreq'[c] = n + 1 /\ \A x \in Clients : x # c => nreq'[x] = nreq[x] /\ up'[x] = up[x]
    BY <1>1, <1>4, <1>7
<1>14. \A x \in Clients : \A s : x # c /\ Unread(x, s) => Unread(x, s)'
    BY <1>1, <1>2, <1>13 DEF Unread, Sent
<1>15. \A t \in Seq(Cell) : Unread(c, t \o up[c]) => Unread(c, t \o up[c])'
    BY <1>1, <1>2, <1>12, <1>13 DEF Unread, Sent
<1>16. Waiting'
    <2> SUFFICES ASSUME NEW x \in Clients, x \notin served
                 PROVE  ran[x] = <<>> /\ Unread(x, up[x])'
        BY <1>2 DEF Waiting
    <2>1. ran[x] = <<>> /\ Unread(x, up[x])
        BY <1>3 DEF Waiting
    <2>2. CASE x = c
        <3>1. <<>> \o up[c] = up[c] /\ <<>> \o up'[c] = up'[c] /\ <<>> \in Seq(Cell)
            BY <1>4, <1>7
        <3>2. Unread(c, <<>> \o up[c])
            BY <2>1, <2>2, <3>1
        <3>3. Unread(c, <<>> \o up[c])'
            BY <1>15, <3>1, <3>2
        <3> QED BY <2>1, <2>2, <3>1, <3>3 DEF Unread
    <2>3. CASE x # c
        BY <1>13, <1>14, <2>1, <2>3
    <2> QED BY <2>2, <2>3
<1>17. Open'
    <2> SUFFICES ASSUME NEW x \in Clients, conn = x, ~closing, ~ForeignTo(x, buffer)
                 PROVE  x \in served /\ Unread(x, buffer \o up[x])'
        <3>1. \A x \in Clients : conn = x => x \in served
            BY <1>3 DEF Open
        <3> QED BY <1>2, <3>1 DEF Open, ForeignTo
    <2>1. x \in served /\ Unread(x, buffer \o up[x])
        BY <1>3 DEF Open
    <2>2. CASE x = c
        <3>1. \A t : t = buffer => (Unread(c, t \o up[c])' => Unread(c, buffer \o up[c])')
            BY <1>2 DEF Unread
        <3> QED BY <1>4, <1>15, <2>1, <2>2, <3>1 DEF Unread
    <2>3. CASE x # c
        BY <1>2, <1>13, <1>14, <2>1, <2>3
    <2> QED BY <2>1, <2>2, <2>3
<1> QED
    BY <1>8, <1>9, <1>10, <1>11, <1>16, <1>17 DEF SInv

(* Steps of the network and of the simulator that move no byte either.     *)
LEMMA QuietSInv ==
    ASSUME SInv,
           \/ \E c \in Clients : AnswerOpen(c) \/ TurnAway(c)
           \/ Start
           \/ UNCHANGED vars
    PROVE  SInv'
<1>1. UNCHANGED <<script, cpc, nreq, nresp, stuck, up, down, buffer, hungup, ran, broken, conn,
                  closing, served, used, asked>>
    BY DEF AnswerOpen, TurnAway, Start, vars, cliVars, udpVars, lisVars, devVars, tcpVars, rxVars
<1>2. TypeOK /\ Moves
    BY SInvMoves
<1>3. /\ answers' \in [Clients -> SUBSET {0, 1}]
      /\ backlog' \in Seq(Clients)
      /\ held' \in Clients \cup {None}
      /\ alive' \in BOOLEAN
      /\ starts' \in 1..MaxStarts
    <2>1. /\ answers \in [Clients -> SUBSET {0, 1}] /\ backlog \in Seq(Clients)
          /\ held \in Clients \cup {None} /\ alive \in BOOLEAN /\ starts \in 1..MaxStarts
        BY <1>2 DEF TypeOK
    <2>2. ASSUME NEW c \in Clients, AnswerOpen(c)
          PROVE  /\ answers' \in [Clients -> SUBSET {0, 1}]
                 /\ UNCHANGED <<backlog, held, alive, starts>>
        BY <2>1, <2>2 DEF AnswerOpen, simVars, lisVars
    <2>3. ASSUME NEW c \in Clients, TurnAway(c)
          PROVE  /\ backlog' \in Seq(Clients) /\ held' = c
                 /\ UNCHANGED <<answers, alive, starts>>
        <3>1. backlog # <<>> /\ backlog' = Tail(backlog)
            BY <2>3 DEF TurnAway, Incoming
        <3>2. backlog' \in Seq(Clients)
            BY <2>1, <3>1
        <3> QED BY <2>3, <3>2 DEF TurnAway, udpVars, simVars
    <2>4. ASSUME Start
          PROVE  /\ alive' = TRUE /\ starts' \in 1..MaxStarts
                 /\ UNCHANGED <<answers, backlog, held>>
        <3>1. starts < MaxStarts /\ starts' = starts + 1
            BY <2>4 DEF Start
        <3>2. starts' \in 1..MaxStarts
            BY <2>1, <3>1, StartsAssumption
        <3> QED BY <2>4, <3>2 DEF Start, udpVars, lisVars
    <2>5. ASSUME UNCHANGED vars PROVE UNCHANGED <<answers, backlog, held, alive, starts>>
        BY <2>5 DEF vars, udpVars, lisVars, simVars
    <2> QED BY <2>1, <2>2, <2>3, <2>4, <2>5
<1>4. TypeOK'
    BY <1>1, <1>2, <1>3 DEF TypeOK
<1>5. Moves'
    <2>1. \A x \in Clients : cpc'[x] \in Before \cup {"connecting"} => nreq[x] = 0
        BY <1>1, <1>2 DEF Moves, Lines
    <2>2. \A x \in Clients : cpc'[x] = "sending" => nreq[x] < Requested(x)
        BY <1>1, <1>2 DEF Moves, Lines
    <2>3. broken \subseteq broken'
        BY <1>1
    <2> QED BY <1>1, <1>2, <2>1, <2>2, <2>3, StillStep
<1> QED
    BY <1>4, <1>5 DEF SInv, Moves

(* A connection that is reset loses the end of the stream, nothing else.   *)
LEMMA ResetSInv ==
    ASSUME SInv, NEW c \in Clients, Reset(c)
    PROVE  SInv'
<1>1. /\ broken' = broken \cup {c}
      /\ down' = down \/ down' = [down EXCEPT ![c] = <<>>]
      /\ UNCHANGED <<script, cliVars, udpVars, simVars, lisVars, devVars, rxVars>>
    BY DEF Reset
<1>2. UNCHANGED <<cpc, nreq, buffer, ran, conn, closing, served>>
    BY <1>1 DEF cliVars, devVars, rxVars
<1>3. /\ TypeOK /\ up \in [Clients -> Seq(Cell)] /\ buffer \in Seq(Cell)
      /\ down \in [Clients -> Seq({"response", "junk"})] /\ broken \subseteq Clients
      /\ ran \in [Clients -> Seq(Clients \X Nat)]
    BY DEF SInv, TypeOK
<1>4. /\ Lines /\ Leftover /\ InOrder /\ OwnBytes /\ Waiting /\ Open
    BY DEF SInv
<1>5. PICK n \in 0..Len(up[c]) : up' = [up EXCEPT ![c] = SubSeq(@, 1, n)]
    <2>1. CASE up' = [up EXCEPT ![c] = <<>>]
        <3>1. up[c] \in Seq(Cell) /\ SubSeq(up[c], 1, 0) = <<>> /\ 0 \in 0..Len(up[c])
            BY <1>3
        <3> QED BY <2>1, <3>1
    <2> QED BY <2>1 DEF Reset
<1> DEFINE s == up[c]
           f == SubSeq(up[c], 1, n)
<1>6. s \in Seq(Cell) /\ n \in 0..Len(s) /\ f = SubSeq(s, 1, n)
    BY <1>3, <1>5
<1>7. up'[c] = f /\ \A x \in Clients : x # c => up'[x] = up[x]
    BY <1>3, <1>5
<1> HIDE DEF s, f
<1>8. f \in Seq(Cell) /\ Len(f) = n /\ \A i \in 1..n : f[i] = s[i]
    BY <1>6
<1>9. up' \in [Clients -> Seq(Cell)]
    BY <1>3, <1>5, <1>8 DEF f
<1>10. TypeOK'
    <2>1. down' \in [Clients -> Seq({"response", "junk"})]
        <3>1. <<>> \in Seq({"response", "junk"})
            OBVIOUS
        <3> QED BY <1>1, <1>3, <3>1
    <2>2. broken' \subseteq Clients
        BY <1>1, <1>3
    <2> QED BY <1>1, <1>3, <1>9, <2>1, <2>2
        DEF TypeOK, cliVars, udpVars, simVars, lisVars, devVars, rxVars
<1>11. Lines' /\ Leftover' /\ InOrder'
    BY <1>1, <1>2, <1>4 DEF Lines, Requested, Leftover, InOrder
<1>12. OwnBytes'
    <2> SUFFICES ASSUME NEW x \in Clients PROVE Of(x, up'[x])
        BY DEF OwnBytes
    <2>1. CASE x = c
        <3>1. Of(c, s)
            BY <1>4 DEF OwnBytes, s
        <3>2. n \in Nat /\ n <= Len(s) /\ Len(s) \in Nat
            BY <1>6
        <3> QED BY <1>7, <1>8, <2>1, <3>1, <3>2 DEF Of
    <2>2. CASE x # c
        BY <1>4, <1>7, <2>2 DEF OwnBytes
    <2> QED BY <2>1, <2>2
<1>13. ASSUME NEW t \in Seq(Cell), NEW x \in Clients, Unread(x, t \o up[x])
       PROVE  Unread(x, t \o up[x])'
    <2>1. CASE x = c
        <3>1. Len(ran[c]) + 1 \in Nat
            BY <1>3
        <3>2. Stream(t \o f, c, Len(ran[c]) + 1)
            BY <1>6, <1>13, <2>1, <3>1, StreamPrefix DEF Unread, s
        <3>3. c \in broken'
            BY <1>1
        <3> QED BY <1>2, <1>7, <2>1, <3>2, <3>3 DEF Unread
    <2>2. CASE x # c
        BY <1>1, <1>2, <1>7, <1>13, <2>2 DEF Unread, Sent
    <2> QED BY <2>1, <2>2
<1>14. Waiting'
    <2> SUFFICES ASSUME NEW x \in Clients, x \notin served
                 PROVE  ran[x] = <<>> /\ Unread(x, up[x])'
        BY <1>2 DEF Waiting
    <2>1. ran[x] = <<>> /\ Unread(x, up[x])
        BY <1>4 DEF Waiting
    <2>2. <<>> \o up[x] = up[x] /\ <<>> \o up'[x] = up'[x] /\ <<>> \in Seq(Cell)
        BY <1>3, <1>9
    <2>3. Unread(x, <<>> \o up[x])'
        BY <1>13, <2>1, <2>2
    <2> QED BY <2>1, <2>2, <2>3 DEF Unread
<1>15. Open'
    <2> SUFFICES ASSUME NEW x \in Clients, conn = x, ~closing, ~ForeignTo(x, buffer)
                 PROVE  x \in served /\ Unread(x, buffer \o up[x])'
        <3>1. \A x \in Clients : conn = x => x \in served
            BY <1>4 DEF Open
        <3> QED BY <1>2, <3>1 DEF Open, ForeignTo
    <2>1. x \in served /\ Unread(x, buffer \o up[x])
        BY <1>4 DEF Open
    <2>2. \A t : t = buffer => (Unread(x, t \o up[x])' => Unread(x, buffer \o up[x])')
        BY <1>2 DEF Unread
    <2> QED BY <1>3, <1>13, <2>1, <2>2
<1> QED
    BY <1>10, <1>11, <1>12, <1>14, <1>15 DEF SInv

(* The client that is accepted has had no session; whatever is in the      *)
(* buffer is another one's.                                                *)
LEMMA AcceptSInv ==
    ASSUME IInv, SInv, NEW c \in Clients, AcceptConnection(c)
    PROVE  SInv'
<1>1. /\ conn' = c /\ served' = served \cup {c} /\ used' = TRUE /\ backlog' = Tail(backlog)
      /\ backlog # <<>>
      /\ UNCHANGED <<script, cliVars, udpVars, simVars, held, closing, tcpVars, rxVars>>
    BY DEF AcceptConnection, Incoming
<1>2. c \notin served
    BY AcceptStep
<1>3. TypeOK /\ Lines /\ Leftover /\ InOrder /\ OwnBytes /\ Waiting /\ Open
    BY DEF SInv
<1>4. backlog \in Seq(Clients) /\ served \subseteq Clients /\ buffer \in Seq(Cell)
      /\ up \in [Clients -> Seq(Cell)]
    BY <1>3 DEF TypeOK
<1>5. TypeOK'
    <2>1. backlog' \in Seq(Clients)
        BY <1>1, <1>4
    <2>2. conn' \in Clients \cup {None} /\ served' \subseteq Clients
        BY <1>1, <1>4
    <2>3. used' \in BOOLEAN
        BY <1>1
    <2> QED BY <1>1, <1>3, <2>1, <2>2, <2>3
        DEF TypeOK, cliVars, udpVars, simVars, tcpVars, rxVars
<1>6. UNCHANGED <<script, cpc, nreq, up, broken, buffer, ran, closing>>
    BY <1>1 DEF cliVars, tcpVars, rxVars
<1>7. Lines' /\ Leftover' /\ InOrder' /\ OwnBytes'
    BY <1>1, <1>3, <1>6 DEF Lines, Requested, Leftover, InOrder, OwnBytes
<1>8. \A x \in Clients : \A s : Unread(x, s) => Unread(x, s)'
    BY <1>6 DEF Unread, Sent
<1>9. Waiting'
    BY <1>1, <1>3, <1>6, <1>8 DEF Waiting
<1>10. Open'
    <2> SUFFICES ASSUME ~ForeignTo(c, buffer)
                 PROVE  Unread(c, buffer \o up[c])'
        BY <1>1, <1>6 DEF Open, ForeignTo
    <2>1. buffer = <<>>
        BY <1>2, <1>3 DEF Leftover, ForeignTo
    <2>2. buffer \o up[c] = up[c]
        BY <1>4, <2>1
    <2>3. Unread(c, up[c])'
        BY <1>2, <1>3, <1>6, <1>8 DEF Waiting, Unread
    <2> QED BY <1>6, <2>2, <2>3 DEF Unread
<1> QED
    BY <1>5, <1>7, <1>9, <1>10 DEF SInv

(* A connection that is being closed, and one that is.                     *)
LEMMA CloseSInv ==
    ASSUME SInv, OnClose \/ \E c \in Clients : ServerEof(c)
    PROVE  SInv'
<1>1. /\ UNCHANGED <<script, cliVars, udpVars, simVars, lisVars, served, tcpVars, buffer, ran>>
      /\ conn' = None \/ (conn' = conn /\ closing' = TRUE)
    BY DEF OnClose, ServerEof, rxVars
<1>2. UNCHANGED <<cpc, nreq, up, broken>>
    BY <1>1 DEF cliVars, tcpVars
<1>3. TypeOK /\ Lines /\ Leftover /\ InOrder /\ OwnBytes /\ Waiting /\ Open
    BY DEF SInv
<1>4. TypeOK'
    <2>1. hungup' \subseteq Clients /\ conn' \in Clients \cup {None}
        BY <1>3 DEF OnClose, ServerEof, rxVars, TypeOK
    <2>2. used' \in BOOLEAN /\ closing' \in BOOLEAN
        BY <1>3 DEF OnClose, ServerEof, TypeOK
    <2> QED BY <1>1, <1>3, <2>1, <2>2
        DEF TypeOK, cliVars, udpVars, simVars, lisVars, tcpVars
<1>5. Lines' /\ Leftover' /\ InOrder' /\ OwnBytes'
    BY <1>1, <1>2, <1>3 DEF Lines, Requested, Leftover, InOrder, OwnBytes
<1>6. \A x \in Clients : \A s : Unread(x, s) => Unread(x, s)'
    BY <1>1, <1>2 DEF Unread, Sent
<1>7. Waiting'
    BY <1>1, <1>2, <1>3, <1>6 DEF Waiting
<1>8. Open'
    BY <1>1, <1>3, ClientsAssumption DEF Open
<1> QED
    BY <1>4, <1>5, <1>7, <1>8 DEF SInv

(* The end of the simulator empties the buffer.                            *)
LEMMA GoneSInv ==
    ASSUME SInv, Gone
    PROVE  SInv'
<1>1. /\ alive' = FALSE /\ backlog' = <<>> /\ held' = None /\ used' = FALSE /\ conn' = None
      /\ closing' = FALSE /\ buffer' = <<>> /\ hungup' = hungup \cup Connected
      /\ UNCHANGED <<script, cliVars, udpVars, starts, served, tcpVars, ran>>
    BY DEF Gone
<1>2. UNCHANGED <<cpc, nreq, up, broken>>
    BY <1>1 DEF cliVars, tcpVars
<1>3. TypeOK /\ Lines /\ Leftover /\ InOrder /\ OwnBytes /\ Waiting /\ Open
    BY DEF SInv
<1>4. Connected \subseteq Clients
    <2>1. backlog \in Seq(Clients) /\ held \in Clients \cup {None} /\ conn \in Clients \cup {None}
        BY <1>3 DEF TypeOK
    <2>2. ToSet(backlog) \subseteq Clients
        BY <2>1 DEF ToSet
    <2> QED BY <2>1, <2>2 DEF Connected
<1>5. TypeOK'
    <2>1. hungup' \subseteq Clients
        BY <1>1, <1>3, <1>4 DEF TypeOK
    <2>2. buffer' \in Seq(Cell) /\ Len(buffer') <= Cap
        <3>1. Len(<<>>) = 0
            OBVIOUS
        <3> QED BY <1>1, <3>1, RoomAssumption
    <2>3. backlog' \in Seq(Clients)
        BY <1>1
    <2> QED BY <1>1, <1>3, <2>1, <2>2, <2>3 DEF TypeOK, cliVars, udpVars, tcpVars
<1>6. Leftover'
    <2>1. ~Accepts(<<>>)
        BY MinLenAssumption DEF Accepts
    <2> QED BY <1>1, <2>1 DEF Leftover
<1>7. Lines' /\ InOrder' /\ OwnBytes'
    BY <1>1, <1>2, <1>3 DEF Lines, Requested, InOrder, OwnBytes
<1>8. \A x \in Clients : \A s : Unread(x, s) => Unread(x, s)'
    BY <1>1, <1>2 DEF Unread, Sent
<1>9. Waiting'
    BY <1>1, <1>2, <1>3, <1>8 DEF Waiting
<1>10. Open'
    BY <1>1, ClientsAssumption DEF Open
<1> QED
    BY <1>5, <1>6, <1>7, <1>9, <1>10 DEF SInv

(* on_tcp_svr_read, by its loop.                                           *)
ReadShape(c, n, before, after) ==
    LET chunk == SubSeq(up[c], 1, n)
        l == CopyLoop[<<buffer, chunk, after>>]
        out == Process(buffer, before).out \o l.out
    IN  /\ <<buffer, chunk, after>> \in Chunks
        /\ l \in Copied
        /\ buffer' = l.buf
        /\ ran' = [ran EXCEPT ![c] = @ \o l.ids]
        /\ down' = IF c \in broken THEN down ELSE [down EXCEPT ![c] = @ \o out]
        /\ closing' = l.stalled
        /\ hungup' = IF l.stalled THEN hungup \cup {c} ELSE hungup
        /\ up' = [up EXCEPT ![c] = SubSeq(@, n + 1, Len(@))]

(* Every step of on_tcp_svr_read has this shape.                           *)
LEMMA ServerReadShape ==
    ASSUME SInv, NEW c \in Clients, ServerRead(c)
    PROVE  \E n \in 1..Len(up[c]), before, after \in BOOLEAN : ReadShape(c, n, before, after)
<1>1. /\ up[c] \in Seq(Cell) /\ buffer \in Seq(Cell) /\ ~Accepts(buffer)
    BY DEF SInv, TypeOK, Leftover
<1>2. PICK n \in 1..Len(up[c]) : \E r \in ReadResults(SubSeq(up[c], 1, n)) :
         /\ buffer' = r.buf
         /\ ran' = [ran EXCEPT ![c] = @ \o r.ids]
         /\ down' = IF c \in broken THEN down ELSE [down EXCEPT ![c] = @ \o r.out]
         /\ closing' = r.stalled
         /\ hungup' = IF r.stalled THEN hungup \cup {c} ELSE hungup
         /\ up' = [up EXCEPT ![c] = SubSeq(@, n + 1, Len(@))]
    BY DEF ServerRead
<1> DEFINE chunk == SubSeq(up[c], 1, n)
<1>3. PICK r \in ReadResults(chunk) :
         /\ buffer' = r.buf
         /\ ran' = [ran EXCEPT ![c] = @ \o r.ids]
         /\ down' = IF c \in broken THEN down ELSE [down EXCEPT ![c] = @ \o r.out]
         /\ closing' = r.stalled
         /\ hungup' = IF r.stalled THEN hungup \cup {c} ELSE hungup
         /\ up' = [up EXCEPT ![c] = SubSeq(@, n + 1, Len(@))]
    BY <1>2
<1>4. chunk \in Seq(Cell)
    BY <1>1
<1> HIDE DEF chunk
<1>5. PICK before \in BOOLEAN, after \in BOOLEAN :
              /\ <<buffer, chunk, after>> \in Chunks
              /\ r \in Copied
              /\ r.buf = CopyLoop[<<buffer, chunk, after>>].buf
              /\ r.ids = CopyLoop[<<buffer, chunk, after>>].ids
              /\ r.stalled = CopyLoop[<<buffer, chunk, after>>].stalled
              /\ r.out = Process(buffer, before).out \o CopyLoop[<<buffer, chunk, after>>].out
    BY <1>1, <1>3, <1>4, ReadCallbackLoop
<1>6. CopyLoop[<<buffer, chunk, after>>] \in Copied
    BY <1>5, CopyLoopDef
<1>7. ReadShape(c, n, before, after)
    BY <1>3, <1>5, <1>6 DEF ReadShape, chunk
<1> QED
    BY <1>7

(* The bytes of a connection, divided at a place.                          *)
LEMMA Divide ==
    ASSUME NEW s \in Seq(Cell), NEW n \in 1..Len(s)
    PROVE  /\ SubSeq(s, 1, n) \in Seq(Cell) /\ SubSeq(s, n + 1, Len(s)) \in Seq(Cell)
           /\ Len(SubSeq(s, 1, n)) = n /\ Len(SubSeq(s, n + 1, Len(s))) = Len(s) - n
           /\ \A i \in 1..n : SubSeq(s, 1, n)[i] = s[i]
           /\ \A i \in 1..Len(s) - n : SubSeq(s, n + 1, Len(s))[i] = s[n + i]
           /\ SubSeq(s, 1, n) \o SubSeq(s, n + 1, Len(s)) = s
<1> DEFINE f == SubSeq(s, 1, n)
           g == SubSeq(s, n + 1, Len(s))
<1>1. Len(s) \in Nat /\ n \in Nat /\ n <= Len(s)
    OBVIOUS
<1>2. f \in Seq(Cell) /\ Len(f) = n /\ \A i \in 1..n : f[i] = s[i]
    OBVIOUS
<1>3. g \in Seq(Cell) /\ Len(g) = Len(s) - n /\ \A i \in 1..Len(s) - n : g[i] = s[n + i]
    OBVIOUS
<1> HIDE DEF f, g
<1>4. /\ f \o g \in Seq(Cell) /\ Len(f \o g) = Len(s)
      /\ \A i \in 1..Len(f) : (f \o g)[i] = f[i]
      /\ \A i \in 1..Len(g) : (f \o g)[Len(f) + i] = g[i]
    <2>1. Len(f \o g) = Len(f) + Len(g)
        BY <1>2, <1>3, Concat
    <2>2. Len(f) + Len(g) = Len(s)
        BY <1>1, <1>2, <1>3
    <2> QED BY <1>2, <1>3, <2>1, <2>2, Concat
<1>5. ASSUME NEW i \in 1..Len(s) PROVE (f \o g)[i] = s[i]
    <2>1. CASE i <= n
        <3>1. i \in 1..Len(f) /\ i \in 1..n
            BY <1>1, <1>2, <2>1
        <3> QED BY <1>2, <1>4, <3>1
    <2>2. CASE ~(i <= n)
        <3>1. i - n \in 1..Len(g) /\ i - n \in 1..Len(s) - n /\ n + (i - n) = i
            BY <1>1, <1>3, <2>2
        <3>2. (f \o g)[n + (i - n)] = g[i - n] /\ g[i - n] = s[n + (i - n)]
            BY <1>2, <1>3, <1>4, <3>1
        <3> QED BY <3>1, <3>2
    <2> QED BY <2>1, <2>2
<1>6. f \o g = s
    BY <1>4, <1>5, SeqEqual
<1> QED
    BY <1>2, <1>3, <1>6 DEF f, g

(* What is executed when something is read is what its client sent next.   *)
LEMMA ServerReadSInv ==
    ASSUME SInv, NEW c \in Clients, ServerRead(c)
    PROVE  /\ SInv' /\ UNCHANGED <<conn, served>> /\ conn = c
           /\ ran' = ran \/ /\ Len(ran'[c]) > Len(ran[c])
                            /\ ran' = [ran EXCEPT ![c] = ran'[c]]
<1>1. PICK n \in 1..Len(up[c]), before \in BOOLEAN, after \in BOOLEAN :
          ReadShape(c, n, before, after)
    BY ServerReadShape
<1>2. /\ conn = c /\ ~closing
      /\ UNCHANGED <<script, cliVars, udpVars, simVars, lisVars, used, conn, served, broken>>
    BY DEF ServerRead
<1>3. /\ TypeOK /\ up[c] \in Seq(Cell) /\ buffer \in Seq(Cell) /\ Len(buffer) <= Cap
      /\ ran \in [Clients -> Seq(Clients \X Nat)] /\ up \in [Clients -> Seq(Cell)]
      /\ down \in [Clients -> Seq({"response", "junk"})] /\ hungup \subseteq Clients
    BY DEF SInv, TypeOK
<1>4. /\ Lines /\ Leftover /\ InOrder /\ OwnBytes /\ Waiting /\ Open
    BY DEF SInv
<1> DEFINE chunk == SubSeq(up[c], 1, n)
           s == SubSeq(up[c], n + 1, Len(up[c]))
           x == <<buffer, chunk, after>>
           l == CopyLoop[x]
           p == Process(buffer, before)
           m == Len(ran[c]) + 1
<1>5. /\ chunk \in Seq(Cell) /\ s \in Seq(Cell) /\ Len(chunk) = n /\ Len(s) = Len(up[c]) - n
      /\ \A i \in 1..n : chunk[i] = up[c][i]
      /\ \A i \in 1..Len(up[c]) - n : s[i] = up[c][n + i]
      /\ chunk \o s = up[c]
    BY <1>3, Divide
<1>6. /\ x \in Chunks /\ l \in Copied
      /\ buffer' = l.buf /\ closing' = l.stalled
      /\ ran' = [ran EXCEPT ![c] = ran[c] \o l.ids]
      /\ down' = IF c \in broken THEN down ELSE [down EXCEPT ![c] = down[c] \o (p.out \o l.out)]
      /\ hungup' = IF l.stalled THEN hungup \cup {c} ELSE hungup
      /\ up' = [up EXCEPT ![c] = s]
    BY <1>1 DEF ReadShape
<1>7. x[1] = buffer /\ x[2] = chunk
    OBVIOUS
<1>8. p \in Drained /\ m \in Nat /\ ran[c] \in Seq(Clients \X Nat) /\ Len(ran[c]) \in Nat
    BY <1>3, ProcessDrain
<1>9. Of(c, up[c]) /\ Of(c, chunk) /\ Of(c, s)
    <2>1. Of(c, up[c]) /\ Len(up[c]) \in Nat /\ n <= Len(up[c]) /\ n \in Nat
        BY <1>3, <1>4 DEF OwnBytes
    <2>2. Of(c, chunk)
        BY <1>5, <2>1 DEF Of
    <2>3. Of(c, s)
        <3> SUFFICES ASSUME NEW i \in 1..Len(s) PROVE s[i].pkt.id[1] = c
            BY DEF Of
        <3>1. i \in 1..Len(up[c]) - n /\ n + i \in 1..Len(up[c])
            BY <1>5, <2>1
        <3> QED BY <1>5, <2>1, <3>1 DEF Of
    <2> QED BY <2>1, <2>2, <2>3
<1> HIDE DEF chunk, s, x, l, p
<1>10. ~Accepts(l.buf) /\ Len(l.buf) <= Cap
    BY <1>3, <1>4, <1>6, <1>7, CopyEnds DEF Leftover, l
<1>11. c \in served
    BY <1>2, <1>4 DEF Open
<1>12. /\ Numbered(l.ids, c, m)
       /\ l.buf # <<>> => l.buf[1].pkt.id[1] \in served
       /\ \/ l.stalled \/ ForeignTo(c, l.buf)
          \/ /\ Stream(l.buf \o s, c, m + Len(l.ids))
             /\ c \notin broken => Complete(l.buf \o s, m + Len(l.ids), Sent(c, nreq[c]))
    <2>1. CASE ForeignTo(c, buffer)
        <3>1. l.ids = <<>> /\ ForeignTo(c, l.buf) /\ l.buf[1] = buffer[1]
            BY <1>4, <1>6, <1>7, <1>9, <2>1, CopyForeign DEF Leftover, l
        <3>2. Numbered(l.ids, c, m)
            BY <3>1 DEF Numbered
        <3> QED BY <1>4, <2>1, <3>1, <3>2 DEF Leftover, ForeignTo
    <2>2. CASE ~ForeignTo(c, buffer)
        <3>1. /\ Stream(buffer \o up[c], c, m)
              /\ c \notin broken => Complete(buffer \o up[c], m, Sent(c, nreq[c]))
            BY <1>2, <1>4, <2>2 DEF Open, Unread
        <3>2. Stream(x[1] \o (x[2] \o s), c, m)
            BY <1>5, <1>7, <3>1
        <3>3. CopiedOf(x, s, c, m, l)
            BY <1>5, <1>6, <1>8, <3>2, CopyStream DEF l
        <3>4. Sent(c, nreq[c]) \in Nat
            <4>1. nreq[c] \in Nat
                BY <1>3 DEF TypeOK
            <4> QED BY <4>1, SentCount
        <3>5. c \notin broken => Complete(x[1] \o (x[2] \o s), m, Sent(c, nreq[c]))
            BY <1>5, <1>7, <3>1
        <3>6. l.buf # <<>> => l.buf[1].pkt.id[1] = c
            <4>1. Of(c, l.buf) /\ l.buf \in Seq(Cell)
                BY <1>6, <3>3 DEF CopiedOf, Copied
            <4>2. l.buf # <<>> => 1 \in 1..Len(l.buf)
                BY <4>1
            <4> QED BY <4>1, <4>2 DEF Of
        <3> QED BY <1>11, <3>3, <3>4, <3>5, <3>6 DEF CopiedOf
    <2> QED BY <2>1, <2>2
<1>13. /\ l.buf \in Seq(Cell) /\ l.ids \in Seq(Clients \X Nat) /\ l.stalled \in BOOLEAN
       /\ l.out \in Seq({"response", "junk"}) /\ p.out \in Seq({"response", "junk"})
       /\ Len(l.ids) \in Nat
    BY <1>6, <1>8 DEF Copied, Drained
<1>14. ran'[c] = ran[c] \o l.ids /\ \A y \in Clients : y # c => ran'[y] = ran[y] /\ up'[y] = up[y]
    BY <1>3, <1>6
<1>15. /\ Numbered(ran'[c], c, 1) /\ Len(ran'[c]) = Len(ran[c]) + Len(l.ids)
       /\ ran'[c] \in Seq(Clients \X Nat)
    <2>1. Numbered(ran[c], c, 1) /\ Numbered(l.ids, c, 1 + Len(ran[c]))
        <3>1. 1 + Len(ran[c]) = m
            BY <1>8
        <3> QED BY <1>4, <1>12, <3>1 DEF InOrder
    <2> DEFINE a == ran[c]
               b == l.ids
    <2>2. a \in Seq(Clients \X Nat) /\ b \in Seq(Clients \X Nat)
        BY <1>8, <1>13
    <2> HIDE DEF m, a, b
    <2>3. /\ Numbered(a \o b, c, 1) /\ Len(a \o b) = Len(a) + Len(b)
          /\ a \o b \in Seq(Clients \X Nat)
        <3>1. Numbered(a, c, 1) /\ Numbered(b, c, 1 + Len(a))
            BY <2>1 DEF a, b
        <3> QED BY <2>2, <3>1, NumberedConcat
    <2>4. ran'[c] = a \o b
        BY <1>14 DEF a, b
    <2> QED BY <2>3, <2>4 DEF a, b
<1>16. TypeOK'
    <2>1. down' \in [Clients -> Seq({"response", "junk"})]
        <3>1. down[c] \o (p.out \o l.out) \in Seq({"response", "junk"})
            BY <1>3, <1>13
        <3> QED BY <1>3, <1>6, <3>1
    <2>2. ran' \in [Clients -> Seq(Clients \X Nat)]
        BY <1>3, <1>6, <1>14, <1>15
    <2>3. up' \in [Clients -> Seq(Cell)] /\ hungup' \subseteq Clients
        BY <1>3, <1>5, <1>6
    <2>4. buffer' \in Seq(Cell) /\ Len(buffer') <= Cap /\ closing' \in BOOLEAN
        BY <1>6, <1>10, <1>13
    <2> QED BY <1>2, <1>3, <2>1, <2>2, <2>3, <2>4
        DEF TypeOK, cliVars, udpVars, simVars, lisVars
<1>17. Lines'
    BY <1>2, <1>4 DEF Lines, Requested, cliVars
<1>18. Leftover'
    BY <1>2, <1>6, <1>10, <1>12 DEF Leftover
<1>19. InOrder'
    BY <1>4, <1>14, <1>15 DEF InOrder
<1>20. OwnBytes'
    BY <1>3, <1>4, <1>6, <1>9, <1>14 DEF OwnBytes
<1>21. UNCHANGED <<script, nreq, broken, conn, served>>
    BY <1>2 DEF cliVars
<1>22. Waiting'
    <2> SUFFICES ASSUME NEW y \in Clients, y \notin served
                 PROVE  ran'[y] = <<>> /\ Unread(y, up[y])'
        BY <1>21 DEF Waiting
    <2>1. y # c
        BY <1>11
    <2>2. ran[y] = <<>> /\ Unread(y, up[y])
        BY <1>4 DEF Waiting
    <2> QED BY <1>14, <1>21, <2>1, <2>2 DEF Unread, Sent
<1>23. Open'
    <2> SUFFICES ASSUME ~l.stalled, ~ForeignTo(c, l.buf)
                 PROVE  Unread(c, buffer \o up[c])'
        BY <1>2, <1>6, <1>11, <1>21 DEF Open, ForeignTo
    <2>1. /\ Stream(l.buf \o s, c, m + Len(l.ids))
          /\ c \notin broken => Complete(l.buf \o s, m + Len(l.ids), Sent(c, nreq[c]))
        BY <1>12
    <2>2. Len(ran'[c]) + 1 = m + Len(l.ids)
        <3>1. \A k, i \in Nat : (k + i) + 1 = (k + 1) + i
            OBVIOUS
        <3> QED BY <1>8, <1>13, <1>15, <3>1
    <2>3. buffer' = l.buf /\ up'[c] = s
        BY <1>3, <1>6
    <2> HIDE DEF m
    <2> QED BY <1>21, <2>1, <2>2, <2>3 DEF Unread, Sent
<1>24. SInv'
    BY <1>16, <1>17, <1>18, <1>19, <1>20, <1>22, <1>23 DEF SInv
<1>25. ran' = ran \/ (Len(ran'[c]) > Len(ran[c]) /\ ran' = [ran EXCEPT ![c] = ran'[c]])
    <2>1. CASE Len(l.ids) = 0
        <3>1. l.ids = <<>>
            BY <1>13, <2>1
        <3>2. ran[c] \o <<>> = ran[c]
            BY <1>8
        <3> QED BY <1>3, <1>6, <3>1, <3>2
    <2>2. CASE Len(l.ids) # 0
        <3>1. \A k, i \in Nat : i # 0 => k + i > k
            OBVIOUS
        <3>2. Len(ran'[c]) > Len(ran[c])
            BY <1>8, <1>13, <1>15, <2>2, <3>1
        <3> QED BY <1>6, <1>14, <3>2
    <2> QED BY <2>1, <2>2
<1> QED
    BY <1>2, <1>21, <1>24, <1>25

(* Every step preserves the invariant, and is a step of ExclusiveDevice or *)
(* leaves the device alone.                                                *)
LEMMA StepSInv ==
    ASSUME IInv, SInv, [Next]_vars
    PROVE  SInv' /\ [Device!DeviceNext]_<<conn, served, ran>>
<1> USE DEF Device!DeviceNext
<1>1. ASSUME NEW c \in Clients, Client(c) \/ Timeout(c) \/ Reset(c)
      PROVE  SInv' /\ UNCHANGED <<conn, served, ran>>
    <2>1. SInv'
        BY <1>1, ClientSInv, ProcessLineSInv, ResetSInv DEF Client
    <2>2. UNCHANGED <<conn, served, ran>>
        BY <1>1 DEF Client, Ask, ReadAnswer, OnConnect, ProcessLine, WriteKills, ReadResponse,
               ReadJunk, ReadBehindJunk, ReadHangup, Timeout, Reset, devVars, rxVars
    <2> QED BY <2>1, <2>2
<1>2. ASSUME (\E c \in Clients : AnswerOpen(c) \/ TurnAway(c)) \/ Start \/ UNCHANGED vars
      PROVE  SInv' /\ UNCHANGED <<conn, served, ran>>
    <2>1. SInv'
        BY <1>2, QuietSInv
    <2>2. UNCHANGED <<conn, served, ran>>
        BY <1>2 DEF AnswerOpen, TurnAway, Start, vars, devVars, rxVars
    <2> QED BY <2>1, <2>2
<1>3. ASSUME NEW c \in Clients, AcceptConnection(c)
      PROVE  SInv' /\ Device!Acquire(c)
    <2>1. SInv'
        BY <1>3, AcceptSInv
    <2>2. conn = None /\ c \notin served /\ conn' = c /\ served' = served \cup {c}
        BY <1>3, AcceptStep
    <2>3. ran' = ran
        BY <1>3 DEF AcceptConnection, rxVars
    <2> QED BY <2>1, <2>2, <2>3 DEF Device!Acquire
<1>4. ASSUME NEW c \in Clients, ServerRead(c)
      PROVE  SInv' /\ (UNCHANGED <<conn, served, ran>> \/ Device!Execute(c))
    <2>1. /\ SInv' /\ UNCHANGED <<conn, served>> /\ conn = c
          /\ ran' = ran \/ (Len(ran'[c]) > Len(ran[c]) /\ ran' = [ran EXCEPT ![c] = ran'[c]])
        BY <1>4, ServerReadSInv
    <2>2. ran'[c] = [n \in 1..Len(ran'[c]) |-> <<c, n>>]
        <3>1. ran'[c] \in Seq(Clients \X Nat) /\ Numbered(ran'[c], c, 1)
            BY <2>1 DEF SInv, TypeOK, InOrder
        <3> DEFINE a == ran'[c]
        <3>2. a = [n \in 1..Len(a) |-> a[n]]
            BY <3>1
        <3>3. \A n \in 1..Len(a) : a[n] = <<c, n>>
            <4>1. \A n \in 1..Len(a) : a[n] = <<c, 1 + n - 1>> /\ 1 + n - 1 = n
                BY <3>1 DEF Numbered
            <4> QED BY <4>1
        <3> HIDE DEF a
        <3>4. a = [n \in 1..Len(a) |-> <<c, n>>]
            BY <3>2, <3>3
        <3> QED BY <3>4 DEF a
    <2> QED BY <2>1, <2>2 DEF Device!Execute
<1>5. ASSUME OnClose \/ (\E c \in Clients : ServerEof(c)) \/ Gone
      PROVE  SInv' /\ UNCHANGED <<served, ran>> /\ (conn' = conn \/ conn' = None)
    <2>1. SInv'
        BY <1>5, CloseSInv, GoneSInv
    <2>2. UNCHANGED <<served, ran>> /\ (conn' = conn \/ conn' = None)
        BY <1>5 DEF OnClose, ServerEof, Gone, rxVars
    <2> QED BY <2>1, <2>2
<1>6. ASSUME UNCHANGED <<served, ran>>, conn' = conn \/ conn' = None
      PROVE  [Device!DeviceNext]_<<conn, served, ran>>
    <2>1. conn \in Clients \cup {None}
        BY DEF SInv, TypeOK
    <2>2. conn' = conn \/ \E c \in Clients : Device!Release(c)
        BY <1>6, <2>1 DEF Device!Release
    <2> QED BY <1>6, <2>2
<1>7. CASE Stop \/ \E c \in Clients : WriteKillsSimulator(c)
    <2>1. Gone
        BY <1>7 DEF Stop, WriteKillsSimulator
    <2> QED BY <1>5, <1>6, <2>1
<1> QED
    BY <1>1, <1>2, <1>3, <1>4, <1>5, <1>6, <1>7 DEF Next, Simulator

(* Together with the invariant of the connections it is inductive.         *)
THEOREM InductiveBytes == Spec => [](IInv /\ SInv)
<1>1. Init => IInv /\ SInv
    BY InitIInv, InitSInv
<1>2. IInv /\ SInv /\ [Next]_vars => (IInv /\ SInv)'
    BY StepIInv, StepSInv
<1> QED
    BY <1>1, <1>2, PTL DEF Spec

(* Every variable keeps its domain, and the buffer all connections share   *)
(* never holds more than its size, whatever arrives in whatever pieces.    *)
THEOREM TypeCorrect == Spec => []TypeOK
<1>1. SInv => TypeOK
    BY DEF SInv
<1> QED
    BY <1>1, InductiveBytes, PTL

(* The simulator implements the device that serves one client at a time,   *)
(* each once, and executes in a session the commands of its client only,   *)
(* in the order of its script and each once: whatever an earlier client    *)
(* left in the shared buffer, however the bytes are divided, and whatever  *)
(* ends the simulator in between.                                          *)
THEOREM ImplementsExclusiveDevice == Spec => ServesExclusively
<1>1. Init => Device!DeviceInit
    BY DEF Init, Device!DeviceInit
<1>2. IInv /\ SInv /\ [Next]_vars => [Device!DeviceNext]_<<conn, served, ran>>
    BY StepSInv
<1> QED
    BY <1>1, <1>2, InductiveBytes, PTL
    DEF Spec, ServesExclusively, Device!DeviceSpec, Device!deviceVars

-----------------------------------------------------------------------------
(* The part of a stream that is in the buffer.                             *)
LEMMA StreamLeft ==
    ASSUME NEW b \in Seq(Cell), NEW s \in Seq(Cell), NEW c, NEW m \in Nat, Stream(b \o s, c, m)
    PROVE  Stream(b, c, m)
<1>1. 0 \in 0..Len(s) /\ SubSeq(s, 1, 0) = <<>> /\ b \o <<>> = b
    OBVIOUS
<1>2. Stream(b \o SubSeq(s, 1, 0), c, m)
    BY <1>1, StreamPrefix
<1> QED
    BY <1>1, <1>2

(* A stream starts with bytes of one packet, as many as it has or are      *)
(* there.                                                                  *)
LEMMA StreamHead ==
    ASSUME NEW s \in Seq(Cell), NEW c, NEW m \in Nat, Stream(s, c, m),
           NEW i \in 1..Len(s), i <= s[1].pkt.size
    PROVE  s[i] = [pkt |-> s[1].pkt, pos |-> i]
<1> DEFINE p == s[1].pkt
           S == {n \in Nat : n + 1 \in 1..Len(s) /\ n + 1 <= p.size =>
                                s[n + 1] = [pkt |-> p, pos |-> n + 1]}
<1>1. Len(s) \in Nat /\ (s = <<>> <=> Len(s) = 0)
    BY EmptyLen
<1>2. p.size \in Nat
    <2>1. 1 \in 1..Len(s)
        BY <1>1
    <2>2. s[1] \in Cell
        BY <2>1
    <2> QED BY <2>2 DEF Cell, PacketSize
<1>3. \A j \in 1..Len(s) : s[j] = [pkt |-> s[j].pkt, pos |-> s[j].pos]
    <2> TAKE j \in 1..Len(s)
    <2>1. s[j] \in Cell
        OBVIOUS
    <2> QED BY <2>1 DEF Cell
<1> HIDE DEF p
<1>4. 0 \in S
    <2>1. 1 \in 1..Len(s) => s[1] = [pkt |-> p, pos |-> 1]
        BY <1>1, <1>3 DEF Stream, p
    <2> QED BY <2>1
<1>5. ASSUME NEW n \in S PROVE n + 1 \in S
    <2> SUFFICES ASSUME (n + 1) + 1 \in 1..Len(s), (n + 1) + 1 <= p.size
                 PROVE  s[(n + 1) + 1] = [pkt |-> p, pos |-> (n + 1) + 1]
        OBVIOUS
    <2>1. n \in Nat /\ n + 1 \in 1..Len(s) - 1 /\ n + 1 \in 1..Len(s) /\ n + 1 <= p.size
          /\ n + 1 < p.size
        BY <1>1, <1>2
    <2> DEFINE a == s[n + 1]
               b == s[(n + 1) + 1]
    <2>2. Follows(a, b) /\ a = [pkt |-> p, pos |-> n + 1]
        BY <2>1 DEF Stream
    <2>3. b = [pkt |-> b.pkt, pos |-> b.pos]
        BY <1>3
    <2> HIDE DEF a, b, S
    <2>4. a.pkt = p /\ a.pos = n + 1 /\ a.pos # p.size
        BY <1>2, <2>1, <2>2
    <2>5. b.pkt = p /\ b.pos = (n + 1) + 1
        BY <2>2, <2>4 DEF Follows
    <2> QED BY <2>3, <2>5 DEF b
<1>6. S = Nat
    <2>1. S \in SUBSET Nat
        OBVIOUS
    <2> HIDE DEF S
    <2> QED BY <1>4, <1>5, <2>1, SetInduction
<1>7. i - 1 \in Nat /\ (i - 1) + 1 = i
    BY <1>1
<1>8. i - 1 \in S
    BY <1>6, <1>7
<1> QED
    BY <1>7, <1>8 DEF p

(* At the head of a stream nothing is refused, and a packet that is there  *)
(* completely is taken.                                                    *)
LEMMA StreamClean ==
    ASSUME NEW s \in Seq(Cell), NEW c, NEW m \in Nat, Stream(s, c, m), ~Accepts(s)
    PROVE  /\ \A x : ~Refuses(s, x)
           /\ s # <<>> => s[1] \in Cell /\ Len(s) < s[1].pkt.size
<1>1. Len(s) \in Nat /\ (s = <<>> <=> Len(s) = 0)
    BY EmptyLen
<1> DEFINE q == s[1].pkt.size
<1>2. CASE s = <<>>
    <2>1. ~(Len(s) >= MinLen)
        BY <1>1, <1>2, MinLenAssumption
    <2> QED BY <1>2, <2>1 DEF Refuses
<1>3. CASE s # <<>>
    <2>1. 1 \in 1..Len(s) /\ s[1] \in Cell
        BY <1>1, <1>3
    <2>2. q \in Nat /\ q >= MinLen /\ s[1].pkt.kind = "ok" /\ Claimed(s) = q
        BY <2>1 DEF Cell, PacketSize, Claimed
    <2>3. \A i \in 1..Len(s) : i <= q => s[i] = [pkt |-> s[1].pkt, pos |-> i]
        BY StreamHead
    <2> HIDE DEF q
    <2>4. Len(s) >= MinLen => HeaderWhole(s)
        BY <1>1, <2>2, <2>3, MinLenAssumption DEF HeaderWhole, Whole
    <2>5. Len(s) >= q => Intact(s) /\ Len(s) >= MinLen
        BY <1>1, <2>2, <2>3, MinLenAssumption DEF Intact, Whole
    <2>6. Len(s) < q
        <3>1. ~(Len(s) >= q)
            BY <2>2, <2>4, <2>5 DEF Accepts
        <3> QED BY <1>1, <2>2, <3>1
    <2>7. \A x : ~Refuses(s, x)
        BY <2>2, <2>4, <2>5 DEF Refuses
    <2> QED BY <2>1, <2>6, <2>7 DEF q
<1> QED
    BY <1>2, <1>3

(* What a stream has got to: its last packet is not before its first.      *)
LEMMA StreamReach ==
    ASSUME NEW s \in Seq(Cell), NEW c, NEW m \in Nat, NEW k \in Nat,
           Stream(s, c, m), Complete(s, m, k)
    PROVE  m <= k + 1 /\ (m = k + 1 => s = <<>>)
<1>1. Len(s) \in Nat /\ (s = <<>> <=> Len(s) = 0)
    BY EmptyLen
<1>2. CASE s = <<>>
    BY <1>2 DEF Complete
<1>3. CASE s # <<>>
    <2>1. Len(s) \in 1..Len(s)
        BY <1>1, <1>3
    <2>2. s[Len(s)].pkt.id[2] >= m /\ s[Len(s)].pkt.id[2] = k
        BY <1>3, <2>1, StreamOwn DEF Complete
    <2> QED BY <2>2
<1> QED
    BY <1>2, <1>3

(* The bytes of packets that fit into the buffer.                          *)
Fit(s) == \A i \in 1..Len(s) : s[i].pkt.size <= Cap

(* Put together they are such bytes. *)
LEMMA FitConcat ==
    ASSUME NEW a \in Seq(Cell), NEW b \in Seq(Cell), Fit(a), Fit(b)
    PROVE  Fit(a \o b)
<1>1. /\ Len(a \o b) = Len(a) + Len(b) /\ Len(a) \in Nat /\ Len(b) \in Nat
      /\ \A i \in 1..Len(a) : (a \o b)[i] = a[i]
      /\ \A i \in 1..Len(b) : (a \o b)[Len(a) + i] = b[i]
    BY Concat
<1>2. ASSUME NEW i \in 1..Len(a \o b) PROVE (a \o b)[i].pkt.size <= Cap
    <2>1. CASE i <= Len(a)
        <3>1. i \in 1..Len(a)
            BY <1>1, <2>1
        <3> QED BY <1>1, <3>1 DEF Fit
    <2>2. CASE ~(i <= Len(a))
        <3>1. i - Len(a) \in 1..Len(b) /\ Len(a) + (i - Len(a)) = i
            BY <1>1, <2>2
        <3>2. (a \o b)[Len(a) + (i - Len(a))] = b[i - Len(a)]
            BY <1>1, <3>1
        <3> QED BY <3>1, <3>2 DEF Fit
    <2> QED BY <2>1, <2>2
<1> QED
    BY <1>2 DEF Fit

(* When only one client's packets are in the buffer and in the new data,   *)
(* and each of them fits, all of the data is copied, nothing is refused,   *)
(* and one response is written for each command executed.                  *)
LEMMA CopyTight ==
    ASSUME NEW c \in Clients, NEW x \in Chunks, NEW m \in Nat,
           ~Accepts(x[1]), Len(x[1]) <= Cap, Fit(x[1]), Fit(x[2]),
           Stream(x[1] \o x[2], c, m)
    PROVE  /\ ~CopyLoop[x].stalled /\ Fit(CopyLoop[x].buf)
           /\ Len(CopyLoop[x].out) = Len(CopyLoop[x].ids)
<1> DEFINE Tight(y) == /\ ~CopyLoop[y].stalled /\ Fit(CopyLoop[y].buf)
                       /\ Len(CopyLoop[y].out) = Len(CopyLoop[y].ids)
           Given(y) == /\ ~Accepts(y[1]) /\ Len(y[1]) <= Cap /\ Fit(y[1]) /\ Fit(y[2])
                       /\ \E k \in Nat : Stream(y[1] \o y[2], c, k)
           P == {y \in Chunks : Given(y) => Tight(y)}
<1>1. ASSUME NEW y \in Chunks, ~(Room(y) > 0) PROVE y \in P
    <2> SUFFICES ASSUME Given(y) PROVE Tight(y)
        OBVIOUS
    <2>1. y[1] \in Seq(Cell) /\ y[2] \in Seq(Cell) /\ Len(y[1]) \in Nat /\ Len(y[2]) \in Nat
        BY DEF Chunks
    <2>2. /\ CopyLoop[y].buf = y[1] /\ CopyLoop[y].ids = <<>> /\ CopyLoop[y].out = <<>>
          /\ CopyLoop[y].stalled = (y[2] # <<>>)
        BY <1>1, CopyLoopStops
    <2>3. ASSUME y[2] # <<>> PROVE FALSE
        <3>1. Len(y[2]) > 0
            BY <2>1, <2>3, EmptyLen
        <3>2. Room(y) = IF Len(y[2]) + Len(y[1]) > Cap THEN Cap - Len(y[1]) ELSE Len(y[2])
            BY DEF Room, CopySize
        <3>3. \A k, l, n \in Nat :
                  l > 0 /\ k <= n /\ ~((IF l + k > n THEN n - k ELSE l) > 0) => k >= n
            OBVIOUS
        <3>4. Len(y[1]) >= Cap
            BY <1>1, <2>1, <3>1, <3>2, <3>3, RoomAssumption
        <3>5. PICK k \in Nat : Stream(y[1] \o y[2], c, k)
            OBVIOUS
        <3>6. Stream(y[1], c, k)
            BY <2>1, <3>5, StreamLeft
        <3>7. Len(y[1]) > 0 /\ 1 \in 1..Len(y[1])
            BY <2>1, <3>4, RoomAssumption, MinLenAssumption
        <3>8. y[1] # <<>>
            BY <2>1, <3>7, EmptyLen
        <3>9. y[1][1] \in Cell /\ Len(y[1]) < y[1][1].pkt.size
            BY <2>1, <3>6, <3>8, StreamClean
        <3>10. y[1][1].pkt.size <= Cap
            BY <3>7 DEF Fit
        <3>11. y[1][1].pkt.size \in Nat
            BY <3>9 DEF Cell, PacketSize
        <3>12. \A k1, l, n \in Nat : l >= n /\ l < k1 /\ k1 <= n => FALSE
            OBVIOUS
        <3> QED BY <2>1, <3>4, <3>9, <3>10, <3>11, <3>12, RoomAssumption
    <2> QED BY <2>2, <2>3
<1>2. ASSUME NEW y \in Chunks, Room(y) > 0, NextPass(y) \in P PROVE y \in P
    <2> SUFFICES ASSUME Given(y) PROVE Tight(y)
        OBVIOUS
    <2> DEFINE a == y[1]
               d == y[2]
               n == Room(y)
               f == Filled(y)
               z == NextPass(y)
               p == Pass(y)
               r == CopyLoop[z]
    <2>1. /\ a \in Seq(Cell) /\ d \in Seq(Cell) /\ y[3] \in BOOLEAN
          /\ Len(a) \in Nat /\ Len(d) \in Nat
        BY DEF Chunks
    <2>2. /\ n \in Nat /\ n <= Len(d) /\ f \in Seq(Cell) /\ z \in Chunks /\ p \in Drained
          /\ SubSeq(d, 1, n) \in Seq(Cell) /\ Len(SubSeq(d, 1, n)) = n
          /\ \A i \in 1..n : SubSeq(d, 1, n)[i] = d[i]
          /\ Len(z[2]) = Len(d) - n
          /\ \A i \in 1..Len(d) - n : z[2][i] = d[n + i]
          /\ z[1] \in Seq(Cell) /\ z[2] \in Seq(Cell)
        BY <1>2, PassProperties DEF Chunks
    <2>3. ~Accepts(z[1]) /\ Within(z[1], f) /\ z[1] = Drain[f].buf
        BY <1>2, PassEnds
    <2>4. Len(z[1]) <= Cap
        BY <1>2, PassEnds
    <2>5. Fit(f) /\ Fit(z[2])
        <3> DEFINE g == SubSeq(d, 1, n)
                   e == z[2]
        <3>1. g \in Seq(Cell) /\ Len(g) = n /\ (\A i \in 1..n : g[i] = d[i]) /\ f = a \o g
            BY <2>2 DEF Filled
        <3>2. Len(e) = Len(d) - n /\ \A i \in 1..Len(d) - n : e[i] = d[n + i]
            BY <2>2
        <3>3. n \in Nat /\ n <= Len(d) /\ Len(d) \in Nat /\ Fit(d) /\ Fit(a) /\ a \in Seq(Cell)
            BY <2>1, <2>2
        <3> HIDE DEF g, e, f, n, a, d
        <3>4. Fit(g)
            <4>1. \A i \in 1..n : i \in 1..Len(d)
                BY <3>3
            <4> QED BY <3>1, <3>3, <4>1 DEF Fit
        <3>5. \A i \in 1..Len(e) : i \in 1..Len(d) - n /\ n + i \in 1..Len(d)
            BY <3>2, <3>3
        <3>6. Fit(e)
            BY <3>2, <3>3, <3>5 DEF Fit
        <3> QED BY <3>1, <3>3, <3>4, <3>6, FitConcat DEF e
    <2>6. Fit(z[1])
        BY <2>3, <2>5 DEF Fit, Within
    <2>7. PICK k \in Nat : Stream(a \o d, c, k)
        OBVIOUS
    <2>8. a \o d = f \o z[2]
        <3>1. a \o (d \o <<>>) = f \o (z[2] \o <<>>)
            <4>1. <<>> \in Seq(Cell)
                OBVIOUS
            <4>2. y[1] \o (y[2] \o <<>>) = Filled(y) \o (NextPass(y)[2] \o <<>>)
                BY <1>2, <4>1, PassDivides
            <4> QED BY <4>2
        <3>2. d \o <<>> = d /\ z[2] \o <<>> = z[2]
            BY <2>1, <2>2
        <3> QED BY <3>1, <3>2
    <2>9. \E l \in Nat : Stream(z[1] \o z[2], c, l)
        <3>1. Stream(f \o z[2], c, k)
            BY <2>7, <2>8
        <3>2. DrainedOf(f, z[2], c, k, Drain[f])
            BY <2>2, <3>1, DrainStream
        <3>3. Len(Drain[f].ids) \in Nat
            <4>1. Drain[f] \in Drained
                BY <2>2, DrainDef
            <4> QED BY <4>1 DEF Drained
        <3>4. Stream(z[1] \o z[2], c, k + Len(Drain[f].ids)) /\ k + Len(Drain[f].ids) \in Nat
            BY <2>3, <3>2, <3>3 DEF DrainedOf
        <3> QED BY <3>4
    <2>10. Tight(z)
        BY <1>2, <2>3, <2>4, <2>5, <2>6, <2>9
    <2>11. p.ids = Drain[f].ids /\ p.out = Drain[f].out
        <3>1. PICK l \in Nat : Stream(z[1] \o z[2], c, l)
            BY <2>9
        <3>2. Stream(z[1], c, l)
            BY <2>2, <3>1, StreamLeft
        <3>3. ~Refuses(Drain[f].buf, y[3])
            BY <2>2, <2>3, <3>2, StreamClean
        <3> QED BY <2>1, <2>2, <3>3, ProcessDrain DEF Pass
    <2>12. Len(p.out) = Len(p.ids)
        BY <2>2, <2>11, DrainEnds
    <2>13. /\ r \in Copied /\ CopyLoop[y].buf = r.buf /\ CopyLoop[y].stalled = r.stalled
           /\ CopyLoop[y].ids = p.ids \o r.ids /\ CopyLoop[y].out = p.out \o r.out
        BY <1>2, CopyLoopGoesOn
    <2>14. Len(r.out) = Len(r.ids)
        BY <2>10
    <2>15. Len(p.out \o r.out) = Len(p.ids \o r.ids)
        <3> HIDE DEF p, r
        <3>1. /\ p.out \in Seq({"response", "junk"}) /\ r.out \in Seq({"response", "junk"})
              /\ p.ids \in Seq(Clients \X Nat) /\ r.ids \in Seq(Clients \X Nat)
            BY <2>2, <2>13 DEF Drained, Copied
        <3>2. Len(p.out \o r.out) = Len(p.out) + Len(r.out)
            BY <3>1
        <3>3. Len(p.ids \o r.ids) = Len(p.ids) + Len(r.ids)
            BY <3>1
        <3> QED BY <2>12, <2>14, <3>2, <3>3
    <2> QED BY <2>10, <2>13, <2>15
<1>3. \A y \in Chunks : y \in P
    <2> HIDE DEF P
    <2> QED BY <1>1, <1>2, CopyInduction
<1> QED
    BY <1>3

-----------------------------------------------------------------------------
(***************************************************************************)
(* The strengthening for the responses, when every packet fits into the    *)
(* buffer and no client has a timeout.  Nobody then leaves a part of a     *)
(* packet behind: a client closes its end only after it has counted as     *)
(* many responses as it has lines, or after the simulator has closed its.  *)
(***************************************************************************)
Fits == Fit(buffer) /\ \A c \in Clients : Fit(up[c])

Cleared == (conn = None \/ closing => buffer = <<>>) /\ (closing => conn # None)

Attached == \A c \in Clients : conn = c /\ ~closing => c \notin hungup /\ ~ForeignTo(c, buffer)

NotHungup == \A c \in Clients :
    /\ Queued(c) \/ cpc[c] \in Before => c \notin hungup
    /\ held = c => cpc[c] \notin Before

Progress == \A c \in Clients :
    /\ Len(ran[c]) <= Sent(c, nreq[c])
    /\ cpc[c] = "session" => nreq[c] = Requested(c)
    /\ cpc[c] = "done" => nreq[c] = Requested(c) /\ nreq[c] <= nresp[c]
    /\ cpc[c] # "failed"
    /\ cpc[c] \in {"lost", "aborted"} => c \in hungup

TInv ==
    /\ Fits /\ Cleared /\ Attached /\ NotHungup /\ Progress
    /\ broken \subseteq hungup
    /\ OneResponsePerCommand

(* No client has a timeout, and every packet of a script fits the buffer:  *)
(* a client that stops early, or a packet that does not fit, leaves a part *)
(* of a packet behind.                                                     *)
Fitting ==
    /\ ~MayTimeout
    /\ \A files \in Scripts, c \in Clients : \A i \in 1..Len(files[c]) :
           files[c][i] # "sleep" => CmdSize[files[c][i]] <= Cap

(* The types the steps below need.                                         *)
LEMMA Types ==
    ASSUME SInv, NEW c \in Clients
    PROVE  /\ up[c] \in Seq(Cell) /\ buffer \in Seq(Cell) /\ Len(buffer) <= Cap
           /\ nreq[c] \in Nat /\ nresp[c] \in Nat
           /\ ran[c] \in Seq(Clients \X Nat) /\ Len(ran[c]) \in Nat
           /\ down[c] \in Seq({"response", "junk"}) /\ Len(down[c]) \in Nat
           /\ script[c] \in Seq(Commands) /\ Requested(c) \in Nat
           /\ cpc[c] \in States
           /\ Sent(c, nreq[c]) \in Nat /\ Sent(c, nreq[c]) <= nreq[c]
<1>1. /\ up[c] \in Seq(Cell) /\ buffer \in Seq(Cell) /\ Len(buffer) <= Cap
      /\ nreq[c] \in Nat /\ nresp[c] \in Nat
      /\ ran[c] \in Seq(Clients \X Nat) /\ down[c] \in Seq({"response", "junk"})
      /\ script \in Scripts /\ cpc[c] \in States
    BY DEF SInv, TypeOK, States, Before
<1>2. script[c] \in Seq(Commands)
    BY <1>1, ScriptsAssumption
<1>3. Len(ran[c]) \in Nat /\ Len(down[c]) \in Nat /\ Len(script[c]) \in Nat
    BY <1>1, <1>2
<1>4. Sent(c, nreq[c]) \in Nat /\ Sent(c, nreq[c]) <= nreq[c]
    BY <1>1, SentCount
<1> QED
    BY <1>1, <1>2, <1>3, <1>4 DEF Requested

(* Nobody has connected yet.                                               *)
LEMMA InitTInv == Init => TInv
<1> SUFFICES ASSUME Init PROVE TInv
    OBVIOUS
<1>1. SInv
    BY InitSInv
<1>2. /\ \A c \in Clients : /\ cpc[c] = "idle" /\ nreq[c] = 0 /\ nresp[c] = 0
                            /\ down[c] = <<>> /\ up[c] = <<>> /\ ran[c] = <<>>
      /\ buffer = <<>> /\ backlog = <<>> /\ held = None /\ conn = None /\ closing = FALSE
      /\ broken = {} /\ hungup = {}
    BY DEF Init
<1>3. Fits
    BY <1>2 DEF Fits, Fit
<1>4. Cleared /\ Attached
    BY <1>2, ClientsAssumption DEF Cleared, Attached
<1>5. NotHungup
    BY <1>2, ClientsAssumption DEF NotHungup
<1>6. Progress
    <2> SUFFICES ASSUME NEW c \in Clients
                 PROVE  Len(ran[c]) <= Sent(c, nreq[c])
        BY <1>2 DEF Progress
    <2>1. Len(ran[c]) = 0 /\ Sent(c, nreq[c]) \in Nat
        BY <1>1, <1>2, Types
    <2> QED BY <2>1
<1>7. OneResponsePerCommand
    BY <1>2 DEF OneResponsePerCommand
<1> QED
    BY <1>2, <1>3, <1>4, <1>5, <1>6, <1>7 DEF TInv

(* A client that is done has had its responses, and no more are coming.    *)
LEMMA DoneQuiet ==
    ASSUME SInv, TInv, NEW c \in Clients, cpc[c] = "done"
    PROVE  down[c] = <<>> /\ Len(ran[c]) = Sent(c, nreq[c]) /\ nreq[c] = Requested(c)
<1>1. /\ nreq[c] = Requested(c) /\ nreq[c] <= nresp[c] /\ Len(ran[c]) <= Sent(c, nreq[c])
      /\ nresp[c] + Len(down[c]) <= Len(ran[c])
    BY DEF TInv, Progress, OneResponsePerCommand
<1>2. /\ nreq[c] \in Nat /\ nresp[c] \in Nat /\ Len(down[c]) \in Nat /\ Len(ran[c]) \in Nat
      /\ Sent(c, nreq[c]) \in Nat /\ Sent(c, nreq[c]) <= nreq[c]
      /\ down[c] \in Seq({"response", "junk"})
    BY Types
<1>3. Len(down[c]) = 0 /\ Len(ran[c]) = Sent(c, nreq[c])
    BY <1>1, <1>2
<1>4. down[c] = <<>>
    BY <1>2, <1>3
<1> QED
    BY <1>1, <1>3, <1>4

(* While a connection is open nothing of what its client sends is lost.    *)
LEMMA OpenWhole ==
    ASSUME SInv, TInv, NEW c \in Clients, conn = c, ~closing
    PROVE  /\ c \notin hungup /\ c \notin broken /\ ~ForeignTo(c, buffer)
           /\ Stream(buffer \o up[c], c, Len(ran[c]) + 1)
           /\ Complete(buffer \o up[c], Len(ran[c]) + 1, Sent(c, nreq[c]))
BY DEF SInv, TInv, Attached, Open, Unread

(* Steps of a client that do not touch its connection.                     *)
LEMMA ClientTInv ==
    ASSUME SInv, TInv, Fitting, NEW c \in Clients,
           \/ Ask(c) \/ OnConnect(c) \/ WriteKills(c)
           \/ ReadResponse(c) \/ ReadJunk(c) \/ ReadBehindJunk(c) \/ ReadHangup(c) \/ Timeout(c)
    PROVE  TInv'
<1>1. UNCHANGED <<script, nreq, up, buffer, ran, conn, closing, held, backlog, hungup, broken>>
    BY DEF Ask, OnConnect, WriteKills, ReadResponse, ReadJunk, ReadBehindJunk, ReadHangup,
           Timeout, cliVars, lisVars, devVars, tcpVars, rxVars
<1>2. ~Timeout(c)
    BY DEF Fitting, Timeout
<1>3. Lines /\ Progress /\ broken \subseteq hungup /\ cpc \in [Clients -> States]
    BY DEF SInv, TInv, TypeOK, States, Before
<1>4. nreq[c] \in Nat /\ Requested(c) \in Nat
    BY Types
<1>5. PICK s \in States :
         /\ cpc' = [cpc EXCEPT ![c] = s]
         /\ s \in Before => cpc[c] \in Before
         /\ s = "session" => cpc[c] = "session" \/ (cpc[c] = "connecting" /\ ~(0 < Requested(c)))
         /\ s = "done" => cpc[c] = "session" /\ nresp'[c] >= nreq[c]
         /\ s # "failed"
         /\ s \in {"lost", "aborted"} => c \in hungup \/ c \in broken
    BY <1>2 DEF Ask, OnConnect, NowAt, WriteKills, ReadResponse, ReadJunk, ReadBehindJunk,
                ReadHangup, AfterRead, Enough, States, Before
<1>6. /\ \A x \in Clients : x # c => nresp'[x] = nresp[x] /\ down'[x] = down[x]
      /\ nresp'[c] \in Nat /\ Len(down'[c]) \in Nat
      /\ nresp'[c] + Len(down'[c]) <= nresp[c] + Len(down[c])
    <2> DEFINE d == down[c]
               k == nresp[c]
    <2>1. /\ d \in Seq({"response", "junk"}) /\ k \in Nat /\ Len(d) \in Nat
          /\ nresp \in [Clients -> Nat] /\ down \in [Clients -> Seq({"response", "junk"})]
        BY Types DEF SInv, TypeOK
    <2> HIDE DEF d, k
    <2>2. CASE UNCHANGED <<nresp, down>>
        BY <2>1, <2>2 DEF d, k
    <2>3. ASSUME d # <<>>, NEW n \in 1..Len(d), nresp' = [nresp EXCEPT ![c] = k + 1],
                 down' = [down EXCEPT ![c] = SubSeq(d, n + 1, Len(d))]
          PROVE  <1>6
        <3>1. nresp'[c] = k + 1 /\ down'[c] = SubSeq(d, n + 1, Len(d))
            BY <2>1, <2>3
        <3>2. Len(SubSeq(d, n + 1, Len(d))) = Len(d) - n
            BY <2>1
        <3>3. \A x \in Clients : x # c => nresp'[x] = nresp[x] /\ down'[x] = down[x]
            BY <2>1, <2>3
        <3>4. \A i, j, l \in Nat : l \in 1..j => i + 1 + (j - l) <= i + j /\ j - l \in Nat
            OBVIOUS
        <3>5. n \in Nat
            OBVIOUS
        <3> QED BY <2>1, <3>1, <3>2, <3>3, <3>4, <3>5 DEF d, k
    <2>4. ASSUME d # <<>>, nresp' = nresp \/ nresp' = [nresp EXCEPT ![c] = k + 1],
                 down' = [down EXCEPT ![c] = Tail(d)]
          PROVE  <1>6
        <3>1. (nresp'[c] = k \/ nresp'[c] = k + 1) /\ down'[c] = Tail(d)
            BY <2>1, <2>4 DEF k
        <3>2. Len(Tail(d)) = Len(d) - 1 /\ Len(d) - 1 \in Nat
            BY <2>1, <2>4
        <3>3. \A x \in Clients : x # c => nresp'[x] = nresp[x] /\ down'[x] = down[x]
            BY <2>1, <2>4
        <3>4. \A i, j \in Nat : i + 1 + (j - 1) <= i + j /\ i + (j - 1) <= i + j
            OBVIOUS
        <3> QED BY <2>1, <3>1, <3>2, <3>3, <3>4 DEF d, k
    <2>5. CASE Ask(c) \/ OnConnect(c) \/ WriteKills(c) \/ ReadHangup(c)
        <3>1. UNCHANGED <<nresp, down>>
            BY <2>5 DEF Ask, OnConnect, WriteKills, ReadHangup, tcpVars
        <3> QED BY <2>2, <3>1
    <2>6. CASE ReadResponse(c) \/ ReadBehindJunk(c)
        <3>1. /\ d # <<>> /\ (nresp' = nresp \/ nresp' = [nresp EXCEPT ![c] = k + 1])
              /\ down' = [down EXCEPT ![c] = Tail(d)]
            BY <2>6 DEF ReadResponse, ReadBehindJunk, d, k
        <3> QED BY <2>4, <3>1
    <2>7. CASE ReadJunk(c)
        <3>1. \/ UNCHANGED <<nresp, down>>
              \/ /\ d # <<>> /\ nresp' = [nresp EXCEPT ![c] = k + 1]
                 /\ \E n \in 1..Len(d) : down' = [down EXCEPT ![c] = SubSeq(d, n + 1, Len(d))]
            BY <2>7 DEF ReadJunk, d, k
        <3> QED BY <2>2, <2>3, <3>1
    <2> QED BY <1>2, <2>5, <2>6, <2>7
<1>7. Fits' /\ Cleared' /\ Attached' /\ broken' \subseteq hungup'
    BY <1>1, <1>3 DEF TInv, Fits, Cleared, Attached
<1>8. NotHungup'
    <2> SUFFICES ASSUME NEW x \in Clients
                 PROVE  /\ Queued(x) \/ cpc'[x] \in Before => x \notin hungup
                        /\ held = x => cpc'[x] \notin Before
        BY <1>1 DEF NotHungup, Queued
    <2>1. cpc'[x] \in Before => cpc[x] \in Before
        BY <1>3, <1>5
    <2> QED BY <2>1 DEF TInv, NotHungup
<1>9. Progress'
    <2> SUFFICES ASSUME NEW x \in Clients
                 PROVE  /\ Len(ran[x]) <= Sent(x, nreq[x])
                        /\ cpc'[x] = "session" => nreq[x] = Requested(x)
                        /\ cpc'[x] = "done" => nreq[x] = Requested(x) /\ nreq[x] <= nresp'[x]
                        /\ cpc'[x] # "failed"
                        /\ cpc'[x] \in {"lost", "aborted"} => x \in hungup
        BY <1>1 DEF Progress, Sent, Requested
    <2>1. CASE x # c
        BY <1>3, <1>5, <1>6, <2>1 DEF Progress
    <2>2. CASE x = c
        <3>1. cpc'[c] = s
            BY <1>3, <1>5
        <3>2. s = "session" => nreq[c] = Requested(c)
            BY <1>3, <1>4, <1>5 DEF Progress, Lines
        <3>3. s = "done" => nreq[c] = Requested(c) /\ nreq[c] <= nresp'[c]
            BY <1>3, <1>4, <1>5, <1>6 DEF Progress
        <3> QED BY <1>3, <1>5, <2>2, <3>1, <3>2, <3>3 DEF Progress
    <2> QED BY <2>1, <2>2
<1>10. OneResponsePerCommand'
    <2> SUFFICES ASSUME NEW x \in Clients
                 PROVE  nresp'[x] + Len(down'[x]) <= Len(ran[x])
        BY <1>1 DEF OneResponsePerCommand
    <2>1. nresp[x] + Len(down[x]) <= Len(ran[x])
        BY DEF TInv, OneResponsePerCommand
    <2>2. CASE x # c
        BY <1>6, <2>1, <2>2
    <2>3. CASE x = c
        <3>1. nresp[c] \in Nat /\ Len(down[c]) \in Nat /\ Len(ran[c]) \in Nat
            BY Types
        <3> QED BY <1>6, <2>1, <2>3, <3>1
    <2> QED BY <2>2, <2>3
<1> QED
    BY <1>7, <1>8, <1>9, <1>10 DEF TInv

(* A client that asks has not connected, so nobody has hung up on it.      *)
LEMMA ReadAnswerTInv ==
    ASSUME IInv, SInv, TInv, NEW c \in Clients, NEW a \in {0, 1}, ReadAnswer(c, a)
    PROVE  TInv'
<1>1. /\ UNCHANGED <<script, nreq, nresp, up, down, buffer, ran, conn, closing, held>>
      /\ cpc[c] = "asked"
      /\ \/ /\ cpc' = [cpc EXCEPT ![c] = "refused"]
            /\ UNCHANGED <<backlog, hungup, broken>>
         \/ /\ cpc' = [cpc EXCEPT ![c] = "connecting"]
            /\ backlog' = Append(backlog, c) /\ UNCHANGED <<hungup, broken>>
         \/ /\ cpc' = [cpc EXCEPT ![c] = "connecting"]
            /\ backlog' = backlog /\ hungup' = hungup \cup {c} /\ broken' = broken \cup {c}
    BY DEF ReadAnswer, Connect, devVars
<1>2. /\ Progress /\ NotHungup /\ Attached /\ Cleared /\ Fits /\ broken \subseteq hungup
      /\ OneResponsePerCommand
      /\ cpc \in [Clients -> States] /\ backlog \in Seq(Clients) /\ Open
    BY DEF SInv, TInv, TypeOK, States, Before
<1>3. ~Queued(c) /\ c \notin served /\ c \notin hungup /\ conn # c
    <2>1. cpc[c] \in Before
        BY <1>1 DEF Before
    <2> QED BY <1>2, <2>1 DEF IInv, NotYetQueued, NotHungup, Open
<1>4. Fits' /\ Cleared' /\ broken' \subseteq hungup' /\ OneResponsePerCommand'
    BY <1>1, <1>2 DEF Fits, Cleared, OneResponsePerCommand
<1>5. Attached'
    BY <1>1, <1>2, <1>3 DEF Attached, ForeignTo
<1>6. \A x \in Clients : Queued(x)' => Queued(x) \/ (x = c /\ hungup' = hungup)
    <2>1. CASE backlog' = backlog
        BY <2>1 DEF Queued
    <2>2. CASE backlog' = Append(backlog, c) /\ hungup' = hungup
        <3>1. /\ Len(backlog') = Len(backlog) + 1 /\ Len(backlog) \in Nat
              /\ \A i \in 1..Len(backlog) : backlog'[i] = backlog[i]
              /\ backlog'[Len(backlog) + 1] = c
            BY <1>2, <2>2
        <3>2. \A i \in 1..Len(backlog') : i = Len(backlog) + 1 \/ i \in 1..Len(backlog)
            BY <3>1
        <3> QED BY <2>2, <3>1, <3>2 DEF Queued
    <2> QED BY <1>1, <2>1, <2>2
<1>7. NotHungup'
    <2> SUFFICES ASSUME NEW x \in Clients
                 PROVE  /\ Queued(x)' \/ cpc'[x] \in Before => x \notin hungup'
                        /\ held = x => cpc'[x] \notin Before
        BY <1>1 DEF NotHungup
    <2>1. CASE x = c
        <3>1. held # c
            BY <1>1, <1>2 DEF NotHungup, Before
        <3>2. cpc'[c] \in Before => hungup' = hungup
            BY <1>1, <1>2 DEF Before
        <3> QED BY <1>3, <1>6, <2>1, <3>1, <3>2
    <2>2. CASE x # c
        BY <1>1, <1>2, <1>6, <2>2 DEF NotHungup
    <2> QED BY <2>1, <2>2
<1>8. Progress'
    <2> SUFFICES ASSUME NEW x \in Clients
                 PROVE  /\ Len(ran[x]) <= Sent(x, nreq[x])
                        /\ cpc'[x] = "session" => nreq[x] = Requested(x)
                        /\ cpc'[x] = "done" => nreq[x] = Requested(x) /\ nreq[x] <= nresp[x]
                        /\ cpc'[x] # "failed"
                        /\ cpc'[x] \in {"lost", "aborted"} => x \in hungup'
        BY <1>1 DEF Progress, Sent, Requested
    <2>1. CASE x = c
        BY <1>1, <1>2, <2>1 DEF Progress
    <2>2. CASE x # c
        BY <1>1, <1>2, <2>2 DEF Progress
    <2> QED BY <2>1, <2>2
<1> QED
    BY <1>4, <1>5, <1>7, <1>8 DEF TInv

(* A client sends packets that fit, and counts at least as many lines.     *)
LEMMA ProcessLineTInv ==
    ASSUME SInv, TInv, Fitting, NEW c \in Clients, ProcessLine(c)
    PROVE  TInv'
<1> DEFINE n == nreq[c]
           p == PacketOf(c, n + 1)
<1>1. /\ cpc[c] = "sending"
      /\ nreq' = [nreq EXCEPT ![c] = n + 1]
      /\ cpc' = [cpc EXCEPT ![c] = NowAt(c, n + 1)]
      /\ up' = IF script[c][n + 1] = "sleep" \/ c \in broken THEN up
               ELSE [up EXCEPT ![c] = up[c] \o Bytes(p)]
      /\ UNCHANGED <<script, nresp, down, buffer, ran, conn, closing, held, backlog, hungup, broken>>
    BY DEF ProcessLine, lisVars, devVars, rxVars
<1>2. /\ Progress /\ NotHungup /\ Attached /\ Cleared /\ Fits /\ broken \subseteq hungup
      /\ OneResponsePerCommand /\ Lines
      /\ cpc \in [Clients -> States] /\ nreq \in [Clients -> Nat] /\ script \in Scripts
      /\ up \in [Clients -> Seq(Cell)]
    BY DEF SInv, TInv, TypeOK, States, Before
<1>3. /\ n \in Nat /\ n < Requested(c) /\ Requested(c) \in Nat /\ up[c] \in Seq(Cell)
      /\ Len(ran[c]) \in Nat
    BY <1>1, <1>2, Types DEF Lines
<1>4. Cleared' /\ Attached' /\ broken' \subseteq hungup' /\ OneResponsePerCommand'
    BY <1>1, <1>2 DEF Cleared, Attached, ForeignTo, OneResponsePerCommand
<1>5. NotHungup'
    <2> SUFFICES ASSUME NEW x \in Clients
                 PROVE  /\ Queued(x) \/ cpc'[x] \in Before => x \notin hungup
                        /\ held = x => cpc'[x] \notin Before
        BY <1>1 DEF NotHungup, Queued
    <2>1. cpc'[x] \in Before => cpc[x] \in Before
        BY <1>1, <1>2 DEF NowAt, Before
    <2> QED BY <1>2, <2>1 DEF NotHungup
<1>6. Progress'
    <2> SUFFICES ASSUME NEW x \in Clients
                 PROVE  /\ Len(ran[x]) <= Sent(x, nreq'[x])
                        /\ cpc'[x] = "session" => nreq'[x] = Requested(x)
                        /\ cpc'[x] = "done" => nreq'[x] = Requested(x) /\ nreq'[x] <= nresp[x]
                        /\ cpc'[x] # "failed"
                        /\ cpc'[x] \in {"lost", "aborted"} => x \in hungup
        BY <1>1 DEF Progress, Sent, Requested
    <2>1. CASE x = c
        <3>1. nreq'[c] = n + 1 /\ cpc'[c] = NowAt(c, n + 1)
            BY <1>1, <1>2
        <3>2. Sent(c, n + 1) \in Nat /\ Sent(c, n) \in Nat /\ Sent(c, n + 1) >= Sent(c, n)
            <4>1. /\ Sent(c, n) \in Nat
                  /\ Sent(c, n + 1) = IF script[c][n + 1] # "sleep" THEN Sent(c, n) + 1 ELSE Sent(c, n)
                BY <1>3, SentCount
            <4> QED BY <4>1
        <3>3. Len(ran[c]) <= Sent(c, n + 1)
            BY <1>2, <1>3, <3>2 DEF Progress
        <3>4. cpc'[c] = "session" => n + 1 = Requested(c)
            BY <1>3, <3>1 DEF NowAt
        <3> QED BY <2>1, <3>1, <3>3, <3>4 DEF NowAt
    <2>2. CASE x # c
        BY <1>1, <1>2, <2>2 DEF Progress
    <2> QED BY <2>1, <2>2
<1>7. Fits'
    <2>1. CASE up' = up
        BY <1>1, <1>2, <2>1 DEF Fits, Fit
    <2>2. CASE up' # up
        <3>1. script[c][n + 1] # "sleep" /\ up' = [up EXCEPT ![c] = up[c] \o Bytes(p)]
            BY <1>1, <2>2
        <3>2. p \in Packets /\ p.size = CmdSize[script[c][n + 1]]
            BY <1>2, <1>3, <3>1, PacketOfLine DEF PacketOf
        <3>3. p.size <= Cap
            <4>1. script[c] \in Seq(Commands) /\ n + 1 \in 1..Len(script[c])
                BY <1>3, Types DEF Requested
            <4>2. script \in Scripts
                BY DEF SInv, TypeOK
            <4> QED BY <3>1, <3>2, <4>1, <4>2 DEF Fitting
        <3> HIDE DEF p
        <3>4. Bytes(p) \in Seq(Cell) /\ Fit(Bytes(p))
            <4>1. /\ Bytes(p) \in Seq(Cell) /\ Len(Bytes(p)) = p.size
                  /\ \A i \in 1..p.size : Bytes(p)[i] = [pkt |-> p, pos |-> i]
                BY <3>2, BytesOf
            <4>2. ASSUME NEW i \in 1..Len(Bytes(p)) PROVE Bytes(p)[i].pkt.size <= Cap
                <5>1. Bytes(p)[i] = [pkt |-> p, pos |-> i]
                    BY <4>1
                <5>2. Bytes(p)[i].pkt = p
                    BY <5>1
                <5> QED BY <3>3, <5>2
            <4> QED BY <4>1, <4>2 DEF Fit
        <3>5. Fit(up[c] \o Bytes(p))
            BY <1>2, <1>3, <3>4, FitConcat DEF Fits
        <3>6. \A x \in Clients : up'[x] = IF x = c THEN up[c] \o Bytes(p) ELSE up[x]
            BY <1>2, <3>1
        <3> QED BY <1>1, <1>2, <3>5, <3>6 DEF Fits
    <2> QED BY <2>1, <2>2
<1> QED
    BY <1>4, <1>5, <1>6, <1>7 DEF TInv

(* Only a connection the simulator has closed is reset: a client that is   *)
(* done has read all its responses.                                        *)
LEMMA ResetTInv ==
    ASSUME SInv, TInv, NEW c \in Clients, Reset(c)
    PROVE  TInv'
<1>1. /\ broken' = broken \cup {c}
      /\ down' = down \/ down' = [down EXCEPT ![c] = <<>>]
      /\ (\E n \in 0..Len(up[c]) : up' = [up EXCEPT ![c] = SubSeq(@, 1, n)])
         \/ up' = [up EXCEPT ![c] = <<>>]
      /\ UNCHANGED <<script, cpc, nreq, nresp, buffer, ran, conn, closing, held, backlog, hungup>>
    BY DEF Reset, cliVars, lisVars, devVars, rxVars
<1>2. /\ Progress /\ NotHungup /\ Attached /\ Cleared /\ Fits /\ broken \subseteq hungup
      /\ OneResponsePerCommand
      /\ up \in [Clients -> Seq(Cell)] /\ down \in [Clients -> Seq({"response", "junk"})]
    BY DEF SInv, TInv, TypeOK
<1>3. c \in hungup
    <2>1. CASE c \in hungup
        BY <2>1
    <2>2. CASE HasClosed(c) /\ down[c] # <<>>
        <3>1. cpc[c] # "done"
            BY <2>2, DoneQuiet
        <3> QED BY <1>2, <2>2, <3>1 DEF HasClosed, Exited, Progress
    <2> QED BY <2>1, <2>2 DEF Reset
<1>4. Cleared' /\ Attached' /\ NotHungup' /\ Progress' /\ broken' \subseteq hungup'
    <2>1. Cleared' /\ Attached' /\ broken' \subseteq hungup'
        BY <1>1, <1>2, <1>3 DEF Cleared, Attached, ForeignTo
    <2>2. NotHungup'
        BY <1>1, <1>2 DEF NotHungup, Queued
    <2>3. Progress'
        BY <1>1, <1>2 DEF Progress, Sent, Requested
    <2> QED BY <2>1, <2>2, <2>3
<1>5. OneResponsePerCommand'
    <2> SUFFICES ASSUME NEW x \in Clients
                 PROVE  nresp[x] + Len(down'[x]) <= Len(ran[x])
        BY <1>1 DEF OneResponsePerCommand
    <2>1. /\ nresp[x] + Len(down[x]) <= Len(ran[x]) /\ nresp[x] \in Nat
          /\ Len(down[x]) \in Nat /\ Len(ran[x]) \in Nat
        BY <1>2, Types DEF OneResponsePerCommand
    <2>2. Len(down'[x]) = Len(down[x]) \/ Len(down'[x]) = 0
        BY <1>1, <1>2
    <2> QED BY <2>1, <2>2
<1>6. Fits'
    <2>1. ASSUME NEW n \in 0..Len(up[c]), up' = [up EXCEPT ![c] = SubSeq(@, 1, n)]
          PROVE  Fits'
        <3> DEFINE s == up[c]
        <3>1. s \in Seq(Cell) /\ Fit(s)
            BY <1>2 DEF Fits
        <3>2. Len(SubSeq(s, 1, n)) = n /\ (\A i \in 1..n : SubSeq(s, 1, n)[i] = s[i] /\ i \in 1..Len(s))
            BY <3>1
        <3>3. Fit(SubSeq(s, 1, n))
            BY <3>1, <3>2 DEF Fit
        <3>4. \A x \in Clients : up'[x] = IF x = c THEN SubSeq(s, 1, n) ELSE up[x]
            BY <1>2, <2>1
        <3> QED BY <1>1, <1>2, <3>3, <3>4 DEF Fits
    <2>2. CASE up' = [up EXCEPT ![c] = <<>>]
        <3>1. Fit(<<>>)
            BY DEF Fit
        <3>2. \A x \in Clients : up'[x] = IF x = c THEN <<>> ELSE up[x]
            BY <1>2, <2>2
        <3> QED BY <1>1, <1>2, <3>1, <3>2 DEF Fits
    <2> QED BY <1>1, <2>1, <2>2
<1> QED
    BY <1>4, <1>5, <1>6 DEF TInv

(* Datagrams, a connection that is turned away, a new start.               *)
LEMMA QuietTInv ==
    ASSUME IInv, SInv, TInv,
           \/ \E c \in Clients : AnswerOpen(c) \/ TurnAway(c)
           \/ Start
           \/ UNCHANGED vars
    PROVE  TInv'
<1>1. UNCHANGED <<script, cpc, nreq, nresp, up, down, buffer, hungup, ran, broken, conn, closing>>
    BY DEF AnswerOpen, TurnAway, Start, vars, cliVars, udpVars, lisVars, devVars, tcpVars, rxVars
<1>2. /\ Progress /\ NotHungup /\ Attached /\ Cleared /\ Fits /\ broken \subseteq hungup
      /\ OneResponsePerCommand
    BY DEF TInv
<1>3. \A x \in Clients : (Queued(x)' => Queued(x)) /\ (held' = x => held = x \/ cpc[x] \notin Before)
    <2>1. ASSUME NEW c \in Clients, TurnAway(c)
          PROVE  \A x \in Clients : (Queued(x)' => Queued(x)) /\ (held' = x => cpc[x] \notin Before)
        <3>1. Incoming(c) /\ backlog' = Tail(backlog) /\ held' = c /\ cpc' = cpc
            BY <2>1 DEF TurnAway, cliVars
        <3> QED BY <3>1, PopStep
    <2>2. CASE UNCHANGED <<backlog, held>>
        BY <2>2 DEF Queued
    <2>3. (\E c \in Clients : AnswerOpen(c)) \/ Start \/ UNCHANGED vars => UNCHANGED <<backlog, held>>
        BY DEF AnswerOpen, Start, vars, lisVars
    <2> QED BY <2>1, <2>2, <2>3
<1>4. Fits' /\ Cleared' /\ Attached' /\ OneResponsePerCommand' /\ broken' \subseteq hungup'
    BY <1>1, <1>2 DEF Fits, Cleared, Attached, ForeignTo, OneResponsePerCommand
<1>5. NotHungup'
    BY <1>1, <1>2, <1>3 DEF NotHungup
<1>6. Progress'
    BY <1>1, <1>2 DEF Progress, Sent, Requested
<1> QED
    BY <1>4, <1>5, <1>6 DEF TInv

(* A client is accepted when the buffer is empty.                          *)
LEMMA AcceptTInv ==
    ASSUME IInv, SInv, TInv, NEW c \in Clients, AcceptConnection(c)
    PROVE  TInv'
<1>1. /\ Incoming(c) /\ backlog' = Tail(backlog) /\ conn' = c
      /\ UNCHANGED <<script, cpc, nreq, nresp, up, down, buffer, hungup, ran, broken, closing, held>>
    BY DEF AcceptConnection, cliVars, tcpVars, rxVars
<1>2. /\ Progress /\ NotHungup /\ Attached /\ Cleared /\ Fits /\ broken \subseteq hungup
      /\ OneResponsePerCommand
    BY DEF TInv
<1>3. conn = None
    BY AcceptStep
<1>4. \A x \in Clients : Queued(x)' => Queued(x)
    BY <1>1, PopStep
<1>5. Queued(c)
    <2>1. backlog \in Seq(Clients) /\ backlog # <<>> /\ backlog[1] = c
        BY <1>1 DEF IInv, Typed, Incoming
    <2>2. 1 \in 1..Len(backlog)
        BY <2>1
    <2> QED BY <2>1, <2>2 DEF Queued
<1>6. buffer = <<>> /\ ~closing
    BY <1>2, <1>3 DEF Cleared
<1>7. Cleared' /\ Attached'
    BY <1>1, <1>2, <1>5, <1>6, ClientsAssumption DEF Cleared, Attached, NotHungup, ForeignTo
<1>8. Fits' /\ OneResponsePerCommand' /\ broken' \subseteq hungup'
    BY <1>1, <1>2 DEF Fits, OneResponsePerCommand
<1>9. NotHungup'
    BY <1>1, <1>2, <1>4 DEF NotHungup
<1>10. Progress'
    BY <1>1, <1>2 DEF Progress, Sent, Requested
<1> QED
    BY <1>7, <1>8, <1>9, <1>10 DEF TInv

(* The simulator hangs up on more clients, but on none that waits or has   *)
(* not connected.                                                          *)
LEMMA HangsUp ==
    ASSUME SInv, TInv, UNCHANGED <<script, cpc, nreq, nresp, up, down, ran, broken>>,
           hungup \subseteq hungup', Fit(buffer'), Cleared', Attached', NotHungup'
    PROVE  TInv'
<1>1. Progress /\ Fits /\ broken \subseteq hungup /\ OneResponsePerCommand
    BY DEF TInv
<1>2. Fits' /\ OneResponsePerCommand' /\ broken' \subseteq hungup'
    BY <1>1 DEF Fits, OneResponsePerCommand
<1>3. Progress'
    BY <1>1 DEF Progress, Sent, Requested
<1> QED
    BY <1>2, <1>3 DEF TInv

(* A client that closes its end leaves nothing in the buffer.              *)
LEMMA ServerEofTInv ==
    ASSUME IInv, SInv, TInv, NEW c \in Clients, ServerEof(c)
    PROVE  TInv'
<1>1. /\ conn = c /\ ~closing /\ HasClosed(c) /\ up[c] = <<>> /\ closing' = TRUE
      /\ hungup' = hungup \cup {c}
      /\ UNCHANGED <<script, cpc, nreq, nresp, up, down, ran, broken, conn, buffer, backlog, held>>
    BY DEF ServerEof, cliVars, lisVars, tcpVars
<1>2. /\ Progress /\ NotHungup /\ Cleared /\ Fits
    BY DEF TInv
<1>3. buffer = <<>>
    <2>1. /\ c \notin hungup /\ Stream(buffer \o up[c], c, Len(ran[c]) + 1)
          /\ Complete(buffer \o up[c], Len(ran[c]) + 1, Sent(c, nreq[c]))
        BY <1>1, OpenWhole
    <2>2. cpc[c] = "done"
        BY <1>1, <1>2, <2>1 DEF HasClosed, Exited, Progress
    <2>3. Len(ran[c]) = Sent(c, nreq[c])
        BY <2>2, DoneQuiet
    <2>4. buffer \in Seq(Cell) /\ buffer \o up[c] = buffer
        BY <1>1, Types
    <2>5. Len(ran[c]) \in Nat /\ Sent(c, nreq[c]) \in Nat
        BY Types
    <2>6. Len(ran[c]) + 1 \in Nat
        BY <2>5
    <2>7. Stream(buffer, c, Len(ran[c]) + 1) /\ Complete(buffer, Len(ran[c]) + 1, Len(ran[c]))
        BY <2>1, <2>3, <2>4
    <2> QED BY <2>4, <2>5, <2>6, <2>7, StreamReach
<1>4. cpc[c] \notin Before /\ ~Queued(c)
    <2>1. c \in served
        BY <1>1 DEF SInv, Open
    <2> QED BY <2>1 DEF IInv, NotYetQueued, QueuedUnserved, Queued
<1>5. Cleared' /\ Attached'
    BY <1>1, <1>3, ClientsAssumption DEF Cleared, Attached
<1>6. NotHungup'
    BY <1>1, <1>2, <1>4 DEF NotHungup, Queued
<1>7. Fit(buffer')
    BY <1>1, <1>2 DEF Fits
<1> QED
    BY <1>1, <1>5, <1>6, <1>7, HangsUp

(* Behind the close callback, and behind the end of the simulator.         *)
LEMMA ReleaseTInv ==
    ASSUME IInv, SInv, TInv, OnClose \/ Gone
    PROVE  TInv'
<1>1. /\ conn' = None /\ closing' = FALSE
      /\ UNCHANGED <<script, cpc, nreq, nresp, up, down, ran, broken>>
    BY DEF OnClose, Gone, cliVars, tcpVars, rxVars
<1>2. Progress /\ NotHungup /\ Cleared /\ Fits
    BY DEF TInv
<1>3. CASE OnClose
    <2>1. UNCHANGED <<buffer, hungup, backlog, held>> /\ closing
        BY <1>3 DEF OnClose, lisVars, rxVars
    <2>2. buffer = <<>>
        BY <1>2, <2>1 DEF Cleared
    <2>3. Cleared' /\ Attached'
        BY <1>1, <2>1, <2>2, ClientsAssumption DEF Cleared, Attached
    <2>4. NotHungup'
        BY <1>1, <1>2, <2>1 DEF NotHungup, Queued
    <2>5. Fit(buffer')
        BY <1>2, <2>1 DEF Fits
    <2> QED BY <1>1, <2>1, <2>3, <2>4, <2>5, HangsUp
<1>4. CASE Gone
    <2>1. /\ backlog' = <<>> /\ held' = None /\ buffer' = <<>>
          /\ hungup' = hungup \cup Connected
        BY <1>4 DEF Gone
    <2>2. Cleared' /\ Attached' /\ Fit(buffer')
        BY <1>1, <2>1, ClientsAssumption DEF Cleared, Attached, Fit
    <2>3. \A x \in Clients : cpc[x] \in Before => x \notin Connected
        <3> SUFFICES ASSUME NEW x \in Clients, cpc[x] \in Before, x \in Connected
                     PROVE  FALSE
            OBVIOUS
        <3>1. ~Queued(x) /\ x \notin served /\ held # x
            BY <1>2 DEF IInv, NotYetQueued, NotHungup
        <3>2. conn # x
            BY <3>1 DEF SInv, Open
        <3>3. backlog \in Seq(Clients) /\ x \in ToSet(backlog)
            BY <3>1, <3>2 DEF Connected, IInv, Typed
        <3>4. x \in {backlog[i] : i \in 1..Len(backlog)}
            BY <3>3 DEF ToSet
        <3> QED BY <3>1, <3>4 DEF Queued
    <2>4. NotHungup'
        <3>1. \A x \in Clients : ~Queued(x)'
            <4>1. 1..Len(backlog') = {}
                BY <2>1
            <4> QED BY <4>1 DEF Queued
        <3> QED BY <1>1, <1>2, <2>1, <2>3, <3>1, ClientsAssumption DEF NotHungup
    <2> QED BY <1>1, <2>1, <2>2, <2>4, HangsUp
<1> QED
    BY <1>3, <1>4

(* What is read is copied completely: the connection stays open, and every *)
(* response belongs to a command of the client.                            *)
LEMMA ServerReadTInv ==
    ASSUME SInv, TInv, NEW c \in Clients, ServerRead(c)
    PROVE  TInv' /\ hungup' = hungup
<1>1. PICK n \in 1..Len(up[c]), before \in BOOLEAN, after \in BOOLEAN :
          ReadShape(c, n, before, after)
    BY ServerReadShape
<1>2. /\ conn = c /\ ~closing
      /\ UNCHANGED <<script, cpc, nreq, nresp, held, backlog, conn, broken>>
    BY DEF ServerRead, cliVars, lisVars
<1>3. /\ up[c] \in Seq(Cell) /\ buffer \in Seq(Cell) /\ Len(buffer) <= Cap /\ ~Accepts(buffer)
      /\ ran \in [Clients -> Seq(Clients \X Nat)] /\ up \in [Clients -> Seq(Cell)]
      /\ down \in [Clients -> Seq({"response", "junk"})]
    BY DEF SInv, TypeOK, Leftover
<1>4. /\ Fits /\ Cleared /\ Attached /\ NotHungup /\ Progress
      /\ broken \subseteq hungup /\ OneResponsePerCommand
    BY DEF TInv
<1> DEFINE chunk == SubSeq(up[c], 1, n)
           s == SubSeq(up[c], n + 1, Len(up[c]))
           x == <<buffer, chunk, after>>
           l == CopyLoop[x]
           p == Process(buffer, before)
           m == Len(ran[c]) + 1
           k == Sent(c, nreq[c])
<1>5. /\ chunk \in Seq(Cell) /\ s \in Seq(Cell) /\ Len(chunk) = n /\ Len(s) = Len(up[c]) - n
      /\ \A i \in 1..n : chunk[i] = up[c][i]
      /\ \A i \in 1..Len(up[c]) - n : s[i] = up[c][n + i]
      /\ chunk \o s = up[c]
    BY <1>3, Divide
<1>6. /\ x \in Chunks /\ l \in Copied
      /\ buffer' = l.buf /\ closing' = l.stalled
      /\ ran' = [ran EXCEPT ![c] = ran[c] \o l.ids]
      /\ down' = IF c \in broken THEN down ELSE [down EXCEPT ![c] = down[c] \o (p.out \o l.out)]
      /\ hungup' = IF l.stalled THEN hungup \cup {c} ELSE hungup
      /\ up' = [up EXCEPT ![c] = s]
    BY <1>1 DEF ReadShape
<1>7. x[1] = buffer /\ x[2] = chunk
    OBVIOUS
<1>8. m \in Nat /\ k \in Nat /\ Len(ran[c]) \in Nat /\ nresp[c] \in Nat /\ Len(down[c]) \in Nat
      /\ ran[c] \in Seq(Clients \X Nat) /\ down[c] \in Seq({"response", "junk"})
    BY Types
<1>9. Fit(up[c]) /\ Fit(buffer)
    BY <1>4 DEF Fits
<1>10. Fit(chunk) /\ Fit(s)
    <2>1. Len(up[c]) \in Nat /\ n \in Nat /\ n <= Len(up[c])
        BY <1>3
    <2>2. Fit(chunk)
        BY <1>5, <1>9, <2>1 DEF Fit
    <2>3. Fit(s)
        <3> SUFFICES ASSUME NEW i \in 1..Len(s) PROVE s[i].pkt.size <= Cap
            BY DEF Fit
        <3>1. i \in 1..Len(up[c]) - n /\ n + i \in 1..Len(up[c])
            BY <1>5, <2>1
        <3> QED BY <1>5, <1>9, <3>1 DEF Fit
    <2> QED BY <2>2, <2>3
<1>11. /\ c \notin hungup /\ c \notin broken
       /\ Stream(buffer \o up[c], c, m) /\ Complete(buffer \o up[c], m, k)
    BY <1>2, OpenWhole
<1> HIDE DEF chunk, s, x, l, p, m, k
<1>12. Stream(buffer \o chunk, c, m)
    <2>1. buffer \o up[c] = (buffer \o chunk) \o s /\ buffer \o chunk \in Seq(Cell)
        <3>1. buffer \in Seq(Cell) /\ chunk \in Seq(Cell) /\ s \in Seq(Cell) /\ chunk \o s = up[c]
            BY <1>3, <1>5
        <3>2. (buffer \o chunk) \o s = buffer \o (chunk \o s)
            BY <3>1, CellsAssociative
        <3> QED BY <3>1, <3>2
    <2>2. Stream((buffer \o chunk) \o s, c, m)
        BY <1>11, <2>1
    <2> QED BY <1>5, <1>8, <2>1, <2>2, StreamLeft
<1>13. ~l.stalled /\ Fit(l.buf) /\ Len(l.out) = Len(l.ids)
    <2>1. Stream(x[1] \o x[2], c, m)
        BY <1>7, <1>12
    <2> QED BY <1>3, <1>6, <1>7, <1>8, <1>9, <1>10, <2>1, CopyTight DEF l
<1>14. p.out = <<>>
    <2>1. Drain[buffer].buf = buffer /\ Drain[buffer].out = <<>>
        BY <1>3, DrainIdle
    <2>2. Stream(buffer, c, m)
        BY <1>3, <1>5, <1>8, <1>12, StreamLeft
    <2>3. ~Refuses(buffer, before)
        BY <1>3, <1>8, <2>2, StreamClean
    <2> QED BY <1>3, <2>1, <2>3, ProcessDrain DEF p
<1>15. /\ l.buf \in Seq(Cell) /\ l.ids \in Seq(Clients \X Nat)
       /\ l.out \in Seq({"response", "junk"}) /\ Len(l.ids) \in Nat /\ Len(l.out) \in Nat
    <2>1. l.buf \in Seq(Cell) /\ l.ids \in Seq(Clients \X Nat) /\ l.out \in Seq({"response", "junk"})
        BY <1>6 DEF Copied
    <2> QED BY <2>1
<1>16. /\ Of(c, l.buf)
       /\ Stream(l.buf \o s, c, m + Len(l.ids)) /\ Complete(l.buf \o s, m + Len(l.ids), k)
    <2>1. Stream(x[1] \o (x[2] \o s), c, m) /\ Complete(x[1] \o (x[2] \o s), m, k)
        BY <1>5, <1>7, <1>11
    <2>2. CopiedOf(x, s, c, m, l)
        BY <1>5, <1>6, <1>8, <2>1, CopyStream DEF l
    <2> QED BY <1>8, <1>13, <2>1, <2>2 DEF CopiedOf
<1>17. Len(ran[c]) + Len(l.ids) <= k
    <2>1. l.buf \o s \in Seq(Cell) /\ m + Len(l.ids) \in Nat
        BY <1>5, <1>8, <1>15
    <2>2. m + Len(l.ids) <= k + 1
        BY <1>8, <1>16, <2>1, StreamReach
    <2>3. \A a, b, d \in Nat : (a + 1) + b <= d + 1 => a + b <= d
        OBVIOUS
    <2> QED BY <1>8, <1>15, <2>2, <2>3 DEF m
<1>18. /\ hungup' = hungup /\ closing' = FALSE
       /\ \A y \in Clients : y # c => ran'[y] = ran[y] /\ down'[y] = down[y] /\ up'[y] = up[y]
       /\ ran'[c] = ran[c] \o l.ids /\ down'[c] = down[c] \o (p.out \o l.out) /\ up'[c] = s
    <2>1. closing' = FALSE
        BY <1>6, <1>13 DEF Copied
    <2> QED BY <1>3, <1>6, <1>11, <1>13, <2>1
<1>19. /\ Len(ran'[c]) = Len(ran[c]) + Len(l.ids)
       /\ Len(down'[c]) = Len(down[c]) + Len(l.out)
    <2>1. p.out \o l.out = l.out
        BY <1>14, <1>15
    <2>2. Len(ran[c] \o l.ids) = Len(ran[c]) + Len(l.ids)
        BY <1>8, <1>15
    <2>3. Len(down[c] \o l.out) = Len(down[c]) + Len(l.out)
        BY <1>8, <1>15
    <2> QED BY <1>18, <2>1, <2>2, <2>3
<1>20. Fits'
    BY <1>4, <1>6, <1>10, <1>13, <1>18 DEF Fits
<1>21. Cleared' /\ broken' \subseteq hungup'
    BY <1>2, <1>4, <1>18, ClientsAssumption DEF Cleared
<1>22. Attached'
    <2>1. ~ForeignTo(c, l.buf)
        <3>1. l.buf # <<>> => 1 \in 1..Len(l.buf)
            BY <1>15
        <3> QED BY <1>16, <3>1 DEF ForeignTo, Of
    <2> QED BY <1>2, <1>6, <1>11, <1>18, <2>1 DEF Attached, ForeignTo
<1>23. NotHungup'
    BY <1>2, <1>4, <1>18 DEF NotHungup, Queued
<1>24. Progress'
    <2>1. \A y \in Clients : Len(ran'[y]) <= Sent(y, nreq[y])
        BY <1>4, <1>17, <1>18, <1>19 DEF Progress, k
    <2> QED BY <1>2, <1>4, <1>18, <2>1 DEF Progress, Sent, Requested
<1>25. OneResponsePerCommand'
    <2> SUFFICES ASSUME NEW y \in Clients
                 PROVE  nresp[y] + Len(down'[y]) <= Len(ran'[y])
        BY <1>2 DEF OneResponsePerCommand
    <2>1. nresp[y] + Len(down[y]) <= Len(ran[y])
        BY <1>4 DEF OneResponsePerCommand
    <2>2. CASE y = c
        <3>1. \A a, b, d, e \in Nat : a + b <= d => a + (b + e) <= d + e
            OBVIOUS
        <3> QED BY <1>8, <1>13, <1>15, <1>19, <2>1, <2>2, <3>1
    <2>3. CASE y # c
        BY <1>18, <2>1, <2>3
    <2> QED BY <2>2, <2>3
<1> QED
    BY <1>18, <1>20, <1>21, <1>22, <1>23, <1>24, <1>25 DEF TInv

(* Every step preserves the second invariant.                              *)
LEMMA StepTInv ==
    ASSUME IInv, SInv, TInv, Fitting, [Next]_vars
    PROVE  TInv'
<1>1. ASSUME NEW c \in Clients, Client(c) \/ Timeout(c) \/ Reset(c) PROVE TInv'
    BY <1>1, ClientTInv, ReadAnswerTInv, ProcessLineTInv, ResetTInv DEF Client
<1>2. ASSUME (\E c \in Clients : AnswerOpen(c) \/ TurnAway(c)) \/ Start \/ UNCHANGED vars
      PROVE  TInv'
    BY <1>2, QuietTInv
<1>3. ASSUME NEW c \in Clients, AcceptConnection(c) \/ ServerRead(c) \/ ServerEof(c)
      PROVE  TInv'
    BY <1>3, AcceptTInv, ServerReadTInv, ServerEofTInv
<1>4. ASSUME OnClose \/ Gone PROVE TInv'
    BY <1>4, ReleaseTInv
<1>5. CASE Stop \/ \E c \in Clients : WriteKillsSimulator(c)
    BY <1>4, <1>5 DEF Stop, WriteKillsSimulator
<1> QED
    BY <1>1, <1>2, <1>3, <1>4, <1>5 DEF Next, Simulator

(* Without a timeout, and with packets that fit, all three invariants hold *)
(* in every reachable state.                                               *)
THEOREM InductiveSession == Fitting => (Spec => [](IInv /\ SInv /\ TInv))
<1> SUFFICES ASSUME Fitting PROVE Spec => [](IInv /\ SInv /\ TInv)
    OBVIOUS
<1>1. Init => IInv /\ SInv /\ TInv
    BY InitIInv, InitSInv, InitTInv
<1>2. IInv /\ SInv /\ TInv /\ [Next]_vars => (IInv /\ SInv /\ TInv)'
    BY StepIInv, StepSInv, StepTInv
<1> QED
    BY <1>1, <1>2, PTL DEF Spec

(* No response is counted, and none is on its way, that does not answer a  *)
(* command that was executed, when no client stops in the middle of its    *)
(* session and every packet fits the buffer.                               *)
THEOREM ResponsesAnswerCommands == Fitting => (Spec => []OneResponsePerCommand)
<1> SUFFICES ASSUME Fitting PROVE Spec => []OneResponsePerCommand
    OBVIOUS
<1>1. TInv => OneResponsePerCommand
    BY DEF TInv
<1>2. Spec => []TInv
    BY InductiveSession, PTL
<1> QED
    BY <1>1, <1>2, PTL

(* Under the same conditions a client that exits with status 0 has had its *)
(* whole script executed, however often the simulator ends and starts.     *)
THEOREM DoneIsExecuted == Fitting => (Spec => []DoneMeansExecuted)
<1> SUFFICES ASSUME Fitting PROVE Spec => []DoneMeansExecuted
    OBVIOUS
<1>1. SInv /\ TInv => DoneMeansExecuted
    <2> SUFFICES ASSUME SInv, TInv, NEW c \in Clients, cpc[c] = "done"
                 PROVE  Len(ran[c]) = Sent(c, Requested(c))
        BY DEF DoneMeansExecuted
    <2>1. Len(ran[c]) = Sent(c, nreq[c]) /\ nreq[c] = Requested(c)
        BY DoneQuiet
    <2> QED BY <2>1
<1>2. Spec => [](IInv /\ SInv /\ TInv)
    BY InductiveSession
<1> QED
    BY <1>1, <1>2, PTL

-----------------------------------------------------------------------------
(* When nobody stops the simulator, it hangs up only on clients that are   *)
(* done, and no signal ever ends a process.                                *)
UInv == alive /\ starts = 1 /\ \A c \in hungup : cpc[c] = "done"

(* The simulator hangs up only on a client that has closed, hence is done. *)
LEMMA StepUInv ==
    ASSUME IInv, SInv, TInv, UInv, MaxStarts = 1, Fitting, [Next]_vars
    PROVE  UInv'
<1>1. /\ broken \subseteq hungup /\ Progress /\ Attached /\ hungup \subseteq Clients
      /\ cpc \in [Clients -> States]
    BY DEF SInv, TInv, TypeOK, States, Before
<1>2. ~Stop /\ ~Start
    BY DEF UInv, Stop, Start
<1>3. ASSUME NEW c \in Clients, Client(c) \/ Timeout(c) \/ Reset(c) PROVE UInv'
    <2>1. ~Timeout(c)
        BY DEF Fitting, Timeout
    <2>2. UNCHANGED <<alive, starts>> /\ hungup' = hungup
        BY <1>3, <2>1 DEF Client, Ask, ReadAnswer, Connect, OnConnect, ProcessLine, WriteKills,
           ReadResponse, ReadJunk, ReadBehindJunk, ReadHangup, Reset, UInv, simVars, rxVars
    <2>3. c \in hungup => cpc'[c] = "done"
        <3> SUFFICES ASSUME cpc[c] = "done" PROVE cpc' = cpc
            BY DEF UInv
        <3> QED BY <1>3, <2>1 DEF Client, Ask, ReadAnswer, OnConnect, ProcessLine, WriteKills,
                ReadResponse, ReadJunk, ReadBehindJunk, ReadHangup, Reset, cliVars
    <2>4. \A x \in Clients : x # c => cpc'[x] = cpc[x]
        BY <1>1, <1>3, <2>1 DEF Client, Ask, ReadAnswer, Connect, OnConnect, ProcessLine,
           WriteKills, ReadResponse, ReadJunk, ReadBehindJunk, ReadHangup, AfterRead, Reset, cliVars
    <2> QED BY <1>1, <2>2, <2>3, <2>4 DEF UInv
<1>4. ASSUME NEW c \in Clients, AnswerOpen(c) \/ AcceptConnection(c) \/ TurnAway(c)
      PROVE  UInv'
    BY <1>4 DEF AnswerOpen, AcceptConnection, TurnAway, UInv, cliVars, simVars, rxVars
<1>5. ASSUME NEW c \in Clients, ServerRead(c) PROVE UInv'
    <2>1. hungup' = hungup /\ UNCHANGED <<alive, starts, cpc>>
        BY <1>5, ServerReadTInv DEF ServerRead, cliVars, simVars
    <2> QED BY <2>1 DEF UInv
<1>6. ASSUME NEW c \in Clients, ServerEof(c) PROVE UInv'
    <2>1. /\ conn = c /\ ~closing /\ HasClosed(c) /\ hungup' = hungup \cup {c}
          /\ UNCHANGED <<alive, starts, cpc>>
        BY <1>6 DEF ServerEof, cliVars, simVars
    <2>2. cpc[c] = "done"
        BY <1>1, <2>1 DEF Attached, Progress, HasClosed, Exited
    <2> QED BY <2>1, <2>2 DEF UInv
<1>7. ASSUME OnClose \/ UNCHANGED vars PROVE UInv'
    BY <1>7 DEF OnClose, UInv, vars, cliVars, simVars, rxVars
<1>8. ASSUME NEW c \in Clients, WriteKillsSimulator(c) PROVE FALSE
    BY <1>1, <1>8 DEF WriteKillsSimulator, Attached
<1> QED
    BY <1>2, <1>3, <1>4, <1>5, <1>6, <1>7, <1>8 DEF Next, Simulator

(* If nobody stops the simulator, no client stops in the middle of its     *)
(* session and every packet fits the buffer, no process dies of a signal.  *)
THEOREM NoSignal == MaxStarts = 1 /\ Fitting => (Spec => []NobodyKilled)
<1> SUFFICES ASSUME MaxStarts = 1, Fitting PROVE Spec => []NobodyKilled
    OBVIOUS
<1>1. Init => UInv
    BY DEF Init, UInv
<1>2. IInv /\ SInv /\ TInv /\ UInv /\ [Next]_vars => UInv'
    BY StepUInv
<1>3. TInv /\ UInv => NobodyKilled
    <2> SUFFICES ASSUME TInv, UInv, NEW c \in Clients, cpc[c] = "aborted" PROVE FALSE
        BY DEF UInv, NobodyKilled
    <2>1. c \in hungup
        BY DEF TInv, Progress
    <2> QED BY <2>1 DEF UInv
<1>4. Spec => [](IInv /\ SInv /\ TInv)
    BY InductiveSession
<1> QED
    BY <1>1, <1>2, <1>3, <1>4, PTL DEF Spec
=============================================================================
