-------------------------- MODULE RecvBuffer_proofs --------------------------
(***************************************************************************)
(* Proofs about RecvBuffer for every size of packet, every buffer capacity *)
(* and every way of cutting the stream into reads.                         *)
(***************************************************************************)
EXTENDS RecvBuffer, SequenceTheorems, TLAPS

(***************************************************************************)
(* s is the bytes of the packets a+1, a+2, ..., b, one after the other.    *)
(* Stated byte by byte: every byte is followed by the rest of its packet,  *)
(* and the last byte of a packet by the first byte of the next one.        *)
(***************************************************************************)
Left(s, i) == s[i].pkt.size - s[i].pos

Framed(s, a, b) ==
    /\ a <= b
    /\ s = <<>> => a = b
    /\ s # <<>> => s[1].pos = 1 /\ s[1].pkt.id = a + 1 /\ s[Len(s)].pkt.id = b
    /\ \A i \in 1..Len(s) :
         /\ s[i].pos \in 1..s[i].pkt.size
         /\ s[i].pkt.id <= b
         /\ i + Left(s, i) <= Len(s)
         /\ \A k \in 0..Left(s, i) :
              s[i + k] = [pkt |-> s[i].pkt, pos |-> s[i].pos + k]
         /\ i + Left(s, i) < Len(s) =>
              /\ s[i + Left(s, i) + 1].pos = 1
              /\ s[i + Left(s, i) + 1].pkt.id = s[i].pkt.id + 1

(* A packet is at least as long as a header and a checksum.                *)
LEMMA SizesFact == \A n \in Sizes : n \in Nat /\ n >= MinLen
BY ContentsAssumption DEF Sizes

(* The kinds and replies of what is sent are kinds and sizes.              *)
LEMMA KindsFact == SentKinds \subseteq Kinds /\ ReplySizes \subseteq Nat
BY ContentsAssumption DEF SentKinds, ReplySizes

(* What the peer sends has a size, a kind and a reply that are expected.   *)
LEMMA PeerSends ==
    ASSUME PeerSend
    PROVE  \E size \in Sizes, kind \in SentKinds, reply \in ReplySizes : Send(size, kind, reply)
<1>1. PICK p \in Contents : Send(p.size, p.kind, p.reply)
    BY DEF PeerSend
<1>2. p.size \in Sizes /\ p.kind \in SentKinds /\ p.reply \in ReplySizes
    BY DEF Sizes, SentKinds, ReplySizes
<1> QED
    BY <1>1, <1>2

(* What a byte tells about its packet.                                     *)
LEMMA PacketFacts ==
    ASSUME NEW b \in Byte
    PROVE  /\ b.pkt \in Packet /\ b.pos \in Nat
           /\ b.pkt.size \in Nat /\ b.pkt.size >= MinLen /\ b.pkt.size >= 2
           /\ b.pkt.id \in 1..MaxPackets /\ b.pkt.reply \in Nat
           /\ b.pkt.kind \in Kinds
<1>1. b.pkt \in Packet /\ b.pos \in Nat
    BY DEF Byte
<1>2. b.pkt.size \in Sizes /\ b.pkt.id \in 1..MaxPackets
    BY <1>1 DEF Packet
<1>3. b.pkt.kind \in SentKinds /\ b.pkt.reply \in ReplySizes
    BY <1>1 DEF Packet
<1>4. b.pkt.size \in Nat /\ b.pkt.size >= MinLen /\ b.pkt.size >= 2
    <2>1. \A n \in Sizes : n \in Nat /\ n >= MinLen
        BY SizesFact
    <2>2. \A n \in Sizes : n \in Nat /\ n >= MinLen /\ n >= 2
        BY <2>1, MinLenAssumption
    <2> QED BY <1>2, <2>2
<1>5. b.pkt.reply \in Nat /\ b.pkt.kind \in Kinds
    BY <1>3, ReplyAssumption, KindsFact
<1> QED
    BY <1>1, <1>2, <1>4, <1>5

(* The bytes of a packet are bytes, as many as it is long.                 *)
LEMMA BytesType ==
    ASSUME NEW p \in Packet
    PROVE  /\ Bytes(p) \in Seq(Byte)
           /\ Len(Bytes(p)) = p.size
           /\ \A i \in 1..p.size : Bytes(p)[i] = [pkt |-> p, pos |-> i]
<1>1. p.size \in Nat
    BY SizesFact DEF Packet
<1>2. \A i \in 1..p.size : [pkt |-> p, pos |-> i] \in Byte
    BY <1>1 DEF Byte
<1> QED
    BY <1>1, <1>2 DEF Bytes

(* Dropping the first frame of a framed stream leaves the rest framed.     *)
LEMMA FramedDrop ==
    ASSUME NEW s \in Seq(Byte), NEW a \in Nat, NEW b \in Nat,
           Framed(s, a, b), s # <<>>
    PROVE  /\ Claimed(s) \in 1..Len(s)
           /\ Whole(s, Claimed(s))
           /\ DropFrame(s) \in Seq(Byte)
           /\ Framed(DropFrame(s), a + 1, b)
<1> DEFINE n == s[1].pkt.size
           t == SubSeq(s, n + 1, Len(s))
<1>1. Len(s) \in Nat /\ Len(s) >= 1
    OBVIOUS
<1>2. \A i \in 1..Len(s) : s[i] \in Byte
    OBVIOUS
<1>3. n \in Nat /\ n >= 1 /\ s[1].pos = 1
    BY <1>1, <1>2, PacketFacts DEF Framed
<1>4. Left(s, 1) = n - 1
    BY <1>3 DEF Left
<1>5. n <= Len(s)
    BY <1>1, <1>3, <1>4 DEF Framed
<1>6. \A k \in 0..(n - 1) : s[1 + k] = [pkt |-> s[1].pkt, pos |-> 1 + k]
    BY <1>1, <1>3, <1>4 DEF Framed
<1>7. \A i \in 1..n : s[i] = [pkt |-> s[1].pkt, pos |-> i]
    <2> TAKE i \in 1..n
    <2>1. i - 1 \in 0..(n - 1) /\ 1 + (i - 1) = i
        BY <1>3
    <2> QED BY <2>1, <1>6
<1> HIDE DEF n
<1>8. /\ t \in Seq(Byte)
      /\ Len(t) = Len(s) - n
      /\ \A i \in 1..Len(t) : t[i] = s[n + i]
    <2>1. \A i \in (n + 1)..Len(s) : s[i] \in Byte
        BY <1>2, <1>3
    <2>2. n + 1 \in Int /\ Len(s) \in Int
        BY <1>1, <1>3
    <2>3. /\ t \in Seq(Byte)
          /\ Len(t) = IF n + 1 <= Len(s) THEN Len(s) - (n + 1) + 1 ELSE 0
          /\ \A i \in 1..(Len(s) - (n + 1) + 1) : t[i] = s[(n + 1) + i - 1]
        <3> QED BY <2>1, <2>2, SubSeqProperties
    <2>4. Len(t) = Len(s) - n
        BY <2>3, <1>1, <1>3, <1>5
    <2>5. \A i \in 1..Len(t) : t[i] = s[n + i]
        BY <2>3, <2>4, <1>1, <1>3
    <2> QED BY <2>3, <2>4, <2>5
<1> HIDE DEF t
<1>9. Framed(t, a + 1, b)
    <2>1. a + 1 <= b
        BY <1>1, <1>2, PacketFacts DEF Framed
    <2>2. ASSUME t = <<>> PROVE a + 1 = b
        <3>1. n = Len(s)
            BY <2>2, <1>8, <1>1, <1>3
        <3>2. s[n] = [pkt |-> s[1].pkt, pos |-> n]
            BY <1>7, <1>3
        <3>3. s[n].pkt = s[1].pkt
            BY <3>2
        <3>4. s[1].pkt.id = a + 1 /\ s[Len(s)].pkt.id = b
            BY DEF Framed
        <3> QED BY <3>1, <3>3, <3>4
    <2>3. ASSUME t # <<>> 
          PROVE t[1].pos = 1 /\ t[1].pkt.id = a + 2 /\ t[Len(t)].pkt.id = b
        <3>1. Len(t) >= 1 /\ n < Len(s)
            BY <2>3, <1>8, <1>1, <1>3
        <3>2. t[1] = s[n + 1] /\ t[Len(t)] = s[Len(s)]
            <4>1. 1 \in 1..Len(t) /\ Len(t) \in 1..Len(t) /\ n + Len(t) = Len(s)
                BY <3>1, <1>8, <1>1, <1>3
            <4>2. t[1] = s[n + 1] /\ t[Len(t)] = s[n + Len(t)]
                BY <4>1, <1>8
            <4> QED BY <4>1, <4>2
        <3>3. 1 + Left(s, 1) < Len(s) /\ 1 + Left(s, 1) + 1 = n + 1
            BY <3>1, <1>4, <1>3
        <3>4. s[n + 1].pos = 1 /\ s[n + 1].pkt.id = s[1].pkt.id + 1
            BY <3>3, <1>1 DEF Framed
        <3>5. s[1].pkt.id = a + 1 /\ s[Len(s)].pkt.id = b
            BY DEF Framed
        <3> QED BY <3>2, <3>4, <3>5
    <2>4. ASSUME NEW i \in 1..Len(t)
          PROVE  /\ t[i].pos \in 1..t[i].pkt.size
                 /\ t[i].pkt.id <= b
                 /\ i + Left(t, i) <= Len(t)
                 /\ \A k \in 0..Left(t, i) :
                      t[i + k] = [pkt |-> t[i].pkt, pos |-> t[i].pos + k]
                 /\ i + Left(t, i) < Len(t) =>
                      /\ t[i + Left(t, i) + 1].pos = 1
                      /\ t[i + Left(t, i) + 1].pkt.id = t[i].pkt.id + 1
        <3> DEFINE j == n + i
        <3>1. j \in 1..Len(s) /\ t[i] = s[j] /\ Left(t, i) = Left(s, j)
            BY <1>8, <1>1, <1>3 DEF Left
        <3>2. s[j].pos \in 1..s[j].pkt.size /\ s[j].pkt.id <= b /\ s[j].pkt.size \in Nat
            BY <3>1, <1>2, PacketFacts DEF Framed
        <3>3. Left(s, j) \in Nat
            BY <3>2 DEF Left
        <3>4. j + Left(s, j) <= Len(s)
            BY <3>1 DEF Framed
        <3>5. i + Left(t, i) <= Len(t)
            BY <3>1, <3>3, <3>4, <1>8, <1>1, <1>3
        <3>6. ASSUME NEW k \in 0..Left(t, i)
              PROVE t[i + k] = [pkt |-> t[i].pkt, pos |-> t[i].pos + k]
            <4>1. i + k \in 1..Len(t) /\ n + (i + k) = j + k
                <5>1. k \in Nat /\ k <= Left(t, i) /\ Left(t, i) \in Nat
                    BY <3>1, <3>3
                <5>2. i \in Nat /\ i >= 1 /\ n \in Nat /\ Len(t) \in Nat
                    BY <1>8, <1>1, <1>3
                <5>3. n + (i + k) = (n + i) + k
                    BY <5>1, <5>2
                <5> QED BY <5>1, <5>2, <5>3, <3>5
            <4>2. t[i + k] = s[j + k]
                BY <4>1, <1>8
            <4>3. s[j + k] = [pkt |-> s[j].pkt, pos |-> s[j].pos + k]
                BY <3>1 DEF Framed
            <4> QED BY <4>2, <4>3, <3>1
        <3>7. ASSUME i + Left(t, i) < Len(t)
              PROVE /\ t[i + Left(t, i) + 1].pos = 1
                    /\ t[i + Left(t, i) + 1].pkt.id = t[i].pkt.id + 1
            <4>1. i + Left(t, i) + 1 \in 1..Len(t)
                BY <3>7, <3>1, <3>3, <1>8, <1>1, <1>3
            <4>2. t[i + Left(t, i) + 1] = s[n + (i + Left(t, i) + 1)]
                BY <4>1, <1>8
            <4>3. n + (i + Left(t, i) + 1) = j + Left(s, j) + 1 /\ j + Left(s, j) < Len(s)
                BY <3>7, <3>1, <3>3, <1>8, <1>1, <1>3
            <4>4. s[j + Left(s, j) + 1].pos = 1 /\ s[j + Left(s, j) + 1].pkt.id = s[j].pkt.id + 1
                BY <4>3, <3>1 DEF Framed
            <4> QED BY <4>2, <4>3, <4>4, <3>1
        <3> QED BY <3>1, <3>2, <3>5, <3>6, <3>7
    <2> QED BY <2>1, <2>2, <2>3, <2>4 DEF Framed
<1> QED
    BY <1>1, <1>3, <1>5, <1>7, <1>8, <1>9 DEF Claimed, Whole, DropFrame, t, n

(* Concatenation, byte by byte.                                            *)
LEMMA ConcatBytes ==
    ASSUME NEW s \in Seq(Byte), NEW u \in Seq(Byte)
    PROVE  /\ s \o u \in Seq(Byte)
           /\ Len(s \o u) = Len(s) + Len(u)
           /\ \A i \in 1..(Len(s) + Len(u)) :
                 (s \o u)[i] = IF i <= Len(s) THEN s[i] ELSE u[i - Len(s)]
BY ConcatProperties

(* A framed stream with the next packet appended is framed.                *)
LEMMA FramedAppend ==
    ASSUME NEW s \in Seq(Byte), NEW a \in Nat, NEW b \in Nat,
           Framed(s, a, b), NEW p \in Packet, p.id = b + 1
    PROVE  Framed(s \o Bytes(p), a, b + 1)
<1> DEFINE m == Len(s)
           t == s \o Bytes(p)
<1>1. p.size \in Nat /\ p.size >= 1
    <2>1. \A n \in Sizes : n \in Nat /\ n >= MinLen
        BY SizesFact
    <2>2. \A n \in Sizes : n \in Nat /\ n >= 1
        BY <2>1, MinLenAssumption
    <2> QED BY <2>2 DEF Packet
<1>2. m \in Nat /\ \A i \in 1..m : s[i] \in Byte
    OBVIOUS
<1>3. /\ Bytes(p) \in Seq(Byte)
      /\ Len(Bytes(p)) = p.size
      /\ \A i \in 1..p.size : Bytes(p)[i] = [pkt |-> p, pos |-> i]
    BY BytesType
<1>4. /\ t \in Seq(Byte)
      /\ Len(t) = m + p.size
      /\ \A i \in 1..(m + p.size) : t[i] = IF i <= m THEN s[i] ELSE Bytes(p)[i - m]
    <2> DEFINE u == Bytes(p)
    <2> HIDE DEF u
    <2>1. u \in Seq(Byte) /\ Len(u) = p.size
        BY <1>3 DEF u
    <2>2. /\ s \o u \in Seq(Byte)
          /\ Len(s \o u) = m + p.size
          /\ \A i \in 1..(m + p.size) : (s \o u)[i] = IF i <= m THEN s[i] ELSE u[i - m]
        <3>1. s \in Seq(Byte) /\ u \in Seq(Byte)
            BY <2>1
        <3>2. /\ s \o u \in Seq(Byte)
              /\ Len(s \o u) = Len(s) + Len(u)
              /\ \A i \in 1..(Len(s) + Len(u)) :
                    (s \o u)[i] = IF i <= Len(s) THEN s[i] ELSE u[i - Len(s)]
            BY <3>1, ConcatBytes
        <3>3. Len(u) = p.size /\ Len(s) = m
            BY <2>1
        <3> QED BY <3>2, <3>3
    <2> QED BY <2>2 DEF u
<1> HIDE DEF t
<1>5. \A i \in 1..m : t[i] = s[i]
    BY <1>4, <1>2, <1>1
<1>6. \A i \in 1..p.size : t[m + i] = [pkt |-> p, pos |-> i]
    <2> TAKE i \in 1..p.size
    <2>1. m + i \in 1..(m + p.size) /\ ~(m + i <= m) /\ (m + i) - m = i
        BY <1>1, <1>2
    <2>2. t[m + i] = Bytes(p)[i]
        BY <2>1, <1>4
    <2> QED BY <2>2, <1>3
<1>7. a <= b + 1 /\ t # <<>>
    <2>1. Len(t) # 0
        BY <1>4, <1>1, <1>2
    <2> QED BY <2>1 DEF Framed
<1>8. t[1].pos = 1 /\ t[1].pkt.id = a + 1
    <2>1. CASE s = <<>>
        <3>1. m = 0 /\ a = b
            BY <2>1 DEF Framed
        <3>2. t[0 + 1] = [pkt |-> p, pos |-> 1]
            BY <3>1, <1>6, <1>1
        <3>3. t[1] = [pkt |-> p, pos |-> 1]
            BY <3>2
        <3> QED BY <3>3, <3>1
    <2>2. CASE s # <<>>
        <3>1. s[1].pos = 1 /\ s[1].pkt.id = a + 1
            BY <2>2 DEF Framed
        <3>2. 1 \in 1..m
            BY <2>2
        <3> QED BY <3>1, <3>2, <1>5
    <2> QED BY <2>1, <2>2
<1>9. t[Len(t)].pkt.id = b + 1
    <2>1. t[m + p.size] = [pkt |-> p, pos |-> p.size]
        BY <1>6, <1>1
    <2> QED BY <2>1, <1>4
<1>10. ASSUME NEW i \in 1..Len(t)
       PROVE  /\ t[i].pos \in 1..t[i].pkt.size
              /\ t[i].pkt.id <= b + 1
              /\ i + Left(t, i) <= Len(t)
              /\ \A k \in 0..Left(t, i) :
                   t[i + k] = [pkt |-> t[i].pkt, pos |-> t[i].pos + k]
              /\ i + Left(t, i) < Len(t) =>
                   /\ t[i + Left(t, i) + 1].pos = 1
                   /\ t[i + Left(t, i) + 1].pkt.id = t[i].pkt.id + 1
    <2>1. CASE i <= m
        <3>1. i \in 1..m /\ t[i] = s[i] /\ Left(t, i) = Left(s, i)
            BY <2>1, <1>2, <1>5, <1>4, <1>1 DEF Left
        <3>2. /\ s[i].pos \in 1..s[i].pkt.size
              /\ s[i].pkt.id <= b
              /\ i + Left(s, i) <= m
              /\ \A k \in 0..Left(s, i) :
                   s[i + k] = [pkt |-> s[i].pkt, pos |-> s[i].pos + k]
              /\ i + Left(s, i) < m =>
                   /\ s[i + Left(s, i) + 1].pos = 1
                   /\ s[i + Left(s, i) + 1].pkt.id = s[i].pkt.id + 1
            BY <3>1 DEF Framed
        <3>3. s[i].pkt.size \in Nat /\ s[i].pkt.id \in Nat
            BY <3>1, <1>2, PacketFacts
        <3>4. Left(s, i) \in Nat
            <4> DEFINE size == s[i].pkt.size
                       pos == s[i].pos
            <4>1. size \in Nat /\ pos \in 1..size
                BY <3>2, <3>3
            <4>2. Left(s, i) = size - pos
                BY DEF Left
            <4> HIDE DEF size, pos
            <4> QED BY <4>1, <4>2
        <3>5. i + Left(t, i) <= Len(t) /\ s[i].pkt.id <= b + 1
            <4>1. i + Left(s, i) <= m + p.size
                BY <3>2, <3>4, <1>2, <1>1
            <4>2. s[i].pkt.id <= b + 1
                BY <3>2, <3>3
            <4> QED BY <4>1, <4>2, <3>1, <1>4
        <3>6. ASSUME NEW k \in 0..Left(t, i)
              PROVE t[i + k] = [pkt |-> t[i].pkt, pos |-> t[i].pos + k]
            <4>1. i + k \in 1..m
                <5>1. k \in Nat /\ k <= Left(s, i)
                    BY <3>1, <3>4
                <5>2. i + Left(s, i) <= m /\ i \in Nat /\ i >= 1 /\ m \in Nat
                    BY <3>1, <3>2, <1>2
                <5> HIDE DEF m
                <5> QED BY <5>1, <5>2, <3>4
            <4>2. t[i + k] = s[i + k]
                BY <4>1, <1>5
            <4> QED BY <4>2, <3>1, <3>2
        <3>7. ASSUME i + Left(t, i) < Len(t)
              PROVE /\ t[i + Left(t, i) + 1].pos = 1
                    /\ t[i + Left(t, i) + 1].pkt.id = t[i].pkt.id + 1
            <4>1. CASE i + Left(s, i) < m
                <5>1. i + Left(s, i) + 1 \in 1..m
                    BY <4>1, <3>1, <3>4, <1>2
                <5>2. t[i + Left(s, i) + 1] = s[i + Left(s, i) + 1]
                    BY <5>1, <1>5
                <5> QED BY <5>2, <4>1, <3>1, <3>2
            <4>2. CASE i + Left(s, i) = m
                <5>1. t[m + 1] = [pkt |-> p, pos |-> 1]
                    BY <1>6, <1>1
                <5>2. s[i + Left(s, i)] = [pkt |-> s[i].pkt, pos |-> s[i].pos + Left(s, i)]
                    <6>1. Left(s, i) \in 0..Left(s, i)
                        BY <3>4
                    <6> QED BY <6>1, <3>2
                <5>3. s[m].pkt = s[i].pkt
                    BY <5>2, <4>2
                <5>4. s[m].pkt.id = b
                    <6>1. s # <<>>
                        BY <3>1
                    <6> QED BY <6>1 DEF Framed
                <5>5. t[m + 1].pos = 1 /\ t[m + 1].pkt.id = b + 1
                    BY <5>1
                <5>6. i + Left(t, i) + 1 = m + 1 /\ t[i].pkt.id = b
                    BY <5>3, <5>4, <4>2, <3>1
                <5> QED BY <5>5, <5>6
            <4>3. i + Left(s, i) < m \/ i + Left(s, i) = m
                <5>1. i + Left(s, i) <= m
                    BY <3>2
                <5>2. i + Left(s, i) \in Int /\ m \in Int
                    BY <3>1, <3>4, <1>2
                <5> HIDE DEF m
                <5> QED BY <5>1, <5>2
            <4> QED BY <4>1, <4>2, <4>3
        <3> QED BY <3>1, <3>2, <3>5, <3>6, <3>7
    <2>2. CASE i > m
        <3> DEFINE j == i - m
        <3>1. j \in 1..p.size /\ i = m + j
            BY <2>2, <1>4, <1>1, <1>2
        <3>2. t[i] = [pkt |-> p, pos |-> j]
            BY <3>1, <1>6
        <3>3. t[i].pkt = p /\ t[i].pos = j
            BY <3>2
        <3>4. Left(t, i) = p.size - j /\ i + Left(t, i) = Len(t)
            BY <3>3, <3>1, <1>4, <1>1, <1>2 DEF Left
        <3>5. ASSUME NEW k \in 0..Left(t, i)
              PROVE t[i + k] = [pkt |-> t[i].pkt, pos |-> t[i].pos + k]
            <4>1. j + k \in 1..p.size /\ i + k = m + (j + k)
                BY <3>1, <3>4, <1>1, <1>2
            <4>2. t[i + k] = [pkt |-> p, pos |-> j + k]
                BY <4>1, <1>6
            <4> QED BY <4>2, <3>3
        <3>6. t[i].pos \in 1..t[i].pkt.size /\ t[i].pkt.id <= b + 1
            BY <3>1, <3>3
        <3>7. i + Left(t, i) <= Len(t) /\ ~(i + Left(t, i) < Len(t))
            BY <3>4, <1>4, <1>2, <1>1
        <3> QED BY <3>5, <3>6, <3>7
    <2> QED BY <2>1, <2>2, <1>2, <1>4, <1>1
<1> QED
    <2> HIDE DEF m
    <2> QED BY <1>7, <1>8, <1>9, <1>10 DEF Framed, t

-----------------------------------------------------------------------------
(* The pieces the callback cuts the stream into.                           *)

(* Subsequences, byte by byte.                                             *)
LEMMA SubSeqBytes ==
    ASSUME NEW s \in Seq(Byte), NEW m \in 1..(Len(s) + 1), NEW n \in (m - 1)..Len(s)
    PROVE  /\ SubSeq(s, m, n) \in Seq(Byte)
           /\ Len(SubSeq(s, m, n)) = n - m + 1
           /\ \A i \in 1..(n - m + 1) : SubSeq(s, m, n)[i] = s[m + i - 1]
<1>1. Len(s) \in Nat /\ m \in Int /\ n \in Int
    OBVIOUS
<1>2. \A i \in m..n : s[i] \in Byte
    BY <1>1
<1>3. /\ SubSeq(s, m, n) \in Seq(Byte)
      /\ Len(SubSeq(s, m, n)) = IF m <= n THEN n - m + 1 ELSE 0
      /\ \A i \in 1..(n - m + 1) : SubSeq(s, m, n)[i] = s[m + i - 1]
    BY <1>1, <1>2, SubSeqProperties
<1>4. Len(SubSeq(s, m, n)) = n - m + 1
    BY <1>1, <1>3
<1> QED
    BY <1>3, <1>4

(* A stream cut anywhere is its two parts put together.                    *)
LEMMA Split ==
    ASSUME NEW s \in Seq(Byte), NEW n \in 0..Len(s)
    PROVE  /\ SubSeq(s, 1, n) \in Seq(Byte)
           /\ SubSeq(s, n + 1, Len(s)) \in Seq(Byte)
           /\ Len(SubSeq(s, 1, n)) = n
           /\ Len(SubSeq(s, n + 1, Len(s))) = Len(s) - n
           /\ s = SubSeq(s, 1, n) \o SubSeq(s, n + 1, Len(s))
<1>1. Len(s) \in Nat
    OBVIOUS
<1>2. 1 \in 1..(Len(s) + 1) /\ n \in (1 - 1)..Len(s) /\ Len(s) \in n..Len(s)
    BY <1>1
<1>3. n + 1 \in 1..(Len(s) + 1) /\ Len(s) \in (n + 1 - 1)..Len(s)
    BY <1>1
<1>4. /\ SubSeq(s, 1, n) \in Seq(Byte)
      /\ Len(SubSeq(s, 1, n)) = n - 1 + 1
    BY <1>2, SubSeqBytes
<1>5. /\ SubSeq(s, n + 1, Len(s)) \in Seq(Byte)
      /\ Len(SubSeq(s, n + 1, Len(s))) = Len(s) - (n + 1) + 1
    BY <1>3, SubSeqBytes
<1>6. SubSeq(s, 1, n) \o SubSeq(s, n + 1, Len(s)) = SubSeq(s, 1, Len(s))
    BY <1>2, ConcatAdjacentSubSeq
<1>7. SubSeq(s, 1, Len(s)) = s
    BY SubSeqFull
<1>8. n - 1 + 1 = n /\ Len(s) - (n + 1) + 1 = Len(s) - n
    BY <1>1
<1> QED
    BY <1>4, <1>5, <1>6, <1>7, <1>8

(* What the decoder sees at the head of x it still sees in x \o y. *)
LEMMA HeadStable ==
    ASSUME NEW x \in Seq(Byte), NEW y \in Seq(Byte), x # <<>>
    PROVE  /\ Claimed(x \o y) = Claimed(x)
           /\ Claimed(x) \in Nat /\ Claimed(x) >= MinLen
           /\ Rejects(x) => Rejects(x \o y)
           /\ Synced(x \o y) => Synced(x)
<1> DEFINE z == x \o y
<1>1. Len(x) \in Nat /\ Len(x) >= 1 /\ Len(y) \in Nat
    OBVIOUS
<1>2. z \in Seq(Byte) /\ Len(z) = Len(x) + Len(y)
    BY ConcatBytes
<1>3. \A i \in 1..Len(x) : z[i] = x[i]
    <2> TAKE i \in 1..Len(x)
    <2>1. i \in 1..(Len(x) + Len(y)) /\ i <= Len(x)
        BY <1>1
    <2> QED BY <2>1, ConcatBytes
<1> HIDE DEF z
<1>4. z[1] = x[1]
    BY <1>1, <1>3
<1>5. Claimed(z) = Claimed(x)
    BY <1>4 DEF Claimed
<1>6. Claimed(x) \in Nat /\ Claimed(x) >= MinLen
    <2>1. x[1] \in Byte
        BY <1>1
    <2> QED BY <2>1, PacketFacts DEF Claimed
<1>7. ASSUME NEW n \in Nat, n <= Len(x)
      PROVE  Whole(z, n) <=> Whole(x, n)
    <2>1. \A i \in 1..n : z[i] = x[i]
        BY <1>7, <1>3, <1>1
    <2> QED BY <2>1, <1>4 DEF Whole
<1>8. ASSUME Rejects(x) PROVE Rejects(z)
    <2>1. Len(x) >= MinLen /\ Len(z) >= MinLen
        BY <1>8, <1>2, <1>1, MinLenAssumption DEF Rejects
    <2>2. MinLen - 1 \in Nat /\ MinLen - 1 <= Len(x)
        BY <2>1, <1>1, MinLenAssumption
    <2>3. HeaderWhole(z) <=> HeaderWhole(x)
        BY <2>2, <1>7 DEF HeaderWhole
    <2>4. CASE ~HeaderWhole(x)
        BY <2>1, <2>3, <2>4 DEF Rejects
    <2>5. CASE HeaderWhole(x)
        <3>1. Len(x) >= Claimed(x) /\ ~Intact(x)
            BY <2>5, <1>8 DEF Rejects
        <3>2. Whole(z, Claimed(x)) <=> Whole(x, Claimed(x))
            BY <3>1, <1>6, <1>7
        <3>3. ~Intact(z)
            BY <3>1, <3>2, <1>4, <1>5 DEF Intact
        <3>4. Len(z) >= Claimed(z)
            BY <3>1, <1>5, <1>6, <1>2, <1>1
        <3> QED BY <2>1, <3>3, <3>4 DEF Rejects
    <2> QED BY <2>4, <2>5
<1>9. ASSUME Synced(z) PROVE Synced(x)
    <2> SUFFICES ASSUME NEW i \in 1..Len(x), i <= Claimed(x)
                 PROVE  x[i] = [pkt |-> x[1].pkt, pos |-> i]
        BY DEF Synced
    <2>1. i \in 1..Len(z)
        BY <1>1, <1>2
    <2>2. z[i] = [pkt |-> z[1].pkt, pos |-> i]
        BY <2>1, <1>5, <1>9 DEF Synced
    <2> QED BY <2>2, <1>3, <1>4
<1> QED
    BY <1>5, <1>6, <1>8, <1>9 DEF z

(* A framed stream is in sync, and so is every prefix of it. *)
LEMMA FramedSynced ==
    ASSUME NEW x \in Seq(Byte), NEW y \in Seq(Byte),
           NEW a \in Nat, NEW b \in Nat, Framed(x \o y, a, b)
    PROVE  Synced(x)
<1>1. CASE x = <<>>
    BY <1>1 DEF Synced
<1>2. CASE x # <<>>
    <2> DEFINE z == x \o y
    <2>1. z \in Seq(Byte) /\ z # <<>>
        BY <1>2, ConcatBytes
    <2> HIDE DEF z
    <2>2. Claimed(z) \in 1..Len(z) /\ Whole(z, Claimed(z))
        BY <2>1, FramedDrop DEF z
    <2>3. Synced(z)
        BY <2>2, <2>1 DEF Synced, Whole
    <2> QED BY <2>3, <1>2, HeadStable DEF z
<1> QED
    BY <1>1, <1>2

-----------------------------------------------------------------------------
(* Type correctness.                                                       *)

(* An accepted frame is inside the buffer, and so is what follows it.      *)
LEMMA AcceptsFacts ==
    ASSUME TypeOK, Accepts(buffer)
    PROVE  /\ buffer # <<>> /\ buffer[1] \in Byte
           /\ Claimed(buffer) \in 1..Len(buffer)
           /\ DropFrame(buffer) \in Seq(Byte)
           /\ Len(DropFrame(buffer)) <= Len(buffer)
<1>1. Len(buffer) \in Nat /\ buffer \in Seq(Byte)
    BY DEF TypeOK
<1>2. Len(buffer) >= 2
    BY <1>1, MinLenAssumption DEF Accepts
<1>3. buffer # <<>> /\ buffer[1] \in Byte
    BY <1>1, <1>2
<1>4. Claimed(buffer) \in 1..Len(buffer)
    BY <1>1, <1>3, PacketFacts DEF Accepts, Claimed
<1>5. DropFrame(buffer) \in Seq(Byte) /\ Len(DropFrame(buffer)) = Len(buffer) - Claimed(buffer)
    <2>1. Claimed(buffer) \in 0..Len(buffer)
        BY <1>4
    <2> QED BY <1>1, <2>1, Split DEF DropFrame
<1> QED
    BY <1>1, <1>3, <1>4, <1>5

(* A copy fits; bytes are left uncopied only by a buffer that is full.     *)
LEMMA CopyFacts ==
    ASSUME TypeOK
    PROVE  /\ CopySize \in 0..Len(chunk)
           /\ Len(buffer) + CopySize <= Cap
           /\ CopySize = 0 => chunk = <<>> \/ Len(buffer) = Cap
           /\ Len(buffer) = Cap => CopySize = 0
<1>1. Len(chunk) \in Nat /\ Len(buffer) \in Nat /\ Len(buffer) <= Cap /\ chunk \in Seq(Byte)
    BY DEF TypeOK
<1> QED
    BY <1>1, CapAssumption DEF CopySize

(* Every action keeps every variable in its domain; in particular the      *)
(* copies of on_tcp_svr_read and on_tcp_cli_read never write past the end  *)
(* of the buffer, whatever the peer sends and however it is cut.           *)
THEOREM TypeCorrect == Spec => []TypeOK
<1>1. Init => TypeOK
    <2>1. 0 <= Cap /\ 0 \in 0..MaxPackets /\ OutInit \in Nat
        BY BoundAssumption, CapAssumption, MinLenAssumption, ReplyAssumption
    <2>2. <<>> \in Seq(Byte) /\ Len(<<>>) = 0 /\ <<>> \in Seq(1..MaxPackets)
        BY EmptySeq
    <2> SUFFICES ASSUME Init PROVE TypeOK
        OBVIOUS
    <2>3. nsent \in 0..MaxPackets /\ outcap \in Nat /\ junk \in Nat
        BY <2>1 DEF Init
    <2>4. /\ wire \in Seq(Byte) /\ chunk \in Seq(Byte) /\ buffer \in Seq(Byte)
          /\ handled \in Seq(1..MaxPackets)
        BY <2>2 DEF Init
    <2>5. Len(buffer) <= Cap
        BY <2>1, <2>2 DEF Init
    <2>6. /\ fin \in BOOLEAN /\ lost \in BOOLEAN
          /\ pc \in {"poll", "process", "copy", "closed"}
          /\ rejected \subseteq {"illegal", "fatal"} /\ role \in Roles
        BY DEF Init
    <2> QED BY <2>3, <2>4, <2>5, <2>6 DEF TypeOK
<1>2. TypeOK /\ [Next]_vars => TypeOK'
    <2> SUFFICES ASSUME TypeOK, [Next]_vars PROVE TypeOK'
        OBVIOUS
    <2>1. ASSUME NEW size \in Sizes, NEW kind \in SentKinds, NEW reply \in ReplySizes,
                 Send(size, kind, reply)
          PROVE  TypeOK'
        <3> DEFINE p == [id |-> nsent + 1, size |-> size, kind |-> kind, reply |-> reply]
        <3>1. nsent + 1 \in 1..MaxPackets
            BY <2>1, BoundAssumption DEF Send, TypeOK
        <3>2. p \in Packet
            BY <3>1 DEF Packet
        <3>3. wire \in Seq(Byte) /\ Bytes(p) \in Seq(Byte)
            BY <3>2, BytesType DEF TypeOK
        <3> HIDE DEF p
        <3>4. wire' = wire \o Bytes(p)
            BY <2>1 DEF Send, p
        <3>5. wire' \in Seq(Byte)
            BY <3>3, <3>4, ConcatBytes
        <3> QED BY <2>1, <3>1, <3>5 DEF Send, TypeOK
    <2>2. CASE PeerClose
        BY <2>2 DEF PeerClose, TypeOK
    <2>3. ASSUME NEW n \in 1..Len(wire), Read(n) PROVE TypeOK'
        <3>1. wire \in Seq(Byte) /\ n \in 0..Len(wire)
            BY DEF TypeOK
        <3>2. chunk' \in Seq(Byte) /\ wire' \in Seq(Byte)
            BY <2>3, <3>1, Split DEF Read
        <3> QED BY <2>3, <3>2, ReplyAssumption DEF Read, TypeOK
    <2>4. CASE ReadEof
        BY <2>4 DEF ReadEof, TypeOK
    <2>5. CASE ProcessFrame
        <3>1. Accepts(buffer)
            BY <2>5 DEF ProcessFrame
        <3>2. buffer[1].pkt.id \in 1..MaxPackets
            BY <3>1, AcceptsFacts, PacketFacts
        <3>3. handled' \in Seq(1..MaxPackets)
            BY <2>5, <3>2 DEF ProcessFrame, TypeOK
        <3>4. buffer' \in Seq(Byte) /\ Len(buffer') <= Len(buffer)
            BY <2>5, <3>1, AcceptsFacts DEF ProcessFrame
        <3>5. Len(buffer') <= Cap
            BY <3>4, CapAssumption DEF TypeOK
        <3> QED BY <2>5, <3>3, <3>4, <3>5 DEF ProcessFrame, TypeOK
    <2>6. CASE GrowReplyBuffer
        <3>1. buffer[1].pkt.reply \in Nat
            BY <2>6, AcceptsFacts, PacketFacts DEF GrowReplyBuffer
        <3>2. outcap' \in Nat
            BY <2>6, <3>1 DEF GrowReplyBuffer, TypeOK
        <3> QED BY <2>6, <3>2 DEF GrowReplyBuffer, TypeOK
    <2>7. CASE ProcessNeedsMore
        BY <2>7 DEF ProcessNeedsMore, TypeOK
    <2>8. CASE ProcessRejects
        BY <2>8 DEF ProcessRejects, TypeOK, RejectKind
    <2>9. CASE CopyChunk
        <3>1. chunk \in Seq(Byte) /\ buffer \in Seq(Byte) /\ CopySize \in 0..Len(chunk)
            BY CopyFacts DEF TypeOK
        <3>2. /\ SubSeq(chunk, 1, CopySize) \in Seq(Byte)
              /\ Len(SubSeq(chunk, 1, CopySize)) = CopySize
              /\ chunk' \in Seq(Byte)
            BY <2>9, <3>1, Split DEF CopyChunk
        <3>3. /\ buffer' \in Seq(Byte)
              /\ Len(buffer') = Len(buffer) + CopySize
            BY <2>9, <3>1, <3>2, ConcatBytes DEF CopyChunk
        <3>4. Len(buffer') <= Cap
            BY <3>3, CopyFacts
        <3> QED BY <2>9, <3>2, <3>3, <3>4, ReplyAssumption DEF CopyChunk, TypeOK
    <2>10. CASE ReadDone
        BY <2>10 DEF ReadDone, TypeOK
    <2>11. CASE Stall
        BY <2>11 DEF Stall, TypeOK
    <2>12. CASE UNCHANGED vars
        BY <2>12 DEF vars, TypeOK
    <2> QED
        BY <2>1, <2>2, <2>3, <2>4, <2>5, <2>6, <2>7, <2>8, <2>9, <2>10, <2>11, <2>12, PeerSends
        DEF Next, Peer, Callback, ReadChunk
<1> QED
    BY <1>1, <1>2, PTL DEF Spec

-----------------------------------------------------------------------------
(***************************************************************************)
(* The inductive invariant.  What is in the buffer, in the current read    *)
(* and on the wire is the rest of the stream, and it starts with the       *)
(* packet after the last one handled.  Once a stalled callback has thrown  *)
(* bytes away that is no longer so, but then the full buffer holds nothing *)
(* that could ever be processed, and no later step changes it.             *)
(***************************************************************************)
Rest == buffer \o (chunk \o wire)

Numbered == \A i \in 1..Len(handled) : handled[i] = i

Window == ~lost => Framed(Rest, Len(handled), nsent)

Wedged == lost => Len(buffer) = Cap /\ ~Accepts(buffer) /\ Len(handled) < nsent

Quiet == pc # "process" => ~Accepts(buffer)

NothingPending == pc = "poll" => chunk = <<>>

IInv ==
    /\ Numbered
    /\ Len(handled) <= nsent
    /\ InSync
    /\ Window
    /\ Wedged
    /\ Quiet
    /\ NothingPending
    /\ RejectBlocks

(* The parts of the stream are sequences of bytes.                         *)
LEMMA RestType ==
    ASSUME TypeOK
    PROVE  /\ buffer \in Seq(Byte) /\ chunk \in Seq(Byte) /\ wire \in Seq(Byte)
           /\ chunk \o wire \in Seq(Byte)
           /\ Rest \in Seq(Byte)
           /\ Len(handled) \in Nat /\ nsent \in Nat
BY ConcatBytes DEF TypeOK, Rest

(* A frame is not both rejected and accepted.                              *)
LEMMA RejectsNotAccepts == ASSUME NEW buf, Rejects(buf) PROVE ~Accepts(buf)
BY DEF Rejects, Accepts

(* A frame that is not complete is not accepted.                           *)
LEMMA NeedMoreNotAccepts ==
    ASSUME TypeOK, NeedMore(buffer) PROVE ~Accepts(buffer)
<1> SUFFICES ASSUME Accepts(buffer) PROVE FALSE
    OBVIOUS
<1>1. Len(buffer) < Claimed(buffer) /\ Len(buffer) >= Claimed(buffer)
    BY DEF NeedMore, Accepts
<1>2. Claimed(buffer) \in Nat /\ Len(buffer) \in Nat
    BY AcceptsFacts DEF TypeOK
<1> QED
    BY <1>1, <1>2

(* The frame at the head of the buffer is the next packet to handle.       *)
LEMMA HeadIsNext ==
    ASSUME TypeOK, ~lost, Window, buffer # <<>>
    PROVE  /\ buffer[1].pkt.id = Len(handled) + 1
           /\ Len(handled) < nsent
<1>1. Framed(Rest, Len(handled), nsent)
    BY DEF Window
<1>2. Len(buffer) \in Nat /\ Len(buffer) >= 1 /\ Len(chunk \o wire) \in Nat
    BY RestType
<1>3. Rest[1] = buffer[1] /\ Rest # <<>> /\ Len(Rest) >= 1
    <2>1. Len(Rest) = Len(buffer) + Len(chunk \o wire)
        BY RestType, ConcatBytes DEF Rest
    <2>2. 1 \in 1..(Len(buffer) + Len(chunk \o wire)) /\ 1 <= Len(buffer)
        BY <1>2
    <2>3. Rest[1] = buffer[1]
        BY <2>2, RestType, ConcatBytes DEF Rest
    <2> QED BY <1>2, <2>1, <2>3, RestType
<1>4. Rest[1].pkt.id = Len(handled) + 1
    BY <1>1, <1>3 DEF Framed
<1>5. 1 \in 1..Len(Rest)
    BY <1>3, RestType
<1>6. Rest[1].pkt.id <= nsent
    BY <1>1, <1>5 DEF Framed
<1> QED
    BY <1>3, <1>4, <1>6, RestType

(* Steps that leave the stream, the buffer and what was handled alone.     *)
LEMMA StillWindow ==
    ASSUME TypeOK, IInv, Rest' = Rest, buffer' = buffer, lost' = lost,
           handled' = handled, nsent' = nsent
    PROVE  /\ Numbered' /\ (Len(handled) <= nsent)' /\ InSync' /\ Window' /\ Wedged'
BY DEF IInv, Numbered, InSync, Window, Wedged, Synced, Framed, Left, Accepts, HeaderWhole,
       Whole, Claimed, Intact

(* The invariant holds when the connection opens.                          *)
LEMMA InitIInv == Init => IInv
<1> SUFFICES ASSUME Init PROVE IInv
    OBVIOUS
<1>1. buffer = <<>> /\ chunk = <<>> /\ wire = <<>> /\ handled = <<>> /\ nsent = 0
    BY DEF Init
<1>2. Len(buffer) = 0 /\ Len(handled) = 0
    BY <1>1
<1>3. Rest = <<>>
    BY <1>1, ConcatEmptySeq DEF Rest
<1>4. Framed(Rest, Len(handled), nsent)
    BY <1>1, <1>2, <1>3 DEF Framed
<1>5. ~Accepts(buffer)
    BY <1>2, MinLenAssumption DEF Accepts
<1>6. Numbered /\ InSync /\ Len(handled) <= nsent
    BY <1>1, <1>2 DEF Numbered, InSync, Synced
<1>7. lost = FALSE /\ rejected = {}
    BY DEF Init
<1> QED
    BY <1>1, <1>4, <1>5, <1>6, <1>7
    DEF IInv, Window, Wedged, Quiet, NothingPending, RejectBlocks

(* Three parts of a stream can be put together in either order.            *)
LEMMA AssocBytes ==
    ASSUME NEW x \in Seq(Byte), NEW y \in Seq(Byte), NEW z \in Seq(Byte)
    PROVE  (x \o y) \o z = x \o (y \o z)
BY ConcatAssociative

(* The peer's next packet extends the stream.                              *)
LEMMA SendIInv ==
    ASSUME TypeOK, IInv, NEW size \in Sizes, NEW kind \in SentKinds, NEW reply \in ReplySizes,
           Send(size, kind, reply)
    PROVE  IInv'
<1> DEFINE p == [id |-> nsent + 1, size |-> size, kind |-> kind, reply |-> reply]
<1>1. nsent \in Nat /\ nsent + 1 \in 1..MaxPackets
    BY BoundAssumption DEF Send, TypeOK
<1>2. p \in Packet /\ p.id = nsent + 1
    BY <1>1 DEF Packet
<1> HIDE DEF p
<1>3. wire' = wire \o Bytes(p)
    BY DEF Send, p
<1>4. Bytes(p) \in Seq(Byte)
    BY <1>2, BytesType
<1>5. Rest' = Rest \o Bytes(p)
    <2> DEFINE q == Bytes(p)
               y == chunk \o wire
    <2>1. Rest' = buffer \o (chunk \o (wire \o q))
        BY <1>3 DEF Rest, Send
    <2>2. /\ q \in Seq(Byte) /\ y \in Seq(Byte) /\ buffer \in Seq(Byte)
          /\ chunk \in Seq(Byte) /\ wire \in Seq(Byte)
        BY <1>4, RestType
    <2> HIDE DEF q
    <2>3. y \o q = chunk \o (wire \o q)
        <3>1. chunk \in Seq(Byte) /\ wire \in Seq(Byte) /\ q \in Seq(Byte)
            BY <2>2
        <3> QED BY <3>1, AssocBytes
    <2> HIDE DEF y
    <2>4. (buffer \o y) \o q = buffer \o (y \o q)
        <3>1. buffer \in Seq(Byte) /\ y \in Seq(Byte) /\ q \in Seq(Byte)
            BY <2>2
        <3> QED BY <3>1, AssocBytes
    <2> QED BY <2>1, <2>3, <2>4 DEF Rest, y, q
<1>6. handled' = handled /\ lost' = lost /\ buffer' = buffer /\ nsent' = nsent + 1
      /\ pc' = pc /\ chunk' = chunk /\ rejected' = rejected
    BY DEF Send
<1>7. Window'
    <2> SUFFICES ASSUME ~lost PROVE Framed(Rest', Len(handled), nsent + 1)
        BY <1>6 DEF Window
    <2>1. Framed(Rest, Len(handled), nsent)
        BY DEF IInv, Window
    <2> QED BY <2>1, <1>1, <1>2, <1>5, RestType, FramedAppend
<1>8. Len(handled) \in Nat /\ Len(handled) <= nsent
    BY RestType DEF IInv
<1>9. (Len(handled) <= nsent)'
    BY <1>1, <1>6, <1>8
<1>10. RejectBlocks'
    <2> SUFFICES ASSUME rejected # {} PROVE Rejects(buffer) /\ Len(handled) < nsent + 1
        BY <1>6 DEF RejectBlocks, Rejects, HeaderWhole, Whole, Claimed, Intact
    <2> QED BY <1>1, <1>8 DEF IInv, RejectBlocks
<1>11. /\ Numbered' /\ InSync' /\ Quiet' /\ NothingPending'
    BY <1>6 DEF IInv, Numbered, InSync, Synced, Quiet, NothingPending,
                Accepts, HeaderWhole, Whole, Claimed, Intact
<1>12. Wedged'
    <2> SUFFICES ASSUME lost
                 PROVE  Len(buffer) = Cap /\ ~Accepts(buffer) /\ Len(handled) < nsent + 1
        BY <1>6 DEF Wedged, Accepts, HeaderWhole, Whole, Claimed, Intact
    <2> QED BY <1>1, <1>8 DEF IInv, Wedged
<1> QED
    BY <1>7, <1>9, <1>10, <1>11, <1>12 DEF IInv

(* A read moves bytes from the wire to the chunk.                          *)
LEMMA ReadIInv ==
    ASSUME TypeOK, IInv, NEW n \in 1..Len(wire), Read(n)
    PROVE  IInv'
<1>1. chunk = <<>> /\ ~Accepts(buffer)
    BY DEF IInv, NothingPending, Quiet, Read
<1>2. wire \in Seq(Byte) /\ n \in 0..Len(wire)
    BY RestType
<1>3. chunk' \o wire' = wire
    BY <1>2, Split DEF Read
<1>4. chunk \o wire = wire
    BY <1>1, <1>2, ConcatEmptySeq
<1>5. Rest' = Rest
    BY <1>3, <1>4 DEF Rest, Read
<1>6. handled' = handled /\ lost' = lost /\ buffer' = buffer /\ nsent' = nsent
      /\ rejected' = rejected /\ pc' = "process"
    BY DEF Read
<1>7. Numbered' /\ (Len(handled) <= nsent)' /\ InSync' /\ Window' /\ Wedged'
    BY <1>5, <1>6, StillWindow
<1>8. RejectBlocks'
    BY <1>6 DEF IInv, RejectBlocks, Rejects, HeaderWhole, Whole, Claimed, Intact
<1> QED
    BY <1>6, <1>7, <1>8 DEF IInv, Quiet, NothingPending

(* Processing a frame takes the first packet from the stream.              *)
LEMMA ProcessIInv ==
    ASSUME TypeOK, IInv, ProcessFrame
    PROVE  IInv'
<1> DEFINE y == chunk \o wire
           h == Len(handled)
<1>1. Accepts(buffer) /\ ~lost
    BY DEF ProcessFrame, IInv, Wedged
<1>2. /\ buffer # <<>> /\ Claimed(buffer) \in 1..Len(buffer)
      /\ DropFrame(buffer) \in Seq(Byte)
    BY <1>1, AcceptsFacts
<1>3. buffer[1].pkt.id = h + 1 /\ h < nsent /\ h \in Nat /\ nsent \in Nat
    BY <1>1, <1>2, HeadIsNext, RestType DEF IInv
<1>4. Framed(Rest, h, nsent)
    BY <1>1 DEF IInv, Window
<1>5. buffer \in Seq(Byte) /\ y \in Seq(Byte) /\ Rest = buffer \o y /\ Rest \in Seq(Byte)
    BY RestType DEF Rest
<1> HIDE DEF y
<1>6. Rest # <<>> /\ Claimed(Rest) = Claimed(buffer)
    <2>1. Rest # <<>>
        BY <1>2, <1>5, ConcatEqualIffEmpty
    <2> QED BY <2>1, <1>2, <1>5, HeadStable
<1>7. Framed(DropFrame(Rest), h + 1, nsent)
    BY <1>3, <1>4, <1>5, <1>6, FramedDrop
<1>8. DropFrame(Rest) = DropFrame(buffer) \o y
    <2> DEFINE c == Claimed(buffer)
               d == SubSeq(buffer, 1, c)
    <2>1. c \in 1..Len(buffer) /\ c \in 0..Len(buffer)
        BY <1>2
    <2>2. /\ d \in Seq(Byte) /\ Len(d) = c /\ DropFrame(buffer) \in Seq(Byte)
          /\ buffer = d \o DropFrame(buffer)
        BY <2>1, <1>5, Split DEF DropFrame
    <2> HIDE DEF d, c
    <2>3. Rest = d \o (DropFrame(buffer) \o y)
        <3> DEFINE e == DropFrame(buffer)
        <3>1. e \in Seq(Byte) /\ buffer = d \o e
            BY <2>2
        <3> HIDE DEF e
        <3>2. (d \o e) \o y = d \o (e \o y)
            <4>1. d \in Seq(Byte) /\ e \in Seq(Byte) /\ y \in Seq(Byte)
                BY <3>1, <2>2, <1>5
            <4> QED BY <4>1, AssocBytes
        <3>3. Rest = (d \o e) \o y
            BY <3>1, <1>5
        <3> QED BY <3>2, <3>3 DEF e
    <2>4. Len(Rest) = c + Len(DropFrame(buffer) \o y) /\ DropFrame(buffer) \o y \in Seq(Byte)
        BY <2>2, <2>3, <1>5, ConcatBytes
    <2>5. c \in 0..Len(Rest)
        BY <2>1, <2>4, <1>5
    <2>6. /\ SubSeq(Rest, 1, c) \in Seq(Byte)
          /\ SubSeq(Rest, c + 1, Len(Rest)) \in Seq(Byte)
          /\ Len(SubSeq(Rest, c + 1, Len(Rest))) = Len(Rest) - c
        BY <2>5, <1>5, Split
    <2>7. \A i \in 1..(Len(Rest) - c) :
             SubSeq(Rest, c + 1, Len(Rest))[i] = (DropFrame(buffer) \o y)[i]
        <3> TAKE i \in 1..(Len(Rest) - c)
        <3>1. c + 1 \in 1..(Len(Rest) + 1) /\ Len(Rest) \in (c + 1 - 1)..Len(Rest)
            BY <2>5, <1>5
        <3>2. i \in 1..(Len(Rest) - (c + 1) + 1)
            BY <2>5, <1>5
        <3>3. SubSeq(Rest, c + 1, Len(Rest))[i] = Rest[c + 1 + i - 1]
            BY <3>1, <3>2, <1>5, SubSeqBytes
        <3>4. c + 1 + i - 1 = c + i /\ c + i \in 1..(Len(d) + Len(DropFrame(buffer) \o y))
              /\ ~(c + i <= Len(d)) /\ (c + i) - Len(d) = i
            BY <2>1, <2>2, <2>4, <2>5, <1>5
        <3>5. Rest[c + i] = (DropFrame(buffer) \o y)[(c + i) - Len(d)]
            BY <3>4, <2>2, <2>3, <2>4, ConcatBytes
        <3> QED BY <3>3, <3>4, <3>5
    <2>8. Len(SubSeq(Rest, c + 1, Len(Rest))) = Len(DropFrame(buffer) \o y)
        BY <2>4, <2>6, <2>5, <1>5
    <2>9. SubSeq(Rest, c + 1, Len(Rest)) = DropFrame(buffer) \o y
        <3> DEFINE l == SubSeq(Rest, c + 1, Len(Rest))
                   r == DropFrame(buffer) \o y
        <3>1. l \in Seq(Byte) /\ r \in Seq(Byte) /\ Len(l) = Len(r)
              /\ Len(l) = Len(Rest) - c
            BY <2>4, <2>6, <2>8
        <3>2. \A i \in 1..Len(l) : l[i] = r[i]
            BY <3>1, <2>7
        <3> HIDE DEF l, r
        <3>3. l = r
            BY <3>1, <3>2, SeqEqual
        <3> QED BY <3>3 DEF l, r
    <2> QED BY <2>9, <1>6 DEF DropFrame, c
<1>9. /\ buffer' = DropFrame(buffer) /\ handled' = Append(handled, h + 1) /\ lost' = lost
      /\ nsent' = nsent /\ rejected' = rejected /\ pc' = pc /\ pc = "process"
      /\ chunk' = chunk /\ wire' = wire
    BY <1>3 DEF ProcessFrame
<1>10. Len(handled') = h + 1 /\ Numbered'
    <2>1. handled \in Seq(1..MaxPackets) /\ h + 1 \in Nat
        BY <1>3 DEF TypeOK
    <2>2. /\ Len(Append(handled, h + 1)) = h + 1
          /\ \A i \in 1..h : Append(handled, h + 1)[i] = handled[i]
          /\ Append(handled, h + 1)[h + 1] = h + 1
        BY <2>1
    <2>3. \A i \in 1..h : handled[i] = i
        BY DEF IInv, Numbered
    <2>4. \A i \in 1..(h + 1) : Append(handled, h + 1)[i] = i
        BY <2>2, <2>3, <1>3
    <2> QED BY <2>2, <2>4, <1>9 DEF Numbered
<1>11. Framed(Rest', h + 1, nsent) /\ Rest' = DropFrame(buffer) \o y
    BY <1>7, <1>8, <1>9 DEF Rest, y
<1>12. Window'
    BY <1>9, <1>10, <1>11 DEF Window
<1>13. InSync'
    <2>1. Synced(DropFrame(buffer))
        BY <1>11, <1>2, <1>3, <1>5, FramedSynced
    <2> QED BY <2>1, <1>9 DEF InSync
<1>14. (Len(handled) <= nsent)'
    BY <1>3, <1>9, <1>10
<1>15. rejected = {}
    BY <1>1, RejectsNotAccepts DEF IInv, RejectBlocks
<1> QED
    BY <1>1, <1>9, <1>10, <1>12, <1>13, <1>14, <1>15
    DEF IInv, Wedged, Quiet, NothingPending, RejectBlocks

(* A copy moves bytes from the chunk to the buffer.                        *)
LEMMA CopyIInv ==
    ASSUME TypeOK, IInv, CopyChunk
    PROVE  IInv'
<1> DEFINE c == SubSeq(chunk, 1, CopySize)
<1>1. CopySize \in 0..Len(chunk) /\ CopySize > 0 /\ pc = "copy"
    BY CopyFacts DEF CopyChunk
<1>2. ~lost /\ ~Accepts(buffer)
    BY <1>1, CopyFacts DEF IInv, Wedged, Quiet
<1>3. c \in Seq(Byte) /\ chunk' \in Seq(Byte) /\ chunk = c \o chunk'
    BY <1>1, RestType, Split DEF CopyChunk
<1>4. /\ buffer' = buffer \o c /\ wire' = wire /\ lost' = lost /\ handled' = handled
      /\ nsent' = nsent /\ rejected' = rejected /\ pc' = "process"
    BY DEF CopyChunk
<1> HIDE DEF c
<1>5. Rest' = Rest
    <2> DEFINE k == chunk'
    <2>1. k \in Seq(Byte) /\ chunk = c \o k
        BY <1>3
    <2>2. Rest' = (buffer \o c) \o (k \o wire)
        BY <1>4 DEF Rest
    <2> HIDE DEF k
    <2> DEFINE y == k \o wire
    <2>3. buffer \in Seq(Byte) /\ wire \in Seq(Byte) /\ y \in Seq(Byte)
        BY <2>1, RestType, ConcatBytes
    <2>4. (c \o k) \o wire = c \o y
        <3>1. c \in Seq(Byte) /\ k \in Seq(Byte) /\ wire \in Seq(Byte)
            BY <2>1, <2>3, <1>3
        <3> QED BY <3>1, AssocBytes
    <2> HIDE DEF y
    <2>5. (buffer \o c) \o y = buffer \o (c \o y)
        <3>1. buffer \in Seq(Byte) /\ c \in Seq(Byte) /\ y \in Seq(Byte)
            BY <2>3, <1>3
        <3> QED BY <3>1, AssocBytes
    <2> QED BY <2>1, <2>2, <2>4, <2>5 DEF Rest, y
<1>6. Framed(Rest, Len(handled), nsent)
    BY <1>2 DEF IInv, Window
<1>7. Window'
    BY <1>4, <1>5, <1>6 DEF Window
<1>8. Numbered' /\ (Len(handled) <= nsent)'
    BY <1>4 DEF IInv, Numbered
<1>9. buffer' \in Seq(Byte)
    BY <1>3, <1>4, RestType, ConcatBytes
<1>10. InSync'
    <2> DEFINE x == buffer'
               y == chunk' \o wire
    <2>1. x \in Seq(Byte) /\ y \in Seq(Byte)
        BY <1>3, <1>9, RestType, ConcatBytes
    <2>2. Framed(x \o y, Len(handled), nsent)
        BY <1>4, <1>5, <1>6 DEF Rest
    <2>3. Len(handled) \in Nat /\ nsent \in Nat
        BY RestType
    <2> HIDE DEF x, y
    <2>4. Synced(x)
        BY <2>1, <2>2, <2>3, FramedSynced
    <2> QED BY <2>4 DEF InSync, x, Synced, Claimed
<1>11. RejectBlocks'
    <2> SUFFICES ASSUME rejected # {} PROVE Rejects(buffer') /\ Len(handled) < nsent
        BY <1>4 DEF RejectBlocks, Rejects, HeaderWhole, Whole, Claimed, Intact
    <2>1. Rejects(buffer) /\ Len(handled) < nsent
        BY DEF IInv, RejectBlocks
    <2>2. buffer # <<>>
        <3>1. Len(buffer) >= MinLen
            BY <2>1 DEF Rejects
        <3>2. Len(buffer) \in Nat
            BY RestType
        <3> QED BY <3>1, <3>2, MinLenAssumption
    <2>3. Rejects(buffer \o c)
        BY <2>1, <2>2, <1>3, RestType, HeadStable
    <2> QED BY <2>1, <2>3, <1>4
<1> QED
    BY <1>2, <1>4, <1>7, <1>8, <1>10, <1>11
    DEF IInv, Wedged, Quiet, NothingPending

(* A stall throws bytes away behind a head that blocks for good.           *)
LEMMA StallIInv ==
    ASSUME TypeOK, IInv, Stall
    PROVE  IInv'
<1>1. Len(buffer) = Cap /\ ~Accepts(buffer)
    BY CopyFacts DEF Stall, IInv, Quiet
<1>2. /\ buffer' = buffer /\ handled' = handled /\ nsent' = nsent /\ rejected' = rejected
      /\ lost' = TRUE /\ chunk' = <<>>
    BY DEF Stall
<1>3. Numbered' /\ (Len(handled) <= nsent)' /\ InSync'
    BY <1>2 DEF IInv, Numbered, InSync, Synced, Claimed
<1>4. Len(handled) < nsent
    <2>1. CASE lost
        BY <2>1 DEF IInv, Wedged
    <2>2. CASE ~lost
        <3>1. buffer # <<>>
            BY <1>1, CapAssumption, MinLenAssumption
        <3> QED BY <2>2, <3>1, HeadIsNext DEF IInv
    <2> QED BY <2>1, <2>2
<1>5. Wedged' /\ Quiet'
    BY <1>1, <1>2, <1>4 DEF Wedged, Quiet, Accepts, HeaderWhole, Whole, Claimed, Intact
<1>6. RejectBlocks'
    BY <1>2 DEF IInv, RejectBlocks, Rejects, HeaderWhole, Whole, Claimed, Intact
<1> QED
    BY <1>2, <1>3, <1>5, <1>6 DEF IInv, Window, NothingPending

(* A rejection leaves the stream as it is.                                 *)
LEMMA ProcessRejectsIInv ==
    ASSUME TypeOK, IInv, ProcessRejects
    PROVE  IInv'
<1>1. Rejects(buffer) /\ ~Accepts(buffer)
    BY RejectsNotAccepts DEF ProcessRejects
<1>2. /\ buffer' = buffer /\ chunk' = chunk /\ wire' = wire /\ handled' = handled
      /\ nsent' = nsent /\ lost' = lost /\ pc' = "copy"
    BY DEF ProcessRejects
<1>3. Rest' = Rest
    BY <1>2 DEF Rest
<1>4. Numbered' /\ (Len(handled) <= nsent)' /\ InSync' /\ Window' /\ Wedged'
    BY <1>2, <1>3, StillWindow
<1>5. Len(handled) < nsent
    <2>1. CASE lost
        BY <2>1 DEF IInv, Wedged
    <2>2. CASE ~lost
        <3>1. buffer # <<>>
            <4>1. Len(buffer) >= MinLen
                BY <1>1 DEF Rejects
            <4>2. Len(buffer) \in Nat
                BY RestType
            <4> QED BY <4>1, <4>2, MinLenAssumption
        <3> QED BY <2>2, <3>1, HeadIsNext DEF IInv
    <2> QED BY <2>1, <2>2
<1>6. Rejects(buffer)' /\ ~Accepts(buffer)'
    BY <1>1, <1>2 DEF Rejects, Accepts, HeaderWhole, Whole, Claimed, Intact
<1>7. RejectBlocks' /\ Quiet' /\ NothingPending'
    BY <1>2, <1>5, <1>6 DEF RejectBlocks, Quiet, NothingPending
<1> QED
    BY <1>4, <1>7 DEF IInv

(* What every action needs to show of the invariant, put together.         *)
LEMMA StepIInv == ASSUME TypeOK, IInv, [Next]_vars PROVE IInv'
<1>1. ASSUME NEW size \in Sizes, NEW kind \in SentKinds, NEW reply \in ReplySizes,
             Send(size, kind, reply)
      PROVE  IInv'
    BY <1>1, SendIInv
<1>2. ASSUME NEW n \in 1..Len(wire), Read(n) PROVE IInv'
    BY <1>2, ReadIInv
<1>3. CASE ProcessFrame
    BY <1>3, ProcessIInv
<1>4. CASE ProcessRejects
    BY <1>4, ProcessRejectsIInv
<1>5. CASE CopyChunk
    BY <1>5, CopyIInv
<1>6. CASE Stall
    BY <1>6, StallIInv
<1>7. CASE PeerClose \/ ReadEof \/ GrowReplyBuffer \/ ProcessNeedsMore \/ ReadDone
           \/ UNCHANGED vars
    <2>1. /\ buffer' = buffer /\ chunk' = chunk /\ wire' = wire /\ handled' = handled
          /\ nsent' = nsent /\ lost' = lost /\ rejected' = rejected
        BY <1>7 DEF PeerClose, ReadEof, GrowReplyBuffer, ProcessNeedsMore, ReadDone, vars
    <2>2. Rest' = Rest
        BY <2>1 DEF Rest
    <2>3. Numbered' /\ (Len(handled) <= nsent)' /\ InSync' /\ Window' /\ Wedged'
        BY <2>1, <2>2, StillWindow
    <2>4. RejectBlocks'
        BY <2>1 DEF IInv, RejectBlocks, Rejects, HeaderWhole, Whole, Claimed, Intact
    <2>5. Accepts(buffer)' <=> Accepts(buffer)
        BY <2>1 DEF Accepts, HeaderWhole, Whole, Claimed, Intact
    <2>6. Quiet' /\ NothingPending'
        <3>1. CASE PeerClose \/ GrowReplyBuffer \/ UNCHANGED vars
            BY <3>1, <2>1, <2>5 DEF IInv, Quiet, NothingPending, PeerClose, GrowReplyBuffer, vars
        <3>2. CASE ReadEof
            BY <3>2, <2>5 DEF IInv, Quiet, NothingPending, ReadEof
        <3>3. CASE ProcessNeedsMore
            BY <3>3, <2>5, NeedMoreNotAccepts DEF Quiet, NothingPending, ProcessNeedsMore
        <3>4. CASE ReadDone
            BY <3>4, <2>1, <2>5 DEF IInv, Quiet, NothingPending, ReadDone
        <3> QED BY <1>7, <3>1, <3>2, <3>3, <3>4
    <2> QED BY <2>3, <2>4, <2>6 DEF IInv
<1> QED
    BY <1>1, <1>2, <1>3, <1>4, <1>5, <1>6, <1>7, PeerSends DEF Next, Peer, Callback, ReadChunk

(* The bytes not yet handled always are the rest of the stream, cut where  *)
(* a packet ends: what on_tcp_svr_read and on_tcp_cli_read rely on when    *)
(* they carry a partial packet over from one callback to the next.         *)
THEOREM InductiveInvariant == Spec => []IInv
<1>1. TypeOK /\ IInv /\ [Next]_vars => IInv'
    BY StepIInv
<1> QED
    BY <1>1, InitIInv, TypeCorrect, PTL DEF Spec

(* The packets processed by edio24svr_process_data, or by                  *)
(* edio24cli_process_data, are those sent, in order, without omission or   *)
(* repetition.                                                             *)
THEOREM HandledInOrder == Spec => []InOrder
<1>1. IInv => InOrder
    BY DEF IInv, Numbered, InOrder
<1> QED
    BY <1>1, InductiveInvariant, PTL

(* The memmove of the process functions leaves the buffer at the start of  *)
(* a packet.                                                               *)
THEOREM AlwaysInSync == Spec => []InSync
<1>1. IInv => InSync
    BY DEF IInv
<1> QED
    BY <1>1, InductiveInvariant, PTL

(* The while(1) of the process functions takes out all there is to take.   *)
THEOREM NothingIsLeftBehind == Spec => []NothingLeftBehind
<1>1. IInv => NothingLeftBehind
    BY DEF IInv, Quiet, NothingLeftBehind
<1> QED
    BY <1>1, InductiveInvariant, PTL

(* A return value of 2 or below 0 is final for the connection.             *)
THEOREM RejectedForGood == Spec => []RejectBlocks
<1>1. IInv => RejectBlocks
    BY DEF IInv
<1> QED
    BY <1>1, InductiveInvariant, PTL

(* Only a packet that is too large for the buffer, or that was rejected,   *)
(* makes the copy loop give up.                                            *)
THEOREM StallOnlyWhenHopeless == Spec => []StallIsHopeless
<1>1. ASSUME TypeOK, IInv, lost PROVE Len(buffer) = Cap /\ (Claimed(buffer) > Cap \/ Rejects(buffer))
    <2>1. Len(buffer) = Cap /\ ~Accepts(buffer) /\ InSync
        BY <1>1 DEF IInv, Wedged
    <2>2. Len(buffer) \in Nat /\ Len(buffer) >= MinLen /\ buffer \in Seq(Byte) /\ buffer # <<>>
        BY <1>1, <2>1, CapAssumption, MinLenAssumption DEF TypeOK
    <2>3. Claimed(buffer) \in Nat
        <3>1. buffer[1] \in Byte
            BY <2>2
        <3> QED BY <3>1, PacketFacts DEF Claimed
    <2>4. CASE ~HeaderWhole(buffer)
        BY <2>4, <2>1, <2>2 DEF Rejects
    <2>5. CASE HeaderWhole(buffer) /\ Claimed(buffer) <= Len(buffer)
        BY <2>5, <2>1, <2>2 DEF Rejects, Accepts
    <2>6. CASE ~(Claimed(buffer) <= Len(buffer))
        BY <2>6, <2>1, <2>2, <2>3
    <2> QED BY <2>1, <2>4, <2>5, <2>6
<1>2. TypeOK /\ IInv => StallIsHopeless
    BY <1>1 DEF StallIsHopeless
<1> QED
    BY <1>2, InductiveInvariant, TypeCorrect, PTL

(* The receive path implements an ideal pipe: a step that accepts a frame  *)
(* delivers the next packet of the stream, and every other step is         *)
(* invisible.                                                              *)
THEOREM PipeImplemented == Spec => ImplementsPipe
<1>1. Init => Pipe!PipeInit
    BY DEF Init, Pipe!PipeInit
<1>2. ASSUME TypeOK, IInv, [Next]_vars PROVE [Pipe!PipeNext]_(Pipe!pipeVars)
    <2>1. CASE PeerSend
        <3>1. nsent < MaxPackets /\ nsent' = nsent + 1 /\ handled' = handled
            BY <2>1 DEF PeerSend, Send
        <3> QED BY <3>1 DEF Pipe!PipeNext, Pipe!Accept, Pipe!pipeVars
    <2>2. CASE ProcessFrame
        <3>1. Accepts(buffer) /\ ~lost
            BY <1>2, <2>2 DEF ProcessFrame, IInv, Wedged
        <3>2. buffer # <<>>
            BY <1>2, <3>1, AcceptsFacts
        <3>3. buffer[1].pkt.id = Len(handled) + 1 /\ Len(handled) < nsent
            BY <1>2, <3>1, <3>2, HeadIsNext DEF IInv
        <3> QED BY <2>2, <3>3 DEF ProcessFrame, Pipe!PipeNext, Pipe!Deliver, Pipe!pipeVars
    <2>3. CASE \/ PeerClose \/ ReadChunk \/ ReadEof \/ GrowReplyBuffer \/ ProcessNeedsMore
               \/ ProcessRejects \/ CopyChunk \/ ReadDone \/ Stall \/ UNCHANGED vars
        <3>1. nsent' = nsent /\ handled' = handled
            BY <2>3 DEF PeerClose, ReadChunk, Read, ReadEof, GrowReplyBuffer, ProcessNeedsMore,
                        ProcessRejects, CopyChunk, ReadDone, Stall, vars
        <3> QED BY <3>1 DEF Pipe!pipeVars
    <2> QED BY <1>2, <2>1, <2>2, <2>3 DEF Next, Peer, Callback
<1>3. TypeOK /\ IInv /\ [Next]_vars => [Pipe!PipeNext]_(Pipe!pipeVars)
    BY <1>2
<1> QED
    BY <1>1, <1>3, InductiveInvariant, TypeCorrect, PTL DEF Spec, ImplementsPipe, Pipe!PipeSpec
=============================================================================
