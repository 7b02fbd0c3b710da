--------------------------- MODULE Exchange_proofs ---------------------------
(***************************************************************************)
(* Proofs about Exchange for every set of requests, with any arguments and *)
(* payloads up to what the count field can hold.                           *)
(***************************************************************************)
EXTENDS Exchange, Induction, SequenceTheorems, TLAPS

(* The sum is defined for every sequence of bytes, and is one.             *)
LEMMA SumsDef ==
    ASSUME NEW s \in Seq(Byte)
    PROVE  /\ Sums(s)[0] = 0
           /\ \A n \in 0..Len(s) : Sums(s)[n] \in Byte
           /\ \A n \in 1..Len(s) : Sums(s)[n] = (Sums(s)[n - 1] + s[n]) % 256
<1> DEFINE A == 0..Len(s)
           next == [n \in A |-> n - 1]
           step == [z \in (A \ {0}) \X Byte |-> (z[2] + s[z[1]]) % 256]
           base == [n \in {0} |-> 0]
           size == [n \in A |-> n]
           def(f) == [n \in A |-> IF n = 0 THEN 0 ELSE (f[n - 1] + s[n]) % 256]
<1>1. Len(s) \in Nat /\ (\A n \in A \ {0} : s[n] \in Byte) /\ Byte \subseteq Int /\ 0 \in Byte
    <2>1. Len(s) \in Nat /\ \A n \in 1..Len(s) : s[n] \in Byte
        OBVIOUS
    <2>2. \A n \in A \ {0} : n \in 1..Len(s)
        BY <2>1
    <2>3. Byte \subseteq Int /\ 0 \in Byte
        BY DEF Byte
    <2> QED BY <2>1, <2>2, <2>3
<1>2. \A k \in Int : k % 256 \in Byte
    BY DEF Byte
<1>3. step \in [(A \ {0}) \X Byte -> Byte]
    <2> SUFFICES ASSUME NEW n \in A \ {0}, NEW v \in Byte PROVE (v + s[n]) % 256 \in Byte
        OBVIOUS
    <2>1. v \in Int /\ s[n] \in Int
        BY <1>1
    <2> QED BY <1>2, <2>1
<1>4. base \in [{0} -> Byte] /\ {0} \in SUBSET A
    BY <1>1
<1>5. Descends(A, {0}, next, size)
    BY <1>1 DEF Descends
<1>6. PICK f \in [A -> Byte] : Obeys(f, A, {0}, base, next, step)
    <2> HIDE DEF A, next, step, base, size
    <2> QED BY <1>3, <1>4, <1>5, Recursion
<1>7. ASSUME NEW n \in A PROVE f[n] = def(f)[n]
    <2>1. f[n] = IF n \in {0} THEN base[n] ELSE step[<<n, f[next[n]]>>]
        BY <1>6 DEF Obeys
    <2>2. CASE n = 0
        BY <2>1, <2>2
    <2>3. CASE n # 0
        <3>1. n - 1 \in A /\ f[n - 1] \in Byte
            BY <1>1, <2>3
        <3> QED BY <2>1, <2>3, <3>1
    <2> QED BY <2>2, <2>3
<1>8. f = def(f)
    BY <1>7
<1>9. Sums(s) = def(Sums(s))
    BY <1>8 DEF Sums
<1> DEFINE g == Sums(s)
<1> HIDE DEF g
<1>10. g = def(g)
    BY <1>9 DEF g
<1>11. g[0] = 0 /\ \A n \in 1..Len(s) : g[n] = (g[n - 1] + s[n]) % 256
    <2>1. \A n \in A : g[n] = IF n = 0 THEN 0 ELSE (g[n - 1] + s[n]) % 256
        BY <1>10
    <2> QED BY <1>1, <2>1
<1>12. \A n \in A : g[n] \in Byte
    <2> DEFINE P == {n \in Nat : n \in A => g[n] \in Byte}
    <2>1. 0 \in P
        BY <1>1, <1>11
    <2>2. ASSUME NEW n \in P PROVE n + 1 \in P
        <3> SUFFICES ASSUME n + 1 \in A PROVE g[n + 1] \in Byte
            OBVIOUS
        <3>1. n \in A /\ n + 1 \in 1..Len(s) /\ n + 1 - 1 = n
            BY <1>1
        <3>2. g[n] \in Byte /\ s[n + 1] \in Byte
            <4>1. n + 1 \in A \ {0}
                BY <1>1
            <4> QED BY <1>1, <3>1, <4>1
        <3>3. g[n] \in Int /\ s[n + 1] \in Int
            BY <1>1, <3>2
        <3> QED BY <1>2, <1>11, <3>1, <3>3
    <2>3. P \in SUBSET Nat
        OBVIOUS
    <2> HIDE DEF P
    <2>4. P = Nat
        BY <2>1, <2>2, <2>3, SetInduction
    <2> QED BY <1>1, <2>4 DEF P
<1> QED
    BY <1>11, <1>12 DEF g

(* Two sequences with the same bytes up to n have the same sum up to n.    *)
LEMMA SameSum ==
    ASSUME NEW s \in Seq(Byte), NEW t \in Seq(Byte), NEW n \in Nat,
           n <= Len(s), n <= Len(t), \A j \in 1..n : s[j] = t[j]
    PROVE  Sums(s)[n] = Sums(t)[n]
<1> DEFINE P == {k \in Nat : k <= n => Sums(s)[k] = Sums(t)[k]}
<1>1. Len(s) \in Nat /\ Len(t) \in Nat
    OBVIOUS
<1>2. 0 \in P
    BY SumsDef
<1>3. ASSUME NEW k \in P PROVE k + 1 \in P
    <2> SUFFICES ASSUME k + 1 <= n PROVE Sums(s)[k + 1] = Sums(t)[k + 1]
        OBVIOUS
    <2>1. k + 1 \in 1..Len(s) /\ k + 1 \in 1..Len(t) /\ k + 1 - 1 = k /\ k + 1 \in 1..n
        BY <1>1
    <2>2. /\ Sums(s)[k + 1] = (Sums(s)[k] + s[k + 1]) % 256
          /\ Sums(t)[k + 1] = (Sums(t)[k] + t[k + 1]) % 256
        BY <2>1, SumsDef
    <2>3. Sums(s)[k] = Sums(t)[k]
        BY <2>1
    <2> QED BY <2>1, <2>2, <2>3
<1>4. P \in SUBSET Nat
    OBVIOUS
<1> HIDE DEF P
<1>5. P = Nat
    BY <1>2, <1>3, <1>4, SetInduction
<1> QED
    BY <1>5 DEF P

(* A byte more in a sum shows in it, and so does a different byte.         *)
LEMMA AddByte ==
    ASSUME NEW u \in Byte, NEW v \in Byte, NEW a \in Byte, NEW b \in Byte
    PROVE  /\ u # v => (u + a) % 256 # (v + a) % 256
           /\ a # b => (u + a) % 256 # (u + b) % 256
<1>1. \A k, l \in Byte : (k + l) % 256 = IF k + l < 256 THEN k + l ELSE k + l - 256
    BY DEF Byte
<1>2. u \in 0..255 /\ v \in 0..255 /\ a \in 0..255 /\ b \in 0..255
    BY DEF Byte
<1>3. /\ (u + a) % 256 = IF u + a < 256 THEN u + a ELSE u + a - 256
      /\ (v + a) % 256 = IF v + a < 256 THEN v + a ELSE v + a - 256
      /\ (u + b) % 256 = IF u + b < 256 THEN u + b ELSE u + b - 256
    BY <1>1
<1> QED
    BY <1>2, <1>3

(* Two sequences of one length that differ in a single byte have different *)
(* checksums.                                                              *)
LEMMA ChangedSum ==
    ASSUME NEW s \in Seq(Byte), NEW t \in Seq(Byte), Len(t) = Len(s),
           NEW i \in 1..Len(s), s[i] # t[i],
           \A j \in 1..Len(s) : j # i => s[j] = t[j]
    PROVE  Checksum(s) # Checksum(t)
<1> DEFINE P == {k \in Nat : i + k <= Len(s) => Sums(s)[i + k] # Sums(t)[i + k]}
<1>1. Len(s) \in Nat /\ i \in Nat /\ 1 <= i /\ i <= Len(s)
    OBVIOUS
<1>2. \A k \in 1..Len(s) : /\ Sums(s)[k] = (Sums(s)[k - 1] + s[k]) % 256
                           /\ Sums(t)[k] = (Sums(t)[k - 1] + t[k]) % 256
                           /\ Sums(s)[k - 1] \in Byte /\ Sums(t)[k - 1] \in Byte
                           /\ s[k] \in Byte /\ t[k] \in Byte
    <2> SUFFICES ASSUME NEW k \in 1..Len(s)
                 PROVE  /\ Sums(s)[k] = (Sums(s)[k - 1] + s[k]) % 256
                        /\ Sums(t)[k] = (Sums(t)[k - 1] + t[k]) % 256
                        /\ Sums(s)[k - 1] \in Byte /\ Sums(t)[k - 1] \in Byte
                        /\ s[k] \in Byte /\ t[k] \in Byte
        OBVIOUS
    <2>1. k \in 1..Len(t) /\ k - 1 \in 0..Len(s) /\ k - 1 \in 0..Len(t)
        BY <1>1
    <2>2. s[k] \in Byte /\ t[k] \in Byte
        BY <2>1
    <2> QED BY <2>1, <2>2, SumsDef
<1>3. 0 \in P
    <2>1. Sums(s)[i - 1] = Sums(t)[i - 1]
        <3>1. i - 1 \in Nat /\ i - 1 <= Len(s) /\ i - 1 <= Len(t)
            BY <1>1
        <3>2. \A j \in 1..i - 1 : s[j] = t[j]
            BY <1>1
        <3> QED BY <3>1, <3>2, SameSum
    <2>2. Sums(s)[i] # Sums(t)[i]
        BY <1>2, <2>1, AddByte
    <2> QED BY <1>1, <2>2
<1>4. ASSUME NEW k \in P PROVE k + 1 \in P
    <2> SUFFICES ASSUME i + (k + 1) <= Len(s) PROVE Sums(s)[i + (k + 1)] # Sums(t)[i + (k + 1)]
        OBVIOUS
    <2> DEFINE n == i + (k + 1)
    <2>1. n \in 1..Len(s) /\ n - 1 = i + k /\ n # i
        BY <1>1
    <2>2. Sums(s)[n - 1] # Sums(t)[n - 1]
        BY <1>1, <2>1
    <2>3. s[n] = t[n]
        BY <2>1
    <2> HIDE DEF n
    <2>4. Sums(s)[n] # Sums(t)[n]
        BY <1>2, <2>1, <2>2, <2>3, AddByte
    <2> QED BY <2>4 DEF n
<1>5. P \in SUBSET Nat
    OBVIOUS
<1> HIDE DEF P
<1>6. P = Nat
    BY <1>3, <1>4, <1>5, SetInduction
<1>7. Len(s) - i \in P /\ i + (Len(s) - i) = Len(s)
    BY <1>1, <1>6
<1> QED
    BY <1>7 DEF P, Checksum

(* The two bytes of the count give back a length below 2^16.               *)
LEMMA CountBytes ==
    ASSUME NEW n \in Word
    PROVE  n \in Nat /\ Low(n) + 256 * High(n) = n /\ Low(n) \in Byte /\ High(n) \in Byte
<1>1. n \in Nat /\ n \div 256 \in 0..255
    BY DEF Word, Byte
<1>2. n \div 256 < 256 => (n \div 256) % 256 = n \div 256
    BY <1>1
<1>3. (n % 256) + 256 * (n \div 256) = n /\ n % 256 \in 0..255
    BY <1>1
<1> QED
    BY <1>1, <1>2, <1>3 DEF Low, High, Byte

(* The six bytes of a header, of a mask and a value.                       *)
LEMMA Six ==
    ASSUME NEW S, NEW u \in S, NEW v \in S, NEW w \in S, NEW x \in S, NEW y \in S, NEW z \in S
    PROVE  <<u, v, w, x, y, z>> \in Seq(S) /\ Len(<<u, v, w, x, y, z>>) = 6
OBVIOUS

(* Sequences of bytes with the same bytes are the same.                    *)
LEMMA SameBytes ==
    ASSUME NEW s \in Seq(Byte), NEW t \in Seq(Byte), Len(s) = Len(t),
           \A i \in 1..Len(s) : s[i] = t[i]
    PROVE  s = t
BY SeqEqual

(* Bytes behind bytes.                                                     *)
LEMMA ConcatBytes ==
    ASSUME NEW a \in Seq(Byte), NEW b \in Seq(Byte)
    PROVE  /\ a \o b \in Seq(Byte) /\ Len(a \o b) = Len(a) + Len(b)
           /\ \A i \in 1..Len(a) + Len(b) :
                (a \o b)[i] = IF i <= Len(a) THEN a[i] ELSE b[i - Len(a)]
BY ConcatProperties

(* The packet of a command, a frame number and data: as long as its count  *)
(* says, with everything in its place and a checksum that adds up.         *)
Framed(s, cmd, f, data) ==
    /\ Len(s) = MIN + Len(data)
    /\ Count(s) = Len(data)
    /\ s[2] = cmd /\ s[3] = f
    /\ \A i \in 1..Len(data) : s[6 + i] = data[i]
    /\ s \in Seq(Byte)
    /\ Verify(s)

LEMMA FrameShape ==
    ASSUME NEW cmd \in Byte, NEW f \in Byte, NEW status \in Byte,
           NEW data \in Seq(Byte), Len(data) \in Word
    PROVE  Framed(Frame(cmd, f, status, data), cmd, f, data)
<1> DEFINE head == <<MSG_START, cmd, f, status, Low(Len(data)), High(Len(data))>>
           body == head \o data
           sum == 255 - Checksum(body)
           s == Frame(cmd, f, status, data)
<1>1. Len(data) \in Nat /\ Low(Len(data)) \in Byte /\ High(Len(data)) \in Byte
    BY CountBytes
<1>2. head \in Seq(Byte) /\ data \in Seq(Byte) /\ Len(head) = 6
    <2>1. MSG_START \in Byte
        BY DEF MSG_START, Byte
    <2> QED BY <1>1, <2>1, Six
<1>3. head[2] = cmd /\ head[3] = f /\ head[5] = Low(Len(data)) /\ head[6] = High(Len(data))
    OBVIOUS
<1>4. s = Append(body, sum)
    BY DEF Frame, Seal
<1> HIDE DEF head, s
<1>5. /\ body \in Seq(Byte) /\ Len(body) = 6 + Len(data)
      /\ \A i \in 1..6 : body[i] = head[i]
      /\ \A i \in 1..Len(data) : body[6 + i] = data[i]
    <2>1. /\ head \o data \in Seq(Byte)
          /\ Len(head \o data) = Len(head) + Len(data)
          /\ \A i \in 1..Len(head) + Len(data) :
               (head \o data)[i] = IF i <= Len(head) THEN head[i] ELSE data[i - Len(head)]
        BY <1>2, ConcatBytes
    <2>2. \A i \in 1..6 : i \in 1..Len(head) + Len(data) /\ i <= Len(head)
        BY <1>1, <1>2
    <2>3. /\ Len(head \o data) = 6 + Len(data)
          /\ \A i \in 1..6 : (head \o data)[i] = head[i]
        BY <2>1, <2>2, <1>2
    <2>4. ASSUME NEW i \in 1..Len(data)
          PROVE  (head \o data)[6 + i] = data[i]
        <3>1. 6 + i \in 1..Len(head) + Len(data) /\ ~(6 + i <= Len(head)) /\ 6 + i - Len(head) = i
            BY <1>1, <1>2
        <3> QED BY <2>1, <3>1
    <2> QED BY <2>1, <2>3, <2>4
<1> HIDE DEF body
<1>6. Checksum(body) \in Byte /\ sum \in Byte /\ sum + Checksum(body) = 255
    <2>1. Checksum(body) \in Byte
        <3>1. Len(body) \in 0..Len(body)
            BY <1>1, <1>5
        <3> QED BY <1>5, <3>1, SumsDef DEF Checksum
    <2>2. \A k \in Byte : 255 - k \in Byte /\ 255 - k + k = 255
        BY DEF Byte
    <2> QED BY <2>1, <2>2
<1> HIDE DEF sum
<1>7. /\ s \in Seq(Byte) /\ Len(s) = Len(body) + 1
      /\ \A i \in 1..Len(body) : s[i] = body[i]
      /\ s[Len(body) + 1] = sum
    BY <1>4, <1>5, <1>6, AppendProperties
<1>8. s[2] = cmd /\ s[3] = f /\ s[5] = Low(Len(data)) /\ s[6] = High(Len(data))
    BY <1>1, <1>3, <1>5, <1>7
<1>9. \A i \in 1..Len(data) : s[6 + i] = data[i]
    <2> SUFFICES ASSUME NEW i \in 1..Len(data)
                 PROVE  s[6 + i] = data[i]
        OBVIOUS
    <2>1. 6 + i \in 1..Len(body)
        BY <1>1, <1>5
    <2> QED BY <1>5, <1>7, <2>1
<1>10. Len(s) = MIN + Len(data)
    BY <1>1, <1>5, <1>7 DEF MIN, MSG_INDEX_DATA
<1>11. Count(s) = Len(data)
    BY <1>1, <1>8, CountBytes DEF Count
<1>12. SubSeq(s, 1, MSG_INDEX_DATA + Count(s)) = body
    <2> DEFINE t == SubSeq(s, 1, 6 + Len(data))
    <2>1. /\ t \in Seq(Byte) /\ Len(t) = 6 + Len(data)
          /\ \A i \in 1..6 + Len(data) : t[i] = s[i]
        BY <1>1, <1>5, <1>7
    <2>2. \A i \in 1..Len(t) : t[i] = body[i]
        BY <1>1, <1>5, <1>7, <2>1
    <2> HIDE DEF t
    <2>3. t = body
        BY <1>5, <2>1, <2>2, SameBytes
    <2> QED BY <1>11, <2>3 DEF MSG_INDEX_DATA, t
<1>13. Verify(s)
    <2>1. Len(s) >= MIN + Count(s) /\ s[MIN + Count(s)] = sum
        BY <1>1, <1>5, <1>7, <1>10, <1>11 DEF MIN, MSG_INDEX_DATA
    <2>2. s[MIN + Count(s)] + Checksum(SubSeq(s, 1, MSG_INDEX_DATA + Count(s))) = 255
        <3>1. s[MIN + Count(s)] + Checksum(SubSeq(s, 1, MSG_INDEX_DATA + Count(s)))
                = sum + Checksum(body)
            BY <1>12, <2>1, Zenon
        <3> QED BY <1>6, <3>1, Zenon
    <2> QED BY <2>1, <2>2, Zenon DEF Verify
<1> QED
    BY <1>7, <1>8, <1>9, <1>10, <1>11, <1>13, Zenon DEF s, Framed

(* Short sequences.                                                        *)
LEMMA Short ==
    ASSUME NEW S, NEW u \in S, NEW v \in S, NEW w \in S, NEW x \in S
    PROVE  /\ <<u>> \in Seq(S) /\ Len(<<u>>) = 1
           /\ <<u, v>> \in Seq(S) /\ Len(<<u, v>>) = 2
           /\ <<u, v, w, x>> \in Seq(S) /\ Len(<<u, v, w, x>>) = 4
OBVIOUS

(* The bytes of a number are bytes.                                        *)
LEMMA BytesOf ==
    ASSUME NEW v \in Nat
    PROVE  Low(v) \in Byte /\ High(v) \in Byte /\ Third(v) \in Byte
BY DEF Low, High, Third, Byte

(* Every way to write the data of a request.                               *)
Written(d, a, b, q) ==
    \/ d = <<>>
    \/ d = <<Low(a), High(a), Third(a), Low(b), High(b), Third(b)>>
    \/ d = <<Low(a), High(a), Low(b), High(b)>>
    \/ d = <<Low(a), High(a)>> \o q
    \/ d = <<Low(a)>>
    \/ d = <<173, 173>>

(* However it is written, the data is bytes, and the  count has room.     *)
LEMMA WordsShape ==
    ASSUME NEW a \in Nat, NEW b \in Nat, NEW q \in Seq(Byte), Len(q) + 2 \in Word, NEW d
    PROVE  Written(d, a, b, q) => d \in Seq(Byte) /\ Len(d) \in Word
<1>0. 0 \in Word /\ 1 \in Word /\ 2 \in Word /\ 4 \in Word /\ 6 \in Word
    BY DEF Word, Byte
<1>1. /\ Low(a) \in Byte /\ High(a) \in Byte /\ Third(a) \in Byte
      /\ Low(b) \in Byte /\ High(b) \in Byte /\ Third(b) \in Byte
    BY BytesOf
<1>2. q \in Seq(Byte) /\ Len(q) \in Nat
    BY LenProperties
<1>3. CASE d = <<>>
    BY <1>0, <1>3
<1>4. CASE d = <<Low(a), High(a), Third(a), Low(b), High(b), Third(b)>>
    BY <1>0, <1>1, <1>4, Six
<1>5. CASE d = <<Low(a), High(a), Low(b), High(b)>>
    BY <1>0, <1>1, <1>5, Short
<1>6. CASE d = <<Low(a), High(a)>> \o q
    <2>1. <<Low(a), High(a)>> \in Seq(Byte) /\ Len(<<Low(a), High(a)>>) = 2
        BY <1>1, Short
    <2>2. d \in Seq(Byte) /\ Len(d) = 2 + Len(q)
        BY <1>2, <1>6, <2>1, ConcatProperties
    <2> QED BY <1>2, <2>2
<1>7. CASE d = <<Low(a)>>
    BY <1>0, <1>1, <1>7, Short
<1>8. CASE d = <<173, 173>>
    <2>1. 173 \in Byte
        BY DEF Byte
    <2> QED BY <1>0, <1>8, <2>1, Short
<1> QED
    BY <1>3, <1>4, <1>5, <1>6, <1>7, <1>8 DEF Written

(* The data of a request is written in one of these ways.                  *)
LEMMA DataShape ==
    ASSUME NEW r \in Asked
    PROVE  Data(r) \in Seq(Byte) /\ Len(Data(r)) \in Word /\ Command(r) \in Byte
<1>1. r.op \in DOMAIN CMD
    BY AskedAssumption
<1>2. Command(r) \in Byte
    BY <1>1 DEF Command, CMD, Byte
<1>3. \A a \in Nat, b \in Nat, q \in Seq(Byte) :
        Len(q) + 2 \in Word /\ r.a = a /\ r.b = b /\ r.payload = q =>
          Data(r) \in Seq(Byte) /\ Len(Data(r)) \in Word
    <2> SUFFICES ASSUME NEW a \in Nat, NEW b \in Nat, NEW q \in Seq(Byte), Len(q) + 2 \in Word,
                        r.a = a, r.b = b, r.payload = q
                 PROVE  Data(r) \in Seq(Byte) /\ Len(Data(r)) \in Word
        OBVIOUS
    <2>1. Written(Data(r), a, b, q)
        <3>1. r.op \in Plain \cup Masked \cup MemRead \cup MemWrite \cup {"BLINKLED", "FIRMWARE"}
            BY <1>1 DEF CMD, Plain, Masked, MemRead, MemWrite
        <3> QED BY <3>1 DEF Data, Written, Plain, Masked, MemRead, MemWrite
    <2> QED BY <2>1, WordsShape
<1>4. r.a \in Nat /\ r.b \in Nat /\ r.payload \in Seq(Byte) /\ Len(r.payload) + 2 \in Word
    BY AskedAssumption
<1>5. Data(r) \in Seq(Byte) /\ Len(Data(r)) \in Word
    BY <1>3, <1>4
<1> QED
    BY <1>2, <1>5

(* The first n bytes of a packet ask for no more than the rest of it.      *)
LEMMA PrefixAsksForTheRest ==
    ASSUME NEW S, NEW s \in Seq(S), NEW k \in Nat,
           Len(s) = MIN + k, Count(s) = k, NEW n \in 0..Len(s)
    PROVE  /\ NeededIn(SubSeq(s, 1, n)) <= Len(s) - n
           /\ NeededIn(SubSeq(s, 1, n)) = 0 <=> n = Len(s)
<1> DEFINE p == SubSeq(s, 1, n)
<1>1. MIN = 7 /\ Len(s) = 7 + k /\ n \in Nat /\ n <= 7 + k
    BY DEF MIN, MSG_INDEX_DATA
<1>2. /\ Len(p) = n
      /\ \A i \in 1..n : p[i] = s[i]
    BY <1>1
<1> HIDE DEF p
<1>3. CASE n < 7
    <2>1. NeededIn(p) = 7 - n
        BY <1>1, <1>2, <1>3 DEF NeededIn
    <2> QED BY <1>1, <1>3, <2>1 DEF p
<1>4. CASE n >= 7
    <2>1. p[5] = s[5] /\ p[6] = s[6]
        BY <1>1, <1>2, <1>4
    <2>2. Count(p) = k
        BY <2>1 DEF Count
    <2>3. NeededIn(p) = IF 7 + k > n THEN 7 + k - n ELSE 0
        BY <1>1, <1>2, <1>4, <2>2 DEF NeededIn
    <2> QED BY <1>1, <1>4, <2>3 DEF p
<1> QED
    BY <1>1, <1>3, <1>4

(* The packet of a request.                                                *)
LEMMA RequestFrame ==
    ASSUME NEW r \in Asked, NEW f \in Byte
    PROVE  Framed(Request(r, f), Command(r), f, Data(r))
<1>1. Data(r) \in Seq(Byte) /\ Len(Data(r)) \in Word /\ Command(r) \in Byte
    BY DataShape
<1>2. MSG_SUCCESS \in Byte
    BY DEF MSG_SUCCESS, Byte
<1> QED
    BY <1>1, <1>2, FrameShape DEF Request

(* Its beginning asks for the rest of it.                                  *)
LEMMA RequestShape ==
    ASSUME NEW r \in Asked, NEW f \in Byte, NEW s, s = Request(r, f)
    PROVE  \A n \in 0..Len(s) :
             /\ NeededIn(SubSeq(s, 1, n)) <= Len(s) - n
             /\ NeededIn(SubSeq(s, 1, n)) = 0 <=> n = Len(s)
<1>1. Framed(s, Command(r), f, Data(r)) /\ Data(r) \in Seq(Byte)
    BY RequestFrame, DataShape
<1>2. s \in Seq(Byte) /\ Len(s) = MIN + Len(Data(r)) /\ Count(s) = Len(Data(r)) /\ Len(Data(r)) \in Nat
    BY <1>1 DEF Framed
<1> QED
    BY <1>2, PrefixAsksForTheRest

(* A read that is answered with data lies in its memory.                   *)
LEMMA RangeInside ==
    ASSUME NEW r \in Asked, NEW f \in Byte, NEW s, s = Request(r, f), Verify(s),
           NEW k \in Checked(s[2]), LenData(s) > 0
    PROVE  r.a + LenData(s) - 1 <= MaxAddress[k]
<1>1. Command(r) \in Byte
    BY DataShape
<1>3. /\ Len(s) = MIN + Len(Data(r))
      /\ s[2] = Command(r)
      /\ \A i \in 1..Len(Data(r)) : s[6 + i] = Data(r)[i]
    BY RequestFrame DEF Framed
<1>4. r.op \in DOMAIN CMD /\ k \in {"CONF_MEM_R", "USR_MEM_R", "SET_MEM_R"} /\ s[2] = CMD[k]
    BY AskedAssumption DEF Checked, MaxAddress
<1>5. r.op = k
    BY <1>3, <1>4 DEF Command, CMD
<1>6. r.op \in MemRead
    BY <1>4, <1>5 DEF MemRead
<1>7. r.a \in Nat /\ r.a \in Word /\ r.b \in Nat
    BY <1>6, AskedAssumption
<1>8. Data(r) = <<Low(r.a), High(r.a), Low(r.b), High(r.b)>>
    <2>1. /\ r.op \notin Plain /\ r.op \notin Masked /\ r.op \notin MemWrite
          /\ r.op # "BLINKLED" /\ r.op # "FIRMWARE"
        BY <1>6 DEF Plain, Masked, MemRead, MemWrite
    <2> QED BY <1>6, <2>1, Zenon DEF Data
<1>9. Len(Data(r)) = 4 /\ Data(r)[1] = Low(r.a) /\ Data(r)[2] = High(r.a)
    BY <1>8
<1>10. s[7] = Low(r.a) /\ s[8] = High(r.a) /\ Len(s) = 11
    BY <1>3, <1>9 DEF MIN, MSG_INDEX_DATA
<1>11. ReadValue(s, 0) = r.a
    <2>1. Low(r.a) + 256 * High(r.a) = r.a
        BY <1>7, CountBytes
    <2>2. ReadValue(s, 0) = s[7] + 256 * s[8]
        BY <1>10 DEF ReadValue, MIN, MSG_INDEX_DATA
    <2> QED BY <1>10, <2>1, <2>2
<1>12. LenData(s) = IF OutOfRange(s) THEN 0 ELSE Requested(s)
    BY <1>4 DEF LenData, CMD, Codes, MemRead
<1>13. ~OutOfRange(s) /\ LenData(s) = Requested(s)
    BY <1>12
<1>14. InRange(MaxAddress[k], r.a, Requested(s))
    BY <1>11, <1>13 DEF OutOfRange
<1>15. Requested(s) \in Int
    <2>1. s[9] = Low(r.b) /\ s[10] = High(r.b)
        BY <1>3, <1>8
    <2>2. s[9] \in Int /\ s[10] \in Int
        <3>1. Low(r.b) \in Byte /\ High(r.b) \in Byte
            BY <1>7, BytesOf
        <3> QED BY <2>1, <3>1 DEF Byte
    <2>3. Requested(s) = s[9] + 256 * s[10]
        BY <1>10 DEF Requested, ReadValue, MIN, MSG_INDEX_DATA
    <2> QED BY <2>2, <2>3
<1>16. MaxAddress[k] \in Int
    BY <1>4 DEF MaxAddress
<1> QED
    BY <1>7, <1>13, <1>14, <1>15, <1>16 DEF InRange

(* A byte of a packet that is not the one sent spoils the checksum, as     *)
(* long as the count is the one of the packet.                             *)
LEMMA DamageSeen ==
    ASSUME NEW s \in Seq(Byte), Verify(s), Count(s) \in Nat, Len(s) = MIN + Count(s),
           NEW i \in 1..Len(s), NEW b \in Byte, b # s[i],
           NEW t \in Seq(Byte), t = [s EXCEPT ![i] = b], Count(t) = Len(t) - MIN
    PROVE  ~Verify(t)
<1> DEFINE n == MSG_INDEX_DATA + Count(s)
           p == SubSeq(s, 1, n)
           q == SubSeq(t, 1, n)
<1>1. n \in Nat /\ Len(s) = n + 1 /\ MIN + Count(s) = n + 1
    BY DEF MIN, MSG_INDEX_DATA
<1>2. /\ Len(t) = Len(s)
      /\ t[i] = b
      /\ \A j \in 1..Len(s) : j # i => t[j] = s[j]
    OBVIOUS
<1>3. Count(t) = Count(s)
    <2>1. MIN \in Nat
        BY DEF MIN, MSG_INDEX_DATA
    <2> QED BY <1>2, <2>1
<1>4. s[n + 1] + Checksum(p) = 255
    <2>1. s[MIN + Count(s)] + Checksum(p) = 255
        BY DEF Verify
    <2> QED BY <1>1, <2>1
<1>5. SUFFICES ASSUME Verify(t)
               PROVE  FALSE
    OBVIOUS
<1>6. t[n + 1] + Checksum(q) = 255
    <2>1. t[MIN + Count(t)] + Checksum(SubSeq(t, 1, MSG_INDEX_DATA + Count(t))) = 255
        BY <1>5 DEF Verify
    <2> QED BY <1>1, <1>3, <2>1
<1> HIDE DEF n
<1>7. /\ p \in Seq(Byte) /\ q \in Seq(Byte) /\ Len(p) = n /\ Len(q) = n
      /\ \A j \in 1..n : p[j] = s[j] /\ q[j] = t[j]
    BY <1>1, <1>2
<1> HIDE DEF p, q
<1>8. s[n + 1] \in Byte /\ t[n + 1] \in Byte
    BY <1>1, <1>2
<1>9. Checksum(p) \in Byte /\ Checksum(q) \in Byte
    <2>1. n \in 0..n
        BY <1>1
    <2> QED BY <1>7, <2>1, SumsDef DEF Checksum
<1>10. \A u, v, w \in Byte :
          /\ u + w = 255 /\ v + w = 255 => u = v
          /\ w + u = 255 /\ w + v = 255 => u = v
    BY DEF Byte
<1>11. CASE i = n + 1
    <2>1. \A j \in 1..n : p[j] = q[j]
        <3>1. \A j \in 1..n : j \in 1..Len(s) /\ j # i
            BY <1>1, <1>11
        <3> QED BY <1>2, <1>7, <3>1
    <2>2. p = q
        BY <1>7, <2>1, SameBytes
    <2>3. s[n + 1] = t[n + 1]
        BY <1>4, <1>6, <1>8, <1>9, <1>10, <2>2
    <2> QED BY <1>2, <1>11, <2>3
<1>12. CASE i # n + 1
    <2>1. i \in 1..Len(p) /\ n + 1 \in 1..Len(s)
        BY <1>1, <1>7, <1>12
    <2>2. t[n + 1] = s[n + 1]
        BY <1>2, <1>12, <2>1
    <2>3. p[i] # q[i] /\ \A j \in 1..Len(p) : j # i => p[j] = q[j]
        <3>1. \A j \in 1..n : j \in 1..Len(s)
            BY <1>1
        <3> QED BY <1>2, <1>7, <2>1, <3>1
    <2>4. Checksum(p) # Checksum(q)
        BY <1>7, <2>1, <2>3, ChangedSum
    <2> QED BY <1>4, <1>6, <1>8, <1>9, <1>10, <2>2, <2>4
<1> QED
    BY <1>11, <1>12

(* The bytes of data in a response, and the numbers it is looked up by,    *)
(* are integers; the codes of the commands leave room for the reply bit.   *)
LEMMA LengthIsNumber ==
    ASSUME NEW s \in Seq(Byte), Len(s) >= MIN
    PROVE  /\ LenData(s) \in Int
           /\ s[2] \in Byte /\ s[3] \in Byte
<1>1. s[2] \in Byte /\ s[3] \in Byte
    BY DEF MIN, MSG_INDEX_DATA
<1>2. Requested(s) \in Int
    <2>1. CASE Verify(s) /\ MIN + 4 <= Len(s)
        <3>1. s[MIN + 2] \in Byte /\ s[MIN + 3] \in Byte
            BY <2>1 DEF MIN, MSG_INDEX_DATA
        <3>2. Requested(s) = s[MIN + 2] + 256 * s[MIN + 3]
            BY <2>1 DEF Requested, ReadValue, MIN, MSG_INDEX_DATA
        <3>3. \A u, v \in Byte : u + 256 * v \in Int
            BY DEF Byte
        <3> QED BY <3>1, <3>2, <3>3
    <2>2. CASE ~(Verify(s) /\ MIN + 4 <= Len(s))
        <3>1. Requested(s) = -1
            BY <2>2 DEF Requested, ReadValue, MIN, MSG_INDEX_DATA
        <3> QED BY <3>1
    <2> QED BY <2>1, <2>2
<1>3. LenData(s) \in {3, 4, 2, 12, 0, Requested(s)}
    BY DEF LenData
<1> QED
    BY <1>1, <1>2, <1>3

(* A supported command has a code below the reply bit.                     *)
LEMMA SupportedCodes ==
    ASSUME NEW c \in Supported
    PROVE  c \in 0..127 /\ c + MSG_REPLY \in Byte /\ (c + MSG_REPLY) % MSG_REPLY = c
<1>1. c \in 0..127
    BY DEF Supported, Codes, CMD
<1> QED
    BY <1>1 DEF MSG_REPLY, Byte

(* What the simulator answers to an accepted request whose response has at *)
(* most one byte of data is a packet for that request.                     *)
LEMMA ShortAnswer ==
    ASSUME NEW s \in Seq(Byte), Len(s) >= MIN, s[2] \in Supported,
           NEW o \in Seq(Byte), NEW status \in Byte,
           NEW len \in Int, MIN + len <= Len(o), len < 2
    PROVE  \E d \in Seq(Byte) :
             Framed(Respond(s, o, status, len), s[2] + MSG_REPLY, s[3], d)
<1> DEFINE d == SubSeq(o, 1, len)
           cmd == s[2] + MSG_REPLY
<1>1. MIN = 7 /\ MIN + len <= SizeofPointer
    BY DEF MIN, MSG_INDEX_DATA, SizeofPointer
<1>2. d \in Seq(Byte) /\ Len(d) \in {0, 1}
    <2>1. CASE len < 1
        BY <2>1
    <2>2. CASE len = 1
        BY <1>1, <2>2
    <2> QED BY <2>1, <2>2
<1>3. Len(d) \in Word
    BY <1>2 DEF Word, Byte
<1>4. cmd \in Byte /\ s[3] \in Byte
    BY SupportedCodes, LengthIsNumber
<1>5. Respond(s, o, status, len) = Frame(cmd, s[3], status, d)
    BY <1>1 DEF Respond
<1> HIDE DEF d, cmd
<1>6. Framed(Frame(cmd, s[3], status, d), cmd, s[3], d)
    BY <1>2, <1>3, <1>4, FrameShape
<1> QED
    BY <1>2, <1>5, <1>6, Zenon DEF cmd

(* Every response is bytes.                                                *)
LEMMA AnswerBytes ==
    ASSUME NEW s \in Seq(Byte), Len(s) >= MIN, s[2] \in Supported,
           NEW o \in Seq(Byte), NEW status \in Byte,
           NEW len \in Int, MIN + len <= Len(o)
    PROVE  Respond(s, o, status, len) \in Seq(Byte)
<1>1. CASE len < 2
    BY <1>1, ShortAnswer DEF Framed
<1>2. CASE len >= 2
    <2> DEFINE at(i) == IF i \in MIN..(MSG_INDEX_DATA + len) THEN (i - MSG_INDEX_DATA) % 256 ELSE o[i]
               n == MIN + len
    <2>1. n \in Nat /\ n <= Len(o) /\ ~(MIN + len <= SizeofPointer) /\ MSG_INDEX_DATA \in Int
        BY <1>2 DEF MIN, MSG_INDEX_DATA, SizeofPointer
    <2>2. Respond(s, o, status, len) = [i \in 1..n |-> at(i)]
        BY <2>1, Zenon DEF Respond
    <2>3. \A i \in 1..n : at(i) \in Byte
        <3> SUFFICES ASSUME NEW i \in 1..n
                     PROVE  at(i) \in Byte
            OBVIOUS
        <3>1. o[i] \in Byte
            BY <2>1
        <3>2. \A k \in Int : k % 256 \in Byte
            BY DEF Byte
        <3>3. i - MSG_INDEX_DATA \in Int
            BY <2>1
        <3>4. (i - MSG_INDEX_DATA) % 256 \in Byte
            BY <3>2, <3>3
        <3> QED BY <3>1, <3>4
    <2> HIDE DEF at, n
    <2>4. [i \in 1..n |-> at(i)] \in Seq(Byte)
        BY <2>1, <2>3
    <2> QED BY <2>2, <2>4
<1> QED
    BY <1>1, <1>2

-----------------------------------------------------------------------------
(* What the simulator has is the packet of the request that was asked for, *)
(* but for one byte if it was damaged.                                     *)
Arrived(sent) ==
    IF damaged
      THEN \E i \in 1..Len(sent), b \in Byte : b # sent[i] /\ rx = [sent EXCEPT ![i] = b]
      ELSE rx = sent

UnderWay ==
    phase \in {"simulator", "client"} =>
      req \in Asked /\ \E f \in Byte : Arrived(Request(req, f))

(* What is accepted is known and has been verified.                        *)
Accepted == phase = "client" /\ ret = 0 => Verify(rx) /\ rx[2] \in Supported /\ Len(rx) >= MIN

(* A response with at most one byte of data is a packet for the request.   *)
Answered ==
    phase = "client" /\ ret = 0 /\ LenData(rx) < 2 =>
      \E d \in Seq(Byte) : Framed(reply, rx[2] + MSG_REPLY, rx[3], d)

IInv == TypeOK /\ UnderWay /\ Accepted /\ Answered

(* A new output buffer is bytes.                                           *)
LEMMA FreshBytes ==
    ASSUME NEW n \in Nat, NEW o \in Fresh(n)
    PROVE  o \in Seq(Byte) /\ Len(o) = n
<1>1. PICK fill \in Fills : o = [i \in 1..n |-> fill]
    BY DEF Fresh
<1>2. fill \in Byte
    BY FillsAssumption
<1> QED
    BY <1>1, <1>2

(* The invariant holds before the first request.                           *)
LEMMA InitInv == Init => IInv
<1> SUFFICES ASSUME Init
             PROVE  IInv
    OBVIOUS
<1>1. out \in Seq(Byte)
    BY FreshBytes, OutAssumption DEF Init
<1>2. /\ phase = "build" /\ rx = <<>> /\ reply = <<>> /\ damaged = FALSE
      /\ built = 0 /\ ret = 0 /\ verdict = 0 /\ frame \in {0, 255}
    BY DEF Init
<1>3. rx \in Seq(Byte) /\ reply \in Seq(Byte) /\ frame \in Byte /\ built \in 0..MaxFrames
    BY <1>2, FramesAssumption DEF Byte
<1>4. TypeOK
    BY <1>1, <1>2, <1>3 DEF TypeOK
<1> QED
    BY <1>2, <1>4 DEF IInv, UnderWay, Accepted, Answered

(* Building a request preserves the invariant.                             *)
LEMMA BuildInv ==
    ASSUME IInv, NEW r \in Asked, Build(r)
    PROVE  IInv'
<1>1. /\ frame \in Byte /\ rx' = Request(r, frame) /\ frame' = (frame + 1) % 256
      /\ req' = r /\ phase' = "simulator" /\ built' = built + 1 /\ built < MaxFrames
      /\ damaged' = damaged /\ damaged = FALSE /\ built \in 0..MaxFrames
    BY DEF IInv, TypeOK, Build
<1>2. frame' \in Byte
    BY <1>1 DEF Byte
<1>3. rx' \in Seq(Byte)
    BY <1>1, RequestFrame DEF Framed
<1>4. built' \in 0..MaxFrames
    BY <1>1, FramesAssumption
<1>5. UNCHANGED <<out, reply, ret, verdict>> /\ out \in Seq(Byte) /\ reply \in Seq(Byte)
      /\ ret \in {0, 2, -1} /\ verdict \in {0, 1, 2, -1}
    BY DEF Build, IInv, TypeOK
<1>6. TypeOK'
    BY <1>1, <1>2, <1>3, <1>4, <1>5 DEF TypeOK
<1>7. UnderWay'
    BY <1>1 DEF UnderWay, Arrived
<1> QED
    BY <1>1, <1>6, <1>7 DEF IInv, Accepted, Answered

(* Damage to a byte preserves the invariant.                               *)
LEMMA DamageInv ==
    ASSUME IInv, NEW i \in 1..Len(rx), NEW b \in Damages, Damage(i, b)
    PROVE  IInv'
<1>1. /\ phase = "simulator" /\ phase' = "simulator" /\ damaged = FALSE /\ damaged' = TRUE
      /\ b # rx[i] /\ rx' = [rx EXCEPT ![i] = b] /\ req' = req
      /\ rx \in Seq(Byte) /\ b \in Byte
    BY DamagesAssumption DEF IInv, TypeOK, Damage
<1>2. rx' \in Seq(Byte)
    BY <1>1
<1>3. TypeOK'
    BY <1>1, <1>2 DEF IInv, TypeOK, Damage
<1>4. UnderWay'
    <2>1. PICK f \in Byte : rx = Request(req, f)
        BY <1>1 DEF IInv, UnderWay, Arrived
    <2>2. req \in Asked
        BY <1>1 DEF IInv, UnderWay
    <2> QED BY <1>1, <2>1, <2>2 DEF UnderWay, Arrived
<1> QED
    BY <1>1, <1>3, <1>4 DEF IInv, Accepted, Answered

(* An answer preserves the invariant.                                      *)
LEMMA AnswerInv ==
    ASSUME IInv, Answer
    PROVE  IInv'
<1>1. /\ rx \in Seq(Byte) /\ out \in Seq(Byte)
      /\ phase = "simulator" /\ phase' = "client" /\ ret' = 0
      /\ NeededIn(rx) = 0 /\ ReturnCode(rx) = 0 /\ MIN + LenData(rx) <= Len(out)
      /\ UNCHANGED <<frame, built, line, req, rx, damaged, verdict>>
    BY DEF IInv, TypeOK, Answer, Ready, Length
<1>2. PICK status \in Statuses : reply' = Respond(rx, out, status, LenData(rx))
    BY DEF Answer, Length
<1>3. status \in Byte
    BY <1>2 DEF Statuses, MSG_ERROR_OTHER, MSG_ERROR_PARAMETER, MSG_SUCCESS, Byte
<1>4. Len(rx) >= MIN
    <2>1. Len(rx) \in Nat /\ MIN = 7
        BY <1>1 DEF MIN, MSG_INDEX_DATA
    <2>2. CASE Len(rx) < MIN
        <3>1. NeededIn(rx) = MIN - Len(rx)
            BY <2>2 DEF NeededIn
        <3> QED BY <1>1, <2>1, <2>2, <3>1
    <2> QED BY <2>1, <2>2
<1>5. Verify(rx) /\ rx[2] \in Supported
    BY <1>1 DEF ReturnCode
<1>6. LenData(rx) \in Int
    BY <1>1, <1>4, LengthIsNumber
<1>7. reply' \in Seq(Byte)
    BY <1>1, <1>2, <1>3, <1>4, <1>5, <1>6, AnswerBytes
<1>8. out' \in Seq(Byte)
    <2> DEFINE p == reply'
               q == SubSeq(out, Len(p) + 1, Len(out))
    <2>1. p \in Seq(Byte) /\ Len(p) \in Nat /\ Len(out) \in Nat
        BY <1>1, <1>7
    <2>2. out' = p \o q
        BY DEF Answer
    <2> HIDE DEF p
    <2>3. q \in Seq(Byte)
        BY <1>1, <2>1
    <2> HIDE DEF q
    <2> QED BY <2>1, <2>2, <2>3
<1>9. TypeOK'
    BY <1>1, <1>7, <1>8 DEF IInv, TypeOK
<1>10. UnderWay'
    BY <1>1 DEF IInv, UnderWay, Arrived
<1>11. Accepted'
    BY <1>1, <1>4, <1>5 DEF Accepted
<1>12. Answered'
    <2>1. LenData(rx) < 2 =>
            \E d \in Seq(Byte) : Framed(reply', rx[2] + MSG_REPLY, rx[3], d)
        BY <1>1, <1>2, <1>3, <1>4, <1>5, <1>6, ShortAnswer
    <2> QED BY <1>1, <2>1 DEF Answered
<1> QED
    BY <1>9, <1>10, <1>11, <1>12 DEF IInv

(* A new or a larger output buffer preserves the invariant.                *)
LEMMA BufferInv ==
    ASSUME IInv, NewCall \/ Grow
    PROVE  IInv'
<1>1. /\ phase = "simulator" /\ phase' = "simulator"
      /\ UNCHANGED <<frame, built, line, req, rx, damaged, reply, ret, verdict>>
      /\ out \in Seq(Byte) /\ rx \in Seq(Byte)
    BY DEF NewCall, Grow, Ready, IInv, TypeOK
<1>2. out' \in Seq(Byte)
    <2>1. CASE NewCall
        BY <2>1, FreshBytes, OutAssumption DEF NewCall
    <2>2. CASE Grow
        <3> DEFINE n == MIN + LenData(rx) - Len(out)
        <3>1. Len(rx) >= MIN
            <4>1. Len(rx) \in Nat /\ MIN = 7 /\ NeededIn(rx) = 0
                BY <1>1, <2>2 DEF MIN, MSG_INDEX_DATA, Grow, Ready
            <4>2. CASE Len(rx) < MIN
                <5>1. NeededIn(rx) = MIN - Len(rx)
                    BY <4>2 DEF NeededIn
                <5> QED BY <4>1, <4>2, <5>1
            <4> QED BY <4>1, <4>2
        <3>2. n \in Nat
            <4>1. LenData(rx) \in Int /\ Len(out) \in Nat /\ MIN = 7
                BY <1>1, <3>1, LengthIsNumber DEF MIN, MSG_INDEX_DATA
            <4>2. MIN + LenData(rx) > Len(out)
                BY <2>2 DEF Grow, Length
            <4> QED BY <4>1, <4>2
        <3>3. PICK more \in Fresh(n) : out' = out \o more
            BY <2>2 DEF Grow, Length
        <3> HIDE DEF n
        <3>4. more \in Seq(Byte)
            BY <3>2, <3>3, FreshBytes
        <3> QED BY <1>1, <3>3, <3>4
    <2> QED BY <2>1, <2>2
<1>3. TypeOK'
    BY <1>1, <1>2 DEF IInv, TypeOK
<1>4. UnderWay'
    BY <1>1 DEF IInv, UnderWay, Arrived
<1> QED
    BY <1>1, <1>3, <1>4 DEF IInv, Accepted, Answered

(* Every step preserves the invariant.                                     *)
LEMMA NextInv == IInv /\ [Next]_vars => IInv'
<1> SUFFICES ASSUME IInv, [Next]_vars
             PROVE  IInv'
    OBVIOUS
<1>1. ASSUME NEW r \in IF built = 0 THEN Ops ELSE Sequels, Call(r)
      PROVE  IInv'
    BY <1>1, BuildInv DEF Call, Asked
<1>2. ASSUME NEW l \in IF built = 0 THEN Lines ELSE {}, ProcessCommand(l)
      PROVE  IInv'
    BY <1>2, BuildInv DEF ProcessCommand, Asked
<1>3. ASSUME NEW i \in 1..Len(rx), NEW b \in Damages, Damage(i, b)
      PROVE  IInv'
    BY <1>3, DamageInv
<1>4. CASE NewCall \/ Grow
    BY <1>4, BufferInv
<1>5. CASE Wait
    <2>1. phase' = "waiting"
        BY <1>5 DEF Wait
    <2>2. TypeOK'
        BY <1>5 DEF Wait, IInv, TypeOK
    <2> QED BY <2>1, <2>2 DEF IInv, UnderWay, Accepted, Answered
<1>6. CASE Refuse
    <2>1. phase = "simulator" /\ phase' = "client" /\ ret' # 0
        BY <1>6 DEF Refuse, Ready
    <2>2. TypeOK'
        <3>1. ret' \in {0, 2, -1}
            BY <1>6 DEF Refuse, ReturnCode
        <3> QED BY <1>6, <3>1 DEF Refuse, IInv, TypeOK
    <2>3. UnderWay'
        BY <1>6, <2>1 DEF Refuse, IInv, UnderWay, Arrived
    <2> QED BY <2>1, <2>2, <2>3 DEF IInv, Accepted, Answered
<1>7. CASE Answer
    BY <1>7, AnswerInv
<1>8. CASE ClientVerifies
    <2>1. phase' = "build"
        BY <1>8 DEF ClientVerifies
    <2>2. TypeOK'
        <3>1. verdict' \in {0, 1, 2, -1}
            BY <1>8 DEF ClientVerifies, ClientReturnCode
        <3> QED BY <1>8, <3>1 DEF ClientVerifies, IInv, TypeOK
    <2> QED BY <2>1, <2>2 DEF IInv, UnderWay, Accepted, Answered
<1>9. CASE UNCHANGED vars
    BY <1>9 DEF vars, IInv, TypeOK, UnderWay, Arrived, Accepted, Answered
<1> QED
    BY <1>1, <1>2, <1>3, <1>4, <1>5, <1>6, <1>7, <1>8, <1>9 DEF Next

(* What the simulator holds is the packet of the request that was asked    *)
(* for, but for the byte that was damaged; what it accepts it has verified *)
(* and, if little is to be returned, answered with a packet.               *)
THEOREM OnlyRequestsSent == Spec => []IInv
BY InitInv, NextInv, PTL DEF Spec

(* The bytes of requests, buffers and replies stay bytes, the return codes *)
(* are the ones the callers know.                                          *)
THEOREM TypeCorrect == Spec => []TypeOK
<1>1. IInv => TypeOK
    BY DEF IInv
<1> QED
    BY <1>1, OnlyRequestsSent, PTL

(* Whatever is requested, a receiver that has the first bytes of a packet  *)
(* never waits for more than its sender still has to send (the loop of     *)
(* process_data on both ends).                                             *)
THEOREM NeverWaitsForTheNext == Spec => []NeverWaitsTooLong
<1>1. IInv => NeverWaitsTooLong
    BY RequestShape DEF IInv, UnderWay, Arrived, NeverWaitsTooLong, Sent
<1> QED
    BY <1>1, OnlyRequestsSent, PTL

(* Whatever range of a memory is asked for, the simulator returns data of  *)
(* it only if all of it lies in the memory (edio24_svr_process_tcp).       *)
THEOREM NoReadPastTheEnd == Spec => []ReadsStayInside
<1>1. IInv => ReadsStayInside
    BY RangeInside DEF IInv, UnderWay, Arrived, Accepted, ReadsStayInside
<1> QED
    BY <1>1, OnlyRequestsSent, PTL

(* Whatever supported command is built, with whatever arguments, the       *)
(* simulator accepts it and takes exactly its bytes (edio24_pkt_verify and *)
(* sz_processed of edio24_svr_process_tcp).                                *)
THEOREM BuiltIsAccepted == Spec => []AcceptsWhatIsBuilt
<1>1. ASSUME IInv, Sent, Command(req) \in Supported
      PROVE  ReturnCode(rx) = 0 /\ Processed(rx) = Len(rx)
    <2>1. PICK f \in Byte : req \in Asked /\ rx = Request(req, f)
        BY <1>1 DEF IInv, UnderWay, Arrived, Sent
    <2>2. Framed(rx, Command(req), f, Data(req))
        BY <2>1, RequestFrame
    <2> QED BY <1>1, <2>2 DEF Framed, ReturnCode, Processed
<1>2. IInv => AcceptsWhatIsBuilt
    BY <1>1 DEF AcceptsWhatIsBuilt
<1> QED
    BY <1>2, OnlyRequestsSent, PTL

(* Whatever byte of whatever request is damaged, and however, with the     *)
(* count intact the simulator refuses the packet (edio24_pkt_verify).      *)
THEOREM DamageIsRefused == Spec => []DamageRefused
<1>1. ASSUME IInv, phase = "client", damaged, Count(rx) = Len(rx) - MIN
      PROVE  ~Verify(rx)
    <2>1. PICK f \in Byte : req \in Asked /\ Arrived(Request(req, f))
        BY <1>1 DEF IInv, UnderWay
    <2> DEFINE s == Request(req, f)
    <2>2. PICK i \in 1..Len(s), b \in Byte : b # s[i] /\ rx = [s EXCEPT ![i] = b]
        BY <1>1, <2>1 DEF Arrived
    <2>3. Framed(s, Command(req), f, Data(req)) /\ Data(req) \in Seq(Byte)
        BY <2>1, RequestFrame, DataShape
    <2> HIDE DEF s
    <2>4. s \in Seq(Byte) /\ Verify(s) /\ Count(s) \in Nat /\ Len(s) = MIN + Count(s)
        BY <2>3 DEF Framed
    <2>5. rx \in Seq(Byte)
        BY <1>1 DEF IInv, TypeOK
    <2> QED BY <1>1, <2>2, <2>4, <2>5, DamageSeen
<1>2. IInv => DamageRefused
    BY <1>1 DEF IInv, Accepted, DamageRefused
<1> QED
    BY <1>2, OnlyRequestsSent, PTL

(* The client accepts every response that carries at most one byte of data *)
(* as the answer to the request (edio24_pkt_create_respond and             *)
(* edio24_cli_verify_tcp).                                                 *)
THEOREM ShortRepliesAccepted == Spec => []ShortRepliesMatch
<1>1. ASSUME IInv, phase = "client", ret = 0, LenData(rx) < 2
      PROVE  /\ NeededIn(reply) = 0
             /\ ClientReturnCode(reply) = 0
             /\ Processed(reply) = Len(reply)
             /\ reply[2] = rx[2] + MSG_REPLY /\ reply[3] = rx[3]
    <2>1. PICK d \in Seq(Byte) : Framed(reply, rx[2] + MSG_REPLY, rx[3], d)
        BY <1>1 DEF IInv, Answered
    <2>2. rx[2] \in Supported
        BY <1>1 DEF IInv, Accepted
    <2>3. /\ Verify(reply) /\ Len(reply) = MIN + Len(d) /\ Count(reply) = Len(d)
          /\ reply[2] = rx[2] + MSG_REPLY /\ reply[3] = rx[3]
        BY <2>1 DEF Framed
    <2>4. ClientReturnCode(reply) = 0
        BY <2>2, <2>3, SupportedCodes DEF ClientReturnCode
    <2>5. NeededIn(reply) = 0 /\ Processed(reply) = Len(reply)
        BY <2>3 DEF NeededIn, Processed, MIN, MSG_INDEX_DATA
    <2> QED BY <2>3, <2>4, <2>5
<1>2. IInv => ShortRepliesMatch
    BY <1>1 DEF ShortRepliesMatch
<1> QED
    BY <1>2, OnlyRequestsSent, PTL
=============================================================================
