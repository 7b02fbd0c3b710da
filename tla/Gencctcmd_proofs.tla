--------------------------- MODULE Gencctcmd_proofs ---------------------------
(***************************************************************************)
(* Proofs about Gencctcmd, for any options, files and sizes of lists.      *)
(***************************************************************************)
EXTENDS Gencctcmd, Induction, TLAPS

BoardList == [max : Nat, rows : Seq(Line)]

(* What a list holds are rows, and they fit. *)
Sound(l) == /\ l \in BoardList
            /\ \A k \in 1..Len(l.rows) : IsRow(l.rows[k])
            /\ Len(l.rows) <= l.max

(* Memory without rows in it is what a failed allocation leaves, except    *)
(* that a row can be behind it.                                            *)
Used(l, f) == l.max > 0 => Len(l.rows) > 0 \/ f

ListsOK == /\ lst \in [Lists -> BoardList]
           /\ \A t \in Lists : Sound(lst[t]) /\ Used(lst[t], failed[t])

IInv == /\ TypeOK
        /\ ListsOK
        /\ rest \in Seq(Line)
        /\ pc = "boards" => last.opt = "b"
        /\ AbortsWithReason

(* A list that has just been initialised is sound.                         *)
LEMMA EmptyIsSound == EmptyList \in BoardList /\ Sound(EmptyList) /\ \A f : Used(EmptyList, f)
<1>1. <<>> \in Seq(Line) /\ Len(<<>>) = 0
  OBVIOUS
<1>2. EmptyList.max = 0 /\ EmptyList.rows = <<>>
  BY DEF EmptyList
<1>3. EmptyList \in BoardList
  BY <1>1 DEF EmptyList, BoardList
<1> QED
  BY <1>1, <1>2, <1>3 DEF Sound, Used

(* Behind the doubling there is room. *)
LEMMA GrownHasRoom ==
  ASSUME NEW l, Sound(l)
  PROVE  /\ Grown(l) \in BoardList
         /\ Grown(l).rows = l.rows
         /\ Len(l.rows) < Grown(l).max
         /\ Sound(Grown(l))
<1>1. l \in BoardList /\ l.max \in Nat /\ l.rows \in Seq(Line) /\ Len(l.rows) \in Nat /\ Len(l.rows) <= l.max
  BY DEF Sound, BoardList
<1>2. FirstAlloc \in Nat \ {0}
  BY SizesAssumption
<1>3. CASE Len(l.rows) < l.max
  <2>1. Grown(l) = l
    BY <1>1, <1>3 DEF Grown
  <2> QED
    BY <1>1, <1>3, <2>1
<1>4. CASE Len(l.rows) >= l.max
  <2> DEFINE m == IF FirstAlloc <= l.max THEN 2 * l.max ELSE FirstAlloc
  <2>1. Grown(l) = [l EXCEPT !.max = m]
    BY <1>4 DEF Grown
  <2>2. m \in Nat /\ m > l.max
    BY <1>1, <1>2
  <2> HIDE DEF m
  <2>3. Grown(l) \in BoardList /\ Grown(l).max = m /\ Grown(l).rows = l.rows
    BY <1>1, <2>1, <2>2 DEF BoardList
  <2> QED
    BY <1>1, <2>2, <2>3 DEF Sound
<1> QED
  BY <1>1, <1>3, <1>4

(* A list with a row more. *)
LEMMA AppendIsSound ==
  ASSUME NEW l, Sound(l), NEW line \in Line, IsRow(line)
  PROVE  LET m == [Grown(l) EXCEPT !.rows = Append(@, line)]
         IN  m \in BoardList /\ Sound(m) /\ \A f : Used(m, f)
<1> DEFINE m == [Grown(l) EXCEPT !.rows = Append(@, line)]
<1>1. Grown(l) \in BoardList /\ Grown(l).rows = l.rows /\ Len(l.rows) < Grown(l).max
  BY GrownHasRoom
<1>2. l.rows \in Seq(Line) /\ \A k \in 1..Len(l.rows) : IsRow(l.rows[k])
  BY DEF Sound, BoardList
<1>3. m \in BoardList /\ m.rows = Append(l.rows, line) /\ m.max = Grown(l).max /\ m.max \in Nat
  <2> DEFINE g == Grown(l)
             s == Append(g.rows, line)
  <2>1. s \in Seq(Line) /\ s = Append(l.rows, line) /\ g \in BoardList
    BY <1>1, <1>2
  <2>2. m = [g EXCEPT !.rows = s]
    OBVIOUS
  <2> HIDE DEF m, g, s
  <2>3. m \in BoardList /\ m.rows = s /\ m.max = g.max /\ m.max \in Nat
    BY <2>1, <2>2 DEF BoardList
  <2> QED
    BY <2>1, <2>3 DEF g
<1> HIDE DEF m
<1>4. /\ Len(m.rows) = Len(l.rows) + 1 /\ Len(l.rows) \in Nat
      /\ \A k \in 1..Len(l.rows) : m.rows[k] = l.rows[k]
      /\ m.rows[Len(l.rows) + 1] = line
  BY <1>2, <1>3
<1>5. \A k \in 1..Len(m.rows) : IsRow(m.rows[k])
  BY <1>2, <1>4
<1>6. Sound(m) /\ \A f : Used(m, f)
  BY <1>1, <1>3, <1>4, <1>5 DEF Sound, Used
<1> QED
  BY <1>3, <1>6 DEF m

(* The invariant holds before the first option.                            *)
LEMMA InitInvariant == Init => IInv
<1> SUFFICES ASSUME Init PROVE IInv
  OBVIOUS
<1>1. /\ \A t \in Lists : lst[t] = EmptyList
      /\ lst \in [Lists -> BoardList]
      /\ failed \in [Lists -> BOOLEAN] /\ reading \in Lists /\ pc = "options"
      /\ given = 0 /\ rest = <<>>
  BY EmptyIsSound DEF Init, Lists
<1>2. ListsOK
  BY <1>1, EmptyIsSound DEF ListsOK
<1>3. TypeOK
  BY <1>1, <1>2, SizesAssumption DEF TypeOK, ListsOK, Sound, BoardList
<1>4. rest \in Seq(Line)
  BY <1>1
<1> QED
  BY <1>1, <1>2, <1>3, <1>4 DEF IInv, AbortsWithReason

(* What TypeOK says of the lists follows from their being sound. *)
LEMMA SoundIsTyped ==
  ASSUME ListsOK, reading \in Lists, failed \in [Lists -> BOOLEAN], given \in 0..MaxOptions,
         pc \in {"options", "reading", "boards", "done", "aborted"}
  PROVE  TypeOK
BY DEF ListsOK, Sound, BoardList, TypeOK

(* A list that cannot be cleaned is one no row could be stored in. *)
LEMMA CleanFails ==
  ASSUME ListsOK, NEW t \in Lists, ~CleanHolds(lst[t])
  PROVE  lst[t].rows = <<>> /\ failed[t]
<1>1. /\ lst[t].rows \in Seq(Line) /\ lst[t].max \in Nat /\ Len(lst[t].rows) \in Nat
      /\ Len(lst[t].rows) <= lst[t].max /\ Used(lst[t], failed[t])
  BY DEF ListsOK, Sound, BoardList
<1>2. Len(lst[t].rows) = 0
  BY <1>1 DEF CleanHolds
<1> QED
  BY <1>1, <1>2 DEF CleanHolds, Used

(* A step that leaves the lists and the file alone. *)
LEMMA ListsUntouched ==
  ASSUME IInv, UNCHANGED <<lst, rest, failed, reading>>, given' \in 0..MaxOptions,
         pc' \in {"options", "boards"}, pc' = "boards" => last'.opt = "b"
  PROVE  IInv'
<1>1. ListsOK' /\ rest' \in Seq(Line) /\ reading' \in Lists /\ failed' \in [Lists -> BOOLEAN]
  BY DEF IInv, TypeOK, ListsOK
<1>2. TypeOK'
  BY <1>1, SoundIsTyped DEF IInv, TypeOK, ListsOK, Sound, BoardList
<1> QED
  BY <1>1, <1>2 DEF IInv, AbortsWithReason

(* A step that puts one list in place of another. *)
LEMMA ListReplaced ==
  ASSUME IInv, NEW t \in Lists, NEW l \in BoardList, NEW f \in BOOLEAN, Sound(l), Used(l, f),
         lst' = [lst EXCEPT ![t] = l], failed' = [failed EXCEPT ![t] = f]
  PROVE  ListsOK' /\ failed' \in [Lists -> BOOLEAN]
<1>1. failed \in [Lists -> BOOLEAN] /\ lst \in [Lists -> BoardList]
  BY DEF IInv, TypeOK, ListsOK
<1>2. lst' \in [Lists -> BoardList] /\ failed' \in [Lists -> BOOLEAN]
  BY <1>1
<1>3. ASSUME NEW u \in Lists PROVE Sound(lst'[u]) /\ Used(lst'[u], failed'[u])
  <2>1. CASE u = t
    <3>1. lst'[u] = l /\ failed'[u] = f
      BY <1>1, <2>1
    <3> QED
      BY <3>1
  <2>2. CASE u # t
    <3>1. lst'[u] = lst[u] /\ failed'[u] = failed[u]
      BY <1>1, <2>2
    <3> QED
      BY <3>1 DEF IInv, ListsOK
  <2> QED
    BY <2>1, <2>2
<1> QED
  BY <1>2, <1>3 DEF ListsOK

(* Every option, line and query preserves the invariant.                   *)
LEMMA StepInvariant == IInv /\ [Next]_vars => IInv'
<1> SUFFICES ASSUME IInv, [Next]_vars PROVE IInv'
  OBVIOUS
<1>0. /\ TypeOK /\ ListsOK /\ rest \in Seq(Line)
      /\ reading \in Lists /\ failed \in [Lists -> BOOLEAN] /\ given \in 0..MaxOptions
      /\ lst \in [Lists -> BoardList]
  BY DEF IInv, TypeOK, ListsOK
<1>1. ASSUME NEW o \in Options, OpenFile(o) PROVE IInv'
  <2>1. o.opt \in Lists /\ given' \in 0..MaxOptions /\ reading' \in Lists /\ last' = o
    BY <1>0, <1>1, SizesAssumption DEF OpenFile, Take
  <2>2. CASE CleanHolds(lst[o.opt])
    <3>1. o.lines \in Seq(Line)
      BY <2>1, OptionsAssumption DEF OptionOK, Lists
    <3>2. /\ lst' = [lst EXCEPT ![o.opt] = EmptyList] /\ rest' = o.lines /\ pc' = "reading"
          /\ failed' = [failed EXCEPT ![o.opt] = FALSE]
      BY <1>1, <2>2 DEF OpenFile, Cleaned
    <3>3. ListsOK' /\ failed' \in [Lists -> BOOLEAN]
      BY <2>1, <3>2, EmptyIsSound, ListReplaced
    <3>4. TypeOK'
      BY <2>1, <3>2, <3>3 DEF ListsOK, Sound, BoardList, TypeOK
    <3> QED
      BY <3>1, <3>2, <3>3, <3>4 DEF IInv, AbortsWithReason
  <2>3. CASE ~CleanHolds(lst[o.opt])
    <3>1. pc' = "aborted" /\ UNCHANGED <<lst, rest, failed>>
      BY <1>1, <2>3 DEF OpenFile, Abort
    <3>2. lst[o.opt].rows = <<>> /\ failed[o.opt]
      BY <1>0, <2>1, <2>3, CleanFails
    <3>3. AbortsWithReason'
      BY <2>1, <3>1, <3>2 DEF AbortsWithReason
    <3>4. ListsOK' /\ TypeOK'
      BY <1>0, <2>1, <3>1 DEF ListsOK, TypeOK
    <3> QED
      BY <1>0, <3>1, <3>3, <3>4 DEF IInv
  <2> QED
    BY <2>2, <2>3
<1>2. ASSUME NEW o \in Options, SetCluster(o) \/ Direct(o) \/ ForClusters(o) \/ GetBoards(o) PROVE IInv'
  <2>1. UNCHANGED <<lst, rest, failed, reading>>
    BY <1>2 DEF SetCluster, Direct, ForClusters, GetBoards
  <2>2. Take(o)
    BY <1>2 DEF SetCluster, Direct, ForClusters, GetBoards
  <2>3. pc' = "options" \/ (pc' = "boards" /\ o.opt = "b")
    <3>1. CASE SetCluster(o) \/ Direct(o) \/ ForClusters(o)
      BY <2>2, <3>1 DEF SetCluster, Direct, ForClusters, Take
    <3>2. CASE GetBoards(o)
      BY <2>2, <3>2 DEF GetBoards, Take
    <3> QED
      BY <1>2, <3>1, <3>2
  <2>4. given' \in 0..MaxOptions /\ last' = o
    BY <1>0, <2>2, SizesAssumption DEF Take
  <2> QED
    BY <2>1, <2>3, <2>4, ListsUntouched
<1>3. CASE ReadLine
  <2> DEFINE l == lst[reading]
  <2>0. Sound(l) /\ Used(l, failed[reading]) /\ l \in BoardList
    BY <1>0 DEF ListsOK
  <2>1. /\ rest # <<>> /\ rest' = Tail(rest) /\ pc = "reading" /\ UNCHANGED <<reading, given, last, pc>>
    BY <1>3 DEF ReadLine
  <2>2. rest' \in Seq(Line) /\ Head(rest) \in Line
    BY <1>0, <2>1
  <2>3. ListsOK' /\ failed' \in [Lists -> BOOLEAN]
    <3>1. CASE UNCHANGED <<lst, failed>>
      BY <1>0, <3>1 DEF ListsOK
    <3>2. CASE /\ IsRow(Head(rest))
               /\ lst' = [lst EXCEPT ![reading] = [Grown(l) EXCEPT !.rows = Append(@, Head(rest))]]
               /\ UNCHANGED failed
      <4> DEFINE m == [Grown(l) EXCEPT !.rows = Append(@, Head(rest))]
      <4>1. IsRow(Head(rest))
        BY <3>2
      <4>2. m \in BoardList /\ Sound(m) /\ Used(m, failed[reading])
        BY <2>0, <2>2, <4>1, AppendIsSound
      <4> HIDE DEF m
      <4>3. lst' = [lst EXCEPT ![reading] = m]
        BY <3>2 DEF m
      <4>4. failed' = [failed EXCEPT ![reading] = failed[reading]] /\ failed[reading] \in BOOLEAN
        BY <1>0, <3>2
      <4> QED
        BY <1>0, <4>2, <4>3, <4>4, ListReplaced
    <3>3. CASE /\ \E left \in {l, Grown(l)} : lst' = [lst EXCEPT ![reading] = left]
               /\ failed' = [failed EXCEPT ![reading] = TRUE]
      <4>1. PICK left \in {l, Grown(l)} : lst' = [lst EXCEPT ![reading] = left]
        BY <3>3
      <4>2. left \in BoardList /\ Sound(left)
        BY <2>0, GrownHasRoom
      <4>3. Used(left, TRUE)
        BY DEF Used
      <4> QED
        BY <1>0, <3>3, <4>1, <4>2, <4>3, ListReplaced
    <3> QED
      BY <1>3, <3>1, <3>2, <3>3, Zenon DEF ReadLine
  <2>4. TypeOK'
    BY <1>0, <2>1, <2>3 DEF ListsOK, Sound, BoardList, TypeOK
  <2> QED
    BY <2>1, <2>2, <2>3, <2>4 DEF IInv, AbortsWithReason
<1>4. CASE CloseFile
  BY <1>0, <1>4, ListsUntouched DEF CloseFile
<1>5. CASE GetBoard
  <2>1. pc = "boards" /\ UNCHANGED <<lst, rest, failed, reading, given, last>>
    BY <1>5 DEF GetBoard, Abort
  <2>2. CASE UNCHANGED pc
    BY <1>0, <2>1, <2>2, ListsUntouched DEF IInv
  <2>3. CASE /\ lst["j"].rows = <<>> \/ ~ComparesAll(lst["j"].rows)
             /\ pc' = "aborted"
    <3>1. last.opt = "b"
      BY <2>1 DEF IInv
    <3>2. AbortsWithReason'
      BY <2>1, <2>3, <3>1 DEF AbortsWithReason
    <3>3. ListsOK' /\ TypeOK'
      BY <1>0, <2>1, <2>3 DEF ListsOK, TypeOK
    <3> QED
      BY <1>0, <2>1, <2>3, <3>2, <3>3 DEF IInv
  <2> QED
    BY <1>5, <2>2, <2>3 DEF GetBoard, Abort
<1>6. CASE GetBoardsDone
  BY <1>0, <1>6, ListsUntouched DEF GetBoardsDone
<1>7. CASE Finish
  <2>1. UNCHANGED <<rest, failed, reading, given, last>>
    BY <1>7 DEF Finish, Abort
  <2>2. CASE \A t \in Lists : CleanHolds(lst[t])
    <3>1. lst' = [t \in Lists |-> EmptyList] /\ pc' = "done"
      BY <1>7, <2>2 DEF Finish
    <3>2. ListsOK'
      BY <3>1, EmptyIsSound DEF ListsOK
    <3>3. TypeOK'
      BY <1>0, <2>1, <3>1, <3>2 DEF ListsOK, Sound, BoardList, TypeOK
    <3> QED
      BY <1>0, <2>1, <3>1, <3>2, <3>3 DEF IInv, AbortsWithReason
  <2>3. CASE ~\A t \in Lists : CleanHolds(lst[t])
    <3>1. pc' = "aborted" /\ UNCHANGED lst
      BY <1>7, <2>3 DEF Finish, Abort
    <3>2. PICK t \in Lists : ~CleanHolds(lst[t])
      BY <2>3
    <3>3. lst[t].rows = <<>> /\ failed[t]
      BY <1>0, <3>2, CleanFails
    <3>4. AbortsWithReason'
      BY <2>1, <3>1, <3>3 DEF AbortsWithReason
    <3>5. ListsOK' /\ TypeOK'
      BY <1>0, <2>1, <3>1 DEF ListsOK, TypeOK
    <3> QED
      BY <1>0, <2>1, <3>1, <3>4, <3>5 DEF IInv
  <2> QED
    BY <2>2, <2>3
<1>8. CASE UNCHANGED vars
  BY <1>0, <1>8 DEF vars, IInv, TypeOK, ListsOK, AbortsWithReason
<1> QED
  BY <1>1, <1>2, <1>3, <1>4, <1>5, <1>6, <1>7, <1>8 DEF Next

-----------------------------------------------------------------------------
(* What the loops over lines, clusters and names keep. *)

(* The loop is defined for every sequence and keeps what is in the set.    *)
LEMMA KeptDef ==
  ASSUME NEW T, NEW s \in Seq(T), NEW S
  PROVE  /\ Kept(s, S)[0] = <<>>
         /\ \A n \in 0..Len(s) : Kept(s, S)[n] \in Seq(T)
         /\ \A n \in 1..Len(s) :
              Kept(s, S)[n] = IF s[n] \in S THEN Append(Kept(s, S)[n - 1], s[n]) ELSE Kept(s, S)[n - 1]
<1> DEFINE A == 0..Len(s)
           B == Seq(T)
           next == [n \in A |-> n - 1]
           step == [z \in (A \ {0}) \X B |-> IF s[z[1]] \in S THEN Append(z[2], s[z[1]]) ELSE z[2]]
           base == [n \in {0} |-> <<>>]
           size == [n \in A |-> n]
           def(f) == [n \in A |-> IF n = 0 THEN <<>>
                                  ELSE IF s[n] \in S THEN Append(f[n - 1], s[n]) ELSE f[n - 1]]
<1>1. Len(s) \in Nat /\ (\A n \in A \ {0} : s[n] \in T) /\ 0 \in A
  <2>1. Len(s) \in Nat /\ \A n \in 1..Len(s) : s[n] \in T
    OBVIOUS
  <2>2. \A n \in A \ {0} : n \in 1..Len(s)
    BY <2>1
  <2> QED
    BY <2>1, <2>2
<1>2. step \in [(A \ {0}) \X B -> B]
  <2> SUFFICES ASSUME NEW n \in A \ {0}, NEW v \in B
               PROVE  (IF s[n] \in S THEN Append(v, s[n]) ELSE v) \in B
    OBVIOUS
  <2> QED
    BY <1>1
<1>3. base \in [{0} -> B] /\ {0} \in SUBSET A
  BY <1>1
<1>4. Descends(A, {0}, next, size)
  BY <1>1 DEF Descends
<1>5. PICK f \in [A -> B] : Obeys(f, A, {0}, base, next, step)
  <2> HIDE DEF A, B, next, step, base, size
  <2> QED
    BY <1>2, <1>3, <1>4, Recursion
<1>6. ASSUME NEW n \in A PROVE f[n] = def(f)[n]
  <2>1. f[n] = IF n \in {0} THEN base[n] ELSE step[<<n, f[next[n]]>>]
    BY <1>5 DEF Obeys
  <2>2. CASE n = 0
    BY <2>1, <2>2
  <2>3. CASE n # 0
    <3>1. n - 1 \in A
      BY <1>1, <2>3
    <3> QED
      BY <2>1, <2>3, <3>1
  <2> QED
    BY <2>2, <2>3
<1>7. f = def(f)
  BY <1>6
<1>8. Kept(s, S) = def(Kept(s, S))
  BY <1>7 DEF Kept
<1> DEFINE g == Kept(s, S)
<1> HIDE DEF g
<1>9. \A n \in A : g[n] = IF n = 0 THEN <<>>
                          ELSE IF s[n] \in S THEN Append(g[n - 1], s[n]) ELSE g[n - 1]
  BY <1>8 DEF g
<1>10. g[0] = <<>> /\ \A n \in 1..Len(s) : g[n] = IF s[n] \in S THEN Append(g[n - 1], s[n]) ELSE g[n - 1]
  <2>1. \A n \in 1..Len(s) : n \in A /\ n # 0
    BY <1>1
  <2>2. g[0] = <<>>
    BY <1>1, <1>9
  <2> HIDE DEF A
  <2>3. ASSUME NEW n \in 1..Len(s)
        PROVE  g[n] = IF s[n] \in S THEN Append(g[n - 1], s[n]) ELSE g[n - 1]
    BY <1>9, <2>1
  <2> QED
    BY <2>2, <2>3
<1>11. \A n \in A : g[n] \in Seq(T)
  <2> DEFINE Q == {n \in Nat : n \in A => g[n] \in Seq(T)}
  <2>1. 0 \in Q
    <3>1. <<>> \in Seq(T)
      OBVIOUS
    <3> QED
      BY <1>10, <3>1
  <2>2. ASSUME NEW n \in Q PROVE n + 1 \in Q
    <3> SUFFICES ASSUME n + 1 \in A PROVE g[n + 1] \in Seq(T)
      OBVIOUS
    <3>1. n \in A /\ n + 1 \in 1..Len(s) /\ n + 1 - 1 = n /\ n + 1 \in A \ {0}
      BY <1>1
    <3>2. g[n] \in Seq(T) /\ s[n + 1] \in T
      BY <1>1, <3>1
    <3>3. g[n + 1] = IF s[n + 1] \in S THEN Append(g[n], s[n + 1]) ELSE g[n]
      BY <1>10, <3>1
    <3> QED
      BY <3>2, <3>3
  <2>3. Q \in SUBSET Nat
    OBVIOUS
  <2> HIDE DEF Q
  <2>4. Q = Nat
    BY <2>1, <2>2, <2>3, SetInduction
  <2> QED
    BY <1>1, <2>4 DEF Q
<1> QED
  BY <1>10, <1>11 DEF g

(* One more element is kept behind what was kept, or not at all.           *)
LEMMA OnlyAppend ==
  ASSUME NEW T, NEW s \in Seq(T), NEW e \in T, NEW S
  PROVE  /\ Only(s, S) \in Seq(T)
         /\ Only(Append(s, e), S) = IF e \in S THEN Append(Only(s, S), e) ELSE Only(s, S)
<1> DEFINE t == Append(s, e)
           f == Kept(s, S)
           g == Kept(t, S)
           m == Len(s)
<1>1. /\ t \in Seq(T) /\ m \in Nat /\ Len(t) = m + 1 /\ t[m + 1] = e
      /\ \A n \in 1..m : t[n] = s[n]
  OBVIOUS
<1> HIDE DEF t
<1>2. /\ f[0] = <<>> /\ \A n \in 0..m : f[n] \in Seq(T)
      /\ \A n \in 1..m : f[n] = IF s[n] \in S THEN Append(f[n - 1], s[n]) ELSE f[n - 1]
  BY KeptDef
<1>3. /\ g[0] = <<>>
      /\ \A n \in 1..m + 1 : g[n] = IF t[n] \in S THEN Append(g[n - 1], t[n]) ELSE g[n - 1]
  BY <1>1, KeptDef
<1> HIDE DEF f, g, m
<1>4. g[m] = f[m]
  <2> DEFINE Q == {n \in Nat : n <= m => g[n] = f[n]}
  <2>1. 0 \in Q
    BY <1>2, <1>3
  <2>2. ASSUME NEW n \in Q PROVE n + 1 \in Q
    <3> SUFFICES ASSUME n + 1 <= m PROVE g[n + 1] = f[n + 1]
      OBVIOUS
    <3>1. n + 1 \in 1..m /\ n + 1 \in 1..m + 1 /\ n + 1 - 1 = n /\ g[n] = f[n]
      BY <1>1
    <3>2. /\ f[n + 1] = IF s[n + 1] \in S THEN Append(f[n], s[n + 1]) ELSE f[n]
          /\ g[n + 1] = IF t[n + 1] \in S THEN Append(g[n], t[n + 1]) ELSE g[n]
      BY <1>2, <1>3, <3>1
    <3> QED
      BY <1>1, <3>1, <3>2
  <2>3. Q \in SUBSET Nat
    OBVIOUS
  <2> HIDE DEF Q
  <2>4. Q = Nat
    BY <2>1, <2>2, <2>3, SetInduction
  <2> QED
    BY <1>1, <2>4 DEF Q
<1>5. g[m + 1] = IF e \in S THEN Append(f[m], e) ELSE f[m]
  <2>1. m + 1 \in 1..m + 1 /\ m + 1 - 1 = m
    BY <1>1
  <2> QED
    BY <1>1, <1>3, <1>4, <2>1
<1>6. f[m] \in Seq(T)
  BY <1>1, <1>2
<1>7. Only(s, S) = f[m] /\ Only(t, S) = g[m + 1]
  BY <1>1 DEF Only, f, g, m
<1> QED
  BY <1>5, <1>6, <1>7 DEF t

(* Of nothing, nothing is kept. *)
LEMMA NothingKept == \A S : Only(<<>>, S) = <<>>
<1> SUFFICES ASSUME NEW S PROVE Only(<<>>, S) = <<>>
  OBVIOUS
<1> DEFINE e == <<>>
<1>1. e \in Seq(Int) /\ Len(e) = 0
  OBVIOUS
<1> HIDE DEF e
<1>2. \A T : \A s \in Seq(T) : Kept(s, S)[0] = <<>>
  BY KeptDef
<1>3. Kept(e, S)[0] = <<>>
  BY <1>1, <1>2, Zenon
<1> QED
  BY <1>1, <1>3 DEF Only, e

(* Increasing numbers stay increasing; kept are those in the set.          *)
Increasing(s) == \A j, k \in 1..Len(s) : j < k => s[j] < s[k]

LEMMA OnlyIncreasing ==
  ASSUME NEW s \in Seq(Int), Increasing(s), NEW S
  PROVE  /\ Only(s, S) \in Seq(Int)
         /\ Increasing(Only(s, S))
         /\ Range(Only(s, S)) = S \cap Range(s)
<1> DEFINE f == Kept(s, S)
           m == Len(s)
           Good(n) == /\ f[n] \in Seq(Int) /\ Increasing(f[n])
                      /\ \A k \in 1..Len(f[n]) : \E i \in 1..n : f[n][k] = s[i] /\ s[i] \in S
                      /\ \A i \in 1..n : s[i] \in S => \E k \in 1..Len(f[n]) : f[n][k] = s[i]
           Q == {n \in Nat : n <= m => Good(n)}
<1>1. m \in Nat /\ \A n \in 1..m : s[n] \in Int
  OBVIOUS
<1>2. /\ f[0] = <<>> /\ \A n \in 0..m : f[n] \in Seq(Int)
      /\ \A n \in 1..m : f[n] = IF s[n] \in S THEN Append(f[n - 1], s[n]) ELSE f[n - 1]
  BY KeptDef
<1> HIDE DEF f, m
<1>3. 0 \in Q
  BY <1>2 DEF Increasing
<1>4. ASSUME NEW n \in Q PROVE n + 1 \in Q
  <2> SUFFICES ASSUME n + 1 <= m PROVE Good(n + 1)
    OBVIOUS
  <2>1. Good(n) /\ n \in Nat /\ n + 1 \in 1..m /\ n \in 0..m
    <3> HIDE DEF Good
    <3>1. n \in Nat /\ (n <= m => Good(n))
      OBVIOUS
    <3>2. n <= m /\ n + 1 \in 1..m /\ n \in 0..m
      BY <1>1, <3>1
    <3> QED
      BY <3>1, <3>2
  <2>2. f[n + 1] = IF s[n + 1] \in S THEN Append(f[n], s[n + 1]) ELSE f[n]
    <3>1. n + 1 - 1 = n
      BY <2>1
    <3> QED
      BY <1>2, <2>1, <3>1
  <2>3. CASE s[n + 1] \notin S
    <3>1. f[n + 1] = f[n]
      BY <2>2, <2>3
    <3>2. \A i \in 1..n + 1 : s[i] \in S => i \in 1..n
      BY <2>1, <2>3
    <3>3. \A i \in 1..n : i \in 1..n + 1
      BY <2>1
    <3> QED
      BY <2>1, <3>1, <3>2, <3>3
  <2>4. CASE s[n + 1] \in S
    <3> DEFINE a == f[n]
               b == f[n + 1]
               e == s[n + 1]
               z == Len(a)
    <3>1. a \in Seq(Int) /\ e \in Int /\ z \in Nat /\ b = Append(a, e)
      BY <1>1, <2>1, <2>2, <2>4
    <3>2. /\ b \in Seq(Int) /\ Len(b) = z + 1 /\ b[z + 1] = e
          /\ \A k \in 1..z : b[k] = a[k]
      <4> HIDE DEF a, b, e
      <4> QED
        BY <3>1
    <3>3. \A k \in 1..z : \E i \in 1..n : a[k] = s[i] /\ s[i] \in S
      BY <2>1
    <3>4. \A k \in 1..z : a[k] < e
      <4> SUFFICES ASSUME NEW k \in 1..z
                   PROVE  a[k] < e
        OBVIOUS
      <4>1. PICK i \in 1..n : a[k] = s[i]
        BY <3>3
      <4>2. i \in 1..Len(s) /\ n + 1 \in 1..Len(s) /\ i < n + 1
        BY <2>1 DEF m
      <4> QED
        BY <4>1, <4>2 DEF Increasing
    <3>5. \A j, k \in 1..z : j < k => a[j] < a[k]
      BY <2>1 DEF Increasing
    <3>6. \A i \in 1..n : s[i] \in S => \E k \in 1..z : a[k] = s[i]
      BY <2>1
    <3> HIDE DEF a, b, e, z
    <3>7a. \A x \in Nat : \A y \in 1..x + 1 : y \in 1..x \/ y = x + 1
      OBVIOUS
    <3>7. Increasing(b)
      <4> SUFFICES ASSUME NEW j \in 1..z + 1, NEW k \in 1..z + 1, j < k
                   PROVE  b[j] < b[k]
        BY <3>2 DEF Increasing
      <4>1. j \in 1..z
        BY <3>1
      <4>2. CASE k \in 1..z
        BY <3>2, <3>5, <4>1, <4>2
      <4>3. CASE k = z + 1
        BY <3>2, <3>4, <4>1, <4>3
      <4>4. k \in 1..z \/ k = z + 1
        BY <3>1, <3>7a
      <4> QED
        BY <4>2, <4>3, <4>4
    <3>8. \A k \in 1..Len(b) : \E i \in 1..n + 1 : b[k] = s[i] /\ s[i] \in S
      <4> SUFFICES ASSUME NEW k \in 1..z + 1
                   PROVE  \E i \in 1..n + 1 : b[k] = s[i] /\ s[i] \in S
        BY <3>2
      <4>1. CASE k \in 1..z
        <5>1. PICK i \in 1..n : a[k] = s[i] /\ s[i] \in S
          BY <3>3, <4>1
        <5>2. i \in 1..n + 1 /\ b[k] = a[k]
          BY <2>1, <3>2, <4>1
        <5> QED
          BY <5>1, <5>2
      <4>2. CASE k = z + 1
        <5>1. n + 1 \in 1..n + 1 /\ b[k] = s[n + 1]
          BY <2>1, <3>2, <4>2 DEF e
        <5> QED
          BY <2>4, <5>1
      <4>3. k \in 1..z \/ k = z + 1
        BY <3>1
      <4> QED
        BY <4>1, <4>2, <4>3
    <3>9. \A i \in 1..n + 1 : s[i] \in S => \E k \in 1..Len(b) : b[k] = s[i]
      <4> SUFFICES ASSUME NEW i \in 1..n + 1, s[i] \in S
                   PROVE  \E k \in 1..z + 1 : b[k] = s[i]
        BY <3>2
      <4>1. CASE i \in 1..n
        <5>1. PICK k \in 1..z : a[k] = s[i]
          BY <3>6, <4>1
        <5>2. k \in 1..z + 1 /\ b[k] = a[k]
          BY <3>1, <3>2
        <5> QED
          BY <5>1, <5>2
      <4>2. CASE i = n + 1
        <5>1. z + 1 \in 1..z + 1 /\ b[z + 1] = s[i]
          BY <3>1, <3>2, <4>2 DEF e
        <5> QED
          BY <5>1
      <4> QED
        BY <2>1, <4>1, <4>2
    <3> QED
      BY <3>2, <3>7, <3>8, <3>9 DEF b
  <2> QED
    BY <2>3, <2>4
<1>5. Q \in SUBSET Nat
  OBVIOUS
<1> HIDE DEF Q
<1>6. Q = Nat
  BY <1>3, <1>4, <1>5, SetInduction
<1>7. Good(m)
  <2> HIDE DEF Good
  <2>1. m \in Q
    BY <1>1, <1>6
  <2> QED
    BY <1>1, <2>1 DEF Q
<1>8. Only(s, S) = f[m]
  BY DEF Only, f, m
<1>9. Range(f[m]) = S \cap Range(s)
  <2>1. DOMAIN f[m] = 1..Len(f[m]) /\ DOMAIN s = 1..m
    BY <1>7 DEF m
  <2>2. /\ \A k \in 1..Len(f[m]) : \E i \in 1..m : f[m][k] = s[i] /\ s[i] \in S
        /\ \A i \in 1..m : s[i] \in S => \E k \in 1..Len(f[m]) : f[m][k] = s[i]
    BY <1>7
  <2>3. Range(f[m]) = {f[m][k] : k \in 1..Len(f[m])} /\ Range(s) = {s[i] : i \in 1..m}
    BY <2>1 DEF Range
  <2>4. ASSUME NEW x \in Range(f[m]) PROVE x \in S \cap Range(s)
    <3>1. PICK k \in 1..Len(f[m]) : x = f[m][k]
      BY <2>3
    <3>2. PICK i \in 1..m : f[m][k] = s[i] /\ s[i] \in S
      BY <2>2
    <3> QED
      BY <2>3, <3>1, <3>2
  <2>5. ASSUME NEW x \in S \cap Range(s) PROVE x \in Range(f[m])
    <3>1. PICK i \in 1..m : x = s[i]
      BY <2>3
    <3>2. PICK k \in 1..Len(f[m]) : f[m][k] = s[i]
      BY <2>2, <3>1
    <3> QED
      BY <2>3, <3>1, <3>2
  <2> QED
    BY <2>4, <2>5
<1> QED
  BY <1>7, <1>8, <1>9

-----------------------------------------------------------------------------
(* Looking boards up by name. *)

NamesOf(rows) == [k \in 1..Len(rows) |-> rows[k].n]

(* With the names w still to look up, the rows o are those printed: of the *)
(* list, asked for, in order, before what is still looked for; of sorted   *)
(* names nothing was missed.                                               *)
Looked(o, w, asked, names) ==
  /\ o \in Seq(Line) /\ w \in Seq(Int) /\ Increasing(w)
  /\ \A j, k \in 1..Len(o) : j < k => o[j].n < o[k].n
  /\ \A k \in 1..Len(o) : o[k].n \in asked \cap Range(names) /\ \A x \in Range(w) : o[k].n < x
  /\ Range(w) \subseteq asked
  /\ Sorted(names) =>
       \A x \in asked \cap Range(names) : x \in Range(w) \/ \E k \in 1..Len(o) : o[k].n = x

(* The first of increasing numbers is smaller than the rest.               *)
LEMMA FirstOfIncreasing ==
  ASSUME NEW w \in Seq(Int), w # <<>>, Increasing(w)
  PROVE  /\ Tail(w) \in Seq(Int) /\ Increasing(Tail(w)) /\ Head(w) \in Int
         /\ Range(w) = {Head(w)} \cup Range(Tail(w))
         /\ \A x \in Range(Tail(w)) : Head(w) < x
<1> DEFINE t == Tail(w)
           n == Len(w)
<1>1. /\ t \in Seq(Int) /\ n \in Nat /\ n > 0 /\ Len(t) = n - 1 /\ Head(w) = w[1]
      /\ \A i \in 1..n - 1 : t[i] = w[i + 1]
  OBVIOUS
<1>2. (\A i \in 1..n : w[i] \in Int) /\ DOMAIN w = 1..n /\ DOMAIN t = 1..n - 1
  BY <1>1
<1>3. \A j, k \in 1..n : j < k => w[j] < w[k]
  BY DEF Increasing
<1> HIDE DEF t, n
<1>4. (\A i \in 1..n - 1 : i + 1 \in 1..n /\ 1 < i + 1) /\ 1 \in 1..n
  BY <1>1
<1>5. Increasing(t)
  <2> SUFFICES ASSUME NEW j \in 1..n - 1, NEW k \in 1..n - 1, j < k PROVE t[j] < t[k]
    BY <1>1 DEF Increasing
  <2>1. j + 1 \in 1..n /\ k + 1 \in 1..n /\ j + 1 < k + 1
    BY <1>4
  <2> QED
    BY <1>1, <1>3, <2>1
<1>6. Range(w) = {w[i] : i \in 1..n} /\ Range(t) = {t[i] : i \in 1..n - 1}
  BY <1>2 DEF Range
<1>7. \A x \in Range(t) : w[1] < x
  BY <1>1, <1>3, <1>4, <1>6
<1>8. ASSUME NEW x \in Range(w) PROVE x \in {w[1]} \cup Range(t)
  <2>1. PICK i \in 1..n : x = w[i]
    BY <1>6
  <2>2. CASE i # 1
    <3>1. i - 1 \in 1..n - 1 /\ i - 1 + 1 = i
      BY <1>1, <2>2
    <3>2. t[i - 1] = x
      BY <1>1, <2>1, <3>1
    <3> QED
      BY <1>6, <3>1, <3>2
  <2> QED
    BY <2>1, <2>2
<1>9. ASSUME NEW x \in {w[1]} \cup Range(t) PROVE x \in Range(w)
  BY <1>1, <1>4, <1>6
<1>10. Range(w) = {w[1]} \cup Range(t)
  BY <1>8, <1>9
<1> QED
  BY <1>1, <1>2, <1>4, <1>5, <1>7, <1>10 DEF t

(* Looking up one name more. *)
LEMMA LookupStep ==
  ASSUME NEW rows \in Seq(Line), NEW names, names = NamesOf(rows), NEW asked, NEW o, NEW w,
         Looked(o, w, asked, names), w # <<>>, NEW a \in Answers(names, Head(w))
  PROVE  Looked(o \o Printed(rows, a), Tail(w), asked, names)
<1> DEFINE h == Head(w)
           t == Tail(w)
           n == Len(o)
<1>1. /\ o \in Seq(Line) /\ w \in Seq(Int) /\ Increasing(w)
      /\ \A j, k \in 1..Len(o) : j < k => o[j].n < o[k].n
      /\ \A k \in 1..Len(o) : o[k].n \in asked \cap Range(names) /\ \A x \in Range(w) : o[k].n < x
      /\ Range(w) \subseteq asked
      /\ Sorted(names) =>
           \A x \in asked \cap Range(names) : x \in Range(w) \/ \E k \in 1..Len(o) : o[k].n = x
  BY DEF Looked
<1>2. /\ t \in Seq(Int) /\ Increasing(t) /\ h \in Int
      /\ Range(w) = {h} \cup Range(t)
      /\ \A x \in Range(t) : h < x
  BY <1>1, FirstOfIncreasing
<1>3. n \in Nat
  BY <1>1
<1>4. Len(names) = Len(rows) /\ DOMAIN names = 1..Len(rows) /\ \A k \in 1..Len(rows) : names[k] = rows[k].n
  BY DEF NamesOf
<1> HIDE DEF h, t
<1>5. CASE a.found
  <2>1. PICK k \in 1..Len(rows) : names[k] = h /\ a.at = k - 1
    BY <1>4, <1>5 DEF Answers, h
  <2> DEFINE r == rows[k]
             p == o \o <<r>>
  <2>2. r \in Line /\ r.n = h /\ h \in Range(names)
    BY <1>4, <2>1 DEF Range
  <2>3. Printed(rows, a) = <<r>>
    <3>1. k - 1 + 1 = k
      OBVIOUS
    <3> QED
      BY <1>5, <2>1, <3>1 DEF Printed
  <2> HIDE DEF r
  <2>4. /\ p \in Seq(Line) /\ Len(p) = n + 1 /\ p[n + 1] = r
        /\ \A j \in 1..n : p[j] = o[j]
    BY <1>1, <2>2
  <2> HIDE DEF p, n
  <2>5. \A j \in 1..n + 1 : j \in 1..n \/ j = n + 1
    BY <1>3
  <2>6. ASSUME NEW j \in 1..n + 1, NEW l \in 1..n + 1, j < l PROVE p[j].n < p[l].n
    <3>1. j \in 1..n
      BY <1>3, <2>6
    <3>2. CASE l \in 1..n
      BY <1>1, <2>6, <2>4, <3>1, <3>2 DEF n
    <3>3. CASE l = n + 1
      <4>1. p[j].n < h
        BY <1>1, <1>2, <2>4, <3>1 DEF n
      <4> QED
        BY <2>2, <2>4, <3>3, <4>1
    <3> QED
      BY <2>5, <3>2, <3>3
  <2>7. ASSUME NEW j \in 1..n + 1 PROVE p[j].n \in asked \cap Range(names) /\ \A x \in Range(t) : p[j].n < x
    <3>1. CASE j \in 1..n
      BY <1>1, <1>2, <2>4, <3>1 DEF n
    <3>2. CASE j = n + 1
      BY <1>1, <1>2, <2>2, <2>4, <3>2
    <3> QED
      BY <2>5, <3>1, <3>2
  <2>8. ASSUME Sorted(names), NEW x \in asked \cap Range(names), x \notin Range(t)
        PROVE  \E j \in 1..n + 1 : p[j].n = x
    <3>1. CASE x = h
      <4>1. n + 1 \in 1..n + 1 /\ p[n + 1].n = x
        BY <1>3, <2>2, <2>4, <3>1
      <4> QED
        BY <4>1
    <3>2. CASE x # h
      <4>1. PICK j \in 1..n : o[j].n = x
        BY <1>1, <1>2, <2>8, <3>2 DEF n
      <4>2. j \in 1..n + 1 /\ p[j].n = x
        BY <1>3, <2>4, <4>1
      <4> QED
        BY <4>2
    <3> QED
      BY <3>1, <3>2
  <2>9. Looked(p, t, asked, names)
    BY <1>1, <1>2, <2>4, <2>6, <2>7, <2>8 DEF Looked
  <2> QED
    BY <2>3, <2>9 DEF p, t
<1>6. CASE ~a.found
  <2>1. Printed(rows, a) = <<>> /\ o \o <<>> = o
    BY <1>1, <1>6 DEF Printed
  <2>2. PICK p \in 0..Len(names) : Sorted(names) => Insertable(names, h, p)
    BY <1>6 DEF Answers, h
  <2>3. Sorted(names) => h \notin Range(names)
    <3> SUFFICES ASSUME Sorted(names), NEW k \in 1..Len(rows), names[k] = h PROVE FALSE
      BY <1>4 DEF Range
    <3>1. Insertable(names, h, p) /\ p \in 0..Len(rows)
      BY <1>4, <2>2
    <3>2. k \in 1..p \/ k \in (p + 1)..Len(names)
      BY <1>4, <3>1
    <3> QED
      BY <1>2, <3>1, <3>2 DEF Insertable
  <2>4. Looked(o, t, asked, names)
    BY <1>1, <1>2, <2>3 DEF Looked
  <2> QED
    BY <2>1, <2>4 DEF t
<1> QED
  BY <1>5, <1>6

(* The names of all boards of all clusters, in order. *)
LEMMA AllNames ==
  /\ Names \in Seq(Int) /\ Increasing(Names)
  /\ \A c, b : Asked(c, b) \subseteq Range(Names)
<1> DEFINE z == (Clusters + 1) * (Boards + 1)
<1>1. Clusters \in Nat /\ Boards \in Nat
  BY SizesAssumption
<1>2. z \in Nat /\ z = Clusters * (Boards + 1) + Boards + 1
  BY <1>1
<1>3. Names = [k \in 1..z |-> 2 * (k - 1)]
  BY DEF Names
<1>4. ASSUME NEW i \in 0..Clusters, NEW j \in 0..Boards PROVE i * (Boards + 1) + j \in 0..z - 1
  <2> DEFINE u == i * (Boards + 1)
             v == (Clusters - i) * (Boards + 1)
             x == Clusters * (Boards + 1)
  <2>1. u \in Nat /\ v \in Nat
    <3>1. i \in Nat /\ Clusters - i \in Nat /\ Boards + 1 \in Nat
      BY <1>1
    <3>2. \A k, l \in Nat : k * l \in Nat
      OBVIOUS
    <3> QED
      BY <3>1, <3>2
  <2>2. u + v = x
    BY <1>1
  <2>3. z = x + Boards + 1 /\ z \in Nat /\ j \in 0..Boards
    BY <1>2
  <2> HIDE DEF u, v, x, z
  <2>4. u + j \in 0..z - 1
    BY <1>1, <2>1, <2>2, <2>3
  <2> QED
    BY <2>4 DEF u
<1> HIDE DEF z
<1>5. Names \in Seq(Int) /\ Len(Names) = z /\ DOMAIN Names = 1..z /\ \A k \in 1..z : Names[k] = 2 * (k - 1)
  BY <1>2, <1>3
<1>6. Increasing(Names)
  BY <1>2, <1>5 DEF Increasing
<1>7. \A x \in 0..z - 1 : 2 * x \in Range(Names)
  <2> SUFFICES ASSUME NEW x \in 0..z - 1 PROVE 2 * x \in Range(Names)
    OBVIOUS
  <2>1. x + 1 \in 1..z /\ x + 1 - 1 = x
    BY <1>2
  <2>2. Names[x + 1] = 2 * x
    BY <1>5, <2>1
  <2> QED
    BY <1>5, <2>1, <2>2 DEF Range
<1>8. \A c, b : Asked(c, b) \subseteq Range(Names)
  <2> SUFFICES ASSUME NEW c, NEW b, NEW i \in Masked(c, Clusters), NEW j \in Masked(b, Boards)
               PROVE  Name(i, j) \in Range(Names)
    BY DEF Asked
  <2>1. i \in 0..Clusters /\ j \in 0..Boards
    BY DEF Masked
  <2> QED
    BY <1>4, <1>7, <2>1 DEF Name
<1> QED
  BY <1>5, <1>6, <1>8

(* The list of names is looked up from its beginning. *)
LEMMA LookupStarts ==
  ASSUME NEW asked, NEW names, asked \subseteq Range(Names)
  PROVE  Looked(<<>>, Only(Names, asked), asked, names)
<1>1. /\ Only(Names, asked) \in Seq(Int) /\ Increasing(Only(Names, asked))
      /\ Range(Only(Names, asked)) = asked
  BY AllNames, OnlyIncreasing
<1>2. <<>> \in Seq(Line) /\ Len(<<>>) = 0 /\ 1..0 = {}
  OBVIOUS
<1> QED
  BY <1>1, <1>2 DEF Looked

-----------------------------------------------------------------------------
(* The lists are those of the files, and what is printed is what was asked *)
(* for.                                                                    *)
FromFiles == lines \in [Lists -> Seq(Line)] /\ RowsAsInFile

BoardsSoFar ==
  pc = "boards" => Looked(out, wanted, Asked(cluster, last.arg), NamesOf(lst["j"].rows))

QInv == /\ FromFiles
        /\ pc = "reading" => last.opt \in Lists
        /\ DeviceOfCluster
        /\ BoardsSoFar
        /\ BoardsAsAsked

(* Steps that leave lists and files alone. *)
LEMMA FilesUntouched ==
  ASSUME FromFiles, UNCHANGED <<lst, lines, failed>>, pc # "done" \/ pc' = "done"
  PROVE  FromFiles'
BY DEF FromFiles, RowsAsInFile, RowsRead

(* Opening a file and reading its lines. *)
LEMMA FilesRead ==
  ASSUME IInv, FromFiles, ReadLine \/ \E o \in Options : OpenFile(o)
  PROVE  FromFiles'
<1> DEFINE Rows == {l \in Line : IsRow(l)}
<1>1. /\ lines \in [Lists -> Seq(Line)] /\ failed \in [Lists -> BOOLEAN] /\ lst \in [Lists -> BoardList]
      /\ rest \in Seq(Line) /\ reading \in Lists
  BY DEF IInv, TypeOK, ListsOK, FromFiles
<1>2. pc # "done" => \A t \in Lists : ~failed[t] => lst[t].rows = Only(lines[t], Rows)
  BY DEF FromFiles, RowsAsInFile, RowsRead
<1>3. SUFFICES /\ lines' \in [Lists -> Seq(Line)]
               /\ \A t \in Lists : ~failed'[t] => lst'[t].rows = Only(lines'[t], Rows)
  BY DEF FromFiles, RowsAsInFile, RowsRead
<1> HIDE DEF Rows
<1>4. ASSUME NEW o \in Options, OpenFile(o)
      PROVE  /\ lines' \in [Lists -> Seq(Line)]
             /\ \A t \in Lists : ~failed'[t] => lst'[t].rows = Only(lines'[t], Rows)
  <2>1. pc = "options" /\ o.opt \in Lists
    BY <1>4 DEF OpenFile, Take
  <2>2. CASE CleanHolds(lst[o.opt])
    <3>1. /\ lst' = [lst EXCEPT ![o.opt] = EmptyList] /\ lines' = [lines EXCEPT ![o.opt] = <<>>]
          /\ failed' = [failed EXCEPT ![o.opt] = FALSE]
      BY <1>4, <2>2 DEF OpenFile, Cleaned
    <3>2. <<>> \in Seq(Line) /\ EmptyList.rows = <<>> /\ Only(<<>>, Rows) = <<>>
      BY NothingKept DEF EmptyList
    <3>3. lines' \in [Lists -> Seq(Line)]
      BY <1>1, <3>1, <3>2
    <3>4. ASSUME NEW t \in Lists, ~failed'[t] PROVE lst'[t].rows = Only(lines'[t], Rows)
      <4>1. CASE t = o.opt
        <5>1. lst'[t] = EmptyList /\ lines'[t] = <<>>
          BY <1>1, <3>1, <4>1
        <5> QED
          BY <3>2, <5>1
      <4>2. CASE t # o.opt
        <5>1. lst'[t] = lst[t] /\ lines'[t] = lines[t] /\ ~failed[t]
          BY <1>1, <3>1, <3>4, <4>2
        <5> QED
          BY <1>2, <2>1, <5>1
      <4> QED
        BY <4>1, <4>2
    <3> QED
      BY <3>3, <3>4
  <2>3. CASE ~CleanHolds(lst[o.opt])
    <3>1. UNCHANGED <<lst, lines, failed>>
      BY <1>4, <2>3 DEF OpenFile, Abort
    <3> QED
      BY <1>1, <1>2, <2>1, <3>1
  <2> QED
    BY <2>2, <2>3
<1>5. CASE ReadLine
  <2> DEFINE h == Head(rest)
             l == lst[reading]
  <2>1. /\ pc = "reading" /\ rest # <<>> /\ lines' = [lines EXCEPT ![reading] = Append(@, h)]
        /\ \/ ~IsRow(h) /\ UNCHANGED <<lst, failed>>
           \/ /\ IsRow(h) /\ UNCHANGED failed
              /\ lst' = [lst EXCEPT ![reading] = [Grown(l) EXCEPT !.rows = Append(@, h)]]
           \/ /\ \E left \in {l, Grown(l)} : lst' = [lst EXCEPT ![reading] = left]
              /\ failed' = [failed EXCEPT ![reading] = TRUE]
    BY <1>5, Zenon DEF ReadLine
  <2>2. h \in Line
    BY <1>1, <2>1
  <2> HIDE DEF h
  <2>3. lines[reading] \in Seq(Line) /\ Append(lines[reading], h) \in Seq(Line)
    BY <1>1, <2>2
  <2>4. lines' \in [Lists -> Seq(Line)] /\ lines'[reading] = Append(lines[reading], h)
    BY <1>1, <2>1, <2>3
  <2>5. ASSUME NEW t \in Lists, ~failed'[t], t # reading
        PROVE  lst'[t].rows = Only(lines'[t], Rows)
    <3>1. lst'[t] = lst[t] /\ lines'[t] = lines[t] /\ ~failed[t]
      BY <1>1, <2>1, <2>5
    <3> QED
      BY <1>2, <2>1, <3>1
  <2>6. ASSUME ~failed'[reading] PROVE lst'[reading].rows = Only(lines'[reading], Rows)
    <3>1. failed' = failed
      BY <1>1, <2>1, <2>6
    <3>2. l.rows = Only(lines[reading], Rows)
      BY <1>1, <1>2, <2>1, <2>6, <3>1
    <3>3. Only(lines'[reading], Rows) =
            IF h \in Rows THEN Append(Only(lines[reading], Rows), h) ELSE Only(lines[reading], Rows)
      <4> DEFINE q == lines[reading]
      <4>1. q \in Seq(Line) /\ lines'[reading] = Append(q, h)
        BY <2>3, <2>4
      <4> HIDE DEF q
      <4>2. Only(Append(q, h), Rows) = IF h \in Rows THEN Append(Only(q, Rows), h) ELSE Only(q, Rows)
        BY <2>2, <4>1, OnlyAppend
      <4> QED
        BY <4>1, <4>2, Zenon DEF q
    <3>4. h \in Rows <=> IsRow(h)
      BY <2>2 DEF Rows
    <3>5. CASE ~IsRow(h)
      <4>1. lst' = lst
        BY <1>1, <2>1, <2>6, <3>5
      <4> QED
        BY <3>2, <3>3, <3>4, <3>5, <4>1
    <3>6. CASE IsRow(h)
      <4>1. lst' = [lst EXCEPT ![reading] = [Grown(l) EXCEPT !.rows = Append(@, h)]]
        BY <1>1, <2>1, <2>6, <3>6
      <4>2. Grown(l) \in BoardList /\ Grown(l).rows = l.rows
        <5>1. Sound(l)
          BY <1>1 DEF IInv, ListsOK
        <5> QED
          BY <5>1, GrownHasRoom
      <4> DEFINE g == Grown(l)
      <4> HIDE DEF g
      <4>3. lst'[reading] = [g EXCEPT !.rows = Append(@, h)] /\ g \in BoardList /\ g.rows = l.rows
        BY <1>1, <4>1, <4>2 DEF g
      <4>4. lst'[reading].rows = Append(l.rows, h)
        BY <4>3 DEF BoardList
      <4> QED
        BY <3>2, <3>3, <3>4, <3>6, <4>4
    <3> QED
      BY <3>5, <3>6
  <2> QED
    BY <2>4, <2>5, <2>6
<1> QED
  BY <1>4, <1>5

(* The sections of a script: one for each cluster meant that has a row.    *)
LEMMA SectionsAsMeant ==
  ASSUME IInv, FromFiles, NEW o \in Options, ForClusters(o)
  PROVE  DeviceOfCluster'
<1> DEFINE rows == lst["i"].rows
           S == {i \in Masked(cluster, Clusters) : HasAddress(rows, RowOf(i))}
           all == [i \in 1..Clusters |-> i]
           c == Only(all, S)
<1>1. /\ pc = "options" /\ last' = o /\ UNCHANGED <<lst, cluster, lines, failed, pc>>
      /\ out' = [k \in 1..Len(c) |-> Section(o, c[k])]
  BY DEF ForClusters, Take, Chosen
<1>2. rows \in Seq(Line)
  BY DEF IInv, ListsOK, Lists, BoardList
<1>3. Clusters \in Nat
  BY SizesAssumption
<1>4. c \in Seq(Int) /\ Increasing(c) /\ Range(c) = S \cap 1..Clusters
  <2>1. all \in Seq(Int) /\ Len(all) = Clusters /\ DOMAIN all = 1..Clusters /\ \A i \in 1..Clusters : all[i] = i
    BY <1>3
  <2> HIDE DEF all
  <2>2. Increasing(all)
    BY <1>3, <2>1 DEF Increasing
  <2>3. Range(all) = 1..Clusters
    BY <2>1 DEF Range
  <2> QED
    BY <2>1, <2>2, <2>3, OnlyIncreasing
<1>5. S \cap 1..Clusters = {i \in Parse(cluster, 0).mask \cap 1..Clusters : HasAddress(rows, i)}
  <2>1. \A i \in 1..Clusters : i \in 0..Clusters
    BY <1>3
  <2> HIDE DEF rows
  <2> QED
    BY <2>1 DEF Masked, RowOf
<1> HIDE DEF c, S
<1>6. /\ Len(c) \in Nat /\ DOMAIN c = 1..Len(c)
      /\ Len(out') = Len(c)
      /\ \A k \in 1..Len(c) : out'[k].cluster = c[k] /\ out'[k].row = rows[c[k]]
  BY <1>1, <1>4 DEF Section, RowOf
<1>7. ASSUME ~failed["i"] PROVE rows = RowsRead("i")
  BY <1>1, <1>7 DEF FromFiles, RowsAsInFile, Lists
<1>8. {out'[k].cluster : k \in 1..Len(out')} = Range(c)
  BY <1>6 DEF Range
<1>9. \A k, l \in 1..Len(out') : k < l => out'[k].cluster < out'[l].cluster
  BY <1>4, <1>6 DEF Increasing
<1> HIDE DEF rows
<1>10. RowsRead("i")' = RowsRead("i")
  BY <1>1 DEF RowsRead
<1> QED
  BY <1>1, <1>4, <1>5, <1>6, <1>7, <1>8, <1>9, <1>10 DEF DeviceOfCluster

(* Behind the last name, what is printed is what was asked for. *)
LEMMA AllLookedUp ==
  ASSUME IInv, QInv, pc = "boards", wanted = <<>>, pc' = "options",
         UNCHANGED <<lst, cluster, lines, failed, last, out>>
  PROVE  BoardsAsAsked'
<1> DEFINE asked == Asked(cluster, last.arg)
           names == NamesOf(lst["j"].rows)
<1>1. Looked(out, <<>>, asked, names)
  BY DEF QInv, BoardsSoFar
<1>2. lst["j"].rows \in Seq(Line)
  BY DEF IInv, ListsOK, Lists, BoardList
<1>3. ~failed["j"] => lst["j"].rows = RowsRead("j")
  BY DEF QInv, FromFiles, RowsAsInFile, Lists
<1> DEFINE printed == [k \in 1..Len(out) |-> out[k].n]
<1> HIDE DEF asked, names
<1>4. out \in Seq(Line) /\ Len(out) \in Nat
  BY <1>1 DEF Looked
<1>5. DOMAIN printed = 1..Len(out) /\ \A k \in 1..Len(out) : printed[k] = out[k].n
  OBVIOUS
<1>6. \A k, l \in 1..Len(out) : k < l => printed[k] < printed[l]
  BY <1>1 DEF Looked
<1>7. Range(printed) \subseteq asked
  BY <1>1, <1>5 DEF Looked, Range
<1>8. Range(<<>>) = {}
  BY DEF Range
<1>9. ASSUME Sorted(names) PROVE Range(printed) = asked \cap Range(names)
  <2>1. ASSUME NEW x \in asked \cap Range(names) PROVE x \in Range(printed)
    <3>1. PICK k \in 1..Len(out) : out[k].n = x
      BY <1>1, <1>8, <1>9, <2>1 DEF Looked
    <3> QED
      BY <1>5, <3>1 DEF Range
  <2>2. ASSUME NEW k \in 1..Len(out) PROVE out[k].n \in Range(names)
    BY <1>1 DEF Looked
  <2> QED
    BY <1>5, <1>7, <2>1, <2>2 DEF Range
<1>10. /\ RowsRead("j")' = RowsRead("j") /\ out' = out /\ failed' = failed
       /\ Asked(cluster, last.arg)' = asked
  BY DEF RowsRead, asked
<1>11. ~failed["j"] => [k \in 1..Len(RowsRead("j")) |-> RowsRead("j")[k].n] = names
  BY <1>3 DEF names, NamesOf
<1>12. ~failed["j"] /\ Sorted(names) => Range(printed) = asked \cap Range(names)
  BY <1>9
<1> HIDE DEF printed
<1> QED
  BY <1>6, <1>7, <1>10, <1>11, <1>12 DEF BoardsAsAsked, printed

(* Every option, line and query preserves it.                              *)
LEMMA StepQueries == IInv /\ IInv' /\ QInv /\ [Next]_vars => QInv'
<1> SUFFICES ASSUME IInv, IInv', QInv, [Next]_vars PROVE QInv'
  OBVIOUS
<1>0. FromFiles
  BY DEF QInv
<1>1. ASSUME NEW o \in Options, OpenFile(o) PROVE QInv'
  <2>1. FromFiles'
    BY <1>0, <1>1, FilesRead
  <2>2. pc' \in {"reading", "aborted"} /\ last'.opt \in Lists
    BY <1>1 DEF OpenFile, Take, Abort
  <2> QED
    BY <2>1, <2>2 DEF QInv, DeviceOfCluster, BoardsSoFar, BoardsAsAsked
<1>2. ASSUME NEW o \in Options, SetCluster(o) \/ Direct(o) PROVE QInv'
  <2>1. /\ pc = "options" /\ pc' = "options" /\ last' = o /\ o.opt \in {"c", "n", "w", "d"}
        /\ UNCHANGED <<lst, lines, failed>>
    BY <1>2 DEF SetCluster, Direct, Take
  <2>2. FromFiles'
    BY <1>0, <2>1, FilesUntouched
  <2> QED
    BY <2>1, <2>2 DEF QInv, DeviceOfCluster, BoardsSoFar, BoardsAsAsked
<1>3. ASSUME NEW o \in Options, ForClusters(o) PROVE QInv'
  <2>1. /\ pc = "options" /\ pc' = "options" /\ last' = o /\ o.opt \in {"a", "p", "r"}
        /\ UNCHANGED <<lst, lines, failed>>
    BY <1>3 DEF ForClusters, Take
  <2>2. FromFiles'
    BY <1>0, <2>1, FilesUntouched
  <2>3. DeviceOfCluster'
    BY <1>0, <1>3, SectionsAsMeant
  <2> QED
    BY <2>1, <2>2, <2>3 DEF QInv, BoardsSoFar, BoardsAsAsked
<1>4. ASSUME NEW o \in Options, GetBoards(o) PROVE QInv'
  <2>1. /\ pc = "options" /\ last' = o /\ o.opt = "b" /\ out' = <<>>
        /\ UNCHANGED <<lst, cluster, lines, failed>>
    BY <1>4 DEF GetBoards, Take
  <2>2. FromFiles'
    BY <1>0, <2>1, FilesUntouched
  <2>3. CASE Forbidden(o.arg) \/ Forbidden(cluster)
    <3>1. pc' = "options"
      BY <1>4, <2>1, <2>3 DEF GetBoards
    <3> QED
      BY <2>1, <2>2, <2>3, <3>1 DEF QInv, DeviceOfCluster, BoardsSoFar, BoardsAsAsked
  <2>4. CASE ~(Forbidden(o.arg) \/ Forbidden(cluster))
    <3>1. pc' = "boards" /\ wanted' = Only(Names, Asked(cluster, o.arg))
      BY <1>4, <2>4 DEF GetBoards
    <3>2. Looked(<<>>, Only(Names, Asked(cluster, o.arg)), Asked(cluster, o.arg), NamesOf(lst["j"].rows))
      BY AllNames, LookupStarts
    <3>3. BoardsSoFar'
      BY <2>1, <3>1, <3>2 DEF BoardsSoFar
    <3> QED
      BY <2>2, <3>1, <3>3 DEF QInv, DeviceOfCluster, BoardsAsAsked
  <2> QED
    BY <2>3, <2>4
<1>5. CASE ReadLine
  <2>1. FromFiles'
    BY <1>0, <1>5, FilesRead
  <2>2. pc = "reading" /\ pc' = "reading" /\ last' = last
    BY <1>5 DEF ReadLine
  <2> QED
    BY <2>1, <2>2 DEF QInv, DeviceOfCluster, BoardsSoFar, BoardsAsAsked
<1>6. CASE CloseFile
  <2>1. pc = "reading" /\ pc' = "options" /\ last' = last /\ UNCHANGED <<lst, lines, failed>>
    BY <1>6 DEF CloseFile
  <2>2. FromFiles'
    BY <1>0, <2>1, FilesUntouched
  <2>3. last'.opt \in Lists
    BY <2>1 DEF QInv
  <2> QED
    BY <2>1, <2>2, <2>3 DEF QInv, DeviceOfCluster, BoardsSoFar, BoardsAsAsked, Lists
<1>7. CASE GetBoard
  <2>1. /\ pc = "boards" /\ wanted # <<>> /\ pc' \in {"boards", "aborted"}
        /\ UNCHANGED <<lst, cluster, lines, failed, last>>
    BY <1>7 DEF GetBoard, Abort
  <2>2. FromFiles'
    BY <1>0, <2>1, FilesUntouched
  <2>3. CASE pc' = "aborted"
    BY <2>2, <2>3 DEF QInv, DeviceOfCluster, BoardsSoFar, BoardsAsAsked
  <2>4. CASE pc' = "boards"
    <3> DEFINE rows == lst["j"].rows
    <3>1. PICK a \in Answers(NamesOf(rows), Head(wanted)) :
            out' = out \o Printed(rows, a) /\ wanted' = Tail(wanted)
      <4>1. ~Abort
        BY <2>4 DEF Abort
      <4> QED
        BY <1>7, <4>1 DEF GetBoard, NamesOf, Remaining
    <3>2. rows \in Seq(Line)
      BY DEF IInv, ListsOK, Lists, BoardList
    <3>3. Looked(out, wanted, Asked(cluster, last.arg), NamesOf(rows))
      BY <2>1 DEF QInv, BoardsSoFar
    <3> HIDE DEF rows
    <3>4. Looked(out', wanted', Asked(cluster, last.arg), NamesOf(rows))
      BY <2>1, <3>1, <3>2, <3>3, LookupStep
    <3>5. BoardsSoFar'
      BY <2>1, <3>4 DEF BoardsSoFar, rows
    <3> QED
      BY <2>2, <2>4, <3>5 DEF QInv, DeviceOfCluster, BoardsAsAsked
  <2> QED
    BY <2>1, <2>3, <2>4
<1>8. CASE GetBoardsDone
  <2>1. /\ pc = "boards" /\ wanted = <<>> /\ pc' = "options"
        /\ UNCHANGED <<lst, cluster, lines, failed, last, out>>
    BY <1>8 DEF GetBoardsDone
  <2>2. FromFiles'
    BY <1>0, <2>1, FilesUntouched
  <2>3. BoardsAsAsked'
    BY <2>1, AllLookedUp
  <2>4. last'.opt = "b"
    BY <2>1 DEF IInv
  <2> QED
    BY <2>1, <2>2, <2>3, <2>4 DEF QInv, DeviceOfCluster, BoardsSoFar
<1>9. CASE Finish
  <2>1. pc' \in {"done", "aborted"}
    BY <1>9 DEF Finish, Abort
  <2>2. FromFiles'
    <3>1. pc = "options" /\ UNCHANGED <<lines, failed>> /\ (pc' = "done" \/ UNCHANGED lst)
      BY <1>9 DEF Finish, Abort
    <3> QED
      BY <1>0, <3>1 DEF FromFiles, RowsAsInFile, RowsRead
  <2> QED
    BY <2>1, <2>2 DEF QInv, DeviceOfCluster, BoardsSoFar, BoardsAsAsked
<1>10. CASE UNCHANGED vars
  <2>1. UNCHANGED <<lst, cluster, lines, failed, last, out, wanted, pc>>
    BY <1>10 DEF vars
  <2>2. FromFiles'
    BY <1>0, <2>1, FilesUntouched
  <2>3. \A t : RowsRead(t)' = RowsRead(t)
    BY <2>1 DEF RowsRead
  <2>4. DeviceOfCluster'
    BY <2>1, <2>3 DEF QInv, DeviceOfCluster
  <2>5. BoardsSoFar' /\ BoardsAsAsked'
    BY <2>1, <2>3 DEF QInv, BoardsSoFar, BoardsAsAsked
  <2> QED
    BY <2>1, <2>2, <2>4, <2>5 DEF QInv
<1> QED
  BY <1>1, <1>2, <1>3, <1>4, <1>5, <1>6, <1>7, <1>8, <1>9, <1>10 DEF Next

(* It holds before the first option.                                       *)
LEMMA InitQueries == Init => QInv
<1> SUFFICES ASSUME Init PROVE QInv
  OBVIOUS
<1>1. /\ pc = "options" /\ last.opt = "none"
      /\ \A t \in Lists : lst[t].rows = <<>> /\ lines[t] = <<>>
      /\ lines = [t \in Lists |-> <<>>]
  BY DEF Init, EmptyList
<1>2. <<>> \in Seq(Line) /\ Len(<<>>) = 0
  OBVIOUS
<1>3. FromFiles
  BY <1>1, <1>2, NothingKept DEF FromFiles, RowsAsInFile, RowsRead
<1> QED
  BY <1>1, <1>3 DEF QInv, DeviceOfCluster, BoardsSoFar, BoardsAsAsked

-----------------------------------------------------------------------------
(* No list ever outgrows its memory. *)
THEOREM TypeCorrect == Spec => []TypeOK
<1>1. IInv => TypeOK
  BY DEF IInv
<1> QED
  BY <1>1, InitInvariant, StepInvariant, PTL DEF Spec

(* However often lists are read and read again, of whatever files: an      *)
(* assertion fails only if there was no memory for a row of a list that is *)
(* cleaned (brdlst_clean), or if boards are asked of a list without rows   *)
(* (do_get_all_board) or with a name longer than the buffer it would be    *)
(* compared in (pf_bsearch_cb_comp_brdlst_board_name).                     *)
THEOREM NoOtherAbort == Spec => []AbortsWithReason
<1>1. IInv => AbortsWithReason
  BY DEF IInv
<1> QED
  BY <1>1, InitInvariant, StepInvariant, PTL DEF Spec

(* The two invariants together.                                            *)
THEOREM InductiveQueries == Spec => [](IInv /\ QInv)
<1>1. Init => IInv /\ QInv
  BY InitInvariant, InitQueries
<1>2. IInv /\ QInv /\ [Next]_vars => (IInv /\ QInv)'
  BY StepInvariant, StepQueries
<1> QED
  BY <1>1, <1>2, PTL DEF Spec

(* A list holds the rows of the file it was last read from, whatever was   *)
(* read into it before and however it had to grow (cb_process_brdlst_line, *)
(* brdlst_append, brdlst_clean).                                           *)
THEOREM ListsAsInFiles == Spec => []RowsAsInFile
<1>1. IInv /\ QInv => RowsAsInFile
  BY DEF QInv, FromFiles
<1> QED
  BY <1>1, InductiveQueries, PTL

(* Every cluster meant that has a row gets one section, for the device of  *)
(* that row (do_setatten, do_setpower, do_getpower).                       *)
THEOREM SectionsToTheirDevices == Spec => []DeviceOfCluster
<1>1. IInv /\ QInv => DeviceOfCluster
  BY DEF QInv
<1> QED
  BY <1>1, InductiveQueries, PTL

(* -b prints what was asked for, once and in order, and of a sorted file   *)
(* all of it, whatever answers of those allowed the search gives           *)
(* (do_get_all_board).                                                     *)
THEOREM BoardsPrinted == Spec => []BoardsAsAsked
<1>1. IInv /\ QInv => BoardsAsAsked
  BY DEF QInv
<1> QED
  BY <1>1, InductiveQueries, PTL
=============================================================================
