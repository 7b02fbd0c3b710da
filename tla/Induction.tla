------------------------------ MODULE Induction ------------------------------
(***************************************************************************)
(* Induction and recursion without an operator as a parameter.  The        *)
(* theorems of the library speak of a predicate P(_); these speak of the   *)
(* set of the numbers that satisfy it, and of functions in place of the    *)
(* operators of a recursive definition, so that every use of them is a     *)
(* first-order fact.                                                       *)
(***************************************************************************)
EXTENDS Integers, Sequences, FiniteSetTheorems, TLAPS

(* The numbers below the members of a set of naturals, ordered by          *)
(* inclusion, have a smallest one: so has the set.                         *)
LEMMA LeastNumber ==
    ASSUME NEW T \in SUBSET Nat, T # {}
    PROVE  \E m \in T : \A n \in T : m <= n
<1> DEFINE below(n) == 0..(n - 1)
           U == {below(n) : n \in T}
           R == StrictSubsetOrdering(Nat)
<1>1. U \subseteq FiniteSubsetsOf(Nat) /\ U # {}
    <2>1. ASSUME NEW n \in T PROVE below(n) \in SUBSET Nat /\ IsFiniteSet(below(n))
        BY FS_Interval
    <2> QED BY <2>1 DEF FiniteSubsetsOf
<1>2. IsWellFoundedOn(R, FiniteSubsetsOf(Nat))
    BY FS_StrictSubsetOrderingWellFounded
<1>3. PICK u \in U : \A v \in U : ~(<<v, u>> \in R)
    <2> HIDE DEF U, R
    <2> QED BY <1>1, <1>2, WFMin
<1>4. PICK m \in T : u = below(m)
    OBVIOUS
<1>5. ASSUME NEW n \in T, n < m PROVE FALSE
    <2>1. n \in Nat /\ m \in Nat
        OBVIOUS
    <2>2. below(n) \subseteq below(m)
        BY <1>5, <2>1
    <2>3. n \in below(m) /\ n \notin below(n)
        BY <1>5, <2>1
    <2>4. <<below(n), below(m)>> \in R
        BY <2>1, <2>2, <2>3 DEF StrictSubsetOrdering
    <2> QED BY <1>3, <1>4, <2>4
<1>6. \A n \in T : m <= n
    BY <1>5
<1> QED
    BY <1>6

(* A set of naturals that holds 0 and with every number the next one.      *)
LEMMA SetInduction ==
    ASSUME NEW S \in SUBSET Nat, 0 \in S, \A n \in S : n + 1 \in S
    PROVE  S = Nat
<1> SUFFICES ASSUME S # Nat PROVE FALSE
    OBVIOUS
<1> DEFINE T == Nat \ S
<1>1. T \in SUBSET Nat /\ T # {}
    OBVIOUS
<1>2. PICK m \in T : \A n \in T : m <= n
    <2> HIDE DEF T
    <2> QED BY <1>1, LeastNumber
<1>3. m \in Nat /\ m # 0
    OBVIOUS
<1>4. m - 1 \in Nat /\ ~(m <= m - 1)
    BY <1>3
<1>5. m - 1 \in S
    BY <1>2, <1>4
<1>6. m - 1 + 1 \in S
    BY <1>5
<1> QED
    BY <1>3, <1>6

(* All elements have a property if each has it when the smaller ones do;   *)
(* P is the set of those that have it.                                     *)
LEMMA SizeInduction ==
    ASSUME NEW A, NEW P, NEW size,
           \A x \in A : size[x] \in Nat,
           \A x \in A : (\A y \in A : size[y] < size[x] => y \in P) => x \in P
    PROVE  \A x \in A : x \in P
<1> SUFFICES ASSUME NEW z \in A, z \notin P PROVE FALSE
    OBVIOUS
<1> DEFINE T == {size[x] : x \in {y \in A : y \notin P}}
<1>1. T \in SUBSET Nat /\ T # {}
    OBVIOUS
<1>2. PICK m \in T : \A n \in T : m <= n
    <2> HIDE DEF T
    <2> QED BY <1>1, LeastNumber
<1>3. PICK x \in A : x \notin P /\ m = size[x]
    OBVIOUS
<1>4. ASSUME NEW y \in A, size[y] < size[x] PROVE y \in P
    <2>1. size[y] \in Nat /\ size[x] \in Nat /\ ~(m <= size[y])
        BY <1>3, <1>4
    <2> QED BY <1>2, <2>1
<1> QED
    BY <1>3, <1>4

(***************************************************************************)
(* A definition by recursion: f[x] is base[x] for the x in Stop, and for   *)
(* the others step[<<x, f[next[x]]>>], where next[x] is smaller than x.    *)
(***************************************************************************)
Obeys(f, D, Stop, base, next, step) == \A x \in D :
    f[x] = IF x \in Stop THEN base[x] ELSE step[<<x, f[next[x]]>>]

(* Every argument has a size, and the next one a smaller one.              *)
Descends(D, Stop, next, size) == \A x \in D :
    size[x] \in Nat /\ (x \notin Stop => next[x] \in D /\ size[next[x]] < size[x])

(* The arguments smaller than n. *)
Level(A, size, n) == {x \in A : size[x] < n}

(* Such a function exists, on every level and so on all of A.              *)
LEMMA RecursionOnLevels ==
    ASSUME NEW A, NEW B, NEW Stop \in SUBSET A,
           NEW base \in [Stop -> B],
           NEW next,
           NEW step \in [(A \ Stop) \X B -> B],
           NEW size, Descends(A, Stop, next, size)
    PROVE  \A n \in Nat : \E g \in [Level(A, size, n) -> B] :
               Obeys(g, Level(A, size, n), Stop, base, next, step)
<1> DEFINE Good(g, n) == /\ g \in [Level(A, size, n) -> B]
                         /\ Obeys(g, Level(A, size, n), Stop, base, next, step)
           S == {n \in Nat : \E g \in [Level(A, size, n) -> B] : Good(g, n)}
<1>0. /\ \A x \in A : size[x] \in Nat
      /\ \A x \in A : x \notin Stop => next[x] \in A /\ size[next[x]] < size[x]
    BY DEF Descends
<1> USE <1>0
<1>1. 0 \in S
    <2>1. Level(A, size, 0) = {}
        BY DEF Level
    <2>2. [x \in {} |-> x] \in [{} -> B] /\ Good([x \in {} |-> x], 0)
        BY <2>1 DEF Obeys
    <2> QED BY <2>1, <2>2
<1>2. ASSUME NEW n \in S PROVE n + 1 \in S
    <2>1. PICK g \in [Level(A, size, n) -> B] : Good(g, n)
        OBVIOUS
    <2> DEFINE value(x) == IF x \in Stop THEN base[x] ELSE step[<<x, g[next[x]]>>]
               h == [x \in Level(A, size, n + 1) |-> value(x)]
    <2>2. ASSUME NEW x \in Level(A, size, n + 1), x \notin Stop
          PROVE  next[x] \in Level(A, size, n) /\ next[x] \in Level(A, size, n + 1)
        <3>1. x \in A /\ size[x] \in Nat /\ size[x] < n + 1
            BY DEF Level
        <3>2. next[x] \in A /\ size[next[x]] \in Nat /\ size[next[x]] < size[x]
            BY <2>2, <3>1
        <3>3. n \in Nat
            OBVIOUS
        <3> QED BY <3>1, <3>2, <3>3 DEF Level
    <2>3. \A x \in Level(A, size, n + 1) : value(x) \in B
        <3> SUFFICES ASSUME NEW x \in Level(A, size, n + 1) PROVE value(x) \in B
            OBVIOUS
        <3>1. x \in A
            BY DEF Level
        <3>2. CASE x \in Stop
            BY <3>2
        <3>3. CASE x \notin Stop
            <4>1. g[next[x]] \in B
                BY <2>1, <2>2, <3>3
            <4> QED BY <3>1, <3>3, <4>1
        <3> QED BY <3>2, <3>3
    <2>4. h \in [Level(A, size, n + 1) -> B]
        BY <2>3
    <2>5. \A x \in Level(A, size, n) : x \in Level(A, size, n + 1) /\ h[x] = g[x]
        <3> SUFFICES ASSUME NEW x \in Level(A, size, n)
                     PROVE  x \in Level(A, size, n + 1) /\ h[x] = g[x]
            OBVIOUS
        <3>1. x \in Level(A, size, n + 1)
            <4>1. x \in A /\ size[x] \in Nat /\ size[x] < n /\ n \in Nat
                BY DEF Level
            <4> QED BY <4>1 DEF Level
        <3>2. g[x] = value(x)
            BY <2>1 DEF Obeys
        <3> QED BY <3>1, <3>2
    <2>6. Good(h, n + 1)
        <3> SUFFICES ASSUME NEW x \in Level(A, size, n + 1)
                     PROVE  h[x] = IF x \in Stop THEN base[x] ELSE step[<<x, h[next[x]]>>]
            BY <2>4 DEF Obeys
        <3> QED BY <2>2, <2>5
    <2> HIDE DEF h
    <2>7. n + 1 \in Nat /\ \E gg \in [Level(A, size, n + 1) -> B] : Good(gg, n + 1)
        BY <2>4, <2>6
    <2> QED BY <2>7
<1> HIDE DEF Good
<1>3. S = Nat
    <2>1. S \in SUBSET Nat
        OBVIOUS
    <2> HIDE DEF S
    <2> QED BY <1>1, <1>2, <2>1, SetInduction
<1>4. \A n \in Nat : \E g \in [Level(A, size, n) -> B] : Good(g, n)
    BY <1>3
<1> QED
    BY <1>4 DEF Good

(* Two functions that obey the same equations agree where both do.         *)
LEMMA RecursionUnique ==
    ASSUME NEW D, NEW Stop, NEW base, NEW next, NEW step, NEW size, NEW f, NEW g,
           Descends(D, Stop, next, size),
           Obeys(f, D, Stop, base, next, step), Obeys(g, D, Stop, base, next, step)
    PROVE  \A x \in D : f[x] = g[x]
<1> SUFFICES ASSUME NEW y \in D, f[y] # g[y] PROVE FALSE
    OBVIOUS
<1> DEFINE Differ == {x \in D : f[x] # g[x]}
           T == {size[x] : x \in Differ}
<1>1. T \in SUBSET Nat /\ T # {}
    BY DEF Descends
<1>2. PICK m \in T : \A n \in T : m <= n
    <2> HIDE DEF T
    <2> QED BY <1>1, LeastNumber
<1>3. PICK x \in Differ : m = size[x]
    OBVIOUS
<1>4. x \notin Stop
    BY DEF Obeys
<1>5. next[x] \in D /\ size[next[x]] < size[x] /\ size[x] \in Nat /\ size[next[x]] \in Nat
    BY <1>4 DEF Descends
<1>6. f[next[x]] = g[next[x]]
    <2>1. ~(m <= size[next[x]])
        BY <1>3, <1>5
    <2>2. size[next[x]] \notin T
        BY <1>2, <2>1
    <2> QED BY <1>5, <2>2
<1> QED
    BY <1>4, <1>6 DEF Obeys

(* A function on A that obeys the equations.                               *)
LEMMA Recursion ==
    ASSUME NEW A, NEW B, NEW Stop \in SUBSET A,
           NEW base \in [Stop -> B],
           NEW next,
           NEW step \in [(A \ Stop) \X B -> B],
           NEW size, Descends(A, Stop, next, size)
    PROVE  \E f \in [A -> B] : Obeys(f, A, Stop, base, next, step)
<1> DEFINE L(n) == Level(A, size, n)
           OK(g, n) == g \in [L(n) -> B] /\ Obeys(g, L(n), Stop, base, next, step)
           G == [n \in Nat |-> CHOOSE g : OK(g, n)]
           f == [x \in A |-> G[size[x] + 1][x]]
<1>0. /\ \A x \in A : size[x] \in Nat
      /\ \A x \in A : x \notin Stop => next[x] \in A /\ size[next[x]] < size[x]
    BY DEF Descends
<1> USE <1>0
<1>1. \A n \in Nat : OK(G[n], n)
    <2> TAKE n \in Nat
    <2>1. \E g : OK(g, n)
        BY RecursionOnLevels
    <2> HIDE DEF OK
    <2> QED BY <2>1
<1>2. \A n \in Nat, x \in A : x \in L(n) <=> size[x] < n
    BY DEF Level
<1>3. ASSUME NEW n \in Nat, NEW x \in L(n), x \notin Stop
      PROVE  next[x] \in L(n) /\ size[next[x]] < size[x]
    <2>1. x \in A /\ size[x] \in Nat /\ size[x] < n
        BY DEF Level
    <2>2. next[x] \in A /\ size[next[x]] \in Nat /\ size[next[x]] < size[x]
        BY <1>3, <2>1
    <2> QED BY <2>1, <2>2, <1>2
<1>4. ASSUME NEW m \in Nat, NEW n \in Nat, m <= n
      PROVE  \A x \in L(m) : x \in L(n) /\ G[m][x] = G[n][x]
    <2>1. \A x \in L(m) : x \in L(n)
        <3> SUFFICES ASSUME NEW x \in L(m) PROVE x \in L(n)
            OBVIOUS
        <3>1. x \in A /\ size[x] \in Nat /\ size[x] < m
            BY DEF Level
        <3> QED BY <3>1, <1>2, <1>4
    <2>2. Obeys(G[m], L(m), Stop, base, next, step) /\ Obeys(G[n], L(m), Stop, base, next, step)
        BY <1>1, <2>1 DEF Obeys
    <2>3. L(m) \in SUBSET A
        BY DEF Level
    <2>4. Descends(L(m), Stop, next, size)
        BY <1>3, <2>3 DEF Descends
    <2>5. \A x \in L(m) : G[m][x] = G[n][x]
        <3> DEFINE D == L(m)
                   Gm == G[m]
                   Gn == G[n]
        <3>1. /\ Descends(D, Stop, next, size)
              /\ Obeys(Gm, D, Stop, base, next, step) /\ Obeys(Gn, D, Stop, base, next, step)
            BY <2>2, <2>4
        <3> HIDE DEF D, Gm, Gn
        <3>2. \A x \in D : Gm[x] = Gn[x]
            BY <3>1, RecursionUnique
        <3> QED BY <3>2 DEF D, Gm, Gn
    <2> QED BY <2>1, <2>5
<1>5. ASSUME NEW x \in A
      PROVE  size[x] + 1 \in Nat /\ x \in L(size[x] + 1) /\ f[x] = G[size[x] + 1][x]
    <2>1. size[x] \in Nat /\ size[x] + 1 \in Nat /\ size[x] < size[x] + 1
        OBVIOUS
    <2> QED BY <2>1, <1>2
<1>6. f \in [A -> B]
    <2>1. \A x \in A : G[size[x] + 1][x] \in B
        BY <1>1, <1>5
    <2> QED BY <2>1
<1>7. ASSUME NEW x \in A
      PROVE  f[x] = IF x \in Stop THEN base[x] ELSE step[<<x, f[next[x]]>>]
    <2>1. G[size[x] + 1][x] = IF x \in Stop THEN base[x]
                              ELSE step[<<x, G[size[x] + 1][next[x]]>>]
        BY <1>1, <1>5 DEF Obeys
    <2>2. CASE x \in Stop
        BY <1>5, <2>1, <2>2
    <2>3. CASE x \notin Stop
        <3>1. next[x] \in A /\ size[next[x]] < size[x] /\ size[x] \in Nat /\ size[next[x]] \in Nat
            BY <2>3
        <3>2. size[next[x]] + 1 <= size[x] + 1 /\ size[next[x]] + 1 \in Nat /\ size[x] + 1 \in Nat
            BY <3>1
        <3>3. G[size[next[x]] + 1][next[x]] = G[size[x] + 1][next[x]]
            <4> HIDE DEF L, G, f, OK
            <4>1. next[x] \in L(size[next[x]] + 1)
                BY <1>5, <3>1
            <4> QED BY <1>4, <3>2, <4>1
        <3>4. f[next[x]] = G[size[x] + 1][next[x]]
            BY <1>5, <3>1, <3>3
        <3>5. f[x] = step[<<x, G[size[x] + 1][next[x]]>>]
            BY <1>5, <2>1, <2>3
        <3> HIDE DEF f
        <3> QED BY <2>3, <3>4, <3>5
    <2> QED BY <2>2, <2>3
<1> HIDE DEF f
<1> QED
    BY <1>6, <1>7 DEF Obeys

(* Induction over the turns of a loop.                                     *)
LEMMA LoopInduction ==
    ASSUME NEW top \in Nat, NEW S, 0 \in S, \A n \in 1..top : n - 1 \in S => n \in S
    PROVE  \A n \in 0..top : n \in S
<1> DEFINE T == {n \in Nat : n <= top => n \in S}
<1>1. 0 \in T
    OBVIOUS
<1>2. ASSUME NEW n \in T PROVE n + 1 \in T
    <2> SUFFICES ASSUME n + 1 <= top PROVE n + 1 \in S
        OBVIOUS
    <2>1. n + 1 \in 1..top /\ n + 1 - 1 = n /\ n \in S
        OBVIOUS
    <2> QED BY <2>1
<1>3. T \in SUBSET Nat
    OBVIOUS
<1> HIDE DEF T
<1>4. T = Nat
    BY <1>1, <1>2, <1>3, SetInduction
<1> QED
    BY <1>4 DEF T

(* f[n] is what a loop has computed after n turns.                         *)
Computes(f, top, B, base, step) ==
    f \in [0..top -> B] /\ f[0] = base /\ \A n \in 1..top : f[n] = step[<<n, f[n - 1]>>]

(* For every loop there is such a function.                                *)
LEMMA LoopDefined ==
    ASSUME NEW B, NEW top \in Nat, NEW base \in B, NEW step \in [(1..top) \X B -> B]
    PROVE  \E f : Computes(f, top, B, base, step)
<1> DEFINE A == 0..top
           next == [n \in A |-> n - 1]
           start == [n \in {0} |-> base]
           size == [n \in A |-> n]
<1>1. A \ {0} = 1..top /\ 0 \in A /\ start \in [{0} -> B]
    OBVIOUS
<1>2. Descends(A, {0}, next, size)
    BY DEF Descends
<1>3. PICK f \in [A -> B] : Obeys(f, A, {0}, start, next, step)
    <2>1. step \in [(A \ {0}) \X B -> B] /\ {0} \in SUBSET A
        BY <1>1
    <2> HIDE DEF A, next, start, size
    <2> QED BY <1>1, <1>2, <2>1, Recursion
<1>4. \A n \in A : f[n] = IF n = 0 THEN base ELSE step[<<n, f[n - 1]>>]
    BY <1>3 DEF Obeys
<1>5. \A n \in 1..top : n \in A /\ n # 0
    BY <1>1
<1> HIDE DEF next, start, size
<1>6. f[0] = base
    BY <1>1, <1>4
<1>7. ASSUME NEW n \in 1..top PROVE f[n] = step[<<n, f[n - 1]>>]
    <2> HIDE DEF A
    <2> QED BY <1>4, <1>5
<1> QED
    BY <1>6, <1>7 DEF Computes
=============================================================================
