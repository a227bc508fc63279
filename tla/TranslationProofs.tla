------------------------- MODULE TranslationProofs -------------------------
(***************************************************************************)
(* How traces are built (BlockFactory), for every program, every content   *)
(* of the index, all requests of tools and all limits, and what lookups of *)
(* modules find (ModuleRanges), for all ranges that are mapped.            *)
(***************************************************************************)
EXTENDS MCTranslation, FiniteSetTheorems, SequenceTheorems, WellFoundedInduction, TLAPS

-----------------------------------------------------------------------------
(* Numbers, and functions that are defined by recursion on them.           *)

\* The least-number principle, for a set of numbers.
LEMMA LeastNumber == ASSUME NEW T \in SUBSET Nat, T # {}
                     PROVE  \E n \in T : \A m \in T : n <= m
<1> DEFINE R == {ss \in Nat \X Nat : ss[1] < ss[2]}
<1>1. IsWellFoundedOn(R, Nat)
  BY NatLessThanWellFounded DEF OpToRel
<1>2. PICK x \in T : \A y \in T : ~(<<y, x>> \in R)
  BY <1>1, WFMin
<1>3. \A y \in T : ~(y < x)
  BY <1>2
<1> QED
  BY <1>3

\* Induction, for a set of numbers.
LEMMA AllNumbers ==
  ASSUME NEW T, 0 \in T, \A n \in Nat : n \in T => n + 1 \in T
  PROVE  Nat \subseteq T
<1> DEFINE U == Nat \ T
<1> SUFFICES ASSUME U # {} PROVE FALSE
  OBVIOUS
<1>1. PICK n \in U : \A m \in U : n <= m
  BY LeastNumber
<1>2. n \in Nat /\ n # 0 /\ n \notin T
  OBVIOUS
<1>3. n - 1 \in Nat /\ n - 1 \in T
  BY <1>1, <1>2
<1>4. (n - 1) + 1 = n
  BY <1>2
<1> QED
  BY <1>2, <1>3, <1>4

\* A function on 0..M can be defined by recursion.
IsRecursive(f, base, step, M) == f[0] = base /\ \A i \in 1..M : f[i] = step[i][f[i - 1]]
LEMMA Recursion ==
  ASSUME NEW S, NEW base \in S, NEW step \in [Nat -> [S -> S]], NEW M \in Nat
  PROVE  \E f \in [0..M -> S] : IsRecursive(f, base, step, M)
<1> DEFINE Good(n, f) == f = [i \in 0..n |-> IF i = 0 THEN base ELSE step[i][f[i - 1]]]
           T == {n \in Nat : \E f \in [0..n -> S] : Good(n, f)}
<1>1. 0 \in T
  <2>1. PICK f : f = [i \in 0..0 |-> base]
    OBVIOUS
  <2>2. f \in [0..0 -> S] /\ Good(0, f)
    BY <2>1
  <2> QED
    BY <2>2
<1>2. ASSUME NEW n \in Nat, n \in T PROVE n + 1 \in T
  <2>1. PICK f \in [0..n -> S] : Good(n, f)
    BY <1>2
  <2>2. \A i \in 0..n : f[i] = IF i = 0 THEN base ELSE step[i][f[i - 1]]
    BY <2>1
  <2>3. PICK y : y = step[n + 1][f[n]]
    OBVIOUS
  <2>4. y \in S
    BY <2>3
  <2>5. PICK g : g = [i \in 0..(n + 1) |-> IF i = n + 1 THEN y ELSE f[i]]
    OBVIOUS
  <2>6. g \in [0..(n + 1) -> S]
    BY <2>4, <2>5
  <2>7. /\ DOMAIN g = 0..(n + 1)
        /\ \A i \in 0..(n + 1) : g[i] = IF i = 0 THEN base ELSE step[i][g[i - 1]]
    <3>1. ASSUME NEW i \in 0..(n + 1) PROVE g[i] = IF i = 0 THEN base ELSE step[i][g[i - 1]]
      <4>1. CASE i = n + 1
        <5>1. i # 0 /\ i - 1 = n /\ n \in 0..(n + 1) /\ n # n + 1
          BY <4>1
        <5>2. g[i - 1] = f[n] /\ g[i] = y
          BY <2>5, <4>1, <5>1
        <5> QED
          BY <2>3, <4>1, <5>1, <5>2
      <4>2. CASE i # n + 1
        <5>1. i \in 0..n /\ g[i] = f[i]
          BY <2>5, <4>2
        <5>2. i # 0 => i - 1 \in 0..n /\ i - 1 \in 0..(n + 1) /\ i - 1 # n + 1
          BY <5>1
        <5>3. i # 0 => g[i - 1] = f[i - 1]
          BY <2>5, <5>2
        <5> QED
          BY <2>2, <5>1, <5>3
      <4> QED
        BY <4>1, <4>2
    <3> QED
      BY <2>5, <3>1
  <2>8. Good(n + 1, g)
    BY <2>6, <2>7
  <2> HIDE DEF Good
  <2> QED
    BY <2>6, <2>8
<1> HIDE DEF T
<1>3. M \in T
  BY <1>1, <1>2, AllNumbers
<1>4. PICK f \in [0..M -> S] : f = [i \in 0..M |-> IF i = 0 THEN base ELSE step[i][f[i - 1]]]
  BY <1>3 DEF T
<1>5. IsRecursive(f, base, step, M)
  BY <1>4 DEF IsRecursive
<1> QED
  BY <1>5

-----------------------------------------------------------------------------
(* Sequences.                                                              *)

LEMMA Elements ==
  ASSUME NEW S, NEW q \in Seq(S)
  PROVE  /\ Len(q) \in Nat
         /\ \A j \in 1..Len(q) : q[j] \in S /\ q[j] \in ToSet(q)
         /\ \A x \in ToSet(q) : \E j \in 1..Len(q) : x = q[j]
         /\ ToSet(q) \subseteq S
<1>1. Len(q) \in Nat /\ \A j \in 1..Len(q) : q[j] \in S
  OBVIOUS
<1>2. \A x : x \in ToSet(q) <=> \E j \in 1..Len(q) : x = q[j]
  BY DEF ToSet
<1> QED
  BY <1>1, <1>2

LEMMA AppendIs ==
  ASSUME NEW S, NEW q \in Seq(S), NEW e \in S
  PROVE  /\ Append(q, e) \in Seq(S) /\ Len(Append(q, e)) = Len(q) + 1
         /\ \A i \in 1..Len(q) : Append(q, e)[i] = q[i]
         /\ Append(q, e)[Len(q) + 1] = e
         /\ \A x : x \in ToSet(Append(q, e)) <=> x \in ToSet(q) \/ x = e
<1>1. PICK r : r = Append(q, e)
  OBVIOUS
<1>2. /\ r \in Seq(S) /\ Len(r) = Len(q) + 1 /\ r[Len(q) + 1] = e
      /\ \A i \in 1..Len(q) : r[i] = q[i]
  BY <1>1
<1>3. ASSUME NEW x PROVE x \in ToSet(r) <=> x \in ToSet(q) \/ x = e
  <2>1. x \in ToSet(r) <=> \E i \in 1..(Len(q) + 1) : x = r[i]
    BY <1>2 DEF ToSet
  <2>2. x \in ToSet(q) <=> \E i \in 1..Len(q) : x = q[i]
    BY DEF ToSet
  <2>3. \A i \in 1..(Len(q) + 1) : i \in 1..Len(q) \/ i = Len(q) + 1
    OBVIOUS
  <2>4. \A i \in 1..Len(q) : i \in 1..(Len(q) + 1)
    OBVIOUS
  <2>5. Len(q) + 1 \in 1..(Len(q) + 1)
    OBVIOUS
  <2> QED
    BY <1>2, <2>1, <2>2, <2>3, <2>4, <2>5
<1> QED
  BY <1>1, <1>2, <1>3

LEMMA FunctionIsSeq ==
  ASSUME NEW S, NEW k \in Nat, NEW f \in [1..k -> S]
  PROVE  f \in Seq(S) /\ Len(f) = k
<1>1. f \in Seq(S)
  OBVIOUS
<1> QED
  BY <1>1

IsConcat(c, q, r) ==
  /\ Len(c) = Len(q) + Len(r)
  /\ \A i \in 1..Len(q) : c[i] = q[i]
  /\ \A i \in 1..Len(r) : c[Len(q) + i] = r[i]
  /\ \A x : x \in ToSet(c) <=> x \in ToSet(q) \/ x \in ToSet(r)

LEMMA ConcatIs ==
  ASSUME NEW S, NEW q \in Seq(S), NEW r \in Seq(S)
  PROVE  q \o r \in Seq(S) /\ IsConcat(q \o r, q, r)
<1>1. PICK c : c = q \o r
  OBVIOUS
<1>2. /\ c \in Seq(S) /\ Len(c) = Len(q) + Len(r)
      /\ \A i \in 1..(Len(q) + Len(r)) : c[i] = IF i <= Len(q) THEN q[i] ELSE r[i - Len(q)]
  BY <1>1, ConcatProperties
<1>3. \A i \in 1..Len(q) : c[i] = q[i] /\ i \in 1..Len(c)
  BY <1>2
<1>4. ASSUME NEW i \in 1..Len(r) PROVE c[Len(q) + i] = r[i] /\ Len(q) + i \in 1..Len(c)
  <2>1. Len(q) + i \in 1..(Len(q) + Len(r)) /\ ~(Len(q) + i <= Len(q)) /\ (Len(q) + i) - Len(q) = i
    OBVIOUS
  <2> QED
    BY <1>2, <2>1
<1>5. ASSUME NEW k \in 1..Len(c) PROVE k \in 1..Len(q) \/ \E i \in 1..Len(r) : k = Len(q) + i
  <2>1. CASE k <= Len(q)
    BY <1>2, <2>1
  <2>2. CASE k > Len(q)
    <3>1. k - Len(q) \in 1..Len(r) /\ k = Len(q) + (k - Len(q))
      BY <1>2, <2>2
    <3> QED
      BY <3>1
  <2> QED
    BY <1>2, <2>1, <2>2
<1>6. ASSUME NEW x PROVE x \in ToSet(c) <=> x \in ToSet(q) \/ x \in ToSet(r)
  <2>1. x \in ToSet(c) <=> \E k \in 1..Len(c) : x = c[k]
    <3>1. c \in Seq(S)
      BY <1>2
    <3> QED
      BY <3>1, Elements
  <2>2. x \in ToSet(q) <=> \E k \in 1..Len(q) : x = q[k]
    BY Elements
  <2>3. x \in ToSet(r) <=> \E k \in 1..Len(r) : x = r[k]
    BY Elements
  <2>4. ASSUME x \in ToSet(c) PROVE x \in ToSet(q) \/ x \in ToSet(r)
    <3>1. PICK k \in 1..Len(c) : x = c[k]
      BY <2>1, <2>4
    <3>2. CASE k \in 1..Len(q)
      BY <1>3, <2>2, <3>1, <3>2
    <3>3. CASE \E i \in 1..Len(r) : k = Len(q) + i
      BY <1>4, <2>3, <3>1, <3>3
    <3> QED
      BY <1>5, <3>2, <3>3
  <2>5. ASSUME x \in ToSet(q) PROVE x \in ToSet(c)
    BY <1>3, <2>1, <2>2, <2>5
  <2>6. ASSUME x \in ToSet(r) PROVE x \in ToSet(c)
    BY <1>4, <2>1, <2>3, <2>6
  <2> QED
    BY <2>4, <2>5, <2>6
<1>7. IsConcat(c, q, r)
  BY <1>2, <1>3, <1>4, <1>6 DEF IsConcat
<1> QED
  BY <1>1, <1>2, <1>7

\* What Keep keeps.
LEMMA KeepIs ==
  ASSUME NEW S, NEW seq \in Seq(S), NEW T
  PROVE  /\ Keep(seq, T) \in Seq(S)
         /\ \A x : x \in ToSet(Keep(seq, T)) <=> x \in ToSet(seq) /\ x \in T
<1> DEFINE M == Len(seq)
           Eq(f) == f = [i \in 0..M |-> IF i = 0 THEN << >>
                                        ELSE IF seq[i] \in T THEN Append(f[i - 1], seq[i]) ELSE f[i - 1]]
           step == [i \in Nat |-> [q \in Seq(S) |-> IF i \in 1..M /\ seq[i] \in T THEN Append(q, seq[i]) ELSE q]]
<1>1. M \in Nat /\ \A i \in 1..M : seq[i] \in S
  OBVIOUS
<1>2. step \in [Nat -> [Seq(S) -> Seq(S)]]
  <2>1. ASSUME NEW n \in 1..M, NEW q \in Seq(S) PROVE Append(q, seq[n]) \in Seq(S)
    BY <1>1
  <2> QED
    BY <2>1
<1>3. << >> \in Seq(S)
  OBVIOUS
<1> HIDE DEF M
<1>4. PICK g \in [0..M -> Seq(S)] : g[0] = << >> /\ \A i \in 1..M : g[i] = step[i][g[i - 1]]
  <2> HIDE DEF step
  <2>1. \E g \in [0..M -> Seq(S)] : IsRecursive(g, << >>, step, M)
    BY <1>1, <1>2, <1>3, Recursion
  <2> QED
    BY <2>1 DEF IsRecursive
<1>5. Eq(g)
  <2>1. ASSUME NEW i \in 1..M
        PROVE  g[i] = IF seq[i] \in T THEN Append(g[i - 1], seq[i]) ELSE g[i - 1]
    <3>1. i - 1 \in 0..M /\ g[i - 1] \in Seq(S) /\ i \in Nat
      BY <1>1, <2>1
    <3> QED
      BY <1>4, <3>1
  <2>2. \A i \in 0..M : i # 0 => i \in 1..M
    BY <1>1
  <2> HIDE DEF step
  <2> QED
    BY <1>4, <2>1, <2>2
<1>6. PICK f : Eq(f) /\ Keep(seq, T) = f[M]
  <2>1. Keep(seq, T) = (CHOOSE f : Eq(f))[M]
    BY DEF Keep, M
  <2> HIDE DEF Eq
  <2> QED
    BY <1>5, <2>1
<1>7. \A i \in 0..M : f[i] = IF i = 0 THEN << >>
                             ELSE IF seq[i] \in T THEN Append(f[i - 1], seq[i]) ELSE f[i - 1]
  BY <1>6
<1> DEFINE U == {i \in Nat : i <= M => /\ f[i] \in Seq(S)
                                       /\ \A x : x \in ToSet(f[i]) <=> \E j \in 1..i : x = seq[j] /\ x \in T}
<1>8. 0 \in U
  <2>0. 0 \in 0..M
    BY <1>1
  <2>1. f[0] = << >>
    BY <1>7, <2>0
  <2>2. 1..0 = {} /\ ToSet(<< >>) = {}
    BY DEF ToSet
  <2> QED
    BY <1>3, <2>1, <2>2
<1>9. ASSUME NEW i \in Nat, i \in U PROVE i + 1 \in U
  <2> SUFFICES ASSUME i + 1 <= M
               PROVE  /\ f[i + 1] \in Seq(S)
                      /\ \A x : x \in ToSet(f[i + 1]) <=> \E j \in 1..(i + 1) : x = seq[j] /\ x \in T
    OBVIOUS
  <2>1. /\ f[i] \in Seq(S)
        /\ \A x : x \in ToSet(f[i]) <=> \E j \in 1..i : x = seq[j] /\ x \in T
    BY <1>1, <1>9
  <2>2. i + 1 \in 1..M /\ seq[i + 1] \in S
    BY <1>1
  <2>3. f[i + 1] = IF seq[i + 1] \in T THEN Append(f[i], seq[i + 1]) ELSE f[i]
    BY <1>1, <1>7, <2>2
  <2>4. \A x : (\E j \in 1..(i + 1) : x = seq[j] /\ x \in T)
                 <=> (\E j \in 1..i : x = seq[j] /\ x \in T) \/ (x = seq[i + 1] /\ x \in T)
    OBVIOUS
  <2>5. CASE seq[i + 1] \in T
    <3>1. f[i + 1] \in Seq(S) /\ \A x : x \in ToSet(f[i + 1]) <=> x \in ToSet(f[i]) \/ x = seq[i + 1]
      BY <2>1, <2>2, <2>3, <2>5, AppendIs
    <3> QED
      BY <2>1, <2>4, <2>5, <3>1
  <2>6. CASE seq[i + 1] \notin T
    BY <2>1, <2>3, <2>4, <2>6
  <2> QED
    BY <2>5, <2>6
<1> HIDE DEF U
<1>10. M \in U
  BY <1>1, <1>8, <1>9, AllNumbers
<1>11. /\ f[M] \in Seq(S)
       /\ \A x : x \in ToSet(f[M]) <=> \E j \in 1..M : x = seq[j] /\ x \in T
  BY <1>1, <1>10 DEF U
<1>12. \A x : x \in ToSet(seq) <=> \E j \in 1..M : x = seq[j]
  BY DEF ToSet, M
<1> QED
  BY <1>6, <1>11, <1>12

\* No element occurs twice.
Once(q) == \A i, j \in 1..Len(q) : q[i] = q[j] => i = j

\* r extends q.
Extends(r, q) == Len(r) >= Len(q) /\ \A i \in 1..Len(q) : r[i] = q[i]

AppendOnce(q, e) == IF Contains(q, e) THEN q ELSE Append(q, e)

LEMMA AppendOnceIs ==
  ASSUME NEW S, NEW q \in Seq(S), NEW e \in S
  PROVE  /\ AppendOnce(q, e) \in Seq(S) /\ Extends(AppendOnce(q, e), q)
         /\ \A x : x \in ToSet(AppendOnce(q, e)) <=> x \in ToSet(q) \/ x = e
         /\ Once(q) => Once(AppendOnce(q, e))
<1>1. Contains(q, e) <=> e \in ToSet(q)
  BY DEF Contains, ToSet
<1>2. CASE Contains(q, e)
  <2>1. AppendOnce(q, e) = q
    BY <1>2 DEF AppendOnce
  <2>2. Extends(q, q)
    BY DEF Extends
  <2> QED
    BY <1>1, <1>2, <2>1, <2>2
<1>3. CASE ~Contains(q, e)
  <2>1. PICK r : r = Append(q, e)
    OBVIOUS
  <2>2. AppendOnce(q, e) = r
    BY <1>3, <2>1 DEF AppendOnce
  <2>3. /\ r \in Seq(S) /\ Len(r) = Len(q) + 1 /\ r[Len(q) + 1] = e
        /\ \A i \in 1..Len(q) : r[i] = q[i]
        /\ \A x : x \in ToSet(r) <=> x \in ToSet(q) \/ x = e
    BY <2>1, AppendIs
  <2>4. Extends(r, q)
    BY <2>3 DEF Extends
  <2>5. \A i \in 1..Len(q) : q[i] # e
    BY <1>3 DEF Contains
  <2>6. ASSUME Once(q), NEW i \in 1..Len(r), NEW j \in 1..Len(r), r[i] = r[j] PROVE i = j
    <3>1. \A k \in 1..Len(r) : k \in 1..Len(q) \/ k = Len(q) + 1
      BY <2>3
    <3>2. \A k \in 1..Len(q) : r[k] # e
      BY <2>3, <2>5
    <3>3. CASE i \in 1..Len(q) /\ j \in 1..Len(q)
      BY <2>3, <2>6, <3>3 DEF Once
    <3>4. CASE i = Len(q) + 1 \/ j = Len(q) + 1
      BY <2>3, <2>6, <3>1, <3>2, <3>4
    <3> QED
      BY <3>1, <3>3, <3>4
  <2>7. Once(q) => Once(r)
    BY <2>6 DEF Once
  <2> QED
    BY <2>2, <2>3, <2>4, <2>7
<1> QED
  BY <1>2, <1>3

\* What AppendNew appends.
LEMMA AppendNewIs ==
  ASSUME NEW S, NEW lst \in Seq(S), NEW seq \in Seq(S)
  PROVE  /\ AppendNew(lst, seq) \in Seq(S) /\ Extends(AppendNew(lst, seq), lst)
         /\ \A x : x \in ToSet(AppendNew(lst, seq)) <=> x \in ToSet(lst) \/ x \in ToSet(seq)
         /\ Once(lst) => Once(AppendNew(lst, seq))
<1> DEFINE M == Len(seq)
           Eq(f) == f = [i \in 0..M |-> IF i = 0 THEN lst ELSE AppendOnce(f[i - 1], seq[i])]
           step == [i \in Nat |-> [q \in Seq(S) |-> IF i \in 1..M THEN AppendOnce(q, seq[i]) ELSE q]]
<1>1. M \in Nat /\ \A i \in 1..M : seq[i] \in S
  OBVIOUS
<1>2. step \in [Nat -> [Seq(S) -> Seq(S)]]
  <2>1. ASSUME NEW n \in 1..M, NEW q \in Seq(S) PROVE AppendOnce(q, seq[n]) \in Seq(S)
    BY <1>1, AppendOnceIs
  <2> QED
    BY <2>1
<1> HIDE DEF M
<1>3. PICK g \in [0..M -> Seq(S)] : g[0] = lst /\ \A i \in 1..M : g[i] = step[i][g[i - 1]]
  <2> HIDE DEF step
  <2>1. \E g \in [0..M -> Seq(S)] : IsRecursive(g, lst, step, M)
    BY <1>1, <1>2, Recursion
  <2> QED
    BY <2>1 DEF IsRecursive
<1>4. Eq(g)
  <2>1. ASSUME NEW i \in 1..M PROVE g[i] = AppendOnce(g[i - 1], seq[i])
    <3>1. i - 1 \in 0..M /\ g[i - 1] \in Seq(S) /\ i \in Nat
      BY <1>1, <2>1
    <3> QED
      BY <1>3, <3>1
  <2>2. \A i \in 0..M : i # 0 => i \in 1..M
    BY <1>1
  <2> HIDE DEF step
  <2> QED
    BY <1>3, <2>1, <2>2
<1>5. PICK f : Eq(f) /\ AppendNew(lst, seq) = f[M]
  <2>1. AppendNew(lst, seq) = (CHOOSE f : Eq(f))[M]
    BY DEF AppendNew, AppendOnce, M
  <2> HIDE DEF Eq
  <2> QED
    BY <1>4, <2>1
<1>6. f[0] = lst /\ \A i \in 1..M : f[i] = AppendOnce(f[i - 1], seq[i])
  BY <1>1, <1>5
<1> DEFINE Good(i) == /\ f[i] \in Seq(S) /\ Extends(f[i], lst)
                      /\ \A x : x \in ToSet(f[i]) <=> x \in ToSet(lst) \/ \E j \in 1..i : x = seq[j]
                      /\ Once(lst) => Once(f[i])
           U == {i \in Nat : i <= M => Good(i)}
<1>7. 0 \in U
  <2>1. 1..0 = {} /\ Extends(lst, lst)
    BY DEF Extends
  <2>2. Good(0)
    BY <1>6, <2>1
  <2> QED
    BY <2>2
<1>8. ASSUME NEW i \in Nat, i \in U PROVE i + 1 \in U
  <2> SUFFICES ASSUME i + 1 <= M PROVE Good(i + 1)
    OBVIOUS
  <2>1. Good(i)
    BY <1>1, <1>8
  <2>2. i + 1 \in 1..M /\ seq[i + 1] \in S
    BY <1>1
  <2>3. f[i + 1] = AppendOnce(f[i], seq[i + 1])
    BY <1>6, <2>2
  <2>4. /\ f[i + 1] \in Seq(S) /\ Extends(f[i + 1], f[i])
        /\ \A x : x \in ToSet(f[i + 1]) <=> x \in ToSet(f[i]) \/ x = seq[i + 1]
        /\ Once(f[i]) => Once(f[i + 1])
    <3>1. PICK q \in Seq(S), e \in S : q = f[i] /\ e = seq[i + 1]
      BY <2>1, <2>2
    <3>2. /\ AppendOnce(q, e) \in Seq(S) /\ Extends(AppendOnce(q, e), q)
          /\ \A x : x \in ToSet(AppendOnce(q, e)) <=> x \in ToSet(q) \/ x = e
          /\ Once(q) => Once(AppendOnce(q, e))
      BY AppendOnceIs
    <3> QED
      BY <2>3, <3>1, <3>2
  <2>5. Extends(f[i + 1], lst)
    BY <2>1, <2>4 DEF Extends
  <2>6. \A x : (\E j \in 1..(i + 1) : x = seq[j]) <=> (\E j \in 1..i : x = seq[j]) \/ x = seq[i + 1]
    OBVIOUS
  <2> QED
    BY <2>1, <2>4, <2>5, <2>6
<1> HIDE DEF U
<1>9. M \in U
  BY <1>1, <1>7, <1>8, AllNumbers
<1>10. Good(M)
  BY <1>1, <1>9 DEF U
<1>11. \A x : x \in ToSet(seq) <=> \E j \in 1..M : x = seq[j]
  BY DEF ToSet, M
<1> QED
  BY <1>5, <1>10, <1>11

-----------------------------------------------------------------------------
(* The block factory.                                                      *)

Class == {"direct", "decoded", "compensation", "cached", "native", "freed"}
BlockRecord == [class : Class, pc : PC, meta : Nat, succs : Seq(Nat), strategy : Strategy,
                materialized : Nat, generation : Nat, comparable : BOOLEAN]
Known == ToSet(blocks)


\* Blocks that lead to blocks.
Linked(blk) == /\ blk \in Seq(BlockRecord) /\ Len(blk) > 0
               /\ \A b \in 1..Len(blk) : blk[b].succs \in Seq(1..Len(blk))

\* A set of blocks that no block of it leads out of, with the entry block.
ClosedSet(T, blk) == 1 \in T /\ \A b \in T : b \in 1..Len(blk) => ToSet(blk[b].succs) \subseteq T

LEMMA Pigeonhole ==
  ASSUME NEW L \in Nat, NEW q \in Seq(1..L), Once(q)
  PROVE  Len(q) <= L
<1>1. q \in Injection(1..Len(q), 1..L)
  BY DEF Injection, IsInjective, Once
<1>2. /\ IsFiniteSet(1..L) /\ Cardinality(1..L) = L
      /\ IsFiniteSet(1..Len(q)) /\ Cardinality(1..Len(q)) = Len(q)
  <2>1. ASSUME NEW k \in Nat PROVE IsFiniteSet(1..k) /\ Cardinality(1..k) = k
    <3>1. IsFiniteSet(1..k) /\ Cardinality(1..k) = IF 1 > k THEN 0 ELSE k - 1 + 1
      BY FS_Interval
    <3> QED
      BY <3>1
  <2> QED
    BY <2>1
<1>3. Cardinality(1..Len(q)) <= Cardinality(1..L)
  BY <1>1, <1>2, FS_Injection
<1> QED
  BY <1>2, <1>3

Visit(blk, q, i) == IF i > Len(q) THEN q ELSE AppendNew(q, blk[q[i]].succs)

LEMMA VisitIs ==
  ASSUME NEW blk, Linked(blk), NEW q \in Seq(1..Len(blk)), NEW i \in Nat, i > 0
  PROVE  /\ Visit(blk, q, i) \in Seq(1..Len(blk)) /\ Extends(Visit(blk, q, i), q)
         /\ i > Len(q) => Visit(blk, q, i) = q
         /\ i <= Len(q) => \A x : x \in ToSet(Visit(blk, q, i)) <=> x \in ToSet(q) \/ x \in ToSet(blk[q[i]].succs)
         /\ Once(q) => Once(Visit(blk, q, i))
<1>1. CASE i > Len(q)
  <2>1. Visit(blk, q, i) = q /\ ~(i <= Len(q))
    BY <1>1 DEF Visit
  <2>2. Extends(q, q)
    BY DEF Extends
  <2> QED
    BY <1>1, <2>1, <2>2
<1>2. CASE i <= Len(q)
  <2>1. i \in 1..Len(q) /\ ~(i > Len(q))
    BY <1>2
  <2>2. q[i] \in 1..Len(blk)
    BY <2>1
  <2>3. PICK T, r : T = 1..Len(blk) /\ r = blk[q[i]].succs
    OBVIOUS
  <2>4. r \in Seq(T) /\ q \in Seq(T)
    BY <2>2, <2>3 DEF Linked
  <2>5. Visit(blk, q, i) = AppendNew(q, r)
    BY <2>1, <2>3 DEF Visit
  <2>6. /\ AppendNew(q, r) \in Seq(T) /\ Extends(AppendNew(q, r), q)
        /\ \A x : x \in ToSet(AppendNew(q, r)) <=> x \in ToSet(q) \/ x \in ToSet(r)
        /\ Once(q) => Once(AppendNew(q, r))
    BY <2>4, AppendNewIs
  <2> QED
    BY <2>1, <2>3, <2>5, <2>6
<1> QED
  BY <1>1, <1>2

\* The blocks that are reached are the least closed set.
LEMMA ReachedIs ==
  ASSUME NEW blk, Linked(blk)
  PROVE  /\ Reached(blk) \in Seq(1..Len(blk))
         /\ ClosedSet(ToSet(Reached(blk)), blk)
         /\ \A T : ClosedSet(T, blk) => ToSet(Reached(blk)) \subseteq T
<1> DEFINE M == Len(blk)
           Q == Seq(1..M)
           Eq(f) == f = [i \in 0..M |-> IF i = 0 THEN <<1>> ELSE Visit(blk, f[i - 1], i)]
           step == [i \in Nat |-> [q \in Q |-> IF i > 0 THEN Visit(blk, q, i) ELSE q]]
<1>1. M \in Nat /\ M > 0
  BY DEF Linked
<1>2. step \in [Nat -> [Q -> Q]] /\ <<1>> \in Q
  <2>1. ASSUME NEW n \in Nat, n > 0, NEW q \in Q PROVE Visit(blk, q, n) \in Q
    BY <2>1, VisitIs
  <2>2. <<1>> \in Q
    BY <1>1
  <2> HIDE DEF Q, M
  <2> QED
    BY <2>1, <2>2
<1> HIDE DEF M, Q
<1>3. PICK g \in [0..M -> Q] : g[0] = <<1>> /\ \A i \in 1..M : g[i] = step[i][g[i - 1]]
  <2> HIDE DEF step
  <2>1. \E g \in [0..M -> Q] : IsRecursive(g, <<1>>, step, M)
    BY <1>1, <1>2, Recursion
  <2> QED
    BY <2>1 DEF IsRecursive
<1>4. Eq(g)
  <2>1. ASSUME NEW i \in 1..M PROVE g[i] = Visit(blk, g[i - 1], i)
    <3>1. i - 1 \in 0..M /\ g[i - 1] \in Q /\ i \in Nat /\ i > 0
      BY <1>1, <2>1
    <3> QED
      BY <1>3, <3>1
  <2>2. \A i \in 0..M : i # 0 => i \in 1..M
    BY <1>1
  <2> HIDE DEF step
  <2> QED
    BY <1>3, <2>1, <2>2
<1>5. PICK f : Eq(f) /\ Reached(blk) = f[M]
  <2>1. Reached(blk) = (CHOOSE f : Eq(f))[M]
    BY DEF Reached, Visit, M, entry_block
  <2> HIDE DEF Eq
  <2> QED
    BY <1>4, <2>1
<1>6. f[0] = <<1>> /\ \A i \in 1..M : f[i] = Visit(blk, f[i - 1], i)
  <2>1. 0 \in 0..M /\ \A i \in 1..M : i \in 0..M /\ i # 0
    BY <1>1
  <2>2. \A i \in 0..M : f[i] = IF i = 0 THEN <<1>> ELSE Visit(blk, f[i - 1], i)
    BY <1>5
  <2> QED
    BY <2>1, <2>2
<1> DEFINE Good(i) == /\ f[i] \in Q /\ Once(f[i]) /\ 1 \in ToSet(f[i])
                      /\ \A j \in 1..i : j <= Len(f[i]) => ToSet(blk[f[i][j]].succs) \subseteq ToSet(f[i])
                      /\ \A T : ClosedSet(T, blk) => ToSet(f[i]) \subseteq T
           U == {i \in Nat : i <= M => Good(i)}
<1>7. 0 \in U
  <2>1. PICK q : q = <<1>>
    OBVIOUS
  <2>2. q \in Q /\ Len(q) = 1 /\ q[1] = 1
    BY <1>2, <2>1
  <2>3. \A x : x \in ToSet(q) <=> x = 1
    BY <2>1 DEF ToSet
  <2>4. Once(q)
    BY <2>2 DEF Once
  <2>5. 1..0 = {}
    OBVIOUS
  <2>6. Good(0)
    BY <1>6, <2>1, <2>2, <2>3, <2>4, <2>5 DEF ClosedSet
  <2> QED
    BY <2>6
<1>8. ASSUME NEW i \in Nat, i \in U PROVE i + 1 \in U
  <2> SUFFICES ASSUME i + 1 <= M PROVE Good(i + 1)
    OBVIOUS
  <2>1. Good(i)
    BY <1>1, <1>8
  <2>2. i + 1 \in 1..M /\ (i + 1) - 1 = i /\ i + 1 > 0
    BY <1>1
  <2>3. PICK q \in Q, n \in Nat : q = f[i] /\ n = i + 1
    BY <2>1
  <2>4. PICK r : r = Visit(blk, q, n)
    OBVIOUS
  <2>5. f[i + 1] = r
    BY <1>6, <2>2, <2>3, <2>4
  <2>6. /\ r \in Q /\ Extends(r, q) /\ Once(r)
        /\ n > Len(q) => r = q
        /\ n <= Len(q) => \A x : x \in ToSet(r) <=> x \in ToSet(q) \/ x \in ToSet(blk[q[n]].succs)
    BY <2>1, <2>2, <2>3, <2>4, VisitIs DEF Q, M
  <2>7. /\ \A j \in 1..i : j <= Len(q) => ToSet(blk[q[j]].succs) \subseteq ToSet(q)
        /\ 1 \in ToSet(q)
        /\ \A T : ClosedSet(T, blk) => ToSet(q) \subseteq T
    BY <2>1, <2>3
  <2>8. Len(q) \in Nat /\ Len(r) \in Nat /\ \A j \in 1..Len(q) : q[j] \in 1..M /\ q[j] \in ToSet(q)
    <3>1. q \in Seq(1..M) /\ r \in Seq(1..M)
      BY <2>6 DEF Q
    <3> QED
      BY <3>1, Elements
  <2>9. CASE n > Len(q)
    <3>1. r = q
      BY <2>6, <2>9
    <3>2. \A j \in 1..(i + 1) : j <= Len(q) => j \in 1..i
      BY <2>3, <2>8, <2>9
    <3>3. \A j \in 1..(i + 1) : j <= Len(q) => ToSet(blk[q[j]].succs) \subseteq ToSet(q)
      BY <2>7, <3>2
    <3> QED
      BY <2>5, <2>6, <2>7, <3>1, <3>3
  <2>10. CASE n <= Len(q)
    <3>1. n \in 1..Len(q)
      BY <2>2, <2>3, <2>8, <2>10
    <3>2. \A x : x \in ToSet(r) <=> x \in ToSet(q) \/ x \in ToSet(blk[q[n]].succs)
      BY <2>6, <2>10
    <3>3. ASSUME NEW j \in 1..(i + 1) PROVE ToSet(blk[r[j]].succs) \subseteq ToSet(r)
      <4>1. j \in 1..Len(q) /\ (j \in 1..i \/ j = n) /\ j <= Len(q)
        BY <2>3, <2>8, <2>10
      <4>2. r[j] = q[j]
        BY <2>6, <4>1 DEF Extends
      <4> QED
        BY <2>7, <3>2, <4>1, <4>2
    <3>4. ASSUME NEW T, ClosedSet(T, blk) PROVE ToSet(r) \subseteq T
      <4>1. ToSet(q) \subseteq T
        BY <2>7, <3>4
      <4>2. q[n] \in T /\ q[n] \in 1..M
        BY <2>8, <3>1, <4>1
      <4>3. ToSet(blk[q[n]].succs) \subseteq T
        BY <3>4, <4>2 DEF ClosedSet, M
      <4> QED
        BY <3>2, <4>1, <4>3
    <3> QED
      BY <2>5, <2>6, <2>7, <3>2, <3>3, <3>4
  <2> QED
    BY <2>3, <2>8, <2>9, <2>10
<1> HIDE DEF U
<1>9. M \in U
  BY <1>1, <1>7, <1>8, AllNumbers
<1>10. PICK q \in Q : q = Reached(blk) /\ q = f[M] /\ Good(M)
  BY <1>1, <1>5, <1>9 DEF U
<1>11. Len(q) <= M /\ Len(q) \in Nat
  BY <1>1, <1>10, Pigeonhole DEF Q
<1>12. ASSUME NEW b \in ToSet(q) PROVE ToSet(blk[b].succs) \subseteq ToSet(q)
  <2>1. PICK j \in 1..Len(q) : b = q[j]
    BY <1>12 DEF ToSet
  <2>2. j \in 1..M /\ j <= Len(q)
    BY <1>1, <1>11
  <2> QED
    BY <1>10, <2>1, <2>2
<1>13. ClosedSet(ToSet(q), blk)
  BY <1>10, <1>12 DEF ClosedSet
<1> QED
  BY <1>10, <1>13 DEF Q, M

FactoryTypes ==
  /\ status \in [PC -> [index : {"none", "accept", "adapt"}, trace : {"accept", "adapt", "reject"}]]
  /\ block \in Seq(BlockRecord)
  /\ blocks \in Seq(1..Len(block))
  /\ generation \in Nat /\ cursor \in Nat /\ changed \in BOOLEAN
  /\ allocated \in SUBSET Nat
  /\ phase # "enter" => 1 \in Known /\ ~IsDirect(1)
  /\ phase = "enter" => block = << >>
  /\ phase = "materialize" => cursor > 0

\* Blocks lead to blocks of the trace; blocks outside it are gone.  A direct block that
\* has become another one leads to it until control flow is relinked.
EdgesInv ==
  /\ \A b \in 1..Len(block) : b \notin Known => block[b] = Freed
  /\ \A b \in Known : block[b].class # "freed"
  /\ \A b \in Known : \A s \in ToSet(block[b].succs) : s \in Known
  /\ \A b \in Known : block[b].materialized # 0 =>
       /\ phase = "materialize" /\ changed
       /\ IsDirect(b) /\ block[b].materialized \in Known
       /\ ~IsDirect(block[b].materialized) /\ block[block[b].materialized].comparable

\* Unless blocks have just become others, all are reachable.
ReachInv == ~(phase = "materialize" /\ changed) => Known \subseteq ToSet(Reached(block))

\* No code is decoded twice without need.
DecodedInv ==
  /\ \A b \in Known : block[b].class = "decoded" => block[b].comparable
  /\ \A b, c \in Known :
       (b < c /\ block[b].pc = block[c].pc /\ block[b].class = "decoded" /\ block[c].class = "decoded")
         => block[c].strategy = DecodeNow \/ status[block[b].pc].trace = "reject"

MetaInv ==
  /\ phase # "enter" => allocated = {block[b].meta : b \in Known} \ {0}
  /\ \A b, c \in Known : block[b].meta = block[c].meta /\ b # c => block[b].meta = 0
  /\ \A b \in Known : block[b].meta <= Len(block)

\* Compensation code leads to older comparable blocks or to code that ends; only that of
\* an indirect entry is not comparable, and nothing leads to it.
AdaptInv ==
  \A b \in Known :
    /\ block[b].class = "compensation" => Len(block[b].succs) = 1
    /\ block[b].class = "compensation" /\ block[b].comparable =>
         LET s == block[b].succs[1]
         IN  /\ block[s].comparable /\ ~IsDirect(s)
             /\ block[s].class = "compensation" => s < b
    /\ block[b].class = "compensation" /\ ~block[b].comparable => b = 1 /\ block[b].succs[1] # 1

FactoryInv == FactoryTypes /\ EdgesInv /\ ReachInv /\ DecodedInv /\ MetaInv /\ AdaptInv

-----------------------------------------------------------------------------
(* Steps that change what blocks are requested with, and nothing else.     *)

SameButStrategy(c, d) ==
  /\ c \in BlockRecord
  /\ c.class = d.class /\ c.pc = d.pc /\ c.meta = d.meta /\ c.succs = d.succs
  /\ c.materialized = d.materialized /\ c.generation = d.generation /\ c.comparable = d.comparable

LEMMA BlockTypes ==
  ASSUME FactoryTypes
  PROVE  /\ Len(block) \in Nat /\ DOMAIN block = 1..Len(block)
         /\ \A b \in 1..Len(block) : block[b] \in BlockRecord
         /\ Known \subseteq 1..Len(block)
<1>1. block \in Seq(BlockRecord) /\ blocks \in Seq(1..Len(block))
  BY DEF FactoryTypes
<1>2. Known \subseteq 1..Len(block)
  BY <1>1, Elements DEF Known
<1> QED
  BY <1>1, <1>2

\* The blocks of an invariant state are linked.
LEMMA BlocksLinked ==
  ASSUME FactoryInv, phase # "enter"
  PROVE  Linked(block)
<1>1. /\ Len(block) \in Nat /\ \A b \in 1..Len(block) : block[b] \in BlockRecord
      /\ Known \subseteq 1..Len(block) /\ 1 \in Known
  BY BlockTypes DEF FactoryInv, FactoryTypes
<1>2. ASSUME NEW b \in 1..Len(block) PROVE block[b].succs \in Seq(1..Len(block))
  <2>1. PICK q \in Seq(Nat) : q = block[b].succs
    BY <1>1 DEF BlockRecord
  <2>2. \A s \in ToSet(q) : s \in 1..Len(block)
    <3>1. CASE b \in Known
      BY <1>1, <2>1, <3>1 DEF FactoryInv, EdgesInv
    <3>2. CASE b \notin Known
      <4>1. q = << >>
        BY <2>1, <3>2 DEF FactoryInv, EdgesInv, Freed
      <4> QED
        BY <4>1 DEF ToSet
    <3> QED
      BY <3>1, <3>2
  <2>3. \A j \in 1..Len(q) : q[j] \in 1..Len(block)
    BY <2>2, Elements
  <2>4. q \in Seq(1..Len(block))
    BY <2>3
  <2> QED
    BY <2>1, <2>4
<1>3. Len(block) > 0
  BY <1>1
<1> QED
  BY <1>2, <1>3 DEF FactoryInv, FactoryTypes, Linked

LEMMA Restrategy ==
  ASSUME FactoryInv, phase # "enter", phase' # "enter",
         block' \in Seq(BlockRecord), Len(block') = Len(block),
         \A b \in 1..Len(block) :
           block'[b] = block[b] \/ (b \in Known /\ IsDirect(b) /\ SameButStrategy(block'[b], block[b])),
         UNCHANGED <<status, blocks, allocated>>,
         generation' \in Nat, cursor' \in Nat, changed' \in BOOLEAN,
         phase' = "materialize" => cursor' > 0,
         phase = "materialize" /\ changed => phase' = "materialize" /\ changed'
  PROVE  FactoryInv'
<1> DEFINE L == Len(block)
<1>1. /\ L \in Nat /\ \A b \in 1..L : block[b] \in BlockRecord
      /\ Known \subseteq 1..L /\ Known' = Known
  BY BlockTypes DEF FactoryInv, Known
<1>2. \A b \in 1..L : SameButStrategy(block'[b], block[b]) /\ (block[b].class # "direct" => block'[b] = block[b])
  BY <1>1 DEF SameButStrategy, IsDirect
<1> HIDE DEF L
<1>3. FactoryTypes'
  <2>1. 1 \in Known /\ ~IsDirect(1) /\ blocks \in Seq(1..Len(block))
    BY DEF FactoryInv, FactoryTypes
  <2>2. ~IsDirect(1)'
    BY <1>1, <1>2, <2>1 DEF IsDirect, SameButStrategy
  <2> QED
    BY <1>1, <2>1, <2>2 DEF FactoryInv, FactoryTypes
<1>4. EdgesInv'
  <2>1. \A b \in 1..Len(block') : b \notin Known => block'[b] = Freed
    BY DEF FactoryInv, EdgesInv
  <2>2. ASSUME NEW b \in Known
        PROVE  /\ block'[b].class # "freed"
               /\ \A s \in ToSet(block'[b].succs) : s \in Known
               /\ block'[b].materialized # 0 =>
                    /\ phase' = "materialize" /\ changed'
                    /\ block'[b].class = "direct" /\ block'[b].materialized \in Known
                    /\ block'[block'[b].materialized].class # "direct"
                    /\ block'[block'[b].materialized].comparable
    <3>1. SameButStrategy(block'[b], block[b])
      BY <1>1, <1>2
    <3>2. block'[b].class # "freed" /\ \A s \in ToSet(block'[b].succs) : s \in Known
      BY <3>1 DEF SameButStrategy, FactoryInv, EdgesInv
    <3>3. ASSUME block'[b].materialized # 0
          PROVE  /\ phase' = "materialize" /\ changed'
                 /\ block'[b].class = "direct" /\ block'[b].materialized \in Known
                 /\ block'[block'[b].materialized].class # "direct"
                 /\ block'[block'[b].materialized].comparable
      <4>1. PICK c : c = block[b].materialized
        OBVIOUS
      <4>2. /\ phase = "materialize" /\ changed /\ block[b].class = "direct"
            /\ c \in Known /\ block[c].class # "direct" /\ block[c].comparable
        BY <3>1, <3>3, <4>1 DEF SameButStrategy, FactoryInv, EdgesInv, IsDirect
      <4>3. SameButStrategy(block'[c], block[c])
        BY <1>1, <1>2, <4>2
      <4> QED
        BY <3>1, <4>1, <4>2, <4>3 DEF SameButStrategy
    <3> QED
      BY <3>2, <3>3
  <2> QED
    BY <1>1, <2>1, <2>2 DEF EdgesInv, IsDirect
<1>5. ReachInv'
  <2> SUFFICES ASSUME ~(phase' = "materialize" /\ changed') PROVE Known \subseteq ToSet(Reached(block'))
    BY <1>1 DEF ReachInv
  <2>1. Known \subseteq ToSet(Reached(block))
    BY DEF FactoryInv, ReachInv
  <2>2. Linked(block)
    BY BlocksLinked
  <2>3. Linked(block')
    BY <1>2, <2>2 DEF Linked, SameButStrategy, L
  <2>4. PICK T : T = ToSet(Reached(block'))
    OBVIOUS
  <2>5. ClosedSet(T, block')
    BY <2>3, <2>4, ReachedIs
  <2>6. ClosedSet(T, block)
    BY <1>2, <2>5 DEF ClosedSet, SameButStrategy, L
  <2>7. ToSet(Reached(block)) \subseteq T
    BY <2>2, <2>6, ReachedIs
  <2> QED
    BY <2>1, <2>4, <2>7
<1>6. DecodedInv'
  <2>1. \A b \in Known : block'[b].class = "decoded" => block[b].class = "decoded" /\ block'[b] = block[b]
    BY <1>1, <1>2 DEF SameButStrategy
  <2> QED
    BY <1>1, <2>1 DEF FactoryInv, DecodedInv
<1>7. MetaInv'
  <2>1. \A b \in Known : block'[b].meta = block[b].meta
    BY <1>1, <1>2 DEF SameButStrategy
  <2>2. {block'[b].meta : b \in Known} = {block[b].meta : b \in Known}
    BY <2>1
  <2>3. phase' # "enter" => allocated' = {block'[b].meta : b \in Known} \ {0}
    BY <2>2 DEF FactoryInv, MetaInv
  <2>4. \A b, c \in Known : block'[b].meta = block'[c].meta /\ b # c => block'[b].meta = 0
    BY <2>1 DEF FactoryInv, MetaInv
  <2>5. \A b \in Known : block'[b].meta <= Len(block')
    BY <2>1 DEF FactoryInv, MetaInv
  <2> QED
    BY <1>1, <2>3, <2>4, <2>5 DEF MetaInv
<1>8. AdaptInv'
  <2>1. \A b \in 1..L : /\ block'[b].class = block[b].class /\ block'[b].succs = block[b].succs
                        /\ block'[b].comparable = block[b].comparable
    BY <1>2 DEF SameButStrategy
  <2>2. ASSUME NEW b \in Known, block[b].class = "compensation" PROVE Len(block[b].succs) = 1 /\ block[b].succs[1] \in 1..L
    <3>1. Len(block[b].succs) = 1 /\ block[b].succs \in Seq(Nat)
      BY <1>1, <2>2 DEF FactoryInv, AdaptInv, BlockRecord
    <3>2. block[b].succs[1] \in ToSet(block[b].succs)
      BY <3>1, Elements
    <3> QED
      BY <1>1, <3>1, <3>2 DEF FactoryInv, EdgesInv
  <2>3. ASSUME NEW b \in Known, block'[b].class = "compensation"
        PROVE  /\ Len(block'[b].succs) = 1
               /\ block'[b].comparable =>
                    LET s == block'[b].succs[1]
                    IN  /\ block'[s].comparable /\ block'[s].class # "direct"
                        /\ block'[s].class = "compensation" => s < b
               /\ ~block'[b].comparable => b = 1 /\ block'[b].succs[1] # 1
    <3>1. PICK s : s = block[b].succs[1]
      OBVIOUS
    <3>2. /\ block[b].class = "compensation" /\ block'[b].succs = block[b].succs
          /\ block'[b].comparable = block[b].comparable
      BY <1>1, <2>1, <2>3
    <3>3. Len(block[b].succs) = 1 /\ s \in 1..L
      BY <2>2, <3>1, <3>2
    <3>4. block'[s].class = block[s].class /\ block'[s].comparable = block[s].comparable
      BY <2>1, <3>3
    <3>5. /\ block[b].comparable => /\ block[s].comparable /\ block[s].class # "direct"
                                    /\ block[s].class = "compensation" => s < b
          /\ ~block[b].comparable => b = 1 /\ s # 1
      BY <3>1, <3>2 DEF FactoryInv, AdaptInv, IsDirect
    <3> QED
      BY <3>1, <3>2, <3>3, <3>4, <3>5
  <2> QED
    BY <1>1, <2>3 DEF AdaptInv, IsDirect
<1> QED
  BY <1>3, <1>4, <1>5, <1>6, <1>7, <1>8 DEF FactoryInv
-----------------------------------------------------------------------------
(* New blocks, the first of which has number n and may be given meta-data  *)
(* m: the others belong to the first, which leads to them.                 *)

NewShape(new, n, m) ==
  /\ new \in Seq(BlockRecord) /\ Len(new) >= 1
  /\ \A i \in 1..Len(new) : new[i].class # "freed" /\ new[i].materialized = 0
  /\ new[1].class # "direct" /\ new[1].meta \in {0, m}
  /\ new[1].comparable \/ n = 1
  /\ \A i \in 2..Len(new) :
       /\ new[i].class \in {"direct", "cached", "native"} /\ new[i].meta \in {0, (n - 1) + i}
       /\ new[i].succs = << >> /\ (n - 1) + i \in ToSet(new[1].succs)
  /\ \A s \in ToSet(new[1].succs) : (\E i \in 2..Len(new) : s = (n - 1) + i) \/ s \in Known

NewAdapts(new, n) ==
  new[1].class = "compensation" =>
    /\ Len(new[1].succs) = 1
    /\ new[1].comparable =>
         \/ Len(new) = 2 /\ new[1].succs[1] = (n - 1) + 2 /\ new[2].class # "direct" /\ new[2].comparable
         \/ /\ new[1].succs[1] \in Known /\ ~IsDirect(new[1].succs[1])
            /\ block[new[1].succs[1]].comparable
    /\ ~new[1].comparable => n = 1 /\ new[1].succs[1] # 1

NewDecoded(new) ==
  new[1].class = "decoded" =>
    /\ new[1].comparable
    /\ \A c \in Known : block[c].class = "decoded" /\ block[c].pc = new[1].pc =>
         new[1].strategy = DecodeNow \/ status[block[c].pc].trace = "reject"

NewOK(new, n, m) == NewShape(new, n, m) /\ NewAdapts(new, n) /\ NewDecoded(new)

\* A trace begins with blocks of this kind.
LEMMA EntryBlocks ==
  ASSUME FactoryInv, phase = "enter", NEW new, NewOK(new, 1, 1), AddEntryBlock(new),
         allocated' = Metas(new), UNCHANGED <<status, cursor, changed>>,
         phase' \notin {"enter", "materialize"}
  PROVE  FactoryInv'
<1> DEFINE L == Len(new)
<1>1. /\ new \in Seq(BlockRecord) /\ L \in Nat /\ L >= 1 /\ DOMAIN new = 1..L
      /\ \A i \in 1..L : new[i] \in BlockRecord
  BY DEF NewOK, NewShape
<1>2. block' = new /\ blocks' = [i \in 1..L |-> i]
  BY <1>1 DEF AddEntryBlock
<1> HIDE DEF L
<1>3. blocks' \in Seq(1..L) /\ Len(blocks') = L
  <2>1. blocks' \in [1..L -> 1..L]
    BY <1>2
  <2> QED
    BY <1>1, <2>1, FunctionIsSeq
<1>4. Known' = 1..L /\ 1 \in 1..L
  BY <1>1, <1>2, <1>3 DEF Known, ToSet
<1>5. Known = {}
  <2>1. blocks \in Seq(1..Len(block)) /\ Len(block) = 0
    BY DEF FactoryInv, FactoryTypes
  <2> QED
    BY <2>1, Elements DEF Known
<1>6. \A i \in 1..L : i = 1 \/ i \in 2..L
  BY <1>1
<1>7. /\ \A i \in 1..L : new[i].class # "freed" /\ new[i].materialized = 0
      /\ new[1].class # "direct" /\ new[1].meta \in {0, 1}
      /\ \A i \in 2..L : /\ new[i].class \in {"direct", "cached", "native"} /\ new[i].meta \in {0, i}
                         /\ new[i].succs = << >> /\ i \in ToSet(new[1].succs)
      /\ \A s \in ToSet(new[1].succs) : s \in 2..L
  BY <1>5 DEF NewOK, NewShape, L
<1>8. ToSet(<< >>) = {}
  BY DEF ToSet
<1>9. FactoryTypes'
  BY <1>1, <1>2, <1>3, <1>4, <1>7 DEF FactoryInv, FactoryTypes, AddEntryBlock, IsDirect, Metas, BlockRecord, L
<1>10. EdgesInv'
  BY <1>1, <1>2, <1>4, <1>6, <1>7, <1>8 DEF EdgesInv, IsDirect, L
<1>11. ReachInv'
  <2>1. ASSUME NEW b \in 1..L PROVE new[b].succs \in Seq(1..L)
    <3>1. PICK q \in Seq(Nat) : q = new[b].succs
      BY <1>1 DEF BlockRecord
    <3>2. \A j \in 1..Len(q) : q[j] \in 1..L
      BY <1>4, <1>6, <1>7, <1>8, <3>1, Elements
    <3>3. q \in Seq(1..L)
      BY <1>1, <3>2
    <3> QED
      BY <3>1, <3>3
  <2>2. Linked(new)
    BY <1>1, <2>1 DEF Linked, L
  <2>3. ClosedSet(ToSet(Reached(new)), new)
    BY <2>2, ReachedIs
  <2>4. 1..L \subseteq ToSet(Reached(new))
    BY <1>4, <1>6, <1>7, <2>3 DEF ClosedSet, L
  <2> QED
    BY <1>2, <1>4, <2>4 DEF ReachInv
<1>12. DecodedInv'
  <2>1. \A i \in 1..L : new[i].class = "decoded" => i = 1
    BY <1>6, <1>7
  <2> QED
    BY <1>2, <1>4, <2>1 DEF DecodedInv, NewOK, NewDecoded
<1>13. MetaInv'
  <2>1. \A i \in 1..L : new[i].meta \in {0, i}
    BY <1>6, <1>7
  <2>2. Metas(new) = {new[i].meta : i \in 1..L} \ {0}
    BY <1>1 DEF Metas
  <2> QED
    BY <1>1, <1>2, <1>4, <2>1, <2>2 DEF MetaInv, L
<1>14. AdaptInv'
  <2>1. \A i \in 1..L : new[i].class = "compensation" => i = 1
    BY <1>6, <1>7
  <2>2. ASSUME new[1].class = "compensation"
        PROVE  /\ Len(new[1].succs) = 1
               /\ new[1].comparable => /\ new[new[1].succs[1]].comparable
                                       /\ new[new[1].succs[1]].class # "direct"
                                       /\ new[new[1].succs[1]].class # "compensation"
               /\ ~new[1].comparable => new[1].succs[1] # 1
    <3>1. /\ Len(new[1].succs) = 1
          /\ new[1].comparable => L = 2 /\ new[1].succs[1] = 2 /\ new[2].class # "direct" /\ new[2].comparable
          /\ ~new[1].comparable => new[1].succs[1] # 1
      BY <1>5, <2>2 DEF NewOK, NewAdapts, L
    <3>2. L = 2 => new[2].class # "compensation"
      BY <1>7
    <3> QED
      BY <3>1, <3>2
  <2> QED
    BY <1>2, <1>4, <2>1, <2>2 DEF AdaptInv, IsDirect
<1> QED
  BY <1>9, <1>10, <1>11, <1>12, <1>13, <1>14 DEF FactoryInv

\* A direct block becomes one of the blocks of the trace, or new blocks.
Becoming(b, by, new) ==
  /\ new \in Seq(BlockRecord)
  /\ \/ new = << >> /\ by \in Known /\ ~IsDirect(by) /\ block[by].comparable
     \/ by = Len(block) + 1 /\ NewOK(new, Len(block) + 1, block[b].meta)
  /\ block' \in Seq(BlockRecord) /\ Len(block') = Len(block) + Len(new)
  /\ \A c \in 1..Len(block) : c # b => block'[c] = block[c]
  /\ block'[b] = [block[b] EXCEPT !.strategy = InFuture, !.materialized = by, !.meta = 0]
  /\ \A i \in 1..Len(new) : block'[Len(block) + i] = new[i]
  /\ blocks' \in Seq(1..Len(block'))
  /\ \A c : c \in Known' <=> c \in Known \/ \E i \in 1..Len(new) : c = Len(block) + i
  /\ allocated' = Metas(new) \cup (allocated \ {block[b].meta})

LEMMA Becomes ==
  ASSUME FactoryInv, phase = "materialize", phase' = "materialize", changed' = TRUE,
         NEW b \in Known, IsDirect(b), NEW by, NEW new, Becoming(b, by, new),
         cursor' \in Nat, cursor' > 0, UNCHANGED <<status, generation>>
  PROVE  FactoryInv'
<1>1. PICK L \in Nat, K \in Nat : L = Len(block) /\ K = Len(new)
  <2>1. new \in Seq(BlockRecord)
    BY DEF Becoming
  <2>2. Len(new) \in Nat
    BY <2>1
  <2> QED
    BY <2>2, BlockTypes DEF FactoryInv
<1>2. /\ \A c \in 1..L : block[c] \in BlockRecord
      /\ Known \subseteq 1..L /\ 1 \in Known /\ ~IsDirect(1) /\ L > 0
  <2>1. /\ \A c \in 1..L : block[c] \in BlockRecord
        /\ Known \subseteq 1..L /\ 1 \in Known /\ ~IsDirect(1)
    BY <1>1, BlockTypes DEF FactoryInv, FactoryTypes
  <2> QED
    BY <2>1
<1>3. PICK m \in Nat : m = block[b].meta /\ m <= L
  BY <1>1, <1>2 DEF FactoryInv, MetaInv, BlockRecord
<1>4. /\ K > 0 => by = L + 1 /\ NewOK(new, L + 1, m)
      /\ K = 0 => by \in Known /\ ~IsDirect(by) /\ block[by].comparable
  BY <1>1, <1>3 DEF Becoming, NewOK, NewShape
<1>5. /\ block'[b].class = "direct" /\ block'[b].pc = block[b].pc /\ block'[b].meta = 0
      /\ block'[b].succs = block[b].succs /\ block'[b].materialized = by
  BY <1>2 DEF BlockRecord, IsDirect, Becoming
<1>6. \A c \in Known : c # b => block'[c] = block[c]
  BY <1>1, <1>2 DEF Becoming
<1>7. \A c \in Known : c \in 1..L /\ c \in Known' /\ c <= L /\ c \in Nat
  BY <1>2 DEF Becoming
<1>8. \A i \in 1..K : L + i \in Known' /\ block'[L + i] = new[i] /\ L + i > L
  BY <1>1 DEF Becoming
<1>9. \A c \in Known' : c \in Known \/ \E i \in 1..K : c = L + i
  BY <1>1 DEF Becoming
<1>10. ASSUME K > 0
       PROVE  /\ \A i \in 1..K : new[i].class # "freed" /\ new[i].materialized = 0
              /\ new[1].class # "direct" /\ new[1].meta \in {0, m} /\ new[1].comparable
              /\ \A i \in 2..K :
                   /\ new[i].class \in {"direct", "cached", "native"} /\ new[i].meta \in {0, L + i}
                   /\ new[i].succs = << >> /\ L + i \in ToSet(new[1].succs)
              /\ \A s \in ToSet(new[1].succs) : (\E i \in 2..K : s = L + i) \/ s \in Known
  <2>1. (L + 1) - 1 = L /\ L + 1 # 1
    BY <1>2
  <2> QED
    BY <1>1, <1>4, <1>10, <2>1 DEF NewOK, NewShape
<1>11. \A i \in 1..K : (i = 1 \/ i \in 2..K) /\ K > 0
  OBVIOUS
<1>12. K > 0 => 1 \in 1..K /\ L + 1 \in Known' /\ block'[L + 1] = new[1]
  BY <1>8
<1>13. block[b].class = "direct"
  BY DEF IsDirect
<1>14. FactoryTypes'
  <2>1. block'[1] = block[1] /\ 1 \in Known'
    BY <1>2, <1>6, <1>7
  <2>2. Metas(new) \subseteq Nat
    <3>1. DOMAIN new = 1..K /\ \A i \in 1..K : new[i] \in BlockRecord
      BY <1>1 DEF Becoming
    <3>2. \A i \in 1..K : new[i].meta \in Nat
      BY <3>1 DEF BlockRecord
    <3> QED
      BY <3>1, <3>2 DEF Metas
  <2> QED
    BY <1>2, <2>1, <2>2 DEF FactoryInv, FactoryTypes, IsDirect, Becoming
<1>15. EdgesInv'
  <2>1. ASSUME NEW c \in 1..Len(block'), c \notin Known' PROVE block'[c] = Freed
    <3>1. c \in 1..L
      <4>1. c \in 1..(L + K)
        BY <1>1 DEF Becoming
      <4>2. c > L => c - L \in 1..K /\ c = L + (c - L)
        BY <4>1
      <4> QED
        BY <1>8, <2>1, <4>1, <4>2
    <3> QED
      BY <1>1, <1>7, <2>1, <3>1 DEF FactoryInv, EdgesInv, Becoming
  <2>2. ASSUME NEW c \in Known
        PROVE  block'[c].class # "freed" /\ block'[c].class = block[c].class /\ block'[c].succs = block[c].succs
    BY <1>5, <1>6, <1>13 DEF FactoryInv, EdgesInv
  <2>3. ASSUME NEW i \in 1..K PROVE block'[L + i].class # "freed" /\ block'[L + i].materialized = 0
    BY <1>8, <1>10, <1>11
  <2>4. ASSUME NEW c \in Known, NEW s \in ToSet(block'[c].succs) PROVE s \in Known'
    BY <1>7, <2>2, <2>4 DEF FactoryInv, EdgesInv
  <2>5. ASSUME NEW i \in 1..K, NEW s \in ToSet(block'[L + i].succs) PROVE s \in Known'
    <3>1. s \in ToSet(new[i].succs) /\ K > 0
      BY <1>8, <1>11, <2>5
    <3>2. i = 1
      BY <1>10, <1>11, <3>1 DEF ToSet
    <3>3. \A j \in 2..K : j \in 1..K
      OBVIOUS
    <3> QED
      BY <1>7, <1>8, <1>10, <3>1, <3>2, <3>3
  <2>6. by \in Known' /\ block'[by].class # "direct" /\ block'[by].comparable
    <3>1. CASE K > 0
      BY <1>4, <1>10, <1>12, <3>1
    <3>2. CASE K = 0
      BY <1>4, <1>6, <1>7, <1>13, <3>2 DEF IsDirect
    <3> QED
      BY <3>1, <3>2
  <2>7. ASSUME NEW c \in Known, block'[c].materialized # 0
        PROVE  /\ block'[c].class = "direct" /\ block'[c].materialized \in Known'
               /\ block'[block'[c].materialized].class # "direct"
               /\ block'[block'[c].materialized].comparable
    <3>1. CASE c = b
      BY <1>5, <2>6, <3>1
    <3>2. CASE c # b
      <4>1. PICK d : d = block[c].materialized
        OBVIOUS
      <4>2. block'[c] = block[c]
        BY <1>6, <3>2
      <4>3. block[c].class = "direct" /\ d \in Known /\ block[d].class # "direct" /\ block[d].comparable
        BY <2>7, <4>1, <4>2 DEF FactoryInv, EdgesInv, IsDirect
      <4>4. block'[d] = block[d]
        BY <1>6, <1>13, <4>3
      <4> QED
        BY <1>7, <4>1, <4>2, <4>3, <4>4
    <3> QED
      BY <3>1, <3>2
  <2>8. \A c \in Known' : block'[c].class # "freed"
    BY <1>9, <2>2, <2>3
  <2>9. \A c \in Known' : \A s \in ToSet(block'[c].succs) : s \in Known'
    BY <1>9, <2>4, <2>5
  <2>10. \A c \in Known' : block'[c].materialized # 0 => c \in Known
    BY <1>9, <2>3
  <2> QED
    BY <2>1, <2>7, <2>8, <2>9, <2>10 DEF EdgesInv, IsDirect
<1>16. ReachInv'
  BY DEF ReachInv
<1>17. DecodedInv'
  <2>1. ASSUME NEW c \in Known', block'[c].class = "decoded"
        PROVE  \/ c \in Known /\ block'[c] = block[c] /\ c <= L
               \/ c = L + 1 /\ K > 0 /\ block'[c] = new[1]
    <3>1. CASE c \in Known
      BY <1>5, <1>6, <1>7, <2>1, <3>1
    <3>2. ASSUME NEW i \in 1..K, c = L + i PROVE c = L + 1 /\ K > 0 /\ block'[c] = new[1]
      <4>1. K > 0 /\ new[i].class = "decoded"
        BY <1>8, <1>11, <2>1, <3>2
      <4>2. i = 1
        BY <1>10, <1>11, <4>1
      <4> QED
        BY <1>8, <3>2, <4>1, <4>2
    <3> QED
      BY <1>9, <3>1, <3>2
  <2>2. \A c \in Known' : block'[c].class = "decoded" => block'[c].comparable
    BY <1>10, <2>1 DEF FactoryInv, DecodedInv
  <2>3. ASSUME NEW c \in Known', NEW d \in Known', c < d, block'[c].pc = block'[d].pc,
               block'[c].class = "decoded", block'[d].class = "decoded"
        PROVE  block'[d].strategy = DecodeNow \/ status[block'[c].pc].trace = "reject"
    <3>1. CASE d \in Known /\ block'[d] = block[d] /\ d <= L
      <4>1. c \in Known /\ block'[c] = block[c]
        BY <1>7, <2>1, <2>3, <3>1
      <4> QED
        BY <2>3, <3>1, <4>1 DEF FactoryInv, DecodedInv
    <3>2. CASE d = L + 1 /\ K > 0 /\ block'[d] = new[1]
      <4>1. c \in Known /\ block'[c] = block[c]
        BY <1>7, <2>1, <2>3, <3>2
      <4>2. NewDecoded(new)
        BY <1>4, <3>2 DEF NewOK
      <4> QED
        BY <2>3, <3>2, <4>1, <4>2 DEF NewDecoded
    <3> QED
      BY <2>1, <2>3, <3>1, <3>2
  <2> QED
    BY <2>2, <2>3 DEF DecodedInv
<1>18. MetaInv'
  <2>1. ASSUME NEW c \in Known, c # b
        PROVE  /\ block'[c].meta = block[c].meta /\ block'[c].meta <= L
               /\ block'[c].meta \in Nat /\ (block'[c].meta = m => m = 0)
    <3>1. block'[c].meta = block[c].meta /\ block[c].meta \in Nat
      BY <1>2, <1>6, <1>7, <2>1 DEF BlockRecord
    <3> QED
      BY <1>1, <1>3, <2>1, <3>1 DEF FactoryInv, MetaInv
  <2>2. ASSUME NEW i \in 1..K PROVE block'[L + i].meta \in {0, L + i} \/ (i = 1 /\ block'[L + i].meta = m)
    BY <1>8, <1>10, <1>11
  <2>3. Len(block') = L + K
    BY <1>1 DEF Becoming
  <2>4. ASSUME NEW c \in Known' PROVE block'[c].meta <= L + K
    <3>1. CASE c \in Known
      BY <1>5, <2>1, <3>1
    <3>2. ASSUME NEW i \in 1..K, c = L + i PROVE block'[c].meta <= L + K
      BY <1>3, <2>2, <3>2
    <3> QED
      BY <1>9, <3>1, <3>2
  <2>5. ASSUME NEW c \in Known', NEW d \in Known', c # d, block'[c].meta = block'[d].meta
        PROVE  block'[c].meta = 0
    <3>1. CASE c \in Known /\ d \in Known
      <4>1. CASE c = b \/ d = b
        BY <1>5, <2>5, <4>1
      <4>2. CASE c # b /\ d # b
        <5>1. block'[c].meta = block[c].meta /\ block'[d].meta = block[d].meta
          BY <2>1, <3>1, <4>2
        <5> QED
          BY <2>5, <3>1, <5>1 DEF FactoryInv, MetaInv
      <4> QED
        BY <4>1, <4>2
    <3>2. ASSUME NEW x \in Known, NEW i \in 1..K, block'[x].meta = block'[L + i].meta
          PROVE  block'[x].meta = 0
      <4>1. CASE x = b
        BY <1>5, <4>1
      <4>2. CASE x # b
        <5>1. block'[x].meta <= L /\ block'[x].meta \in Nat /\ (block'[x].meta = m => m = 0)
          BY <2>1, <4>2
        <5> QED
          BY <2>2, <3>2, <5>1
      <4> QED
        BY <4>1, <4>2
    <3>3. ASSUME NEW i \in 1..K, NEW j \in 1..K, i # j, block'[L + i].meta = block'[L + j].meta
          PROVE  block'[L + i].meta = 0
      BY <1>3, <2>2, <3>3
    <3>4. CASE c \in Known /\ d \notin Known
      BY <1>9, <2>5, <3>2, <3>4
    <3>5. CASE c \notin Known /\ d \in Known
      BY <1>9, <2>5, <3>2, <3>5
    <3>6. CASE c \notin Known /\ d \notin Known
      BY <1>9, <2>5, <3>3, <3>6
    <3> QED
      BY <3>1, <3>4, <3>5, <3>6
  <2>6. allocated = {block[c].meta : c \in Known} \ {0}
    BY DEF FactoryInv, MetaInv
  <2>7. ASSUME NEW x PROVE x \in allocated' <=> x # 0 /\ \E c \in Known' : x = block'[c].meta
    <3>1. x \in Metas(new) <=> x # 0 /\ \E i \in 1..K : x = new[i].meta
      <4>1. DOMAIN new = 1..K
        BY <1>1 DEF Becoming
      <4> QED
        BY <4>1 DEF Metas
    <3>2. (\E i \in 1..K : x = new[i].meta) <=> \E i \in 1..K : x = block'[L + i].meta
      BY <1>8
    <3>3. x \in allocated <=> x # 0 /\ \E c \in Known : x = block[c].meta
      BY <2>6
    <3>4. x # 0 => ((\E c \in Known : x = block'[c].meta) <=> x # m /\ \E c \in Known : x = block[c].meta)
      BY <1>3, <1>5, <2>1
    <3>5. (\E c \in Known' : x = block'[c].meta)
            <=> (\E c \in Known : x = block'[c].meta) \/ (\E i \in 1..K : x = block'[L + i].meta)
      BY <1>7, <1>8, <1>9, Zenon
    <3>6. x \in allocated' <=> x \in Metas(new) \/ (x \in allocated /\ x # m)
      BY <1>3 DEF Becoming
    <3> QED
      BY <3>1, <3>2, <3>3, <3>4, <3>5, <3>6
  <2>8. allocated' = {block'[c].meta : c \in Known'} \ {0}
    BY <2>7
  <2> QED
    BY <2>3, <2>4, <2>5, <2>8 DEF MetaInv
<1>19. AdaptInv'
  <2>1. ASSUME NEW c \in Known', block'[c].class = "compensation"
        PROVE  /\ Len(block'[c].succs) = 1
               /\ block'[c].comparable =>
                    LET s == block'[c].succs[1]
                    IN  /\ block'[s].comparable /\ block'[s].class # "direct"
                        /\ block'[s].class = "compensation" => s < c
               /\ ~block'[c].comparable => c = 1 /\ block'[c].succs[1] # 1
    <3>1. CASE c \in Known
      <4>1. block'[c] = block[c]
        BY <1>5, <1>6, <2>1, <3>1
      <4>2. PICK s : s = block[c].succs[1]
        OBVIOUS
      <4>3. /\ Len(block[c].succs) = 1
            /\ block[c].comparable => /\ block[s].comparable /\ block[s].class # "direct"
                                      /\ block[s].class = "compensation" => s < c
            /\ ~block[c].comparable => c = 1 /\ s # 1
        BY <2>1, <3>1, <4>1, <4>2 DEF FactoryInv, AdaptInv, IsDirect
      <4>4. s \in Known
        <5>1. block[c].succs \in Seq(Nat)
          BY <1>2, <3>1 DEF BlockRecord
        <5>2. 1 \in 1..Len(block[c].succs)
          BY <4>3
        <5>3. s \in ToSet(block[c].succs)
          BY <4>2, <5>1, <5>2, Elements
        <5> QED
          BY <3>1, <5>3 DEF FactoryInv, EdgesInv
      <4>5. block[s].class # "direct" => block'[s] = block[s]
        BY <1>6, <1>13, <4>4
      <4> QED
        BY <4>1, <4>2, <4>3, <4>5
    <3>2. ASSUME NEW i \in 1..K, c = L + i
          PROVE  /\ Len(block'[c].succs) = 1
                 /\ block'[c].comparable =>
                      LET s == block'[c].succs[1]
                      IN  /\ block'[s].comparable /\ block'[s].class # "direct"
                          /\ block'[s].class = "compensation" => s < c
                 /\ ~block'[c].comparable => c = 1 /\ block'[c].succs[1] # 1
      <4>1. K > 0 /\ new[i].class = "compensation" /\ block'[c] = new[i]
        BY <1>8, <1>11, <2>1, <3>2
      <4>2. i = 1 /\ new[1].comparable
        BY <1>10, <1>11, <4>1
      <4>3. PICK s : s = new[1].succs[1]
        OBVIOUS
      <4>4. /\ Len(new[1].succs) = 1
            /\ \/ K = 2 /\ s = L + 2 /\ new[2].class # "direct" /\ new[2].comparable
               \/ s \in Known /\ block[s].class # "direct" /\ block[s].comparable
        <5>1. NewAdapts(new, L + 1) /\ ((L + 1) - 1) + 2 = L + 2
          BY <1>4, <4>1 DEF NewOK
        <5> QED
          BY <1>1, <4>1, <4>2, <4>3, <5>1 DEF NewAdapts, IsDirect
      <4>5. CASE K = 2 /\ s = L + 2 /\ new[2].class # "direct" /\ new[2].comparable
        <5>1. 2 \in 1..K /\ 2 \in 2..K
          BY <4>5
        <5>2. block'[s] = new[2] /\ new[2].class # "compensation"
          BY <1>8, <1>10, <4>1, <4>5, <5>1
        <5> QED
          BY <4>1, <4>2, <4>3, <4>4, <4>5, <5>2
      <4>6. CASE s \in Known /\ block[s].class # "direct" /\ block[s].comparable
        <5>1. block'[s] = block[s] /\ s < L + 1
          BY <1>6, <1>7, <1>13, <4>6
        <5> QED
          BY <3>2, <4>1, <4>2, <4>3, <4>4, <4>6, <5>1
      <4> QED
        BY <4>4, <4>5, <4>6
    <3> QED
      BY <1>9, <3>1, <3>2
  <2> QED
    BY <2>1 DEF AdaptInv, IsDirect
<1> QED
  BY <1>14, <1>15, <1>16, <1>17, <1>18, <1>19 DEF FactoryInv

-----------------------------------------------------------------------------
(* Blocks are removed that nothing leads to, when control flow has been    *)
(* relinked.                                                               *)

SameButSuccs(c, d) ==
  /\ c.class = d.class /\ c.pc = d.pc /\ c.meta = d.meta /\ c.strategy = d.strategy
  /\ c.materialized = d.materialized /\ c.comparable = d.comparable

Relinked(blk) ==
  /\ blk \in Seq(BlockRecord) /\ Len(blk) = Len(block)
  /\ \A b \in 1..Len(block) : SameButSuccs(blk[b], block[b]) /\ (b \notin Known => blk[b] = block[b])
  /\ \A b \in Known :
       /\ Len(blk[b].succs) = Len(block[b].succs)
       /\ \A s \in ToSet(blk[b].succs) : s \in Known /\ blk[s].materialized = 0
       /\ block[b].class = "compensation" =>
            /\ block[b].comparable => blk[b].succs[1] = block[b].succs[1]
            /\ ~block[b].comparable => blk[b].succs[1] # 1

LEMMA FreedType == Freed \in BlockRecord /\ Freed.succs = << >> /\ Freed.materialized = 0 /\ Freed.class = "freed"
<1>1. Freed.class \in Class /\ Freed.strategy \in Strategy /\ EntryPC \in PC
  BY ProgramAssumption DEF Freed, Class, Strategy
<1>2. << >> \in Seq(Nat)
  OBVIOUS
<1> QED
  BY <1>1, <1>2 DEF Freed, BlockRecord

LEMMA Removes ==
  ASSUME FactoryInv, phase # "enter", NEW blk, Relinked(blk), RemoveUnreachableBlocks(blk),
         phase' \notin {"enter", "materialize"}, generation' \in Nat, cursor' \in Nat,
         changed' \in BOOLEAN, status' = status
  PROVE  FactoryInv'
<1>1. PICK L \in Nat : L = Len(block)
  BY BlockTypes DEF FactoryInv
<1>2. /\ blk \in Seq(BlockRecord) /\ Len(blk) = L /\ DOMAIN blk = 1..L
      /\ \A b \in 1..L : blk[b] \in BlockRecord
  BY <1>1 DEF Relinked
<1>3. Known \subseteq 1..L /\ 1 \in Known /\ ~IsDirect(1)
  BY <1>1, BlockTypes DEF FactoryInv, FactoryTypes
<1>4. \A b \in 1..L : SameButSuccs(blk[b], block[b])
  BY <1>1 DEF Relinked
<1>5. Linked(blk)
  <2>1. ASSUME NEW b \in 1..L PROVE blk[b].succs \in Seq(1..L)
    <3>1. PICK q \in Seq(Nat) : q = blk[b].succs
      BY <1>2 DEF BlockRecord
    <3>2. \A s \in ToSet(q) : s \in 1..L
      <4>1. CASE b \in Known
        BY <1>3, <3>1, <4>1 DEF Relinked
      <4>2. CASE b \notin Known
        <5>1. q = << >>
          BY <1>1, <3>1, <4>2, FreedType DEF Relinked, FactoryInv, EdgesInv
        <5> QED
          BY <5>1 DEF ToSet
      <4> QED
        BY <4>1, <4>2
    <3>3. \A j \in 1..Len(q) : q[j] \in 1..L
      BY <3>2, Elements
    <3>4. q \in Seq(1..L)
      BY <3>3
    <3> QED
      BY <3>1, <3>4
  <2> QED
    BY <1>2, <1>3, <2>1 DEF Linked
<1>6. PICK R, T : /\ R \in Seq(1..L) /\ R = Reached(blk) /\ T = ToSet(R) /\ ClosedSet(T, blk)
                  /\ \A U : ClosedSet(U, blk) => T \subseteq U
  BY <1>2, <1>5, ReachedIs
<1>7. T \subseteq Known /\ \A b \in T : blk[b].materialized = 0
  <2>1. PICK U : U = {b \in Known : blk[b].materialized = 0}
    OBVIOUS
  <2>2. 1 \in U
    BY <1>3, <1>4, <2>1 DEF SameButSuccs, FactoryInv, EdgesInv
  <2>3. \A b \in U : ToSet(blk[b].succs) \subseteq U
    BY <2>1 DEF Relinked
  <2>4. ClosedSet(U, blk)
    BY <2>2, <2>3 DEF ClosedSet
  <2> QED
    BY <1>6, <2>1, <2>4
<1>8. 1 \in T /\ \A b \in T : ToSet(blk[b].succs) \subseteq T
  BY <1>2, <1>3, <1>6, <1>7 DEF ClosedSet
<1>9. blocks' \in Seq(1..L) /\ Known' = T
  <2>1. PICK New : New = {b \in DOMAIN blk : blk[b].generation >= generation}
    OBVIOUS
  <2>2. PICK q, r : q = Keep(R, DOMAIN blk \ New) /\ r = Keep(R, New)
    OBVIOUS
  <2>3. blocks' = q \o r
    BY <1>6, <2>1, <2>2 DEF RemoveUnreachableBlocks
  <2>4. /\ q \in Seq(1..L) /\ \A x : x \in ToSet(q) <=> x \in T /\ x \in DOMAIN blk \ New
        /\ r \in Seq(1..L) /\ \A x : x \in ToSet(r) <=> x \in T /\ x \in New
    BY <1>6, <2>2, KeepIs
  <2>5. q \o r \in Seq(1..L) /\ \A x : x \in ToSet(q \o r) <=> x \in ToSet(q) \/ x \in ToSet(r)
    <3>1. q \o r \in Seq(1..L) /\ IsConcat(q \o r, q, r)
      BY <2>4, ConcatIs
    <3> QED
      BY <3>1 DEF IsConcat
  <2>6. T \subseteq DOMAIN blk
    BY <1>2, <1>3, <1>7
  <2>7. \A x : x \in ToSet(blocks') <=> x \in T
    BY <2>3, <2>4, <2>5, <2>6
  <2> QED
    BY <2>3, <2>5, <2>7 DEF Known
<1>10. /\ block' = [b \in 1..L |-> IF b \in Known \ T THEN Freed ELSE blk[b]]
       /\ allocated' = allocated \ {blk[b].meta : b \in Known \ T}
  BY <1>2, <1>6 DEF RemoveUnreachableBlocks, Known
<1>11. block' \in Seq(BlockRecord) /\ Len(block') = L
  <2>1. block' \in [1..L -> BlockRecord]
    BY <1>2, <1>10, FreedType
  <2> QED
    BY <2>1, FunctionIsSeq
<1>12. \A b \in T : b \in 1..L /\ b \in Known /\ block'[b] = blk[b] /\ SameButSuccs(blk[b], block[b])
  BY <1>3, <1>4, <1>7, <1>10
<1>13. FactoryTypes'
  <2>1. block'[1].class # "direct"
    BY <1>3, <1>8, <1>12 DEF SameButSuccs, IsDirect
  <2> QED
    BY <1>8, <1>9, <1>10, <1>11, <2>1 DEF FactoryInv, FactoryTypes, IsDirect
<1>14. EdgesInv'
  <2>1. ASSUME NEW b \in 1..L, b \notin T PROVE block'[b] = Freed
    BY <1>1, <1>10, <2>1 DEF Relinked, FactoryInv, EdgesInv
  <2>2. \A b \in T : /\ block'[b].class # "freed" /\ block'[b].materialized = 0
                     /\ \A s \in ToSet(block'[b].succs) : s \in T
    BY <1>7, <1>8, <1>12 DEF SameButSuccs, FactoryInv, EdgesInv
  <2> QED
    BY <1>9, <1>11, <2>1, <2>2 DEF EdgesInv
<1>15. ReachInv'
  <2>1. Linked(block')
    <3>1. ASSUME NEW b \in 1..L PROVE block'[b].succs \in Seq(1..L)
      <4>1. blk[b].succs \in Seq(1..L) /\ << >> \in Seq(1..L)
        BY <1>2, <1>5 DEF Linked
      <4> QED
        BY <1>10, <4>1, FreedType
    <3> QED
      BY <1>3, <1>11, <3>1 DEF Linked
  <2>2. PICK U : U = ToSet(Reached(block'))
    OBVIOUS
  <2>3. ClosedSet(U, block')
    BY <2>1, <2>2, ReachedIs
  <2>4. ASSUME NEW b \in U \cap T PROVE ToSet(blk[b].succs) \subseteq U \cap T
    <3>1. b \in 1..Len(block') /\ block'[b] = blk[b]
      BY <1>11, <1>12, <2>4
    <3>2. ToSet(blk[b].succs) \subseteq U
      BY <2>3, <2>4, <3>1 DEF ClosedSet
    <3> QED
      BY <1>8, <2>4, <3>2
  <2>5. ClosedSet(U \cap T, blk)
    BY <1>8, <2>3, <2>4 DEF ClosedSet
  <2>6. T \subseteq U \cap T
    BY <1>6, <2>5
  <2> QED
    BY <1>9, <2>2, <2>6 DEF ReachInv
<1>16. DecodedInv'
  <2>1. \A b \in T : /\ block'[b].class = block[b].class /\ block'[b].pc = block[b].pc
                     /\ block'[b].strategy = block[b].strategy /\ block'[b].comparable = block[b].comparable
    BY <1>12 DEF SameButSuccs
  <2>2. \A b \in T : block'[b].class = "decoded" => block'[b].comparable
    BY <1>7, <2>1 DEF FactoryInv, DecodedInv
  <2>3. ASSUME NEW b \in T, NEW c \in T, b < c, block'[b].pc = block'[c].pc,
               block'[b].class = "decoded", block'[c].class = "decoded"
        PROVE  block'[c].strategy = DecodeNow \/ status[block'[b].pc].trace = "reject"
    <3>1. b \in Known /\ c \in Known
      BY <1>7
    <3> QED
      BY <2>1, <2>3, <3>1 DEF FactoryInv, DecodedInv
  <2> QED
    BY <1>9, <2>2, <2>3 DEF DecodedInv
<1>17. MetaInv'
  <2>1. \A b \in Known : blk[b].meta = block[b].meta
    BY <1>3, <1>4 DEF SameButSuccs
  <2>2. \A b \in T : block'[b].meta = block[b].meta
    BY <1>12 DEF SameButSuccs
  <2>3. \A b, c \in Known : block[b].meta = block[c].meta /\ b # c => block[b].meta = 0
    BY DEF FactoryInv, MetaInv
  <2>4. allocated = {block[b].meta : b \in Known} \ {0}
    BY DEF FactoryInv, MetaInv
  <2>5. ASSUME NEW x PROVE x \in allocated' <=> x # 0 /\ \E b \in T : x = block'[b].meta
    <3>1. x \in allocated' <=> x # 0 /\ (\E b \in Known : x = block[b].meta) /\ ~\E b \in Known \ T : x = block[b].meta
      BY <1>10, <2>1, <2>4
    <3>2. (\E b \in T : x = block'[b].meta) <=> \E b \in T : x = block[b].meta
      BY <2>2
    <3> QED
      BY <1>7, <2>3, <3>1, <3>2
  <2>6. allocated' = {block'[b].meta : b \in T} \ {0}
    BY <2>5
  <2>7. \A b \in T : block'[b].meta <= Len(block')
    BY <1>1, <1>7, <1>11, <2>2 DEF FactoryInv, MetaInv
  <2>8. \A b, c \in T : block'[b].meta = block'[c].meta /\ b # c => block'[b].meta = 0
    BY <1>7, <2>2, <2>3
  <2> QED
    BY <1>9, <2>6, <2>7, <2>8 DEF MetaInv
<1>18. AdaptInv'
  <2>1. ASSUME NEW b \in T, block'[b].class = "compensation"
        PROVE  /\ Len(block'[b].succs) = 1
               /\ block'[b].comparable =>
                    LET s == block'[b].succs[1]
                    IN  /\ block'[s].comparable /\ block'[s].class # "direct"
                        /\ block'[s].class = "compensation" => s < b
               /\ ~block'[b].comparable => b = 1 /\ block'[b].succs[1] # 1
    <3>1. PICK s : s = block'[b].succs[1]
      OBVIOUS
    <3>2. /\ b \in Known /\ block'[b] = blk[b] /\ block[b].class = "compensation"
          /\ block'[b].comparable = block[b].comparable
      BY <1>12, <2>1 DEF SameButSuccs
    <3>3. Len(block[b].succs) = 1 /\ Len(blk[b].succs) = 1
      BY <3>2 DEF FactoryInv, AdaptInv, Relinked
    <3>4. s \in T
      <4>1. blk[b].succs \in Seq(Nat)
        BY <1>2, <1>12 DEF BlockRecord
      <4>2. s \in ToSet(blk[b].succs)
        BY <3>1, <3>2, <3>3, <4>1, Elements
      <4> QED
        BY <1>8, <4>2
    <3>5. CASE block[b].comparable
      <4>1. s = block[b].succs[1]
        BY <3>1, <3>2, <3>5 DEF Relinked
      <4>2. block[s].comparable /\ block[s].class # "direct" /\ (block[s].class = "compensation" => s < b)
        BY <3>2, <3>5, <4>1 DEF FactoryInv, AdaptInv, IsDirect
      <4>3. block'[s].comparable = block[s].comparable /\ block'[s].class = block[s].class
        BY <1>12, <3>4 DEF SameButSuccs
      <4> QED
        BY <3>1, <3>2, <3>3, <3>5, <4>2, <4>3
    <3>6. CASE ~block[b].comparable
      BY <3>1, <3>2, <3>3, <3>6 DEF FactoryInv, AdaptInv, Relinked
    <3> QED
      BY <3>5, <3>6
  <2> QED
    BY <1>9, <2>1 DEF AdaptInv, IsDirect
<1> QED
  BY <1>13, <1>14, <1>15, <1>16, <1>17, <1>18 DEF FactoryInv

\* What block s has become, if it is a direct block.
Become(s) == IF block[s].materialized # 0 THEN block[s].materialized ELSE s

LEMMA BecomeIs ==
  ASSUME FactoryInv, NEW s \in Known
  PROVE  /\ Become(s) \in Known /\ block[Become(s)].materialized = 0
         /\ ~IsDirect(s) => Become(s) = s
         /\ Become(s) = s \/ block[Become(s)].comparable
<1>1. CASE block[s].materialized = 0
  BY <1>1 DEF Become
<1>2. CASE block[s].materialized # 0
  BY <1>2 DEF Become, FactoryInv, EdgesInv
<1> QED
  BY <1>1, <1>2

LEMMA RelinkCFIsIs ==
  ASSUME FactoryInv, phase # "enter"
  PROVE  Relinked(RelinkCFIs)
<1>1. PICK L \in Nat : L = Len(block)
  BY BlockTypes DEF FactoryInv
<1>2. /\ DOMAIN block = 1..L /\ \A b \in 1..L : block[b] \in BlockRecord
      /\ Known \subseteq 1..L /\ Known \subseteq Nat
  BY <1>1, BlockTypes DEF FactoryInv
<1>3. PICK blk : blk = RelinkCFIs
  OBVIOUS
<1>4. /\ DOMAIN blk = 1..L
      /\ \A b \in 1..L : blk[b] = [block[b] EXCEPT !.succs = [i \in DOMAIN block[b].succs |-> Become(block[b].succs[i])]]
  BY <1>2, <1>3 DEF RelinkCFIs, Become
<1> DEFINE RelinkedTo(b, q) ==
             /\ q \in Seq(Nat) /\ Len(q) = Len(block[b].succs)
             /\ \A i \in 1..Len(q) : block[b].succs[i] \in Known /\ q[i] = Become(block[b].succs[i])
             /\ SameButSuccs(blk[b], block[b]) /\ blk[b] \in BlockRecord
             /\ blk[b] = [block[b] EXCEPT !.succs = q]
<1>5. ASSUME NEW b \in 1..L, NEW q, q = blk[b].succs PROVE RelinkedTo(b, q)
  <2>1. PICK r \in Seq(Nat) : r = block[b].succs
    BY <1>2 DEF BlockRecord
  <2>2. PICK k \in Nat : k = Len(r) /\ DOMAIN r = 1..k
    OBVIOUS
  <2>3. q = [i \in 1..k |-> Become(r[i])] /\ blk[b] = [block[b] EXCEPT !.succs = q]
    <3>1. PICK f : f = [i \in 1..k |-> Become(r[i])]
      OBVIOUS
    <3>2. blk[b] = [block[b] EXCEPT !.succs = f]
      BY <1>4, <2>1, <2>2, <3>1
    <3>3. blk[b].succs = f
      BY <1>2, <3>2 DEF BlockRecord
    <3> QED
      BY <1>5, <3>1, <3>2, <3>3
  <2>4. \A i \in 1..k : r[i] \in Known
    <3>1. CASE b \in Known
      <4>1. \A s \in ToSet(r) : s \in Known
        BY <2>1, <3>1 DEF FactoryInv, EdgesInv
      <4> QED
        BY <2>2, <4>1, Elements
    <3>2. CASE b \notin Known
      <4>1. r = << >>
        BY <1>1, <2>1, <3>2, FreedType DEF FactoryInv, EdgesInv
      <4>2. k = 0
        BY <2>2, <4>1
      <4> QED
        BY <4>2
    <3> QED
      BY <3>1, <3>2
  <2>5. \A i \in 1..k : Become(r[i]) \in Nat
    BY <1>2, <2>4, BecomeIs
  <2>6. q \in [1..k -> Nat]
    BY <2>3, <2>5
  <2>7. q \in Seq(Nat) /\ Len(q) = k
    BY <2>6, FunctionIsSeq
  <2>8. SameButSuccs(blk[b], block[b]) /\ blk[b] \in BlockRecord
    BY <1>2, <2>3, <2>7 DEF SameButSuccs, BlockRecord
  <2> QED
    BY <2>1, <2>2, <2>3, <2>4, <2>7, <2>8
<1> HIDE DEF RelinkedTo
<1>6. blk \in Seq(BlockRecord) /\ Len(blk) = L
  <2>1. blk = [b \in 1..L |-> blk[b]]
    BY <1>2, <1>3 DEF RelinkCFIs
  <2>2. blk \in [1..L -> BlockRecord]
    BY <1>5, <2>1 DEF RelinkedTo
  <2> QED
    BY <2>2, FunctionIsSeq
<1>7. ASSUME NEW b \in 1..L, b \notin Known PROVE blk[b] = block[b]
  <2>1. PICK q : q = blk[b].succs
    OBVIOUS
  <2>2. block[b] = Freed
    BY <1>1, <1>7 DEF FactoryInv, EdgesInv
  <2>3. q \in Seq(Nat) /\ Len(q) = 0
    BY <1>5, <2>1, <2>2, FreedType DEF RelinkedTo
  <2>4. q = << >>
    BY <2>3
  <2>5. blk[b] = [Freed EXCEPT !.succs = << >>]
    BY <1>5, <2>1, <2>2, <2>4 DEF RelinkedTo
  <2> QED
    BY <2>2, <2>5 DEF Freed
<1>8. ASSUME NEW b \in Known
      PROVE  /\ Len(blk[b].succs) = Len(block[b].succs)
             /\ \A s \in ToSet(blk[b].succs) : s \in Known /\ blk[s].materialized = 0
             /\ block[b].class = "compensation" =>
                  /\ block[b].comparable => blk[b].succs[1] = block[b].succs[1]
                  /\ ~block[b].comparable => blk[b].succs[1] # 1
  <2>1. PICK q : q = blk[b].succs
    OBVIOUS
  <2>2. /\ q \in Seq(Nat) /\ Len(q) = Len(block[b].succs)
        /\ \A i \in 1..Len(q) : block[b].succs[i] \in Known /\ q[i] = Become(block[b].succs[i])
    <3>1. b \in 1..L
      BY <1>2
    <3>2. RelinkedTo(b, q)
      BY <1>5, <2>1, <3>1
    <3> QED
      BY <3>2 DEF RelinkedTo
  <2>3. ASSUME NEW s \in ToSet(q) PROVE s \in Known /\ blk[s].materialized = 0
    <3>1. PICK i \in 1..Len(q) : s = q[i]
      BY <2>2, Elements
    <3>2. s \in Known /\ block[s].materialized = 0
      BY <2>2, <3>1, BecomeIs
    <3> QED
      BY <1>2, <1>5, <3>2 DEF SameButSuccs, RelinkedTo
  <2>4. ASSUME block[b].class = "compensation"
        PROVE  /\ block[b].comparable => q[1] = block[b].succs[1]
               /\ ~block[b].comparable => q[1] # 1
    <3>1. PICK s : s = block[b].succs[1]
      OBVIOUS
    <3>2. Len(q) = 1 /\ 1 \in 1..Len(q)
      BY <2>2, <2>4 DEF FactoryInv, AdaptInv
    <3>3. s \in Known /\ q[1] = Become(s)
      BY <2>2, <3>1, <3>2
    <3>4. /\ block[b].comparable => ~IsDirect(s)
          /\ ~block[b].comparable => b = 1 /\ s # 1
      BY <2>4, <3>1 DEF FactoryInv, AdaptInv
    <3> QED
      BY <3>1, <3>3, <3>4, BecomeIs
  <2> QED
    BY <2>1, <2>2, <2>3, <2>4
<1> QED
  BY <1>1, <1>3, <1>5, <1>6, <1>7, <1>8 DEF Relinked, RelinkedTo

\* When no block has become another one, nothing has to be relinked.
LEMMA NothingToRelink ==
  ASSUME FactoryInv, phase \notin {"enter", "materialize"}
  PROVE  Relinked(block)
<1>1. \A b \in Known : block[b].materialized = 0 /\ \A s \in ToSet(block[b].succs) : s \in Known
  BY DEF FactoryInv, EdgesInv
<1>2. \A b \in Known : block[b].class = "compensation" /\ ~block[b].comparable => block[b].succs[1] # 1
  BY DEF FactoryInv, AdaptInv
<1> QED
  BY <1>1, <1>2 DEF Relinked, SameButSuccs, FactoryInv, FactoryTypes

-----------------------------------------------------------------------------
(* The blocks that the factory makes.                                      *)

IsBlock(c, class, pc, meta, succs) ==
  /\ c \in BlockRecord /\ c.class = class /\ c.pc = pc /\ c.meta = meta /\ c.succs = succs
  /\ c.materialized = 0 /\ c.comparable = TRUE

LEMMA NewBlockIs ==
  ASSUME generation \in Nat, NEW class \in Class, NEW pc \in PC, NEW meta \in Nat, NEW succs \in Seq(Nat)
  PROVE  IsBlock(NewBlock(class, pc, meta, succs), class, pc, meta, succs)
<1>0. PICK c : c = NewBlock(class, pc, meta, succs)
  OBVIOUS
<1>1. Later \in Strategy
  BY DEF Strategy
<1>2. c = [class |-> class, pc |-> pc, meta |-> meta, succs |-> succs, strategy |-> Later,
           materialized |-> 0, generation |-> generation, comparable |-> TRUE]
  BY <1>0 DEF NewBlock, Freed
<1> QED
  BY <1>0, <1>1, <1>2 DEF BlockRecord, IsBlock

\* One new block.
LEMMA OneNewBlock ==
  ASSUME NEW n \in Nat, NEW m \in Nat, NEW c \in BlockRecord, c.class \notin {"freed", "direct"},
         c.materialized = 0, c.meta \in {0, m}, c.comparable, \A s \in ToSet(c.succs) : s \in Known
  PROVE  NewShape(<<c>>, n, m)
<1>1. PICK new : new = <<c>>
  OBVIOUS
<1>2. new \in Seq(BlockRecord) /\ Len(new) = 1 /\ new[1] = c
  BY <1>1
<1>3. 2..1 = {} /\ \A i \in 1..1 : i = 1
  OBVIOUS
<1> QED
  BY <1>1, <1>2, <1>3 DEF NewShape

\* A new block that leads to a second one.
LEMMA TwoNewBlocks ==
  ASSUME NEW n \in Nat, NEW m \in Nat, NEW c \in BlockRecord, NEW d \in BlockRecord,
         c.class = "compensation", c.materialized = 0, c.meta \in {0, m}, c.comparable \/ n = 1,
         c.succs = <<n + 1>>,
         d.class \in {"direct", "cached", "native"}, d.materialized = 0, d.meta \in {0, n + 1},
         d.succs = << >>, d.comparable, ~c.comparable \/ d.class # "direct"
  PROVE  NewOK(<<c, d>>, n, m)
<1>1. PICK new : new = <<c, d>>
  OBVIOUS
<1>2. new \in Seq(BlockRecord) /\ Len(new) = 2 /\ new[1] = c /\ new[2] = d
  BY <1>1
<1>3. 2..2 = {2} /\ 1..2 = {1, 2} /\ (n - 1) + 2 = n + 1 /\ n + 1 # n
  OBVIOUS
<1>4. ToSet(c.succs) = {n + 1} /\ Len(c.succs) = 1 /\ c.succs[1] = n + 1
  BY DEF ToSet
<1>5. NewShape(new, n, m)
  BY <1>2, <1>3, <1>4 DEF NewShape
<1>6. NewAdapts(new, n)
  BY <1>2, <1>3, <1>4 DEF NewAdapts
<1>7. NewDecoded(new)
  BY <1>2 DEF NewDecoded
<1> QED
  BY <1>1, <1>5, <1>6, <1>7 DEF NewOK

LEMMA AdaptIsNew ==
  ASSUME generation \in Nat, NEW n \in Nat, NEW m \in Nat, NEW pc \in PC, NEW s \in Known, s \in Nat,
         ~IsDirect(s), block[s].comparable
  PROVE  NewOK(<<AdaptToBlock(pc, m, s)>>, n, m)
<1>1. PICK q : q = <<s>>
  OBVIOUS
<1>2. q \in Seq(Nat) /\ ToSet(q) = {s} /\ Len(q) = 1 /\ q[1] = s /\ "compensation" \in Class
  BY <1>1 DEF ToSet, Class
<1>3. PICK c : c = NewBlock("compensation", pc, m, q)
  OBVIOUS
<1>4. IsBlock(c, "compensation", pc, m, q)
  BY <1>2, <1>3, NewBlockIs
<1>5. NewShape(<<c>>, n, m)
  BY <1>2, <1>4, OneNewBlock DEF IsBlock
<1>6. NewAdapts(<<c>>, n) /\ NewDecoded(<<c>>)
  BY <1>2, <1>4 DEF NewAdapts, NewDecoded, IsBlock
<1> QED
  BY <1>1, <1>3, <1>5, <1>6 DEF AdaptToBlock, NewOK

LEMMA NativeIsNew ==
  ASSUME generation \in Nat, NEW n \in Nat, NEW m \in Nat, NEW pc \in PC
  PROVE  /\ NewOK(<<NewBlock("native", pc, 0, << >>)>>, n, m)
         /\ NewOK(<<NewBlock("cached", pc, 0, << >>)>>, n, m)
<1>1. << >> \in Seq(Nat) /\ ToSet(<< >>) = {} /\ "native" \in Class /\ "cached" \in Class
  BY DEF ToSet, Class
<1>2. ASSUME NEW class \in {"native", "cached"} PROVE NewOK(<<NewBlock(class, pc, 0, << >>)>>, n, m)
  <2>1. PICK c : c = NewBlock(class, pc, 0, << >>)
    OBVIOUS
  <2>2. IsBlock(c, class, pc, 0, << >>)
    BY <1>1, <2>1, NewBlockIs
  <2>3. NewShape(<<c>>, n, m)
    BY <1>1, <2>2, OneNewBlock DEF IsBlock
  <2>4. NewAdapts(<<c>>, n) /\ NewDecoded(<<c>>)
    BY <2>2 DEF NewAdapts, NewDecoded, IsBlock
  <2> QED
    BY <2>1, <2>3, <2>4 DEF NewOK
<1> QED
  BY <1>2

\* Compensation code before a block that ends the trace.
LEMMA AdaptBeforeIsNew ==
  ASSUME generation \in Nat, NEW n \in Nat, NEW m \in Nat, NEW pc \in PC, NEW class \in {"native", "cached"}
  PROVE  NewOK(<<AdaptToBlock(pc, m, n + 1), NewBlock(class, pc, 0, << >>)>>, n, m)
<1>1. << >> \in Seq(Nat) /\ <<n + 1>> \in Seq(Nat) /\ class \in Class /\ "compensation" \in Class
  BY DEF Class
<1>2. PICK d : d = NewBlock(class, pc, 0, << >>)
  OBVIOUS
<1>3. IsBlock(d, class, pc, 0, << >>)
  BY <1>1, <1>2, NewBlockIs
<1>4. PICK c : c = NewBlock("compensation", pc, m, <<n + 1>>)
  OBVIOUS
<1>5. IsBlock(c, "compensation", pc, m, <<n + 1>>)
  BY <1>1, <1>4, NewBlockIs
<1>6. NewOK(<<c, d>>, n, m)
  BY <1>3, <1>5, TwoNewBlocks DEF IsBlock
<1> QED
  BY <1>2, <1>4, <1>6 DEF AdaptToBlock

LEMMA IndexedIsNew ==
  ASSUME generation \in Nat, NEW n \in Nat, NEW m \in Nat, NEW pc \in PC, RequestIndexedBlock(pc, m, n) # << >>
  PROVE  NewOK(RequestIndexedBlock(pc, m, n), n, m)
<1>1. CASE status[pc].index = "accept"
  BY <1>1, NativeIsNew DEF RequestIndexedBlock
<1>2. CASE status[pc].index = "adapt"
  BY <1>2, AdaptBeforeIsNew DEF RequestIndexedBlock
<1> QED
  BY <1>1, <1>2 DEF RequestIndexedBlock

LEMMA DecodeIsNew ==
  ASSUME generation \in Nat, NEW n \in Nat, NEW m \in Nat, NEW pc \in PC, NEW st \in Strategy,
         \A c \in Known : block[c].class = "decoded" /\ block[c].pc = pc =>
           st = DecodeNow \/ status[block[c].pc].trace = "reject"
  PROVE  NewOK(DecodeInstructionList(pc, m, n, st), n, m)
<1>1. PICK succ \in Seq([pc : PC, strategy : Strategy]) : succ = Succ[pc]
  BY ProgramAssumption
<1>2. PICK K \in Nat : K = Len(succ) /\ DOMAIN succ = 1..K
  OBVIOUS
<1>3. \A i \in 1..K : succ[i].pc \in PC /\ succ[i].strategy \in Strategy
  <2>1. \A i \in 1..K : succ[i] \in [pc : PC, strategy : Strategy]
    BY <1>2, Elements
  <2> QED
    BY <2>1
<1>4. PICK q : q = [i \in 1..K |-> n + i]
  OBVIOUS
<1>5. q \in Seq(Nat) /\ Len(q) = K /\ \A i \in 1..K : q[i] = n + i
  <2>1. q \in [1..K -> Nat]
    BY <1>4
  <2> QED
    BY <1>4, <2>1, FunctionIsSeq
<1>6. PICK c : c = [NewBlock("decoded", pc, m, q) EXCEPT !.strategy = st]
  OBVIOUS
<1>7. IsBlock(c, "decoded", pc, m, q) /\ c.strategy = st
  <2>1. IsBlock(NewBlock("decoded", pc, m, q), "decoded", pc, m, q)
    BY <1>5, NewBlockIs DEF Class
  <2> QED
    BY <1>6, <2>1 DEF IsBlock, BlockRecord
<1>8. PICK ds : ds = [i \in 1..K |-> NewDirectBlock(succ[i].pc, n + i, succ[i].strategy)]
  OBVIOUS
<1>9. ASSUME NEW i \in 1..K PROVE IsBlock(ds[i], "direct", succ[i].pc, n + i, << >>)
  <2>1. n + i \in Nat /\ << >> \in Seq(Nat) /\ "direct" \in Class
    BY DEF Class
  <2>2. IsBlock(NewBlock("direct", succ[i].pc, n + i, << >>), "direct", succ[i].pc, n + i, << >>)
    BY <1>3, <2>1, NewBlockIs
  <2>3. ds[i] = [NewBlock("direct", succ[i].pc, n + i, << >>) EXCEPT !.strategy = succ[i].strategy]
    BY <1>8 DEF NewDirectBlock
  <2> QED
    BY <1>3, <2>2, <2>3 DEF IsBlock, BlockRecord
<1>10. ds \in Seq(BlockRecord) /\ Len(ds) = K
  <2>1. ds \in [1..K -> BlockRecord]
    BY <1>8, <1>9 DEF IsBlock
  <2> QED
    BY <2>1, FunctionIsSeq
<1>11. PICK one : one = <<c>>
  OBVIOUS
<1>12. one \in Seq(BlockRecord) /\ Len(one) = 1 /\ one[1] = c
  BY <1>7, <1>11 DEF IsBlock
<1>13. PICK new : new = one \o ds
  OBVIOUS
<1>14. new \in Seq(BlockRecord) /\ Len(new) = 1 + K /\ new[1] = c /\ \A i \in 1..K : new[1 + i] = ds[i]
  <2>1. /\ new \in Seq(BlockRecord) /\ Len(new) = Len(one) + Len(ds)
        /\ \A i \in 1..Len(one) : new[i] = one[i]
        /\ \A i \in 1..Len(ds) : new[Len(one) + i] = ds[i]
    <3>1. one \o ds \in Seq(BlockRecord) /\ IsConcat(one \o ds, one, ds)
      BY <1>10, <1>12, ConcatIs
    <3> QED
      BY <1>13, <3>1 DEF IsConcat
  <2>2. 1 \in 1..Len(one)
    BY <1>12
  <2> QED
    BY <1>10, <1>12, <2>1, <2>2
<1>15. DecodeInstructionList(pc, m, n, st) = new
  BY <1>1, <1>2, <1>4, <1>6, <1>8, <1>11, <1>13 DEF DecodeInstructionList
<1>16. ASSUME NEW i \in 2..(1 + K)
       PROVE  /\ IsBlock(new[i], "direct", succ[i - 1].pc, (n - 1) + i, << >>)
              /\ (n - 1) + i \in ToSet(q)
  <2>1. i - 1 \in 1..K /\ 1 + (i - 1) = i /\ n + (i - 1) = (n - 1) + i
    OBVIOUS
  <2>2. q[i - 1] \in ToSet(q) /\ q[i - 1] = n + (i - 1)
    BY <1>5, <2>1, Elements
  <2> QED
    BY <1>9, <1>14, <2>1, <2>2
<1>17. ASSUME NEW s \in ToSet(q) PROVE \E i \in 2..(1 + K) : s = (n - 1) + i
  <2>0. PICK j \in 1..Len(q) : s = q[j]
    BY <1>5, Elements
  <2>1. j \in 1..K /\ s = n + j
    BY <1>5, <2>0
  <2>2. j + 1 \in 2..(1 + K) /\ s = (n - 1) + (j + 1)
    BY <2>1
  <2> QED
    BY <2>2
<1>18. \A i \in 1..(1 + K) : i = 1 \/ i \in 2..(1 + K)
  OBVIOUS
<1>19. NewShape(new, n, m)
  <2>1. /\ new[1].class = "decoded" /\ new[1].meta = m /\ new[1].comparable
        /\ new[1].succs = q /\ new[1].materialized = 0
    BY <1>7, <1>14 DEF IsBlock
  <2>2. \A i \in 2..(1 + K) : /\ new[i].class = "direct" /\ new[i].meta = (n - 1) + i /\ new[i].succs = << >>
                              /\ new[i].materialized = 0 /\ (n - 1) + i \in ToSet(q)
    BY <1>16 DEF IsBlock
  <2>3. Len(new) >= 1 /\ Len(new) = 1 + K
    BY <1>14
  <2>4. \A i \in 1..Len(new) : new[i].class # "freed" /\ new[i].materialized = 0
    BY <1>18, <2>1, <2>2, <2>3
  <2>5. \A s \in ToSet(new[1].succs) : \E i \in 2..Len(new) : s = (n - 1) + i
    BY <1>17, <2>1, <2>3
  <2>6. \A i \in 2..Len(new) :
          /\ new[i].class \in {"direct", "cached", "native"} /\ new[i].meta \in {0, (n - 1) + i}
          /\ new[i].succs = << >> /\ (n - 1) + i \in ToSet(new[1].succs)
    BY <2>1, <2>2, <2>3
  <2> QED
    BY <1>14, <2>1, <2>3, <2>4, <2>5, <2>6 DEF NewShape
<1>20. NewAdapts(new, n) /\ NewDecoded(new)
  BY <1>7, <1>14 DEF NewAdapts, NewDecoded, IsBlock
<1> QED
  BY <1>15, <1>19, <1>20 DEF NewOK
-----------------------------------------------------------------------------
(* MaterializeBlock.                                                       *)

LEMMA MaxMin ==
  ASSUME NEW L \in Nat, NEW T \in SUBSET (1..L), T # {}
  PROVE  Max(T) \in T /\ Min(T) \in T
<1>1. PICK a \in T : \A x \in T : a <= x
  BY LeastNumber
<1>2. PICK z \in T : \A x \in T : z >= x
  <2>1. PICK U : U = {k \in Nat : \E x \in T : k = L - x}
    OBVIOUS
  <2>2. \A x \in T : L - x \in U /\ x \in 1..L
    BY <2>1
  <2>3. PICK k \in U : \A j \in U : k <= j
    BY <2>1, <2>2, LeastNumber
  <2>4. PICK z \in T : k = L - z
    BY <2>1
  <2>5. \A x \in T : z >= x
    BY <2>2, <2>3, <2>4
  <2> QED
    BY <2>5
<1> QED
  BY <1>1, <1>2 DEF Max, Min

\* What the search in the trace finds, and when it finds something.
LEMMA SearchIs ==
  ASSUME FactoryInv, NEW b \in Known
  PROVE  /\ MaterializeFromTrace(b) # 0 =>
              /\ MaterializeFromTrace(b) \in Known /\ ~IsDirect(MaterializeFromTrace(b))
              /\ block[MaterializeFromTrace(b)].comparable
         /\ \A c \in Known : /\ block[c].class = "decoded" /\ block[c].pc = block[b].pc
                             /\ status[block[b].pc].trace # "reject"
                             => MaterializeFromTrace(b) # 0
<1>1. PICK L \in Nat : L = Len(blocks) /\ DOMAIN blocks = 1..L
  BY DEF FactoryInv, FactoryTypes
<1>2. \A i \in 1..L : blocks[i] \in Known
  BY <1>1, Elements DEF FactoryInv, FactoryTypes, Known
<1>3. \A c \in Known : \E i \in 1..L : c = blocks[i]
  BY <1>1, Elements DEF FactoryInv, FactoryTypes, Known
<1>4. PICK cand : cand = [i \in 1..L |-> IF IsDirect(blocks[i]) THEN block[blocks[i]].materialized ELSE blocks[i]]
  OBVIOUS
<1> DEFINE Match(c) == /\ c # 0 /\ block[c].class \in {"decoded", "compensation", "cached"}
                       /\ block[c].comparable /\ block[c].pc = block[b].pc
<1>5. PICK found : found = {i \in 1..L : Match(cand[i])}
  OBVIOUS
<1>6. MaterializeFromTrace(b) =
        IF status[block[b].pc].trace = "reject" \/ found = {} THEN 0
        ELSE cand[IF status[block[b].pc].trace = "accept" THEN Max(found) ELSE Min(found)]
  BY <1>1, <1>4, <1>5 DEF MaterializeFromTrace, Search
<1>7. ASSUME NEW i \in 1..L, cand[i] # 0 PROVE cand[i] \in Known
  BY <1>2, <1>4, <1>7 DEF FactoryInv, EdgesInv
<1>8. ASSUME found # {} PROVE Max(found) \in found /\ Min(found) \in found
  BY <1>5, <1>8, MaxMin
<1>9. ASSUME NEW i \in found PROVE i \in 1..L /\ Match(cand[i])
  BY <1>5
<1>10. ASSUME MaterializeFromTrace(b) # 0
       PROVE  /\ MaterializeFromTrace(b) \in Known /\ ~IsDirect(MaterializeFromTrace(b))
              /\ block[MaterializeFromTrace(b)].comparable
  <2>1. PICK i \in found : MaterializeFromTrace(b) = cand[i]
    BY <1>6, <1>8, <1>10
  <2> QED
    BY <1>7, <1>9, <2>1 DEF IsDirect
<1>11. ASSUME NEW c \in Known, block[c].class = "decoded", block[c].pc = block[b].pc,
              status[block[b].pc].trace # "reject"
       PROVE  MaterializeFromTrace(b) # 0
  <2>1. PICK i \in 1..L : c = blocks[i]
    BY <1>3
  <2>2. cand[i] = c
    BY <1>4, <1>11, <2>1 DEF IsDirect
  <2>3. c # 0 /\ block[c].comparable
    BY <1>11, BlockTypes DEF FactoryInv, DecodedInv
  <2>4. i \in found
    BY <1>5, <1>11, <2>2, <2>3
  <2> QED
    BY <1>6, <1>8, <1>9, <1>11, <2>4
<1> QED
  BY <1>10, <1>11

\* What becomes of a direct block.
LEMMA OutcomeIs ==
  ASSUME FactoryInv, NEW b \in Known, CanMaterializeBlock(b), NEW out, out = Outcome(b)
  PROVE  \/ out.by = 0 /\ out.new = << >>
         \/ out.new = << >> /\ out.by \in Known /\ ~IsDirect(out.by) /\ block[out.by].comparable
         \/ out.by = Len(block) + 1 /\ NewOK(out.new, Len(block) + 1, block[b].meta)
<1>1. PICK n \in Nat : n = Len(block) + 1
  BY BlockTypes DEF FactoryInv
<1>2. block[b] \in BlockRecord
  BY BlockTypes DEF FactoryInv
<1>3. PICK m \in Nat, pc \in PC, st \in Strategy : m = block[b].meta /\ pc = block[b].pc /\ st = block[b].strategy
  BY <1>2 DEF BlockRecord
<1>4. generation \in Nat /\ st # Later /\ st # InFuture
  BY <1>3 DEF FactoryInv, FactoryTypes, CanMaterializeBlock
<1>5. PICK request : request = IF pc \in NativePC THEN ExecuteNatively ELSE st
  OBVIOUS
<1>6. PICK indexed : indexed = IF request \in {FromIndexOrTrace, FromIndexOrTraceOnly}
                               THEN RequestIndexedBlock(pc, m, n) ELSE << >>
  OBVIOUS
<1>7. PICK existing : existing = IF request \in {FromIndexOrTrace, FromIndexOrTraceOnly, FromTrace}
                                 THEN MaterializeFromTrace(b) ELSE 0
  OBVIOUS
<1>8. out = IF request = ExecuteNatively
            THEN [new |-> <<NewBlock("native", pc, 0, << >>)>>, by |-> n]
            ELSE IF indexed # << >> THEN [new |-> indexed, by |-> n]
            ELSE IF existing # 0 /\ status[pc].trace = "accept" THEN [new |-> << >>, by |-> existing]
            ELSE IF existing # 0 THEN [new |-> <<AdaptToBlock(pc, m, existing)>>, by |-> n]
            ELSE IF request = FromIndexOrTraceOnly THEN [new |-> << >>, by |-> 0]
            ELSE [new |-> DecodeInstructionList(pc, m, n, request), by |-> n]
  BY <1>1, <1>3, <1>5, <1>6, <1>7 DEF Outcome
<1>9. existing # 0 => existing \in Known /\ ~IsDirect(existing) /\ block[existing].comparable
  BY <1>7, SearchIs
<1>10. CASE request = ExecuteNatively
  <2>1. PICK new : new = <<NewBlock("native", pc, 0, << >>)>>
    OBVIOUS
  <2>2. NewOK(new, n, m)
    BY <1>4, <2>1, NativeIsNew
  <2>3. out = [new |-> new, by |-> n]
    BY <1>8, <1>10, <2>1
  <2> QED
    BY <1>1, <1>3, <2>2, <2>3
<1>11. CASE request # ExecuteNatively /\ indexed # << >>
  <2>1. indexed = RequestIndexedBlock(pc, m, n)
    BY <1>6, <1>11
  <2>2. NewOK(indexed, n, m)
    BY <1>4, <1>11, <2>1, IndexedIsNew
  <2> QED
    BY <1>1, <1>3, <1>8, <1>11, <2>2
<1>12. CASE request # ExecuteNatively /\ indexed = << >> /\ existing # 0
  <2>1. CASE status[pc].trace = "accept"
    BY <1>8, <1>9, <1>12, <2>1
  <2>2. CASE status[pc].trace # "accept"
    <3>1. existing \in Nat
      BY <1>9, <1>12, BlockTypes DEF FactoryInv
    <3>2. NewOK(<<AdaptToBlock(pc, m, existing)>>, n, m)
      BY <1>4, <1>9, <1>12, <3>1, AdaptIsNew
    <3> QED
      BY <1>1, <1>3, <1>8, <1>12, <2>2, <3>2
  <2> QED
    BY <2>1, <2>2
<1>13. CASE request # ExecuteNatively /\ indexed = << >> /\ existing = 0
  <2>1. CASE request = FromIndexOrTraceOnly
    BY <1>8, <1>13, <2>1
  <2>2. CASE request # FromIndexOrTraceOnly
    <3>1. request \in Strategy /\ request = st
      BY <1>5, <1>13
    <3>2. request \in {FromIndexOrTrace, FromTrace, DecodeNow}
      BY <1>4, <1>13, <2>2, <3>1 DEF Strategy, ToolStrategy
    <3>3. ASSUME NEW c \in Known, block[c].class = "decoded", block[c].pc = pc, request # DecodeNow
          PROVE  status[block[c].pc].trace = "reject"
      <4>1. MaterializeFromTrace(b) = 0
        BY <1>7, <1>13, <3>2, <3>3
      <4> QED
        BY <1>3, <3>3, <4>1, SearchIs
    <3>4. NewOK(DecodeInstructionList(pc, m, n, request), n, m)
      BY <1>4, <3>1, <3>3, DecodeIsNew
    <3> QED
      BY <1>1, <1>3, <1>8, <1>13, <2>2, <3>4
  <2> QED
    BY <2>1, <2>2
<1> QED
  BY <1>10, <1>11, <1>12, <1>13

LEMMA MaterializeBlockStep == ASSUME FactoryInv, MaterializeBlock PROVE FactoryInv'
<1>1. /\ phase = "materialize" /\ phase' = "materialize" /\ cursor' = cursor + 1
      /\ UNCHANGED <<status, generation>> /\ cursor <= Len(blocks)
  BY DEF MaterializeBlock
<1>2. cursor \in Nat /\ cursor > 0 /\ cursor' \in Nat /\ cursor' > 0 /\ generation' \in Nat
  BY <1>1 DEF FactoryInv, FactoryTypes
<1>3. PICK b : b = blocks[cursor]
  OBVIOUS
<1>4. b \in Known
  <2>1. blocks \in Seq(1..Len(block))
    BY DEF FactoryInv, FactoryTypes
  <2>2. cursor \in 1..Len(blocks)
    BY <1>1, <1>2, <2>1
  <2> QED
    BY <1>3, <2>1, <2>2, Elements DEF Known
<1>5. CASE ~CanMaterializeBlock(b)
  <2>1. UNCHANGED <<block, blocks, changed, allocated>>
    BY <1>3, <1>5 DEF MaterializeBlock
  <2> QED
    BY <1>1, <1>2, <2>1, Restrategy DEF FactoryInv, FactoryTypes
<1>6. CASE CanMaterializeBlock(b)
  <2>1. PICK out : out = Outcome(b)
    OBVIOUS
  <2>2. /\ block' = Materialized(b, out) \o out.new
        /\ blocks' = blocks \o [i \in DOMAIN out.new |-> Len(block) + i]
        /\ changed' = (changed \/ out.by # 0)
        /\ allocated' = Metas(out.new) \cup IF out.by = 0 THEN allocated ELSE allocated \ {block[b].meta}
    BY <1>3, <1>6, <2>1 DEF MaterializeBlock
  <2>3. PICK new, by : new = out.new /\ by = out.by
    OBVIOUS
  <2>4. \/ by = 0 /\ new = << >>
        \/ new = << >> /\ by \in Known /\ ~IsDirect(by) /\ block[by].comparable
        \/ by = Len(block) + 1 /\ NewOK(new, Len(block) + 1, block[b].meta)
    BY <1>4, <1>6, <2>1, <2>3, OutcomeIs
  <2>5. PICK L \in Nat : L = Len(block) /\ b \in 1..L /\ DOMAIN block = 1..L
    BY <1>4, BlockTypes DEF FactoryInv
  <2>6. new \in Seq(BlockRecord)
    <3>1. << >> \in Seq(BlockRecord)
      OBVIOUS
    <3>2. NewOK(new, Len(block) + 1, block[b].meta) => new \in Seq(BlockRecord)
      BY DEF NewOK, NewShape
    <3> QED
      BY <2>4, <3>1, <3>2
  <2>7. PICK K \in Nat : K = Len(new) /\ DOMAIN new = 1..K
    BY <2>6
  <2>8. PICK blk : blk = Materialized(b, out)
    OBVIOUS
  <2>9. PICK d : d = [block[b] EXCEPT !.strategy = InFuture, !.materialized = by,
                                      !.meta = IF by = 0 THEN block[b].meta ELSE 0]
    OBVIOUS
  <2>10. blk = [block EXCEPT ![b] = d]
    <3>1. block[b] \in BlockRecord
      BY <2>5, BlockTypes DEF FactoryInv
    <3> QED
      BY <2>3, <2>5, <2>8, <2>9, <3>1 DEF Materialized, BlockRecord
  <2>11. by \in Nat
    BY <2>4, <2>5, BlockTypes DEF FactoryInv
  <2>12. d \in BlockRecord /\ InFuture \in Strategy
    <3>1. block[b] \in BlockRecord /\ InFuture \in Strategy
      BY <2>5, BlockTypes DEF FactoryInv, Strategy, ToolStrategy
    <3> QED
      BY <2>9, <2>11, <3>1 DEF BlockRecord
  <2>13. /\ blk \in Seq(BlockRecord) /\ Len(blk) = L /\ blk[b] = d
         /\ \A c \in 1..L : c # b => blk[c] = block[c]
    <3>1. block \in Seq(BlockRecord)
      BY DEF FactoryInv, FactoryTypes
    <3> QED
      BY <2>5, <2>10, <2>12, <3>1
  <2>14. block' \in Seq(BlockRecord) /\ IsConcat(block', blk, new)
    BY <2>2, <2>3, <2>6, <2>8, <2>13, ConcatIs
  <2>15. /\ Len(block') = L + K /\ block'[b] = d
         /\ \A c \in 1..L : c # b => block'[c] = block[c]
         /\ \A i \in 1..K : block'[L + i] = new[i]
    BY <2>5, <2>7, <2>13, <2>14 DEF IsConcat
  <2>16. PICK q : q = [i \in 1..K |-> L + i]
    OBVIOUS
  <2>17. q \in Seq(1..(L + K)) /\ Len(q) = K
    <3>1. q \in [1..K -> 1..(L + K)]
      BY <2>16
    <3> QED
      BY <3>1, FunctionIsSeq
  <2>18. \A x : x \in ToSet(q) <=> \E i \in 1..K : x = L + i
    BY <2>16, <2>17 DEF ToSet
  <2>19. blocks \in Seq(1..(L + K))
    <3>1. blocks \in Seq(1..L)
      BY <2>5 DEF FactoryInv, FactoryTypes
    <3>2. \A j \in 1..Len(blocks) : blocks[j] \in 1..L
      BY <3>1
    <3>3. \A j \in 1..Len(blocks) : blocks[j] \in 1..(L + K)
      BY <3>2
    <3> QED
      BY <3>1, <3>3
  <2>20. blocks' \in Seq(1..(L + K)) /\ \A c : c \in Known' <=> c \in Known \/ \E i \in 1..K : c = L + i
    <3>1. blocks' = blocks \o q
      BY <2>2, <2>3, <2>5, <2>7, <2>16
    <3>2. blocks \o q \in Seq(1..(L + K)) /\ IsConcat(blocks \o q, blocks, q)
      BY <2>17, <2>19, ConcatIs
    <3> QED
      BY <2>18, <3>1, <3>2 DEF IsConcat, Known
  <2>21. CASE by = 0 /\ new = << >>
    <3>1. K = 0
      BY <2>7, <2>21
    <3>2. Known' = Known /\ blocks' = blocks
      <4>1. out.new = << >> /\ DOMAIN << >> = {}
        BY <2>3, <2>21
      <4>2. blocks' = blocks \o << >>
        BY <2>2, <2>3, <2>7, <2>16, <2>17, <3>1
      <4>3. blocks' = blocks
        BY <2>19, <4>2
      <4> QED
        BY <4>3 DEF Known
    <3>3. allocated' = allocated /\ changed' = changed
      <4>1. Metas(<< >>) = {}
        BY DEF Metas
      <4> QED
        BY <2>2, <2>3, <2>21, <4>1 DEF FactoryInv, FactoryTypes
    <3>4. SameButStrategy(d, block[b]) /\ IsDirect(b)
      <4>1. block[b] \in BlockRecord /\ block[b].materialized = 0 /\ IsDirect(b)
        BY <1>6, <2>5, BlockTypes DEF FactoryInv, CanMaterializeBlock
      <4> QED
        BY <2>9, <2>12, <2>21, <4>1 DEF SameButStrategy, BlockRecord
    <3>5. \A c \in 1..Len(block) :
            block'[c] = block[c] \/ (c \in Known /\ IsDirect(c) /\ SameButStrategy(block'[c], block[c]))
      BY <1>4, <2>5, <2>15, <3>4
    <3> QED
      BY <1>1, <1>2, <2>5, <2>14, <2>15, <3>1, <3>2, <3>3, <3>5, Restrategy DEF FactoryInv, FactoryTypes
  <2>22. CASE by # 0
    <3>1. Becoming(b, by, new)
      <4>1. d = [block[b] EXCEPT !.strategy = InFuture, !.materialized = by, !.meta = 0]
        BY <2>9, <2>22
      <4>2. block'[b] = [block[b] EXCEPT !.strategy = InFuture, !.materialized = by, !.meta = 0]
        BY <2>15, <4>1
      <4>3. allocated' = Metas(new) \cup (allocated \ {block[b].meta})
        BY <2>2, <2>3, <2>22
      <4>4. \/ new = << >> /\ by \in Known /\ ~IsDirect(by) /\ block[by].comparable
            \/ by = Len(block) + 1 /\ NewOK(new, Len(block) + 1, block[b].meta)
        BY <2>4, <2>22
      <4>5. /\ block' \in Seq(BlockRecord) /\ Len(block') = Len(block) + Len(new)
            /\ \A c \in 1..Len(block) : c # b => block'[c] = block[c]
            /\ \A i \in 1..Len(new) : block'[Len(block) + i] = new[i]
        BY <2>5, <2>7, <2>14, <2>15
      <4>6. /\ blocks' \in Seq(1..Len(block'))
            /\ \A c : c \in Known' <=> c \in Known \/ \E i \in 1..Len(new) : c = Len(block) + i
        BY <2>5, <2>7, <2>15, <2>20
      <4> QED
        BY <2>6, <4>2, <4>3, <4>4, <4>5, <4>6 DEF Becoming
    <3>2. IsDirect(b) /\ changed' = TRUE
      BY <1>6, <2>2, <2>3, <2>22 DEF CanMaterializeBlock, FactoryInv, FactoryTypes
    <3> QED
      BY <1>1, <1>2, <1>4, <3>1, <3>2, Becomes
  <2> QED
    BY <2>4, <2>21, <2>22
<1> QED
  BY <1>5, <1>6

-----------------------------------------------------------------------------
(* The other steps.                                                        *)

LEMMA EnterDirectStep == ASSUME FactoryInv, EnterDirect PROVE FactoryInv'
<1>1. PICK indexed, native_blocks, decoded :
        /\ indexed = RequestIndexedBlock(EntryPC, 1, 1)
        /\ native_blocks = <<AdaptToBlock(EntryPC, 1, 1 + 1), NewBlock("native", EntryPC, 0, << >>)>>
        /\ decoded = DecodeInstructionList(EntryPC, 1, 1, DecodeNow)
  OBVIOUS
<1>2. PICK made : made = IF indexed # << >> THEN indexed
                         ELSE IF EntryPC \in NativePC THEN native_blocks ELSE decoded
  OBVIOUS
<1>3. /\ phase = "enter" /\ AddEntryBlock(made) /\ allocated' = Metas(made)
      /\ phase' \in {"done", "tools"} /\ UNCHANGED <<status, cursor, changed>>
  <2>1. 1 + 1 = 2
    OBVIOUS
  <2> QED
    BY <1>1, <1>2, <2>1 DEF EnterDirect, loop
<1>4. generation \in Nat /\ EntryPC \in PC /\ DecodeNow \in Strategy
  BY ProgramAssumption DEF FactoryInv, FactoryTypes, Strategy, ToolStrategy
<1>5. indexed # << >> => NewOK(indexed, 1, 1)
  BY <1>1, <1>4, IndexedIsNew
<1>6. NewOK(native_blocks, 1, 1)
  BY <1>1, <1>4, AdaptBeforeIsNew
<1>7. NewOK(decoded, 1, 1)
  BY <1>1, <1>4, DecodeIsNew
<1>8. NewOK(made, 1, 1)
  BY <1>2, <1>5, <1>6, <1>7
<1> QED
  BY <1>3, <1>8, EntryBlocks

LEMMA EnterIndirectStep == ASSUME FactoryInv, EnterIndirect PROVE FactoryInv'
<1>1. PICK d : d = IF EntryPC \in NativePC THEN NewBlock("native", EntryPC, 0, << >>)
                   ELSE NewDirectBlock(EntryPC, 2, FromIndexOrTrace)
  OBVIOUS
<1>2. PICK c : c = [AdaptToBlock(EntryPC, 1, 2) EXCEPT !.comparable = FALSE]
  OBVIOUS
<1>3. /\ phase = "enter" /\ AddEntryBlock(<<c, d>>) /\ allocated' = {1} \cup Metas(<<d>>)
      /\ phase' \in {"tools", "entry_tools"} /\ UNCHANGED <<status, cursor, changed>>
  BY <1>1, <1>2 DEF EnterIndirect, loop
<1>4. /\ generation \in Nat /\ EntryPC \in PC /\ FromIndexOrTrace \in Strategy /\ << >> \in Seq(Nat)
      /\ "native" \in Class /\ "direct" \in Class /\ "compensation" \in Class
  BY ProgramAssumption DEF FactoryInv, FactoryTypes, Strategy, ToolStrategy, Class
<1>5. /\ d \in BlockRecord /\ d.class \in {"direct", "native"} /\ d.materialized = 0
      /\ d.meta \in {0, 2} /\ d.succs = << >> /\ d.comparable
  <2>1. CASE EntryPC \in NativePC
    <3>1. IsBlock(NewBlock("native", EntryPC, 0, << >>), "native", EntryPC, 0, << >>)
      BY <1>4, NewBlockIs
    <3>2. IsBlock(d, "native", EntryPC, 0, << >>)
      BY <1>1, <2>1, <3>1
    <3> QED
      BY <3>2 DEF IsBlock
  <2>2. CASE EntryPC \notin NativePC
    <3>1. IsBlock(NewBlock("direct", EntryPC, 2, << >>), "direct", EntryPC, 2, << >>)
      BY <1>4, NewBlockIs
    <3>2. d = [NewBlock("direct", EntryPC, 2, << >>) EXCEPT !.strategy = FromIndexOrTrace]
      BY <1>1, <2>2 DEF NewDirectBlock
    <3> QED
      BY <1>4, <3>1, <3>2 DEF IsBlock, BlockRecord
  <2> QED
    BY <2>1, <2>2
<1>6. /\ c \in BlockRecord /\ c.class = "compensation" /\ c.materialized = 0 /\ c.meta = 1
      /\ ~c.comparable /\ c.succs = <<2>>
  <2>0. <<2>> \in Seq(Nat)
    OBVIOUS
  <2>1. PICK q \in Seq(Nat) : q = <<2>>
    BY <2>0
  <2>2. IsBlock(NewBlock("compensation", EntryPC, 1, q), "compensation", EntryPC, 1, q)
    BY <1>4, NewBlockIs
  <2>3. c = [NewBlock("compensation", EntryPC, 1, q) EXCEPT !.comparable = FALSE]
    BY <1>2, <2>1 DEF AdaptToBlock
  <2> QED
    BY <2>1, <2>2, <2>3 DEF IsBlock, BlockRecord
<1>7. NewOK(<<c, d>>, 1, 1)
  <2>1. 1 + 1 = 2
    OBVIOUS
  <2> QED
    BY <1>5, <1>6, <2>1, TwoNewBlocks
<1>8. Metas(<<c, d>>) = {1} \cup Metas(<<d>>)
  <2>1. DOMAIN <<c, d>> = {1, 2} /\ DOMAIN <<d>> = {1}
    OBVIOUS
  <2> QED
    BY <1>6, <2>1 DEF Metas
<1> QED
  BY <1>3, <1>7, <1>8, EntryBlocks

LEMMA RequestIs ==
  ASSUME NEW b, block[b] \in BlockRecord, NEW st \in Strategy
  PROVE  SameButStrategy(Request(b, st), block[b])
<1>1. PICK old \in Strategy : old = block[b].strategy
  BY DEF BlockRecord
<1>2. Strategy \subseteq Nat
  BY DEF Strategy, ToolStrategy, FromIndexOrTrace, FromTrace, DecodeNow, ExecuteNatively, InFuture, Later,
         FromIndexOrTraceOnly
<1>3. Max({old, st}) \in {old, st}
  <2>1. old >= st \/ st >= old
    BY <1>2
  <2>2. \E x \in {old, st} : \A y \in {old, st} : x >= y
    BY <1>2, <2>1
  <2> QED
    BY <2>2 DEF Max
<1>4. PICK larger \in Strategy : larger = Max({old, st})
  BY <1>3
<1>5. Request(b, st) = [block[b] EXCEPT !.strategy = larger]
  BY <1>1, <1>4 DEF Request
<1> QED
  BY <1>5 DEF SameButStrategy, BlockRecord

LEMMA RequestBlockStep ==
  ASSUME FactoryInv, NEW b \in Known, NEW st \in ToolStrategy, RequestBlock(b, st)
  PROVE  FactoryInv'
<1>1. block \in Seq(BlockRecord) /\ b \in 1..Len(block) /\ block[b] \in BlockRecord
  BY BlockTypes DEF FactoryInv, FactoryTypes
<1>2. PICK d : d = Request(b, st)
  OBVIOUS
<1>3. SameButStrategy(d, block[b]) /\ d \in BlockRecord
  BY <1>1, <1>2, RequestIs DEF Strategy, SameButStrategy
<1>4. /\ block' = [block EXCEPT ![b] = d] /\ IsDirect(b) /\ phase \in {"tools", "entry_tools"}
      /\ UNCHANGED <<status, blocks, allocated, generation, cursor, changed, phase>>
  BY <1>2 DEF RequestBlock, loop
<1>5. /\ block' \in Seq(BlockRecord) /\ Len(block') = Len(block)
      /\ \A c \in 1..Len(block) :
           block'[c] = block[c] \/ (c \in Known /\ IsDirect(c) /\ SameButStrategy(block'[c], block[c]))
  BY <1>1, <1>3, <1>4
<1> QED
  BY <1>4, <1>5, Restrategy DEF FactoryInv, FactoryTypes

LEMMA FinalizedIs ==
  ASSUME FactoryInv
  PROVE  /\ Finalized \in Seq(BlockRecord) /\ Len(Finalized) = Len(block)
         /\ \A c \in 1..Len(block) : \/ Finalized[c] = block[c]
                                     \/ c \in Known /\ IsDirect(c) /\ SameButStrategy(Finalized[c], block[c])
<1>1. /\ Len(block) \in Nat /\ DOMAIN block = 1..Len(block)
      /\ \A b \in 1..Len(block) : block[b] \in BlockRecord
  BY BlockTypes DEF FactoryInv
<1>2. PICK f : f = Finalized
  OBVIOUS
<1>3. f = [b \in 1..Len(block) |-> IF b \in Known /\ IsDirect(b) THEN Request(b, FromIndexOrTraceOnly) ELSE block[b]]
  BY <1>1, <1>2 DEF Finalized, Known
<1>4. \A b \in 1..Len(block) : SameButStrategy(Request(b, FromIndexOrTraceOnly), block[b])
  BY <1>1, RequestIs DEF Strategy
<1>5. f \in [1..Len(block) -> BlockRecord]
  BY <1>1, <1>3, <1>4 DEF SameButStrategy
<1>6. f \in Seq(BlockRecord) /\ Len(f) = Len(block)
  BY <1>1, <1>5, FunctionIsSeq
<1> QED
  BY <1>2, <1>3, <1>4, <1>6

\* MaterializeRequestedBlocks begins, after requests have been added or not.
LEMMA BeginStep ==
  ASSUME FactoryInv, phase \notin {"enter", "materialize"}, NEW twice, BeginMaterialize(twice),
         block' = block \/ block' = Finalized, UNCHANGED <<status, blocks, allocated, generation>>
  PROVE  FactoryInv'
<1>1. phase' = "materialize" /\ cursor' = 1 /\ changed' = FALSE
  BY DEF BeginMaterialize
<1>2. /\ block' \in Seq(BlockRecord) /\ Len(block') = Len(block)
      /\ \A c \in 1..Len(block) :
           block'[c] = block[c] \/ (c \in Known /\ IsDirect(c) /\ SameButStrategy(block'[c], block[c]))
  BY FinalizedIs DEF FactoryInv, FactoryTypes
<1>3. /\ generation' \in Nat /\ cursor' \in Nat /\ cursor' > 0
      /\ phase # "enter" /\ phase' # "enter" /\ phase # "materialize"
  BY <1>1 DEF FactoryInv, FactoryTypes
<1>4. changed' \in BOOLEAN
  BY <1>1
<1> QED
  BY <1>2, <1>3, <1>4, Restrategy

LEMMA EndMaterializeStep == ASSUME FactoryInv, EndMaterialize PROVE FactoryInv'
<1>1. /\ phase = "materialize" /\ phase' \in {"again", "tools"} /\ generation' = generation + 1
      /\ UNCHANGED <<status, cursor, changed>>
  BY DEF EndMaterialize, loop
<1>2. generation' \in Nat /\ cursor' \in Nat /\ changed' \in BOOLEAN
  BY <1>1 DEF FactoryInv, FactoryTypes
<1>3. CASE changed
  <2>1. RemoveUnreachableBlocks(RelinkCFIs)
    BY <1>3 DEF EndMaterialize
  <2>2. PICK blk : blk = RelinkCFIs
    OBVIOUS
  <2>3. Relinked(blk) /\ RemoveUnreachableBlocks(blk)
    BY <1>1, <2>1, <2>2, RelinkCFIsIs
  <2> QED
    BY <1>1, <1>2, <2>3, Removes
<1>4. CASE ~changed
  <2>1. UNCHANGED <<block, blocks, allocated>>
    BY <1>4 DEF EndMaterialize
  <2> QED
    BY <1>1, <1>2, <1>4, <2>1, Restrategy DEF FactoryInv, FactoryTypes
<1> QED
  BY <1>3, <1>4

LEMMA FinishStep == ASSUME FactoryInv, Finish PROVE FactoryInv'
<1>1. /\ phase = "finish" /\ phase' = "done" /\ RemoveUnreachableBlocks(block)
      /\ UNCHANGED <<status, generation, cursor, changed>>
  BY DEF Finish, loop
<1>2. generation' \in Nat /\ cursor' \in Nat /\ changed' \in BOOLEAN
  BY <1>1 DEF FactoryInv, FactoryTypes
<1>3. PICK blk : blk = block
  OBVIOUS
<1>4. Relinked(blk) /\ RemoveUnreachableBlocks(blk)
  BY <1>1, <1>3, NothingToRelink
<1> QED
  BY <1>1, <1>2, <1>4, Removes

LEMMA EndInstrumentControlFlowStep == ASSUME FactoryInv, EndInstrumentControlFlow PROVE FactoryInv'
<1>1. /\ phase = "tools" /\ phase' = "finish"
      /\ UNCHANGED <<status, block, blocks, allocated, generation, cursor, changed>>
  BY DEF EndInstrumentControlFlow, trace, loop
<1> QED
  BY <1>1, Restrategy DEF FactoryInv, FactoryTypes

LEMMA FactoryInit == ASSUME Init PROVE FactoryInv
<1>1. /\ block = << >> /\ blocks = << >> /\ phase = "enter" /\ generation = 0 /\ cursor = 0 /\ changed = FALSE
      /\ allocated = {1}
      /\ status \in [PC -> [index : {"none", "accept", "adapt"}, trace : {"accept", "adapt", "reject"}]]
  BY DEF Init
<1>2. Known = {} /\ 1..Len(block) = {}
  BY <1>1 DEF Known, ToSet
<1>3. FactoryTypes
  <2>1. << >> \in Seq(BlockRecord) /\ << >> \in Seq(1..Len(<< >>))
    OBVIOUS
  <2>2. block \in Seq(BlockRecord) /\ blocks \in Seq(1..Len(block))
    BY <1>1, <2>1
  <2>3. generation \in Nat /\ cursor \in Nat /\ allocated \in SUBSET Nat
    BY <1>1
  <2>4. changed \in BOOLEAN
    BY <1>1
  <2> QED
    BY <1>1, <2>2, <2>3, <2>4 DEF FactoryTypes
<1>4. ReachInv /\ EdgesInv /\ DecodedInv /\ MetaInv /\ AdaptInv
  BY <1>1, <1>2 DEF ReachInv, EdgesInv, DecodedInv, MetaInv, AdaptInv
<1> QED
  BY <1>3, <1>4 DEF FactoryInv

LEMMA FactoryStep == ASSUME FactoryInv, [Next]_vars PROVE FactoryInv'
<1>1. CASE EnterDirect
  BY <1>1, EnterDirectStep
<1>2. CASE EnterIndirect
  BY <1>2, EnterIndirectStep
<1>3. CASE EndEntryTools
  BY <1>3, BeginStep DEF EndEntryTools
<1>4. CASE EndInstrumentControlFlow
  BY <1>4, EndInstrumentControlFlowStep
<1>5. CASE FinalizeControlFlow
  BY <1>5, BeginStep DEF FinalizeControlFlow
<1>6. CASE ContinueControlFlow
  BY <1>6, BeginStep DEF ContinueControlFlow
<1>7. CASE MaterializeBlock
  BY <1>7, MaterializeBlockStep
<1>8. CASE EndMaterialize
  BY <1>8, EndMaterializeStep
<1>9. CASE MaterializeAgain
  BY <1>9, BeginStep DEF MaterializeAgain
<1>10. CASE Finish
  BY <1>10, FinishStep
<1>11. ASSUME NEW b \in ToSet(blocks), NEW st \in ToolStrategy, RequestBlock(b, st) PROVE FactoryInv'
  BY <1>11, RequestBlockStep DEF Known
<1>12. CASE UNCHANGED vars
  <2>1. UNCHANGED <<status, block, blocks, allocated, generation, cursor, changed, phase>>
    BY <1>12 DEF vars, trace, loop
  <2> QED
    BY <2>1 DEF FactoryInv, FactoryTypes, EdgesInv, ReachInv, DecodedInv, MetaInv, AdaptInv, Known, IsDirect
<1> QED
  BY <1>1, <1>2, <1>3, <1>4, <1>5, <1>6, <1>7, <1>8, <1>9, <1>10, <1>11, <1>12 DEF Next

\* The invariant of the block factory, for every program, every content of the index, any
\* requests of the tools and any limits (granary/cfg/factory.cc, granary/instrument.cc).
THEOREM FactoryHolds == Spec => []FactoryInv
<1>1. Init => FactoryInv
  BY FactoryInit
<1>2. FactoryInv /\ [Next]_vars => FactoryInv'
  BY FactoryStep
<1> QED
  BY <1>1, <1>2, PTL DEF Spec

\* Traces that tools look at and that are compiled are closed under their edges, have no
\* block that cannot be reached or is decoded twice without need, and each of their blocks
\* owns its meta-data (granary/cfg/factory.cc, trace.cc, block.cc).
THEOREM TraceSoundHolds == Spec => []TraceSound
<1>1. FactoryInv => TraceSound
  <2> SUFFICES ASSUME FactoryInv PROVE TraceSound
    OBVIOUS
  <2>1. MetaOwnedOnce
    BY DEF FactoryInv, MetaInv, MetaOwnedOnce, Known
  <2>2. ASSUME phase \in {"tools", "done"}, NEW b \in Known
        PROVE  /\ \A s \in ToSet(block[b].succs) : s \in Known /\ block[s].materialized = 0
               /\ b \in ToSet(Reached(block))
               /\ \A c \in Known :
                    (b < c /\ block[b].pc = block[c].pc /\ block[b].class = "decoded" /\ block[c].class = "decoded")
                      => block[c].strategy = DecodeNow \/ status[block[b].pc].trace = "reject"
    <3>1. \A s \in ToSet(block[b].succs) : s \in Known /\ block[s].materialized = 0
      BY <2>2 DEF FactoryInv, EdgesInv
    <3>2. b \in ToSet(Reached(block))
      BY <2>2 DEF FactoryInv, ReachInv
    <3> QED
      BY <3>1, <3>2 DEF FactoryInv, DecodedInv
  <2>3. TraceClosed
    BY <2>2 DEF TraceClosed, Known
  <2> QED
    BY <2>1, <2>3 DEF TraceSound
<1> QED
  BY <1>1, FactoryHolds, PTL

\* Compensation code leads to other code in the end: the blocks of a circle would be
\* comparable, and each of them older than the one that leads to it.
THEOREM CompensationEndsHolds == Spec => []CompensationEnds
<1>1. FactoryInv => CompensationEnds
  <2> SUFFICES ASSUME FactoryInv,
                      NEW circle \in SUBSET {b \in Known : block[b].class = "compensation"}, circle # {},
                      \A b \in circle : block[b].succs[1] \in circle
               PROVE  FALSE
    BY DEF CompensationEnds, Known
  <2>1. \A b \in circle : b \in Known /\ block[b].class = "compensation" /\ b \in Nat
    BY BlockTypes DEF FactoryInv
  <2>2. PICK all : all = {b \in circle : block[b].comparable}
    OBVIOUS
  <2>3. all # {}
    <3>1. PICK b \in circle : TRUE
      OBVIOUS
    <3>2. CASE ~block[b].comparable
      <4>1. b = 1 /\ block[b].succs[1] # 1
        BY <2>1, <3>2 DEF FactoryInv, AdaptInv
      <4>2. PICK s \in circle : s = block[b].succs[1]
        OBVIOUS
      <4>3. block[s].comparable
        BY <2>1, <4>1, <4>2 DEF FactoryInv, AdaptInv
      <4> QED
        BY <2>2, <4>3
    <3> QED
      BY <2>2, <3>2
  <2>4. PICK b \in all : \A c \in all : b <= c
    BY <2>1, <2>2, <2>3, LeastNumber
  <2>5. PICK s \in circle : s = block[b].succs[1]
    BY <2>2
  <2>6. block[s].comparable /\ s < b
    BY <2>1, <2>2, <2>5 DEF FactoryInv, AdaptInv
  <2> QED
    BY <2>1, <2>2, <2>4, <2>6
<1> QED
  BY <1>1, FactoryHolds, PTL

-----------------------------------------------------------------------------
(* Address ranges.                                                         *)

Span == [begin : Nat, end : Nat, offset : Nat]

\* A list of ranges that FindRange can search.
Sorted(q) ==
  /\ q \in Seq(Span)
  /\ \A k \in 1..Len(q) : q[k].begin < q[k].end
  /\ \A k, j \in 1..Len(q) : k < j => q[k].end <= q[j].begin

\* r is a part of s, at the same place in the file.
PartOf(r, s) ==
  /\ s.begin <= r.begin /\ r.end <= s.end
  /\ r.offset + s.begin = s.offset + r.begin

Apart(r, b, e) == r.end <= b \/ e <= r.begin

\* All ranges of q are parts of ranges of L, apart from b..e-1.
PartsApart(q, L, b, e) ==
  \A k \in 1..Len(q) : Apart(q[k], b, e) /\ \E j \in 1..Len(L) : PartOf(q[k], L[j])

\* The first of the numbers 1..n that is in T.
LEMMA FirstIn ==
  ASSUME NEW n \in Nat, NEW T
  PROVE  \E i \in 1..(n + 1) : (i <= n => i \in T) /\ \A j \in 1..(i - 1) : j \notin T
<1> DEFINE U == {i \in 1..(n + 1) : i <= n => i \in T}
<1>1. U \in SUBSET Nat /\ n + 1 \in U
  OBVIOUS
<1>2. PICK i \in U : \A m \in U : i <= m
  BY <1>1, LeastNumber
<1>3. \A j \in 1..(i - 1) : j \notin T
  BY <1>2
<1> QED
  BY <1>2, <1>3

StopOf(L, b, e) == Ranges!FirstIndex(L, LAMBDA r : ~(r.begin < e /\ r.end > b) /\ e < r.begin)
LEMMA StopIs ==
  ASSUME NEW L \in Seq(Span), NEW b, NEW e
  PROVE  StopOf(L, b, e) \in 1..(Len(L) + 1) /\ (StopOf(L, b, e) <= Len(L) => e < L[StopOf(L, b, e)].begin)
<1> DEFINE T == {j \in 1..Len(L) : ~(L[j].begin < e /\ L[j].end > b) /\ e < L[j].begin}
<1>0. Len(L) \in Nat
  OBVIOUS
<1>1. PICK i \in 1..(Len(L) + 1) : (i <= Len(L) => i \in T) /\ \A j \in 1..(i - 1) : j \notin T
  <2> HIDE DEF T
  <2> QED
    BY <1>0, FirstIn
<1>2. i <= Len(L) => ~(L[i].begin < e /\ L[i].end > b) /\ e < L[i].begin
  BY <1>1
<1>3. \A j \in 1..(i - 1) : ~(~(L[j].begin < e /\ L[j].end > b) /\ e < L[j].begin)
  <2>1. \A j \in 1..(i - 1) : j \in 1..Len(L)
    BY <1>1
  <2> QED
    BY <1>1, <2>1
<1> HIDE DEF T
<1> QED
  BY <1>1, <1>2, <1>3 DEF Ranges!FirstIndex, StopOf

SplitOf(L, b, e) == Ranges!FirstIndex(L, LAMBDA r : r.begin < b /\ e < r.end)
LEMMA SplitIs ==
  ASSUME NEW L \in Seq(Span), NEW b, NEW e
  PROVE  SplitOf(L, b, e) \in 1..(Len(L) + 1)
<1> DEFINE T == {j \in 1..Len(L) : L[j].begin < b /\ e < L[j].end}
<1>0. Len(L) \in Nat
  OBVIOUS
<1>1. PICK i \in 1..(Len(L) + 1) : (i <= Len(L) => i \in T) /\ \A j \in 1..(i - 1) : j \notin T
  <2> HIDE DEF T
  <2> QED
    BY <1>0, FirstIn
<1>2. i <= Len(L) => L[i].begin < b /\ e < L[i].end
  BY <1>1
<1>3. \A j \in 1..(i - 1) : ~(L[j].begin < b /\ e < L[j].end)
  <2>1. \A j \in 1..(i - 1) : j \in 1..Len(L)
    BY <1>1
  <2> QED
    BY <1>1, <2>1
<1> HIDE DEF T
<1> QED
  BY <1>1, <1>2, <1>3 DEF Ranges!FirstIndex, SplitOf

PlaceOf(L, b) == Ranges!FirstIndex(L, LAMBDA r : b < r.begin)
LEMMA PlaceIs ==
  ASSUME NEW L \in Seq(Span), NEW b \in Nat
  PROVE  /\ PlaceOf(L, b) \in 1..(Len(L) + 1) /\ (PlaceOf(L, b) <= Len(L) => b < L[PlaceOf(L, b)].begin)
         /\ \A j \in 1..(PlaceOf(L, b) - 1) : ~(b < L[j].begin)
<1> DEFINE T == {j \in 1..Len(L) : b < L[j].begin}
<1>0. Len(L) \in Nat
  OBVIOUS
<1>1. PICK i \in 1..(Len(L) + 1) : (i <= Len(L) => i \in T) /\ \A j \in 1..(i - 1) : j \notin T
  <2> HIDE DEF T
  <2> QED
    BY <1>0, FirstIn
<1>2. i <= Len(L) => b < L[i].begin
  BY <1>1
<1>3. \A j \in 1..(i - 1) : ~(b < L[j].begin)
  <2>1. \A j \in 1..(i - 1) : j \in 1..Len(L)
    BY <1>1
  <2> QED
    BY <1>1, <2>1
<1> HIDE DEF T
<1> QED
  BY <1>1, <1>2, <1>3 DEF Ranges!FirstIndex, PlaceOf

FoundOf(L, a) == Ranges!FirstIndex(L, LAMBDA r : a < r.end)
LEMMA FoundIs ==
  ASSUME NEW L \in Seq(Span), NEW a
  PROVE  FoundOf(L, a) \in 1..(Len(L) + 1) /\ (FoundOf(L, a) <= Len(L) => a < L[FoundOf(L, a)].end)
<1> DEFINE T == {j \in 1..Len(L) : a < L[j].end}
<1>0. Len(L) \in Nat
  OBVIOUS
<1>1. PICK i \in 1..(Len(L) + 1) : (i <= Len(L) => i \in T) /\ \A j \in 1..(i - 1) : j \notin T
  <2> HIDE DEF T
  <2> QED
    BY <1>0, FirstIn
<1>2. i <= Len(L) => a < L[i].end
  BY <1>1
<1>3. \A j \in 1..(i - 1) : ~(a < L[j].end)
  <2>1. \A j \in 1..(i - 1) : j \in 1..Len(L)
    BY <1>1
  <2> QED
    BY <1>1, <2>1
<1> HIDE DEF T
<1> QED
  BY <1>1, <1>2, <1>3 DEF Ranges!FirstIndex, FoundOf

Joined(c, q, w) ==
  /\ Sorted(c)
  /\ \A k \in 1..Len(c) : (\E i \in 1..Len(q) : c[k] = q[i]) \/ \E i \in 1..Len(w) : c[k] = w[i]

LEMMA SortedConcat ==
  ASSUME NEW q, NEW w, Sorted(q), Sorted(w),
         \A i \in 1..Len(q), j \in 1..Len(w) : q[i].end <= w[j].begin
  PROVE  Joined(q \o w, q, w)
<1>1. q \in Seq(Span) /\ w \in Seq(Span) /\ Len(q) \in Nat /\ Len(w) \in Nat
  BY DEF Sorted
<1>2. PICK c : c = q \o w
  OBVIOUS
<1>3. /\ c \in Seq(Span) /\ Len(c) = Len(q) + Len(w)
      /\ \A i \in 1..(Len(q) + Len(w)) : c[i] = IF i <= Len(q) THEN q[i] ELSE w[i - Len(q)]
  BY <1>1, <1>2, ConcatProperties
<1>4. ASSUME NEW k \in 1..Len(c)
      PROVE  \/ k <= Len(q) /\ k \in 1..Len(q) /\ c[k] = q[k]
             \/ k > Len(q) /\ k - Len(q) \in 1..Len(w) /\ c[k] = w[k - Len(q)]
  BY <1>1, <1>3
<1>5. \A k \in 1..Len(c) : c[k].begin < c[k].end
  BY <1>4 DEF Sorted
<1>6. ASSUME NEW k \in 1..Len(c), NEW j \in 1..Len(c), k < j PROVE c[k].end <= c[j].begin
  <2>1. CASE j <= Len(q)
    <3>1. k \in 1..Len(q) /\ c[k] = q[k] /\ j \in 1..Len(q) /\ c[j] = q[j]
      BY <1>1, <1>4, <1>6, <2>1
    <3> QED
      BY <1>6, <3>1 DEF Sorted
  <2>2. CASE j > Len(q) /\ k <= Len(q)
    <3>1. k \in 1..Len(q) /\ c[k] = q[k] /\ j - Len(q) \in 1..Len(w) /\ c[j] = w[j - Len(q)]
      BY <1>1, <1>4, <2>2
    <3> QED
      BY <3>1
  <2>3. CASE j > Len(q) /\ k > Len(q)
    <3>0. k - Len(q) \in 1..Len(w) /\ c[k] = w[k - Len(q)]
      BY <1>1, <1>4, <2>3
    <3>1. j - Len(q) \in 1..Len(w) /\ c[j] = w[j - Len(q)]
      BY <1>1, <1>4, <2>3
    <3>2. k - Len(q) < j - Len(q)
      BY <1>1, <1>6
    <3> QED
      BY <3>0, <3>1, <3>2 DEF Sorted
  <2> QED
    BY <1>1, <1>3, <2>1, <2>2, <2>3
<1>7. Sorted(c)
  BY <1>3, <1>5, <1>6 DEF Sorted
<1>8. \A k \in 1..Len(c) : (\E i \in 1..Len(q) : c[k] = q[i]) \/ \E i \in 1..Len(w) : c[k] = w[i]
  BY <1>4
<1> QED
  BY <1>2, <1>7, <1>8 DEF Joined

LEMMA OneSorted ==
  ASSUME NEW r \in Span, r.begin < r.end
  PROVE  Sorted(<<r>>) /\ Len(<<r>>) = 1 /\ <<r>>[1] = r
BY DEF Sorted

LEMMA NoneSorted == Sorted(<< >>) /\ Len(<< >>) = 0
BY DEF Sorted

\* What is left of a range.
LEMMA RestIs ==
  ASSUME NEW r \in Span, r.begin < r.end, NEW b \in Nat, NEW e \in Nat, b < e, r.begin < e, b < r.end
  PROVE  /\ Sorted(Ranges!Rest(r, b, e))
         /\ \A k \in 1..Len(Ranges!Rest(r, b, e)) :
              PartOf(Ranges!Rest(r, b, e)[k], r) /\ Apart(Ranges!Rest(r, b, e)[k], b, e)
<1>1. PICK u : u = IF r.begin < b THEN <<[r EXCEPT !.end = b]>> ELSE << >>
  OBVIOUS
<1>2. PICK v : v = IF e < r.end THEN <<[r EXCEPT !.begin = e, !.offset = @ + (e - r.begin)]>> ELSE << >>
  OBVIOUS
<1>3. Ranges!Rest(r, b, e) = u \o v
  BY <1>1, <1>2 DEF Ranges!Rest
<1>4. /\ Sorted(u) /\ Len(u) \in Nat
      /\ \A k \in 1..Len(u) : PartOf(u[k], r) /\ u[k].end = b
  <2>1. CASE r.begin < b
    <3>1. PICK p : p = [r EXCEPT !.end = b]
      OBVIOUS
    <3>2. p \in Span /\ p.begin = r.begin /\ p.end = b /\ p.offset = r.offset
      BY <3>1 DEF Span
    <3>3. u = <<p>>
      BY <1>1, <2>1, <3>1
    <3>4. Sorted(u) /\ Len(u) = 1 /\ u[1] = p
      BY <2>1, <3>2, <3>3, OneSorted
    <3>5. PartOf(p, r)
      BY <3>2 DEF PartOf, Span
    <3> QED
      BY <3>2, <3>4, <3>5
  <2>2. CASE ~(r.begin < b)
    BY <1>1, <2>2, NoneSorted
  <2> QED
    BY <2>1, <2>2
<1>5. /\ Sorted(v) /\ Len(v) \in Nat
      /\ \A k \in 1..Len(v) : PartOf(v[k], r) /\ v[k].begin = e
  <2>1. CASE e < r.end
    <3>1. PICK p : p = [r EXCEPT !.begin = e, !.offset = @ + (e - r.begin)]
      OBVIOUS
    <3>2. r.begin \in Nat /\ r.end \in Nat /\ r.offset \in Nat /\ e - r.begin \in Nat
      BY DEF Span
    <3>3. p.begin = e /\ p.end = r.end /\ p.offset = r.offset + (e - r.begin)
      BY <3>1 DEF Span
    <3>4. p \in Span
      <4>1. p = [begin |-> e, end |-> r.end, offset |-> r.offset + (e - r.begin)]
        BY <3>1 DEF Span
      <4>2. r.offset + (e - r.begin) \in Nat
        BY <3>2
      <4> QED
        BY <3>2, <4>1, <4>2 DEF Span
    <3>5. v = <<p>>
      BY <1>2, <2>1, <3>1
    <3>6. Sorted(v) /\ Len(v) = 1 /\ v[1] = p
      BY <2>1, <3>3, <3>4, <3>5, OneSorted
    <3>7. PartOf(p, r)
      BY <3>2, <3>3 DEF PartOf
    <3> QED
      BY <3>3, <3>6, <3>7
  <2>2. CASE ~(e < r.end)
    BY <1>2, <2>2, NoneSorted
  <2> QED
    BY <2>1, <2>2
<1>6. PICK w : w = u \o v
  OBVIOUS
<1>7. Joined(w, u, v)
  <2>1. \A i \in 1..Len(u), j \in 1..Len(v) : u[i].end <= v[j].begin
    BY <1>4, <1>5
  <2> QED
    <3>1. Sorted(u) /\ Sorted(v)
      BY <1>4, <1>5
    <3> QED
      BY <1>6, <2>1, <3>1, SortedConcat
<1>8. ASSUME NEW k \in 1..Len(w) PROVE PartOf(w[k], r) /\ Apart(w[k], b, e)
  <2>1. CASE \E i \in 1..Len(u) : w[k] = u[i]
    <3>1. PICK i \in 1..Len(u) : w[k] = u[i]
      BY <2>1
    <3>2. PartOf(u[i], r) /\ u[i].end = b
      BY <1>4
    <3> QED
      BY <3>1, <3>2 DEF Apart
  <2>2. CASE \E i \in 1..Len(v) : w[k] = v[i]
    <3>1. PICK i \in 1..Len(v) : w[k] = v[i]
      BY <2>2
    <3>2. PartOf(v[i], r) /\ v[i].begin = e
      BY <1>5
    <3> QED
      BY <3>1, <3>2 DEF Apart
  <2> QED
    BY <1>7, <2>1, <2>2, Zenon DEF Joined
<1>9. Sorted(w)
  BY <1>7 DEF Joined
<1> QED
  BY <1>3, <1>6, <1>8, <1>9

\* The parts of ranges of a sorted list, in turn, are sorted.
LEMMA JoinedParts ==
  ASSUME NEW L, Sorted(L), NEW b \in Nat, NEW e \in Nat, NEW m \in 0..Len(L),
         NEW left, NEW f,
         \A i \in 1..m : /\ Sorted(left[i])
                         /\ \A k \in 1..Len(left[i]) : PartOf(left[i][k], L[i]) /\ Apart(left[i][k], b, e),
         f[0] = << >>, \A i \in 1..m : f[i] = f[i - 1] \o left[i]
  PROVE  Sorted(f[m]) /\ PartsApart(f[m], L, b, e)
<1> DEFINE Good(i) == /\ Sorted(f[i])
                      /\ \A k \in 1..Len(f[i]) : /\ Apart(f[i][k], b, e)
                                                 /\ \E j \in 1..i : PartOf(f[i][k], L[j])
           U == {i \in Nat : i <= m => Good(i)}
<1>0. m \in Nat /\ Len(L) \in Nat /\ L \in Seq(Span)
  BY DEF Sorted
<1>1. 0 \in U
  BY NoneSorted
<1>2. ASSUME NEW i \in Nat, i \in U PROVE i + 1 \in U
  <2> HIDE DEF Good
  <2> SUFFICES ASSUME i + 1 <= m PROVE Good(i + 1)
    BY <1>0
  <2>0. i + 1 \in 1..m /\ (i + 1) - 1 = i /\ i + 1 \in 1..Len(L) /\ i <= m
    BY <1>0
  <2> USE DEF Good
  <2>1. Good(i) /\ i + 1 \in 1..m /\ (i + 1) - 1 = i /\ i + 1 \in 1..Len(L)
    <3> HIDE DEF Good
    <3> QED
      BY <1>2, <2>0
  <2>2. PICK q : q = f[i]
    OBVIOUS
  <2>3. PICK w : w = left[i + 1]
    OBVIOUS
  <2>4. f[i + 1] = q \o w
    BY <2>1, <2>2, <2>3
  <2>5. Sorted(w) /\ \A k \in 1..Len(w) : PartOf(w[k], L[i + 1]) /\ Apart(w[k], b, e)
    BY <2>1, <2>3
  <2>6. Sorted(q) /\ \A k \in 1..Len(q) : Apart(q[k], b, e) /\ \E j \in 1..i : PartOf(q[k], L[j])
    BY <2>1, <2>2
  <2>7. ASSUME NEW x \in 1..Len(q), NEW y \in 1..Len(w) PROVE q[x].end <= w[y].begin
    <3>1. PICK j \in 1..i : PartOf(q[x], L[j])
      BY <2>6
    <3>2. j \in 1..Len(L) /\ j < i + 1
      BY <1>0, <2>1
    <3>3. L[j].end <= L[i + 1].begin
      BY <2>1, <3>2 DEF Sorted
    <3>4. q[x] \in Span /\ w[y] \in Span /\ L[j] \in Span /\ L[i + 1] \in Span
      BY <1>0, <2>1, <2>5, <2>6, <3>2 DEF Sorted
    <3>5. q[x].end <= L[j].end /\ L[i + 1].begin <= w[y].begin
      BY <2>5, <3>1 DEF PartOf
    <3>6. q[x].end \in Nat /\ w[y].begin \in Nat /\ L[j].end \in Nat /\ L[i + 1].begin \in Nat
      BY <3>4 DEF Span
    <3>7. \A k, l, n, o \in Nat : k <= l /\ l <= n /\ n <= o => k <= o
      OBVIOUS
    <3> QED
      BY <3>3, <3>5, <3>6, <3>7, Zenon
  <2>8. PICK c : c = q \o w
    OBVIOUS
  <2>9. /\ Sorted(c)
        /\ \A k \in 1..Len(c) : \/ \E x \in 1..Len(q) : c[k] = q[x]
                                \/ \E x \in 1..Len(w) : c[k] = w[x]
    <3>1. Sorted(q) /\ Sorted(w)
      BY <2>5, <2>6
    <3>2. Joined(c, q, w)
      BY <2>7, <2>8, <3>1, SortedConcat
    <3> QED
      BY <3>2 DEF Joined
  <2>10. ASSUME NEW k \in 1..Len(c) PROVE Apart(c[k], b, e) /\ \E j \in 1..(i + 1) : PartOf(c[k], L[j])
    <3>1. CASE \E x \in 1..Len(q) : c[k] = q[x]
      <4>1. \A j \in 1..i : j \in 1..(i + 1)
        OBVIOUS
      <4> QED
        BY <2>6, <3>1, <4>1
    <3>2. CASE \E x \in 1..Len(w) : c[k] = w[x]
      <4>1. i + 1 \in 1..(i + 1)
        OBVIOUS
      <4> QED
        BY <2>5, <3>2, <4>1
    <3> QED
      BY <2>9, <3>1, <3>2
  <2> QED
    BY <2>4, <2>8, <2>9, <2>10
<1>3. Good(m)
  <2>1. m \in U
    <3> HIDE DEF U
    <3> QED
      BY <1>0, <1>1, <1>2, AllNumbers
  <2> QED
    BY <1>0, <2>1
<1>4. \A j \in 1..m : j \in 1..Len(L)
  BY <1>0
<1> QED
  BY <1>3, <1>4 DEF PartsApart

\* RemoveRangeConflicts leaves parts of the ranges, in order, and nothing in b..e-1.
LEMMA ConflictsRemoved ==
  ASSUME NEW L, Sorted(L), NEW b \in Nat, NEW e \in Nat, b < e
  PROVE  /\ Sorted(Ranges!RemoveRangeConflicts(L, b, e))
         /\ PartsApart(Ranges!RemoveRangeConflicts(L, b, e), L, b, e)
<1> DEFINE Overlaps(r) == r.begin < e /\ r.end > b
           halt == StopOf(L, b, e)
           split == SplitOf(L, b, e)
           M == IF split < halt THEN split ELSE Len(L)
           Left(i) == IF i < halt /\ Overlaps(L[i]) THEN Ranges!Rest(L[i], b, e) ELSE <<L[i]>>
           Eq(f) == f = [i \in 0..M |-> IF i = 0 THEN << >> ELSE f[i - 1] \o Left(i)]
           S == Seq(Span)
           step == [i \in Nat |-> [q \in S |-> IF i \in 1..M THEN q \o Left(i) ELSE q]]
<1>0. L \in Seq(Span) /\ Len(L) \in Nat
  BY DEF Sorted
<1>1. halt \in 1..(Len(L) + 1) /\ (halt <= Len(L) => e < L[halt].begin)
  BY <1>0, StopIs
<1>2. split \in 1..(Len(L) + 1)
  BY <1>0, SplitIs
<1>3. M \in 0..Len(L)
  <2> HIDE DEF halt, split
  <2> QED
    BY <1>0, <1>1, <1>2
<1> HIDE DEF halt, split, M
<1>4. ASSUME NEW i \in 1..M
      PROVE  /\ Sorted(Left(i)) /\ Left(i) \in S
             /\ \A k \in 1..Len(Left(i)) : PartOf(Left(i)[k], L[i]) /\ Apart(Left(i)[k], b, e)
  <2>1. i \in 1..Len(L) /\ L[i] \in Span /\ L[i].begin < L[i].end
    BY <1>0, <1>3 DEF Sorted
  <2>2. L[i].begin \in Nat /\ L[i].end \in Nat /\ L[i].offset \in Nat
    BY <2>1 DEF Span
  <2>3. CASE i < halt /\ Overlaps(L[i])
    <3>1. Left(i) = Ranges!Rest(L[i], b, e)
      BY <2>3
    <3>2. Sorted(Left(i)) /\ \A k \in 1..Len(Left(i)) : PartOf(Left(i)[k], L[i]) /\ Apart(Left(i)[k], b, e)
      BY <2>1, <2>2, <2>3, <3>1, RestIs
    <3> QED
      BY <3>2 DEF Sorted
  <2>4. CASE ~(i < halt /\ Overlaps(L[i]))
    <3>1. PICK w : w = <<L[i]>>
      OBVIOUS
    <3>2. Left(i) = w
      BY <2>4, <3>1
    <3>3. Sorted(w) /\ Len(w) = 1 /\ w[1] = L[i]
      BY <2>1, <3>1, OneSorted
    <3>4. PartOf(L[i], L[i])
      BY <2>2 DEF PartOf
    <3>5. Apart(L[i], b, e)
      <4>1. CASE i < halt
        BY <2>2, <2>4, <4>1 DEF Apart
      <4>2. CASE i >= halt
        <5>1. halt \in 1..Len(L) /\ e < L[halt].begin /\ L[halt] \in Span /\ L[halt].begin < L[halt].end
          BY <1>0, <1>1, <2>1, <4>2 DEF Sorted
        <5>2. L[halt].begin \in Nat /\ L[halt].end \in Nat
          BY <5>1 DEF Span
        <5>3. halt < i => L[halt].end <= L[i].begin
          BY <2>1, <5>1 DEF Sorted
        <5>4. halt < i \/ halt = i
          BY <2>1, <4>2, <5>1
        <5> QED
          BY <2>2, <5>1, <5>2, <5>3, <5>4 DEF Apart
      <4> QED
        BY <1>1, <2>1, <4>1, <4>2
    <3>6. \A k \in 1..Len(w) : PartOf(w[k], L[i]) /\ Apart(w[k], b, e)
      BY <3>3, <3>4, <3>5
    <3> QED
      BY <3>2, <3>3, <3>6 DEF Sorted
  <2> QED
    BY <2>3, <2>4
<1> HIDE DEF Left, S
<1>5. step \in [Nat -> [S -> S]]
  <2>1. ASSUME NEW n \in 1..M, NEW q \in S PROVE q \o Left(n) \in S
    BY <1>4, ConcatProperties DEF S
  <2> QED
    BY <2>1
<1>6. << >> \in S
  BY DEF S
<1>7. PICK g \in [0..M -> S] : g[0] = << >> /\ \A i \in 1..M : g[i] = step[i][g[i - 1]]
  <2> HIDE DEF step
  <2>1. \E g \in [0..M -> S] : IsRecursive(g, << >>, step, M)
    <3>1. M \in Nat
      BY <1>0, <1>3
    <3> QED
      BY <1>5, <1>6, <3>1, Recursion
  <2> QED
    BY <2>1 DEF IsRecursive
<1>8. Eq(g)
  <2>1. ASSUME NEW i \in 1..M PROVE g[i] = g[i - 1] \o Left(i)
    <3>1. i - 1 \in 0..M /\ g[i - 1] \in S /\ i \in Nat
      BY <1>3, <2>1
    <3> QED
      BY <1>7, <3>1
  <2>2. \A i \in 0..M : i # 0 => i \in 1..M
    BY <1>3
  <2> HIDE DEF step
  <2> QED
    BY <1>7, <2>1, <2>2
<1>9. PICK f : Eq(f) /\ Ranges!RemoveRangeConflicts(L, b, e) = f[M]
  <2>1. Ranges!RemoveRangeConflicts(L, b, e) = (CHOOSE f : Eq(f))[M]
    BY DEF Ranges!RemoveRangeConflicts, M, Left, halt, split, StopOf, SplitOf
  <2> HIDE DEF Eq
  <2> QED
    BY <1>8, <2>1
<1>10. f[0] = << >> /\ \A i \in 1..M : f[i] = f[i - 1] \o Left(i)
  <2>1. 0 \in 0..M /\ \A i \in 1..M : i \in 0..M /\ i # 0
    BY <1>3
  <2>2. \A i \in 0..M : f[i] = IF i = 0 THEN << >> ELSE f[i - 1] \o Left(i)
    BY <1>9
  <2> QED
    BY <2>1, <2>2
<1>11. PICK left : left = [i \in 1..M |-> Left(i)]
  OBVIOUS
<1>12. \A i \in 1..M : left[i] = Left(i)
  BY <1>11
<1>13. /\ \A i \in 1..M : /\ Sorted(left[i])
                          /\ \A k \in 1..Len(left[i]) : PartOf(left[i][k], L[i]) /\ Apart(left[i][k], b, e)
       /\ \A i \in 1..M : f[i] = f[i - 1] \o left[i]
  BY <1>4, <1>10, <1>12
<1>14. Sorted(f[M]) /\ PartsApart(f[M], L, b, e)
  BY <1>3, <1>10, <1>13, JoinedParts
<1> QED
  BY <1>9, <1>14

LEMMA SubSorted ==
  ASSUME NEW L, Sorted(L), NEW x \in 1..(Len(L) + 1), NEW y \in 0..Len(L)
  PROVE  /\ Sorted(SubSeq(L, x, y))
         /\ \A i \in 1..Len(SubSeq(L, x, y)) : x + i - 1 \in x..y /\ SubSeq(L, x, y)[i] = L[x + i - 1]
<1>1. PICK q : q = SubSeq(L, x, y)
  OBVIOUS
<1>2. L \in Seq(Span) /\ Len(L) \in Nat
  BY DEF Sorted
<1>3. /\ q \in Seq(Span) /\ Len(q) = IF x <= y THEN y - x + 1 ELSE 0
      /\ \A i \in 1..Len(q) : q[i] = L[x + i - 1]
  <2>1. \A i \in x..y : L[i] \in Span
    BY <1>2
  <2> QED
    BY <1>1, <1>2, <2>1, SubSeqProperties
<1>4. \A i \in 1..Len(q) : x + i - 1 \in x..y /\ x + i - 1 \in 1..Len(L)
  BY <1>2, <1>3
<1>5. \A i \in 1..Len(q) : q[i].begin < q[i].end
  BY <1>3, <1>4 DEF Sorted
<1>6. ASSUME NEW i \in 1..Len(q), NEW j \in 1..Len(q), i < j PROVE q[i].end <= q[j].begin
  <2>1. x + i - 1 < x + j - 1
    BY <1>2, <1>3, <1>6
  <2> QED
    BY <1>3, <1>4, <2>1 DEF Sorted
<1>7. Sorted(q)
  BY <1>3, <1>5, <1>6 DEF Sorted
<1> QED
  BY <1>1, <1>3, <1>4, <1>7

\* AddRangeNoConflict keeps the list sorted and adds the range.
LEMMA RangeAdded ==
  ASSUME NEW L, Sorted(L), NEW r \in Span, r.begin < r.end,
         \A k \in 1..Len(L) : Apart(L[k], r.begin, r.end)
  PROVE  /\ Sorted(Ranges!AddRangeNoConflict(L, r))
         /\ \A k \in 1..Len(Ranges!AddRangeNoConflict(L, r)) :
              \/ Ranges!AddRangeNoConflict(L, r)[k] = r
              \/ \E j \in 1..Len(L) : Ranges!AddRangeNoConflict(L, r)[k] = L[j]
<1>1. PICK p : p = PlaceOf(L, r.begin)
  OBVIOUS
<1>2. L \in Seq(Span) /\ Len(L) \in Nat /\ r.begin \in Nat /\ r.end \in Nat
  BY DEF Sorted, Span
<1>3. /\ p \in 1..(Len(L) + 1) /\ (p <= Len(L) => r.begin < L[p].begin)
      /\ \A j \in 1..(p - 1) : ~(r.begin < L[j].begin)
  BY <1>1, <1>2, PlaceIs
<1>4. PICK u : u = SubSeq(L, 1, p - 1)
  OBVIOUS
<1>5. PICK v : v = SubSeq(L, p, Len(L))
  OBVIOUS
<1>6. PICK w : w = <<r>>
  OBVIOUS
<1>7. Ranges!AddRangeNoConflict(L, r) = (u \o w) \o v
  BY <1>1, <1>4, <1>5, <1>6 DEF Ranges!AddRangeNoConflict, Ranges!InsertAt, PlaceOf
<1>8. Sorted(u) /\ \A i \in 1..Len(u) : 1 + i - 1 \in 1..(p - 1) /\ u[i] = L[1 + i - 1]
  <2>1. 1 \in 1..(Len(L) + 1) /\ p - 1 \in 0..Len(L)
    BY <1>2, <1>3
  <2> QED
    BY <1>4, <2>1, SubSorted
<1>9. Sorted(v) /\ \A i \in 1..Len(v) : p + i - 1 \in p..Len(L) /\ v[i] = L[p + i - 1]
  <2>1. Len(L) \in 0..Len(L)
    BY <1>2
  <2> QED
    BY <1>3, <1>5, <2>1, SubSorted
<1>10. Sorted(w) /\ Len(w) = 1 /\ w[1] = r
  BY <1>6, OneSorted
<1>11. ASSUME NEW k \in 1..Len(L)
       PROVE  /\ L[k] \in Span /\ L[k].begin \in Nat /\ L[k].end \in Nat /\ L[k].begin < L[k].end
              /\ k <= p - 1 => L[k].end <= r.begin
              /\ p <= k => r.end <= L[k].begin
  <2>1. L[k] \in Span /\ L[k].begin < L[k].end
    BY <1>2 DEF Sorted
  <2>2. L[k].begin \in Nat /\ L[k].end \in Nat
    BY <2>1 DEF Span
  <2>3. L[k].end <= r.begin \/ r.end <= L[k].begin
    BY DEF Apart
  <2>4. ASSUME k <= p - 1 PROVE L[k].end <= r.begin
    <3>1. k \in 1..(p - 1)
      BY <1>2, <1>3, <2>4
    <3>2. L[k].begin <= r.begin
      BY <1>2, <1>3, <2>2, <3>1
    <3> QED
      BY <1>2, <2>2, <2>3, <3>2
  <2>5. ASSUME p <= k PROVE r.end <= L[k].begin
    <3>1. p \in 1..Len(L) /\ r.begin < L[p].begin /\ L[p] \in Span /\ L[p].begin < L[p].end
      BY <1>2, <1>3, <2>5 DEF Sorted
    <3>2. L[p].begin \in Nat /\ L[p].end \in Nat
      BY <3>1 DEF Span
    <3>3. p < k => L[p].end <= L[k].begin
      BY <3>1 DEF Sorted
    <3>4. p < k \/ p = k
      BY <1>3, <2>5
    <3>5. r.begin < L[k].begin
      BY <1>2, <2>2, <3>1, <3>2, <3>3, <3>4
    <3> QED
      BY <1>2, <2>1, <2>2, <2>3, <3>5
  <2> QED
    BY <2>1, <2>2, <2>4, <2>5
<1>12. ASSUME NEW i \in 1..Len(u) PROVE \E j \in 1..Len(L) : j <= p - 1 /\ u[i] = L[j]
  <2>1. 1 + i - 1 \in 1..Len(L) /\ 1 + i - 1 <= p - 1
    BY <1>2, <1>3, <1>8
  <2> QED
    BY <1>8, <2>1
<1>13. ASSUME NEW i \in 1..Len(v) PROVE \E j \in 1..Len(L) : p <= j /\ v[i] = L[j]
  <2>1. p + i - 1 \in 1..Len(L) /\ p <= p + i - 1
    BY <1>2, <1>3, <1>9
  <2> QED
    BY <1>9, <2>1
<1>14. PICK c : c = u \o w
  OBVIOUS
<1>15. Joined(c, u, w)
  <2>1. \A i \in 1..Len(u), j \in 1..Len(w) : u[i].end <= w[j].begin
    BY <1>10, <1>11, <1>12
  <2> QED
    BY <1>8, <1>10, <1>14, <2>1, SortedConcat
<1>16. PICK d : d = c \o v
  OBVIOUS
<1>17. ASSUME NEW k \in 1..Len(c) PROVE c[k] = r \/ \E j \in 1..Len(L) : j <= p - 1 /\ c[k] = L[j]
  <2>1. (\E i \in 1..Len(u) : c[k] = u[i]) \/ \E i \in 1..Len(w) : c[k] = w[i]
    BY <1>15, Zenon DEF Joined
  <2> QED
    BY <1>10, <1>12, <2>1
<1>18. Joined(d, c, v)
  <2>1. ASSUME NEW i \in 1..Len(c), NEW j \in 1..Len(v) PROVE c[i].end <= v[j].begin
    <3>1. PICK n \in 1..Len(L) : p <= n /\ v[j] = L[n]
      BY <1>13
    <3>2. r.end <= L[n].begin /\ L[n].begin \in Nat
      BY <1>11, <3>1
    <3>3. CASE c[i] = r
      BY <3>1, <3>2, <3>3
    <3>4. CASE \E m \in 1..Len(L) : m <= p - 1 /\ c[i] = L[m]
      <4>1. PICK m \in 1..Len(L) : m <= p - 1 /\ c[i] = L[m]
        BY <3>4
      <4>2. L[m].end <= r.begin /\ L[m].end \in Nat
        BY <1>11, <4>1
      <4>3. \A k, l, o, x \in Nat : k <= l /\ l < o /\ o <= x => k <= x
        OBVIOUS
      <4>4. L[m].end <= L[n].begin
        BY <1>2, <3>2, <4>2, <4>3, Zenon
      <4> QED
        BY <3>1, <4>1, <4>4, Zenon
    <3> QED
      BY <1>17, <3>3, <3>4
  <2>2. Sorted(c) /\ Sorted(v)
    BY <1>9, <1>15 DEF Joined
  <2> QED
    BY <1>16, <2>1, <2>2, SortedConcat
<1>19. Sorted(d)
  BY <1>18 DEF Joined
<1>20. ASSUME NEW k \in 1..Len(d) PROVE d[k] = r \/ \E j \in 1..Len(L) : d[k] = L[j]
  <2>1. (\E i \in 1..Len(c) : d[k] = c[i]) \/ \E i \in 1..Len(v) : d[k] = v[i]
    BY <1>18, Zenon DEF Joined
  <2> QED
    BY <1>13, <1>17, <2>1
<1> QED
  BY <1>7, <1>14, <1>16, <1>19, <1>20

\* Every range of q says of its addresses what f does.
Agrees(q, f) ==
  \A k \in 1..Len(q), a \in Ranges!Addr :
    q[k].begin <= a /\ a < q[k].end => f[a] = q[k].offset + (a - q[k].begin)

LEMMA PartPlace ==
  ASSUME NEW a \in Nat, NEW x \in Nat, NEW y \in Nat, NEW z \in Nat,
         NEW u \in Nat, NEW v \in Nat, NEW w \in Nat,
         u <= x, y <= v, z + u = w + x, x <= a, a < y
  PROVE  u <= a /\ a < v /\ w + (a - u) = z + (a - x)
OBVIOUS

LEMMA PartsAgree ==
  ASSUME NEW L, Sorted(L), NEW f, Agrees(L, f), NEW q, Sorted(q), NEW b \in Nat, NEW e \in Nat,
         PartsApart(q, L, b, e), NEW g,
         \A a \in Ranges!Addr : a < b \/ e <= a => g[a] = f[a]
  PROVE  Agrees(q, g)
<1> SUFFICES ASSUME NEW k \in 1..Len(q), NEW a \in Ranges!Addr, q[k].begin <= a, a < q[k].end
             PROVE  g[a] = q[k].offset + (a - q[k].begin)
  BY DEF Agrees
<1>0. a \in Nat
  BY RangesAssumption DEF Ranges!Addr
<1>1. PICK j \in 1..Len(L) : PartOf(q[k], L[j])
  BY DEF PartsApart
<1>2. q[k] \in Span /\ L[j] \in Span
  BY DEF Sorted
<1>3. /\ q[k].begin \in Nat /\ q[k].end \in Nat /\ q[k].offset \in Nat
      /\ L[j].begin \in Nat /\ L[j].end \in Nat /\ L[j].offset \in Nat
  BY <1>2 DEF Span
<1>4. Apart(q[k], b, e)
  BY DEF PartsApart
<1>5. a < b \/ e <= a
  BY <1>0, <1>3, <1>4 DEF Apart
<1>6. /\ L[j].begin <= q[k].begin /\ q[k].end <= L[j].end
      /\ q[k].offset + L[j].begin = L[j].offset + q[k].begin
  BY <1>1 DEF PartOf
<1>7. /\ L[j].begin <= a /\ a < L[j].end
      /\ L[j].offset + (a - L[j].begin) = q[k].offset + (a - q[k].begin)
  <2>1. PICK x, y, z, u, v, w :
          /\ x = q[k].begin /\ y = q[k].end /\ z = q[k].offset
          /\ u = L[j].begin /\ v = L[j].end /\ w = L[j].offset
    OBVIOUS
  <2>2. /\ x \in Nat /\ y \in Nat /\ z \in Nat /\ u \in Nat /\ v \in Nat /\ w \in Nat
        /\ u <= x /\ y <= v /\ z + u = w + x /\ x <= a /\ a < y
    BY <1>3, <1>6, <2>1, Zenon
  <2>3. u <= a /\ a < v /\ w + (a - u) = z + (a - x)
    BY <1>0, <2>2, PartPlace, SMTT(30)
  <2> QED
    BY <2>1, <2>3, Zenon
<1>8. f[a] = L[j].offset + (a - L[j].begin)
  BY <1>7 DEF Agrees
<1> QED
  BY <1>5, <1>7, <1>8

RangesInv ==
  /\ modules \in Seq(Module)
  /\ ranges = [m \in Module |-> ranges[m]]
  /\ mapped = [m \in Module |-> mapped[m]]
  /\ \A m \in Module : Sorted(ranges[m]) /\ Agrees(ranges[m], mapped[m])
  /\ \A m \in Module : m \notin Ranges!ToSet(modules) => ranges[m] = << >>

LEMMA NoneAgrees == \A f : Agrees(<< >>, f)
BY NoneSorted DEF Agrees

LEMMA RangesInitInv == Ranges!Init => RangesInv
BY NoneSorted, NoneAgrees DEF Ranges!Init, RangesInv

\* RemoveRanges forgets the ranges of a module.
LEMMA RangesForgotten ==
  ASSUME RangesInv, NEW m \in Module, Ranges!RemoveRanges(m)
  PROVE  RangesInv'
<1>1. /\ modules' = modules
      /\ ranges' = [ranges EXCEPT ![m] = << >>]
      /\ mapped' = [mapped EXCEPT ![m] = [a \in Ranges!Addr |-> None]]
  BY DEF Ranges!RemoveRanges
<1>2. ASSUME NEW x \in Module
      PROVE  /\ Sorted(ranges'[x]) /\ Agrees(ranges'[x], mapped'[x])
             /\ x \notin Ranges!ToSet(modules') => ranges'[x] = << >>
  <2>1. CASE x = m
    BY <1>1, <2>1, NoneSorted, NoneAgrees DEF RangesInv
  <2>2. CASE x # m
    BY <1>1, <2>2 DEF RangesInv
  <2> QED
    BY <2>1, <2>2
<1>3. ranges' = [x \in Module |-> ranges'[x]] /\ mapped' = [x \in Module |-> mapped'[x]]
  BY <1>1 DEF RangesInv
<1> QED
  BY <1>1, <1>2, <1>3 DEF RangesInv

\* RemoveRange leaves the parts of the ranges that the mapped addresses are in.
LEMMA RangeRemoved ==
  ASSUME RangesInv, NEW b \in 0..(MaxAddr + 1), NEW e \in 0..(MaxAddr + 1), Ranges!RemoveRange(b, e)
  PROVE  RangesInv'
<1>0. b \in Nat /\ e \in Nat /\ b < e
  BY RangesAssumption DEF Ranges!RemoveRange
<1>1. /\ modules' = modules
      /\ ranges' = [m \in Module |->
           IF m \in Ranges!ToSet(modules) THEN Ranges!RemoveRangeConflicts(ranges[m], b, e) ELSE ranges[m]]
      /\ mapped' = [m \in Module |-> [a \in Ranges!Addr |->
           IF a \in b..(e - 1) THEN None ELSE mapped[m][a]]]
  BY Zenon DEF Ranges!RemoveRange
<1>2. ASSUME NEW x \in Module
      PROVE  /\ Sorted(ranges'[x]) /\ Agrees(ranges'[x], mapped'[x])
             /\ x \notin Ranges!ToSet(modules') => ranges'[x] = << >>
  <2>1. CASE x \in Ranges!ToSet(modules)
    <3>1. PICK L : L = ranges[x]
      OBVIOUS
    <3>2. PICK q : q = Ranges!RemoveRangeConflicts(L, b, e)
      OBVIOUS
    <3>3. PICK g : g = [a \in Ranges!Addr |-> IF a \in b..(e - 1) THEN None ELSE mapped[x][a]]
      OBVIOUS
    <3>4. ranges'[x] = q /\ mapped'[x] = g
      BY <1>1, <2>1, <3>1, <3>2, <3>3
    <3>5. Sorted(L) /\ Agrees(L, mapped[x])
      BY <3>1 DEF RangesInv
    <3>6. Sorted(q) /\ PartsApart(q, L, b, e)
      BY <1>0, <3>2, <3>5, ConflictsRemoved
    <3>7. \A a \in Ranges!Addr : a < b \/ e <= a => g[a] = mapped[x][a]
      BY <1>0, <3>3, RangesAssumption DEF Ranges!Addr
    <3>8. Agrees(q, g)
      BY <1>0, <3>5, <3>6, <3>7, PartsAgree
    <3> QED
      BY <1>1, <2>1, <3>4, <3>6, <3>8
  <2>2. CASE x \notin Ranges!ToSet(modules)
    BY <1>1, <2>2, NoneSorted, NoneAgrees DEF RangesInv
  <2> QED
    BY <2>1, <2>2
<1>3. ranges' = [x \in Module |-> ranges'[x]] /\ mapped' = [x \in Module |-> mapped'[x]]
  BY <1>1
<1> QED
  BY <1>1, <1>2, <1>3 DEF RangesInv

\* AddRange leaves the parts of the ranges apart from the new one, and the new one.
LEMMA NewRangeAdded ==
  ASSUME RangesInv, NEW b \in 0..(MaxAddr + 1), NEW e \in 0..(MaxAddr + 1),
         NEW m \in Module, NEW o \in Offset, Ranges!AddRange(m, b, e, o)
  PROVE  RangesInv'
<1>0. b \in Nat /\ e \in Nat /\ o \in Nat /\ b < e
  BY RangesAssumption DEF Ranges!AddRange
<1> DEFINE r == [begin |-> b, end |-> e, offset |-> o]
           q == Ranges!RemoveRangeConflicts(ranges[m], b, e)
           w == Ranges!AddRangeNoConflict(q, r)
           g == [a \in Ranges!Addr |-> IF a \in b..(e - 1) THEN o + (a - b) ELSE mapped[m][a]]
<1>1. /\ modules' = IF m \in Ranges!ToSet(modules) THEN modules ELSE <<m>> \o modules
      /\ ranges' = [ranges EXCEPT ![m] = w]
      /\ mapped' = [mapped EXCEPT ![m] = g]
  BY Zenon DEF Ranges!AddRange, RangesInv
<1>2. r \in Span /\ r.begin = b /\ r.end = e /\ r.offset = o
  BY <1>0 DEF Span
<1> HIDE DEF r
<1>3. Sorted(ranges[m]) /\ Agrees(ranges[m], mapped[m])
  BY DEF RangesInv
<1>4. Sorted(q) /\ PartsApart(q, ranges[m], b, e)
  BY <1>0, <1>3, ConflictsRemoved
<1>5. \A a \in Ranges!Addr : /\ a < b \/ e <= a => g[a] = mapped[m][a]
                             /\ b <= a /\ a < e => g[a] = o + (a - b)
  BY <1>0, RangesAssumption DEF Ranges!Addr
<1> HIDE DEF q, g
<1>6. Agrees(q, g)
  BY <1>0, <1>3, <1>4, <1>5, PartsAgree
<1>7. \A k \in 1..Len(q) : Apart(q[k], r.begin, r.end)
  BY <1>2, <1>4 DEF PartsApart
<1>8. /\ Sorted(w)
      /\ \A k \in 1..Len(w) : w[k] = r \/ \E j \in 1..Len(q) : w[k] = q[j]
  BY <1>0, <1>2, <1>4, <1>7, RangeAdded
<1> HIDE DEF w
<1>9. Agrees(w, g)
  <2> SUFFICES ASSUME NEW k \in 1..Len(w), NEW a \in Ranges!Addr, w[k].begin <= a, a < w[k].end
               PROVE  g[a] = w[k].offset + (a - w[k].begin)
    BY DEF Agrees
  <2>1. CASE w[k] = r
    BY <1>2, <1>5, <2>1
  <2>2. ASSUME NEW j \in 1..Len(q), w[k] = q[j] PROVE g[a] = w[k].offset + (a - w[k].begin)
    BY <1>6, <2>2 DEF Agrees
  <2> QED
    BY <1>8, <2>1, <2>2
<1>10. modules' \in Seq(Module) /\ m \in Ranges!ToSet(modules') /\ Ranges!ToSet(modules) \subseteq Ranges!ToSet(modules')
  <2>1. CASE m \in Ranges!ToSet(modules)
    BY <1>1, <2>1 DEF RangesInv
  <2>2. CASE m \notin Ranges!ToSet(modules)
    <3>1. PICK u : u = <<m>> \o modules
      OBVIOUS
    <3>2. modules \in Seq(Module) /\ Len(modules) \in Nat
      BY DEF RangesInv
    <3>3. /\ u \in Seq(Module) /\ Len(u) = Len(modules) + 1 /\ u[1] = m
          /\ \A i \in 1..Len(modules) : u[i + 1] = modules[i]
      BY <3>1, <3>2
    <3>4. m \in Ranges!ToSet(u)
      BY <3>2, <3>3 DEF Ranges!ToSet
    <3>5. \A i \in 1..Len(modules) : i + 1 \in 1..Len(u)
      BY <3>2, <3>3
    <3>6. Ranges!ToSet(modules) \subseteq Ranges!ToSet(u)
      <4> SUFFICES ASSUME NEW x \in Ranges!ToSet(modules) PROVE x \in Ranges!ToSet(u)
        OBVIOUS
      <4>1. PICK i \in 1..Len(modules) : x = modules[i]
        BY <3>2 DEF Ranges!ToSet
      <4>2. i + 1 \in DOMAIN u /\ u[i + 1] = x
        BY <3>3, <3>5, <4>1
      <4> QED
        BY <4>2, Zenon DEF Ranges!ToSet
    <3> QED
      BY <1>1, <2>2, <3>1, <3>3, <3>4, <3>6
  <2> QED
    BY <2>1, <2>2
<1>11. ASSUME NEW x \in Module
       PROVE  /\ Sorted(ranges'[x]) /\ Agrees(ranges'[x], mapped'[x])
              /\ x \notin Ranges!ToSet(modules') => ranges'[x] = << >>
  <2>1. CASE x = m
    <3>1. ranges'[x] = w /\ mapped'[x] = g
      BY <1>1, <2>1 DEF RangesInv
    <3> QED
      BY <1>8, <1>9, <1>10, <2>1, <3>1
  <2>2. CASE x # m
    <3>1. ranges'[x] = ranges[x] /\ mapped'[x] = mapped[x]
      BY <1>1, <2>2 DEF RangesInv
    <3> QED
      BY <1>10, <3>1 DEF RangesInv
  <2> QED
    BY <2>1, <2>2
<1>12. ranges' = [x \in Module |-> ranges'[x]] /\ mapped' = [x \in Module |-> mapped'[x]]
  BY <1>1 DEF RangesInv
<1> QED
  BY <1>10, <1>11, <1>12 DEF RangesInv

LEMMA RangesNextInv ==
  ASSUME RangesInv, [Ranges!Next]_(Ranges!vars)
  PROVE  RangesInv'
<1>1. CASE UNCHANGED Ranges!vars
  BY <1>1 DEF RangesInv, Ranges!vars
<1>2. ASSUME NEW b \in 0..(MaxAddr + 1), NEW e \in 0..(MaxAddr + 1),
             NEW m \in Module, NEW o \in Offset, Ranges!AddRange(m, b, e, o)
      PROVE  RangesInv'
  BY <1>2, NewRangeAdded
<1>3. ASSUME NEW b \in 0..(MaxAddr + 1), NEW e \in 0..(MaxAddr + 1), Ranges!RemoveRange(b, e)
      PROVE  RangesInv'
  BY <1>3, RangeRemoved
<1>4. ASSUME NEW m \in Module, Ranges!RemoveRanges(m) PROVE RangesInv'
  BY <1>4, RangesForgotten
<1> QED
  BY <1>1, <1>2, <1>3, <1>4 DEF Ranges!Next

LEMMA RangesInvOffsets == RangesInv => OffsetsRight
<1> SUFFICES ASSUME RangesInv, NEW m \in Module, NEW a \in Ranges!Addr,
                    Ranges!OffsetOfPC(ranges[m], a) # None
             PROVE  Ranges!OffsetOfPC(ranges[m], a) = mapped[m][a]
  BY DEF OffsetsRight, Ranges!OffsetsRight
<1>1. PICK L : L = ranges[m]
  OBVIOUS
<1>2. Sorted(L) /\ L \in Seq(Span) /\ Agrees(L, mapped[m])
  BY <1>1 DEF RangesInv, Sorted
<1>3. PICK i : i = FoundOf(L, a)
  OBVIOUS
<1>4. i \in 1..(Len(L) + 1) /\ (i <= Len(L) => a < L[i].end)
  BY <1>2, <1>3, FoundIs
<1>5. Ranges!FindRange(L, a) = IF i <= Len(L) /\ L[i].begin <= a THEN <<L[i]>> ELSE << >>
  BY <1>3 DEF Ranges!FindRange, FoundOf
<1>6. CASE i <= Len(L) /\ L[i].begin <= a
  <2>1. Ranges!FindRange(L, a) = <<L[i]>> /\ <<L[i]>> # << >> /\ <<L[i]>>[1] = L[i]
    BY <1>5, <1>6
  <2>2. Ranges!OffsetOfPC(L, a) = L[i].offset + (a - L[i].begin)
    BY <2>1 DEF Ranges!OffsetOfPC
  <2>3. i \in 1..Len(L)
    BY <1>2, <1>4, <1>6
  <2> QED
    BY <1>1, <1>2, <1>4, <1>6, <2>2, <2>3 DEF Agrees
<1>7. CASE ~(i <= Len(L) /\ L[i].begin <= a)
  BY <1>1, <1>5, <1>7 DEF Ranges!OffsetOfPC
<1> QED
  BY <1>6, <1>7

\* A lookup of an address in a module (os/module.cc, OffsetOfPC) never gives a
\* wrong offset: for any modules, addresses and offsets, if AddRange,
\* RemoveRange and RemoveRanges leave a range that has the address, then its
\* offset is the one that the address was last mapped to.  The list of a module
\* stays sorted and its ranges apart, though splitting a range loses the ranges
\* behind it.
THEOREM OffsetsRightHolds == Ranges!Spec => []OffsetsRight
<1>1. Ranges!Init => RangesInv
  BY RangesInitInv
<1>2. RangesInv /\ [Ranges!Next]_(Ranges!vars) => RangesInv'
  BY RangesNextInv
<1>3. RangesInv => OffsetsRight
  BY RangesInvOffsets
<1> QED
  BY <1>1, <1>2, <1>3, PTL DEF Ranges!Spec

=============================================================================
