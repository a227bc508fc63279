----------------------------- MODULE CallProofs -----------------------------
(***************************************************************************)
(* What holds of calls out of the code cache (ClientCalls) for any         *)
(* functions and arguments: the called function finds the values its       *)
(* caller meant, and the program finds its registers as it left them.      *)
(***************************************************************************)
EXTENDS MCSupport, FiniteSetTheorems, SequenceTheorems, WellFoundedInduction, TLAPS

-----------------------------------------------------------------------------
(* Calls out of the code cache.                                            *)

LEMMA TupleIsSequence ==
  ASSUME NEW f, NEW n \in Nat, f = [i \in 1..n |-> f[i]], NEW T, \A i \in 1..n : f[i] \in T
  PROVE  f \in Seq(T) /\ Len(f) = n
<1>1. f \in [1..n -> T]
  OBVIOUS
<1> QED
  BY <1>1

LEMMA GPRsAre ==
  /\ DOMAIN Calls!GPRs = 1..15 /\ Len(Calls!GPRs) = 15
  /\ \A i \in 1..15 : Calls!GPRs[i] \in Calls!AllGPRs
  /\ \A i, j \in 1..15 : Calls!GPRs[i] = Calls!GPRs[j] => i = j
  /\ \A r \in Calls!AllGPRs : \E i \in 1..15 : Calls!GPRs[i] = r
<1>1. DOMAIN Calls!GPRs = 1..15
  BY DEF Calls!GPRs
<1>2. \A i \in 1..15 : Calls!GPRs[i] \in Calls!AllGPRs
  BY <1>1 DEF Calls!AllGPRs, Calls!ToSet
<1>3. \A r \in Calls!AllGPRs : \E i \in 1..15 : Calls!GPRs[i] = r
  BY <1>1 DEF Calls!AllGPRs, Calls!ToSet
<1>4. \A i, j \in 1..15 : Calls!GPRs[i] = Calls!GPRs[j] => i = j
  BY DEF Calls!GPRs
<1>5. Len(Calls!GPRs) = 15
  BY DEF Calls!GPRs
<1> QED
  BY <1>1, <1>2, <1>3, <1>4, <1>5

LEMMA GPRsSequence == Calls!GPRs \in Seq(Calls!AllGPRs)
<1>1. Calls!GPRs = [i \in 1..15 |-> Calls!GPRs[i]]
  BY DEF Calls!GPRs
<1>2. \A i \in 1..15 : Calls!GPRs[i] \in Calls!AllGPRs
  BY GPRsAre
<1> QED
  BY <1>1, <1>2, TupleIsSequence

LEMMA ArgGPRsAre ==
  /\ DOMAIN Calls!ArgGPRs = 1..6 /\ Len(Calls!ArgGPRs) = 6
  /\ \A i \in 1..6 : Calls!ArgGPRs[i] \in Calls!AllGPRs
  /\ \A i, j \in 1..6 : Calls!ArgGPRs[i] = Calls!ArgGPRs[j] => i = j
<1>1. DOMAIN Calls!ArgGPRs = 1..6
  BY DEF Calls!ArgGPRs
<1>2. \A i \in 1..6 : \E j \in 1..15 : Calls!ArgGPRs[i] = Calls!GPRs[j]
  BY DEF Calls!ArgGPRs, Calls!GPRs
<1>3. \A i \in 1..6 : Calls!ArgGPRs[i] \in Calls!AllGPRs
  <2>1. \A j \in 1..15 : Calls!GPRs[j] \in Calls!AllGPRs
    BY GPRsAre
  <2> QED
    BY <1>2, <2>1
<1>4. \A i, j \in 1..6 : Calls!ArgGPRs[i] = Calls!ArgGPRs[j] => i = j
  BY DEF Calls!ArgGPRs
<1>5. Len(Calls!ArgGPRs) = 6
  BY DEF Calls!ArgGPRs
<1> QED
  BY <1>1, <1>3, <1>4, <1>5

\* Numbers of a finite set in their order.
RankOf(S, i) == Cardinality({j \in S : j < i})

LEMMA RanksApart ==
  ASSUME NEW S \in SUBSET Nat, IsFiniteSet(S), NEW i \in S
  PROVE  /\ RankOf(S, i) \in Nat /\ RankOf(S, i) < Cardinality(S)
         /\ \A j \in S : i < j => RankOf(S, i) < RankOf(S, j)
<1>1. ASSUME NEW T \in SUBSET S, NEW x \in T
      PROVE  {j \in S : j < x} \subseteq T => RankOf(S, x) \in Nat /\ Cardinality(T) \in Nat /\ RankOf(S, x) < Cardinality(T)
  <2> HAVE {j \in S : j < x} \subseteq T
  <2> DEFINE Lower == {j \in S : j < x}
  <2>1. IsFiniteSet(T)
    BY FS_Subset
  <2>2. Lower \in SUBSET T /\ x \notin Lower
    OBVIOUS
  <2>3. IsFiniteSet(Lower) /\ Cardinality(Lower) <= Cardinality(T) /\ (Cardinality(T) = Cardinality(Lower) => T = Lower)
    BY <2>1, <2>2, FS_Subset
  <2>4. Cardinality(Lower) \in Nat /\ Cardinality(T) \in Nat
    BY <2>1, <2>3, FS_CardinalityType
  <2>5. Cardinality(Lower) # Cardinality(T)
    BY <2>2, <2>3
  <2> HIDE DEF Lower
  <2>6. Cardinality(Lower) < Cardinality(T)
    BY <2>3, <2>4, <2>5
  <2> QED
    BY <2>4, <2>6 DEF Lower, RankOf
<1>2. RankOf(S, i) \in Nat /\ RankOf(S, i) < Cardinality(S)
  <2>1. S \in SUBSET S /\ {j \in S : j < i} \subseteq S
    OBVIOUS
  <2> QED
    BY <1>1, <2>1
<1>3. ASSUME NEW j \in S, i < j PROVE RankOf(S, i) < RankOf(S, j)
  <2>1. {l \in S : l < j} \in SUBSET S /\ i \in {l \in S : l < j}
    BY <1>3
  <2>2. \A l \in S : l < i => l < j
    <3>1. i \in Nat /\ j \in Nat /\ \A l \in S : l \in Nat
      OBVIOUS
    <3> QED
      BY <1>3, <3>1
  <2>3. {l \in S : l < i} \subseteq {l \in S : l < j}
    BY <2>2
  <2> QED
    BY <1>1, <2>1, <2>3 DEF RankOf
<1> QED
  BY <1>2, <1>3

LEMMA RanksAll ==
  ASSUME NEW S \in SUBSET Nat, IsFiniteSet(S)
  PROVE  /\ \A i, j \in S : RankOf(S, i) = RankOf(S, j) => i = j
         /\ \A k \in 1..Cardinality(S) : \E i \in S : RankOf(S, i) = k - 1
<1>0. Cardinality(S) \in Nat
  BY FS_CardinalityType
<1>1. ASSUME NEW i \in S, NEW j \in S, RankOf(S, i) = RankOf(S, j) PROVE i = j
  <2>1. i < j => RankOf(S, i) < RankOf(S, j)
    BY RanksApart
  <2>2. j < i => RankOf(S, j) < RankOf(S, i)
    BY RanksApart
  <2>3. RankOf(S, i) \in Nat /\ RankOf(S, j) \in Nat
    BY RanksApart
  <2>4. i \in Nat /\ j \in Nat
    OBVIOUS
  <2> QED
    BY <1>1, <2>1, <2>2, <2>3, <2>4
<1>2. ASSUME NEW k \in 1..Cardinality(S), \A i \in S : RankOf(S, i) # k - 1 PROVE FALSE
  <2>1. PICK m \in Nat : m = Cardinality(S)
    BY <1>0
  <2> DEFINE Room == (0..(m - 1)) \ {k - 1}
  <2>2. k \in 1..m /\ k - 1 \in 0..(m - 1)
    BY <2>1
  <2>3. IsFiniteSet(0..(m - 1)) /\ Cardinality(0..(m - 1)) = m
    BY <2>2, FS_Interval
  <2>4. IsFiniteSet(Room) /\ Cardinality(Room) = m - 1
    <3>1. PICK Span : Span = 0..(m - 1)
      OBVIOUS
    <3>2. IsFiniteSet(Span) /\ Cardinality(Span) = m /\ k - 1 \in Span
      BY <2>2, <2>3, <3>1
    <3>3. IsFiniteSet(Span \ {k - 1}) /\ Cardinality(Span \ {k - 1}) = m - 1
      BY <3>2, FS_RemoveElement
    <3> QED
      BY <3>1, <3>3
  <2> DEFINE f == [i \in S |-> RankOf(S, i)]
  <2>5. f \in [S -> Room]
    <3>1. \A i \in S : RankOf(S, i) \in 0..(m - 1)
      BY <2>1, RanksApart
    <3> QED
      BY <1>2, <3>1
  <2>6. Cardinality(Room) < Cardinality(S)
    BY <2>1, <2>4
  <2>7. \E x, y \in S : x # y /\ f[x] = f[y]
    <3> HIDE DEF f, Room
    <3> QED
      BY <2>4, <2>5, <2>6, FS_PigeonHole
  <2> QED
    BY <1>1, <2>7
<1> QED
  BY <1>1, <1>2

\* The registers that a wrapper saves: each once, and all that it has to.
IsSaved(s, n) ==
  /\ s \in Seq(Calls!AllGPRs)
  /\ \A a, b \in 1..Len(s) : s[a] = s[b] => a = b
  /\ \A r \in Calls!AllGPRs : Calls!Saves(r, n) <=> \E a \in 1..Len(s) : s[a] = r

LEMMA SavedIs == \A n : IsSaved(Calls!Saved(n), n)
<1> SUFFICES ASSUME NEW n PROVE IsSaved(Calls!Saved(n), n)
  OBVIOUS
<1> DEFINE S == {i \in DOMAIN Calls!GPRs : Calls!Saves(Calls!GPRs[i], n)}
<1> DEFINE Pl(k) == CHOOSE i \in S : RankOf(S, i) = k - 1
<1>1. S \in SUBSET (1..15) /\ S \in SUBSET Nat
  BY GPRsAre
<1>2. IsFiniteSet(S)
  <2>0. 1 \in Int /\ 15 \in Int
    OBVIOUS
  <2>1. IsFiniteSet(1..15)
    BY <2>0, FS_Interval, Zenon
  <2> QED
    BY <1>1, <2>1, FS_Subset
<1>3. Cardinality(S) \in Nat
  BY <1>2, FS_CardinalityType
<1>4. Calls!Saved(n) = [k \in 1..Cardinality(S) |-> Calls!GPRs[Pl(k)]]
  BY DEF Calls!Saved, RankOf, Calls!Cardinality, Cardinality
<1>5. /\ \A i, j \in S : RankOf(S, i) = RankOf(S, j) => i = j
      /\ \A k \in 1..Cardinality(S) : \E i \in S : RankOf(S, i) = k - 1
  <2> HIDE DEF S
  <2> QED
    BY <1>1, <1>2, RanksAll
<1>6. \A i \in S : RankOf(S, i) \in Nat /\ RankOf(S, i) < Cardinality(S)
  <2> HIDE DEF S
  <2> QED
    BY <1>1, <1>2, RanksApart
<1>7. \A i \in S : i \in 1..15 /\ Calls!Saves(Calls!GPRs[i], n)
  BY <1>1
<1>8. \A i \in 1..15 : Calls!Saves(Calls!GPRs[i], n) => i \in S
  BY GPRsAre
<1>9. PICK m \in Nat : m = Cardinality(S)
  BY <1>3
<1>10. \A k \in 1..m : Pl(k) \in S /\ RankOf(S, Pl(k)) = k - 1
  <2> HIDE DEF S
  <2> QED
    BY <1>5, <1>9
<1>11. \A i \in S : RankOf(S, i) + 1 \in 1..m /\ Pl(RankOf(S, i) + 1) = i
  <2> SUFFICES ASSUME NEW i \in S PROVE RankOf(S, i) + 1 \in 1..m /\ Pl(RankOf(S, i) + 1) = i
    OBVIOUS
  <2> HIDE DEF S
  <2>1. PICK q \in Nat : q = RankOf(S, i) /\ q < m
    BY <1>6, <1>9
  <2>2. q + 1 \in 1..m /\ (q + 1) - 1 = q
    BY <2>1
  <2>3. Pl(q + 1) \in S /\ RankOf(S, Pl(q + 1)) = q
    BY <1>10, <2>2
  <2>4. Pl(q + 1) = i
    <3> HIDE DEF Pl
    <3> QED
      BY <1>5, <2>1, <2>3
  <2> QED
    BY <2>1, <2>2, <2>4
<1> HIDE DEF S, Pl
<1>12. PICK s : s = Calls!Saved(n)
  OBVIOUS
<1>13. s = [k \in 1..m |-> Calls!GPRs[Pl(k)]]
  BY <1>4, <1>9, <1>12
<1>14. \A k \in 1..m : s[k] = Calls!GPRs[Pl(k)] /\ Pl(k) \in 1..15
  BY <1>7, <1>10, <1>13
<1>20. /\ \A i \in 1..15 : Calls!GPRs[i] \in Calls!AllGPRs
       /\ \A i, j \in 1..15 : Calls!GPRs[i] = Calls!GPRs[j] => i = j
  BY GPRsAre
<1>15. \A k \in 1..m : s[k] \in Calls!AllGPRs
  BY <1>14, <1>20
<1>16. s \in Seq(Calls!AllGPRs) /\ Len(s) = m
  BY <1>9, <1>13, <1>15
<1>17. ASSUME NEW a \in 1..m, NEW b \in 1..m, s[a] = s[b] PROVE a = b
  <2>1. Pl(a) = Pl(b)
    BY <1>14, <1>17, <1>20
  <2>2. a - 1 = b - 1
    BY <1>10, <2>1
  <2> QED
    BY <2>2
<1>18. ASSUME NEW r \in Calls!AllGPRs PROVE Calls!Saves(r, n) <=> \E a \in 1..m : s[a] = r
  <2>1. PICK i \in 1..15 : Calls!GPRs[i] = r
    BY GPRsAre
  <2>2. ASSUME Calls!Saves(r, n) PROVE \E a \in 1..m : s[a] = r
    <3>1. i \in S
      BY <1>8, <2>1, <2>2
    <3> QED
      BY <1>11, <1>14, <2>1, <3>1
  <2>3. ASSUME NEW a \in 1..m, s[a] = r PROVE Calls!Saves(r, n)
    BY <1>7, <1>10, <1>14, <2>3
  <2> QED
    BY <2>2, <2>3
<1>19. IsSaved(s, n)
  BY <1>16, <1>17, <1>18 DEF IsSaved
<1> QED
  BY <1>12, <1>19

\* Sequences of whatever elements.
IsList(f, n) == n \in Nat /\ f = [i \in 1..n |-> f[i]]

LEMMA ListLen ==
  ASSUME NEW f, NEW n, IsList(f, n)
  PROVE  /\ n \in Nat /\ Len(f) = n /\ DOMAIN f = 1..n
         /\ f = << >> <=> n = 0
         /\ \E T : f \in Seq(T)
<1>0. n \in Nat
  BY DEF IsList
<1>1. PICK T : T = {f[i] : i \in 1..n}
  OBVIOUS
<1>2. f \in [1..n -> T]
  BY <1>1 DEF IsList
<1>3. f \in Seq(T) /\ Len(f) = n /\ DOMAIN f = 1..n
  BY <1>0, <1>2
<1>4. f = << >> <=> n = 0
  BY <1>0, <1>3
<1> QED
  BY <1>0, <1>3, <1>4

LEMMA SequenceIsList ==
  ASSUME NEW T, NEW f \in Seq(T)
  PROVE  IsList(f, Len(f))
BY DEF IsList

LEMMA FunctionIsList ==
  ASSUME NEW f, NEW n \in Nat, DOMAIN f = 1..n, f = [i \in DOMAIN f |-> f[i]]
  PROVE  IsList(f, n)
BY DEF IsList

IsJoined(c, f, g, a, b) ==
  /\ IsList(c, a + b)
  /\ \A i \in 1..(a + b) : c[i] = IF i <= a THEN f[i] ELSE g[i - a]

LEMMA ListJoined ==
  ASSUME NEW f, NEW g, NEW a, NEW b, IsList(f, a), IsList(g, b)
  PROVE  IsJoined(f \o g, f, g, a, b)
<1>0. a \in Nat /\ b \in Nat
  BY DEF IsList
<1>1. PICK T : T = {f[i] : i \in 1..a} \cup {g[i] : i \in 1..b}
  OBVIOUS
<1>2. f \in [1..a -> T] /\ g \in [1..b -> T]
  BY <1>1 DEF IsList
<1>3. f \in Seq(T) /\ Len(f) = a /\ g \in Seq(T) /\ Len(g) = b
  BY <1>0, <1>2
<1>4. PICK c : c = f \o g
  OBVIOUS
<1>5. c \in Seq(T) /\ Len(c) = a + b
  <2>1. c \in Seq(T)
    BY <1>3, <1>4
  <2>2. Len(c) = Len(f) + Len(g)
    BY <1>3, <1>4, ConcatProperties
  <2> QED
    BY <1>3, <2>1, <2>2
<1>6. \A i \in 1..(a + b) : c[i] = IF i <= a THEN f[i] ELSE g[i - a]
  BY <1>0, <1>3, <1>4
<1>7. IsList(c, a + b)
  BY <1>5, SequenceIsList
<1> QED
  BY <1>4, <1>6, <1>7 DEF IsJoined

LEMMA ListTail ==
  ASSUME NEW f, NEW n, IsList(f, n), n # 0
  PROVE  /\ IsList(Tail(f), n - 1) /\ Head(f) = f[1] /\ f # << >>
         /\ \A i \in 1..(n - 1) : Tail(f)[i] = f[i + 1]
<1>0. n \in Nat
  BY DEF IsList
<1>1. PICK T : f \in Seq(T)
  BY ListLen
<1>2. Len(f) = n /\ f # << >>
  BY ListLen
<1>3. PICK c : c = Tail(f)
  OBVIOUS
<1>4. c \in Seq(T) /\ Len(c) = n - 1 /\ \A i \in 1..(n - 1) : c[i] = f[i + 1]
  BY <1>0, <1>1, <1>2, <1>3
<1>5. IsList(c, n - 1)
  BY <1>4, SequenceIsList
<1>6. Head(f) = f[1]
  BY <1>1, <1>2
<1> QED
  BY <1>2, <1>3, <1>4, <1>5, <1>6

LEMMA ListReversed ==
  ASSUME NEW f, NEW n, IsList(f, n)
  PROVE  IsList(Calls!Reverse(f), n) /\ \A i \in 1..n : Calls!Reverse(f)[i] = f[n + 1 - i]
<1>0. n \in Nat /\ Len(f) = n
  BY ListLen
<1>1. PICK c : c = Calls!Reverse(f)
  OBVIOUS
<1>2. c = [i \in 1..n |-> f[(n - i) + 1]]
  BY <1>0, <1>1 DEF Calls!Reverse
<1>3. IsList(c, n)
  BY <1>0, <1>2 DEF IsList
<1>4. \A i \in 1..n : c[i] = f[n + 1 - i]
  <2>1. \A i \in 1..n : (n - i) + 1 = n + 1 - i
    BY <1>0
  <2> QED
    BY <1>2, <2>1
<1> QED
  BY <1>1, <1>3, <1>4

LEMMA ListOfOne == \A x : IsList(<<x>>, 1) /\ <<x>>[1] = x
BY DEF IsList

LEMMA ListOfTwo == \A x, y : IsList(<<x, y>>, 2) /\ <<x, y>>[1] = x /\ <<x, y>>[2] = y
BY DEF IsList

\* The stack with one more element, which is on top.
HasOnTop(c, x, f, n) ==
  IsList(c, n + 1) /\ c[1] = x /\ \A i \in 1..n : c[i + 1] = f[i]

LEMMA ListPushed ==
  ASSUME NEW x, NEW f, NEW n, IsList(f, n)
  PROVE  HasOnTop(<<x>> \o f, x, f, n)
<1>0. n \in Nat
  BY DEF IsList
<1>1. PICK o : o = <<x>>
  OBVIOUS
<1>2. IsList(o, 1) /\ o[1] = x
  BY <1>1, ListOfOne
<1>4. PICK c : c = o \o f
  OBVIOUS
<1>3. IsJoined(c, o, f, 1, n)
  BY <1>2, <1>4, ListJoined
<1>5. 1 + n = n + 1 /\ 1 \in 1..(1 + n) /\ \A i \in 1..n : i + 1 \in 1..(1 + n) /\ ~(i + 1 <= 1) /\ (i + 1) - 1 = i
  BY <1>0
<1>6. c[1] = x
  BY <1>2, <1>3, <1>5 DEF IsJoined
<1>7. ASSUME NEW i \in 1..n PROVE c[i + 1] = f[i]
  BY <1>3, <1>5 DEF IsJoined
<1>8. IsList(c, n + 1)
  BY <1>3, <1>5 DEF IsJoined
<1>9. HasOnTop(c, x, f, n)
  BY <1>6, <1>7, <1>8 DEF HasOnTop
<1> QED
  BY <1>1, <1>4, <1>9

\* The parts of an operation.
LEMMA OpIs == \A x, y, z : Calls!Op(x, y, z).op = x /\ Calls!Op(x, y, z).reg = y /\ Calls!Op(x, y, z).n = z
BY DEF Calls!Op

\* What is executed for a call with n arguments: behind the wrapper, around it, and
\* the wrapper itself, which saves the registers of s.
RestoreOp(n, q) == Calls!Op("restore", Calls!ArgGPRs[n + 1 - q], n + 1 - q)

StartOp(n, q) ==
  IF q <= n THEN Calls!Op("save", Calls!ArgGPRs[q], q)
  ELSE IF q <= n + n THEN Calls!Op("copy", Calls!ArgGPRs[q - n], q - n)
  ELSE IF q <= n + n + n THEN Calls!Op("move", Calls!ArgGPRs[q - (n + n)], q - (n + n))
  ELSE IF q = n + n + n + 1 THEN Calls!Op("call", "", 0)
  ELSE RestoreOp(n, q - (n + n + n + 1))

WrapOp(s, m, mid, n, q) ==
  IF q = 1 THEN Calls!Op("pushfq", "", 0)
  ELSE IF q <= m + 1 THEN Calls!Op("push", s[q - 1], 0)
  ELSE IF q = m + 2 THEN Calls!Op(mid, "", 0)
  ELSE IF q <= m + m + 2 THEN Calls!Op("pop", s[m + m + 3 - q], 0)
  ELSE IF q = m + m + 3 THEN Calls!Op("popfq", "", 0)
  ELSE IF q = m + m + 4 THEN Calls!Op("ret", "", 0)
  ELSE RestoreOp(n, q - (m + m + 4))

\* What is left of it from the p-th operation on.
StartFrom(c, n, p) ==
  /\ IsList(c, n + n + n + n + 2 - p)
  /\ \A i \in 1..(n + n + n + n + 2 - p) : c[i] = StartOp(n, p + i - 1)

WrapFrom(c, s, m, mid, n, p) ==
  /\ IsList(c, m + m + n + 5 - p)
  /\ \A i \in 1..(m + m + n + 5 - p) : c[i] = WrapOp(s, m, mid, n, p + i - 1)

LEMMA StartGoesOn ==
  ASSUME NEW c, NEW n \in Nat, NEW p \in Nat, p <= n + n + n + n + 1, StartFrom(c, n, p)
  PROVE  StartFrom(Tail(c), n, p + 1) /\ Head(c) = StartOp(n, p) /\ c # << >>
<1>1. PICK q \in Nat : q = n + n + n + n + 2 - p /\ q # 0 /\ q - 1 = n + n + n + n + 2 - (p + 1)
  OBVIOUS
<1>2. IsList(c, q) /\ \A i \in 1..q : c[i] = StartOp(n, p + i - 1)
  BY <1>1 DEF StartFrom
<1>3. /\ IsList(Tail(c), q - 1) /\ Head(c) = c[1] /\ c # << >>
      /\ \A i \in 1..(q - 1) : Tail(c)[i] = c[i + 1]
  BY <1>1, <1>2, ListTail
<1>4. \A i \in 1..(q - 1) : i + 1 \in 1..q /\ p + (i + 1) - 1 = (p + 1) + i - 1
  BY <1>1
<1>5. \A i \in 1..(q - 1) : Tail(c)[i] = StartOp(n, (p + 1) + i - 1)
  BY <1>2, <1>3, <1>4
<1>6. 1 \in 1..q /\ p + 1 - 1 = p
  BY <1>1
<1>7. Head(c) = StartOp(n, p)
  BY <1>2, <1>3, <1>6
<1>8. StartFrom(Tail(c), n, p + 1)
  BY <1>1, <1>3, <1>5 DEF StartFrom
<1> QED
  BY <1>3, <1>7, <1>8

LEMMA WrapGoesOn ==
  ASSUME NEW c, NEW s, NEW m \in Nat, NEW mid, NEW n \in Nat, NEW p \in Nat, p <= m + m + n + 4,
         WrapFrom(c, s, m, mid, n, p)
  PROVE  WrapFrom(Tail(c), s, m, mid, n, p + 1) /\ Head(c) = WrapOp(s, m, mid, n, p) /\ c # << >>
<1>1. PICK q \in Nat : q = m + m + n + 5 - p /\ q # 0 /\ q - 1 = m + m + n + 5 - (p + 1)
  OBVIOUS
<1>2. IsList(c, q) /\ \A i \in 1..q : c[i] = WrapOp(s, m, mid, n, p + i - 1)
  BY <1>1 DEF WrapFrom
<1>3. /\ IsList(Tail(c), q - 1) /\ Head(c) = c[1] /\ c # << >>
      /\ \A i \in 1..(q - 1) : Tail(c)[i] = c[i + 1]
  BY <1>1, <1>2, ListTail
<1>4. \A i \in 1..(q - 1) : i + 1 \in 1..q /\ p + (i + 1) - 1 = (p + 1) + i - 1
  BY <1>1
<1>5. \A i \in 1..(q - 1) : Tail(c)[i] = WrapOp(s, m, mid, n, (p + 1) + i - 1)
  BY <1>2, <1>3, <1>4
<1>6. 1 \in 1..q /\ p + 1 - 1 = p
  BY <1>1
<1>7. Head(c) = WrapOp(s, m, mid, n, p)
  BY <1>2, <1>3, <1>6
<1>8. WrapFrom(Tail(c), s, m, mid, n, p + 1)
  BY <1>1, <1>3, <1>5 DEF WrapFrom
<1> QED
  BY <1>3, <1>7, <1>8

\* ExtendFragmentWithInlineCall.
EachOp(x, n) == [k \in 1..n |-> Calls!Op(x, Calls!ArgGPRs[k], k)]

LEMMA EachIsList ==
  ASSUME NEW x, NEW n \in Nat
  PROVE  IsList(EachOp(x, n), n) /\ \A k \in 1..n : EachOp(x, n)[k] = Calls!Op(x, Calls!ArgGPRs[k], k)
BY DEF IsList, EachOp

LEMMA InlineCallCodeIs ==
  ASSUME NEW args, NEW n \in Nat, DOMAIN args = 1..n
  PROVE  StartFrom(Calls!InlineCallCode(args), n, 1)
<1>1. PICK u : u = EachOp("save", n)
  OBVIOUS
<1>2. PICK v : v = EachOp("copy", n)
  OBVIOUS
<1>3. PICK w : w = EachOp("move", n)
  OBVIOUS
<1>4. PICK x : x = <<Calls!Op("call", "", 0)>>
  OBVIOUS
<1>5. PICK y : y = Calls!Reverse(EachOp("restore", n))
  OBVIOUS
<1>6. IsList(u, n) /\ \A k \in 1..n : u[k] = Calls!Op("save", Calls!ArgGPRs[k], k)
  BY <1>1, EachIsList
<1>7. IsList(v, n) /\ \A k \in 1..n : v[k] = Calls!Op("copy", Calls!ArgGPRs[k], k)
  BY <1>2, EachIsList
<1>8. IsList(w, n) /\ \A k \in 1..n : w[k] = Calls!Op("move", Calls!ArgGPRs[k], k)
  BY <1>3, EachIsList
<1>9. IsList(x, 1) /\ x[1] = Calls!Op("call", "", 0)
  BY <1>4, ListOfOne
<1>10. IsList(y, n) /\ \A k \in 1..n : y[k] = RestoreOp(n, k)
  <2>1. PICK e : e = EachOp("restore", n)
    OBVIOUS
  <2>2. IsList(e, n) /\ \A k \in 1..n : e[k] = Calls!Op("restore", Calls!ArgGPRs[k], k)
    BY <2>1, EachIsList
  <2>3. IsList(y, n) /\ \A k \in 1..n : y[k] = e[n + 1 - k]
    BY <1>5, <2>1, <2>2, ListReversed
  <2>4. \A k \in 1..n : n + 1 - k \in 1..n
    OBVIOUS
  <2> QED
    BY <2>2, <2>3, <2>4 DEF RestoreOp
<1>11. PICK c : c = u \o v
  OBVIOUS
<1>12. IsJoined(c, u, v, n, n)
  BY <1>6, <1>7, <1>11, ListJoined
<1>13. PICK d : d = c \o w
  OBVIOUS
<1>14. IsJoined(d, c, w, n + n, n)
  <2>1. IsList(c, n + n)
    BY <1>12 DEF IsJoined
  <2> QED
    BY <1>8, <1>13, <2>1, ListJoined
<1>15. PICK e : e = d \o x
  OBVIOUS
<1>16. IsJoined(e, d, x, n + n + n, 1)
  <2>1. IsList(d, n + n + n)
    BY <1>14 DEF IsJoined
  <2> QED
    BY <1>9, <1>15, <2>1, ListJoined
<1>17. PICK g : g = e \o y
  OBVIOUS
<1>18. IsJoined(g, e, y, n + n + n + 1, n)
  <2>1. IsList(e, n + n + n + 1)
    BY <1>16 DEF IsJoined
  <2> QED
    BY <1>10, <1>17, <2>1, ListJoined
<1>19. Calls!InlineCallCode(args) = g
  BY <1>1, <1>2, <1>3, <1>4, <1>5, <1>11, <1>13, <1>15, <1>17 DEF Calls!InlineCallCode, EachOp
<1>20. n + n + n + 1 + n = n + n + n + n + 2 - 1
  OBVIOUS
<1>21. ASSUME NEW i \in 1..(n + n + n + 1 + n) PROVE g[i] = StartOp(n, i)
  <2>1. g[i] = IF i <= n + n + n + 1 THEN e[i] ELSE y[i - (n + n + n + 1)]
    BY <1>18 DEF IsJoined
  <2>2. CASE i <= n
    <3>1. i \in 1..n /\ i \in 1..(n + n) /\ i \in 1..(n + n + n) /\ i \in 1..(n + n + n + 1) /\ i <= n + n + n + 1 /\ i <= n + n + n /\ i <= n + n
      BY <2>2
    <3>2. c[i] = u[i] /\ d[i] = c[i] /\ e[i] = d[i]
      BY <1>12, <1>14, <1>16, <2>2, <3>1 DEF IsJoined
    <3> QED
      BY <1>6, <2>1, <2>2, <3>1, <3>2 DEF StartOp
  <2>3. CASE n < i /\ i <= n + n
    <3>1. i - n \in 1..n /\ i \in 1..(n + n) /\ i \in 1..(n + n + n) /\ i \in 1..(n + n + n + 1) /\ i <= n + n + n + 1 /\ i <= n + n + n /\ i <= n + n /\ ~(i <= n)
      BY <2>3
    <3>2. c[i] = v[i - n] /\ d[i] = c[i] /\ e[i] = d[i]
      BY <1>12, <1>14, <1>16, <3>1 DEF IsJoined
    <3> QED
      BY <1>7, <2>1, <3>1, <3>2 DEF StartOp
  <2>4. CASE n + n < i /\ i <= n + n + n
    <3>1. i - (n + n) \in 1..n /\ i \in 1..(n + n + n) /\ i \in 1..(n + n + n + 1) /\ i <= n + n + n + 1 /\ i <= n + n + n /\ ~(i <= n + n) /\ ~(i <= n)
      BY <2>4
    <3>2. d[i] = w[i - (n + n)] /\ e[i] = d[i]
      BY <1>14, <1>16, <3>1 DEF IsJoined
    <3> QED
      BY <1>8, <2>1, <3>1, <3>2 DEF StartOp
  <2>5. CASE i = n + n + n + 1
    <3>1. i - (n + n + n) = 1 /\ i \in 1..(n + n + n + 1) /\ i <= n + n + n + 1 /\ ~(i <= n + n + n) /\ ~(i <= n + n) /\ ~(i <= n)
      BY <2>5
    <3>2. e[i] = x[1]
      BY <1>16, <3>1 DEF IsJoined
    <3> QED
      BY <1>9, <2>1, <2>5, <3>1, <3>2 DEF StartOp
  <2>6. CASE n + n + n + 1 < i
    <3>1. i - (n + n + n + 1) \in 1..n /\ ~(i <= n + n + n + 1) /\ i # n + n + n + 1 /\ ~(i <= n + n + n) /\ ~(i <= n + n) /\ ~(i <= n)
      BY <2>6
    <3> QED
      BY <1>10, <2>1, <3>1 DEF StartOp
  <2> QED
    BY <2>2, <2>3, <2>4, <2>5, <2>6
<1>22. IsList(g, n + n + n + 1 + n)
  BY <1>18 DEF IsJoined
<1>23. \A i \in 1..(n + n + n + 1 + n) : 1 + i - 1 = i
  OBVIOUS
<1>24. StartFrom(g, n, 1)
  BY <1>20, <1>21, <1>22, <1>23 DEF StartFrom
<1> QED
  BY <1>19, <1>24

\* Wrappers.
IsWrapper(c, s, m, mid) ==
  IsList(c, m + m + 4) /\ \A i \in 1..(m + m + 4) : c[i] = WrapOp(s, m, mid, 0, i)

WrapperOf(s, mid) ==
  <<Calls!Op("pushfq", "", 0)>> \o Calls!Push(s) \o <<Calls!Op(mid, "", 0)>>
    \o Calls!Pop(Calls!Reverse(s)) \o <<Calls!Op("popfq", "", 0), Calls!Op("ret", "", 0)>>

LEMMA WrapperIs ==
  ASSUME NEW s, NEW m, IsList(s, m), NEW mid
  PROVE  IsWrapper(WrapperOf(s, mid), s, m, mid)
<1>0. m \in Nat /\ DOMAIN s = 1..m
  BY ListLen
<1>1. PICK u : u = <<Calls!Op("pushfq", "", 0)>>
  OBVIOUS
<1>2. PICK v : v = Calls!Push(s)
  OBVIOUS
<1>3. PICK w : w = <<Calls!Op(mid, "", 0)>>
  OBVIOUS
<1>4. PICK x : x = Calls!Pop(Calls!Reverse(s))
  OBVIOUS
<1>5. PICK y : y = <<Calls!Op("popfq", "", 0), Calls!Op("ret", "", 0)>>
  OBVIOUS
<1>6. IsList(u, 1) /\ u[1] = Calls!Op("pushfq", "", 0)
  BY <1>1, ListOfOne
<1>7. IsList(v, m) /\ \A i \in 1..m : v[i] = Calls!Op("push", s[i], 0)
  <2>1. v = [i \in 1..m |-> Calls!Op("push", s[i], 0)]
    BY <1>0, <1>2 DEF Calls!Push
  <2> QED
    BY <1>0, <2>1 DEF IsList
<1>8. IsList(w, 1) /\ w[1] = Calls!Op(mid, "", 0)
  BY <1>3, ListOfOne
<1>9. IsList(x, m) /\ \A i \in 1..m : x[i] = Calls!Op("pop", s[m + 1 - i], 0)
  <2>1. PICK t : t = Calls!Reverse(s)
    OBVIOUS
  <2>2. IsList(t, m) /\ \A i \in 1..m : t[i] = s[m + 1 - i]
    BY <2>1, ListReversed
  <2>3. DOMAIN t = 1..m
    BY <2>2, ListLen
  <2>4. x = [i \in 1..m |-> Calls!Op("pop", t[i], 0)]
    BY <1>4, <2>1, <2>3 DEF Calls!Pop
  <2> QED
    BY <1>0, <2>2, <2>4 DEF IsList
<1>10. IsList(y, 2) /\ y[1] = Calls!Op("popfq", "", 0) /\ y[2] = Calls!Op("ret", "", 0)
  BY <1>5, ListOfTwo
<1>11. PICK c : c = u \o v
  OBVIOUS
<1>12. IsJoined(c, u, v, 1, m)
  BY <1>6, <1>7, <1>11, ListJoined
<1>13. PICK d : d = c \o w
  OBVIOUS
<1>14. IsJoined(d, c, w, 1 + m, 1)
  <2>1. IsList(c, 1 + m)
    BY <1>12 DEF IsJoined
  <2> QED
    BY <1>8, <1>13, <2>1, ListJoined
<1>15. PICK e : e = d \o x
  OBVIOUS
<1>16. IsJoined(e, d, x, 1 + m + 1, m)
  <2>1. IsList(d, 1 + m + 1)
    BY <1>14 DEF IsJoined
  <2> QED
    BY <1>9, <1>15, <2>1, ListJoined
<1>17. PICK g : g = e \o y
  OBVIOUS
<1>18. IsJoined(g, e, y, 1 + m + 1 + m, 2)
  <2>1. IsList(e, 1 + m + 1 + m)
    BY <1>16 DEF IsJoined
  <2> QED
    BY <1>10, <1>17, <2>1, ListJoined
<1>19. WrapperOf(s, mid) = g
  BY <1>1, <1>2, <1>3, <1>4, <1>5, <1>11, <1>13, <1>15, <1>17 DEF WrapperOf
<1>20. 1 + m + 1 + m + 2 = m + m + 4
  BY <1>0
<1>21. ASSUME NEW i \in 1..(1 + m + 1 + m + 2) PROVE g[i] = WrapOp(s, m, mid, 0, i)
  <2>1. g[i] = IF i <= 1 + m + 1 + m THEN e[i] ELSE y[i - (1 + m + 1 + m)]
    BY <1>18 DEF IsJoined
  <2>2. CASE i = 1
    <3>1. i \in 1..(1 + m) /\ i \in 1..(1 + m + 1) /\ i \in 1..(1 + m + 1 + m) /\ i <= 1 /\ i <= 1 + m /\ i <= 1 + m + 1 /\ i <= 1 + m + 1 + m
      BY <1>0, <2>2
    <3>2. c[i] = u[i] /\ d[i] = c[i] /\ e[i] = d[i]
      BY <1>12, <1>14, <1>16, <3>1 DEF IsJoined
    <3> QED
      BY <1>6, <2>1, <2>2, <3>1, <3>2 DEF WrapOp
  <2>3. CASE 1 < i /\ i <= 1 + m
    <3>1. /\ i - 1 \in 1..m /\ i \in 1..(1 + m) /\ i \in 1..(1 + m + 1) /\ i \in 1..(1 + m + 1 + m)
          /\ ~(i <= 1) /\ i <= 1 + m /\ i <= 1 + m + 1 /\ i <= 1 + m + 1 + m /\ i # 1 /\ i <= m + 1
      BY <1>0, <2>3
    <3>2. c[i] = v[i - 1] /\ d[i] = c[i] /\ e[i] = d[i]
      BY <1>12, <1>14, <1>16, <3>1 DEF IsJoined
    <3> QED
      BY <1>7, <2>1, <3>1, <3>2 DEF WrapOp
  <2>4. CASE i = 1 + m + 1
    <3>1. /\ i \in 1..(1 + m + 1) /\ i \in 1..(1 + m + 1 + m)
          /\ ~(i <= 1 + m) /\ i <= 1 + m + 1 /\ i <= 1 + m + 1 + m /\ i # 1 /\ ~(i <= m + 1) /\ i = m + 2 /\ i - (1 + m) = 1
      BY <1>0, <2>4
    <3>2. d[i] = w[1] /\ e[i] = d[i]
      BY <1>14, <1>16, <3>1 DEF IsJoined
    <3> QED
      BY <1>8, <2>1, <3>1, <3>2 DEF WrapOp
  <2>5. CASE 1 + m + 1 < i /\ i <= 1 + m + 1 + m
    <3>1. /\ i \in 1..(1 + m + 1 + m) /\ i - (1 + m + 1) \in 1..m /\ ~(i <= 1 + m + 1) /\ i <= 1 + m + 1 + m
          /\ i # 1 /\ ~(i <= m + 1) /\ i # m + 2 /\ i <= m + m + 2 /\ m + 1 - (i - (1 + m + 1)) = m + m + 3 - i
      BY <1>0, <2>5
    <3>2. e[i] = x[i - (1 + m + 1)]
      BY <1>16, <3>1 DEF IsJoined
    <3> QED
      BY <1>9, <2>1, <3>1, <3>2 DEF WrapOp
  <2>6. CASE i = 1 + m + 1 + m + 1
    <3>1. /\ ~(i <= 1 + m + 1 + m) /\ i # 1 /\ ~(i <= m + 1) /\ i # m + 2 /\ ~(i <= m + m + 2) /\ i = m + m + 3
          /\ i - (1 + m + 1 + m) = 1
      BY <1>0, <2>6
    <3> QED
      BY <1>10, <2>1, <3>1 DEF WrapOp
  <2>7. CASE i = 1 + m + 1 + m + 2
    <3>1. /\ ~(i <= 1 + m + 1 + m) /\ i # 1 /\ ~(i <= m + 1) /\ i # m + 2 /\ ~(i <= m + m + 2) /\ i # m + m + 3
          /\ i = m + m + 4 /\ i - (1 + m + 1 + m) = 2
      BY <1>0, <2>7
    <3> QED
      BY <1>10, <2>1, <3>1 DEF WrapOp
  <2>8. i = 1 \/ (1 < i /\ i <= 1 + m) \/ i = 1 + m + 1 \/ (1 + m + 1 < i /\ i <= 1 + m + 1 + m)
        \/ i = 1 + m + 1 + m + 1 \/ i = 1 + m + 1 + m + 2
    BY <1>0
  <2> QED
    BY <2>2, <2>3, <2>4, <2>5, <2>6, <2>7, <2>8
<1>22. IsList(g, 1 + m + 1 + m + 2)
  BY <1>18 DEF IsJoined
<1>23. IsWrapper(g, s, m, mid)
  BY <1>20, <1>21, <1>22 DEF IsWrapper
<1> QED
  BY <1>19, <1>23

\* The wrapper is called in front of what is left of the call.
LEMMA WrapperEntered ==
  ASSUME NEW c, NEW d, NEW s, NEW m \in Nat, NEW mid, NEW n \in Nat, IsWrapper(c, s, m, mid),
         StartFrom(d, n, n + n + n + 2)
  PROVE  WrapFrom(c \o d, s, m, mid, n, 1)
<1>1. n + n + n + n + 2 - (n + n + n + 2) = n /\ m + m + n + 5 - 1 = m + m + 4 + n
  OBVIOUS
<1>2. IsList(d, n) /\ \A i \in 1..n : d[i] = StartOp(n, (n + n + n + 2) + i - 1)
  BY <1>1 DEF StartFrom
<1>3. ASSUME NEW i \in 1..n PROVE d[i] = RestoreOp(n, i)
  <2>1. PICK q : q = (n + n + n + 2) + i - 1
    OBVIOUS
  <2>2. ~(q <= n) /\ ~(q <= n + n) /\ ~(q <= n + n + n) /\ q # n + n + n + 1 /\ q - (n + n + n + 1) = i
    BY <2>1
  <2>3. d[i] = StartOp(n, q)
    BY <1>2, <2>1
  <2> QED
    BY <2>2, <2>3 DEF StartOp
<1>4. PICK g : g = c \o d
  OBVIOUS
<1>5. IsList(c, m + m + 4)
  BY DEF IsWrapper
<1>6. IsJoined(g, c, d, m + m + 4, n)
  BY <1>2, <1>4, <1>5, ListJoined
<1>7. IsList(g, m + m + 4 + n) /\ \A i \in 1..(m + m + 4 + n) : g[i] = IF i <= m + m + 4 THEN c[i] ELSE d[i - (m + m + 4)]
  BY <1>6 DEF IsJoined
<1>8. ASSUME NEW i \in 1..(m + m + 4 + n) PROVE g[i] = WrapOp(s, m, mid, n, 1 + i - 1)
  <2>0. 1 + i - 1 = i
    OBVIOUS
  <2>1. CASE i <= m + m + 4
    <3>1. i \in 1..(m + m + 4)
      BY <2>1
    <3>2. g[i] = WrapOp(s, m, mid, 0, i)
      BY <1>7, <2>1, <3>1 DEF IsWrapper
    <3>3. ~(m + m + 4 < i) /\ (i # m + m + 4 => i <= m + m + 3) /\ (i # m + m + 3 /\ i # m + m + 4 => i <= m + m + 2)
      BY <2>1
    <3>4. WrapOp(s, m, mid, 0, i) = WrapOp(s, m, mid, n, i)
      BY <3>3 DEF WrapOp
    <3> QED
      BY <2>0, <3>2, <3>4
  <2>2. CASE ~(i <= m + m + 4)
    <3>1. /\ i - (m + m + 4) \in 1..n /\ i # 1 /\ ~(i <= m + 1) /\ i # m + 2 /\ ~(i <= m + m + 2)
          /\ i # m + m + 3 /\ i # m + m + 4
      BY <2>2
    <3> QED
      BY <1>3, <1>7, <2>0, <2>2, <3>1 DEF WrapOp
  <2> QED
    BY <2>1, <2>2
<1>9. WrapFrom(g, s, m, mid, n, 1)
  BY <1>1, <1>7, <1>8 DEF WrapFrom
<1> QED
  BY <1>4, <1>9

\* The call being executed: its arguments, the registers that the wrapper saves, and
\* what the wrapper does between saving and restoring them.
IsCall(n, s, m, mid) ==
  /\ n \in 0..6 /\ m \in Nat /\ Len(s) = m /\ IsSaved(s, n)
  /\ DOMAIN call.args = 1..n
  /\ \/ mid = "client" /\ call.func \in InlineFunctions
     \/ mid = "context" /\ call.func \in ContextFunctions /\ n = 0 /\ s = Calls!GPRs

Argument(k) == Calls!ArgGPRs[k]
AppFlags == flags = Calls!App("flags")
AppStack == stack = <<Calls!App("stack")>>

\* The stack of a wrapper that has pushed h words.
IsPushed(st, bf, s, h) ==
  /\ IsList(st, h + 2) /\ st[h + 2] = Calls!App("stack") /\ st[h + 1] = <<"return", "">>
  /\ h # 0 => st[h] = Calls!App("flags")
  /\ \A a \in 1..(h - 1) : st[h - a] = bf[s[a]]

\* Registers that have been saved to slots, copied and moved before the p-th operation.
SlotsSaved(n, p) == \A k \in 1..n : k < p => slots[Argument(k)] = before[Argument(k)]
OperandsCopied(n, p) ==
  \A k \in 1..n : n + k < p => arg_regs[k] = Calls!OperandValue(call.args[k], before)
OperandsMoved(n, p) ==
  /\ \A k \in 1..n : n + n + k < p => regs[Argument(k)] = Calls!OperandValue(call.args[k], before)
  /\ \A r \in Calls!AllGPRs :
       (\A k \in 1..n : n + n + k < p => Argument(k) # r) => regs[r] = before[r]

CalledWrapper ==
  IF call.func \in InlineFunctions THEN inline_callbacks[call.func] ELSE context_callbacks[call.func]

\* In front of the wrapper, in it until its function is called and after that, behind it.
StartStage(n, s, m, mid, p) ==
  /\ p \in 1..(n + n + n + 1) /\ StartFrom(code, n, p)
  /\ AppFlags /\ AppStack
  /\ IsWrapper(CalledWrapper, s, m, mid)
  /\ SlotsSaved(n, p) /\ OperandsCopied(n, p) /\ OperandsMoved(n, p)

PushStage(n, s, m, mid, h) ==
  /\ h \in 0..(m + 1) /\ WrapFrom(code, s, m, mid, n, h + 1)
  /\ AppFlags /\ IsPushed(stack, before, s, h)
  /\ \A k \in 1..n : slots[Argument(k)] = before[Argument(k)]
  /\ \A k \in 1..n : regs[Argument(k)] = Calls!OperandValue(call.args[k], before)
  /\ \A a \in 1..m : regs[s[a]] = before[s[a]]

PopStage(n, s, m, mid, h) ==
  /\ h \in 0..(m + 1) /\ WrapFrom(code, s, m, mid, n, m + m + 4 - h)
  /\ (h = 0 => AppFlags) /\ IsPushed(stack, before, s, h)
  /\ \A k \in 1..n : slots[Argument(k)] = before[Argument(k)]
  /\ \A a \in 1..m : h <= a => regs[s[a]] = before[s[a]]

EndStage(n, s, m, mid, j) ==
  /\ j \in 0..n /\ WrapFrom(code, s, m, mid, n, m + m + 5 + j)
  /\ AppFlags /\ AppStack
  /\ \A k \in 1..n : slots[Argument(k)] = before[Argument(k)]
  /\ \A k \in 1..n : n < k + j => regs[Argument(k)] = before[Argument(k)]
  /\ \A a \in 1..m : regs[s[a]] = before[s[a]]

InCall(n, s, m, mid) ==
  \/ \E p \in 1..(n + n + n + 1) : StartStage(n, s, m, mid, p)
  \/ \E h \in 0..(m + 1) : PushStage(n, s, m, mid, h)
  \/ \E h \in 0..(m + 1) : PopStage(n, s, m, mid, h)
  \/ \E j \in 0..n : EndStage(n, s, m, mid, j)

OnRegisters(f) == f = [r \in Calls!AllGPRs |-> f[r]]

FormInv ==
  OnRegisters(regs) /\ OnRegisters(before) /\ OnRegisters(slots) /\ arg_regs = [k \in 1..6 |-> arg_regs[k]]

\* One wrapper serves all calls of a function.
CallbacksInv ==
  /\ inline_callbacks = [f \in InlineFunctions |-> inline_callbacks[f]]
  /\ context_callbacks = [f \in ContextFunctions |-> context_callbacks[f]]
  /\ \A f \in InlineFunctions : \/ inline_callbacks[f] = << >>
                                \/ \A args \in Arguments[f] : inline_callbacks[f] = Calls!GenerateInlineCallCode(Len(args))
  /\ \A f \in ContextFunctions : context_callbacks[f] \in {<< >>, Calls!GenerateContextCallCode}

AtRest == call = Calls!Idle /\ code = << >> /\ regs = before /\ AppFlags /\ AppStack

CallsInv ==
  /\ arrived /\ FormInv /\ CallbacksInv
  /\ AtRest \/ \E n, s, m, mid : IsCall(n, s, m, mid) /\ InCall(n, s, m, mid)

\* What the first operation does that is left.
LEMMA OperationIs ==
  ASSUME Calls!Next, code # << >>, call # Calls!Idle
  PROVE  /\ UNCHANGED <<inline_callbacks, context_callbacks, call>>
         /\ Head(code).op # "call" => code' = Tail(code)
         /\ Head(code).op \notin {"client", "context"} => arrived' = arrived
         /\ Head(code).op # "context" => before' = before
         /\ Head(code).op = "save" =>
              /\ slots' = [slots EXCEPT ![Head(code).reg] = regs[Head(code).reg]]
              /\ UNCHANGED <<regs, flags, stack, arg_regs>>
         /\ Head(code).op = "restore" =>
              /\ regs' = [regs EXCEPT ![Head(code).reg] = slots[Head(code).reg]]
              /\ UNCHANGED <<slots, flags, stack, arg_regs>>
         /\ Head(code).op = "copy" =>
              /\ arg_regs' = [arg_regs EXCEPT ![Head(code).n] = Calls!OperandValue(call.args[Head(code).n], regs)]
              /\ UNCHANGED <<slots, flags, stack, regs>>
         /\ Head(code).op = "move" =>
              /\ regs' = [regs EXCEPT ![Head(code).reg] = arg_regs[Head(code).n]]
              /\ UNCHANGED <<slots, flags, stack, arg_regs>>
         /\ Head(code).op = "call" =>
              /\ code' = CalledWrapper \o Tail(code) /\ stack' = <<<<"return", "">>>> \o stack
              /\ UNCHANGED <<slots, flags, regs, arg_regs>>
         /\ Head(code).op = "push" => stack' = <<regs[Head(code).reg]>> \o stack /\ UNCHANGED <<slots, flags, regs, arg_regs>>
         /\ Head(code).op = "pushfq" => stack' = <<flags>> \o stack /\ UNCHANGED <<slots, flags, regs, arg_regs>>
         /\ Head(code).op = "pop" =>
              /\ regs' = [regs EXCEPT ![Head(code).reg] = Head(stack)] /\ stack' = Tail(stack)
              /\ UNCHANGED <<slots, flags, arg_regs>>
         /\ Head(code).op = "popfq" => flags' = Head(stack) /\ stack' = Tail(stack) /\ UNCHANGED <<slots, regs, arg_regs>>
         /\ Head(code).op = "ret" => stack' = Tail(stack) /\ UNCHANGED <<slots, flags, regs, arg_regs>>
         /\ Head(code).op = "client" => Calls!RunInlineFunction
         /\ Head(code).op = "context" => Calls!RunContextFunction
<1>1. CASE Calls!SaveRestoreRegister
  BY <1>1 DEF Calls!SaveRestoreRegister, Calls!At, Calls!Current, Calls!Done, Calls!Tables
<1>2. CASE Calls!CopyOperand
  BY <1>2 DEF Calls!CopyOperand, Calls!At, Calls!Current, Calls!Done, Calls!Tables
<1>3. CASE Calls!MoveArg
  BY <1>3 DEF Calls!MoveArg, Calls!At, Calls!Current, Calls!Done, Calls!Tables
<1>4. CASE Calls!CallWrapper
  BY <1>4 DEF Calls!CallWrapper, Calls!At, Calls!Current, Calls!Done, Calls!Tables, CalledWrapper
<1>5. CASE Calls!PushRegister
  BY <1>5 DEF Calls!PushRegister, Calls!At, Calls!Current, Calls!Done, Calls!Tables
<1>6. CASE Calls!PopRegister
  BY <1>6 DEF Calls!PopRegister, Calls!At, Calls!Current, Calls!Done, Calls!Tables
<1>7. CASE Calls!RunInlineFunction
  <2>1. Head(code).op = "client" /\ UNCHANGED <<inline_callbacks, context_callbacks, call>> /\ code' = Tail(code) /\ before' = before
    BY <1>7 DEF Calls!RunInlineFunction, Calls!At, Calls!Current, Calls!Done, Calls!Tables
  <2> QED
    BY <1>7, <2>1
<1>8. CASE Calls!RunContextFunction
  <2>1. Head(code).op = "context" /\ UNCHANGED <<inline_callbacks, context_callbacks, call>> /\ code' = Tail(code)
    BY <1>8 DEF Calls!RunContextFunction, Calls!At, Calls!Current, Calls!Done, Calls!Tables
  <2> QED
    BY <1>8, <2>1
<1>9. ~Calls!Return /\ (\A f \in InlineFunctions : ~Calls!InlineCall(f)) /\ (\A f \in ContextFunctions : ~Calls!ContextCall(f))
  BY DEF Calls!Return, Calls!InlineCall, Calls!ContextCall
<1> QED
  BY <1>1, <1>2, <1>3, <1>4, <1>5, <1>6, <1>7, <1>8, <1>9 DEF Calls!Next

LEMMA FormKept ==
  ASSUME FormInv, Calls!Next
  PROVE  FormInv'
<1> USE DEF FormInv, OnRegisters
<1>1. ASSUME NEW f \in InlineFunctions, Calls!InlineCall(f) PROVE FormInv'
  BY <1>1 DEF Calls!InlineCall
<1>2. ASSUME NEW f \in ContextFunctions, Calls!ContextCall(f) PROVE FormInv'
  BY <1>2 DEF Calls!ContextCall
<1>3. CASE Calls!SaveRestoreRegister
  BY <1>3 DEF Calls!SaveRestoreRegister
<1>4. CASE Calls!CopyOperand
  BY <1>4 DEF Calls!CopyOperand
<1>5. CASE Calls!MoveArg
  BY <1>5 DEF Calls!MoveArg
<1>6. CASE Calls!CallWrapper
  BY <1>6 DEF Calls!CallWrapper
<1>7. CASE Calls!PushRegister
  BY <1>7 DEF Calls!PushRegister
<1>8. CASE Calls!PopRegister
  BY <1>8 DEF Calls!PopRegister
<1>9. CASE Calls!RunInlineFunction
  BY <1>9 DEF Calls!RunInlineFunction, Calls!Clobber
<1>10. CASE Calls!RunContextFunction
  <2>1. regs' = [r \in Calls!AllGPRs |-> IF r \in Calls!CalleeSaved THEN regs[r] ELSE Calls!Junk] /\ slots' = slots /\ arg_regs' = arg_regs
    BY <1>10 DEF Calls!RunContextFunction, Calls!Clobber
  <2>2. OnRegisters(before')
    BY <1>10 DEF Calls!RunContextFunction
  <2> QED
    BY <2>1, <2>2
<1>11. CASE Calls!Return
  <2>1. slots' = [r \in Calls!AllGPRs |-> Calls!NoValue] /\ arg_regs' = [k \in 1..6 |-> Calls!NoValue] /\ regs' = regs /\ before' = before
    BY <1>11, ArgGPRsAre DEF Calls!Return
  <2> QED
    BY <2>1
<1> QED
  BY <1>1, <1>2, <1>3, <1>4, <1>5, <1>6, <1>7, <1>8, <1>9, <1>10, <1>11 DEF Calls!Next

LEMMA CallIs ==
  ASSUME NEW n, NEW s, NEW m, NEW mid, IsCall(n, s, m, mid)
  PROVE  /\ call # Calls!Idle /\ n \in Nat /\ n <= 6 /\ m \in Nat /\ IsList(s, m)
         /\ \A k \in 1..n : k \in 1..6 /\ Argument(k) \in Calls!AllGPRs
         /\ \A k, l \in 1..n : Argument(k) = Argument(l) => k = l
         /\ \A a \in 1..m : s[a] \in Calls!AllGPRs /\ \A k \in 1..n : Argument(k) # s[a]
         /\ \A a, b \in 1..m : s[a] = s[b] => a = b
         /\ \A r \in Calls!AllGPRs : (\E a \in 1..m : s[a] = r) \/ \E k \in 1..n : Argument(k) = r
<1>1. call # Calls!Idle
  <2>1. call.func # "none"
    BY CallsAssumption DEF IsCall
  <2> QED
    BY <2>1 DEF Calls!Idle
<1>2. n \in Nat /\ n <= 6 /\ m \in Nat /\ Len(s) = m /\ s \in Seq(Calls!AllGPRs)
  BY DEF IsCall, IsSaved
<1>3. IsList(s, m)
  BY <1>2, SequenceIsList
<1>4. \A k \in 1..n : k \in 1..6
  BY <1>2
<1>5. /\ \A k \in 1..n : Argument(k) \in Calls!AllGPRs
      /\ \A k, l \in 1..n : Argument(k) = Argument(l) => k = l
  BY <1>4, ArgGPRsAre DEF Argument
<1>6. ASSUME NEW a \in 1..m PROVE s[a] \in Calls!AllGPRs
  BY <1>2
<1>7. \A r \in Calls!AllGPRs : Calls!Saves(r, n) <=> \E a \in 1..m : s[a] = r
  BY <1>2 DEF IsCall, IsSaved
<1>8. ASSUME NEW r \in Calls!AllGPRs
      PROVE  Calls!Saves(r, n) <=> \A k \in 1..n : Argument(k) # r
  <2>1. Calls!Saves(r, n) <=> \A k \in 1..6 : Argument(k) = r => k > n
    BY ArgGPRsAre DEF Calls!Saves, Argument
  <2>2. \A k \in 1..6 : ~(k > n) <=> k \in 1..n
    BY <1>2
  <2> QED
    BY <1>4, <2>1, <2>2
<1>9. \A a, b \in 1..m : s[a] = s[b] => a = b
  BY <1>2 DEF IsCall, IsSaved
<1>10. \A a \in 1..m : \A k \in 1..n : Argument(k) # s[a]
  BY <1>6, <1>7, <1>8
<1>11. \A r \in Calls!AllGPRs : (\E a \in 1..m : s[a] = r) \/ \E k \in 1..n : Argument(k) = r
  BY <1>7, <1>8
<1> QED
  BY <1>1, <1>2, <1>3, <1>4, <1>5, <1>6, <1>9, <1>10, <1>11

\* A register is saved to its slot.
LEMMA SaveStep ==
  ASSUME FormInv, NEW n, NEW s, NEW m, NEW mid, IsCall(n, s, m, mid), NEW p,
         StartStage(n, s, m, mid, p), p <= n, Calls!Next
  PROVE  arrived' = arrived /\ StartStage(n, s, m, mid, p + 1)'
<1>1. n \in Nat /\ call # Calls!Idle /\ p \in 1..n /\ p \in Nat /\ p <= n + n + n + n + 1 /\ p + 1 \in 1..(n + n + n + 1)
  BY CallIs DEF StartStage
<1>2. StartFrom(Tail(code), n, p + 1) /\ Head(code) = StartOp(n, p) /\ code # << >>
  BY <1>1, StartGoesOn DEF StartStage
<1>3. Head(code).op = "save" /\ Head(code).reg = Argument(p)
  BY <1>1, <1>2 DEF StartOp, Calls!Op, Argument
<1>4. /\ slots' = [slots EXCEPT ![Argument(p)] = regs[Argument(p)]] /\ code' = Tail(code) /\ arrived' = arrived
      /\ UNCHANGED <<regs, flags, stack, arg_regs, before, call, inline_callbacks, context_callbacks>>
  BY <1>1, <1>2, <1>3, OperationIs
<1>5. StartFrom(code, n, p + 1)'
  BY <1>2, <1>4 DEF StartFrom, IsList
<1>6. IsWrapper(CalledWrapper, s, m, mid)'
  BY <1>4 DEF StartStage, CalledWrapper, IsWrapper, IsList
<1>7. regs[Argument(p)] = before[Argument(p)]
  <2>1. \A k \in 1..n : ~(n + n + k < p)
    BY <1>1
  <2>2. Argument(p) \in Calls!AllGPRs
    BY <1>1, CallIs
  <2> QED
    BY <2>1, <2>2 DEF StartStage, OperandsMoved
<1>8. SlotsSaved(n, p + 1)'
  <2>1. \A k \in 1..n : k < p + 1 <=> k < p \/ k = p
    BY <1>1
  <2>2. DOMAIN slots = Calls!AllGPRs
    BY DEF FormInv, OnRegisters
  <2>3. \A k \in 1..n : Argument(k) \in Calls!AllGPRs
    BY CallIs
  <2>4. \A k \in 1..n : k < p => slots[Argument(k)] = before[Argument(k)]
    BY DEF StartStage, SlotsSaved
  <2>5. ASSUME NEW k \in 1..n, k < p + 1 PROVE slots'[Argument(k)] = before[Argument(k)]
    BY <1>4, <1>7, <2>1, <2>2, <2>3, <2>4, <2>5
  <2> QED
    BY <1>4, <2>5 DEF SlotsSaved, Argument
<1>9. OperandsCopied(n, p + 1)' /\ OperandsMoved(n, p + 1)'
  <2>1. \A k \in 1..n : ~(n + k < p + 1) /\ ~(n + n + k < p + 1) /\ ~(n + n + k < p)
    BY <1>1
  <2>2. \A r \in Calls!AllGPRs : regs[r] = before[r]
    BY <2>1 DEF StartStage, OperandsMoved
  <2> QED
    BY <1>4, <2>1, <2>2 DEF OperandsCopied, OperandsMoved
<1>10. AppFlags' /\ AppStack'
  BY <1>4 DEF StartStage, AppFlags, AppStack
<1>11. (p + 1 \in 1..(n + n + n + 1))'
  BY <1>1
<1> QED
  BY <1>4, <1>5, <1>6, <1>8, <1>9, <1>10, <1>11 DEF StartStage

\* An operand is copied: no argument register has been changed yet.
LEMMA CopyStep ==
  ASSUME FormInv, NEW n, NEW s, NEW m, NEW mid, IsCall(n, s, m, mid), NEW p,
         StartStage(n, s, m, mid, p), n < p, p <= n + n, Calls!Next
  PROVE  arrived' = arrived /\ StartStage(n, s, m, mid, p + 1)'
<1>0. n \in Nat /\ call # Calls!Idle /\ p \in Nat
  BY CallIs DEF StartStage
<1>1. p - n \in 1..n /\ p <= n + n + n + n + 1 /\ p + 1 \in 1..(n + n + n + 1) /\ ~(p <= n)
  BY <1>0
<1>2. StartFrom(Tail(code), n, p + 1) /\ Head(code) = StartOp(n, p) /\ code # << >>
  BY <1>0, <1>1, StartGoesOn DEF StartStage
<1>3. Head(code).op = "copy" /\ Head(code).n = p - n
  BY <1>1, <1>2 DEF StartOp, Calls!Op, Argument
<1>4. /\ arg_regs' = [arg_regs EXCEPT ![p - n] = Calls!OperandValue(call.args[p - n], regs)]
      /\ code' = Tail(code) /\ arrived' = arrived
      /\ UNCHANGED <<regs, flags, stack, slots, before, call, inline_callbacks, context_callbacks>>
  BY <1>0, <1>2, <1>3, OperationIs
<1>5. StartFrom(code, n, p + 1)'
  BY <1>2, <1>4 DEF StartFrom, IsList
<1>6. IsWrapper(CalledWrapper, s, m, mid)'
  BY <1>4 DEF StartStage, CalledWrapper, IsWrapper, IsList
<1>7. \A k \in 1..n : ~(n + n + k < p) /\ ~(n + n + k < p + 1) /\ k < p /\ k < p + 1
  BY <1>0
<1>8. regs = before
  <2>1. \A r \in Calls!AllGPRs : regs[r] = before[r]
    BY <1>7 DEF StartStage, OperandsMoved
  <2> QED
    BY <2>1 DEF FormInv, OnRegisters
<1>9. OperandsCopied(n, p + 1)'
  <2>1. \A k \in 1..n : n + k < p + 1 <=> n + k < p \/ k = p - n
    BY <1>0
  <2>2. DOMAIN arg_regs = 1..6
    BY DEF FormInv
  <2>3. \A k \in 1..n : k \in 1..6
    BY CallIs
  <2>4. \A k \in 1..n : n + k < p => arg_regs[k] = Calls!OperandValue(call.args[k], before)
    BY DEF StartStage, OperandsCopied
  <2>5. arg_regs' = [arg_regs EXCEPT ![p - n] = Calls!OperandValue(call.args[p - n], before)]
    BY <1>4, <1>8
  <2>6. ASSUME NEW k \in 1..n, n + k < p + 1 PROVE arg_regs'[k] = Calls!OperandValue(call.args[k], before)
    BY <1>1, <2>1, <2>2, <2>3, <2>4, <2>5, <2>6
  <2> QED
    BY <1>4, <2>6 DEF OperandsCopied, Calls!OperandValue, Calls!Deref
<1>10. SlotsSaved(n, p + 1)' /\ OperandsMoved(n, p + 1)'
  <2>1. \A k \in 1..n : slots[Argument(k)] = before[Argument(k)]
    BY <1>7 DEF StartStage, SlotsSaved
  <2> QED
    BY <1>4, <1>7, <1>8, <2>1 DEF SlotsSaved, OperandsMoved, Argument
<1>11. AppFlags' /\ AppStack'
  BY <1>4 DEF StartStage, AppFlags, AppStack
<1>12. (p + 1 \in 1..(n + n + n + 1))'
  BY <1>1
<1> QED
  BY <1>4, <1>5, <1>6, <1>9, <1>10, <1>11, <1>12 DEF StartStage

\* An argument register gets the copied operand.
LEMMA MoveStep ==
  ASSUME FormInv, NEW n, NEW s, NEW m, NEW mid, IsCall(n, s, m, mid), NEW p,
         StartStage(n, s, m, mid, p), n + n < p, p <= n + n + n, Calls!Next
  PROVE  arrived' = arrived /\ StartStage(n, s, m, mid, p + 1)'
<1>0. n \in Nat /\ call # Calls!Idle /\ p \in Nat
  BY CallIs DEF StartStage
<1>1. /\ p - (n + n) \in 1..n /\ p <= n + n + n + n + 1 /\ p + 1 \in 1..(n + n + n + 1) /\ ~(p <= n) /\ ~(p <= n + n)
  BY <1>0
<1>13. PICK q \in 1..n : q = p - (n + n)
  BY <1>1
<1>2. StartFrom(Tail(code), n, p + 1) /\ Head(code) = StartOp(n, p) /\ code # << >>
  BY <1>0, <1>1, StartGoesOn DEF StartStage
<1>3. Head(code).op = "move" /\ Head(code).n = q /\ Head(code).reg = Argument(q)
  BY <1>1, <1>2, <1>13 DEF StartOp, Calls!Op, Argument
<1>4. /\ regs' = [regs EXCEPT ![Argument(q)] = arg_regs[q]]
      /\ code' = Tail(code) /\ arrived' = arrived
      /\ UNCHANGED <<arg_regs, flags, stack, slots, before, call, inline_callbacks, context_callbacks>>
  BY <1>0, <1>2, <1>3, OperationIs
<1>5. StartFrom(code, n, p + 1)'
  BY <1>2, <1>4 DEF StartFrom, IsList
<1>6. IsWrapper(CalledWrapper, s, m, mid)'
  BY <1>4 DEF StartStage, CalledWrapper, IsWrapper, IsList
<1>7. \A k \in 1..n : n + k < p /\ n + k < p + 1 /\ k < p /\ k < p + 1 /\ (n + n + k < p + 1 <=> n + n + k < p \/ k = q)
  BY <1>0, <1>13
<1>8. \A k \in 1..n : arg_regs[k] = Calls!OperandValue(call.args[k], before) /\ slots[Argument(k)] = before[Argument(k)]
  BY <1>7 DEF StartStage, OperandsCopied, SlotsSaved
<1>9. OperandsMoved(n, p + 1)'
  <2>1. DOMAIN regs = Calls!AllGPRs
    BY DEF FormInv, OnRegisters
  <2>2. /\ \A k \in 1..n : Argument(k) \in Calls!AllGPRs
        /\ \A k, l \in 1..n : Argument(k) = Argument(l) => k = l
    BY CallIs
  <2>3. /\ \A k \in 1..n : n + n + k < p => regs[Argument(k)] = Calls!OperandValue(call.args[k], before)
        /\ \A r \in Calls!AllGPRs :
             (\A k \in 1..n : n + n + k < p => Argument(k) # r) => regs[r] = before[r]
    BY DEF StartStage, OperandsMoved
  <2>4. ASSUME NEW k \in 1..n, n + n + k < p + 1 PROVE regs'[Argument(k)] = Calls!OperandValue(call.args[k], before)
    <3>1. CASE k = q
      BY <1>4, <1>8, <2>1, <2>2, <3>1
    <3>2. CASE k # q
      <4>1. Argument(k) # Argument(q) /\ n + n + k < p
        BY <1>7, <2>2, <2>4, <3>2
      <4> QED
        BY <1>4, <2>1, <2>2, <2>3, <4>1
    <3> QED
      BY <3>1, <3>2
  <2>5. ASSUME NEW r \in Calls!AllGPRs, \A k \in 1..n : n + n + k < p + 1 => Argument(k) # r PROVE regs'[r] = before[r]
    <3>1. Argument(q) # r
      BY <1>7, <2>5
    <3>2. regs[r] = before[r]
      BY <1>7, <2>3, <2>5
    <3> QED
      BY <1>4, <2>1, <3>1, <3>2
  <2> QED
    BY <1>4, <2>4, <2>5 DEF OperandsMoved, Calls!OperandValue, Calls!Deref, Argument
<1>10. SlotsSaved(n, p + 1)' /\ OperandsCopied(n, p + 1)'
  BY <1>4, <1>8 DEF SlotsSaved, OperandsCopied, Argument, Calls!OperandValue, Calls!Deref
<1>11. AppFlags' /\ AppStack'
  BY <1>4 DEF StartStage, AppFlags, AppStack
<1>12. (p + 1 \in 1..(n + n + n + 1))'
  BY <1>1
<1> QED
  BY <1>4, <1>5, <1>6, <1>9, <1>10, <1>11, <1>12 DEF StartStage

\* The wrapper is called.
LEMMA EnterStep ==
  ASSUME FormInv, NEW n, NEW s, NEW m, NEW mid, IsCall(n, s, m, mid), NEW p,
         StartStage(n, s, m, mid, p), p = n + n + n + 1, Calls!Next
  PROVE  arrived' = arrived /\ PushStage(n, s, m, mid, 0)'
<1>0. n \in Nat /\ m \in Nat /\ call # Calls!Idle /\ p \in Nat
  BY CallIs DEF StartStage
<1>1. p <= n + n + n + n + 1 /\ ~(p <= n) /\ ~(p <= n + n) /\ ~(p <= n + n + n) /\ p + 1 = n + n + n + 2
  BY <1>0
<1>2. StartFrom(Tail(code), n, n + n + n + 2) /\ Head(code) = StartOp(n, p) /\ code # << >>
  <2>1. StartFrom(Tail(code), n, p + 1) /\ Head(code) = StartOp(n, p) /\ code # << >>
    BY <1>0, <1>1, StartGoesOn DEF StartStage
  <2> QED
    BY <1>1, <2>1
<1>3. Head(code).op = "call"
  <2>1. StartOp(n, p) = Calls!Op("call", "", 0)
    BY <1>1 DEF StartOp
  <2>2. Head(code) = Calls!Op("call", "", 0)
    BY <1>2, <2>1
  <2>3. Calls!Op("call", "", 0).op = "call"
    BY OpIs
  <2> QED
    BY <2>2, <2>3
<1>4. /\ code' = CalledWrapper \o Tail(code) /\ stack' = <<<<"return", "">>>> \o stack /\ arrived' = arrived
      /\ UNCHANGED <<regs, arg_regs, flags, slots, before, call, inline_callbacks, context_callbacks>>
  BY <1>0, <1>2, <1>3, OperationIs
<1>5. WrapFrom(code, s, m, mid, n, 0 + 1)'
  <2>1. PICK c : c = CalledWrapper \o Tail(code)
    OBVIOUS
  <2>2. WrapFrom(c, s, m, mid, n, 1)
    BY <1>0, <1>2, <2>1, WrapperEntered DEF StartStage
  <2>3. 0 + 1 = 1
    OBVIOUS
  <2>4. WrapFrom(c, s, m, mid, n, 0 + 1)
    BY <2>2, <2>3
  <2> QED
    BY <1>4, <2>1, <2>4 DEF WrapFrom, IsList
<1>6. IsPushed(stack, before, s, 0)'
  <2>1. PICK x : x = Calls!App("stack")
    OBVIOUS
  <2>2. PICK y : y = <<"return", "">>
    OBVIOUS
  <2>3. stack' = <<y>> \o <<x>>
    BY <1>4, <2>1, <2>2 DEF StartStage, AppStack
  <2>4. IsList(<<x>>, 1) /\ <<x>>[1] = x
    BY ListOfOne
  <2>5. PICK o : o = <<x>>
    OBVIOUS
  <2>6. IsList(o, 1) /\ o[1] = x /\ stack' = <<y>> \o o
    BY <2>3, <2>4, <2>5
  <2>7. IsList(<<y>> \o o, 1 + 1) /\ (<<y>> \o o)[1] = y /\ \A i \in 1..1 : (<<y>> \o o)[i + 1] = o[i]
    <3>1. HasOnTop(<<y>> \o o, y, o, 1)
      BY <2>6, ListPushed
    <3> QED
      BY <3>1 DEF HasOnTop
  <2>8. PICK w : w = stack'
    OBVIOUS
  <2>9. 1 + 1 = 2 /\ 0 + 2 = 2 /\ 0 + 1 = 1 /\ 1 \in 1..1 /\ 1..(0 - 1) = {}
    OBVIOUS
  <2>10. IsList(w, 0 + 2) /\ w[0 + 2] = x /\ w[0 + 1] = y
    BY <2>6, <2>7, <2>8, <2>9
  <2>11. IsPushed(w, before, s, 0)
    BY <2>1, <2>2, <2>9, <2>10 DEF IsPushed
  <2> QED
    BY <1>4, <2>8, <2>11 DEF IsPushed, IsList
<1>7. \A k \in 1..n : n + n + k < p /\ n + k < p /\ k < p
  BY <1>0
<1>8. /\ \A k \in 1..n : regs[Argument(k)] = Calls!OperandValue(call.args[k], before)
      /\ \A k \in 1..n : slots[Argument(k)] = before[Argument(k)]
  BY <1>7 DEF StartStage, OperandsMoved, SlotsSaved
<1>9. \A a \in 1..m : regs[s[a]] = before[s[a]]
  <2>1. \A a \in 1..m : s[a] \in Calls!AllGPRs /\ \A k \in 1..n : Argument(k) # s[a]
    BY CallIs
  <2> QED
    BY <2>1 DEF StartStage, OperandsMoved
<1>10. AppFlags'
  BY <1>4 DEF StartStage, AppFlags
<1>11. (0 \in 0..(m + 1))'
  BY <1>0
<1>12. (\A k \in 1..n : slots[Argument(k)] = before[Argument(k)])'
  BY <1>4, <1>8 DEF Argument
<1>13. (\A k \in 1..n : regs[Argument(k)] = Calls!OperandValue(call.args[k], before))'
  BY <1>4, <1>8 DEF Argument, Calls!OperandValue, Calls!Deref
<1>14. (\A a \in 1..m : regs[s[a]] = before[s[a]])'
  BY <1>4, <1>9
<1> QED
  BY <1>4, <1>5, <1>6, <1>10, <1>11, <1>12, <1>13, <1>14 DEF PushStage

\* The stack when a word is pushed, and when it is popped.
LEMMA PushedMore ==
  ASSUME NEW st, NEW bf, NEW s, NEW h \in Nat, IsPushed(st, bf, s, h), NEW v,
         v = IF h = 0 THEN Calls!App("flags") ELSE bf[s[h]]
  PROVE  IsPushed(<<v>> \o st, bf, s, h + 1)
<1>1. PICK l \in Nat : l = h + 2
  OBVIOUS
<1>2. IsList(st, l)
  BY <1>1 DEF IsPushed
<1>3. PICK c : c = <<v>> \o st
  OBVIOUS
<1>4. HasOnTop(c, v, st, l)
  BY <1>2, <1>3, ListPushed
<1>5. IsList(c, l + 1) /\ c[1] = v /\ \A i \in 1..l : c[i + 1] = st[i]
  BY <1>4 DEF HasOnTop
<1>6. IsList(c, (h + 1) + 2)
  <2>1. l + 1 = (h + 1) + 2
    BY <1>1
  <2> QED
    BY <1>5, <2>1
<1>7. c[(h + 1) + 2] = Calls!App("stack") /\ c[(h + 1) + 1] = <<"return", "">>
  <2>1. h + 2 \in 1..l /\ (h + 2) + 1 = (h + 1) + 2 /\ h + 1 \in 1..l
    BY <1>1
  <2>2. c[(h + 1) + 2] = st[h + 2] /\ c[(h + 1) + 1] = st[h + 1]
    BY <1>5, <2>1
  <2> QED
    BY <2>2 DEF IsPushed
<1>8. c[h + 1] = Calls!App("flags")
  <2>1. CASE h = 0
    <3>1. h + 1 = 1
      BY <2>1
    <3> QED
      BY <1>5, <2>1, <3>1
  <2>2. CASE h # 0
    <3>1. h \in 1..l
      BY <1>1, <2>2
    <3> QED
      BY <1>5, <2>2, <3>1 DEF IsPushed
  <2> QED
    BY <2>1, <2>2
<1>9. ASSUME NEW a \in 1..((h + 1) - 1) PROVE c[(h + 1) - a] = bf[s[a]]
  <2>1. a \in 1..h /\ h # 0
    OBVIOUS
  <2>2. CASE a = h
    <3>1. (h + 1) - a = 1
      BY <2>2
    <3> QED
      BY <1>5, <2>1, <2>2, <3>1
  <2>3. CASE a # h
    <3>1. a \in 1..(h - 1) /\ h - a \in 1..l /\ (h - a) + 1 = (h + 1) - a
      BY <1>1, <2>1, <2>3
    <3>2. c[(h - a) + 1] = st[h - a]
      BY <1>5, <3>1
    <3>3. st[h - a] = bf[s[a]]
      BY <3>1 DEF IsPushed
    <3> QED
      BY <3>1, <3>2, <3>3
  <2> QED
    BY <2>2, <2>3
<1>10. IsPushed(c, bf, s, h + 1)
  BY <1>6, <1>7, <1>8, <1>9 DEF IsPushed
<1> QED
  BY <1>3, <1>10

LEMMA PushedLess ==
  ASSUME NEW st, NEW bf, NEW s, NEW h \in Nat, IsPushed(st, bf, s, h + 1)
  PROVE  /\ IsPushed(Tail(st), bf, s, h)
         /\ Head(st) = IF h = 0 THEN Calls!App("flags") ELSE bf[s[h]]
<1>1. PICK l \in Nat : l = (h + 1) + 2 /\ l - 1 = h + 2 /\ l # 0
  OBVIOUS
<1>2. IsList(st, l)
  BY <1>1 DEF IsPushed
<1>3. PICK c : c = Tail(st)
  OBVIOUS
<1>4. IsList(c, l - 1) /\ Head(st) = st[1] /\ \A i \in 1..(l - 1) : c[i] = st[i + 1]
  BY <1>1, <1>2, <1>3, ListTail
<1>5. IsList(c, h + 2)
  BY <1>1, <1>4
<1>6. c[h + 2] = Calls!App("stack") /\ c[h + 1] = <<"return", "">>
  <2>1. h + 2 \in 1..(l - 1) /\ (h + 2) + 1 = (h + 1) + 2 /\ h + 1 \in 1..(l - 1)
    BY <1>1
  <2>2. c[h + 2] = st[(h + 1) + 2] /\ c[h + 1] = st[(h + 1) + 1]
    BY <1>4, <2>1
  <2> QED
    BY <2>2 DEF IsPushed
<1>7. h # 0 => c[h] = Calls!App("flags")
  <2>1. h # 0 => h \in 1..(l - 1)
    BY <1>1
  <2>2. h + 1 # 0
    OBVIOUS
  <2> QED
    BY <1>4, <2>1, <2>2 DEF IsPushed
<1>8. ASSUME NEW a \in 1..(h - 1) PROVE c[h - a] = bf[s[a]]
  <2>1. h - a \in 1..(l - 1) /\ (h - a) + 1 = (h + 1) - a /\ a \in 1..((h + 1) - 1)
    BY <1>1
  <2>2. c[h - a] = st[(h + 1) - a]
    BY <1>4, <2>1
  <2> QED
    BY <2>1, <2>2 DEF IsPushed
<1>9. Head(st) = IF h = 0 THEN Calls!App("flags") ELSE bf[s[h]]
  <2>1. CASE h = 0
    <3>1. h + 1 = 1 /\ h + 1 # 0
      BY <2>1
    <3> QED
      BY <1>4, <2>1, <3>1 DEF IsPushed
  <2>2. CASE h # 0
    <3>1. h \in 1..((h + 1) - 1) /\ (h + 1) - h = 1
      BY <2>2
    <3> QED
      BY <1>4, <2>2, <3>1 DEF IsPushed
  <2> QED
    BY <2>1, <2>2
<1>10. IsPushed(c, bf, s, h)
  BY <1>5, <1>6, <1>7, <1>8 DEF IsPushed
<1> QED
  BY <1>3, <1>9, <1>10

\* The wrapper pushes the flags, or a register.
LEMMA PushStep ==
  ASSUME FormInv, NEW n, NEW s, NEW m, NEW mid, IsCall(n, s, m, mid), NEW h,
         PushStage(n, s, m, mid, h), h <= m, Calls!Next
  PROVE  arrived' = arrived /\ PushStage(n, s, m, mid, h + 1)'
<1>0. n \in Nat /\ m \in Nat /\ call # Calls!Idle /\ h \in Nat
  BY CallIs DEF PushStage
<1>1. h + 1 \in Nat /\ h + 1 <= m + m + n + 4 /\ h + 1 \in 0..(m + 1) /\ (h + 1 = 1 <=> h = 0) /\ h + 1 <= m + 1 /\ (h + 1) - 1 = h
  BY <1>0
<1>2. WrapFrom(Tail(code), s, m, mid, n, (h + 1) + 1) /\ Head(code) = WrapOp(s, m, mid, n, h + 1) /\ code # << >>
  BY <1>0, <1>1, WrapGoesOn DEF PushStage
<1>3. PICK v : v = IF h = 0 THEN Calls!App("flags") ELSE before[s[h]]
  OBVIOUS
<1>4. /\ stack' = <<v>> \o stack /\ code' = Tail(code) /\ arrived' = arrived
      /\ UNCHANGED <<regs, flags, slots, arg_regs, before, call, inline_callbacks, context_callbacks>>
  <2>1. CASE h = 0
    <3>1. WrapOp(s, m, mid, n, h + 1) = Calls!Op("pushfq", "", 0)
      BY <1>1, <2>1 DEF WrapOp
    <3>2. Head(code) = Calls!Op("pushfq", "", 0)
      BY <1>2, <3>1
    <3>3. Calls!Op("pushfq", "", 0).op = "pushfq"
      BY OpIs
    <3>4. Head(code).op = "pushfq"
      BY <3>2, <3>3
    <3>5. flags = v
      BY <1>3, <2>1 DEF PushStage, AppFlags
    <3> QED
      BY <1>0, <1>2, <3>4, <3>5, OperationIs
  <2>2. CASE h # 0
    <3>1. WrapOp(s, m, mid, n, h + 1) = Calls!Op("push", s[h], 0)
      BY <1>1, <2>2 DEF WrapOp
    <3>2. Head(code) = Calls!Op("push", s[h], 0)
      BY <1>2, <3>1
    <3>3. Calls!Op("push", s[h], 0).op = "push" /\ Calls!Op("push", s[h], 0).reg = s[h]
      BY OpIs
    <3>4. Head(code).op = "push" /\ Head(code).reg = s[h]
      BY <3>2, <3>3
    <3>5. regs[s[h]] = v
      <4>1. h \in 1..m
        BY <1>0, <2>2
      <4> QED
        BY <1>3, <2>2, <4>1 DEF PushStage
    <3> QED
      BY <1>0, <1>2, <3>4, <3>5, OperationIs
  <2> QED
    BY <2>1, <2>2
<1>5. WrapFrom(code, s, m, mid, n, (h + 1) + 1)'
  BY <1>2, <1>4 DEF WrapFrom, IsList
<1>6. IsPushed(stack, before, s, h + 1)'
  <2>1. PICK w : w = <<v>> \o stack
    OBVIOUS
  <2>2. IsPushed(stack, before, s, h)
    BY DEF PushStage
  <2>3. IsPushed(w, before, s, h + 1)
    BY <1>0, <1>3, <2>1, <2>2, PushedMore
  <2> QED
    BY <1>4, <2>1, <2>3 DEF IsPushed, IsList
<1>7. AppFlags'
  BY <1>4 DEF PushStage, AppFlags
<1>8. (h + 1 \in 0..(m + 1))'
  BY <1>1
<1>9. (\A k \in 1..n : slots[Argument(k)] = before[Argument(k)])'
  BY <1>4 DEF Argument, PushStage
<1>10. (\A k \in 1..n : regs[Argument(k)] = Calls!OperandValue(call.args[k], before))'
  BY <1>4 DEF Argument, Calls!OperandValue, Calls!Deref, PushStage
<1>11. (\A a \in 1..m : regs[s[a]] = before[s[a]])'
  BY <1>4 DEF PushStage
<1> QED
  BY <1>4, <1>5, <1>6, <1>7, <1>8, <1>9, <1>10, <1>11 DEF PushStage

\* The wrapper calls the function of the tool, which is given its arguments.
LEMMA ClientStep ==
  ASSUME FormInv, NEW n, NEW s, NEW m, NEW mid, IsCall(n, s, m, mid), mid = "client", NEW h,
         PushStage(n, s, m, mid, h), h = m + 1, Calls!Next
  PROVE  arrived' /\ PopStage(n, s, m, mid, m + 1)'
<1>0. n \in Nat /\ m \in Nat /\ call # Calls!Idle
  BY CallIs
<1>1. /\ h + 1 \in Nat /\ h + 1 <= m + m + n + 4 /\ h + 1 # 1 /\ ~(h + 1 <= m + 1) /\ h + 1 = m + 2
      /\ (h + 1) + 1 = m + m + 4 - (m + 1)
  BY <1>0
<1>2. WrapFrom(Tail(code), s, m, mid, n, m + m + 4 - (m + 1)) /\ Head(code) = WrapOp(s, m, mid, n, h + 1) /\ code # << >>
  <2>1. WrapFrom(Tail(code), s, m, mid, n, (h + 1) + 1) /\ Head(code) = WrapOp(s, m, mid, n, h + 1) /\ code # << >>
    BY <1>0, <1>1, WrapGoesOn DEF PushStage
  <2> QED
    BY <1>1, <2>1
<1>3. Head(code).op = "client"
  <2>1. WrapOp(s, m, mid, n, h + 1) = Calls!Op("client", "", 0)
    BY <1>1 DEF WrapOp
  <2>2. Head(code) = Calls!Op("client", "", 0)
    BY <1>2, <2>1
  <2>3. Calls!Op("client", "", 0).op = "client"
    BY OpIs
  <2> QED
    BY <2>2, <2>3
<1>4. Calls!RunInlineFunction /\ code' = Tail(code) /\ before' = before /\ UNCHANGED <<call, inline_callbacks, context_callbacks>>
  BY <1>0, <1>2, <1>3, OperationIs
<1>5. UNCHANGED <<stack, slots, arg_regs>>
  BY <1>4 DEF Calls!RunInlineFunction
<1>6. arrived'
  <2>1. \A k \in 1..n : regs[Calls!ArgGPRs[k]] = Calls!OperandValue(call.args[k], before)
    BY DEF PushStage, Argument
  <2>2. DOMAIN call.args = 1..n
    BY DEF IsCall
  <2>3. \A k \in DOMAIN call.args : regs[Calls!ArgGPRs[k]] = Calls!OperandValue(call.args[k], before)
    BY <2>1, <2>2
  <2>4. arrived' = \A k \in DOMAIN call.args : regs[Calls!ArgGPRs[k]] = Calls!OperandValue(call.args[k], before)
    BY <1>4 DEF Calls!RunInlineFunction
  <2> QED
    BY <2>3, <2>4, Zenon
<1>7. WrapFrom(code, s, m, mid, n, m + m + 4 - (m + 1))'
  BY <1>2, <1>4 DEF WrapFrom, IsList
<1>8. IsPushed(stack, before, s, m + 1)'
  BY <1>4, <1>5 DEF PushStage, IsPushed, IsList
<1>9. (\A k \in 1..n : slots[Argument(k)] = before[Argument(k)])'
  BY <1>4, <1>5 DEF Argument, PushStage
<1>10. (m + 1 \in 0..(m + 1) /\ m + 1 # 0 /\ \A a \in 1..m : ~(m + 1 <= a))'
  BY <1>0
<1> QED
  BY <1>6, <1>7, <1>8, <1>9, <1>10 DEF PopStage

LEMMA MachineContextIs ==
  DOMAIN Calls!MachineContext = 1..15 /\ \A k \in 1..15 : Calls!MachineContext[k] = Calls!GPRs[16 - k]
<1>1. PICK l \in Nat : l = 15
  OBVIOUS
<1>2. IsList(Calls!GPRs, l)
  <2>1. IsList(Calls!GPRs, Len(Calls!GPRs))
    BY GPRsSequence, SequenceIsList
  <2>2. Len(Calls!GPRs) = l
    BY <1>1, GPRsAre
  <2> QED
    BY <2>1, <2>2
<1>3. IsList(Calls!Reverse(Calls!GPRs), l) /\ \A i \in 1..l : Calls!Reverse(Calls!GPRs)[i] = Calls!GPRs[l + 1 - i]
  BY <1>2, ListReversed
<1>4. DOMAIN Calls!Reverse(Calls!GPRs) = 1..l
  BY <1>3, ListLen
<1>5. \A i \in 1..l : l + 1 - i = 16 - i
  BY <1>1
<1> QED
  BY <1>1, <1>3, <1>4, <1>5 DEF Calls!MachineContext

\* It is given the machine context: a change of a register there is one of the stack.
LEMMA ContextStep ==
  ASSUME FormInv, NEW n, NEW s, NEW m, NEW mid, IsCall(n, s, m, mid), mid = "context", NEW h,
         PushStage(n, s, m, mid, h), h = m + 1, Calls!Next
  PROVE  arrived' /\ PopStage(n, s, m, mid, m + 1)'
<1>0. n = 0 /\ s = Calls!GPRs /\ m = 15 /\ call # Calls!Idle /\ h = 16
  <2>1. n = 0 /\ s = Calls!GPRs /\ m = Len(s)
    BY DEF IsCall
  <2>2. call # Calls!Idle
    BY CallIs
  <2>3. m = 15
    BY <2>1, GPRsAre
  <2> QED
    BY <2>1, <2>2, <2>3
<1>1. /\ n \in Nat /\ m \in Nat /\ h + 1 \in Nat /\ h + 1 <= m + m + n + 4 /\ h + 1 # 1 /\ ~(h + 1 <= m + 1) /\ h + 1 = m + 2
      /\ (h + 1) + 1 = m + m + 4 - (m + 1)
  BY <1>0
<1>2. WrapFrom(Tail(code), s, m, mid, n, m + m + 4 - (m + 1)) /\ Head(code) = WrapOp(s, m, mid, n, h + 1) /\ code # << >>
  <2>1. WrapFrom(Tail(code), s, m, mid, n, (h + 1) + 1) /\ Head(code) = WrapOp(s, m, mid, n, h + 1) /\ code # << >>
    BY <1>1, WrapGoesOn DEF PushStage
  <2> QED
    BY <1>1, <2>1
<1>3. Head(code).op = "context"
  <2>1. WrapOp(s, m, mid, n, h + 1) = Calls!Op("context", "", 0)
    BY <1>1 DEF WrapOp
  <2>2. Head(code) = Calls!Op("context", "", 0)
    BY <1>2, <2>1
  <2>3. Calls!Op("context", "", 0).op = "context"
    BY OpIs
  <2> QED
    BY <2>2, <2>3
<1>4. Calls!RunContextFunction /\ code' = Tail(code) /\ UNCHANGED <<call, inline_callbacks, context_callbacks>>
  BY <1>0, <1>2, <1>3, OperationIs
<1>5. /\ IsList(stack, 18) /\ stack[18] = Calls!App("stack") /\ stack[17] = <<"return", "">> /\ stack[16] = Calls!App("flags")
      /\ \A a \in 1..15 : stack[16 - a] = before[Calls!GPRs[a]]
  <2>1. IsPushed(stack, before, Calls!GPRs, 16)
    BY <1>0 DEF PushStage
  <2>2. 16 + 2 = 18 /\ 16 + 1 = 17 /\ 16 - 1 = 15 /\ 16 # 0
    OBVIOUS
  <2> QED
    BY <2>1, <2>2 DEF IsPushed
<1>6. arrived'
  <2>1. ASSUME NEW k \in 1..15 PROVE stack[k] = before[Calls!MachineContext[k]]
    <3>1. 16 - k \in 1..15 /\ 16 - (16 - k) = k
      OBVIOUS
    <3>2. stack[16 - (16 - k)] = before[Calls!GPRs[16 - k]]
      BY <1>5, <3>1
    <3> QED
      BY <3>1, <3>2, MachineContextIs
  <2>2. \A k \in DOMAIN Calls!MachineContext : stack[k] = before[Calls!MachineContext[k]]
    BY <2>1, MachineContextIs
  <2>3. arrived' = \A k \in DOMAIN Calls!MachineContext : stack[k] = before[Calls!MachineContext[k]]
    BY <1>4 DEF Calls!RunContextFunction
  <2> QED
    BY <2>2, <2>3, Zenon
<1>7. WrapFrom(code, s, m, mid, n, m + m + 4 - (m + 1))'
  BY <1>2, <1>4 DEF WrapFrom, IsList
<1>8. IsPushed(stack', before', Calls!GPRs, 16)
  <2>1. CASE UNCHANGED <<stack, before>>
    <3>1. IsPushed(stack, before, Calls!GPRs, 16)
      BY <1>0 DEF PushStage
    <3> QED
      BY <2>1, <3>1
  <2>2. ASSUME NEW k \in 1..15, NEW v, stack' = [stack EXCEPT ![k] = v],
               before' = [before EXCEPT ![Calls!GPRs[16 - k]] = v]
        PROVE  IsPushed(stack', before', Calls!GPRs, 16)
    <3>1. 18 \in Nat /\ DOMAIN stack = 1..18 /\ stack = [i \in 1..18 |-> stack[i]]
      <4>1. stack = [i \in 1..18 |-> stack[i]]
        BY <1>5 DEF IsList
      <4> QED
        BY <4>1
    <3>2. stack' = [i \in 1..18 |-> IF i = k THEN v ELSE stack[i]]
      BY <2>2, <3>1
    <3>3. PICK w : w = stack'
      OBVIOUS
    <3>4. w = [i \in 1..18 |-> IF i = k THEN v ELSE stack[i]]
      BY <3>2, <3>3
    <3>5. IsList(w, 18)
      BY <3>4 DEF IsList
    <3>6. w[18] = stack[18] /\ w[17] = stack[17] /\ w[16] = stack[16]
      BY <3>4
    <3>7. PICK b : b = before'
      OBVIOUS
    <3>8. ASSUME NEW a \in 1..15 PROVE w[16 - a] = b[Calls!GPRs[a]]
      <4>1. 16 - a \in 1..18 /\ 16 - k \in 1..15
        OBVIOUS
      <4>2. DOMAIN before = Calls!AllGPRs
        BY DEF FormInv, OnRegisters
      <4>3. Calls!GPRs[a] \in Calls!AllGPRs /\ (Calls!GPRs[a] = Calls!GPRs[16 - k] <=> a = 16 - k)
        BY <4>1, GPRsAre
      <4>4. b[Calls!GPRs[a]] = IF a = 16 - k THEN v ELSE before[Calls!GPRs[a]]
        BY <2>2, <3>7, <4>2, <4>3
      <4>5. w[16 - a] = IF 16 - a = k THEN v ELSE stack[16 - a]
        BY <3>4, <4>1
      <4>6. 16 - a = k <=> a = 16 - k
        OBVIOUS
      <4> QED
        BY <1>5, <4>4, <4>5, <4>6
    <3>9. 16 + 2 = 18 /\ 16 + 1 = 17 /\ 16 - 1 = 15 /\ 16 # 0
      OBVIOUS
    <3>10. IsPushed(w, b, Calls!GPRs, 16)
      BY <1>5, <3>5, <3>6, <3>8, <3>9 DEF IsPushed
    <3> QED
      BY <3>3, <3>7, <3>10
  <2>3. \/ UNCHANGED <<stack, before>>
        \/ \E k \in 1..15 :
             /\ stack' = [stack EXCEPT ![k] = <<"hook", Calls!MachineContext[k]>>]
             /\ before' = [before EXCEPT ![Calls!MachineContext[k]] = <<"hook", Calls!MachineContext[k]>>]
    BY <1>4, MachineContextIs DEF Calls!RunContextFunction
  <2>4. \/ UNCHANGED <<stack, before>>
        \/ \E k \in 1..15 : \E v :
             stack' = [stack EXCEPT ![k] = v] /\ before' = [before EXCEPT ![Calls!GPRs[16 - k]] = v]
    BY <2>3, MachineContextIs
  <2> QED
    BY <2>1, <2>2, <2>4
<1>9. IsPushed(stack, before, s, m + 1)'
  <2>1. m + 1 = 16
    BY <1>0
  <2>2. IsPushed(stack', before', s, m + 1)
    BY <1>0, <1>8, <2>1
  <2> QED
    BY <2>2 DEF IsPushed, IsList
<1>10. (m + 1 \in 0..(m + 1) /\ m + 1 # 0 /\ 1..n = {} /\ \A a \in 1..m : ~(m + 1 <= a))'
  BY <1>0
<1> QED
  BY <1>6, <1>7, <1>9, <1>10 DEF PopStage

\* The wrapper pops a register, or the flags.
LEMMA PopStep ==
  ASSUME FormInv, NEW n, NEW s, NEW m, NEW mid, IsCall(n, s, m, mid), NEW h \in Nat,
         PopStage(n, s, m, mid, h + 1), Calls!Next
  PROVE  arrived' = arrived /\ PopStage(n, s, m, mid, h)'
<1>0. n \in Nat /\ m \in Nat /\ call # Calls!Idle /\ h <= m
  <2>1. n \in Nat /\ m \in Nat /\ call # Calls!Idle
    BY CallIs
  <2>2. h + 1 \in 0..(m + 1)
    BY DEF PopStage
  <2> QED
    BY <2>1, <2>2
<1>1. PICK q \in Nat : /\ q = m + m + 4 - (h + 1) /\ q + 1 = m + m + 4 - h /\ q <= m + m + n + 4 /\ q # 1
                       /\ ~(q <= m + 1) /\ q # m + 2 /\ (q <= m + m + 2 <=> h # 0) /\ (q = m + m + 3 <=> h = 0)
                       /\ m + m + 3 - q = h
  BY <1>0
<1>2. WrapFrom(Tail(code), s, m, mid, n, m + m + 4 - h) /\ Head(code) = WrapOp(s, m, mid, n, q) /\ code # << >>
  <2>1. WrapFrom(code, s, m, mid, n, q)
    BY <1>1 DEF PopStage
  <2>3. q \in Nat /\ q <= m + m + n + 4
    BY <1>1
  <2>2. WrapFrom(Tail(code), s, m, mid, n, q + 1) /\ Head(code) = WrapOp(s, m, mid, n, q) /\ code # << >>
    BY <1>0, <2>1, <2>3, WrapGoesOn
  <2> QED
    BY <1>1, <2>2
<1>3. IsPushed(stack, before, s, h + 1)
  BY DEF PopStage
<1>4. /\ IsPushed(Tail(stack), before, s, h)
      /\ Head(stack) = IF h = 0 THEN Calls!App("flags") ELSE before[s[h]]
  BY <1>3, PushedLess
<1>5. \A a \in 1..m : h + 1 <= a => regs[s[a]] = before[s[a]]
  BY DEF PopStage
<1>6. /\ stack' = Tail(stack) /\ code' = Tail(code) /\ arrived' = arrived
      /\ UNCHANGED <<slots, arg_regs, before, call, inline_callbacks, context_callbacks>>
      /\ h = 0 => flags' = Head(stack)
      /\ \A a \in 1..m : h <= a => regs'[s[a]] = before[s[a]]
  <2>1. CASE h = 0
    <3>1. WrapOp(s, m, mid, n, q) = Calls!Op("popfq", "", 0)
      BY <1>1, <2>1 DEF WrapOp
    <3>2. Head(code) = Calls!Op("popfq", "", 0)
      BY <1>2, <3>1
    <3>3. Calls!Op("popfq", "", 0).op = "popfq"
      BY OpIs
    <3>4. Head(code).op = "popfq"
      BY <3>2, <3>3
    <3>5. \A a \in 1..m : h + 1 <= a
      BY <2>1
    <3>6. /\ stack' = Tail(stack) /\ code' = Tail(code) /\ arrived' = arrived /\ flags' = Head(stack)
          /\ UNCHANGED <<slots, arg_regs, before, call, inline_callbacks, context_callbacks, regs>>
      BY <1>0, <1>2, <3>4, OperationIs
    <3> QED
      BY <1>5, <3>5, <3>6
  <2>2. CASE h # 0
    <3>1. WrapOp(s, m, mid, n, q) = Calls!Op("pop", s[h], 0)
      BY <1>1, <2>2 DEF WrapOp
    <3>2. Head(code) = Calls!Op("pop", s[h], 0)
      BY <1>2, <3>1
    <3>3. Calls!Op("pop", s[h], 0).op = "pop" /\ Calls!Op("pop", s[h], 0).reg = s[h]
      BY OpIs
    <3>4. Head(code).op = "pop" /\ Head(code).reg = s[h]
      BY <3>2, <3>3
    <3>5. /\ stack' = Tail(stack) /\ code' = Tail(code) /\ arrived' = arrived
          /\ regs' = [regs EXCEPT ![s[h]] = Head(stack)]
          /\ UNCHANGED <<slots, arg_regs, before, call, inline_callbacks, context_callbacks, flags>>
      BY <1>0, <1>2, <3>4, OperationIs
    <3>6. DOMAIN regs = Calls!AllGPRs
      BY DEF FormInv, OnRegisters
    <3>7. \A a \in 1..m : s[a] \in Calls!AllGPRs
      BY CallIs
    <3>8. ASSUME NEW a \in 1..m, h <= a PROVE regs'[s[a]] = before[s[a]]
      <4>1. CASE s[a] = s[h]
        BY <1>4, <2>2, <3>5, <3>6, <3>7, <4>1
      <4>2. CASE s[a] # s[h]
        <5>1. h + 1 <= a
          BY <3>8, <4>2
        <5> QED
          BY <1>5, <3>5, <3>6, <3>7, <4>2, <5>1
      <4> QED
        BY <4>1, <4>2
    <3> QED
      BY <2>2, <3>5, <3>8
  <2> QED
    BY <2>1, <2>2
<1>7. WrapFrom(code, s, m, mid, n, m + m + 4 - h)'
  BY <1>2, <1>6 DEF WrapFrom, IsList
<1>8. IsPushed(stack, before, s, h)'
  BY <1>4, <1>6 DEF IsPushed, IsList
<1>9. (h = 0 => AppFlags)'
  BY <1>4, <1>6 DEF AppFlags
<1>10. (\A k \in 1..n : slots[Argument(k)] = before[Argument(k)])'
  BY <1>6 DEF Argument, PopStage
<1>11. (\A a \in 1..m : h <= a => regs[s[a]] = before[s[a]])'
  BY <1>6
<1>12. (h \in 0..(m + 1))'
  BY <1>0
<1> QED
  BY <1>6, <1>7, <1>8, <1>9, <1>10, <1>11, <1>12 DEF PopStage

\* The wrapper returns.
LEMMA RetStep ==
  ASSUME FormInv, NEW n, NEW s, NEW m, NEW mid, IsCall(n, s, m, mid),
         PopStage(n, s, m, mid, 0), Calls!Next
  PROVE  arrived' = arrived /\ EndStage(n, s, m, mid, 0)'
<1>0. n \in Nat /\ m \in Nat /\ call # Calls!Idle
  BY CallIs
<1>1. PICK q \in Nat : /\ q = m + m + 4 - 0 /\ q + 1 = m + m + 5 + 0 /\ q <= m + m + n + 4 /\ q # 1
                       /\ ~(q <= m + 1) /\ q # m + 2 /\ ~(q <= m + m + 2) /\ q # m + m + 3 /\ q = m + m + 4
  BY <1>0
<1>2. WrapFrom(Tail(code), s, m, mid, n, m + m + 5 + 0) /\ Head(code) = WrapOp(s, m, mid, n, q) /\ code # << >>
  <2>1. WrapFrom(code, s, m, mid, n, q)
    BY <1>1 DEF PopStage
  <2>2. WrapFrom(Tail(code), s, m, mid, n, q + 1) /\ Head(code) = WrapOp(s, m, mid, n, q) /\ code # << >>
    BY <1>0, <1>1, <2>1, WrapGoesOn
  <2> QED
    BY <1>1, <2>2
<1>3. Head(code).op = "ret"
  <2>1. WrapOp(s, m, mid, n, q) = Calls!Op("ret", "", 0)
    BY <1>1 DEF WrapOp
  <2>2. Head(code) = Calls!Op("ret", "", 0)
    BY <1>2, <2>1
  <2>3. Calls!Op("ret", "", 0).op = "ret"
    BY OpIs
  <2> QED
    BY <2>2, <2>3
<1>4. /\ stack' = Tail(stack) /\ code' = Tail(code) /\ arrived' = arrived
      /\ UNCHANGED <<slots, flags, regs, arg_regs, before, call, inline_callbacks, context_callbacks>>
  BY <1>0, <1>2, <1>3, OperationIs
<1>5. AppStack'
  <2>1. PICK l \in Nat : l = 0 + 2 /\ l - 1 = 1 /\ l # 0 /\ 0 + 2 = 2
    OBVIOUS
  <2>2. IsList(stack, l) /\ stack[2] = Calls!App("stack")
    BY <2>1 DEF PopStage, IsPushed
  <2>3. PICK w : w = Tail(stack)
    OBVIOUS
  <2>4. IsList(w, l - 1) /\ \A i \in 1..(l - 1) : w[i] = stack[i + 1]
    BY <2>1, <2>2, <2>3, ListTail
  <2>5. w = [i \in 1..1 |-> w[i]] /\ w[1] = Calls!App("stack")
    BY <2>1, <2>2, <2>4 DEF IsList
  <2>6. PICK x : x = Calls!App("stack")
    OBVIOUS
  <2>7. w = <<x>>
    <3>1. <<x>> = [i \in 1..1 |-> x]
      OBVIOUS
    <3> QED
      BY <2>5, <2>6, <3>1
  <2> QED
    BY <1>4, <2>3, <2>6, <2>7 DEF AppStack
<1>6. WrapFrom(code, s, m, mid, n, m + m + 5 + 0)'
  BY <1>2, <1>4 DEF WrapFrom, IsList
<1>7. AppFlags'
  BY <1>4 DEF PopStage, AppFlags
<1>8. (\A k \in 1..n : slots[Argument(k)] = before[Argument(k)])'
  BY <1>4 DEF Argument, PopStage
<1>9. (\A a \in 1..m : regs[s[a]] = before[s[a]])'
  <2>1. \A a \in 1..m : 0 <= a
    OBVIOUS
  <2> QED
    BY <1>4, <2>1 DEF PopStage
<1>10. (0 \in 0..n /\ \A k \in 1..n : ~(n < k + 0))'
  BY <1>0
<1> QED
  BY <1>4, <1>5, <1>6, <1>7, <1>8, <1>9, <1>10 DEF EndStage

\* An argument register is restored from its slot.
LEMMA RestoreStep ==
  ASSUME FormInv, NEW n, NEW s, NEW m, NEW mid, IsCall(n, s, m, mid), NEW j,
         EndStage(n, s, m, mid, j), j # n, Calls!Next
  PROVE  arrived' = arrived /\ EndStage(n, s, m, mid, j + 1)'
<1>0. n \in Nat /\ m \in Nat /\ call # Calls!Idle /\ j \in Nat /\ j < n
  <2>1. n \in Nat /\ m \in Nat /\ call # Calls!Idle
    BY CallIs
  <2>2. j \in 0..n
    BY DEF EndStage
  <2> QED
    BY <2>1, <2>2
<1>1. PICK q \in Nat : /\ q = m + m + 5 + j /\ q + 1 = m + m + 5 + (j + 1) /\ q <= m + m + n + 4 /\ q # 1
                       /\ ~(q <= m + 1) /\ q # m + 2 /\ ~(q <= m + m + 2) /\ q # m + m + 3 /\ q # m + m + 4
                       /\ n + 1 - (q - (m + m + 4)) = n - j
  BY <1>0
<1>11. PICK k \in 1..n : k = n - j
  BY <1>0
<1>2. WrapFrom(Tail(code), s, m, mid, n, m + m + 5 + (j + 1)) /\ Head(code) = WrapOp(s, m, mid, n, q) /\ code # << >>
  <2>1. WrapFrom(code, s, m, mid, n, q)
    BY <1>1 DEF EndStage
  <2>2. WrapFrom(Tail(code), s, m, mid, n, q + 1) /\ Head(code) = WrapOp(s, m, mid, n, q) /\ code # << >>
    BY <1>0, <1>1, <2>1, WrapGoesOn
  <2> QED
    BY <1>1, <2>2
<1>3. Head(code).op = "restore" /\ Head(code).reg = Argument(k)
  <2>1. WrapOp(s, m, mid, n, q) = Calls!Op("restore", Argument(k), k)
    BY <1>1, <1>11 DEF WrapOp, RestoreOp, Argument
  <2>2. Head(code) = Calls!Op("restore", Argument(k), k)
    BY <1>2, <2>1
  <2>3. Calls!Op("restore", Argument(k), k).op = "restore" /\ Calls!Op("restore", Argument(k), k).reg = Argument(k)
    BY OpIs
  <2> QED
    BY <2>2, <2>3
<1>4. /\ regs' = [regs EXCEPT ![Argument(k)] = slots[Argument(k)]] /\ code' = Tail(code) /\ arrived' = arrived
      /\ UNCHANGED <<slots, flags, stack, arg_regs, before, call, inline_callbacks, context_callbacks>>
  BY <1>0, <1>2, <1>3, OperationIs
<1>5. slots[Argument(k)] = before[Argument(k)]
  BY DEF EndStage
<1>6. \A r \in Calls!AllGPRs : regs'[r] = IF r = Argument(k) THEN before[r] ELSE regs[r]
  <2>1. DOMAIN regs = Calls!AllGPRs
    BY DEF FormInv, OnRegisters
  <2> QED
    BY <1>4, <1>5, <2>1
<1>7. WrapFrom(code, s, m, mid, n, m + m + 5 + (j + 1))'
  BY <1>2, <1>4 DEF WrapFrom, IsList
<1>8. AppFlags' /\ AppStack'
  BY <1>4 DEF EndStage, AppFlags, AppStack
<1>9. (\A l \in 1..n : slots[Argument(l)] = before[Argument(l)])'
  BY <1>4 DEF Argument, EndStage
<1>10. (\A l \in 1..n : n < l + (j + 1) => regs[Argument(l)] = before[Argument(l)])'
  <2>1. ASSUME NEW l \in 1..n, n < l + (j + 1) PROVE regs'[Argument(l)] = before[Argument(l)]
    <3>1. Argument(l) \in Calls!AllGPRs
      BY CallIs
    <3>2. l = k \/ n < l + j
      BY <1>0, <1>11, <2>1
    <3>3. n < l + j => regs[Argument(l)] = before[Argument(l)]
      BY DEF EndStage
    <3> QED
      BY <1>6, <3>1, <3>2, <3>3
  <2> QED
    BY <1>4, <2>1 DEF Argument
<1>12. (\A a \in 1..m : regs[s[a]] = before[s[a]])'
  <2>1. \A a \in 1..m : s[a] \in Calls!AllGPRs
    BY CallIs
  <2>2. \A a \in 1..m : regs[s[a]] = before[s[a]]
    BY DEF EndStage
  <2> QED
    BY <1>4, <1>6, <2>1, <2>2
<1>13. (j + 1 \in 0..n)'
  BY <1>0
<1> QED
  BY <1>4, <1>7, <1>8, <1>9, <1>10, <1>12, <1>13 DEF EndStage

\* Where nothing is left to be executed, all is as before the call.
LEMMA CodeIsLeft ==
  ASSUME FormInv, NEW n, NEW s, NEW m, NEW mid, IsCall(n, s, m, mid), InCall(n, s, m, mid), code = << >>
  PROVE  regs = before /\ AppFlags /\ AppStack
<1>0. n \in Nat /\ m \in Nat
  BY CallIs
<1>1. ASSUME NEW p \in 1..(n + n + n + 1), StartStage(n, s, m, mid, p) PROVE FALSE
  <2>1. p \in Nat /\ p <= n + n + n + n + 1
    BY <1>0
  <2> QED
    BY <1>0, <1>1, <2>1, StartGoesOn DEF StartStage
<1>2. ASSUME NEW q \in Nat, q <= m + m + n + 4, WrapFrom(code, s, m, mid, n, q) PROVE FALSE
  BY <1>0, <1>2, WrapGoesOn
<1>3. ASSUME NEW h \in 0..(m + 1), PushStage(n, s, m, mid, h) PROVE FALSE
  <2>1. h + 1 \in Nat /\ h + 1 <= m + m + n + 4
    BY <1>0
  <2> QED
    BY <1>2, <1>3, <2>1 DEF PushStage
<1>4. ASSUME NEW h \in 0..(m + 1), PopStage(n, s, m, mid, h) PROVE FALSE
  <2>1. m + m + 4 - h \in Nat /\ m + m + 4 - h <= m + m + n + 4
    BY <1>0
  <2> QED
    BY <1>2, <1>4, <2>1 DEF PopStage
<1>5. ASSUME NEW j \in 0..n, EndStage(n, s, m, mid, j) PROVE regs = before /\ AppFlags /\ AppStack
  <2>1. j = n
    <3>1. j # n => m + m + 5 + j \in Nat /\ m + m + 5 + j <= m + m + n + 4
      BY <1>0
    <3> QED
      BY <1>2, <1>5, <3>1 DEF EndStage
  <2>2. \A k \in 1..n : n < k + j
    BY <1>0, <2>1
  <2>3. \A r \in Calls!AllGPRs : (\E a \in 1..m : s[a] = r) \/ \E k \in 1..n : Argument(k) = r
    BY CallIs
  <2>4. \A r \in Calls!AllGPRs : regs[r] = before[r]
    BY <1>5, <2>2, <2>3 DEF EndStage
  <2>5. regs = before
    BY <2>4 DEF FormInv, OnRegisters
  <2> QED
    BY <1>5, <2>5 DEF EndStage
<1> QED
  BY <1>1, <1>3, <1>4, <1>5 DEF InCall

\* Wrappers stay what they are.
LEMMA CallbacksKept ==
  ASSUME CallbacksInv, Calls!Next
  PROVE  CallbacksInv'
<1>1. ASSUME NEW f \in InlineFunctions, Calls!InlineCall(f) PROVE CallbacksInv'
  <2>1. PICK args \in Arguments[f] :
          inline_callbacks' = IF inline_callbacks[f] # << >> THEN inline_callbacks
                              ELSE [inline_callbacks EXCEPT ![f] = Calls!GenerateInlineCallCode(Len(args))]
    BY <1>1 DEF Calls!InlineCall
  <2>2. PICK n \in 0..6 : \A a \in Arguments[f] : Len(a) = n
    <3>1. PICK n \in 0..6 : Arguments[f] \subseteq [1..n -> [kind : {"imm", "reg", "mem"}, reg : Calls!AllGPRs \cup {"none"}]]
      BY CallsAssumption, ArgGPRsAre
    <3>2. ASSUME NEW T, NEW a \in [1..n -> T] PROVE Len(a) = n
      OBVIOUS
    <3> QED
      BY <3>1, <3>2
  <2>3. PICK x : x = Calls!GenerateInlineCallCode(n)
    OBVIOUS
  <2>4. \A a \in Arguments[f] : Calls!GenerateInlineCallCode(Len(a)) = x
    BY <2>2, <2>3
  <2>5. /\ inline_callbacks = [g \in InlineFunctions |-> inline_callbacks[g]]
        /\ \A g \in InlineFunctions : \/ inline_callbacks[g] = << >>
                                      \/ \A a \in Arguments[g] : inline_callbacks[g] = Calls!GenerateInlineCallCode(Len(a))
    BY DEF CallbacksInv
  <2>6. inline_callbacks' = inline_callbacks \/ inline_callbacks' = [inline_callbacks EXCEPT ![f] = x]
    BY <2>1, <2>4
  <2>7. /\ inline_callbacks' = [g \in InlineFunctions |-> inline_callbacks'[g]]
        /\ \A g \in InlineFunctions : inline_callbacks'[g] = inline_callbacks[g] \/ (g = f /\ inline_callbacks'[g] = x)
    BY <2>5, <2>6
  <2>8. \A g \in InlineFunctions : \/ inline_callbacks'[g] = << >>
                                   \/ \A a \in Arguments[g] : inline_callbacks'[g] = Calls!GenerateInlineCallCode(Len(a))
    BY <2>4, <2>5, <2>7
  <2>9. context_callbacks' = context_callbacks
    BY <1>1 DEF Calls!InlineCall
  <2> QED
    BY <2>7, <2>8, <2>9 DEF CallbacksInv
<1>2. ASSUME NEW f \in ContextFunctions, Calls!ContextCall(f) PROVE CallbacksInv'
  <2>1. PICK x : x = Calls!GenerateContextCallCode
    OBVIOUS
  <2>2. /\ inline_callbacks' = inline_callbacks
        /\ context_callbacks' = context_callbacks \/ context_callbacks' = [context_callbacks EXCEPT ![f] = x]
    BY <1>2, <2>1 DEF Calls!ContextCall
  <2>3. context_callbacks = [g \in ContextFunctions |-> context_callbacks[g]] /\ \A g \in ContextFunctions : context_callbacks[g] \in {<< >>, x}
    BY <2>1 DEF CallbacksInv
  <2>4. context_callbacks' = [g \in ContextFunctions |-> context_callbacks'[g]] /\ \A g \in ContextFunctions : context_callbacks'[g] \in {<< >>, x}
    BY <2>2, <2>3
  <2> QED
    BY <2>1, <2>2, <2>4 DEF CallbacksInv
<1>3. CASE UNCHANGED <<inline_callbacks, context_callbacks>>
  BY <1>3 DEF CallbacksInv
<1>4. \/ \E f \in InlineFunctions : Calls!InlineCall(f)
      \/ \E f \in ContextFunctions : Calls!ContextCall(f)
      \/ UNCHANGED <<inline_callbacks, context_callbacks>>
  <2>1. CASE Calls!RunInlineFunction
    BY <2>1 DEF Calls!RunInlineFunction, Calls!Tables
  <2>2. CASE Calls!RunContextFunction
    BY <2>2 DEF Calls!RunContextFunction, Calls!Tables
  <2>3. CASE Calls!Return
    BY <2>3 DEF Calls!Return
  <2>4. CASE Calls!SaveRestoreRegister \/ Calls!CopyOperand \/ Calls!MoveArg
    BY <2>4 DEF Calls!SaveRestoreRegister, Calls!CopyOperand, Calls!MoveArg, Calls!Tables
  <2>5. CASE Calls!CallWrapper \/ Calls!PushRegister \/ Calls!PopRegister
    BY <2>5 DEF Calls!CallWrapper, Calls!PushRegister, Calls!PopRegister, Calls!Tables
  <2> QED
    BY <2>1, <2>2, <2>3, <2>4, <2>5 DEF Calls!Next
<1> QED
  BY <1>1, <1>2, <1>3, <1>4

\* A call begins.
LEMMA StageBegins ==
  ASSUME AtRest, NEW n, NEW s, NEW m, NEW mid, IsCall(n, s, m, mid)', IsWrapper(CalledWrapper', s, m, mid),
         StartFrom(code', n, 1), before' = regs, UNCHANGED <<regs, flags, stack, slots, arg_regs>>
  PROVE  InCall(n, s, m, mid)'
<1>1. n \in Nat
  BY DEF IsCall
<1>2. (1 \in 1..(n + n + n + 1) /\ \A k \in 1..n : ~(k < 1) /\ ~(n + k < 1) /\ ~(n + n + k < 1))'
  BY <1>1
<1>3. StartFrom(code, n, 1)'
  BY DEF StartFrom, IsList
<1>4. IsWrapper(CalledWrapper, s, m, mid)'
  BY DEF IsWrapper, IsList
<1>5. AppFlags' /\ AppStack'
  BY DEF AtRest, AppFlags, AppStack
<1>6. SlotsSaved(n, 1)' /\ OperandsCopied(n, 1)' /\ OperandsMoved(n, 1)'
  BY <1>2 DEF SlotsSaved, OperandsCopied, OperandsMoved
<1>7. StartStage(n, s, m, mid, 1)'
  BY <1>2, <1>3, <1>4, <1>5, <1>6 DEF StartStage
<1> QED
  BY <1>2, <1>7 DEF InCall

LEMMA InlineBegins ==
  ASSUME FormInv, CallbacksInv, AtRest, NEW f \in InlineFunctions, Calls!InlineCall(f)
  PROVE  (\E n, s, m, mid : IsCall(n, s, m, mid) /\ InCall(n, s, m, mid))'
<1>1. PICK args \in Arguments[f] :
        /\ inline_callbacks' = IF inline_callbacks[f] # << >> THEN inline_callbacks
                               ELSE [inline_callbacks EXCEPT ![f] = Calls!GenerateInlineCallCode(Len(args))]
        /\ code' = Calls!InlineCallCode(args)
        /\ call' = [func |-> f, args |-> args]
  BY DEF Calls!InlineCall
<1>2. before' = regs /\ UNCHANGED <<regs, flags, stack, slots, arg_regs>>
  BY DEF Calls!InlineCall
<1>3. PICK n \in 0..6 : DOMAIN args = 1..n /\ Len(args) = n
  <2>1. PICK n \in 0..6 : Arguments[f] \subseteq [1..n -> [kind : {"imm", "reg", "mem"}, reg : Calls!AllGPRs \cup {"none"}]]
    BY CallsAssumption, ArgGPRsAre
  <2>2. ASSUME NEW T, NEW a \in [1..n -> T] PROVE DOMAIN a = 1..n /\ Len(a) = n
    OBVIOUS
  <2> QED
    BY <2>1, <2>2
<1>4. PICK s : s = Calls!Saved(n)
  OBVIOUS
<1>5. IsSaved(s, n)
  BY <1>4, SavedIs
<1>6. PICK m \in Nat : m = Len(s) /\ IsList(s, m)
  <2>1. s \in Seq(Calls!AllGPRs) /\ Len(s) \in Nat
    BY <1>5 DEF IsSaved
  <2> QED
    BY <2>1, SequenceIsList
<1>7. inline_callbacks'[f] = Calls!GenerateInlineCallCode(n)
  <2>1. PICK x : x = Calls!GenerateInlineCallCode(n)
    OBVIOUS
  <2>2. f \in DOMAIN inline_callbacks /\ (inline_callbacks[f] = << >> \/ inline_callbacks[f] = x)
    BY <1>3, <2>1 DEF CallbacksInv
  <2>3. inline_callbacks' = IF inline_callbacks[f] # << >> THEN inline_callbacks ELSE [inline_callbacks EXCEPT ![f] = x]
    BY <1>1, <1>3, <2>1
  <2> QED
    BY <2>1, <2>2, <2>3
<1>8. Calls!GenerateInlineCallCode(n) = WrapperOf(s, "client")
  BY <1>4 DEF Calls!GenerateInlineCallCode, WrapperOf
<1>9. call'.func = f /\ call'.args = args
  BY <1>1
<1>10. IsWrapper(CalledWrapper', s, m, "client")
  <2>1. CalledWrapper' = WrapperOf(s, "client")
    BY <1>7, <1>8, <1>9 DEF CalledWrapper
  <2>2. IsWrapper(WrapperOf(s, "client"), s, m, "client")
    BY <1>6, WrapperIs
  <2> QED
    BY <2>1, <2>2
<1>11. StartFrom(code', n, 1)
  <2>1. n \in Nat
    OBVIOUS
  <2>2. StartFrom(Calls!InlineCallCode(args), n, 1)
    BY <1>3, <2>1, InlineCallCodeIs
  <2> QED
    BY <1>1, <2>2
<1>12. IsCall(n, s, m, "client")'
  BY <1>3, <1>5, <1>6, <1>9 DEF IsCall, IsSaved
<1>13. InCall(n, s, m, "client")'
  BY <1>2, <1>10, <1>11, <1>12, StageBegins
<1> QED
  BY <1>12, <1>13

LEMMA ContextBegins ==
  ASSUME FormInv, CallbacksInv, AtRest, NEW f \in ContextFunctions, Calls!ContextCall(f)
  PROVE  (\E n, s, m, mid : IsCall(n, s, m, mid) /\ InCall(n, s, m, mid))'
<1>1. /\ context_callbacks' = IF context_callbacks[f] # << >> THEN context_callbacks
                              ELSE [context_callbacks EXCEPT ![f] = Calls!GenerateContextCallCode]
      /\ code' = <<Calls!Op("call", "", 0)>>
      /\ call' = [func |-> f, args |-> << >>]
      /\ before' = regs /\ UNCHANGED <<regs, flags, stack, slots, arg_regs>>
  BY DEF Calls!ContextCall
<1>2. PICK s : s = Calls!GPRs
  OBVIOUS
<1>3. s \in Seq(Calls!AllGPRs) /\ Len(s) = 15
  BY <1>2, GPRsSequence, GPRsAre
<1>4. IsList(s, 15)
  <2>1. IsList(s, Len(s))
    BY <1>3, SequenceIsList
  <2> QED
    BY <1>3, <2>1
<1>5. IsSaved(s, 0)
  <2>1. \A r \in Calls!AllGPRs : Calls!Saves(r, 0)
    <3>1. \A k \in 1..6 : k > 0
      OBVIOUS
    <3> QED
      BY <3>1, ArgGPRsAre DEF Calls!Saves
  <2> QED
    BY <1>2, <1>3, <2>1, GPRsAre DEF IsSaved
<1>6. context_callbacks'[f] = Calls!GenerateContextCallCode
  <2>1. PICK x : x = Calls!GenerateContextCallCode
    OBVIOUS
  <2>2. f \in DOMAIN context_callbacks /\ (context_callbacks[f] = << >> \/ context_callbacks[f] = x)
    BY <2>1 DEF CallbacksInv
  <2>3. context_callbacks' = IF context_callbacks[f] # << >> THEN context_callbacks ELSE [context_callbacks EXCEPT ![f] = x]
    BY <1>1, <2>1
  <2> QED
    BY <2>1, <2>2, <2>3
<1>7. Calls!GenerateContextCallCode = WrapperOf(s, "context")
  BY <1>2 DEF Calls!GenerateContextCallCode, WrapperOf, Calls!MachineContext
<1>8. call'.func = f /\ call'.args = << >> /\ f \notin InlineFunctions
  BY <1>1, CallsAssumption
<1>9. IsWrapper(CalledWrapper', s, 15, "context")
  <2>1. CalledWrapper' = WrapperOf(s, "context")
    BY <1>6, <1>7, <1>8 DEF CalledWrapper
  <2>2. IsWrapper(WrapperOf(s, "context"), s, 15, "context")
    BY <1>4, WrapperIs
  <2> QED
    BY <2>1, <2>2
<1>10. StartFrom(code', 0, 1)
  <2>1. PICK c : c = <<Calls!Op("call", "", 0)>>
    OBVIOUS
  <2>2. IsList(c, 1) /\ c[1] = Calls!Op("call", "", 0)
    BY <2>1, ListOfOne
  <2>3. 0 + 0 + 0 + 0 + 2 - 1 = 1 /\ 1 + 1 - 1 = 1 /\ ~(1 <= 0) /\ ~(1 <= 0 + 0) /\ ~(1 <= 0 + 0 + 0) /\ 1 = 0 + 0 + 0 + 1
    OBVIOUS
  <2>4. StartOp(0, 1) = Calls!Op("call", "", 0)
    BY <2>3 DEF StartOp
  <2>5. \A i \in 1..1 : c[i] = StartOp(0, 1 + i - 1)
    <3>1. \A i \in 1..1 : i = 1 /\ 1 + i - 1 = 1
      OBVIOUS
    <3> QED
      BY <2>2, <2>4, <3>1
  <2>6. StartFrom(c, 0, 1)
    BY <2>2, <2>3, <2>5 DEF StartFrom
  <2> QED
    BY <1>1, <2>1, <2>6
<1>11. IsCall(0, s, 15, "context")'
  <2>1. DOMAIN << >> = 1..0
    OBVIOUS
  <2>2. 0 \in 0..6 /\ 15 \in Nat
    OBVIOUS
  <2> QED
    BY <1>2, <1>3, <1>5, <1>8, <2>1, <2>2 DEF IsCall, IsSaved
<1>12. InCall(0, s, 15, "context")'
  BY <1>1, <1>9, <1>10, <1>11, StageBegins
<1> QED
  BY <1>11, <1>12

LEMMA InCallKept ==
  ASSUME FormInv, arrived, NEW n, NEW s, NEW m, NEW mid, IsCall(n, s, m, mid), InCall(n, s, m, mid),
         code # << >>, Calls!Next
  PROVE  arrived' /\ IsCall(n, s, m, mid)' /\ InCall(n, s, m, mid)'
<1>0. n \in Nat /\ m \in Nat /\ call # Calls!Idle
  BY CallIs
<1>1. IsCall(n, s, m, mid)'
  <2>1. call' = call
    BY <1>0, OperationIs
  <2> QED
    BY <2>1 DEF IsCall, IsSaved
<1>2. ASSUME NEW p \in 1..(n + n + n + 1), StartStage(n, s, m, mid, p) PROVE arrived' /\ InCall(n, s, m, mid)'
  <2>1. p \in Nat
    BY <1>0
  <2>2. CASE p = n + n + n + 1
    <3>1. arrived' = arrived /\ PushStage(n, s, m, mid, 0)'
      BY <1>2, <2>2, EnterStep
    <3>2. (0 \in 0..(m + 1))'
      BY <1>0
    <3>3. InCall(n, s, m, mid)'
      BY <3>1, <3>2 DEF InCall
    <3> QED
      BY <3>1, <3>3, Zenon
  <2>3. CASE p # n + n + n + 1
    <3>1. p <= n \/ (n < p /\ p <= n + n) \/ (n + n < p /\ p <= n + n + n)
      BY <1>0, <2>1, <2>3
    <3>2. arrived' = arrived /\ StartStage(n, s, m, mid, p + 1)'
      BY <1>2, <3>1, SaveStep, CopyStep, MoveStep
    <3>3. (p + 1 \in 1..(n + n + n + 1))'
      BY <1>0, <2>1, <2>3
    <3>4. InCall(n, s, m, mid)'
      BY <3>2, <3>3 DEF InCall
    <3> QED
      BY <3>2, <3>4, Zenon
  <2> QED
    BY <2>2, <2>3
<1>3. ASSUME NEW h \in 0..(m + 1), PushStage(n, s, m, mid, h) PROVE arrived' /\ InCall(n, s, m, mid)'
  <2>1. h \in Nat /\ (h <= m \/ h = m + 1)
    BY <1>0
  <2>2. CASE h <= m
    <3>1. arrived' = arrived /\ PushStage(n, s, m, mid, h + 1)'
      BY <1>3, <2>2, PushStep
    <3>2. (h + 1 \in 0..(m + 1))'
      BY <1>0, <2>1, <2>2
    <3>3. InCall(n, s, m, mid)'
      BY <3>1, <3>2 DEF InCall
    <3> QED
      BY <3>1, <3>3, Zenon
  <2>3. CASE h = m + 1
    <3>1. mid = "client" \/ mid = "context"
      BY DEF IsCall
    <3>2. arrived' /\ PopStage(n, s, m, mid, m + 1)'
      <4>1. CASE mid = "client"
        BY <1>3, <2>3, <4>1, ClientStep
      <4>2. CASE mid = "context"
        BY <1>3, <2>3, <4>2, ContextStep
      <4> QED
        BY <3>1, <4>1, <4>2
    <3>3. (m + 1 \in 0..(m + 1))'
      BY <1>0
    <3>4. InCall(n, s, m, mid)'
      BY <3>2, <3>3 DEF InCall
    <3> QED
      BY <3>2, <3>4, Zenon
  <2> QED
    BY <2>1, <2>2, <2>3
<1>4. ASSUME NEW h \in 0..(m + 1), PopStage(n, s, m, mid, h) PROVE arrived' /\ InCall(n, s, m, mid)'
  <2>2. CASE h = 0
    <3>1. arrived' = arrived /\ EndStage(n, s, m, mid, 0)'
      BY <1>4, <2>2, RetStep
    <3>2. (0 \in 0..n)'
      BY <1>0
    <3>3. InCall(n, s, m, mid)'
      BY <3>1, <3>2 DEF InCall
    <3> QED
      BY <3>1, <3>3, Zenon
  <2>3. CASE h # 0
    <3>1. PICK l \in Nat : h = l + 1 /\ l \in 0..(m + 1)
      <4>1. h - 1 \in Nat /\ h = (h - 1) + 1 /\ h - 1 \in 0..(m + 1)
        BY <1>0, <2>3
      <4> QED
        BY <4>1
    <3>2. arrived' = arrived /\ PopStage(n, s, m, mid, l)'
      BY <1>4, <3>1, PopStep
    <3>3. (l \in 0..(m + 1))'
      BY <3>1
    <3>4. InCall(n, s, m, mid)'
      BY <3>2, <3>3 DEF InCall
    <3> QED
      BY <3>2, <3>4, Zenon
  <2> QED
    BY <2>2, <2>3
<1>5. ASSUME NEW j \in 0..n, EndStage(n, s, m, mid, j) PROVE arrived' /\ InCall(n, s, m, mid)'
  <2>1. j # n
    <3>1. ASSUME j = n PROVE FALSE
      <4>1. PICK q : q = m + m + 5 + j /\ m + m + n + 5 - q = 0
        BY <1>0, <3>1
      <4>2. IsList(code, 0)
        BY <1>5, <4>1 DEF EndStage, WrapFrom
      <4> QED
        BY <4>2, ListLen
    <3> QED
      BY <3>1
  <2>2. arrived' = arrived /\ EndStage(n, s, m, mid, j + 1)'
    BY <1>5, <2>1, RestoreStep
  <2>3. (j + 1 \in 0..n)'
    BY <1>0, <2>1
  <2>4. InCall(n, s, m, mid)'
    BY <2>2, <2>3 DEF InCall
  <2> QED
    BY <2>2, <2>4, Zenon
<1>6. arrived' /\ InCall(n, s, m, mid)'
  BY <1>2, <1>3, <1>4, <1>5 DEF InCall
<1> QED
  BY <1>1, <1>6

LEMMA CallsInitially == Calls!Init => CallsInv
<1> SUFFICES ASSUME Calls!Init PROVE CallsInv
  OBVIOUS
<1>1. arrived
  <2>1. arrived = TRUE
    BY DEF Calls!Init
  <2> QED
    BY <2>1, Zenon
<1>2. FormInv
  <2>1. /\ regs = [r \in Calls!AllGPRs |-> Calls!App(r)] /\ before = regs
        /\ slots = [r \in Calls!AllGPRs |-> Calls!NoValue] /\ arg_regs = [k \in 1..6 |-> Calls!NoValue]
    BY ArgGPRsAre DEF Calls!Init
  <2> QED
    BY <2>1 DEF FormInv, OnRegisters
<1>3. CallbacksInv
  <2>1. inline_callbacks = [f \in InlineFunctions |-> << >>] /\ context_callbacks = [f \in ContextFunctions |-> << >>]
    BY DEF Calls!Init
  <2> QED
    BY <2>1 DEF CallbacksInv
<1>4. AtRest
  BY DEF Calls!Init, AtRest, AppFlags, AppStack
<1> QED
  BY <1>1, <1>2, <1>3, <1>4 DEF CallsInv

LEMMA CallsStep ==
  ASSUME CallsInv, Calls!Next
  PROVE  CallsInv'
<1>1. arrived /\ FormInv /\ CallbacksInv
  BY DEF CallsInv
<1>2. FormInv' /\ CallbacksInv'
  BY <1>1, FormKept, CallbacksKept
<1>3. CASE AtRest
  <2>1. call = Calls!Idle /\ code = << >>
    BY <1>3 DEF AtRest
  <2>2. ~Calls!SaveRestoreRegister /\ ~Calls!CopyOperand /\ ~Calls!MoveArg /\ ~Calls!CallWrapper /\ ~Calls!PushRegister /\ ~Calls!PopRegister
    BY <2>1 DEF Calls!SaveRestoreRegister, Calls!CopyOperand, Calls!MoveArg, Calls!CallWrapper, Calls!PushRegister, Calls!PopRegister, Calls!At
  <2>3. ~Calls!RunInlineFunction /\ ~Calls!RunContextFunction /\ ~Calls!Return
    BY <2>1 DEF Calls!RunInlineFunction, Calls!RunContextFunction, Calls!Return, Calls!At
  <2>4. (\E f \in InlineFunctions : Calls!InlineCall(f)) \/ (\E f \in ContextFunctions : Calls!ContextCall(f))
    BY <2>2, <2>3 DEF Calls!Next
  <2>5. (\E n, s, m, mid : IsCall(n, s, m, mid) /\ InCall(n, s, m, mid))'
    BY <1>1, <1>3, <2>4, InlineBegins, ContextBegins
  <2>6. arrived' = arrived
    BY <2>4 DEF Calls!InlineCall, Calls!ContextCall
  <2>7. arrived'
    BY <1>1, <2>6, Zenon
  <2> QED
    BY <1>2, <2>5, <2>7 DEF CallsInv
<1>4. ASSUME NEW n, NEW s, NEW m, NEW mid, IsCall(n, s, m, mid), InCall(n, s, m, mid) PROVE CallsInv'
  <2>1. call # Calls!Idle
    BY <1>4, CallIs
  <2>2. CASE code # << >>
    <3>1. arrived' /\ IsCall(n, s, m, mid)' /\ InCall(n, s, m, mid)'
      BY <1>1, <1>4, <2>2, InCallKept
    <3> QED
      BY <1>2, <3>1 DEF CallsInv
  <2>3. CASE code = << >>
    <3>1. regs = before /\ AppFlags /\ AppStack
      BY <1>1, <1>4, <2>3, CodeIsLeft
    <3>2. ~Calls!SaveRestoreRegister /\ ~Calls!CopyOperand /\ ~Calls!MoveArg /\ ~Calls!CallWrapper /\ ~Calls!PushRegister /\ ~Calls!PopRegister
      BY <2>3 DEF Calls!SaveRestoreRegister, Calls!CopyOperand, Calls!MoveArg, Calls!CallWrapper, Calls!PushRegister, Calls!PopRegister, Calls!At
    <3>3. ~Calls!RunInlineFunction /\ ~Calls!RunContextFunction
      BY <2>3 DEF Calls!RunInlineFunction, Calls!RunContextFunction, Calls!At
    <3>4. (\A f \in InlineFunctions : ~Calls!InlineCall(f)) /\ (\A f \in ContextFunctions : ~Calls!ContextCall(f))
      BY <2>1 DEF Calls!InlineCall, Calls!ContextCall
    <3>5. Calls!Return
      BY <3>2, <3>3, <3>4 DEF Calls!Next
    <3>6. call' = Calls!Idle /\ code' = << >> /\ arrived' = arrived /\ UNCHANGED <<regs, before, flags, stack>>
      BY <2>3, <3>5 DEF Calls!Return
    <3>7. AtRest'
      <4>1. (call = Calls!Idle)'
        BY <3>6 DEF Calls!Idle
      <4> QED
        BY <3>1, <3>6, <4>1 DEF AtRest, AppFlags, AppStack
    <3>8. arrived'
      BY <1>1, <3>6, Zenon
    <3> QED
      BY <1>2, <3>7, <3>8 DEF CallsInv
  <2> QED
    BY <2>2, <2>3
<1> QED
  BY <1>3, <1>4 DEF CallsInv

LEMMA CallsShown == CallsInv => CallsTransparent
<1> SUFFICES ASSUME CallsInv PROVE CallsTransparent
  OBVIOUS
<1>1. Calls!ArgumentsArrive
  BY DEF CallsInv, Calls!ArgumentsArrive
<1>2. Calls!StatePreserved
  <2> SUFFICES ASSUME code = << >> PROVE regs = before /\ flags = Calls!App("flags") /\ stack = <<Calls!App("stack")>>
    BY DEF Calls!StatePreserved
  <2>1. regs = before /\ AppFlags /\ AppStack
    <3>1. CASE AtRest
      BY <3>1 DEF AtRest
    <3>2. ASSUME NEW n, NEW s, NEW m, NEW mid, IsCall(n, s, m, mid), InCall(n, s, m, mid)
          PROVE  regs = before /\ AppFlags /\ AppStack
      <4>1. FormInv
        BY DEF CallsInv
      <4> QED
        BY <3>2, <4>1, CodeIsLeft
    <3> QED
      BY <3>1, <3>2 DEF CallsInv
  <2> QED
    BY <2>1 DEF AppFlags, AppStack
<1> QED
  BY <1>1, <1>2 DEF CallsTransparent

\* Calls out of the code cache are transparent: a tool's function finds the values that
\* its operands had at the call, or the application's registers in its context, and
\* behind the call registers, flags and stack are those before it, for any functions of
\* tools and any operands, also ones that name argument registers (call.cc, context.cc).
THEOREM CallsTransparentHolds == Calls!Spec => []CallsTransparent
<1>1. Calls!Init => CallsInv
  BY CallsInitially
<1>2. CallsInv /\ [Calls!Next]_(Calls!vars) => CallsInv'
  <2> SUFFICES ASSUME CallsInv, [Calls!Next]_(Calls!vars) PROVE CallsInv'
    OBVIOUS
  <2>1. CASE Calls!Next
    BY <2>1, CallsStep
  <2>2. CASE UNCHANGED Calls!vars
    <3>1. UNCHANGED <<inline_callbacks, context_callbacks, regs, flags, stack, slots, arg_regs, code, call, before, arrived>>
      BY <2>2 DEF Calls!vars
    <3>2. FormInv' /\ CallbacksInv'
      BY <3>1 DEF CallsInv, FormInv, OnRegisters, CallbacksInv
    <3>3. arrived'
      <4>1. arrived
        BY DEF CallsInv
      <4>2. arrived' = arrived
        BY <3>1
      <4> QED
        BY <4>1, <4>2, Zenon
    <3>4. CASE AtRest
      <4>1. AtRest'
        BY <3>1, <3>4 DEF AtRest, AppFlags, AppStack, Calls!Idle
      <4> QED
        BY <3>2, <3>3, <4>1 DEF CallsInv
    <3>5. ASSUME NEW n, NEW s, NEW m, NEW mid, IsCall(n, s, m, mid), InCall(n, s, m, mid) PROVE CallsInv'
      <4>1. IsCall(n, s, m, mid)'
        BY <3>1, <3>5 DEF IsCall, IsSaved
      <4>2. InCall(n, s, m, mid)'
        <5>1. ASSUME NEW p \in 1..(n + n + n + 1), StartStage(n, s, m, mid, p) PROVE StartStage(n, s, m, mid, p)'
          <6>1. IsWrapper(CalledWrapper, s, m, mid)'
            BY <3>1, <5>1 DEF StartStage, CalledWrapper, IsWrapper, IsList
          <6>2. SlotsSaved(n, p)' /\ OperandsCopied(n, p)' /\ OperandsMoved(n, p)'
            BY <3>1, <5>1 DEF StartStage, SlotsSaved, OperandsCopied, OperandsMoved, Argument, Calls!OperandValue, Calls!Deref
          <6>3. StartFrom(code, n, p)'
            BY <3>1, <5>1 DEF StartStage, StartFrom, IsList
          <6> QED
            BY <3>1, <5>1, <6>1, <6>2, <6>3 DEF StartStage, AppFlags, AppStack
        <5>2. ASSUME NEW h \in 0..(m + 1), PushStage(n, s, m, mid, h) PROVE PushStage(n, s, m, mid, h)'
          BY <3>1, <5>2 DEF PushStage, AppFlags, WrapFrom, IsPushed, IsList, Argument, Calls!OperandValue, Calls!Deref
        <5>3. ASSUME NEW h \in 0..(m + 1), PopStage(n, s, m, mid, h) PROVE PopStage(n, s, m, mid, h)'
          BY <3>1, <5>3 DEF PopStage, AppFlags, WrapFrom, IsPushed, IsList, Argument
        <5>4. ASSUME NEW j \in 0..n, EndStage(n, s, m, mid, j) PROVE EndStage(n, s, m, mid, j)'
          BY <3>1, <5>4 DEF EndStage, AppFlags, AppStack, WrapFrom, IsList, Argument
        <5> QED
          BY <3>5, <5>1, <5>2, <5>3, <5>4 DEF InCall
      <4> QED
        BY <3>2, <3>3, <4>1, <4>2 DEF CallsInv
    <3> QED
      BY <3>4, <3>5 DEF CallsInv
  <2> QED
    BY <2>1, <2>2
<1>3. CallsInv => CallsTransparent
  BY CallsShown
<1> QED
  BY <1>1, <1>2, <1>3, PTL DEF Calls!Spec
=============================================================================
