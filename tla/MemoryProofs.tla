---------------------------- MODULE MemoryProofs ----------------------------
(***************************************************************************)
(* The memory of the program, for every number of threads: pieces of code  *)
(* never overlap in the code cache, the slab allocator hands no object out *)
(* twice and loses none, the page allocator hands out every page once, the *)
(* code cache index finds what it has, and the parts of meta-data are at   *)
(* their offsets.                                                          *)
(***************************************************************************)
EXTENDS MCMemory, FiniteSetTheorems, SequenceTheorems, WellFoundedInduction, TLAPS

-----------------------------------------------------------------------------
(* The code cache (granary/cache.cc).                                      *)

USE CodeCacheAssumption

Inv == TypeOK /\ CodeDisjoint /\ OffsetInv /\ CodeIntact

\* Aligning never goes back.
LEMMA AlignToUp == \A x \in Nat : AlignTo(x) \in Nat /\ x <= AlignTo(x)
<1> TAKE x \in Nat
<1>1. x % CodeAlign \in 0..(CodeAlign - 1)
  OBVIOUS
<1> QED
  BY <1>1 DEF AlignTo

LEMMA NoRegionIsNoCode == NoRegion \notin Region
BY DEF NoRegion, Region

LEMMA RegionType ==
  \A q \in Region : q.start \in Nat /\ q.size \in Nat /\ q.size > 0
<1>1. \A n \in CodeSize : n \in Nat /\ n > 0
  OBVIOUS
<1>2. \A q \in Region : q.start \in Nat /\ q.size \in CodeSize
  BY DEF Region
<1> QED
  BY <1>1, <1>2

LEMMA InvInit == Init => Inv
<1> SUFFICES ASSUME Init PROVE Inv
  OBVIOUS
<1>1. AllCode = {}
  BY DEF Init, AllCode
<1>2. TypeOK
  BY DEF Init, TypeOK
<1> QED
  BY <1>1, <1>2 DEF Init, Inv, CodeDisjoint, OffsetInv, CodeIntact

\* A new piece of code r for thread t, somewhere above everything else in its
\* slab, overlaps nothing.
LEMMA NewCode ==
  ASSUME TypeOK, CodeDisjoint, NEW t \in Thread, NEW r \in Region,
         region[t] = NoRegion,
         region' = [region EXCEPT ![t] = r],
         UNCHANGED written,
         r.start + r.size < SlabBytes,
         \A q \in AllCode : q.slab = r.slab => q.start + q.size <= r.start
  PROVE  CodeDisjoint' /\ AllCode' = AllCode \cup {r}
<1>1. AllCode \subseteq Region /\ r # NoRegion
  BY NoRegionIsNoCode DEF AllCode, TypeOK
<1>2. AllCode' = AllCode \cup {r}
  BY <1>1 DEF AllCode, TypeOK
<1>3. \A q \in Region : q.start \in Nat /\ q.size \in Nat /\ q.size > 0
  BY RegionType
<1>4. r \notin AllCode
  BY <1>3
<1>5. \A q \in AllCode : Disjoint(q, r) /\ Disjoint(r, q)
  BY <1>1, <1>3 DEF Disjoint, Bytes
<1>6. \A p, q \in AllCode' : p # q => Disjoint(p, q)
  BY <1>2, <1>5 DEF CodeDisjoint
<1>7. \A u, v \in Thread : u # v => region'[u] # region'[v] \/ region'[u] = NoRegion
  BY <1>1, <1>4 DEF CodeDisjoint, AllCode, TypeOK
<1>8. \A u \in Thread : region'[u] \notin written'
  BY <1>4 DEF CodeDisjoint, AllCode, TypeOK
<1>9. \A q \in AllCode' : q.start + q.size < SlabBytes
  BY <1>2 DEF CodeDisjoint
<1> QED
  BY <1>2, <1>6, <1>7, <1>8, <1>9 DEF CodeDisjoint

LEMMA AllocateInSlabStep ==
  ASSUME Inv, NEW t \in Thread, NEW k \in Kind, NEW size \in CodeSize,
         AllocateCode(t, k, size), AllocateInSlab(t, k, size)
  PROVE  Inv'
<1> DEFINE start == AlignTo(slab_byte_offset[k])
           r == [slab |-> slab[k], start |-> start, size |-> size]
<1> USE DEF Inv
<1>1. /\ region[t] = NoRegion /\ slab[k] \in Slab
      /\ region' = [region EXCEPT ![t] = r]
      /\ slab_byte_offset' = [slab_byte_offset EXCEPT ![k] = start + size]
      /\ UNCHANGED <<slab, slabs, written, memory, transaction>>
      /\ start + size < SlabBytes
  BY DEF AllocateCode, AllocateInSlab, TypeOK
<1>2. slab_byte_offset[k] \in Nat /\ start \in Nat /\ slab_byte_offset[k] <= start
  BY AlignToUp DEF TypeOK
<1>3. r \in Region /\ r # NoRegion
  BY <1>1, <1>2, NoRegionIsNoCode DEF Region
<1>4. size \in Nat /\ \A q \in AllCode : q.start \in Nat /\ q.size \in Nat
  <2>1. AllCode \subseteq Region
    BY DEF AllCode, TypeOK
  <2>2. size \in Nat
    OBVIOUS
  <2> QED
    BY <2>1, <2>2, RegionType
<1>5. \A q \in AllCode : q.slab = r.slab => q.start + q.size <= r.start
  <2> TAKE q \in AllCode
  <2> HAVE q.slab = r.slab
  <2>1. q.start + q.size <= slab_byte_offset[k]
    BY <1>1 DEF OffsetInv
  <2> QED
    BY <2>1, <1>2, <1>4
<1>6. CodeDisjoint' /\ AllCode' = AllCode \cup {r}
  BY <1>1, <1>3, <1>5, NewCode
<1>7. TypeOK'
  <2>1. start + size \in Nat
    BY <1>2, <1>4
  <2> QED
    BY <1>1, <1>3, <2>1 DEF TypeOK
<1>8. OffsetInv'
  <2>1. \A q \in AllCode' : q.slab \in slabs'
    BY <1>1, <1>6 DEF OffsetInv
  <2>2. \A l \in Kind : slab'[l] # NoSlab => slab'[l] \in slabs'
    BY <1>1 DEF OffsetInv
  <2>3. ASSUME NEW l \in Kind, slab'[l] # NoSlab, NEW q \in AllCode', q.slab = slab'[l]
        PROVE  q.start + q.size <= slab_byte_offset'[l]
    <3>1. CASE l # k
      <4>1. q \in AllCode
        BY <3>1, <2>3, <1>1, <1>6 DEF OffsetInv
      <4> QED
        BY <4>1, <3>1, <2>3, <1>1 DEF OffsetInv, TypeOK
    <3>2. CASE l = k /\ q = r
      BY <3>2, <1>1, <1>2 DEF TypeOK
    <3>3. CASE l = k /\ q \in AllCode
      <4>1. q.start + q.size <= start /\ slab_byte_offset'[l] = start + size
        BY <3>3, <2>3, <1>1, <1>5 DEF TypeOK
      <4> QED
        BY <4>1, <1>2, <1>4, <3>3
    <3> QED
      BY <3>1, <3>2, <3>3, <1>6
  <2>4. transaction' # NoThread => region'[transaction'] # NoRegion
    BY <1>1, <1>3 DEF OffsetInv, TypeOK
  <2>5. \A j, l \in Kind : slab'[j] = slab'[l] /\ slab'[j] # NoSlab => j = l
    BY <1>1 DEF OffsetInv
  <2> QED
    BY <2>1, <2>2, <2>3, <2>4, <2>5 DEF OffsetInv
<1>9. CodeIntact'
  BY <1>1 DEF CodeIntact
<1> QED
  BY <1>6, <1>7, <1>8, <1>9

LEMMA AllocateInNewSlabStep ==
  ASSUME Inv, NEW t \in Thread, NEW k \in Kind, NEW size \in CodeSize,
         AllocateCode(t, k, size), AllocateInNewSlab(t, k, size)
  PROVE  Inv'
<1> USE DEF Inv
<1>1. PICK s \in Slab \ slabs :
        /\ slab' = [slab EXCEPT ![k] = s]
        /\ slabs' = slabs \cup {s}
        /\ region' = [region EXCEPT ![t] = [slab |-> s, start |-> 0, size |-> size]]
  BY DEF AllocateInNewSlab
<1> DEFINE r == [slab |-> s, start |-> 0, size |-> size]
<1>2. /\ region[t] = NoRegion
      /\ slab_byte_offset' = [slab_byte_offset EXCEPT ![k] = size]
      /\ UNCHANGED <<written, memory, transaction>>
  BY DEF AllocateCode, AllocateInNewSlab
<1>3. r \in Region /\ r # NoRegion
  BY NoRegionIsNoCode DEF Region
<1>4. \A q \in AllCode : q.slab \in slabs /\ q.slab # s
  BY DEF OffsetInv
<1>5. 0 + size < SlabBytes /\ size \in Nat
  OBVIOUS
<1>6. CodeDisjoint' /\ AllCode' = AllCode \cup {r}
  BY <1>1, <1>2, <1>3, <1>4, <1>5, NewCode
<1>7. TypeOK'
  BY <1>1, <1>2, <1>3, <1>5 DEF TypeOK
<1>8. OffsetInv'
  <2>1. \A q \in AllCode' : q.slab \in slabs'
    BY <1>1, <1>4, <1>6
  <2>2. \A l \in Kind : slab'[l] # NoSlab => slab'[l] \in slabs'
    BY <1>1 DEF OffsetInv, TypeOK
  <2>3. ASSUME NEW l \in Kind, slab'[l] # NoSlab, NEW q \in AllCode', q.slab = slab'[l]
        PROVE  q.start + q.size <= slab_byte_offset'[l]
    <3>1. CASE l = k
      <4>1. q = r
        BY <3>1, <2>3, <1>1, <1>4, <1>6 DEF TypeOK
      <4> QED
        BY <4>1, <3>1, <1>2, <1>5 DEF TypeOK
    <3>2. CASE l # k
      <4>1. slab'[l] = slab[l] /\ slab[l] \in slabs
        BY <3>2, <2>3, <1>1 DEF OffsetInv, TypeOK
      <4>2. q \in AllCode
        BY <4>1, <2>3, <1>1, <1>6
      <4> QED
        BY <4>1, <4>2, <3>2, <2>3, <1>2 DEF OffsetInv, TypeOK
    <3> QED
      BY <3>1, <3>2
  <2>4. transaction' # NoThread => region'[transaction'] # NoRegion
    BY <1>1, <1>2, <1>3 DEF OffsetInv, TypeOK
  <2>5. \A j, l \in Kind : slab'[j] = slab'[l] /\ slab'[j] # NoSlab => j = l
    BY <1>1 DEF OffsetInv, TypeOK
  <2> QED
    BY <2>1, <2>2, <2>3, <2>4, <2>5 DEF OffsetInv
<1>9. CodeIntact'
  BY <1>2 DEF CodeIntact
<1> QED
  BY <1>6, <1>7, <1>8, <1>9

LEMMA EndTransactionStep ==
  ASSUME Inv, NEW t \in Thread, EndTransaction(t)
  PROVE  Inv'
<1> USE DEF Inv
<1> DEFINE r == region[t]
<1>1. /\ r \in Region /\ r # NoRegion
      /\ written' = written \cup {r}
      /\ region' = [region EXCEPT ![t] = NoRegion]
      /\ transaction' = NoThread
      /\ UNCHANGED <<slab, slab_byte_offset, slabs>>
  BY DEF EndTransaction, OffsetInv, TypeOK
<1>2. AllCode' = AllCode /\ r \in AllCode
  BY <1>1 DEF AllCode, TypeOK
<1>3. memory' = [memory EXCEPT ![r.slab] =
                   [b \in 0..(SlabBytes - 1) |->
                      IF b \in Bytes(r) THEN r ELSE memory[r.slab][b]]]
  <2>1. DOMAIN memory[r.slab] = 0..(SlabBytes - 1)
    BY <1>1 DEF TypeOK, Region
  <2> QED
    BY <2>1, <1>1 DEF EndTransaction, TypeOK
<1>4. TypeOK'
  <2>1. memory' \in [Slab -> [0..(SlabBytes - 1) -> Region \cup {NoRegion}]]
    BY <1>1, <1>3 DEF TypeOK, Region
  <2> QED
    BY <1>1, <2>1 DEF TypeOK
<1>5. CodeDisjoint'
  <2>1. \A u \in Thread : region'[u] \notin written'
    BY <1>1, NoRegionIsNoCode DEF CodeDisjoint, TypeOK
  <2>2. \A u, v \in Thread : u # v => region'[u] # region'[v] \/ region'[u] = NoRegion
    BY <1>1 DEF CodeDisjoint, TypeOK
  <2> QED
    BY <1>2, <2>1, <2>2 DEF CodeDisjoint
<1>6. OffsetInv'
  BY <1>1, <1>2 DEF OffsetInv
<1>7. CodeIntact'
  <2> SUFFICES ASSUME NEW q \in written', NEW b \in Bytes(q)
               PROVE  memory'[q.slab][b] = q
    BY DEF CodeIntact
  <2>0. q \in Region /\ q \in AllCode /\ b \in 0..(SlabBytes - 1)
    <3>1. q \in Region /\ q \in AllCode
      BY <1>1, <1>2 DEF AllCode, TypeOK
    <3>2. q.start \in Nat /\ q.size \in Nat /\ q.start + q.size < SlabBytes
      BY <3>1, RegionType DEF CodeDisjoint
    <3> QED
      BY <3>1, <3>2 DEF Bytes
  <2>1. CASE q = r
    BY <2>0, <2>1, <1>3 DEF TypeOK, Region
  <2>2. CASE q # r /\ q.slab # r.slab
    BY <2>0, <2>2, <1>1, <1>3 DEF CodeIntact, TypeOK, Region
  <2>3. CASE q # r /\ q.slab = r.slab
    <3>1. q \in written /\ b \notin Bytes(r)
      BY <2>0, <2>3, <1>1, <1>2 DEF CodeDisjoint, Disjoint
    <3> QED
      BY <3>1, <2>0, <2>3, <1>1, <1>3 DEF CodeIntact, TypeOK, Region
  <2> QED
    BY <2>1, <2>2, <2>3
<1> QED
  BY <1>4, <1>5, <1>6, <1>7

LEMMA InvStep == Inv /\ [Next]_vars => Inv'
<1> SUFFICES ASSUME Inv, [Next]_vars PROVE Inv'
  OBVIOUS
<1>1. ASSUME NEW t \in Thread, NEW k \in Kind, NEW size \in CodeSize,
             AllocateCode(t, k, size)
      PROVE  Inv'
  BY <1>1, AllocateInSlabStep, AllocateInNewSlabStep DEF AllocateCode
<1>2. ASSUME NEW t \in Thread, BeginTransaction(t)
      PROVE  Inv'
  <2>1. /\ UNCHANGED <<slab, slab_byte_offset, slabs, region, written, memory>>
        /\ transaction' = t /\ region[t] # NoRegion
    BY <1>2 DEF BeginTransaction
  <2>2. AllCode' = AllCode
    BY <2>1 DEF AllCode
  <2>3. TypeOK' /\ CodeDisjoint' /\ CodeIntact'
    BY <2>1, <2>2 DEF Inv, TypeOK, CodeDisjoint, CodeIntact
  <2>4. OffsetInv'
    BY <2>1, <2>2 DEF Inv, OffsetInv
  <2> QED
    BY <2>3, <2>4 DEF Inv
<1>3. ASSUME NEW t \in Thread, EndTransaction(t)
      PROVE  Inv'
  BY <1>3, EndTransactionStep
<1>4. CASE ExitCodeCache
  BY <1>4 DEF ExitCodeCache, Inv, TypeOK, CodeDisjoint, OffsetInv, CodeIntact, AllCode
<1>5. CASE UNCHANGED vars
  BY <1>5 DEF vars, Inv, TypeOK, CodeDisjoint, OffsetInv, CodeIntact, AllCode
<1> QED
  BY <1>1, <1>2, <1>3, <1>4, <1>5 DEF Next

\* The inductive invariant of AllocateCode and of code cache transactions.
THEOREM InvHolds == Spec => []Inv
BY InvInit, InvStep, PTL DEF Spec

\* AllocateCode never hands out overlapping code, whatever the sizes, and no
\* transaction overwrites code that another one wrote.
THEOREM CodeStaysIntact == Spec => [](CodeDisjoint /\ CodeIntact)
<1>1. Inv => CodeDisjoint /\ CodeIntact
  BY DEF Inv
<1> QED
  BY <1>1, InvHolds, PTL
-----------------------------------------------------------------------------
(* The slab allocator (granary/base/new.cc).                               *)

HIDE CodeCacheAssumption

LEMMA OnList == ASSUME NEW q, NEW y
                PROVE  y \in Slabs!ToSet(q) <=> \E i \in DOMAIN q : y = q[i]
BY DEF Slabs!ToSet

\* Prepending to a list without duplicates.
LEMMA Prepend ==
  ASSUME NEW S, NEW q \in Seq(S), NEW x \in S
  PROVE  /\ <<x>> \o q \in Seq(S)
         /\ <<x>> \o q # <<>>
         /\ Head(<<x>> \o q) = x
         /\ Slabs!ToSet(<<x>> \o q) = {x} \cup Slabs!ToSet(q)
         /\ Slabs!IsInjective(q) /\ x \notin Slabs!ToSet(q)
              => Slabs!IsInjective(<<x>> \o q)
<1> DEFINE p == <<x>> \o q
<1>1. /\ p \in Seq(S) /\ Len(p) = Len(q) + 1 /\ Len(q) \in Nat
      /\ DOMAIN p = 1..Len(p) /\ DOMAIN q = 1..Len(q)
  OBVIOUS
<1>2. /\ p[1] = x
      /\ \A i \in 1..Len(q) : p[i + 1] = q[i]
      /\ \A i \in 2..Len(p) : p[i] = q[i - 1] /\ i - 1 \in 1..Len(q)
  OBVIOUS
<1> HIDE DEF p
<1>3. Slabs!ToSet(p) = {x} \cup Slabs!ToSet(q)
  <2>1. \A y : y \in Slabs!ToSet(q) => y \in Slabs!ToSet(p)
    BY <1>1, <1>2 DEF Slabs!ToSet
  <2>2. x \in Slabs!ToSet(p)
    BY <1>1, <1>2 DEF Slabs!ToSet
  <2>3. ASSUME NEW y \in Slabs!ToSet(p) PROVE y \in {x} \cup Slabs!ToSet(q)
    <3>1. PICK i \in 1..Len(p) : y = p[i]
      BY <1>1 DEF Slabs!ToSet
    <3>2. CASE i = 1
      BY <3>1, <3>2, <1>2
    <3>3. CASE i # 1
      <4>1. i - 1 \in DOMAIN q /\ y = q[i - 1]
        BY <3>1, <3>3, <1>1, <1>2
      <4> QED
        BY <4>1, OnList
    <3> QED
      BY <3>2, <3>3
  <2> QED
    BY <2>1, <2>2, <2>3
<1>4. ASSUME Slabs!IsInjective(q), x \notin Slabs!ToSet(q)
      PROVE  Slabs!IsInjective(p)
  <2> SUFFICES ASSUME NEW i \in 1..Len(p), NEW j \in 1..Len(p), p[i] = p[j]
               PROVE  i = j
    BY <1>1 DEF Slabs!IsInjective
  <2>1. \A k \in 1..Len(q) : q[k] # x
    BY <1>1, <1>4, OnList
  <2>2. \A k \in 2..Len(p) : p[k] # x
    BY <2>1, <1>2
  <2>3. CASE i = 1 \/ j = 1
    BY <2>2, <2>3, <1>1, <1>2
  <2>4. CASE i # 1 /\ j # 1
    <3>1. i - 1 \in 1..Len(q) /\ j - 1 \in 1..Len(q) /\ q[i - 1] = q[j - 1]
      BY <2>4, <1>1, <1>2
    <3> QED
      BY <3>1, <1>1, <1>4 DEF Slabs!IsInjective
  <2> QED
    BY <2>3, <2>4
<1>5. p # <<>> /\ Head(p) = x
  BY <1>1, <1>2
<1> QED
  BY <1>1, <1>3, <1>4, <1>5 DEF p

\* Taking the head off a list without duplicates.
LEMMA Behead ==
  ASSUME NEW S, NEW q \in Seq(S), q # <<>>
  PROVE  /\ Tail(q) \in Seq(S)
         /\ Head(q) \in S
         /\ Slabs!ToSet(q) = {Head(q)} \cup Slabs!ToSet(Tail(q))
         /\ Slabs!IsInjective(q) => /\ Slabs!IsInjective(Tail(q))
                                    /\ Head(q) \notin Slabs!ToSet(Tail(q))
<1> DEFINE p == Tail(q)
<1>1. /\ p \in Seq(S) /\ Len(q) = Len(p) + 1 /\ Len(p) \in Nat
      /\ DOMAIN p = 1..Len(p) /\ DOMAIN q = 1..Len(q)
      /\ Head(q) = q[1] /\ Head(q) \in S
  OBVIOUS
<1>2. /\ \A i \in 1..Len(p) : p[i] = q[i + 1]
      /\ \A i \in 2..Len(q) : q[i] = p[i - 1] /\ i - 1 \in 1..Len(p)
  OBVIOUS
<1> HIDE DEF p
<1>3. Slabs!ToSet(q) = {Head(q)} \cup Slabs!ToSet(p)
  <2>1. \A y : y \in Slabs!ToSet(p) => y \in Slabs!ToSet(q)
    BY <1>1, <1>2 DEF Slabs!ToSet
  <2>2. Head(q) \in Slabs!ToSet(q)
    BY <1>1, <1>2 DEF Slabs!ToSet
  <2>3. ASSUME NEW y \in Slabs!ToSet(q) PROVE y \in {Head(q)} \cup Slabs!ToSet(p)
    <3>1. PICK i \in 1..Len(q) : y = q[i]
      BY <1>1 DEF Slabs!ToSet
    <3>2. CASE i = 1
      BY <3>1, <3>2, <1>1
    <3>3. CASE i # 1
      <4>1. i - 1 \in DOMAIN p /\ y = p[i - 1]
        BY <3>1, <3>3, <1>1, <1>2
      <4> QED
        BY <4>1, OnList
    <3> QED
      BY <3>2, <3>3
  <2> QED
    BY <2>1, <2>2, <2>3
<1>4. ASSUME Slabs!IsInjective(q)
      PROVE  Slabs!IsInjective(p) /\ Head(q) \notin Slabs!ToSet(p)
  <2>1. \A i, j \in 1..Len(q) : q[i] = q[j] => i = j
    BY <1>1, <1>4 DEF Slabs!IsInjective
  <2>2. \A i \in 1..Len(p) : i + 1 \in 1..Len(q) /\ i + 1 # 1 /\ 1 \in 1..Len(q)
    BY <1>1
  <2>3. \A i, j \in 1..Len(p) : p[i] = p[j] => i = j
    BY <2>1, <2>2, <1>2
  <2>4. \A i \in 1..Len(p) : p[i] # Head(q)
    BY <2>1, <2>2, <1>1, <1>2
  <2> QED
    BY <2>3, <2>4, <1>1, OnList DEF Slabs!IsInjective
<1> QED
  BY <1>1, <1>3, <1>4 DEF p

LEMMA NoObjectIsNone == Slabs!NoObject \notin Slabs!Object
BY SlabAssumption DEF Slabs!NoObject, Slabs!Object

\* The invariants of the slab allocator again, object by object.
IsCarved(o) == /\ o.slab \in Slabs!ToSet(slab_list)
               /\ o.slab = Head(slab_list) => o.offset < offset
Held(o) == \E t \in SlabThread : address[t] = o

Places ==
  /\ Slabs!IsInjective(slab_list) /\ Slabs!IsInjective(free_list)
  /\ given_back = <<>> /\ slab_list = <<>> => offset = MaxOffset
  /\ given_back # <<>> => /\ slab_list = <<>> /\ free_list = <<>>
                          /\ \A t \in SlabThread : pc[t] = "idle"
  /\ \A t \in SlabThread :
       /\ address[t] = Slabs!NoObject <=> pc[t] \in {"idle", "slab"}
       /\ pc[t] = "unlink" => object_memory[address[t]] = "linked"
       /\ pc[t] = "link" => object_memory[address[t]] = "deallocated"
       /\ pc[t] = "take" => object_memory[address[t]] \in {"unallocated", "deallocated"}
       /\ address[t] \notin Slabs!ToSet(free_list)
       /\ \A u \in SlabThread :
            address[u] = address[t] => u = t \/ address[t] = Slabs!NoObject
  /\ \A o \in Slabs!Object :
       /\ o \in Slabs!ToSet(free_list) => object_memory[o] = "linked"
       /\ o.slab \in Slabs!ToSet(slab_list) /\ ~IsCarved(o)
            => object_memory[o] = "unallocated"
       /\ IsCarved(o) => \/ o \in Slabs!ToSet(free_list) \/ Held(o)
                         \/ object_memory[o] = "used"
       /\ given_back = <<>> /\ (\/ o \in Slabs!ToSet(free_list) \/ Held(o)
                                 \/ object_memory[o] = "used") => IsCarved(o)

LEMMA FreeAreObjects == Slabs!TypeOK => Slabs!ToSet(free_list) \subseteq Slabs!Object
BY OnList DEF Slabs!TypeOK

LEMMA PlacesIs ==
  ASSUME Slabs!TypeOK
  PROVE  Places <=> Slabs!SlabInv /\ Slabs!ObjectsConserved
<1>1. ASSUME Slabs!IsInjective(slab_list)
      PROVE  \A o \in Slabs!Object : o \in Slabs!Carved <=> IsCarved(o)
  <2>1. /\ slab_list \in Seq(HeapSlab) /\ DOMAIN slab_list = 1..Len(slab_list)
        /\ Len(slab_list) \in Nat
        /\ 1 \in 1..Len(slab_list) => Head(slab_list) = slab_list[1]
    BY DEF Slabs!TypeOK
  <2> QED
    BY <1>1, <2>1 DEF Slabs!Carved, IsCarved, Slabs!ToSet, Slabs!IsInjective
<1>2. Slabs!ToSet(free_list) \subseteq Slabs!Object
  BY FreeAreObjects
<1>3. \A o \in Slabs!Object : o \in Slabs!InHand <=> Held(o)
  BY NoObjectIsNone DEF Slabs!InHand, Held
<1>4. \A t \in SlabThread : address[t] = Slabs!NoObject \/ address[t] \in Slabs!Object
  BY DEF Slabs!TypeOK
<1>5. Slabs!InHand \subseteq Slabs!Object /\ Slabs!InUse \subseteq Slabs!Object
      /\ Slabs!Carved \subseteq Slabs!Object
  BY <1>4 DEF Slabs!InHand, Slabs!InUse, Slabs!Carved
<1>6. \A o \in Slabs!Object : o \in Slabs!InUse <=> object_memory[o] = "used" /\ ~Held(o)
  BY DEF Slabs!InUse, Held
<1>7. pc \in [SlabThread -> {"idle", "slab", "unlink", "take", "link"}]
  BY DEF Slabs!TypeOK
<1>8. ASSUME Places PROVE Slabs!SlabInv
  BY <1>8, <1>1 DEF Places, Slabs!SlabInv
<1>9. ASSUME Places PROVE Slabs!ObjectsConserved
  <2>1. \A o \in Slabs!Object : o \in Slabs!Carved <=> IsCarved(o)
    BY <1>9, <1>1 DEF Places
  <2>2. Slabs!InHand \cap Slabs!ToSet(free_list) = {}
    BY <1>9, <1>2, <1>3 DEF Places, Held
  <2>3. \A o \in Slabs!Carved : \/ o \in Slabs!ToSet(free_list) \cup Slabs!InHand
                                \/ object_memory[o] = "used"
    BY <1>9, <2>1, <1>5, <1>3 DEF Places
  <2>4. given_back = <<>> =>
         Slabs!InUse \cup Slabs!InHand \cup Slabs!ToSet(free_list) \subseteq Slabs!Carved
    BY <1>9, <2>1, <1>2, <1>3, <1>5, <1>6 DEF Places
  <2> QED
    BY <1>9, <2>2, <2>3, <2>4, <1>2 DEF Places, Slabs!ObjectsConserved
<1>10. ASSUME Slabs!SlabInv, Slabs!ObjectsConserved PROVE Places
  <2>1. \A o \in Slabs!Object : o \in Slabs!Carved <=> IsCarved(o)
    BY <1>10, <1>1 DEF Slabs!SlabInv
  <2>2. \A t \in SlabThread : address[t] \notin Slabs!ToSet(free_list)
    BY <1>10, <1>2, <1>3, <1>4, NoObjectIsNone DEF Slabs!ObjectsConserved, Held
  <2>3. ASSUME NEW t \in SlabThread
        PROVE  /\ address[t] = Slabs!NoObject <=> pc[t] \in {"idle", "slab"}
               /\ pc[t] = "unlink" => object_memory[address[t]] = "linked"
               /\ pc[t] = "link" => object_memory[address[t]] = "deallocated"
               /\ pc[t] = "take" => object_memory[address[t]] \in {"unallocated", "deallocated"}
               /\ \A u \in SlabThread :
                    address[u] = address[t] => u = t \/ address[t] = Slabs!NoObject
    BY <1>10 DEF Slabs!SlabInv, Slabs!ObjectsConserved
  <2>4. \A o \in Slabs!Object : object_memory[o] = "used" => ~Held(o)
    BY <2>3, <1>7, NoObjectIsNone DEF Held
  <2>5. ASSUME NEW o \in Slabs!Object
        PROVE  /\ o \in Slabs!ToSet(free_list) => object_memory[o] = "linked"
               /\ o.slab \in Slabs!ToSet(slab_list) /\ ~IsCarved(o)
                    => object_memory[o] = "unallocated"
               /\ IsCarved(o) => \/ o \in Slabs!ToSet(free_list) \/ Held(o)
                                 \/ object_memory[o] = "used"
               /\ given_back = <<>> /\ (\/ o \in Slabs!ToSet(free_list) \/ Held(o)
                                        \/ object_memory[o] = "used") => IsCarved(o)
    BY <1>10, <2>1, <2>4, <1>3, <1>6 DEF Slabs!SlabInv, Slabs!ObjectsConserved
  <2>6. /\ Slabs!IsInjective(slab_list) /\ Slabs!IsInjective(free_list)
        /\ given_back = <<>> /\ slab_list = <<>> => offset = MaxOffset
        /\ given_back # <<>> => /\ slab_list = <<>> /\ free_list = <<>>
                                /\ \A t \in SlabThread : pc[t] = "idle"
    BY <1>10 DEF Slabs!SlabInv, Slabs!ObjectsConserved
  <2> QED
    BY <2>2, <2>3, <2>5, <2>6 DEF Places
<1> QED
  BY <1>8, <1>9, <1>10

SlabsOK == Slabs!TypeOK /\ Places

LEMMA PlacesInit == Slabs!Init => SlabsOK
<1> SUFFICES ASSUME Slabs!Init PROVE SlabsOK
  OBVIOUS
<1>1. Slabs!TypeOK
  BY SlabAssumption DEF Slabs!Init, Slabs!TypeOK, Slabs!Content
<1>2. Slabs!ToSet(slab_list) = {} /\ Slabs!ToSet(free_list) = {}
  BY OnList DEF Slabs!Init
<1>3. Slabs!IsInjective(slab_list) /\ Slabs!IsInjective(free_list)
  BY DEF Slabs!Init, Slabs!IsInjective
<1>4. \A o \in Slabs!Object : ~IsCarved(o) /\ ~Held(o)
  BY <1>2, NoObjectIsNone DEF IsCarved, Held, Slabs!Init
<1> QED
  BY <1>1, <1>2, <1>3, <1>4 DEF SlabsOK, Places, Slabs!Init

\* The next steps are those of one thread, while the allocator is alive.
LEMMA PlacesFreeList ==
  ASSUME SlabsOK, given_back = <<>>, UNCHANGED given_back, NEW t \in SlabThread,
         Slabs!AllocateFromFreeList(t), UNCHANGED <<offset, slab_list, object_memory>>
  PROVE  SlabsOK'
<1> USE DEF SlabsOK
<1>1. CASE free_list = <<>>
  <2>1. /\ pc[t] = "idle" /\ pc' = [pc EXCEPT ![t] = "slab"]
        /\ UNCHANGED <<free_list, address>>
    BY <1>1 DEF Slabs!AllocateFromFreeList, Slabs!Goto
  <2>2. Slabs!TypeOK'
    BY <2>1 DEF Slabs!TypeOK
  <2>3. \A o : IsCarved(o)' = IsCarved(o) /\ Held(o)' = Held(o)
    BY <2>1 DEF IsCarved, Held
  <2> QED
    BY <2>1, <2>2, <2>3 DEF Places, Slabs!TypeOK
<1>2. CASE free_list # <<>>
  <2> DEFINE h == Head(free_list)
  <2>1. /\ pc[t] = "idle" /\ pc' = [pc EXCEPT ![t] = "unlink"]
        /\ address' = [address EXCEPT ![t] = h] /\ free_list' = Tail(free_list)
    BY <1>2 DEF Slabs!AllocateFromFreeList, Slabs!Goto
  <2>2. /\ Tail(free_list) \in Seq(Slabs!Object) /\ h \in Slabs!Object
        /\ Slabs!ToSet(free_list) = {h} \cup Slabs!ToSet(Tail(free_list))
        /\ Slabs!IsInjective(Tail(free_list)) /\ h \notin Slabs!ToSet(Tail(free_list))
    BY <1>2, Behead DEF Slabs!TypeOK, Places
  <2> HIDE DEF h
  <2>3. Slabs!TypeOK'
    BY <2>1, <2>2 DEF Slabs!TypeOK
  <2>4. \A o : IsCarved(o)' = IsCarved(o)
    BY <2>1 DEF IsCarved
  <2>5. \A o \in Slabs!Object : Held(o)' <=> o = h \/ Held(o)
    BY <2>1, NoObjectIsNone DEF Held, Slabs!TypeOK, Places
  <2>6. ~Held(h) /\ object_memory[h] = "linked"
    BY <2>2 DEF Places, Held
  <2>7. \A u \in SlabThread : address'[u] = IF u = t THEN h ELSE address[u]
    BY <2>1 DEF Slabs!TypeOK
  <2>8. \A u \in SlabThread : pc'[u] = IF u = t THEN "unlink" ELSE pc[u]
    BY <2>1 DEF Slabs!TypeOK
  <2>9. \A u \in SlabThread : address[u] # h
    BY <2>6 DEF Held
  <2>10. h # Slabs!NoObject
    BY <2>2, NoObjectIsNone
  <2> QED
    BY <2>1, <2>2, <2>3, <2>4, <2>5, <2>6, <2>7, <2>8, <2>9, <2>10 DEF Places
<1> QED
  BY <1>1, <1>2

LEMMA PlacesUnlink ==
  ASSUME SlabsOK, given_back = <<>>, UNCHANGED given_back, NEW t \in SlabThread,
         Slabs!Unlink(t), UNCHANGED <<offset, slab_list, free_list, address>>
  PROVE  SlabsOK'
<1> USE DEF SlabsOK
<1> DEFINE a == address[t]
<1>1. /\ pc[t] = "unlink" /\ pc' = [pc EXCEPT ![t] = "take"]
      /\ object_memory' = [object_memory EXCEPT ![a] = "deallocated"]
  BY DEF Slabs!Unlink, Slabs!Goto
<1>2. a \in Slabs!Object /\ a \notin Slabs!ToSet(free_list) /\ Held(a)
  BY <1>1 DEF Places, Slabs!TypeOK, Held
<1>3. Slabs!TypeOK'
  BY <1>1, <1>2 DEF Slabs!TypeOK, Slabs!Content
<1>4. \A o : IsCarved(o)' = IsCarved(o) /\ Held(o)' = Held(o)
  BY DEF IsCarved, Held
<1>5. \A o \in Slabs!Object :
        object_memory'[o] = IF o = a THEN "deallocated" ELSE object_memory[o]
  BY <1>1 DEF Slabs!TypeOK
<1>6. \A u \in SlabThread : pc'[u] = IF u = t THEN "take" ELSE pc[u]
  BY <1>1 DEF Slabs!TypeOK
<1>7. \A u \in SlabThread : address[u] = Slabs!NoObject \/ address[u] \in Slabs!Object
  BY DEF Slabs!TypeOK
<1>8. \A u \in SlabThread : u # t => address[u] # a
  BY <1>2, NoObjectIsNone DEF Places
<1>9. IsCarved(a)
  BY <1>2 DEF Places
<1> HIDE DEF a
<1> QED
  BY <1>1, <1>2, <1>3, <1>4, <1>5, <1>6, <1>7, <1>8, <1>9 DEF Places, a

LEMMA PlacesSlab ==
  ASSUME SlabsOK, given_back = <<>>, UNCHANGED given_back, NEW t \in SlabThread,
         Slabs!AllocateFromSlab(t), UNCHANGED free_list
  PROVE  SlabsOK'
<1> USE DEF SlabsOK
<1>0. /\ pc[t] = "slab" /\ pc' = [pc EXCEPT ![t] = "take"]
      /\ address[t] = Slabs!NoObject
      /\ offset \in 1..MaxOffset /\ MaxOffset \in Nat /\ MaxOffset > 0
      /\ slab_list \in Seq(HeapSlab)
  BY SlabAssumption DEF Slabs!AllocateFromSlab, Slabs!Goto, Places, Slabs!TypeOK
<1>a. \A u \in SlabThread : pc'[u] = IF u = t THEN "take" ELSE pc[u]
  BY <1>0 DEF Slabs!TypeOK
<1>b. \A u \in SlabThread : address[u] = Slabs!NoObject \/ address[u] \in Slabs!Object
  BY DEF Slabs!TypeOK
<1>c. \A u \in SlabThread : address[u] # Slabs!NoObject => IsCarved(address[u])
  BY <1>b DEF Places, Held
<1>d. Slabs!ToSet(free_list) \subseteq Slabs!Object
  BY FreeAreObjects
<1>1. CASE Slabs!SlabForAllocation
  <2>1. PICK s \in HeapSlab \ Slabs!ToSet(slab_list) :
          /\ slab_list' = <<s>> \o slab_list
          /\ address' = [address EXCEPT ![t] = [slab |-> s, offset |-> 0]]
          /\ object_memory' = [o \in Slabs!Object |-> IF o.slab = s THEN "unallocated"
                                                      ELSE object_memory[o]]
          /\ offset' = 1
    BY <1>1 DEF Slabs!AllocateFromSlab
  <2> DEFINE a == [slab |-> s, offset |-> 0]
  <2>2. /\ <<s>> \o slab_list \in Seq(HeapSlab) /\ Head(<<s>> \o slab_list) = s
        /\ Slabs!ToSet(<<s>> \o slab_list) = {s} \cup Slabs!ToSet(slab_list)
        /\ Slabs!IsInjective(<<s>> \o slab_list) /\ <<s>> \o slab_list # <<>>
    BY <2>1, <1>0, Prepend DEF Places
  <2>3. a \in Slabs!Object /\ a # Slabs!NoObject /\ a.slab = s /\ a.offset = 0
    BY <1>0, NoObjectIsNone DEF Slabs!Object
  <2>4. offset = MaxOffset
    BY <1>0, <1>1 DEF Slabs!SlabForAllocation
  <2>5. \A o \in Slabs!Object : o.offset \in Nat /\ o.offset < MaxOffset
    BY <1>0 DEF Slabs!Object
  <2>6. \A o \in Slabs!Object : IsCarved(o) <=> o.slab \in Slabs!ToSet(slab_list)
    BY <2>4, <2>5 DEF IsCarved
  <2>7. ASSUME NEW o \in Slabs!Object
        PROVE  IsCarved(o)' <=> o = a \/ IsCarved(o)
    <3>1. IsCarved(o)' <=> /\ o.slab \in {s} \cup Slabs!ToSet(slab_list)
                           /\ o.slab = s => o.offset < 1
      BY <2>1, <2>2 DEF IsCarved
    <3>2. o.slab = s /\ o.offset < 1 <=> o = a
      BY <2>5 DEF Slabs!Object
    <3> QED
      BY <3>1, <3>2, <2>1, <2>6
  <2>8. Slabs!TypeOK'
    <3>1. address' \in [SlabThread -> Slabs!Object \cup {Slabs!NoObject}]
      BY <2>1, <2>3 DEF Slabs!TypeOK
    <3>2. object_memory' \in [Slabs!Object -> Slabs!Content]
      BY <2>1 DEF Slabs!TypeOK, Slabs!Content
    <3>3. pc' \in [SlabThread -> {"idle", "slab", "unlink", "take", "link"}]
      BY <1>0 DEF Slabs!TypeOK
    <3> QED
      BY <1>0, <2>1, <2>2, <3>1, <3>2, <3>3 DEF Slabs!TypeOK
  <2>9. \A u \in SlabThread : address'[u] = IF u = t THEN a ELSE address[u]
    BY <2>1 DEF Slabs!TypeOK
  <2>10. ~IsCarved(a)
    BY <2>1, <2>3, <2>6
  <2>11. \A o \in Slabs!Object : IsCarved(o) => o.slab # s
    BY <2>1, <2>6
  <2>12. \A o \in Slabs!Object : object_memory'[o] = IF o.slab = s THEN "unallocated"
                                                     ELSE object_memory[o]
    BY <2>1
  <2>13. \A o \in Slabs!Object : Held(o)' <=> o = a \/ Held(o)
    BY <2>9, <1>0, NoObjectIsNone DEF Held
  <2> HIDE DEF a
  <2>14. ASSUME NEW u \in SlabThread
         PROVE  /\ address'[u] = Slabs!NoObject <=> pc'[u] \in {"idle", "slab"}
                /\ pc'[u] = "unlink" => object_memory'[address'[u]] = "linked"
                /\ pc'[u] = "link" => object_memory'[address'[u]] = "deallocated"
                /\ pc'[u] = "take" => object_memory'[address'[u]] \in {"unallocated", "deallocated"}
                /\ address'[u] \notin Slabs!ToSet(free_list)
    <3>1. CASE u = t
      BY <3>1, <1>a, <1>d, <2>3, <2>9, <2>10, <2>12 DEF Places
    <3>2. CASE u # t
      BY <3>2, <1>a, <1>b, <1>c, <2>9, <2>11, <2>12, NoObjectIsNone DEF Places
    <3> QED
      BY <3>1, <3>2
  <2>15. \A u, v \in SlabThread :
           address'[u] = address'[v] => u = v \/ address'[v] = Slabs!NoObject
    BY <2>9, <2>10, <1>c, <2>3 DEF Places
  <2>16. ASSUME NEW o \in Slabs!Object
         PROVE  /\ o \in Slabs!ToSet(free_list) => object_memory'[o] = "linked"
                /\ o.slab \in Slabs!ToSet(slab_list') /\ ~IsCarved(o)'
                     => object_memory'[o] = "unallocated"
                /\ IsCarved(o)' => \/ o \in Slabs!ToSet(free_list) \/ Held(o)'
                                   \/ object_memory'[o] = "used"
                /\ (\/ o \in Slabs!ToSet(free_list) \/ Held(o)'
                    \/ object_memory'[o] = "used") => IsCarved(o)'
    BY <2>1, <2>2, <2>6, <2>7, <2>11, <2>12, <2>13 DEF Places
  <2> QED
    BY <2>1, <2>2, <2>8, <2>14, <2>15, <2>16 DEF Places
<1>2. CASE ~Slabs!SlabForAllocation
  <2> DEFINE h == Head(slab_list)
             a == [slab |-> h, offset |-> offset]
  <2>1. /\ UNCHANGED <<slab_list, object_memory>>
        /\ address' = [address EXCEPT ![t] = a]
        /\ offset' = offset + 1
        /\ offset < MaxOffset
    BY <1>0, <1>2 DEF Slabs!AllocateFromSlab, Slabs!SlabForAllocation
  <2>2. slab_list # <<>>
    BY <1>0, <2>1 DEF Places
  <2>3. h \in HeapSlab /\ h \in Slabs!ToSet(slab_list)
    BY <1>0, <2>2, Behead
  <2>4. a \in Slabs!Object /\ a # Slabs!NoObject /\ a.slab = h /\ a.offset = offset
    BY <1>0, <2>1, <2>3, NoObjectIsNone DEF Slabs!Object
  <2>5. \A o \in Slabs!Object : o.offset \in Nat /\ o.offset < MaxOffset
    BY <1>0 DEF Slabs!Object
  <2>7. ASSUME NEW o \in Slabs!Object
        PROVE  IsCarved(o)' <=> o = a \/ IsCarved(o)
    <3>1. o.slab = h /\ o.offset = offset <=> o = a
      BY <2>5 DEF Slabs!Object
    <3>2. o.offset < offset + 1 <=> o.offset = offset \/ o.offset < offset
      BY <2>5, <1>0
    <3>3. IsCarved(o)' <=> /\ o.slab \in Slabs!ToSet(slab_list)
                           /\ o.slab = h => o.offset < offset + 1
      BY <2>1 DEF IsCarved
    <3> QED
      BY <3>1, <3>2, <3>3, <2>3 DEF IsCarved
  <2>8. Slabs!TypeOK'
    <3>1. address' \in [SlabThread -> Slabs!Object \cup {Slabs!NoObject}]
      BY <2>1, <2>4 DEF Slabs!TypeOK
    <3>2. pc' \in [SlabThread -> {"idle", "slab", "unlink", "take", "link"}]
      BY <1>0 DEF Slabs!TypeOK
    <3>3. offset' \in 1..MaxOffset
      BY <1>0, <2>1
    <3> QED
      BY <2>1, <3>1, <3>2, <3>3 DEF Slabs!TypeOK
  <2>9. \A u \in SlabThread : address'[u] = IF u = t THEN a ELSE address[u]
    BY <2>1 DEF Slabs!TypeOK
  <2>10. ~IsCarved(a)
    BY <1>0, <2>4 DEF IsCarved
  <2>11. object_memory[a] = "unallocated" /\ a \notin Slabs!ToSet(free_list) /\ ~Held(a)
    BY <2>3, <2>4, <2>10 DEF Places
  <2>13. \A o \in Slabs!Object : Held(o)' <=> o = a \/ Held(o)
    BY <2>9, <1>0, NoObjectIsNone DEF Held
  <2> HIDE DEF a, h
  <2>14. ASSUME NEW u \in SlabThread
         PROVE  /\ address'[u] = Slabs!NoObject <=> pc'[u] \in {"idle", "slab"}
                /\ pc'[u] = "unlink" => object_memory[address'[u]] = "linked"
                /\ pc'[u] = "link" => object_memory[address'[u]] = "deallocated"
                /\ pc'[u] = "take" => object_memory[address'[u]] \in {"unallocated", "deallocated"}
                /\ address'[u] \notin Slabs!ToSet(free_list)
    BY <1>a, <2>4, <2>9, <2>11 DEF Places
  <2>15. \A u, v \in SlabThread :
           address'[u] = address'[v] => u = v \/ address'[v] = Slabs!NoObject
    BY <2>9, <2>11, <2>4 DEF Places, Held
  <2>16. ASSUME NEW o \in Slabs!Object
         PROVE  /\ o \in Slabs!ToSet(free_list) => object_memory[o] = "linked"
                /\ o.slab \in Slabs!ToSet(slab_list) /\ ~IsCarved(o)'
                     => object_memory[o] = "unallocated"
                /\ IsCarved(o)' => \/ o \in Slabs!ToSet(free_list) \/ Held(o)'
                                   \/ object_memory[o] = "used"
                /\ (\/ o \in Slabs!ToSet(free_list) \/ Held(o)'
                    \/ object_memory[o] = "used") => IsCarved(o)'
    BY <2>7, <2>13 DEF Places
  <2> QED
    BY <2>1, <2>2, <2>8, <2>14, <2>15, <2>16 DEF Places
<1> QED
  BY <1>1, <1>2

LEMMA PlacesTake ==
  ASSUME SlabsOK, given_back = <<>>, UNCHANGED given_back, NEW t \in SlabThread,
         Slabs!Take(t), UNCHANGED <<offset, slab_list, free_list>>
  PROVE  SlabsOK'
<1> USE DEF SlabsOK
<1> DEFINE a == address[t]
<1>1. /\ pc[t] = "take" /\ pc' = [pc EXCEPT ![t] = "idle"]
      /\ object_memory' = [object_memory EXCEPT ![a] = "used"]
      /\ address' = [address EXCEPT ![t] = Slabs!NoObject]
  BY DEF Slabs!Take, Slabs!Goto
<1>2. a \in Slabs!Object /\ a \notin Slabs!ToSet(free_list) /\ Held(a)
  BY <1>1 DEF Places, Slabs!TypeOK, Held
<1>3. Slabs!TypeOK'
  BY <1>1, <1>2 DEF Slabs!TypeOK, Slabs!Content
<1>4. \A o : IsCarved(o)' = IsCarved(o)
  BY DEF IsCarved
<1>5. \A o \in Slabs!Object :
        object_memory'[o] = IF o = a THEN "used" ELSE object_memory[o]
  BY <1>1 DEF Slabs!TypeOK
<1>6. \A u \in SlabThread : pc'[u] = IF u = t THEN "idle" ELSE pc[u]
  BY <1>1 DEF Slabs!TypeOK
<1>7. \A u \in SlabThread : address[u] = Slabs!NoObject \/ address[u] \in Slabs!Object
  BY DEF Slabs!TypeOK
<1>8. \A u \in SlabThread : u # t => address[u] # a
  BY <1>2, NoObjectIsNone DEF Places
<1>9. \A u \in SlabThread : address'[u] = IF u = t THEN Slabs!NoObject ELSE address[u]
  BY <1>1 DEF Slabs!TypeOK
<1>10. \A o \in Slabs!Object : Held(o)' <=> o # a /\ Held(o)
  BY <1>8, <1>9, NoObjectIsNone DEF Held
<1>11. IsCarved(a)
  BY <1>2 DEF Places
<1>12. Slabs!NoObject \notin Slabs!ToSet(free_list)
  BY FreeAreObjects, NoObjectIsNone
<1> HIDE DEF a
<1> QED
  BY <1>2, <1>3, <1>4, <1>5, <1>6, <1>7, <1>8, <1>9, <1>10, <1>11, <1>12 DEF Places

LEMMA PlacesPoison ==
  ASSUME SlabsOK, given_back = <<>>, UNCHANGED given_back, NEW t \in SlabThread,
         Slabs!Poison(t), UNCHANGED <<offset, slab_list, free_list>>
  PROVE  SlabsOK'
<1> USE DEF SlabsOK
<1>1. PICK a \in Slabs!InUse :
        /\ pc[t] = "idle" /\ pc' = [pc EXCEPT ![t] = "link"]
        /\ object_memory' = [object_memory EXCEPT ![a] = "deallocated"]
        /\ address' = [address EXCEPT ![t] = a]
  BY DEF Slabs!Poison, Slabs!Goto
<1>2. a \in Slabs!Object /\ object_memory[a] = "used" /\ ~Held(a)
  BY <1>1 DEF Slabs!InUse, Held
<1>3. Slabs!TypeOK'
  BY <1>1, <1>2 DEF Slabs!TypeOK, Slabs!Content
<1>4. \A o : IsCarved(o)' = IsCarved(o)
  BY DEF IsCarved
<1>5. \A o \in Slabs!Object :
        object_memory'[o] = IF o = a THEN "deallocated" ELSE object_memory[o]
  BY <1>1 DEF Slabs!TypeOK
<1>6. \A u \in SlabThread : pc'[u] = IF u = t THEN "link" ELSE pc[u]
  BY <1>1 DEF Slabs!TypeOK
<1>7. \A u \in SlabThread : address[u] = Slabs!NoObject \/ address[u] \in Slabs!Object
  BY DEF Slabs!TypeOK
<1>8. \A u \in SlabThread : address[u] # a
  BY <1>2 DEF Held
<1>9. \A u \in SlabThread : address'[u] = IF u = t THEN a ELSE address[u]
  BY <1>1 DEF Slabs!TypeOK
<1>a. address[t] = Slabs!NoObject
  BY <1>1 DEF Places
<1>10. \A o \in Slabs!Object : Held(o)' <=> o = a \/ Held(o)
  BY <1>9, <1>a, NoObjectIsNone DEF Held
<1>11. IsCarved(a) /\ a \notin Slabs!ToSet(free_list) /\ a # Slabs!NoObject
  BY <1>2, NoObjectIsNone DEF Places
<1> QED
  BY <1>2, <1>3, <1>4, <1>5, <1>6, <1>7, <1>8, <1>9, <1>10, <1>11 DEF Places

LEMMA PlacesLink ==
  ASSUME SlabsOK, given_back = <<>>, UNCHANGED given_back, NEW t \in SlabThread,
         Slabs!Link(t), UNCHANGED <<offset, slab_list>>
  PROVE  SlabsOK'
<1> USE DEF SlabsOK
<1> DEFINE a == address[t]
<1>1. /\ pc[t] = "link" /\ pc' = [pc EXCEPT ![t] = "idle"]
      /\ object_memory' = [object_memory EXCEPT ![a] = "linked"]
      /\ address' = [address EXCEPT ![t] = Slabs!NoObject]
      /\ free_list' = <<a>> \o free_list
  BY DEF Slabs!Link, Slabs!Goto
<1>2. a \in Slabs!Object /\ a \notin Slabs!ToSet(free_list) /\ Held(a)
  <2>1. pc[t] = "link"
    BY <1>1
  <2> QED
    BY <2>1 DEF Places, Slabs!TypeOK, Held
<1>a. /\ free_list' \in Seq(Slabs!Object)
      /\ Slabs!ToSet(free_list') = {a} \cup Slabs!ToSet(free_list)
      /\ Slabs!IsInjective(free_list')
  BY <1>1, <1>2, Prepend DEF Slabs!TypeOK, Places
<1>3. Slabs!TypeOK'
  BY <1>1, <1>2, <1>a DEF Slabs!TypeOK, Slabs!Content
<1>4. \A o : IsCarved(o)' = IsCarved(o)
  BY DEF IsCarved
<1>5. \A o \in Slabs!Object :
        object_memory'[o] = IF o = a THEN "linked" ELSE object_memory[o]
  BY <1>1 DEF Slabs!TypeOK
<1>6. \A u \in SlabThread : pc'[u] = IF u = t THEN "idle" ELSE pc[u]
  BY <1>1 DEF Slabs!TypeOK
<1>7. \A u \in SlabThread : address[u] = Slabs!NoObject \/ address[u] \in Slabs!Object
  BY DEF Slabs!TypeOK
<1>8. \A u \in SlabThread : u # t => address[u] # a
  BY <1>2, NoObjectIsNone DEF Places
<1>9. \A u \in SlabThread : address'[u] = IF u = t THEN Slabs!NoObject ELSE address[u]
  BY <1>1 DEF Slabs!TypeOK
<1>10. \A o \in Slabs!Object : Held(o)' <=> o # a /\ Held(o)
  BY <1>8, <1>9, NoObjectIsNone DEF Held
<1>11. IsCarved(a)
  BY <1>2 DEF Places
<1>12. Slabs!NoObject \notin Slabs!ToSet(free_list')
  BY <1>2, <1>a, FreeAreObjects, NoObjectIsNone
<1> HIDE DEF a
<1> QED
  BY <1>2, <1>a, <1>3, <1>4, <1>5, <1>6, <1>7, <1>8, <1>9, <1>10, <1>11, <1>12 DEF Places

LEMMA PlacesDestroy ==
  ASSUME SlabsOK, Slabs!Destroy
  PROVE  SlabsOK'
<1> USE DEF SlabsOK
<1>1. /\ slab_list' = <<>> /\ free_list' = <<>> /\ UNCHANGED <<offset, object_memory, pc, address>>
      /\ \A t \in SlabThread : pc[t] = "idle"
  BY DEF Slabs!Destroy
<1>2. given_back' \in Seq(HeapSlab) /\ given_back' # <<>>
  BY DEF Slabs!Destroy, Slabs!TypeOK
<1>3. Slabs!ToSet(<<>>) = {} /\ Slabs!IsInjective(<<>>)
  BY OnList DEF Slabs!IsInjective
<1>4. Slabs!TypeOK'
  BY <1>1, <1>2 DEF Slabs!TypeOK
<1>5. \A o \in Slabs!Object : ~IsCarved(o)' /\ ~Held(o)'
  BY <1>1, <1>3, NoObjectIsNone DEF IsCarved, Held, Places
<1> QED
  BY <1>1, <1>2, <1>3, <1>4, <1>5 DEF Places

LEMMA PlacesStep == SlabsOK /\ [Slabs!Next]_(Slabs!vars) => SlabsOK'
<1> SUFFICES ASSUME SlabsOK, [Slabs!Next]_(Slabs!vars) PROVE SlabsOK'
  OBVIOUS
<1>1. CASE UNCHANGED Slabs!vars
  BY <1>1 DEF Slabs!vars, SlabsOK, Slabs!TypeOK, Places, IsCarved, Held
<1>2. ASSUME given_back = <<>>, UNCHANGED given_back, NEW t \in SlabThread, Slabs!Allocate(t)
      PROVE  SlabsOK'
  BY <1>2, PlacesFreeList, PlacesUnlink, PlacesSlab, PlacesTake DEF Slabs!Allocate
<1>3. ASSUME given_back = <<>>, UNCHANGED given_back, NEW t \in SlabThread, Slabs!Free(t)
      PROVE  SlabsOK'
  BY <1>3, PlacesPoison, PlacesLink DEF Slabs!Free
<1> QED
  BY <1>1, <1>2, <1>3, PlacesDestroy DEF Slabs!Next

\* For every set of threads and slabs and every number of objects per slab, the slab
\* allocator hands no object out twice and loses none, although the bytes of an object
\* are poisoned outside the two locks, and Allocate's assertion holds (base/new.cc).
THEOREM ObjectsConservedHolds == Slabs!Spec => []ObjectsConserved
<1>1. SlabsOK => ObjectsConserved
  BY PlacesIs DEF SlabsOK, ObjectsConserved
<1> QED
  BY <1>1, PlacesInit, PlacesStep, PTL DEF Slabs!Spec
-----------------------------------------------------------------------------
(* Natural numbers: minima and induction.                                 *)

\* The least-number principle, for a set of numbers.
LEMMA Least == ASSUME NEW T \in SUBSET Nat, T # {}
               PROVE  \E n \in T : \A m \in T : n <= m
<1> DEFINE R == {ss \in Nat \X Nat : ss[1] < ss[2]}
<1>1. IsWellFoundedOn(R, Nat)
  BY NatLessThanWellFounded DEF OpToRel
<1>2. PICK x \in T : \A y \in T : ~(<<y, x>> \in R)
  BY <1>1, WFMin
<1>3. \A y \in T : ~(y < x)
  BY <1>2
<1> QED
  BY <1>3

LEMMA MinIs == ASSUME NEW T \in SUBSET Nat, T # {}
               PROVE  Heap!Min(T) \in T /\ \A m \in T : Heap!Min(T) <= m
BY Least DEF Heap!Min

\* Induction, for a set of numbers.
LEMMA Induction == ASSUME NEW n \in Nat, NEW T, 0 \in T,
                          \A i \in 0..(n - 1) : i \in T => i + 1 \in T
                   PROVE  0..n \subseteq T
<1> SUFFICES ASSUME 0..n \ T # {} PROVE FALSE
  OBVIOUS
<1>0. 0..n \ T \in SUBSET Nat
  OBVIOUS
<1>1. PICK x \in 0..n \ T : \A y \in 0..n \ T : x <= y
  BY <1>0, Least
<1>2. x - 1 \in 0..(n - 1) /\ x - 1 \in T
  BY <1>1
<1> QED
  BY <1>1, <1>2

-----------------------------------------------------------------------------
(* The page allocator (os/memory.h).                                       *)

ScanStart == [first |-> SlotBits, found |-> FALSE]

\* f is the scan of the first n bits of slot i.
IsScan(f, i, num, n) ==
  f = [b \in 0..n |-> IF b = 0 THEN ScanStart ELSE Heap!ScanBit(i, num, f[b - 1], b - 1)]

\* The scan is well defined.
LEMMA ScanExists == ASSUME NEW i, NEW num, NEW n \in Nat
                    PROVE  \E f : IsScan(f, i, num, n)
<1> DEFINE T == {k \in Nat : \E f : IsScan(f, i, num, k)}
<1>1. 0 \in T
  <2>1. IsScan([b \in 0..0 |-> ScanStart], i, num, 0)
    BY DEF IsScan
  <2> QED
    BY <2>1
<1>2. ASSUME NEW k \in 0..(n - 1), k \in T PROVE k + 1 \in T
  <2>1. PICK f : IsScan(f, i, num, k)
    BY <1>2
  <2> DEFINE g == [b \in 0..(k + 1) |-> IF b = k + 1 THEN Heap!ScanBit(i, num, f[k], k) ELSE f[b]]
  <2>2. k \in Nat /\ k + 1 \in Nat /\ (k + 1) - 1 = k
    OBVIOUS
  <2>3. \A b \in 0..(k + 1) : b = k + 1 \/ b \in 0..k
    BY <2>2
  <2>4. ASSUME NEW b \in 0..(k + 1)
        PROVE  g[b] = IF b = 0 THEN ScanStart ELSE Heap!ScanBit(i, num, g[b - 1], b - 1)
    <3>1. CASE b = k + 1
      <4>1. g[b] = Heap!ScanBit(i, num, f[k], k)
        BY <3>1
      <4>2. k \in 0..(k + 1) /\ k # k + 1 /\ b # 0 /\ b - 1 = k
        BY <3>1, <2>2
      <4>3. g[k] = f[k]
        BY <4>2
      <4> HIDE DEF g
      <4> QED
        BY <4>1, <4>2, <4>3
    <3>2. CASE b \in 0..k
      <4>1. g[b] = f[b]
        BY <3>2, <2>2
      <4>2. f[b] = IF b = 0 THEN ScanStart ELSE Heap!ScanBit(i, num, f[b - 1], b - 1)
        BY <2>1, <3>2 DEF IsScan
      <4>3. b # 0 => b - 1 \in 0..(k + 1) /\ b - 1 # k + 1
        BY <3>2, <2>2
      <4>4. b # 0 => g[b - 1] = f[b - 1]
        BY <4>3
      <4> HIDE DEF g
      <4> QED
        BY <4>1, <4>2, <4>4
    <3> QED
      BY <3>1, <3>2, <2>3
  <2>5. DOMAIN g = 0..(k + 1) /\ g = [b \in DOMAIN g |-> g[b]]
    OBVIOUS
  <2> HIDE DEF g
  <2>6. IsScan(g, i, num, k + 1)
    BY <2>4, <2>5 DEF IsScan
  <2> QED
    BY <2>2, <2>6
<1> HIDE DEF T
<1>3. 0..n \subseteq T
  BY <1>1, <1>2, Induction
<1> QED
  BY <1>3 DEF T

\* A run of num free pages of slot i that starts at bit q.
Run(i, num, q) == q \in Nat /\ q + num <= SlotBits /\ \A k \in q..(q + num - 1) : Heap!IsFree(i, k)

\* What the scan knows after bits 0..b-1.
Scanned(i, num, r, b) ==
  /\ r \in [first : 0..SlotBits, found : BOOLEAN]
  /\ r.found => Run(i, num, r.first)
  /\ ~r.found /\ r.first # SlotBits =>
       r.first < b /\ \A k \in r.first..(b - 1) : Heap!IsFree(i, k)
  /\ \A q : Run(i, num, q) => \/ q >= r.first
                              \/ ~r.found /\ r.first = SlotBits /\ q >= b

LEMMA ScanBitStep ==
  ASSUME HeapAssumption, NEW i, NEW num \in Request, NEW r, NEW b \in 0..(SlotBits - 1),
         Scanned(i, num, r, b)
  PROVE  Scanned(i, num, Heap!ScanBit(i, num, r, b), b + 1)
<1>1. num \in Nat /\ num > 0 /\ SlotBits \in Nat /\ b \in Nat /\ b < SlotBits
  BY HeapAssumption
<1>2. r = [first |-> r.first, found |-> r.found] /\ r.first \in 0..SlotBits /\ r.found \in BOOLEAN
  BY DEF Scanned
<1>3. CASE r.found
  <2>1. Heap!ScanBit(i, num, r, b) = r
    BY <1>3 DEF Heap!ScanBit
  <2>2. \A q : Run(i, num, q) => q >= r.first
    BY <1>3 DEF Scanned
  <2>3. Scanned(i, num, r, b + 1)
    BY <2>2, <1>3 DEF Scanned
  <2> QED
    BY <2>1, <2>3
<1>4. CASE ~r.found /\ Heap!IsFree(i, b)
  <2> DEFINE f == IF b < r.first THEN b ELSE r.first
  <2>1. Heap!ScanBit(i, num, r, b) = [first |-> f, found |-> FALSE]
    BY <1>2, <1>4 DEF Heap!ScanBit
  <2>2. IF r.first = SlotBits THEN f = b ELSE f = r.first /\ f < b
    BY <1>1, <1>2, <1>4 DEF Scanned
  <2>3. f \in 0..SlotBits /\ f < b + 1
    BY <2>2, <1>1, <1>2
  <2>4. \A k \in f..b : Heap!IsFree(i, k)
    BY <2>2, <1>1, <1>4 DEF Scanned
  <2>5. \A q : Run(i, num, q) => q >= f
    BY <2>2, <1>1, <1>2, <1>4 DEF Scanned, Run
  <2> HIDE DEF f
  <2>6. (b + 1) - 1 = b
    BY <1>1
  <2>7. Scanned(i, num, [first |-> f, found |-> FALSE], b + 1)
    BY <2>3, <2>4, <2>5, <2>6 DEF Scanned
  <2> QED
    BY <2>1, <2>7
<1>5. CASE ~r.found /\ ~Heap!IsFree(i, b) /\ r.first < b
  <2>1. CASE num <= b - r.first
    <3>1. Heap!ScanBit(i, num, r, b) = [first |-> r.first, found |-> TRUE]
      BY <1>2, <1>5, <2>1 DEF Heap!ScanBit
    <3>2. Run(i, num, r.first)
      BY <1>1, <1>2, <1>5, <2>1 DEF Scanned, Run
    <3> QED
      BY <3>1, <3>2, <1>1, <1>2, <1>5 DEF Scanned
  <2>2. CASE ~(num <= b - r.first)
    <3>1. Heap!ScanBit(i, num, r, b) = [first |-> SlotBits, found |-> FALSE]
      BY <1>2, <1>5, <2>2 DEF Heap!ScanBit
    <3>2. ASSUME NEW q, Run(i, num, q) PROVE q >= b + 1
      <4>0. q >= r.first
        <5>1. r.first # SlotBits
          BY <1>1, <1>5
        <5> QED
          BY <5>1, <3>2 DEF Scanned
      <4>1. q \in Nat /\ q >= r.first
        BY <3>2, <4>0 DEF Run
      <4>2. ~(b \in q..(q + num - 1))
        BY <3>2, <1>5 DEF Run
      <4> QED
        BY <4>1, <4>2, <1>1, <1>2, <2>2
    <3> QED
      BY <3>1, <3>2, <1>1 DEF Scanned
  <2> QED
    BY <2>1, <2>2
<1>6. CASE ~r.found /\ ~Heap!IsFree(i, b) /\ ~(r.first < b)
  <2>1. Heap!ScanBit(i, num, r, b) = r
    BY <1>6 DEF Heap!ScanBit
  <2>2. r.first = SlotBits
    BY <1>1, <1>2, <1>6 DEF Scanned
  <2>3. ASSUME NEW q, Run(i, num, q) PROVE q >= b + 1
    <3>0. q >= r.first \/ q >= b
      BY <2>3 DEF Scanned
    <3>1. q \in Nat /\ q >= b
      BY <3>0, <2>2, <2>3, <1>1 DEF Run
    <3>2. ~(b \in q..(q + num - 1))
      BY <2>3, <1>6 DEF Run
    <3> QED
      BY <3>1, <3>2, <1>1
  <2> QED
    BY <2>1, <2>2, <2>3, <1>6 DEF Scanned
<1> QED
  BY <1>3, <1>4, <1>5, <1>6

\* The scan of a slot finds its first run of num free pages, if it has one.
LEMMA ScanSlotIs ==
  ASSUME HeapAssumption, NEW i, NEW num \in Request
  PROVE  /\ Heap!ScanSlot(i, num).first \in 0..SlotBits
         /\ \A q : Run(i, num, q) => Heap!Fits(i, num)
         /\ Heap!Fits(i, num) => /\ Run(i, num, Heap!ScanSlot(i, num).first)
                                 /\ \A q : Run(i, num, q) => q >= Heap!ScanSlot(i, num).first
<1> DEFINE f == CHOOSE g : IsScan(g, i, num, SlotBits)
           r == f[SlotBits]
<1>0. SlotBits \in Nat /\ SlotBits > 0 /\ num \in Nat /\ num > 0
  BY HeapAssumption
<1>1. IsScan(f, i, num, SlotBits)
  BY <1>0, ScanExists
<1>2. Heap!ScanSlot(i, num) = r
  BY DEF Heap!ScanSlot, IsScan, ScanStart
<1> HIDE DEF f
<1>3. f[0] = ScanStart
  BY <1>0, <1>1 DEF IsScan
<1>4. \A b \in 0..(SlotBits - 1) : f[b + 1] = Heap!ScanBit(i, num, f[b], b)
  <2> TAKE b \in 0..(SlotBits - 1)
  <2>1. b + 1 \in 0..SlotBits /\ b + 1 # 0 /\ (b + 1) - 1 = b
    BY <1>0
  <2> QED
    BY <2>1, <1>1 DEF IsScan
<1> DEFINE T == {b \in Nat : Scanned(i, num, f[b], b)}
<1>5. 0 \in T
  <2>1. Scanned(i, num, ScanStart, 0)
    BY <1>0 DEF Scanned, ScanStart, Run
  <2> QED
    BY <2>1, <1>3
<1>6. \A b \in 0..(SlotBits - 1) : b \in T => b + 1 \in T
  <2> TAKE b \in 0..(SlotBits - 1)
  <2> HAVE b \in T
  <2>1. Scanned(i, num, Heap!ScanBit(i, num, f[b], b), b + 1)
    BY ScanBitStep
  <2> QED
    BY <2>1, <1>4
<1> HIDE DEF T
<1>7. SlotBits \in T
  BY <1>0, <1>5, <1>6, Induction
<1>8. Scanned(i, num, r, SlotBits)
  BY <1>7 DEF T
<1> HIDE DEF r
<1>9. Heap!Fits(i, num) <=> r.found \/ num <= SlotBits - r.first
  BY <1>2 DEF Heap!Fits
<1>10. r.first \in 0..SlotBits /\ r.found \in BOOLEAN
  BY <1>8 DEF Scanned
<1>11. \A q : Run(i, num, q) => q >= r.first
  BY <1>8, <1>0, <1>10 DEF Scanned, Run
<1>12. ASSUME NEW q, Run(i, num, q) PROVE Heap!Fits(i, num)
  <2>1. q >= r.first /\ q \in Nat /\ q + num <= SlotBits
    BY <1>11, <1>12 DEF Run
  <2> QED
    BY <2>1, <1>0, <1>9, <1>10
<1>13. ASSUME Heap!Fits(i, num) PROVE Run(i, num, r.first)
  <2>1. CASE r.found
    BY <2>1, <1>8 DEF Scanned
  <2>2. CASE ~r.found
    <3>1. num <= SlotBits - r.first
      BY <2>2, <1>9, <1>13
    <3>2. r.first # SlotBits
      BY <3>1, <1>0, <1>10
    <3>3. \A k \in r.first..(SlotBits - 1) : Heap!IsFree(i, k)
      BY <2>2, <3>2, <1>8 DEF Scanned
    <3> QED
      BY <3>1, <3>3, <1>0, <1>10 DEF Run
  <2> QED
    BY <2>1, <2>2
<1> QED
  BY <1>2, <1>10, <1>11, <1>12, <1>13

\* Division of a page number by the size of a slot.
LEMMA SlotOf ==
  ASSUME HeapAssumption, NEW p \in Nat
  PROVE  /\ p \div SlotBits \in Nat /\ p % SlotBits \in 0..(SlotBits - 1)
         /\ p = SlotBits * (p \div SlotBits) + (p % SlotBits)
BY HeapAssumption

LEMMA SlotIs ==
  ASSUME HeapAssumption, NEW i \in Nat, NEW q \in 0..(SlotBits - 1)
  PROVE  SlotBits * i + q \in Nat /\ (SlotBits * i + q) \div SlotBits = i
BY HeapAssumption

\* The runs that RunStarts has are those of the slots.
LEMMA RunStartsAre ==
  ASSUME HeapAssumption, free_pages \subseteq Heap!Page, NEW num \in Request
  PROVE  /\ \A p \in Heap!RunStarts(num) :
              /\ p \in Nat /\ p \div SlotBits \in Heap!Slot
              /\ Run(p \div SlotBits, num, p % SlotBits)
         /\ \A i \in Heap!Slot : \A q : Run(i, num, q) => SlotBits * i + q \in Heap!RunStarts(num)
<1>0. /\ SlotBits \in Nat /\ SlotBits > 0 /\ num \in Nat /\ num > 0 /\ NumPages \in Nat
      /\ Heap!Page \subseteq Nat
  BY HeapAssumption DEF Heap!Page
<1>1. ASSUME NEW p \in Heap!RunStarts(num)
      PROVE  /\ p \in Nat /\ p \div SlotBits \in Heap!Slot
             /\ Run(p \div SlotBits, num, p % SlotBits)
  <2> DEFINE i == p \div SlotBits
             q == p % SlotBits
  <2>1. /\ p \in Nat /\ p < NumPages
        /\ i = (p + num - 1) \div SlotBits /\ p .. (p + num - 1) \subseteq free_pages
    BY <1>0 DEF Heap!RunStarts, Heap!Page
  <2>2. i \in Nat /\ q \in 0..(SlotBits - 1) /\ p = SlotBits * i + q
    BY <2>1, SlotOf
  <2>3. p + num - 1 \in Nat /\ p + num - 1 < SlotBits * i + SlotBits
    BY <2>1, <1>0, SlotOf
  <2>4. i \in Heap!Slot
    <3>1. NumPages \div SlotBits \in Nat /\ NumPages < SlotBits * (NumPages \div SlotBits) + SlotBits
      BY <1>0, SlotOf
    <3>2. SlotBits * i < SlotBits * ((NumPages \div SlotBits) + 1)
      BY <2>1, <2>2, <3>1, <1>0
    <3>3. i < (NumPages \div SlotBits) + 1
      BY <2>2, <3>1, <3>2, <1>0
    <3> QED
      BY <2>2, <3>1, <3>3 DEF Heap!Slot
  <2> HIDE DEF i, q
  <2>5. q + num <= SlotBits
    BY <2>1, <2>2, <2>3, <1>0
  <2>6. ASSUME NEW k \in q..(q + num - 1) PROVE Heap!IsFree(i, k)
    <3>1. SlotBits * i \in Nat
      BY <2>2, <1>0
    <3>2. SlotBits * i + k \in p .. (p + num - 1)
      BY <2>2, <3>1, <1>0
    <3> QED
      BY <3>2, <2>1 DEF Heap!IsFree
  <2> QED
    BY <2>1, <2>2, <2>4, <2>5, <2>6 DEF Run, i, q
<1>2. ASSUME NEW i \in Heap!Slot, NEW q, Run(i, num, q)
      PROVE  SlotBits * i + q \in Heap!RunStarts(num)
  <2> DEFINE p == SlotBits * i + q
  <2>1. i \in Nat /\ q \in Nat /\ q + num <= SlotBits
    BY <1>0, <1>2 DEF Run, Heap!Slot
  <2>2. /\ q \in 0..(SlotBits - 1) /\ q + num - 1 \in 0..(SlotBits - 1)
        /\ SlotBits * i \in Nat
    BY <2>1, <1>0
  <2>3. SlotBits * i + q \in Nat /\ (SlotBits * i + q) \div SlotBits = i
    BY <2>1, <2>2, SlotIs
  <2>4. (SlotBits * i + (q + num - 1)) \div SlotBits = i
    BY <2>1, <2>2, SlotIs
  <2>5. p + num - 1 = SlotBits * i + (q + num - 1)
    BY <2>1, <2>2, <1>0
  <2>6. ASSUME NEW x \in p .. (p + num - 1) PROVE x \in free_pages
    <3>1. x - SlotBits * i \in q..(q + num - 1) /\ x = SlotBits * i + (x - SlotBits * i)
      BY <2>1, <2>2, <1>0
    <3> QED
      BY <3>1, <1>2 DEF Run, Heap!IsFree
  <2>7. p \in p .. (p + num - 1)
    BY <2>3, <1>0
  <2>8. p \in Heap!Page
    BY <2>6, <2>7
  <2> HIDE DEF p
  <2>9. p \in Heap!RunStarts(num)
    BY <2>3, <2>4, <2>5, <2>6, <2>8 DEF Heap!RunStarts, p
  <2> QED
    BY <2>9 DEF p
<1> QED
  BY <1>1, <1>2

\* The bit-by-bit scan is first fit.
LEMMA FirstFitIs ==
  ASSUME HeapAssumption, free_pages \subseteq Heap!Page
  PROVE  Heap!ScanIsFirstFit
<1> SUFFICES ASSUME NEW num \in Request
             PROVE  Heap!FirstFit(num) = IF Heap!RunStarts(num) = {} THEN {}
                                         ELSE {Heap!Min(Heap!RunStarts(num))}
  BY DEF Heap!ScanIsFirstFit
<1> DEFINE fits == {i \in Heap!Slot : Heap!Fits(i, num)}
           R == Heap!RunStarts(num)
<1>0. /\ SlotBits \in Nat /\ SlotBits > 0 /\ num \in Nat /\ num > 0 /\ NumPages \in Nat
      /\ fits \in SUBSET Nat /\ R \in SUBSET Nat
  BY HeapAssumption DEF Heap!Page, Heap!Slot, Heap!RunStarts
<1>1. CASE fits = {}
  <2>1. R = {}
    BY <1>1, RunStartsAre, ScanSlotIs
  <2> QED
    BY <1>1, <2>1 DEF Heap!FirstFit
<1>2. CASE fits # {}
  <2> DEFINE m == Heap!Min(fits)
             f == Heap!ScanSlot(m, num).first
  <2>1. m \in fits /\ \A i \in fits : m <= i
    BY <1>0, <1>2, MinIs
  <2>2. Heap!FirstFit(num) = {SlotBits * m + f}
    BY <1>2 DEF Heap!FirstFit
  <2> HIDE DEF fits, m
  <2>3. m \in Nat /\ m \in Heap!Slot /\ Heap!Fits(m, num)
    BY <2>1, <1>0 DEF fits
  <2>4. /\ f \in 0..SlotBits /\ Run(m, num, f)
        /\ \A q : Run(m, num, q) => q >= f
    BY <2>3, ScanSlotIs
  <2> HIDE DEF f
  <2>5. SlotBits * m + f \in R
    BY <2>3, <2>4, RunStartsAre
  <2>6. ASSUME NEW p \in R PROVE SlotBits * m + f <= p
    <3> DEFINE i == p \div SlotBits
               q == p % SlotBits
    <3>1. p \in Nat /\ i \in Heap!Slot /\ Run(i, num, q)
      BY RunStartsAre
    <3>2. i \in Nat /\ q \in 0..(SlotBits - 1) /\ p = SlotBits * i + q
      BY <3>1, SlotOf
    <3>3. i \in fits
      BY <3>1, ScanSlotIs DEF fits
    <3>4. m <= i
      BY <3>3, <2>1
    <3> HIDE DEF i, q
    <3>5. CASE m = i
      <4>1. q >= f
        BY <3>1, <3>5, <2>4
      <4> QED
        BY <4>1, <3>2, <3>5, <2>4, <1>0
    <3>6. CASE m < i
      <4>1. f <= SlotBits /\ f \in Nat
        BY <2>4, <1>0
      <4>2. SlotBits * (m + 1) <= SlotBits * i
        BY <3>2, <3>6, <2>3, <1>0
      <4>3. SlotBits * (m + 1) = SlotBits * m + SlotBits
        BY <2>3, <1>0
      <4>4. SlotBits * m \in Nat /\ SlotBits * i \in Nat
        BY <2>3, <3>2, <1>0
      <4> QED
        BY <4>1, <4>2, <4>3, <4>4, <3>2, <1>0
    <3> QED
      BY <3>4, <3>5, <3>6, <3>2, <2>3
  <2>7. R # {} /\ Heap!Min(R) \in R /\ \A p \in R : Heap!Min(R) <= p
    BY <2>5, <1>0, MinIs
  <2> HIDE DEF R
  <2>8. Heap!Min(R) = SlotBits * m + f
    <3>1. Heap!Min(R) \in Nat /\ SlotBits * m + f \in Nat
      BY <2>5, <2>7, <1>0
    <3>2. Heap!Min(R) <= SlotBits * m + f /\ SlotBits * m + f <= Heap!Min(R)
      BY <2>5, <2>6, <2>7
    <3> QED
      BY <3>1, <3>2
  <2> QED
    BY <2>2, <2>7, <2>8 DEF R
<1> QED
  BY <1>1, <1>2

HeapOK == Heap!TypeOK /\ Heap!PagesOnce

LEMMA BlockPages ==
  ASSUME HeapAssumption, Heap!TypeOK, NEW b \in owned
  PROVE  /\ b.start \in Nat /\ b.num \in Nat /\ b.num > 0 /\ b.start < NumPages
         /\ Heap!Pages(b) \subseteq Heap!OwnedPages /\ Heap!Pages(b) \subseteq Nat
         /\ b = [start |-> b.start, num |-> b.num]
<1>1. /\ b.start \in Heap!Page /\ b.num \in Request
      /\ b = [start |-> b.start, num |-> b.num]
  BY DEF Heap!TypeOK
<1> QED
  BY <1>1, HeapAssumption DEF Heap!Page, Heap!Pages, Heap!OwnedPages

\* A block of pages that nobody has is taken.
LEMMA TakeBlock ==
  ASSUME HeapAssumption, HeapOK, NEW b \in [start : Heap!Page, num : Request],
         \A p \in Heap!Pages(b) : p < num_allocated_pages' /\ p \notin Heap!OwnedPages
                                  /\ p \notin free_pages' /\ p < NumPages,
         owned' = owned \cup {b}, free_pages' \subseteq free_pages,
         num_allocated_pages <= num_allocated_pages',
         num_allocated_pages' \in 0..NumPages
  PROVE  Heap!PagesOnce' /\ Heap!Abstract!Next
<1>0. /\ b.start \in Nat /\ b.num \in Nat /\ b.num > 0 /\ b.num \in Request
      /\ b.start \in Heap!Page /\ NumPages \in Nat
      /\ num_allocated_pages \in Nat /\ num_allocated_pages' \in Nat
  <2>1. b.start \in Heap!Page /\ b.num \in Request
    OBVIOUS
  <2>2. NumPages \in Nat /\ \A n \in Request : n \in Nat /\ n > 0
    BY HeapAssumption
  <2>3. num_allocated_pages \in 0..NumPages
    BY DEF HeapOK, Heap!TypeOK
  <2>4. b.num \in Nat /\ b.num > 0
    BY <2>1, <2>2
  <2>5. b.start \in Nat
    BY <2>1, <2>2 DEF Heap!Page
  <2>6. num_allocated_pages \in Nat /\ num_allocated_pages' \in Nat
    BY <2>2, <2>3
  <2> QED
    BY <2>1, <2>2, <2>4, <2>5, <2>6
<1>1. Heap!OwnedPages' = Heap!OwnedPages \cup Heap!Pages(b)
  BY DEF Heap!OwnedPages, Heap!Pages
<1>2. \A o \in owned : Heap!Pages(o) \cap Heap!Pages(b) = {}
  BY DEF Heap!OwnedPages
<1>3. \A o, q \in owned' : o # q => Heap!Pages(o) \cap Heap!Pages(q) = {}
  BY <1>2 DEF HeapOK, Heap!PagesOnce
<1>4. Heap!OwnedPages' \cap free_pages' = {}
  BY <1>1 DEF HeapOK, Heap!PagesOnce
<1>5. \A p \in Heap!OwnedPages' \cup free_pages' : p < num_allocated_pages'
  <2> TAKE p \in Heap!OwnedPages' \cup free_pages'
  <2>1. CASE p \in Heap!Pages(b)
    BY <2>1
  <2>2. CASE p \in Heap!OwnedPages \cup free_pages
    <3>1. p < num_allocated_pages
      BY <2>2 DEF HeapOK, Heap!PagesOnce
    <3>2. p \in Nat
      BY <2>2, BlockPages DEF HeapOK, Heap!TypeOK, Heap!OwnedPages, Heap!Page
    <3> QED
      BY <3>1, <3>2, <1>0
  <2> QED
    BY <2>1, <2>2, <1>1
<1>6. Heap!PagesOnce'
  BY <1>3, <1>4, <1>5 DEF Heap!PagesOnce, Heap!Pages
<1>7. b.start + b.num <= NumPages
  <2>1. b.start + b.num - 1 \in Heap!Pages(b)
    BY <1>0 DEF Heap!Pages
  <2> QED
    BY <2>1, <1>0
<1>8. \A o : Heap!Abstract!Pages(o) = Heap!Pages(o)
  BY DEF Heap!Abstract!Pages, Heap!Pages
<1>9. Heap!Abstract!Allocate
  <2>1. b \in Heap!Abstract!Block
    BY DEF Heap!Abstract!Block, Heap!Page
  <2> QED
    BY <2>1, <1>2, <1>7, <1>8 DEF Heap!Abstract!Allocate
<1> QED
  BY <1>6, <1>9 DEF Heap!Abstract!Next

LEMMA HeapBump ==
  ASSUME HeapAssumption, HeapOK, NEW t \in Thread, NEW num \in Request, Heap!Bump(t, num)
  PROVE  HeapOK' /\ (Heap!Abstract!Next \/ UNCHANGED owned)
<1> DEFINE index == num_allocated_pages
<1>0. num \in Nat /\ num > 0 /\ index \in 0..NumPages /\ NumPages \in Nat
  BY HeapAssumption DEF HeapOK, Heap!TypeOK
<1>1. num_allocated_pages' = IF index + num < NumPages THEN index + num ELSE NumPages
  <2>1. {index + num, NumPages} \in SUBSET Nat
    BY <1>0
  <2>2. /\ Heap!Min({index + num, NumPages}) \in {index + num, NumPages}
        /\ \A m \in {index + num, NumPages} : Heap!Min({index + num, NumPages}) <= m
    BY <2>1, MinIs
  <2> QED
    BY <2>2, <1>0 DEF Heap!Bump
<1>2. CASE NumPages > index + num
  <2> DEFINE b == [start |-> index, num |-> num]
  <2>1. owned' = owned \cup {b} /\ UNCHANGED <<want, free_pages>>
    BY <1>0, <1>2 DEF Heap!Bump
  <2>2. b \in [start : Heap!Page, num : Request]
    BY <1>0, <1>2 DEF Heap!Page
  <2>3. ASSUME NEW p \in Heap!Pages(b)
        PROVE  p < num_allocated_pages' /\ p \notin Heap!OwnedPages
               /\ p \notin free_pages' /\ p < NumPages
    <3>1. p \in Nat /\ p >= index /\ p < index + num
      BY <1>0 DEF Heap!Pages
    <3> QED
      BY <3>1, <1>0, <1>1, <1>2, <2>1 DEF HeapOK, Heap!PagesOnce
  <2>4. num_allocated_pages <= num_allocated_pages' /\ num_allocated_pages' \in 0..NumPages
    BY <1>0, <1>1
  <2> HIDE DEF b
  <2>5. Heap!PagesOnce' /\ Heap!Abstract!Next
    BY <2>1, <2>2, <2>3, <2>4, TakeBlock
  <2>6. Heap!TypeOK'
    BY <2>1, <2>2, <2>4 DEF HeapOK, Heap!TypeOK
  <2> QED
    BY <2>5, <2>6 DEF HeapOK
<1>3. CASE NumPages <= index + num
  <2>1. want' = [want EXCEPT ![t] = num] /\ UNCHANGED <<owned, free_pages>>
    BY <1>0, <1>3 DEF Heap!Bump
  <2>2. Heap!TypeOK'
    BY <2>1, <1>0, <1>1 DEF HeapOK, Heap!TypeOK
  <2>3. \A p \in Heap!OwnedPages \cup free_pages : p < num_allocated_pages'
    <3> TAKE p \in Heap!OwnedPages \cup free_pages
    <3>1. p < num_allocated_pages
      BY DEF HeapOK, Heap!PagesOnce
    <3>2. p \in Nat
      BY <1>0, BlockPages DEF HeapOK, Heap!TypeOK, Heap!OwnedPages, Heap!Page
    <3> QED
      BY <3>1, <3>2, <1>0, <1>1
  <2>4. Heap!PagesOnce'
    BY <2>1, <2>3 DEF HeapOK, Heap!PagesOnce, Heap!OwnedPages, Heap!Pages
  <2> QED
    BY <2>1, <2>2, <2>4 DEF HeapOK
<1> QED
  BY <1>0, <1>2, <1>3

LEMMA HeapSlow ==
  ASSUME HeapAssumption, HeapOK, NEW t \in Thread, Heap!AllocatePagesSlow(t)
  PROVE  HeapOK' /\ (Heap!Abstract!Next \/ UNCHANGED owned)
<1> DEFINE num == want[t]
           taken == {[start |-> p, num |-> num] : p \in Heap!FirstFit(num)}
<1>0. /\ num \in Request /\ num \in Nat /\ num > 0 /\ NumPages \in Nat
      /\ free_pages \subseteq Heap!Page /\ Heap!Page \subseteq Nat
  <2>1. want[t] \in Request \cup {0} /\ want[t] # 0 /\ free_pages \subseteq Heap!Page
    BY DEF HeapOK, Heap!TypeOK, Heap!AllocatePagesSlow
  <2>2. NumPages \in Nat /\ \A n \in Request : n \in Nat /\ n > 0
    BY HeapAssumption
  <2>3. num \in Request
    BY <2>1
  <2>4. Heap!Page \subseteq Nat
    BY <2>2 DEF Heap!Page
  <2> QED
    BY <2>1, <2>2, <2>3, <2>4
<1>1. /\ want' = [want EXCEPT ![t] = 0] /\ owned' = owned \cup taken
      /\ free_pages' = free_pages \ UNION {Heap!Pages(b) : b \in taken}
      /\ UNCHANGED num_allocated_pages
  BY DEF Heap!AllocatePagesSlow
<1>2. CASE Heap!RunStarts(num) = {}
  <2>1. taken = {}
    BY <1>0, <1>2, FirstFitIs DEF Heap!ScanIsFirstFit
  <2>2. UNCHANGED <<owned, free_pages>>
    BY <1>1, <2>1
  <2>3. Heap!TypeOK'
    BY <2>2, <1>1 DEF HeapOK, Heap!TypeOK
  <2> QED
    BY <2>2, <2>3, <1>1 DEF HeapOK, Heap!PagesOnce, Heap!OwnedPages, Heap!Pages
<1>3. CASE Heap!RunStarts(num) # {}
  <2> DEFINE p == Heap!Min(Heap!RunStarts(num))
             b == [start |-> p, num |-> num]
  <2>1. Heap!FirstFit(num) = {p}
    BY <1>0, <1>3, FirstFitIs DEF Heap!ScanIsFirstFit
  <2>2. p \in Heap!RunStarts(num)
    BY <1>0, <1>3, MinIs DEF Heap!RunStarts
  <2>3. p \in Heap!Page /\ p \in Nat /\ p .. (p + num - 1) \subseteq free_pages
    BY <2>2, <1>0 DEF Heap!RunStarts
  <2> HIDE DEF p
  <2>4. taken = {b}
    BY <2>1
  <2>5. b \in [start : Heap!Page, num : Request] /\ Heap!Pages(b) \subseteq free_pages
    BY <2>3, <1>0 DEF Heap!Pages
  <2> HIDE DEF b, taken
  <2>6. owned' = owned \cup {b} /\ free_pages' = free_pages \ Heap!Pages(b)
    BY <1>1, <2>4
  <2>7. ASSUME NEW x \in Heap!Pages(b)
        PROVE  x < num_allocated_pages' /\ x \notin Heap!OwnedPages
               /\ x \notin free_pages' /\ x < NumPages
    <3>1. x \in free_pages /\ x \in Heap!Page
      BY <2>5, <1>0
    <3>2. x < NumPages
      BY <3>1, <1>0 DEF Heap!Page
    <3> QED
      BY <3>1, <3>2, <2>6, <1>1 DEF HeapOK, Heap!PagesOnce
  <2>8. num_allocated_pages <= num_allocated_pages' /\ num_allocated_pages' \in 0..NumPages
    BY <1>1, <1>0 DEF HeapOK, Heap!TypeOK
  <2>9. Heap!PagesOnce' /\ Heap!Abstract!Next
    BY <2>5, <2>6, <2>7, <2>8, TakeBlock
  <2>10. Heap!TypeOK'
    BY <2>5, <2>6, <2>8, <1>1 DEF HeapOK, Heap!TypeOK
  <2> QED
    BY <2>9, <2>10 DEF HeapOK
<1> QED
  BY <1>2, <1>3

LEMMA HeapFree ==
  ASSUME HeapAssumption, HeapOK, NEW b \in owned, Heap!FreePages(b)
  PROVE  HeapOK' /\ Heap!Abstract!Next
<1>0. Heap!Pages(b) \subseteq Nat /\ Heap!Pages(b) \subseteq Heap!OwnedPages
  BY BlockPages DEF HeapOK
<1>1. {SlotBits * (p \div SlotBits) + (p % SlotBits) : p \in Heap!Pages(b)} = Heap!Pages(b)
  BY <1>0, SlotOf
<1>2. /\ owned' = owned \ {b} /\ free_pages' = free_pages \cup Heap!Pages(b)
      /\ UNCHANGED <<num_allocated_pages, want>>
  BY <1>1 DEF Heap!FreePages
<1>3. Heap!OwnedPages' = Heap!OwnedPages \ Heap!Pages(b)
  BY <1>2 DEF Heap!OwnedPages, Heap!Pages, HeapOK, Heap!PagesOnce
<1>4. Heap!Pages(b) \subseteq Heap!Page
  <2>1. \A p \in Heap!Pages(b) : p < num_allocated_pages
    BY <1>0 DEF HeapOK, Heap!PagesOnce
  <2> QED
    BY <2>1, <1>0, HeapAssumption DEF HeapOK, Heap!TypeOK, Heap!Page
<1>5. Heap!TypeOK'
  BY <1>2, <1>4 DEF HeapOK, Heap!TypeOK
<1>6. Heap!PagesOnce'
  <2>1. \A x, y \in owned' : x # y => Heap!Pages(x) \cap Heap!Pages(y) = {}
    BY <1>2 DEF HeapOK, Heap!PagesOnce
  <2>2. Heap!OwnedPages' \cap free_pages' = {}
    BY <1>2, <1>3 DEF HeapOK, Heap!PagesOnce
  <2>3. \A p \in Heap!OwnedPages' \cup free_pages' : p < num_allocated_pages'
    BY <1>0, <1>2, <1>3 DEF HeapOK, Heap!PagesOnce
  <2> QED
    BY <2>1, <2>2, <2>3 DEF Heap!PagesOnce, Heap!Pages
<1>7. Heap!Abstract!Next
  BY <1>2 DEF Heap!Abstract!Next, Heap!Abstract!Free
<1> QED
  BY <1>5, <1>6, <1>7 DEF HeapOK

LEMMA HeapExit ==
  ASSUME HeapAssumption, HeapOK, Heap!ExitHeap
  PROVE  HeapOK' /\ Heap!Abstract!Next
<1>1. /\ num_allocated_pages' = 0 /\ free_pages' = {} /\ owned' = {} /\ UNCHANGED want
  BY DEF Heap!ExitHeap
<1>2. Heap!TypeOK'
  BY <1>1, HeapAssumption DEF HeapOK, Heap!TypeOK
<1>3. Heap!PagesOnce'
  BY <1>1 DEF Heap!PagesOnce, Heap!OwnedPages
<1> QED
  BY <1>1, <1>2, <1>3 DEF HeapOK, Heap!Abstract!Next, Heap!Abstract!Reset

LEMMA HeapInit == Heap!Init => HeapOK /\ Heap!Abstract!Init
<1> SUFFICES ASSUME Heap!Init PROVE HeapOK /\ Heap!Abstract!Init
  OBVIOUS
<1>1. Heap!TypeOK
  BY HeapAssumption DEF Heap!Init, Heap!TypeOK
<1>2. Heap!PagesOnce
  BY DEF Heap!Init, Heap!PagesOnce, Heap!OwnedPages
<1> QED
  BY <1>1, <1>2 DEF HeapOK, Heap!Init, Heap!Abstract!Init

LEMMA HeapStep ==
  HeapOK /\ [Heap!Next]_(Heap!vars) => HeapOK' /\ [Heap!Abstract!Next]_owned
<1> SUFFICES ASSUME HeapOK, [Heap!Next]_(Heap!vars)
             PROVE  HeapOK' /\ (Heap!Abstract!Next \/ UNCHANGED owned)
  OBVIOUS
<1>1. CASE UNCHANGED Heap!vars
  BY <1>1 DEF Heap!vars, HeapOK, Heap!TypeOK, Heap!PagesOnce, Heap!OwnedPages, Heap!Pages
<1>2. CASE Heap!Next
  BY <1>2, HeapAssumption, HeapBump, HeapSlow, HeapFree, HeapExit DEF Heap!Next
<1> QED
  BY <1>1, <1>2

\* For every number of pages, every slot size, all requests and any number of threads:
\* PageAllocator hands every caller a block of its own, although fresh pages are handed
\* out without the lock, and its bit-by-bit scan is first fit (os/memory.h).
THEOREM PageAllocatorImplementsPageHeap == Heap!Spec => ImplementsPageHeap
<1>1. Heap!Spec => []HeapOK
  BY HeapInit, HeapStep, PTL DEF Heap!Spec
<1>2. Heap!Spec => Heap!ImplementsPageHeap
  BY <1>1, HeapInit, HeapStep, PTL DEF Heap!Spec, Heap!ImplementsPageHeap, Heap!Abstract!Spec
<1>3. HeapOK => (part = "pages" => Heap!ScanIsFirstFit)
  BY HeapAssumption, FirstFitIs DEF HeapOK, Heap!TypeOK
<1> QED
  BY <1>1, <1>2, <1>3, PTL DEF ImplementsPageHeap
-----------------------------------------------------------------------------
(* The code cache index (granary/index.cc), as Translate uses it.          *)

LEMMA LookupConstants ==
  /\ CanUnifyWith \in [Meta -> [Meta -> Lookup!Status]]
  /\ \A m \in Meta : Lookup!FirstOf(m) \in First /\ Lookup!SecondOf(m) \in Second
  /\ NoThread \notin Array /\ NoThread \notin Meta /\ NoThread \notin Thread
  /\ Thread # {}
BY IndexAssumption DEF Lookup!IndexAssumption, Lookup!FirstOf, Lookup!SecondOf

\* The steps of the index.
LEMMA LookupSteps ==
  ASSUME [Lookup!Next]_(Lookup!vars), NEW P,
         ASSUME NEW t \in Thread, NEW m \in Meta, Lookup!Translate(t, m) PROVE P,
         ASSUME NEW t \in Thread, Lookup!ReadIndex(t) PROVE P,
         ASSUME NEW t \in Thread, Lookup!RequestIndexedBlock(t) PROVE P,
         ASSUME NEW t \in Thread, NEW others \in SUBSET Meta, Lookup!Compile(t, others) PROVE P,
         ASSUME NEW t \in Thread, Lookup!Index(t) PROVE P,
         ASSUME NEW t \in Thread, Lookup!LockSecondLevel(t) PROVE P,
         ASSUME NEW t \in Thread, Lookup!NewMetaDataArray(t) PROVE P,
         ASSUME NEW t \in Thread, Lookup!Bind(t) PROVE P,
         ASSUME NEW t \in Thread, Lookup!Link(t) PROVE P,
         ASSUME NEW t \in Thread, NEW b \in Meta, Lookup!AddMetaDataToLog(t, b) PROVE P,
         ASSUME NEW t \in Thread, Lookup!Return(t) PROVE P,
         Lookup!ExitIndex => P,
         UNCHANGED Lookup!vars => P
  PROVE  P
<1>1. ASSUME NEW t \in Thread, NEW others \in {{}} \cup {{m} : m \in Meta},
             Lookup!Compile(t, others)
      PROVE  P
  <2>1. others \in SUBSET Meta
    OBVIOUS
  <2> QED
    BY <1>1, <2>1
<1>2. ASSUME NEW t \in Thread, Lookup!AddMetaDataToIndex(t) PROVE P
  BY <1>2 DEF Lookup!AddMetaDataToIndex
<1> QED
  BY <1>1, <1>2 DEF Lookup!Next

Compiled == {"index", "match_index", "lock", "new", "bind", "link"}

\* Meta-data is in the code cache before it is in the index, and an array that is
\* used is there.
EncodedInv ==
  /\ \A t \in Thread :
       /\ meta[t] = NoThread <=> index_pc[t] \in {"idle", "exited"}
       /\ index_pc[t] \in Compiled => meta[t] \in encoded
       /\ index_pc[t] = "bind" => gIndex[Lookup!FirstOf(meta[t])] # NoThread
       /\ index_pc[t] = "link" => array[t] # NoThread
       /\ index_pc[t] = "exited" => \A u \in Thread : index_pc[u] = "exited"
  /\ \A a \in Array, s \in Second : Slabs!ToSet(metas[a][s]) \subseteq encoded

FoundInv == Lookup!TypeOK /\ EncodedInv /\ Lookup!FoundIsEncoded

\* What a lookup returns is encoded, and it is what was asked for.
LEMMA FoundIs ==
  ASSUME Lookup!TypeOK, EncodedInv, NEW t \in Thread, meta[t] \in Meta
  PROVE  /\ Lookup!Found(t) \in [status : Lookup!Status, meta : Meta \cup {NoThread}]
         /\ Lookup!Found(t).status # "reject" =>
              /\ Lookup!Found(t).meta \in encoded
              /\ Lookup!Equals(meta[t], Lookup!Found(t).meta)
<1>1. /\ Lookup!NoResponse \in [status : Lookup!Status, meta : Meta \cup {NoThread}]
      /\ Lookup!NoResponse.status = "reject"
  BY DEF Lookup!NoResponse, Lookup!Status
<1>2. CASE array[t] = NoThread
  BY <1>1, <1>2 DEF Lookup!Found
<1>3. CASE array[t] # NoThread
  <2> DEFINE ls == metas[array[t]][Lookup!SecondOf(meta[t])]
             same == {i \in DOMAIN ls : Lookup!Equals(meta[t], ls[i])}
             status == CanUnifyWith[meta[t]][Head(ls)]
  <2>1. /\ array[t] \in Array /\ Lookup!SecondOf(meta[t]) \in Second
    BY <1>3, LookupConstants DEF Lookup!TypeOK
  <2>2. ls \in Seq(Meta)
    BY <2>1 DEF Lookup!TypeOK
  <2>3. Lookup!Found(t) = Lookup!MatchMetaData(ls, meta[t])
    BY <1>3 DEF Lookup!Found
  <2>4. Slabs!ToSet(ls) \subseteq encoded
    BY <2>1 DEF EncodedInv
  <2> HIDE DEF ls
  <2>5. CASE same = {} \/ status = "reject"
    BY <2>3, <2>5, <1>1 DEF Lookup!MatchMetaData
  <2>6. CASE ~(same = {} \/ status = "reject")
    <3>1. Lookup!Found(t) = [status |-> status, meta |-> Lookup!FirstIn(ls, same)]
      BY <2>3, <2>6 DEF Lookup!MatchMetaData
    <3>2. same \in SUBSET Nat /\ same # {} /\ ls # <<>>
      BY <2>2, <2>6
    <3>3. PICK i \in same : Lookup!FirstIn(ls, same) = ls[i]
      <4>1. \E i \in same : \A j \in same : i <= j
        BY <3>2, Least
      <4> QED
        BY <4>1 DEF Lookup!FirstIn
    <3>4. i \in DOMAIN ls /\ ls[i] \in Meta /\ Lookup!Equals(meta[t], ls[i])
      BY <3>3, <2>2
    <3>5. ls[i] \in encoded
      BY <3>4, <2>4, OnList
    <3>6. Head(ls) \in Meta
      BY <3>2, <2>2
    <3>7. status \in Lookup!Status
      BY <3>6, LookupConstants
    <3> HIDE DEF status, same
    <3> QED
      BY <3>1, <3>3, <3>4, <3>5, <3>7
  <2> QED
    BY <2>5, <2>6
<1> QED
  BY <1>2, <1>3

LEMMA FoundInit == Lookup!Init => FoundInv
<1> SUFFICES ASSUME Lookup!Init PROVE FoundInv
  OBVIOUS
<1>1. Lookup!TypeOK
  BY DEF Lookup!Init, Lookup!TypeOK, Lookup!PC, Lookup!NoResponse, Lookup!Status
<1>2. \A a \in Array, s \in Second : Slabs!ToSet(metas[a][s]) = {}
  BY DEF Lookup!Init, Slabs!ToSet
<1>3. EncodedInv
  BY <1>2 DEF Lookup!Init, EncodedInv, Compiled
<1>4. Lookup!FoundIsEncoded
  BY DEF Lookup!Init, Lookup!FoundIsEncoded, Lookup!NoResponse
<1> QED
  BY <1>1, <1>3, <1>4 DEF FoundInv

LEMMA FoundTranslate ==
  ASSUME FoundInv, NEW t \in Thread, NEW m \in Meta, Lookup!Translate(t, m) PROVE FoundInv'
<1>1. Lookup!TypeOK'
  BY DEF FoundInv, Lookup!TypeOK, Lookup!PC, Lookup!NoResponse, Lookup!Status, Lookup!Translate, Lookup!indexVars
<1>2. EncodedInv'
  BY LookupConstants DEF FoundInv, Lookup!TypeOK, EncodedInv, Compiled, Lookup!Translate, Lookup!indexVars
<1>3. Lookup!FoundIsEncoded'
  BY DEF FoundInv, Lookup!TypeOK, Lookup!FoundIsEncoded, Lookup!NoResponse, Lookup!Translate, Lookup!Equals
<1> QED
  BY <1>1, <1>2, <1>3 DEF FoundInv

LEMMA FoundRead ==
  ASSUME FoundInv, NEW t \in Thread, Lookup!ReadIndex(t) PROVE FoundInv'
<1>0. meta[t] \in Meta
  BY DEF FoundInv, EncodedInv, Lookup!TypeOK, Lookup!ReadIndex
<1>1. Lookup!TypeOK'
  BY <1>0, LookupConstants DEF FoundInv, Lookup!TypeOK, Lookup!PC, Lookup!ReadIndex, Lookup!indexVars
<1>2. EncodedInv'
  BY DEF FoundInv, Lookup!TypeOK, EncodedInv, Compiled, Lookup!ReadIndex, Lookup!indexVars
<1>3. Lookup!FoundIsEncoded'
  BY DEF FoundInv, Lookup!TypeOK, Lookup!FoundIsEncoded, Lookup!ReadIndex, Lookup!Equals
<1> QED
  BY <1>1, <1>2, <1>3 DEF FoundInv

LEMMA FoundRequest ==
  ASSUME FoundInv, NEW t \in Thread, Lookup!RequestIndexedBlock(t) PROVE FoundInv'
<1>0. meta[t] \in Meta
  BY DEF FoundInv, EncodedInv, Lookup!TypeOK, Lookup!RequestIndexedBlock
<1>a. /\ Lookup!Found(t) \in [status : Lookup!Status, meta : Meta \cup {NoThread}]
      /\ Lookup!Found(t).status # "reject" =>
           /\ Lookup!Found(t).meta \in encoded
           /\ Lookup!Equals(meta[t], Lookup!Found(t).meta)
  BY <1>0, FoundIs DEF FoundInv
<1>1. Lookup!TypeOK'
  <2>1. /\ UNCHANGED <<blocks, array, gIndex, metas, arrays, gSecondLevelLocks, gUnindexedMeta,
                      indexed, encoded, used>>
        /\ response' = [response EXCEPT ![t] = Lookup!Found(t)]
    BY DEF Lookup!RequestIndexedBlock, Lookup!indexVars
  <2>2. index_pc' \in [Thread -> Lookup!PC]
    BY DEF Lookup!RequestIndexedBlock, FoundInv, Lookup!TypeOK, Lookup!PC
  <2>3. meta' \in [Thread -> Meta \cup {NoThread}] /\ deleted' \subseteq Meta
    BY <1>0 DEF Lookup!RequestIndexedBlock, FoundInv, Lookup!TypeOK
  <2> QED
    BY <1>a, <2>1, <2>2, <2>3 DEF FoundInv, Lookup!TypeOK
<1>2. EncodedInv'
  <2>1. CASE Lookup!Found(t).status = "accept"
    <3>1. /\ meta' = [meta EXCEPT ![t] = NoThread] /\ index_pc' = [index_pc EXCEPT ![t] = "idle"]
          /\ UNCHANGED <<encoded, gIndex, array, metas>> /\ index_pc[t] = "match_request"
      BY <2>1 DEF Lookup!RequestIndexedBlock, Lookup!indexVars
    <3> QED
      BY <3>1, LookupConstants DEF FoundInv, Lookup!TypeOK, EncodedInv, Compiled
  <2>2. CASE Lookup!Found(t).status # "accept"
    <3>1. /\ index_pc' = [index_pc EXCEPT ![t] = "compile"]
          /\ UNCHANGED <<meta, encoded, gIndex, array, metas>> /\ index_pc[t] = "match_request"
      BY <2>2 DEF Lookup!RequestIndexedBlock, Lookup!indexVars
    <3> QED
      BY <3>1 DEF FoundInv, Lookup!TypeOK, EncodedInv, Compiled
  <2> QED
    BY <2>1, <2>2
<1>3. Lookup!FoundIsEncoded'
  BY <1>a DEF FoundInv, Lookup!TypeOK, Lookup!FoundIsEncoded, Lookup!RequestIndexedBlock, Lookup!Equals
<1> QED
  BY <1>1, <1>2, <1>3 DEF FoundInv

LEMMA FoundCompile ==
  ASSUME FoundInv, NEW t \in Thread, NEW others \in SUBSET Meta, Lookup!Compile(t, others)
  PROVE  FoundInv'
<1>0. meta[t] \in Meta
  BY DEF FoundInv, EncodedInv, Lookup!TypeOK, Lookup!Compile
<1>1. Lookup!TypeOK'
  BY <1>0 DEF FoundInv, Lookup!TypeOK, Lookup!PC, Lookup!Compile, Lookup!indexVars
<1>2. EncodedInv'
  BY <1>0 DEF FoundInv, Lookup!TypeOK, EncodedInv, Compiled, Lookup!Compile, Lookup!indexVars
<1>3. Lookup!FoundIsEncoded'
  BY DEF FoundInv, Lookup!TypeOK, Lookup!FoundIsEncoded, Lookup!Compile, Lookup!Equals
<1> QED
  BY <1>1, <1>2, <1>3 DEF FoundInv

LEMMA FoundIndex ==
  ASSUME FoundInv, NEW t \in Thread, Lookup!Index(t) PROVE FoundInv'
<1>0. meta[t] \in Meta
  BY DEF FoundInv, EncodedInv, Lookup!TypeOK, Lookup!Index
<1>a. /\ Lookup!Found(t) \in [status : Lookup!Status, meta : Meta \cup {NoThread}]
      /\ Lookup!Found(t).status # "reject" =>
           /\ Lookup!Found(t).meta \in encoded
           /\ Lookup!Equals(meta[t], Lookup!Found(t).meta)
  BY <1>0, FoundIs DEF FoundInv
<1>1. Lookup!TypeOK'
  <2>1. /\ UNCHANGED <<meta, array, gIndex, metas, arrays, gSecondLevelLocks, gUnindexedMeta,
                      indexed, encoded, used, deleted>>
        /\ response' = [response EXCEPT ![t] = Lookup!Found(t)]
    BY DEF Lookup!Index, Lookup!indexVars
  <2>2. index_pc' \in [Thread -> Lookup!PC]
    BY DEF Lookup!Index, FoundInv, Lookup!TypeOK, Lookup!PC
  <2>3. blocks' \in [Thread -> SUBSET Meta]
    BY <1>0 DEF Lookup!Index, FoundInv, Lookup!TypeOK
  <2> QED
    BY <1>a, <2>1, <2>2, <2>3 DEF FoundInv, Lookup!TypeOK
<1>2. EncodedInv'
  BY <1>0 DEF FoundInv, Lookup!TypeOK, EncodedInv, Compiled, Lookup!Index, Lookup!indexVars
<1>3. Lookup!FoundIsEncoded'
  BY <1>a DEF FoundInv, Lookup!TypeOK, Lookup!FoundIsEncoded, Lookup!Index, Lookup!Equals
<1> QED
  BY <1>1, <1>2, <1>3 DEF FoundInv

LEMMA FoundLock ==
  ASSUME FoundInv, NEW t \in Thread, Lookup!LockSecondLevel(t) PROVE FoundInv'
<1>0. meta[t] \in Meta
  BY DEF FoundInv, EncodedInv, Lookup!TypeOK, Lookup!LockSecondLevel
<1>1. Lookup!TypeOK'
  BY <1>0, LookupConstants, Prepend DEF FoundInv, Lookup!TypeOK, Lookup!PC, Lookup!LockSecondLevel, Lookup!indexVars
<1>2. EncodedInv'
  BY <1>0, LookupConstants DEF FoundInv, Lookup!TypeOK, EncodedInv, Compiled, Lookup!LockSecondLevel, Lookup!indexVars
<1>3. Lookup!FoundIsEncoded'
  BY LookupConstants DEF FoundInv, Lookup!TypeOK, Lookup!FoundIsEncoded, Lookup!LockSecondLevel, Lookup!Equals
<1> QED
  BY <1>1, <1>2, <1>3 DEF FoundInv

LEMMA FoundNew ==
  ASSUME FoundInv, NEW t \in Thread, Lookup!NewMetaDataArray(t) PROVE FoundInv'
<1>0. meta[t] \in Meta
  BY DEF FoundInv, EncodedInv, Lookup!TypeOK, Lookup!NewMetaDataArray
<1>1. Lookup!TypeOK'
  BY <1>0, LookupConstants, Prepend DEF FoundInv, Lookup!TypeOK, Lookup!PC, Lookup!NewMetaDataArray, Lookup!indexVars
<1>2. EncodedInv'
  BY <1>0, LookupConstants DEF FoundInv, Lookup!TypeOK, EncodedInv, Compiled, Lookup!NewMetaDataArray, Lookup!indexVars
<1>3. Lookup!FoundIsEncoded'
  BY LookupConstants DEF FoundInv, Lookup!TypeOK, Lookup!FoundIsEncoded, Lookup!NewMetaDataArray, Lookup!Equals
<1> QED
  BY <1>1, <1>2, <1>3 DEF FoundInv

LEMMA FoundBind ==
  ASSUME FoundInv, NEW t \in Thread, Lookup!Bind(t) PROVE FoundInv'
<1>0. meta[t] \in Meta
  BY DEF FoundInv, EncodedInv, Lookup!TypeOK, Lookup!Bind
<1>1. Lookup!TypeOK'
  BY <1>0, LookupConstants, Prepend DEF FoundInv, Lookup!TypeOK, Lookup!PC, Lookup!Bind, Lookup!indexVars
<1>2. EncodedInv'
  BY <1>0, LookupConstants DEF FoundInv, Lookup!TypeOK, EncodedInv, Compiled, Lookup!Bind, Lookup!indexVars
<1>3. Lookup!FoundIsEncoded'
  BY LookupConstants DEF FoundInv, Lookup!TypeOK, Lookup!FoundIsEncoded, Lookup!Bind, Lookup!Equals
<1> QED
  BY <1>1, <1>2, <1>3 DEF FoundInv

LEMMA FoundLog ==
  ASSUME FoundInv, NEW t \in Thread, NEW b \in Meta, Lookup!AddMetaDataToLog(t, b) PROVE FoundInv'
<1>0. meta[t] \in Meta
  BY DEF FoundInv, EncodedInv, Lookup!TypeOK, Lookup!AddMetaDataToLog
<1>1. Lookup!TypeOK'
  BY <1>0, LookupConstants, Prepend DEF FoundInv, Lookup!TypeOK, Lookup!PC, Lookup!AddMetaDataToLog, Lookup!indexVars
<1>2. EncodedInv'
  BY <1>0, LookupConstants DEF FoundInv, Lookup!TypeOK, EncodedInv, Compiled, Lookup!AddMetaDataToLog, Lookup!indexVars
<1>3. Lookup!FoundIsEncoded'
  BY LookupConstants DEF FoundInv, Lookup!TypeOK, Lookup!FoundIsEncoded, Lookup!AddMetaDataToLog, Lookup!Equals
<1> QED
  BY <1>1, <1>2, <1>3 DEF FoundInv

LEMMA FoundReturn ==
  ASSUME FoundInv, NEW t \in Thread, Lookup!Return(t) PROVE FoundInv'
<1>0. meta[t] \in Meta
  BY DEF FoundInv, EncodedInv, Lookup!TypeOK, Lookup!Return
<1>1. Lookup!TypeOK'
  BY <1>0, LookupConstants, Prepend DEF FoundInv, Lookup!TypeOK, Lookup!PC, Lookup!Return, Lookup!indexVars
<1>2. EncodedInv'
  BY <1>0, LookupConstants DEF FoundInv, Lookup!TypeOK, EncodedInv, Compiled, Lookup!Return, Lookup!indexVars
<1>3. Lookup!FoundIsEncoded'
  BY LookupConstants DEF FoundInv, Lookup!TypeOK, Lookup!FoundIsEncoded, Lookup!Return, Lookup!Equals
<1> QED
  BY <1>1, <1>2, <1>3 DEF FoundInv

LEMMA FoundLink ==
  ASSUME FoundInv, NEW t \in Thread, Lookup!Link(t) PROVE FoundInv'
<1>0. meta[t] \in Meta /\ array[t] \in Array /\ Lookup!SecondOf(meta[t]) \in Second
      /\ meta[t] \in encoded
  BY LookupConstants DEF FoundInv, EncodedInv, Compiled, Lookup!TypeOK, Lookup!Link
<1> DEFINE r == Lookup!SecondOf(meta[t])
           q == <<meta[t]>> \o metas[array[t]][r]
<1>a. q \in Seq(Meta) /\ Slabs!ToSet(q) = {meta[t]} \cup Slabs!ToSet(metas[array[t]][r])
  BY <1>0, Prepend DEF FoundInv, Lookup!TypeOK
<1>b. metas' = [metas EXCEPT ![array[t]][r] = q]
  BY DEF Lookup!Link
<1> HIDE DEF q, r
<1>c. /\ metas' \in [Array -> [Second -> Seq(Meta)]]
      /\ \A a \in Array, s \in Second :
           metas'[a][s] = IF a = array[t] /\ s = r THEN q ELSE metas[a][s]
  BY <1>a, <1>b DEF FoundInv, Lookup!TypeOK
<1>1. Lookup!TypeOK'
  BY <1>0, <1>c DEF FoundInv, Lookup!TypeOK, Lookup!PC, Lookup!Link
<1>2. EncodedInv'
  <2>1. \A a \in Array, s \in Second : Slabs!ToSet(metas'[a][s]) \subseteq encoded
    BY <1>0, <1>a, <1>c DEF FoundInv, EncodedInv
  <2> QED
    BY <2>1 DEF FoundInv, Lookup!TypeOK, EncodedInv, Compiled, Lookup!Link
<1>3. Lookup!FoundIsEncoded'
  BY DEF FoundInv, Lookup!TypeOK, Lookup!FoundIsEncoded, Lookup!Link, Lookup!Equals
<1> QED
  BY <1>1, <1>2, <1>3 DEF FoundInv

LEMMA FoundExit == ASSUME FoundInv, Lookup!ExitIndex PROVE FoundInv'
<1>1. Lookup!TypeOK'
  <2>1. Lookup!Reachable \subseteq Meta
    BY DEF FoundInv, Lookup!TypeOK, Lookup!Reachable
  <2>2. Lookup!Logged \subseteq Meta
    BY DEF FoundInv, Lookup!TypeOK, Lookup!Logged
  <2> QED
    BY <2>1, <2>2 DEF FoundInv, Lookup!TypeOK, Lookup!PC, Lookup!ExitIndex
<1>2. EncodedInv'
  BY DEF FoundInv, Lookup!TypeOK, EncodedInv, Compiled, Lookup!ExitIndex
<1>3. Lookup!FoundIsEncoded'
  BY DEF FoundInv, Lookup!TypeOK, Lookup!FoundIsEncoded, Lookup!ExitIndex, Lookup!Equals
<1> QED
  BY <1>1, <1>2, <1>3 DEF FoundInv

LEMMA FoundStep == FoundInv /\ [Lookup!Next]_(Lookup!vars) => FoundInv'
<1> SUFFICES ASSUME FoundInv, [Lookup!Next]_(Lookup!vars) PROVE FoundInv'
  OBVIOUS
<1>1. UNCHANGED Lookup!vars => FoundInv'
  BY DEF Lookup!vars, Lookup!threadVars, Lookup!indexVars, FoundInv, Lookup!TypeOK, EncodedInv,
         Lookup!FoundIsEncoded
<1> QED
  BY <1>1, LookupSteps, FoundTranslate, FoundRead, FoundRequest, FoundCompile, FoundIndex,
     FoundLock, FoundNew, FoundBind, FoundLink, FoundLog, FoundReturn, FoundExit

\* Whatever the threads do and however the blocks share buckets, a lookup returns
\* meta-data of the block it asked for, and that block's code is complete.
THEOREM FoundIsEncodedHolds == Lookup!Spec => []Lookup!FoundIsEncoded
<1>1. FoundInv => Lookup!FoundIsEncoded
  BY DEF FoundInv
<1> QED
  BY <1>1, FoundInit, FoundStep, PTL DEF Lookup!Spec

Live == \A t \in Thread : index_pc[t] # "exited"

\* The arrays and the lists: an array is created once, an entry is in the bucket
\* that lookups read, and no list has an entry twice.
ListInv ==
  /\ \A f \in First : gIndex[f] # NoThread => gIndex[f] \in arrays
  /\ \A f, g \in First : gIndex[f] = gIndex[g] => f = g \/ gIndex[g] = NoThread
  /\ \A a \in Array \ arrays, s \in Second : metas[a][s] = <<>>
  /\ \A a \in Array, s \in Second :
       /\ Slabs!IsInjective(metas[a][s])
       /\ \A m \in Slabs!ToSet(metas[a][s]) :
            s = Lookup!SecondOf(m) /\ (Live => a = gIndex[Lookup!FirstOf(m)])
  /\ \A f \in First :
       /\ Slabs!IsInjective(gUnindexedMeta[f])
       /\ \A m \in Slabs!ToSet(gUnindexedMeta[f]) : f = Lookup!FirstOf(m)
       /\ ~Live => gIndex[f] = NoThread /\ gUnindexedMeta[f] = <<>>
  /\ \A t \in Thread :
       /\ index_pc[t] = "new" => gIndex[Lookup!FirstOf(meta[t])] = NoThread
       /\ index_pc[t] = "link" => array[t] = gIndex[Lookup!FirstOf(meta[t])]
       /\ index_pc[t] \notin Compiled \cup {"log"} => blocks[t] = {}
       /\ index_pc[t] # "log" => meta[t] \notin blocks[t]

Listed(m) == \E a \in Array, s \in Second : m \in Slabs!ToSet(metas[a][s])
InLog(m) == \E f \in First : m \in Slabs!ToSet(gUnindexedMeta[f])
OwnedBy(t, m) == m \in blocks[t] \/ (meta[t] = m /\ index_pc[t] # "log")

\* Meta-data that has been allocated has one owner.
OwnerInv ==
  \A m \in Meta :
    /\ m \in used => \/ Live /\ Listed(m)
                     \/ InLog(m) \/ m \in deleted
                     \/ \E t \in Thread : OwnedBy(t, m)
    /\ Listed(m) \/ InLog(m) \/ m \in deleted => m \in used
    /\ ~(Listed(m) /\ InLog(m))
    /\ m \in deleted => ~InLog(m) /\ ~(Live /\ Listed(m))
    /\ m \in indexed => Listed(m)
    /\ \A t \in Thread : OwnedBy(t, m) =>
         /\ m \in used /\ ~Listed(m) /\ ~InLog(m) /\ m \notin deleted
         /\ \A u \in Thread : OwnedBy(u, m) => u = t

IndexInv == FoundInv /\ ListInv /\ OwnerInv

LEMMA EmptyList == Slabs!ToSet(<<>>) = {} /\ Slabs!IsInjective(<<>>)
BY OnList DEF Slabs!IsInjective

\* The members of a thread's own set.
LEMMA OwnIs == ASSUME Lookup!TypeOK, NEW t \in Thread
               PROVE  \A m \in Meta : m \in Lookup!Own(t) <=> OwnedBy(t, m)
BY DEF Lookup!Own, OwnedBy

LEMMA LoggedIs == \A m : m \in Lookup!Logged <=> InLog(m)
BY OnList DEF Lookup!Logged, InLog

\* What ForEachMetaData reaches is all that is on a list, until the exit.
LEMMA ReachableIs ==
  ASSUME Lookup!TypeOK, ListInv
  PROVE  \A m \in Meta : m \in Lookup!Reachable <=> Live /\ Listed(m)
<1>1. \A m : m \in Lookup!Reachable <=>
        \E f \in First, s \in Second : gIndex[f] # NoThread /\ m \in Slabs!ToSet(metas[gIndex[f]][s])
  BY OnList DEF Lookup!Reachable
<1>2. ASSUME NEW m \in Meta, m \in Lookup!Reachable PROVE Live /\ Listed(m)
  <2>1. PICK f \in First, s \in Second :
          gIndex[f] # NoThread /\ m \in Slabs!ToSet(metas[gIndex[f]][s])
    BY <1>1, <1>2
  <2>2. gIndex[f] \in Array
    BY <2>1 DEF Lookup!TypeOK
  <2> QED
    BY <2>1, <2>2 DEF Listed, ListInv
<1>3. ASSUME NEW m \in Meta, Live, Listed(m) PROVE m \in Lookup!Reachable
  <2>1. PICK a \in Array, s \in Second : m \in Slabs!ToSet(metas[a][s])
    BY <1>3 DEF Listed
  <2>2. a = gIndex[Lookup!FirstOf(m)] /\ Lookup!FirstOf(m) \in First /\ a # NoThread
    BY <1>3, <2>1, LookupConstants DEF ListInv
  <2> QED
    BY <2>1, <2>2, <1>1
<1> QED
  BY <1>2, <1>3

LEMMA IndexInvImplies ==
  ASSUME IndexInv PROVE Lookup!OwnedOnce /\ Lookup!NothingLost
<1>0. Lookup!TypeOK /\ ListInv /\ OwnerInv
  BY DEF IndexInv, FoundInv
<1>1. \A m \in Meta : m \in Lookup!Reachable <=> Live /\ Listed(m)
  BY <1>0, ReachableIs
<1>2. \A m \in Meta : m \in Lookup!InHand <=> \E t \in Thread : OwnedBy(t, m)
  BY <1>0, OwnIs DEF Lookup!InHand
<1>3. /\ Lookup!Reachable \subseteq Meta /\ Lookup!Logged \subseteq Meta
      /\ Lookup!InHand \subseteq Meta /\ deleted \subseteq Meta
      /\ used \subseteq Meta /\ indexed \subseteq Meta
  <2>1. Lookup!Reachable \subseteq Meta
    BY <1>0 DEF Lookup!TypeOK, Lookup!Reachable
  <2>2. Lookup!Logged \subseteq Meta
    BY <1>0 DEF Lookup!TypeOK, Lookup!Logged
  <2>3. Lookup!InHand \subseteq Meta
    BY <1>0 DEF Lookup!TypeOK, Lookup!InHand, Lookup!Own
  <2> QED
    BY <2>1, <2>2, <2>3, <1>0 DEF Lookup!TypeOK
<1>4. \A f, g \in First, r, s \in Second :
        \A i \in DOMAIN Lookup!Bucket(f, r), j \in DOMAIN Lookup!Bucket(g, s) :
          Lookup!Bucket(f, r)[i] = Lookup!Bucket(g, s)[j] => f = g /\ r = s /\ i = j
  <2> SUFFICES ASSUME NEW f \in First, NEW g \in First, NEW r \in Second, NEW s \in Second,
                      NEW i \in DOMAIN Lookup!Bucket(f, r), NEW j \in DOMAIN Lookup!Bucket(g, s),
                      Lookup!Bucket(f, r)[i] = Lookup!Bucket(g, s)[j]
               PROVE  f = g /\ r = s /\ i = j
    OBVIOUS
  <2>1. gIndex[f] # NoThread /\ Lookup!Bucket(f, r) = metas[gIndex[f]][r]
    BY DEF Lookup!Bucket
  <2>2. gIndex[g] # NoThread /\ Lookup!Bucket(g, s) = metas[gIndex[g]][s]
    BY DEF Lookup!Bucket
  <2>3. gIndex[f] \in Array /\ gIndex[g] \in Array
    BY <2>1, <2>2, <1>0 DEF Lookup!TypeOK
  <2> DEFINE m == metas[gIndex[f]][r][i]
  <2>4. m \in Slabs!ToSet(metas[gIndex[f]][r]) /\ m \in Slabs!ToSet(metas[gIndex[g]][s])
    BY <2>1, <2>2, OnList
  <2>5. Live
    BY <2>1, <1>0 DEF ListInv
  <2> HIDE DEF m
  <2>6. r = s /\ gIndex[f] = gIndex[g]
    <3>1. \A a \in Array, q \in Second : \A n \in Slabs!ToSet(metas[a][q]) :
            q = Lookup!SecondOf(n) /\ a = gIndex[Lookup!FirstOf(n)]
      BY <2>5, <1>0 DEF ListInv
    <3> QED
      BY <2>3, <2>4, <3>1
  <2>7. f = g
    BY <2>2, <2>6, <1>0 DEF ListInv
  <2>8. Slabs!IsInjective(metas[gIndex[f]][r])
    BY <2>3, <1>0 DEF ListInv
  <2> QED
    BY <2>1, <2>2, <2>6, <2>7, <2>8 DEF Slabs!IsInjective
<1>5. \A f, g \in First :
        \A i \in DOMAIN gUnindexedMeta[f], j \in DOMAIN gUnindexedMeta[g] :
          gUnindexedMeta[f][i] = gUnindexedMeta[g][j] => f = g /\ i = j
  <2> SUFFICES ASSUME NEW f \in First, NEW g \in First,
                      NEW i \in DOMAIN gUnindexedMeta[f], NEW j \in DOMAIN gUnindexedMeta[g],
                      gUnindexedMeta[f][i] = gUnindexedMeta[g][j]
               PROVE  f = g /\ i = j
    OBVIOUS
  <2>1. /\ gUnindexedMeta[f][i] \in Slabs!ToSet(gUnindexedMeta[f])
        /\ gUnindexedMeta[g][j] \in Slabs!ToSet(gUnindexedMeta[g])
    BY OnList
  <2>2. f = g
    BY <2>1, <1>0 DEF ListInv
  <2> QED
    BY <2>2, <1>0 DEF ListInv, Slabs!IsInjective
<1>6. \A t, u \in Thread : Lookup!Own(t) \cap Lookup!Own(u) # {} => t = u
  <2>1. \A t \in Thread : Lookup!Own(t) \subseteq Meta
    BY <1>0 DEF Lookup!Own, Lookup!TypeOK
  <2> QED
    BY <2>1, <1>0, OwnIs DEF OwnerInv
<1>7. used \subseteq Lookup!Reachable \cup Lookup!Logged \cup Lookup!InHand \cup deleted
  BY <1>0, <1>1, <1>2, <1>3, LoggedIs DEF OwnerInv
<1>8. /\ Lookup!Reachable \cap Lookup!Logged = {}
      /\ (Lookup!Reachable \cup Lookup!Logged) \cap Lookup!InHand = {}
  BY <1>0, <1>1, <1>2, <1>3, LoggedIs DEF OwnerInv
<1>9. (Lookup!Reachable \cup Lookup!Logged \cup Lookup!InHand) \cap deleted = {}
  BY <1>0, <1>1, <1>2, <1>3, LoggedIs DEF OwnerInv
<1>10. Lookup!NothingLost
  BY <1>0, <1>1, <1>3 DEF Lookup!NothingLost, Live, OwnerInv
<1>11. Lookup!OwnedOnce
  BY <1>4, <1>5, <1>6, <1>7, <1>8, <1>9 DEF Lookup!OwnedOnce
<1> QED
  BY <1>10, <1>11

LEMMA IndexInit == Lookup!Init => IndexInv
<1> SUFFICES ASSUME Lookup!Init PROVE IndexInv
  OBVIOUS
<1>1. FoundInv
  BY FoundInit
<1>2. /\ \A a \in Array, s \in Second : metas[a][s] = <<>>
      /\ \A f \in First : gIndex[f] = NoThread /\ gUnindexedMeta[f] = <<>>
  BY DEF Lookup!Init
<1>3. ListInv
  BY <1>2, EmptyList, LookupConstants DEF Lookup!Init, ListInv, Live
<1>4. \A m \in Meta : ~Listed(m) /\ ~InLog(m) /\ \A t \in Thread : ~OwnedBy(t, m)
  BY <1>2, EmptyList, LookupConstants DEF Lookup!Init, Listed, InLog, OwnedBy
<1>5. OwnerInv
  BY <1>4 DEF Lookup!Init, OwnerInv
<1> QED
  BY <1>1, <1>3, <1>5 DEF IndexInv

\* A step that moves no meta-data.
LEMMA OwnersKept ==
  ASSUME OwnerInv, UNCHANGED <<metas, gUnindexedMeta, deleted, used, indexed>>, Live' = Live,
         \A t \in Thread, m \in Meta : OwnedBy(t, m)' <=> OwnedBy(t, m)
  PROVE  OwnerInv'
<1>1. \A m \in Meta : (Listed(m)' <=> Listed(m)) /\ (InLog(m)' <=> InLog(m))
  BY DEF Listed, InLog
<1> QED
  BY <1>1 DEF OwnerInv

\* A step that moves no list and creates no array.
LEMMA ListsKept ==
  ASSUME ListInv, UNCHANGED <<gIndex, arrays, metas, gUnindexedMeta>>, Live' = Live,
         \A t \in Thread :
           /\ index_pc'[t] = "new" => gIndex[Lookup!FirstOf(meta'[t])] = NoThread
           /\ index_pc'[t] = "link" => array'[t] = gIndex[Lookup!FirstOf(meta'[t])]
           /\ index_pc'[t] \notin Compiled \cup {"log"} => blocks'[t] = {}
           /\ index_pc'[t] # "log" => meta'[t] \notin blocks'[t]
  PROVE  ListInv'
<1>1. \A m : Lookup!FirstOf(m)' = Lookup!FirstOf(m)
  BY DEF Lookup!FirstOf
<1>2. \A t \in Thread :
        /\ index_pc'[t] = "new" => gIndex'[Lookup!FirstOf(meta[t])'] = NoThread
        /\ index_pc'[t] = "link" => array'[t] = gIndex'[Lookup!FirstOf(meta[t])']
  BY DEF Lookup!FirstOf
<1> QED
  BY <1>2 DEF ListInv, Lookup!FirstOf, Lookup!SecondOf

\* A thread that is at work has meta-data, and then all threads are in business.
LEMMA AtWork ==
  ASSUME FoundInv, NEW t \in Thread, index_pc[t] \notin {"idle", "exited"}
  PROVE  /\ meta[t] \in Meta /\ Live
         /\ Lookup!FirstOf(meta[t]) \in First /\ Lookup!SecondOf(meta[t]) \in Second
<1>1. meta[t] \in Meta /\ Live
  BY DEF FoundInv, Lookup!TypeOK, EncodedInv, Live
<1> QED
  BY <1>1, LookupConstants

LEMMA OwnTranslate ==
  ASSUME IndexInv, NEW t \in Thread, NEW n \in Meta, Lookup!Translate(t, n)
  PROVE  ListInv' /\ OwnerInv'
<1>0. /\ UNCHANGED <<gIndex, arrays, metas, gUnindexedMeta, blocks, array, deleted, indexed>>
      /\ n \notin used /\ used' = used \cup {n} /\ index_pc[t] = "idle"
      /\ meta' = [meta EXCEPT ![t] = n]
  BY DEF Lookup!Translate, Lookup!indexVars
<1>1. PICK next \in {"request", "compile"} : index_pc' = [index_pc EXCEPT ![t] = next]
  BY DEF Lookup!Translate
<1>2. /\ \A u \in Thread : index_pc'[u] = IF u = t THEN next ELSE index_pc[u]
      /\ \A u \in Thread : meta'[u] = IF u = t THEN n ELSE meta[u]
      /\ meta[t] = NoThread /\ blocks[t] = {}
  BY <1>0, <1>1 DEF IndexInv, FoundInv, Lookup!TypeOK, EncodedInv, ListInv, Compiled
<1>3. Live' = Live
  BY <1>0, <1>2 DEF Live
<1>4. ListInv'
  BY <1>0, <1>2, <1>3, ListsKept DEF IndexInv, ListInv, Compiled
<1>5. \A m \in Meta : (Listed(m)' <=> Listed(m)) /\ (InLog(m)' <=> InLog(m))
  BY <1>0 DEF Listed, InLog
<1>6. \A u \in Thread, m \in Meta : OwnedBy(u, m)' <=> OwnedBy(u, m) \/ (u = t /\ m = n)
  BY <1>0, <1>2, LookupConstants DEF OwnedBy
<1>7. ~Listed(n) /\ ~InLog(n) /\ n \notin deleted /\ \A u \in Thread : ~OwnedBy(u, n)
  BY <1>0 DEF IndexInv, OwnerInv
<1>8. OwnerInv'
  BY <1>0, <1>3, <1>5, <1>6, <1>7 DEF IndexInv, OwnerInv
<1> QED
  BY <1>4, <1>8

LEMMA OwnRead ==
  ASSUME IndexInv, NEW t \in Thread, Lookup!ReadIndex(t)
  PROVE  ListInv' /\ OwnerInv'
<1>0. /\ UNCHANGED <<gIndex, arrays, metas, gUnindexedMeta, blocks, meta, deleted, used, indexed>>
      /\ index_pc[t] \in {"request", "index"}
      /\ \A u \in Thread : u # t => index_pc'[u] = index_pc[u] /\ array'[u] = array[u]
      /\ index_pc'[t] = IF index_pc[t] = "request" THEN "match_request" ELSE "match_index"
  BY DEF Lookup!ReadIndex, Lookup!indexVars, IndexInv, FoundInv, Lookup!TypeOK
<1>3. Live' = Live
  BY <1>0 DEF Live
<1>4. ListInv'
  BY <1>0, <1>3, ListsKept DEF IndexInv, ListInv, Compiled
<1>6. \A u \in Thread, m \in Meta : OwnedBy(u, m)' <=> OwnedBy(u, m)
  BY <1>0 DEF OwnedBy
<1> QED
  BY <1>0, <1>3, <1>4, <1>6, OwnersKept DEF IndexInv

LEMMA OwnRequest ==
  ASSUME IndexInv, NEW t \in Thread, Lookup!RequestIndexedBlock(t)
  PROVE  ListInv' /\ OwnerInv'
<1>0. /\ UNCHANGED <<gIndex, arrays, metas, gUnindexedMeta, blocks, array, used, indexed>>
      /\ index_pc[t] = "match_request" /\ blocks[t] = {} /\ meta[t] \in Meta
  BY AtWork DEF Lookup!RequestIndexedBlock, Lookup!indexVars, IndexInv, ListInv, Compiled
<1>1. CASE Lookup!Found(t).status = "accept"
  <2>1. /\ deleted' = deleted \cup {meta[t]}
        /\ \A u \in Thread : meta'[u] = IF u = t THEN NoThread ELSE meta[u]
        /\ \A u \in Thread : index_pc'[u] = IF u = t THEN "idle" ELSE index_pc[u]
    BY <1>1 DEF Lookup!RequestIndexedBlock, IndexInv, FoundInv, Lookup!TypeOK
  <2>2. Live' = Live
    BY <1>0, <2>1 DEF Live
  <2>3. ListInv'
    BY <1>0, <2>1, <2>2, ListsKept, LookupConstants DEF IndexInv, ListInv, Compiled
  <2>4. \A m \in Meta : (Listed(m)' <=> Listed(m)) /\ (InLog(m)' <=> InLog(m))
    BY <1>0 DEF Listed, InLog
  <2>5. \A u \in Thread, m \in Meta : OwnedBy(u, m)' <=> OwnedBy(u, m) /\ ~(u = t /\ m = meta[t])
    BY <1>0, <2>1, LookupConstants DEF OwnedBy
  <2>6. OwnedBy(t, meta[t])
    BY <1>0 DEF OwnedBy
  <2>7. OwnerInv'
    BY <1>0, <2>1, <2>2, <2>4, <2>5, <2>6 DEF IndexInv, OwnerInv
  <2> QED
    BY <2>3, <2>7
<1>2. CASE Lookup!Found(t).status # "accept"
  <2>1. /\ UNCHANGED <<deleted, meta>>
        /\ \A u \in Thread : index_pc'[u] = IF u = t THEN "compile" ELSE index_pc[u]
    BY <1>2 DEF Lookup!RequestIndexedBlock, IndexInv, FoundInv, Lookup!TypeOK
  <2>2. Live' = Live
    BY <1>0, <2>1 DEF Live
  <2>3. ListInv'
    BY <1>0, <2>1, <2>2, ListsKept DEF IndexInv, ListInv, Compiled
  <2>4. \A u \in Thread, m \in Meta : OwnedBy(u, m)' <=> OwnedBy(u, m)
    BY <1>0, <2>1 DEF OwnedBy
  <2> QED
    BY <1>0, <2>1, <2>2, <2>3, <2>4, OwnersKept DEF IndexInv
<1> QED
  BY <1>1, <1>2

LEMMA OwnCompile ==
  ASSUME IndexInv, NEW t \in Thread, NEW others \in SUBSET Meta, Lookup!Compile(t, others)
  PROVE  ListInv' /\ OwnerInv'
<1>0. /\ UNCHANGED <<gIndex, arrays, metas, gUnindexedMeta, meta, array, indexed, deleted>>
      /\ index_pc[t] = "compile" /\ blocks[t] = {} /\ meta[t] \in Meta
      /\ others \cap used = {} /\ used' = used \cup others
      /\ \A u \in Thread : blocks'[u] = IF u = t THEN others ELSE blocks[u]
      /\ \A u \in Thread : index_pc'[u] = IF u = t THEN "index" ELSE index_pc[u]
  BY AtWork DEF Lookup!Compile, Lookup!indexVars, IndexInv, ListInv, Compiled, FoundInv, Lookup!TypeOK
<1>1. Live' = Live
  BY <1>0 DEF Live
<1>2. meta[t] \in used
  BY <1>0 DEF IndexInv, OwnerInv, OwnedBy
<1>3. ListInv'
  BY <1>0, <1>1, <1>2, ListsKept DEF IndexInv, ListInv, Compiled
<1>4. \A m \in Meta : (Listed(m)' <=> Listed(m)) /\ (InLog(m)' <=> InLog(m))
  BY <1>0 DEF Listed, InLog
<1>5. \A u \in Thread, m \in Meta : OwnedBy(u, m)' <=> OwnedBy(u, m) \/ (u = t /\ m \in others)
  BY <1>0 DEF OwnedBy
<1>6. \A n \in others : ~Listed(n) /\ ~InLog(n) /\ n \notin deleted /\ \A u \in Thread : ~OwnedBy(u, n)
  BY <1>0 DEF IndexInv, OwnerInv
<1>7. OwnerInv'
  BY <1>0, <1>1, <1>4, <1>5, <1>6 DEF IndexInv, OwnerInv
<1> QED
  BY <1>3, <1>7

LEMMA OwnIndex ==
  ASSUME IndexInv, NEW t \in Thread, Lookup!Index(t)
  PROVE  ListInv' /\ OwnerInv'
<1>0. /\ UNCHANGED <<gIndex, arrays, metas, gUnindexedMeta, meta, array, used, indexed, deleted>>
      /\ index_pc[t] = "match_index" /\ meta[t] \in Meta /\ meta[t] \notin blocks[t]
  BY AtWork DEF Lookup!Index, Lookup!indexVars, IndexInv, ListInv
<1>1. PICK next \in {"lock", "log"} :
        /\ \A u \in Thread : index_pc'[u] = IF u = t THEN next ELSE index_pc[u]
        /\ \A u \in Thread : blocks'[u] = IF u = t /\ next = "log" THEN blocks[u] \cup {meta[t]}
                                          ELSE blocks[u]
  <2>1. CASE Lookup!Found(t).status # "accept"
    BY <2>1 DEF Lookup!Index, IndexInv, FoundInv, Lookup!TypeOK
  <2>2. CASE Lookup!Found(t).status = "accept"
    BY <2>2 DEF Lookup!Index, IndexInv, FoundInv, Lookup!TypeOK
  <2> QED
    BY <2>1, <2>2
<1>2. Live' = Live
  BY <1>0, <1>1 DEF Live
<1>3. ListInv'
  BY <1>0, <1>1, <1>2, ListsKept DEF IndexInv, ListInv, Compiled
<1>4. \A u \in Thread, m \in Meta : OwnedBy(u, m)' <=> OwnedBy(u, m)
  BY <1>0, <1>1 DEF OwnedBy
<1> QED
  BY <1>0, <1>2, <1>3, <1>4, OwnersKept DEF IndexInv

LEMMA OwnLock ==
  ASSUME IndexInv, NEW t \in Thread, Lookup!LockSecondLevel(t)
  PROVE  ListInv' /\ OwnerInv'
<1>0. /\ UNCHANGED <<gIndex, arrays, metas, gUnindexedMeta, blocks, meta, array, used, indexed, deleted>>
      /\ index_pc[t] = "lock"
      /\ \A u \in Thread : u # t => index_pc'[u] = index_pc[u]
      /\ index_pc'[t] = IF gIndex[Lookup!FirstOf(meta[t])] = NoThread THEN "new" ELSE "bind"
  BY DEF Lookup!LockSecondLevel, IndexInv, FoundInv, Lookup!TypeOK
<1>2. Live' = Live
  BY <1>0 DEF Live
<1>3. ListInv'
  BY <1>0, <1>2, ListsKept DEF IndexInv, ListInv, Compiled
<1>4. \A u \in Thread, m \in Meta : OwnedBy(u, m)' <=> OwnedBy(u, m)
  BY <1>0 DEF OwnedBy
<1> QED
  BY <1>0, <1>2, <1>3, <1>4, OwnersKept DEF IndexInv

LEMMA OwnBind ==
  ASSUME IndexInv, NEW t \in Thread, Lookup!Bind(t)
  PROVE  ListInv' /\ OwnerInv'
<1>0. /\ UNCHANGED <<gIndex, arrays, metas, gUnindexedMeta, blocks, meta, used, indexed, deleted>>
      /\ index_pc[t] = "bind"
      /\ \A u \in Thread : u # t => index_pc'[u] = index_pc[u] /\ array'[u] = array[u]
      /\ index_pc'[t] = "link" /\ array'[t] = gIndex[Lookup!FirstOf(meta[t])]
  BY DEF Lookup!Bind, Lookup!indexVars, IndexInv, FoundInv, Lookup!TypeOK
<1>2. Live' = Live
  BY <1>0 DEF Live
<1>3. ListInv'
  BY <1>0, <1>2, ListsKept DEF IndexInv, ListInv, Compiled
<1>4. \A u \in Thread, m \in Meta : OwnedBy(u, m)' <=> OwnedBy(u, m)
  BY <1>0 DEF OwnedBy
<1> QED
  BY <1>0, <1>2, <1>3, <1>4, OwnersKept DEF IndexInv

LEMMA OwnReturn ==
  ASSUME IndexInv, NEW t \in Thread, Lookup!Return(t)
  PROVE  ListInv' /\ OwnerInv'
<1>0. /\ UNCHANGED <<gIndex, arrays, metas, gUnindexedMeta, blocks, array, used, indexed, deleted>>
      /\ index_pc[t] = "log" /\ blocks[t] = {}
      /\ \A u \in Thread : index_pc'[u] = IF u = t THEN "idle" ELSE index_pc[u]
      /\ \A u \in Thread : meta'[u] = IF u = t THEN NoThread ELSE meta[u]
  BY DEF Lookup!Return, Lookup!indexVars, IndexInv, FoundInv, Lookup!TypeOK
<1>2. Live' = Live
  BY <1>0 DEF Live
<1>3. ListInv'
  BY <1>0, <1>2, ListsKept DEF IndexInv, ListInv, Compiled
<1>4. \A u \in Thread, m \in Meta : OwnedBy(u, m)' <=> OwnedBy(u, m)
  BY <1>0, LookupConstants DEF OwnedBy
<1> QED
  BY <1>0, <1>2, <1>3, <1>4, OwnersKept DEF IndexInv

LEMMA OwnNew ==
  ASSUME IndexInv, Lookup!NoArrayRace, NEW t \in Thread, Lookup!NewMetaDataArray(t)
  PROVE  ListInv' /\ OwnerInv'
<1> DEFINE f == Lookup!FirstOf(meta[t])
<1>0. /\ UNCHANGED <<metas, gUnindexedMeta, blocks, meta, array, used, indexed, deleted>>
      /\ index_pc[t] = "new" /\ meta[t] \in Meta /\ f \in First /\ Live
      /\ \A u \in Thread : index_pc'[u] = IF u = t THEN "bind" ELSE index_pc[u]
      /\ gIndex[f] = NoThread
  BY AtWork DEF Lookup!NewMetaDataArray, IndexInv, FoundInv, Lookup!TypeOK, ListInv
<1>1. PICK a \in Array \ arrays : /\ arrays' = arrays \cup {a}
                                  /\ gIndex' = [gIndex EXCEPT ![f] = a]
  BY DEF Lookup!NewMetaDataArray
<1>2. \A g \in First : gIndex'[g] = IF g = f THEN a ELSE gIndex[g]
  BY <1>1 DEF IndexInv, FoundInv, Lookup!TypeOK
<1>3. Live'
  BY <1>0 DEF Live
<1>4. ListInv'
  <2>1. \A g \in First : gIndex'[g] # NoThread => gIndex'[g] \in arrays'
    BY <1>1, <1>2 DEF IndexInv, ListInv
  <2>2. \A g, h \in First : gIndex'[g] = gIndex'[h] => g = h \/ gIndex'[h] = NoThread
    BY <1>1, <1>2 DEF IndexInv, ListInv
  <2>3. \A b \in Array \ arrays', s \in Second : metas'[b][s] = <<>>
    BY <1>0, <1>1 DEF IndexInv, ListInv
  <2>4. ASSUME NEW b \in Array, NEW s \in Second
        PROVE  /\ Slabs!IsInjective(metas[b][s])
               /\ \A m \in Slabs!ToSet(metas[b][s]) :
                    s = Lookup!SecondOf(m) /\ b = gIndex'[Lookup!FirstOf(m)]
    <3>1. /\ Slabs!IsInjective(metas[b][s])
          /\ \A m \in Slabs!ToSet(metas[b][s]) :
               s = Lookup!SecondOf(m) /\ b = gIndex[Lookup!FirstOf(m)]
      BY <1>0 DEF IndexInv, ListInv
    <3>2. \A m \in Slabs!ToSet(metas[b][s]) : Lookup!FirstOf(m) \in First
      BY OnList, LookupConstants DEF IndexInv, FoundInv, Lookup!TypeOK
    <3> QED
      BY <3>1, <3>2, <1>0, <1>2, LookupConstants
  <2>5. \A g \in First :
         /\ Slabs!IsInjective(gUnindexedMeta[g])
         /\ \A m \in Slabs!ToSet(gUnindexedMeta[g]) : g = Lookup!FirstOf(m)
    BY DEF IndexInv, ListInv
  <2>6. ASSUME NEW u \in Thread
        PROVE  /\ index_pc'[u] = "new" => gIndex'[Lookup!FirstOf(meta[u])] = NoThread
               /\ index_pc'[u] = "link" => array[u] = gIndex'[Lookup!FirstOf(meta[u])]
    <3>1. ASSUME index_pc'[u] = "new" PROVE gIndex'[Lookup!FirstOf(meta[u])] = NoThread
      <4>1. u # t /\ index_pc[u] = "new"
        BY <3>1, <1>0
      <4>2. Lookup!FirstOf(meta[u]) # f /\ Lookup!FirstOf(meta[u]) \in First
        BY <4>1, <1>0, AtWork DEF Lookup!NoArrayRace, IndexInv
      <4> QED
        BY <4>1, <4>2, <1>2 DEF IndexInv, ListInv
    <3>2. ASSUME index_pc'[u] = "link" PROVE array[u] = gIndex'[Lookup!FirstOf(meta[u])]
      <4>1. index_pc[u] = "link"
        BY <3>2, <1>0
      <4>2. array[u] = gIndex[Lookup!FirstOf(meta[u])] /\ array[u] # NoThread
            /\ Lookup!FirstOf(meta[u]) \in First
        BY <4>1, AtWork DEF IndexInv, ListInv, FoundInv, EncodedInv
      <4> QED
        BY <4>2, <1>0, <1>2
    <3> QED
      BY <3>1, <3>2
  <2>7. \A u \in Thread :
         /\ index_pc'[u] \notin Compiled \cup {"log"} => blocks[u] = {}
         /\ index_pc'[u] # "log" => meta[u] \notin blocks[u]
    BY <1>0 DEF IndexInv, ListInv, Compiled
  <2> HIDE DEF f
  <2> QED
    BY <1>0, <1>3, <2>1, <2>2, <2>3, <2>4, <2>5, <2>6, <2>7
    DEF ListInv, Lookup!FirstOf, Lookup!SecondOf
<1>5. \A u \in Thread, m \in Meta : OwnedBy(u, m)' <=> OwnedBy(u, m)
  BY <1>0 DEF OwnedBy
<1>6. Live' = Live
  BY <1>0, <1>3 DEF Live
<1> QED
  BY <1>0, <1>4, <1>5, <1>6, OwnersKept DEF IndexInv

LEMMA OwnLink ==
  ASSUME IndexInv, NEW t \in Thread, Lookup!Link(t)
  PROVE  ListInv' /\ OwnerInv'
<1>a. PICK n \in Meta : n = meta[t]
  BY AtWork DEF Lookup!Link, IndexInv
<1> DEFINE r == Lookup!SecondOf(n)
           c == array[t]
           q == <<n>> \o metas[c][r]
<1>0. /\ UNCHANGED <<gIndex, arrays, gUnindexedMeta, blocks, meta, array, used, deleted>>
      /\ index_pc[t] = "link" /\ n \in Meta /\ r \in Second /\ Live /\ Lookup!FirstOf(n) \in First
      /\ \A u \in Thread : index_pc'[u] = IF u = t THEN "log" ELSE index_pc[u]
      /\ c = gIndex[Lookup!FirstOf(n)] /\ c \in Array /\ c \in arrays
      /\ n \notin blocks[t] /\ indexed' = indexed \cup {n}
  BY <1>a, AtWork DEF Lookup!Link, IndexInv, FoundInv, Lookup!TypeOK, EncodedInv, ListInv
<1>1. OwnedBy(t, n) /\ ~Listed(n) /\ ~InLog(n) /\ n \notin deleted /\ n \in used
  BY <1>0, <1>a DEF IndexInv, OwnerInv, OwnedBy
<1>2. n \notin Slabs!ToSet(metas[c][r])
  BY <1>0, <1>1 DEF Listed
<1>3. /\ q \in Seq(Meta) /\ Slabs!ToSet(q) = {n} \cup Slabs!ToSet(metas[c][r])
      /\ Slabs!IsInjective(q)
  <2>1. metas[c][r] \in Seq(Meta) /\ Slabs!IsInjective(metas[c][r])
    BY <1>0 DEF IndexInv, FoundInv, Lookup!TypeOK, ListInv
  <2> QED
    BY <2>1, <1>0, <1>2, Prepend
<1>4. \A a \in Array, s \in Second :
        metas'[a][s] = IF a = c /\ s = r THEN q ELSE metas[a][s]
  BY <1>0, <1>a DEF Lookup!Link, IndexInv, FoundInv, Lookup!TypeOK
<1>5. Live'
  BY <1>0 DEF Live
<1> HIDE DEF r, c, q
<1>6. ListInv'
  <2>1. /\ \A f \in First : gIndex[f] # NoThread => gIndex[f] \in arrays
        /\ \A f, g \in First : gIndex[f] = gIndex[g] => f = g \/ gIndex[g] = NoThread
        /\ \A f \in First :
             /\ Slabs!IsInjective(gUnindexedMeta[f])
             /\ \A m \in Slabs!ToSet(gUnindexedMeta[f]) : f = Lookup!FirstOf(m)
    BY DEF IndexInv, ListInv
  <2>2. \A a \in Array \ arrays, s \in Second : metas'[a][s] = <<>>
    BY <1>0, <1>4 DEF IndexInv, ListInv
  <2>3. ASSUME NEW a \in Array, NEW s \in Second
        PROVE  /\ Slabs!IsInjective(metas'[a][s])
               /\ \A m \in Slabs!ToSet(metas'[a][s]) :
                    s = Lookup!SecondOf(m) /\ a = gIndex[Lookup!FirstOf(m)]
    <3>1. /\ Slabs!IsInjective(metas[a][s])
          /\ \A m \in Slabs!ToSet(metas[a][s]) :
               s = Lookup!SecondOf(m) /\ a = gIndex[Lookup!FirstOf(m)]
      BY <1>0 DEF IndexInv, ListInv
    <3> QED
      BY <3>1, <1>0, <1>3, <1>4 DEF r
  <2>4. \A u \in Thread :
         /\ index_pc'[u] = "new" => gIndex[Lookup!FirstOf(meta[u])] = NoThread
         /\ index_pc'[u] = "link" => array[u] = gIndex[Lookup!FirstOf(meta[u])]
         /\ index_pc'[u] \notin Compiled \cup {"log"} => blocks[u] = {}
         /\ index_pc'[u] # "log" => meta[u] \notin blocks[u]
    BY <1>0 DEF IndexInv, ListInv
  <2> QED
    BY <1>0, <1>5, <2>1, <2>2, <2>3, <2>4 DEF ListInv, Lookup!FirstOf, Lookup!SecondOf
<1>7. \A m \in Meta : (Listed(m)' <=> m = n \/ Listed(m)) /\ (InLog(m)' <=> InLog(m))
  <2>1. \A m : InLog(m)' <=> InLog(m)
    BY <1>0 DEF InLog
  <2>2. Listed(n)'
    BY <1>0, <1>3, <1>4 DEF Listed
  <2>3. \A m : Listed(m) => Listed(m)'
    BY <1>3, <1>4 DEF Listed
  <2>4. \A m : Listed(m)' => m = n \/ Listed(m)
    BY <1>0, <1>3, <1>4 DEF Listed
  <2> QED
    BY <2>1, <2>2, <2>3, <2>4
<1>8. \A u \in Thread, m \in Meta : OwnedBy(u, m)' <=> OwnedBy(u, m) /\ ~(u = t /\ m = n)
  BY <1>0, <1>a DEF OwnedBy
<1>9. OwnerInv'
  BY <1>0, <1>1, <1>5, <1>7, <1>8 DEF IndexInv, OwnerInv
<1> QED
  BY <1>6, <1>9

LEMMA OwnLog ==
  ASSUME IndexInv, NEW t \in Thread, NEW b \in Meta, Lookup!AddMetaDataToLog(t, b)
  PROVE  ListInv' /\ OwnerInv'
<1> DEFINE c == Lookup!FirstOf(b)
           q == <<b>> \o gUnindexedMeta[c]
<1>0. /\ UNCHANGED <<index_pc, gIndex, arrays, metas, meta, array, used, deleted, indexed>>
      /\ index_pc[t] = "log" /\ b \in blocks[t] /\ c \in First /\ Live
      /\ \A u \in Thread : blocks'[u] = IF u = t THEN blocks[u] \ {b} ELSE blocks[u]
  BY AtWork, LookupConstants DEF Lookup!AddMetaDataToLog, IndexInv, FoundInv, Lookup!TypeOK
<1>1. OwnedBy(t, b) /\ ~Listed(b) /\ ~InLog(b) /\ b \notin deleted /\ b \in used
  BY <1>0 DEF IndexInv, OwnerInv, OwnedBy
<1>2. b \notin Slabs!ToSet(gUnindexedMeta[c])
  BY <1>0, <1>1 DEF InLog
<1>3. /\ q \in Seq(Meta) /\ Slabs!ToSet(q) = {b} \cup Slabs!ToSet(gUnindexedMeta[c])
      /\ Slabs!IsInjective(q)
  <2>1. gUnindexedMeta[c] \in Seq(Meta) /\ Slabs!IsInjective(gUnindexedMeta[c])
    BY <1>0 DEF IndexInv, FoundInv, Lookup!TypeOK, ListInv
  <2> QED
    BY <2>1, <1>0, <1>2, Prepend
<1>4. \A f \in First : gUnindexedMeta'[f] = IF f = c THEN q ELSE gUnindexedMeta[f]
  BY <1>0 DEF Lookup!AddMetaDataToLog, IndexInv, FoundInv, Lookup!TypeOK
<1>5. Live'
  BY <1>0 DEF Live
<1> HIDE DEF q
<1>6. ListInv'
  <2>1. /\ \A f \in First : gIndex[f] # NoThread => gIndex[f] \in arrays
        /\ \A f, g \in First : gIndex[f] = gIndex[g] => f = g \/ gIndex[g] = NoThread
        /\ \A a \in Array \ arrays, s \in Second : metas[a][s] = <<>>
        /\ \A a \in Array, s \in Second :
             /\ Slabs!IsInjective(metas[a][s])
             /\ \A m \in Slabs!ToSet(metas[a][s]) :
                  s = Lookup!SecondOf(m) /\ a = gIndex[Lookup!FirstOf(m)]
    BY <1>0 DEF IndexInv, ListInv
  <2>2. \A f \in First :
         /\ Slabs!IsInjective(gUnindexedMeta'[f])
         /\ \A m \in Slabs!ToSet(gUnindexedMeta'[f]) : f = Lookup!FirstOf(m)
    BY <1>3, <1>4 DEF IndexInv, ListInv
  <2>3. \A u \in Thread :
         /\ index_pc[u] = "new" => gIndex[Lookup!FirstOf(meta[u])] = NoThread
         /\ index_pc[u] = "link" => array[u] = gIndex[Lookup!FirstOf(meta[u])]
         /\ index_pc[u] \notin Compiled \cup {"log"} => blocks'[u] = {}
         /\ index_pc[u] # "log" => meta[u] \notin blocks'[u]
    BY <1>0 DEF IndexInv, ListInv
  <2> QED
    BY <1>0, <1>5, <2>1, <2>2, <2>3 DEF ListInv, Lookup!FirstOf, Lookup!SecondOf
<1>7. \A m \in Meta : (Listed(m)' <=> Listed(m)) /\ (InLog(m)' <=> m = b \/ InLog(m))
  <2>1. \A m : Listed(m)' <=> Listed(m)
    BY <1>0 DEF Listed
  <2>2. InLog(b)'
    BY <1>0, <1>3, <1>4 DEF InLog
  <2>3. \A m : InLog(m) => InLog(m)'
    BY <1>3, <1>4 DEF InLog
  <2>4. \A m : InLog(m)' => m = b \/ InLog(m)
    BY <1>0, <1>3, <1>4 DEF InLog
  <2> QED
    BY <2>1, <2>2, <2>3, <2>4
<1>8. \A u \in Thread, m \in Meta : OwnedBy(u, m)' <=> OwnedBy(u, m) /\ ~(u = t /\ m = b)
  BY <1>0 DEF OwnedBy
<1>9. OwnerInv'
  BY <1>0, <1>1, <1>5, <1>7, <1>8 DEF IndexInv, OwnerInv
<1> QED
  BY <1>6, <1>9

LEMMA OwnExit ==
  ASSUME IndexInv, Lookup!ExitIndex
  PROVE  ListInv' /\ OwnerInv'
<1>0. /\ UNCHANGED <<meta, blocks, array, metas, arrays, used, indexed>>
      /\ deleted' = deleted \cup Lookup!Reachable \cup Lookup!Logged
      /\ \A f \in First : gIndex'[f] = NoThread /\ gUnindexedMeta'[f] = <<>>
      /\ \A t \in Thread : index_pc'[t] = "exited" /\ index_pc[t] = "idle"
  BY DEF Lookup!ExitIndex
<1>1. Live /\ ~Live'
  BY <1>0, LookupConstants DEF Live
<1>2. \A m \in Meta : m \in Lookup!Reachable <=> Listed(m)
  BY <1>1, ReachableIs DEF IndexInv, FoundInv
<1>3. \A m \in Meta : (Listed(m)' <=> Listed(m)) /\ ~InLog(m)'
  BY <1>0, EmptyList DEF Listed, InLog
<1>4. \A t \in Thread : blocks[t] = {} /\ meta[t] = NoThread
  BY <1>0 DEF IndexInv, FoundInv, EncodedInv, ListInv, Compiled
<1>5. \A t \in Thread, m \in Meta : ~OwnedBy(t, m) /\ ~OwnedBy(t, m)'
  BY <1>0, <1>4, LookupConstants DEF OwnedBy
<1>6. ListInv'
  <2>1. /\ \A a \in Array \ arrays, s \in Second : metas[a][s] = <<>>
        /\ \A a \in Array, s \in Second :
             /\ Slabs!IsInjective(metas[a][s])
             /\ \A m \in Slabs!ToSet(metas[a][s]) : s = Lookup!SecondOf(m)
    BY DEF IndexInv, ListInv
  <2>2. \A t \in Thread : meta[t] \notin blocks[t]
    BY <1>4
  <2> QED
    BY <1>0, <1>1, <1>4, <2>1, <2>2, EmptyList DEF ListInv, Lookup!FirstOf, Lookup!SecondOf
<1>7. OwnerInv'
  BY <1>0, <1>1, <1>2, <1>3, <1>5, LoggedIs DEF IndexInv, OwnerInv
<1> QED
  BY <1>6, <1>7

LEMMA IndexStep ==
  IndexInv /\ Lookup!NoArrayRace /\ [Lookup!Next]_(Lookup!vars) => IndexInv'
<1> SUFFICES ASSUME IndexInv, Lookup!NoArrayRace, [Lookup!Next]_(Lookup!vars)
             PROVE  IndexInv'
  OBVIOUS
<1>1. FoundInv'
  BY FoundStep DEF IndexInv
<1>2. UNCHANGED Lookup!vars => ListInv' /\ OwnerInv'
  <2> SUFFICES ASSUME UNCHANGED Lookup!vars PROVE ListInv' /\ OwnerInv'
    OBVIOUS
  <2>1. UNCHANGED <<gIndex, metas, arrays, gUnindexedMeta, used, deleted, index_pc, meta, blocks,
                    array, indexed>>
    BY DEF Lookup!vars, Lookup!threadVars, Lookup!indexVars
  <2>2. Live' = Live
    BY <2>1 DEF Live
  <2>3. ListInv'
    BY <2>1, <2>2 DEF IndexInv, ListInv, Lookup!FirstOf, Lookup!SecondOf
  <2>4. \A u \in Thread, m \in Meta : OwnedBy(u, m)' <=> OwnedBy(u, m)
    BY <2>1 DEF OwnedBy
  <2> QED
    BY <2>1, <2>2, <2>3, <2>4, OwnersKept DEF IndexInv
<1>3. ListInv' /\ OwnerInv'
  BY <1>2, LookupSteps, OwnTranslate, OwnRead, OwnRequest, OwnCompile, OwnIndex, OwnLock, OwnNew,
     OwnBind, OwnLink, OwnLog, OwnReturn, OwnExit
<1> QED
  BY <1>1, <1>3 DEF IndexInv

\* As long as no two threads create the array of one first-level index at a time, what
\* is indexed can be found and what is found is in the code cache (granary/index.cc).
\* The run code_cache_index_lost shows what happens when they do.
THEOREM IndexSoundHolds == Lookup!Spec /\ []Lookup!NoArrayRace => []IndexSound
<1>1. IndexInv => IndexSound
  BY IndexInvImplies DEF IndexInv, FoundInv, IndexSound, NothingLost
<1> QED
  BY <1>1, IndexInit, IndexStep, PTL DEF Lookup!Spec

\* As long as they do not, every meta-data object has one owner, and ExitIndex deletes
\* all that is left and nothing twice (granary/index.cc).
THEOREM OwnedOnceHolds == Lookup!Spec /\ []Lookup!NoArrayRace => []OwnedOnce
<1>1. IndexInv => OwnedOnce
  BY IndexInvImplies DEF OwnedOnce
<1> QED
  BY <1>1, IndexInit, IndexStep, PTL DEF Lookup!Spec

\* A thread that creates or fills an array holds the lock of its second-level index.
LocksHeld ==
  /\ FoundInv
  /\ \A t \in Thread : index_pc[t] \in {"new", "bind", "link"} =>
       gSecondLevelLocks[Lookup!SecondOf(meta[t])] = t

LEMMA LocksHeldStep == LocksHeld /\ [Lookup!Next]_(Lookup!vars) => LocksHeld'
<1> SUFFICES ASSUME LocksHeld, [Lookup!Next]_(Lookup!vars) PROVE LocksHeld'
  OBVIOUS
<1> DEFINE LocksOK == \A t \in Thread : index_pc[t] \in {"new", "bind", "link"} =>
                      gSecondLevelLocks[Lookup!SecondOf(meta[t])] = t
<1>1. FoundInv /\ FoundInv'
  BY FoundStep DEF LocksHeld
<1>2. \A t \in Thread : index_pc[t] \in {"new", "bind", "link", "lock"} =>
        meta[t] \in Meta /\ Lookup!SecondOf(meta[t]) \in Second
  BY <1>1, AtWork
<1> USE DEF LocksHeld, FoundInv, Lookup!TypeOK, Lookup!indexVars, Lookup!SecondOf
<1> HIDE DEF FoundInv
<1>3. LocksOK'
  <2>1. ASSUME NEW t \in Thread, NEW m \in Meta, Lookup!Translate(t, m) PROVE LocksOK'
    BY <2>1, <1>1 DEF Lookup!Translate, FoundInv
  <2>2. ASSUME NEW t \in Thread, Lookup!ReadIndex(t) PROVE LocksOK'
    BY <2>2, <1>1 DEF Lookup!ReadIndex, FoundInv
  <2>3. ASSUME NEW t \in Thread, Lookup!RequestIndexedBlock(t) PROVE LocksOK'
    <3>1. /\ index_pc' \in [Thread -> Lookup!PC] /\ index_pc[t] = "match_request"
          /\ index_pc'[t] \notin {"new", "bind", "link"}
          /\ UNCHANGED gSecondLevelLocks
          /\ \A u \in Thread : u # t => index_pc'[u] = index_pc[u] /\ meta'[u] = meta[u]
      BY <2>3, <1>1 DEF Lookup!RequestIndexedBlock, FoundInv
    <3> QED
      BY <3>1
  <2>4. ASSUME NEW t \in Thread, NEW others \in SUBSET Meta, Lookup!Compile(t, others) PROVE LocksOK'
    BY <2>4, <1>1 DEF Lookup!Compile, FoundInv
  <2>5. ASSUME NEW t \in Thread, Lookup!Index(t) PROVE LocksOK'
    BY <2>5, <1>1 DEF Lookup!Index, FoundInv
  <2>6. ASSUME NEW t \in Thread, Lookup!LockSecondLevel(t) PROVE LocksOK'
    BY <2>6, <1>1, <1>2, LookupConstants DEF Lookup!LockSecondLevel, FoundInv
  <2>7. ASSUME NEW t \in Thread, Lookup!NewMetaDataArray(t) PROVE LocksOK'
    BY <2>7, <1>1 DEF Lookup!NewMetaDataArray, FoundInv
  <2>8. ASSUME NEW t \in Thread, Lookup!Bind(t) PROVE LocksOK'
    BY <2>8, <1>1 DEF Lookup!Bind, FoundInv
  <2>9. ASSUME NEW t \in Thread, Lookup!Link(t) PROVE LocksOK'
    BY <2>9, <1>1, <1>2 DEF Lookup!Link, FoundInv
  <2>10. ASSUME NEW t \in Thread, NEW b \in Meta, Lookup!AddMetaDataToLog(t, b) PROVE LocksOK'
    BY <2>10, <1>1 DEF Lookup!AddMetaDataToLog, FoundInv
  <2>11. ASSUME NEW t \in Thread, Lookup!Return(t) PROVE LocksOK'
    BY <2>11, <1>1 DEF Lookup!Return, FoundInv
  <2>12. Lookup!ExitIndex => LocksOK'
    BY DEF Lookup!ExitIndex
  <2>13. UNCHANGED Lookup!vars => LocksOK'
    BY DEF Lookup!vars, Lookup!threadVars
  <2> HIDE DEF LocksOK
  <2> QED
    BY <2>1, <2>2, <2>3, <2>4, <2>5, <2>6, <2>7, <2>8, <2>9, <2>10, <2>11, <2>12, <2>13, LookupSteps
<1> QED
  BY <1>1, <1>3

\* Two threads that create one array, or fill lists of it, are at different buckets.
RaceNeedsTwoBuckets ==
  \A t, u \in Thread : /\ index_pc[t] \in {"new", "bind", "link"} /\ index_pc[u] \in {"new", "bind", "link"}
                       /\ Lookup!SecondOf(meta[t]) = Lookup!SecondOf(meta[u])
                       => t = u

\* What the locks of the second level do guarantee, with any number of buckets: between
\* the check of an array and the insertion into one of its lists, no other thread is at
\* the same bucket.  So a list never loses an entry, and the race for an array that the
\* run code_cache_index_lost shows is one between two buckets of it (granary/index.cc).
THEOREM RaceNeedsTwoBucketsHolds == Lookup!Spec => []RaceNeedsTwoBuckets
<1>1. Lookup!Init => LocksHeld
  BY FoundInit DEF Lookup!Init, LocksHeld
<1>2. LocksHeld => RaceNeedsTwoBuckets
  BY DEF LocksHeld, RaceNeedsTwoBuckets
<1> QED
  BY <1>1, <1>2, LocksHeldStep, PTL DEF Lookup!Spec

-----------------------------------------------------------------------------
(* Numbers, and functions that are defined by recursion on them.           *)

\* The least-number principle, for a set of numbers.
LEMMA LeastNumber == ASSUME NEW T \in SUBSET Nat, T # {}
                     PROVE  \E n \in T : \A m \in T : n <= m
<1> DEFINE R == {ss \in Nat \X Nat : ss[1] < ss[2]}
<1>1. IsWellFoundedOn(R, Nat)
  BY NatLessThanWellFounded DEF OpToRel
<1>2. PICK x \in T : \A y \in T : ~(<<y, x>> \in R)
  BY <1>1, WFMin
<1>3. \A y \in T : ~(y < x)
  BY <1>2
<1> QED
  BY <1>3

\* Induction, for a set of numbers.
LEMMA AllNumbers ==
  ASSUME NEW T, 0 \in T, \A n \in Nat : n \in T => n + 1 \in T
  PROVE  Nat \subseteq T
<1> DEFINE U == Nat \ T
<1> SUFFICES ASSUME U # {} PROVE FALSE
  OBVIOUS
<1>1. PICK n \in U : \A m \in U : n <= m
  BY LeastNumber
<1>2. n \in Nat /\ n # 0 /\ n \notin T
  OBVIOUS
<1>3. n - 1 \in Nat /\ n - 1 \in T
  BY <1>1, <1>2
<1>4. (n - 1) + 1 = n
  BY <1>2
<1> QED
  BY <1>2, <1>3, <1>4

\* A function on 0..M can be defined by recursion.
IsRecursive(f, base, advance, M) == f[0] = base /\ \A i \in 1..M : f[i] = advance[i][f[i - 1]]
LEMMA Recursion ==
  ASSUME NEW S, NEW base \in S, NEW advance \in [Nat -> [S -> S]], NEW M \in Nat
  PROVE  \E f \in [0..M -> S] : IsRecursive(f, base, advance, M)
<1> DEFINE Good(n, f) == f = [i \in 0..n |-> IF i = 0 THEN base ELSE advance[i][f[i - 1]]]
           T == {n \in Nat : \E f \in [0..n -> S] : Good(n, f)}
<1>1. 0 \in T
  <2>1. PICK f : f = [i \in 0..0 |-> base]
    OBVIOUS
  <2>2. f \in [0..0 -> S] /\ Good(0, f)
    BY <2>1
  <2> QED
    BY <2>2
<1>2. ASSUME NEW n \in Nat, n \in T PROVE n + 1 \in T
  <2>1. PICK f \in [0..n -> S] : Good(n, f)
    BY <1>2
  <2>2. \A i \in 0..n : f[i] = IF i = 0 THEN base ELSE advance[i][f[i - 1]]
    BY <2>1
  <2>3. PICK y : y = advance[n + 1][f[n]]
    OBVIOUS
  <2>4. y \in S
    BY <2>3
  <2>5. PICK g : g = [i \in 0..(n + 1) |-> IF i = n + 1 THEN y ELSE f[i]]
    OBVIOUS
  <2>6. g \in [0..(n + 1) -> S]
    BY <2>4, <2>5
  <2>7. /\ DOMAIN g = 0..(n + 1)
        /\ \A i \in 0..(n + 1) : g[i] = IF i = 0 THEN base ELSE advance[i][g[i - 1]]
    <3>1. ASSUME NEW i \in 0..(n + 1) PROVE g[i] = IF i = 0 THEN base ELSE advance[i][g[i - 1]]
      <4>1. CASE i = n + 1
        <5>1. i # 0 /\ i - 1 = n /\ n \in 0..(n + 1) /\ n # n + 1
          BY <4>1
        <5>2. g[i - 1] = f[n] /\ g[i] = y
          BY <2>5, <4>1, <5>1
        <5> QED
          BY <2>3, <4>1, <5>1, <5>2
      <4>2. CASE i # n + 1
        <5>1. i \in 0..n /\ g[i] = f[i]
          BY <2>5, <4>2
        <5>2. i # 0 => i - 1 \in 0..n /\ i - 1 \in 0..(n + 1) /\ i - 1 # n + 1
          BY <5>1
        <5>3. i # 0 => g[i - 1] = f[i - 1]
          BY <2>5, <5>2
        <5> QED
          BY <2>2, <5>1, <5>3
      <4> QED
        BY <4>1, <4>2
    <3> QED
      BY <2>5, <3>1
  <2>8. Good(n + 1, g)
    BY <2>6, <2>7
  <2> HIDE DEF Good
  <2> QED
    BY <2>6, <2>8
<1> HIDE DEF T
<1>3. M \in T
  BY <1>1, <1>2, AllNumbers
<1>4. PICK f \in [0..M -> S] : f = [i \in 0..M |-> IF i = 0 THEN base ELSE advance[i][f[i - 1]]]
  BY <1>3 DEF T
<1>5. IsRecursive(f, base, advance, M)
  BY <1>4 DEF IsRecursive
<1> QED
  BY <1>5

-----------------------------------------------------------------------------
(* The meta-data of blocks.                                                *)

LEMMA RoundUpIs ==
  ASSUME NEW x \in Nat, NEW a \in Nat \ {0}
  PROVE  Layout!RoundUp(x, a) \in Nat /\ Layout!RoundUp(x, a) >= x /\ Layout!RoundUp(x, a) % a = 0
<1>1. CASE x % a = 0
  BY <1>1 DEF Layout!RoundUp
<1>2. CASE x % a # 0
  <2>1. PICK r : r = x % a
    OBVIOUS
  <2>2. r \in 0..(a - 1) /\ r # 0
    BY <1>2, <2>1
  <2>3. PICK q \in Int : x = a * q + r
    <3>1. x = a * (x \div a) + (x % a) /\ x \div a \in Int
      OBVIOUS
    <3> QED
      BY <2>1, <3>1
  <2>4. Layout!RoundUp(x, a) = x + (a - r)
    BY <1>2, <2>1 DEF Layout!RoundUp
  <2>5. x + (a - r) = a * (q + 1)
    BY <2>2, <2>3
  <2>6. (a * (q + 1)) % a = 0
    OBVIOUS
  <2> QED
    BY <2>2, <2>4, <2>5, <2>6
<1> QED
  BY <1>1, <1>2

\* What has no remainder is a multiple, and the reverse.
LEMMA Multiple ==
  ASSUME NEW x \in Int, NEW d \in Nat \ {0}
  PROVE  (d * x) % d = 0 /\ (x % d = 0 => \E k \in Int : x = d * k)
<1>1. (d * x) % d = 0
  OBVIOUS
<1>2. x = d * (x \div d) + (x % d) /\ x \div d \in Int
  OBVIOUS
<1>3. ASSUME x % d = 0 PROVE \E k \in Int : x = d * k
  <2>1. x = d * (x \div d)
    BY <1>2, <1>3
  <2> QED
    BY <1>2, <2>1
<1> QED
  BY <1>1, <1>3

LEMMA DividesSum ==
  ASSUME NEW x \in Int, NEW y \in Int, NEW d \in Nat \ {0}, x % d = 0, y % d = 0
  PROVE  (x + y) % d = 0
<1>1. PICK k \in Int : x = d * k
  BY Multiple
<1>2. PICK m \in Int : y = d * m
  BY Multiple
<1>3. x + y = d * (k + m) /\ k + m \in Int
  BY <1>1, <1>2
<1>4. (d * (k + m)) % d = 0
  BY <1>3, Multiple
<1> QED
  BY <1>3, <1>4

LEMMA DividesThrough ==
  ASSUME NEW x \in Int, NEW e \in Nat \ {0}, NEW d \in Nat \ {0}, x % e = 0, e % d = 0
  PROVE  x % d = 0
<1>1. PICK k \in Int : x = e * k
  BY Multiple
<1>2. PICK m \in Int : e = d * m
  BY Multiple
<1>3. x = d * (m * k) /\ m * k \in Int
  BY <1>1, <1>2
<1>4. (d * (m * k)) % d = 0
  BY <1>3, Multiple
<1> QED
  BY <1>3, <1>4

\* Multiples are apart by at least one of what they are multiples of.
LEMMA MultiplesApart ==
  ASSUME NEW x \in Int, NEW y \in Int, NEW d \in Nat \ {0}, x % d = 0, y % d = 0, x < y
  PROVE  x + d <= y
<1>1. PICK k \in Int : x = d * k
  BY Multiple
<1>2. PICK m \in Int : y = d * m
  BY Multiple
<1>3. k < m
  <2> SUFFICES ASSUME m <= k PROVE FALSE
    BY <1>1, <1>2
  <2>1. d * m <= d * k
    BY <1>1, <1>2
  <2> QED
    BY <1>1, <1>2, <2>1
<1>4. d * (k + 1) <= d * m
  BY <1>1, <1>2, <1>3
<1>5. d * (k + 1) = d * k + d
  BY <1>1
<1> QED
  BY <1>1, <1>2, <1>4, <1>5
-----------------------------------------------------------------------------
(* The table of descriptions.                                              *)

\* The first n entries of the table are the descriptions that have an id, in the order of
\* their ids.
TableIs(n, ids, descs) ==
  /\ n \in 0..kMaxNumManagedMetaData
  /\ ids \in [Layout!Part -> Int] /\ descs \in [Layout!PartId -> Layout!Part \cup {NoPart}]
  /\ \A i \in Layout!PartId : i < n => descs[i] \in Layout!Part /\ ids[descs[i]] = i
  /\ \A i \in Layout!PartId : i >= n => descs[i] = NoPart
  /\ \A d \in Layout!Part : ids[d] # -1 => ids[d] \in 0..(n - 1) /\ descs[ids[d]] = d

LEMMA PartIdIs == Layout!PartId = 0..(kMaxNumManagedMetaData - 1)
BY DEF Layout!PartId

\* There is room for one that has no id.
LEMMA TableHasRoom ==
  ASSUME NEW n, NEW ids, NEW descs, TableIs(n, ids, descs), NEW d \in Layout!Part, ids[d] = -1
  PROVE  n < kMaxNumManagedMetaData
<1> SUFFICES ASSUME n = kMaxNumManagedMetaData PROVE FALSE
  BY MetaAssumption DEF TableIs
<1>0. n \in Nat
  BY MetaAssumption
<1>1. PICK f : f = [i \in 0..n |-> IF i = n THEN d ELSE descs[i]]
  OBVIOUS
<1>2. ASSUME NEW i \in 0..n, i # n PROVE i \in Layout!PartId /\ i < n /\ f[i] \in Layout!Part /\ ids[f[i]] = i
  <2>1. i \in Layout!PartId /\ i < n
    BY <1>0, <1>2, PartIdIs
  <2> QED
    BY <1>1, <1>2, <2>1 DEF TableIs
<1>3. f[n] = d
  BY <1>0, <1>1
<1>4. f \in [0..n -> Layout!Part]
  BY <1>1, <1>2, <1>3
<1>5. \A i, j \in 0..n : f[i] = f[j] => i = j
  <2> SUFFICES ASSUME NEW i \in 0..n, NEW j \in 0..n, f[i] = f[j] PROVE i = j
    OBVIOUS
  <2>1. i # n => ids[f[i]] = i
    BY <1>2
  <2>2. j # n => ids[f[j]] = j
    BY <1>2
  <2>3. i = n => ids[f[i]] = -1
    BY <1>3
  <2>4. j = n => ids[f[j]] = -1
    BY <1>3
  <2> QED
    BY <2>1, <2>2, <2>3, <2>4
<1>6. IsFiniteSet(0..n) /\ Cardinality(0..n) = n + 1
  BY <1>0, FS_Interval
<1>7. IsFiniteSet(Layout!Part) /\ Cardinality(Layout!Part) < Cardinality(0..n)
  <2>1. Cardinality(Layout!Part) \in Nat
    BY MetaAssumption, FS_CardinalityType
  <2> QED
    BY <1>0, <1>6, <2>1, MetaAssumption
<1>8. \E i, j \in 0..n : i # j /\ f[i] = f[j]
  <2>1. PICK S : S = 0..n
    OBVIOUS
  <2>2. IsFiniteSet(S) /\ IsFiniteSet(Layout!Part) /\ Cardinality(Layout!Part) < Cardinality(S) /\ f \in [S -> Layout!Part]
    BY <1>4, <1>6, <1>7, <2>1
  <2>3. \E i, j \in S : i # j /\ f[i] = f[j]
    BY <2>2, FS_PigeonHole, Zenon
  <2> QED
    BY <2>1, <2>3
<1> QED
  BY <1>5, <1>8

TableOf(tab) == TableIs(tab.next, tab.ids, tab.descs)

\* AddMetaData gives an id to a description that has none.
LEMMA AddMetaDataIs ==
  ASSUME NEW tab, TableOf(tab), NEW d \in Layout!Part
  PROVE  /\ TableOf(Layout!AddMetaData(tab, d))
         /\ Layout!AddMetaData(tab, d).ids[d] # -1
         /\ \A e \in Layout!Part : tab.ids[e] # -1 => Layout!AddMetaData(tab, d).ids[e] # -1
<1>1. PICK n, ids, descs : n = tab.next /\ ids = tab.ids /\ descs = tab.descs
  OBVIOUS
<1>2. TableIs(n, ids, descs)
  BY <1>1 DEF TableOf
<1>3. PICK t : t = Layout!AddMetaData(tab, d)
  OBVIOUS
<1>4. CASE ids[d] = -1
  <2>1. n < kMaxNumManagedMetaData
    BY <1>2, <1>4, TableHasRoom
  <2>2. /\ t.next = n + 1 /\ t.ids = [ids EXCEPT ![d] = n] /\ t.descs = [descs EXCEPT ![n] = d]
    BY <1>1, <1>3, <1>4 DEF Layout!AddMetaData
  <2>3. n \in Nat /\ n \in Layout!PartId /\ n # -1
    BY <1>2, <2>1, PartIdIs, MetaAssumption DEF TableIs
  <2>4. PICK ids1 : ids1 = [ids EXCEPT ![d] = n]
    OBVIOUS
  <2>5. PICK descs1 : descs1 = [descs EXCEPT ![n] = d]
    OBVIOUS
  <2>6. ids1 \in [Layout!Part -> Int] /\ ids1[d] = n /\ \A e \in Layout!Part : e # d => ids1[e] = ids[e]
    BY <1>2, <2>3, <2>4 DEF TableIs
  <2>7. /\ descs1 \in [Layout!PartId -> Layout!Part \cup {NoPart}]
        /\ descs1[n] = d /\ \A i \in Layout!PartId : i # n => descs1[i] = descs[i]
    BY <1>2, <2>3, <2>5 DEF TableIs
  <2>8. ASSUME NEW i \in Layout!PartId, i < n + 1 PROVE descs1[i] \in Layout!Part /\ ids1[descs1[i]] = i
    <3>1. CASE i = n
      BY <2>6, <2>7, <3>1
    <3>2. CASE i # n
      <4>1. i < n
        BY <2>3, <2>8, <3>2, PartIdIs
      <4>2. descs[i] \in Layout!Part /\ ids[descs[i]] = i /\ descs1[i] = descs[i]
        BY <1>2, <2>7, <3>2, <4>1 DEF TableIs
      <4>3. descs[i] # d
        BY <1>4, <4>2, PartIdIs
      <4> QED
        BY <2>6, <4>2, <4>3
    <3> QED
      BY <3>1, <3>2
  <2>9. ASSUME NEW i \in Layout!PartId, i >= n + 1 PROVE descs1[i] = NoPart
    <3>1. i # n /\ i >= n
      BY <2>3, <2>9, PartIdIs
    <3> QED
      BY <1>2, <2>7, <3>1 DEF TableIs
  <2>10. ASSUME NEW e \in Layout!Part, ids1[e] # -1 PROVE ids1[e] \in 0..((n + 1) - 1) /\ descs1[ids1[e]] = e
    <3>1. CASE e = d
      BY <2>3, <2>6, <2>7, <3>1
    <3>2. CASE e # d
      <4>1. ids1[e] = ids[e] /\ ids[e] \in 0..(n - 1) /\ descs[ids[e]] = e
        BY <1>2, <2>6, <2>10, <3>2 DEF TableIs
      <4>2. ids[e] \in Layout!PartId /\ ids[e] # n /\ ids[e] \in 0..((n + 1) - 1)
        BY <2>1, <2>3, <4>1, PartIdIs, MetaAssumption
      <4> QED
        BY <2>7, <4>1, <4>2
    <3> QED
      BY <3>1, <3>2
  <2>11. TableIs(n + 1, ids1, descs1)
    <3>1. n + 1 \in 0..kMaxNumManagedMetaData
      BY <2>1, <2>3, MetaAssumption
    <3> QED
      BY <2>6, <2>7, <2>8, <2>9, <2>10, <3>1 DEF TableIs
  <2> QED
    BY <1>1, <1>3, <1>4, <2>2, <2>3, <2>4, <2>5, <2>6, <2>11 DEF TableOf
<1>5. CASE ids[d] # -1
  <2>1. ids[d] \in 0..(n - 1) /\ descs[ids[d]] = d
    BY <1>2, <1>5 DEF TableIs
  <2>2. /\ t.next = n /\ t.ids = [ids EXCEPT ![d] = ids[d]] /\ t.descs = [descs EXCEPT ![ids[d]] = d]
    BY <1>1, <1>3, <1>5 DEF Layout!AddMetaData
  <2>3. [ids EXCEPT ![d] = ids[d]] = ids
    BY <1>2 DEF TableIs
  <2>4. [descs EXCEPT ![ids[d]] = d] = descs
    BY <1>2, <2>1 DEF TableIs
  <2> QED
    BY <1>1, <1>2, <1>3, <1>5, <2>2, <2>3, <2>4 DEF TableOf
<1> QED
  BY <1>4, <1>5

\* The tables during several registrations.
Tables == [next : Int, ids : [Layout!Part -> Int], descs : [Layout!PartId -> Layout!Part \cup {NoPart}]]
IsRegistering(f, first, q) ==
  f = [i \in 0..Len(q) |-> IF i = 0 THEN first ELSE Layout!AddMetaData(f[i - 1], q[i])]

LEMMA RegisteringExists ==
  ASSUME NEW first \in Tables, NEW q \in Seq(Layout!Part)
  PROVE  \E f : IsRegistering(f, first, q)
<1> DEFINE advance == [i \in Nat |-> [t \in Tables |-> IF i \in 1..Len(q) THEN Layout!AddMetaData(t, q[i]) ELSE t]]
<1>1. ASSUME NEW t \in Tables, NEW d \in Layout!Part PROVE Layout!AddMetaData(t, d) \in Tables
  <2>1. /\ t.next \in Int /\ t.ids \in [Layout!Part -> Int] /\ t.ids[d] \in Int
        /\ t.descs \in [Layout!PartId -> Layout!Part \cup {NoPart}]
    BY DEF Tables
  <2>2. \A i \in Int : /\ [t.ids EXCEPT ![d] = i] \in [Layout!Part -> Int]
                       /\ [t.descs EXCEPT ![i] = d] \in [Layout!PartId -> Layout!Part \cup {NoPart}]
    BY <2>1
  <2> QED
    BY <2>1, <2>2 DEF Tables, Layout!AddMetaData
<1>2. Len(q) \in Nat /\ \A i \in 1..Len(q) : q[i] \in Layout!Part
  OBVIOUS
<1>3. advance \in [Nat -> [Tables -> Tables]]
  BY <1>1, <1>2
<1>4. PICK f \in [0..Len(q) -> Tables] : IsRecursive(f, first, advance, Len(q))
  <2> HIDE DEF advance
  <2> QED
    BY <1>2, <1>3, Recursion
<1>5. ASSUME NEW i \in 0..Len(q) PROVE f[i] = IF i = 0 THEN first ELSE Layout!AddMetaData(f[i - 1], q[i])
  <2>1. CASE i = 0
    BY <1>4, <2>1 DEF IsRecursive
  <2>2. CASE i # 0
    <3>1. i \in 1..Len(q) /\ i \in Nat /\ i - 1 \in 0..Len(q)
      BY <1>2, <2>2
    <3>2. f[i - 1] \in Tables /\ f[i] = advance[i][f[i - 1]]
      <4> HIDE DEF advance
      <4> QED
        BY <1>4, <3>1 DEF IsRecursive
    <3> QED
      BY <2>2, <3>1, <3>2
  <2> QED
    BY <2>1, <2>2
<1>6. f = [i \in 0..Len(q) |-> f[i]]
  OBVIOUS
<1>7. f = [i \in 0..Len(q) |-> IF i = 0 THEN first ELSE Layout!AddMetaData(f[i - 1], q[i])]
  BY <1>5, <1>6
<1> QED
  BY <1>7 DEF IsRegistering

LEMMA RegisteringIs ==
  ASSUME NEW first \in Tables, TableOf(first), NEW q \in Seq(Layout!Part), NEW f, IsRegistering(f, first, q)
  PROVE  /\ TableOf(f[Len(q)])
         /\ \A d \in Layout!Part : first.ids[d] # -1 => f[Len(q)].ids[d] # -1
         /\ \A i \in 1..Len(q) : f[Len(q)].ids[q[i]] # -1
<1>1. \A i \in 0..Len(q) : f[i] = IF i = 0 THEN first ELSE Layout!AddMetaData(f[i - 1], q[i])
  <2>1. PICK g : g = [i \in 0..Len(q) |-> IF i = 0 THEN first ELSE Layout!AddMetaData(f[i - 1], q[i])]
    OBVIOUS
  <2>2. g = f
    BY <2>1 DEF IsRegistering
  <2> QED
    BY <2>1, <2>2
<1>2. Len(q) \in Nat /\ \A i \in 1..Len(q) : q[i] \in Layout!Part
  OBVIOUS
<1> DEFINE Done(k) == /\ TableOf(f[k])
                      /\ \A d \in Layout!Part : first.ids[d] # -1 => f[k].ids[d] # -1
                      /\ \A i \in 1..k : f[k].ids[q[i]] # -1
           T == {k \in Nat : k <= Len(q) => Done(k)}
<1>3. 0 \in T
  <2>1. f[0] = first
    BY <1>1, <1>2
  <2> QED
    BY <2>1
<1>4. ASSUME NEW k \in Nat, k \in T PROVE k + 1 \in T
  <2>1. CASE k + 1 <= Len(q)
    <3>1. k + 1 \in 0..Len(q) /\ k + 1 \in 1..Len(q) /\ k + 1 # 0 /\ (k + 1) - 1 = k /\ k <= Len(q)
      BY <1>2, <2>1
    <3>2. Done(k)
      BY <1>4, <3>1
    <3>3. f[k + 1] = Layout!AddMetaData(f[k], q[k + 1]) /\ q[k + 1] \in Layout!Part
      BY <1>1, <1>2, <3>1
    <3>4. /\ TableOf(f[k + 1]) /\ f[k + 1].ids[q[k + 1]] # -1
          /\ \A e \in Layout!Part : f[k].ids[e] # -1 => f[k + 1].ids[e] # -1
      BY <3>2, <3>3, AddMetaDataIs
    <3>5. ASSUME NEW i \in 1..(k + 1) PROVE f[k + 1].ids[q[i]] # -1
      <4>1. CASE i = k + 1
        BY <3>4, <4>1
      <4>2. CASE i # k + 1
        <5>1. i \in 1..k /\ i \in 1..Len(q)
          BY <1>2, <3>1, <4>2
        <5> QED
          BY <1>2, <3>2, <3>4, <5>1
      <4> QED
        BY <4>1, <4>2
    <3>6. Done(k + 1)
      BY <3>2, <3>4, <3>5
    <3> HIDE DEF Done
    <3> QED
      BY <3>6
  <2> HIDE DEF Done
  <2> QED
    BY <2>1
<1>5. Len(q) \in T
  <2> HIDE DEF T
  <2> QED
    BY <1>2, <1>3, <1>4, AllNumbers
<1> QED
  BY <1>2, <1>5

\* What registrations do to the table.
LEMMA RegisterIs ==
  ASSUME NEW n, TableIs(n, part_id, gDescriptions), NEW q \in Seq(Layout!Part), Layout!Register(n, q)
  PROVE  /\ TableIs(gNextDescriptionId', part_id', gDescriptions')
         /\ \A d \in Layout!Part : part_id[d] # -1 => part_id'[d] # -1
         /\ \A i \in 1..Len(q) : part_id'[q[i]] # -1
<1>1. PICK first : first = [next |-> n, ids |-> part_id, descs |-> gDescriptions]
  OBVIOUS
<1>2. first.next = n /\ first.ids = part_id /\ first.descs = gDescriptions
  BY <1>1
<1>3. TableOf(first)
  BY <1>2 DEF TableOf
<1>4. first \in Tables
  <2>1. n \in Int /\ part_id \in [Layout!Part -> Int] /\ gDescriptions \in [Layout!PartId -> Layout!Part \cup {NoPart}]
    BY MetaAssumption DEF TableIs
  <2> QED
    BY <1>1, <2>1 DEF Tables
<1>5. PICK f : f = CHOOSE g : IsRegistering(g, first, q)
  OBVIOUS
<1>6. IsRegistering(f, first, q)
  BY <1>4, <1>5, RegisteringExists
<1>7. gNextDescriptionId' = f[Len(q)].next /\ gDescriptions' = f[Len(q)].descs /\ part_id' = f[Len(q)].ids
  BY <1>1, <1>5 DEF Layout!Register, IsRegistering
<1> QED
  BY <1>2, <1>3, <1>4, <1>6, <1>7, RegisteringIs DEF TableOf

LEMMA RegisterNothing ==
  ASSUME Layout!Register(gNextDescriptionId, << >>)
  PROVE  gNextDescriptionId' = gNextDescriptionId /\ gDescriptions' = gDescriptions /\ part_id' = part_id
<1>1. PICK first : first = [next |-> gNextDescriptionId, ids |-> part_id, descs |-> gDescriptions]
  OBVIOUS
<1>2. PICK f : f = CHOOSE g : IsRegistering(g, first, << >>)
  OBVIOUS
<1>3. PICK g : g = [i \in 0..0 |-> first]
  OBVIOUS
<1>4. IsRegistering(g, first, << >>)
  BY <1>3 DEF IsRegistering
<1>5. IsRegistering(f, first, << >>)
  BY <1>2, <1>4
<1>6. f[0] = first
  <2>1. PICK h : h = [i \in 0..0 |-> IF i = 0 THEN first ELSE Layout!AddMetaData(f[i - 1], << >>[i])]
    OBVIOUS
  <2>2. f = h
    BY <1>5, <2>1 DEF IsRegistering
  <2> QED
    BY <2>1, <2>2
<1>7. gNextDescriptionId' = f[0].next /\ gDescriptions' = f[0].descs /\ part_id' = f[0].ids
  BY <1>1, <1>2 DEF Layout!Register, IsRegistering
<1> QED
  BY <1>1, <1>6, <1>7
-----------------------------------------------------------------------------
(* The layout of an object.                                                *)

\* The descriptions that have an id.
Registered == {d \in Layout!Part : part_id[d] # -1}

\* Described lists them.
LEMMA DescribedIs ==
  ASSUME TableIs(gNextDescriptionId, part_id, gDescriptions)
  PROVE  /\ gNextDescriptionId \in Nat
         /\ Layout!Described \in Seq(Layout!Part) /\ Len(Layout!Described) = gNextDescriptionId
         /\ \A i, j \in 1..gNextDescriptionId : Layout!Described[i] = Layout!Described[j] => i = j
         /\ Registered = {Layout!Described[i] : i \in 1..gNextDescriptionId}
<1>1. PICK n : n = gNextDescriptionId
  OBVIOUS
<1>2. n \in Nat /\ n <= kMaxNumManagedMetaData /\ kMaxNumManagedMetaData \in Nat
  BY <1>1, MetaAssumption DEF TableIs
<1>3. Layout!Min({i \in Layout!PartId : gDescriptions[i] = NoPart} \cup {kMaxNumManagedMetaData}) = n
  <2> DEFINE G == {i \in Layout!PartId : gDescriptions[i] = NoPart} \cup {kMaxNumManagedMetaData}
  <2>1. n \in G
    <3>1. CASE n = kMaxNumManagedMetaData
      BY <3>1
    <3>2. CASE n # kMaxNumManagedMetaData
      <4>1. n \in Layout!PartId /\ n >= n
        BY <1>2, <3>2, PartIdIs
      <4> QED
        BY <1>1, <4>1 DEF TableIs
    <3> QED
      BY <3>1, <3>2
  <2>2. \A i \in G : n <= i /\ i \in Nat
    <3>1. ASSUME NEW i \in Layout!PartId, gDescriptions[i] = NoPart PROVE n <= i /\ i \in Nat
      <4>1. ~(i < n)
        BY <1>1, <3>1, MetaAssumption DEF TableIs
      <4> QED
        BY <1>2, <4>1, PartIdIs
    <3> QED
      BY <1>2, <3>1
  <2> HIDE DEF G
  <2>3. Layout!Min(G) = n
    <3>1. \A x \in G : (\A y \in G : x <= y) <=> x = n
      BY <1>2, <2>1, <2>2
    <3> QED
      BY <2>1, <3>1 DEF Layout!Min
  <2> QED
    BY <2>3 DEF G
<1>4. Layout!Described = [i \in 1..n |-> gDescriptions[i - 1]]
  BY <1>3 DEF Layout!Described
<1>5. ASSUME NEW i \in 1..n
      PROVE  Layout!Described[i] = gDescriptions[i - 1] /\ Layout!Described[i] \in Layout!Part /\ part_id[Layout!Described[i]] = i - 1
  <2>1. i - 1 \in Layout!PartId /\ i - 1 < n
    BY <1>2, PartIdIs
  <2> QED
    BY <1>1, <1>4, <2>1 DEF TableIs
<1>6. Layout!Described \in [1..n -> Layout!Part]
  <2>1. PICK D : D = Layout!Described
    OBVIOUS
  <2>2. D = [i \in 1..n |-> D[i]] /\ \A i \in 1..n : D[i] \in Layout!Part
    BY <1>4, <1>5, <2>1
  <2> QED
    BY <2>1, <2>2
<1>7. Layout!Described \in Seq(Layout!Part) /\ Len(Layout!Described) = n
  BY <1>2, <1>6
<1>8. \A i, j \in 1..n : Layout!Described[i] = Layout!Described[j] => i = j
  <2> SUFFICES ASSUME NEW i \in 1..n, NEW j \in 1..n, Layout!Described[i] = Layout!Described[j] PROVE i = j
    OBVIOUS
  <2>1. i - 1 = j - 1
    BY <1>5
  <2> QED
    BY <1>2, <2>1
<1>9. Registered = {Layout!Described[i] : i \in 1..n}
  <2>1. ASSUME NEW d \in Registered PROVE \E i \in 1..n : d = Layout!Described[i]
    <3>1. d \in Layout!Part /\ part_id[d] \in 0..(n - 1) /\ gDescriptions[part_id[d]] = d
      BY <1>1, <2>1 DEF Registered, TableIs
    <3>2. PICK k \in Nat : k = part_id[d] + 1
      BY <3>1
    <3>3. k \in 1..n /\ k - 1 = part_id[d]
      BY <1>2, <3>1, <3>2
    <3> QED
      BY <1>5, <3>1, <3>3
  <2>2. ASSUME NEW i \in 1..n PROVE Layout!Described[i] \in Registered
    <3>1. i - 1 # -1
      BY <1>2
    <3> QED
      BY <1>5, <3>1 DEF Registered
  <2> QED
    BY <2>1, <2>2
<1> QED
  BY <1>1, <1>2, <1>7, <1>8, <1>9

\* A layout gives each of a set of parts an aligned place of its own, in objects of a size
\* that keeps the alignment.
LayoutIs(size, offs, parts) ==
  /\ size \in Nat \ {0}
  /\ \A d \in parts : /\ offs[d] \in Nat /\ offs[d] % PartAlign[d] = 0
                      /\ offs[d] + PartSize[d] <= size /\ size % PartAlign[d] = 0
  /\ \A d, e \in parts : d # e => \/ offs[d] + PartSize[d] <= offs[e]
                                  \/ offs[e] + PartSize[e] <= offs[d]

\* The loop of Finalize.
Layouts == [align : Nat, size : Nat, offset : [Layout!Part -> Int]]
IsPlacing(f, first, q) ==
  f = [i \in 0..Len(q) |-> IF i = 0 THEN first ELSE Layout!Place(f[i - 1], q[i])]

LEMMA MaxIs ==
  ASSUME NEW x \in Nat, NEW y \in Nat
  PROVE  Layout!Max({x, y}) = IF x >= y THEN x ELSE y
<1>1. \A z \in {x, y} : (\A w \in {x, y} : z >= w) <=> z = IF x >= y THEN x ELSE y
  OBVIOUS
<1> QED
  BY <1>1 DEF Layout!Max

LEMMA PlacingOne ==
  ASSUME NEW l \in Layouts, NEW d \in Layout!Part
  PROVE  \E o \in Nat :
           /\ o >= l.size /\ o % PartAlign[d] = 0
           /\ Layout!Place(l, d) \in Layouts
           /\ Layout!Place(l, d).size = o + PartSize[d]
           /\ Layout!Place(l, d).align = IF l.align >= PartAlign[d] THEN l.align ELSE PartAlign[d]
           /\ Layout!Place(l, d).offset[d] = o
           /\ \A e \in Layout!Part : e # d => Layout!Place(l, d).offset[e] = l.offset[e]
<1>1. l.align \in Nat /\ l.size \in Nat /\ l.offset \in [Layout!Part -> Int]
  BY DEF Layouts
<1>2. PartSize[d] \in Nat /\ PartAlign[d] \in Nat \ {0}
  BY MetaAssumption
<1>3. PICK o : o = Layout!RoundUp(l.size, PartAlign[d])
  OBVIOUS
<1>4. o \in Nat /\ o >= l.size /\ o % PartAlign[d] = 0
  BY <1>1, <1>2, <1>3, RoundUpIs
<1>5. PICK a : a = Layout!Max({l.align, PartAlign[d]})
  OBVIOUS
<1>6. a \in Nat /\ a = IF l.align >= PartAlign[d] THEN l.align ELSE PartAlign[d]
  BY <1>1, <1>2, <1>5, MaxIs
<1>7. PICK p : p = [l.offset EXCEPT ![d] = o]
  OBVIOUS
<1>8. p \in [Layout!Part -> Int] /\ p[d] = o /\ \A e \in Layout!Part : e # d => p[e] = l.offset[e]
  BY <1>1, <1>4, <1>7
<1>9. Layout!Place(l, d) = [align |-> a, size |-> o + PartSize[d], offset |-> p]
  BY <1>3, <1>5, <1>7 DEF Layout!Place
<1>10. Layout!Place(l, d) \in Layouts
  BY <1>2, <1>4, <1>6, <1>8, <1>9 DEF Layouts
<1> QED
  BY <1>4, <1>6, <1>8, <1>9, <1>10

LEMMA PlacingExists ==
  ASSUME NEW first \in Layouts, NEW q \in Seq(Layout!Part)
  PROVE  \E f : IsPlacing(f, first, q)
<1> DEFINE advance == [i \in Nat |-> [t \in Layouts |-> IF i \in 1..Len(q) THEN Layout!Place(t, q[i]) ELSE t]]
<1>1. \A t \in Layouts, d \in Layout!Part : Layout!Place(t, d) \in Layouts
  BY PlacingOne
<1>2. Len(q) \in Nat /\ \A i \in 1..Len(q) : q[i] \in Layout!Part
  OBVIOUS
<1>3. advance \in [Nat -> [Layouts -> Layouts]]
  BY <1>1, <1>2
<1>4. PICK f \in [0..Len(q) -> Layouts] : IsRecursive(f, first, advance, Len(q))
  <2> HIDE DEF advance
  <2> QED
    BY <1>2, <1>3, Recursion
<1>5. ASSUME NEW i \in 0..Len(q) PROVE f[i] = IF i = 0 THEN first ELSE Layout!Place(f[i - 1], q[i])
  <2>1. CASE i = 0
    BY <1>4, <2>1 DEF IsRecursive
  <2>2. CASE i # 0
    <3>1. i \in 1..Len(q) /\ i \in Nat /\ i - 1 \in 0..Len(q)
      BY <1>2, <2>2
    <3>2. f[i - 1] \in Layouts /\ f[i] = advance[i][f[i - 1]]
      <4> HIDE DEF advance
      <4> QED
        BY <1>4, <3>1 DEF IsRecursive
    <3> QED
      BY <2>2, <3>1, <3>2
  <2> QED
    BY <2>1, <2>2
<1>6. f = [i \in 0..Len(q) |-> f[i]]
  OBVIOUS
<1>7. f = [i \in 0..Len(q) |-> IF i = 0 THEN first ELSE Layout!Place(f[i - 1], q[i])]
  BY <1>5, <1>6
<1> QED
  BY <1>7 DEF IsPlacing

\* After k parts of q: they are in order, aligned and apart, and the alignment is theirs.
Placed(l, q, k) ==
  /\ l \in Layouts
  /\ \A i \in 1..k : /\ l.offset[q[i]] \in Nat /\ l.offset[q[i]] % PartAlign[q[i]] = 0
                     /\ l.offset[q[i]] + PartSize[q[i]] <= l.size /\ PartAlign[q[i]] <= l.align
  /\ \A i, j \in 1..k : i < j => l.offset[q[i]] + PartSize[q[i]] <= l.offset[q[j]]
  /\ IF k = 0 THEN l.align = 0 /\ l.size = 0 ELSE \E i \in 1..k : l.align = PartAlign[q[i]]

LEMMA PlacedNext ==
  ASSUME NEW q \in Seq(Layout!Part), \A i, j \in 1..Len(q) : q[i] = q[j] => i = j,
         NEW k \in Nat, k + 1 <= Len(q), NEW l, Placed(l, q, k)
  PROVE  Placed(Layout!Place(l, q[k + 1]), q, k + 1)
<1>1. /\ Len(q) \in Nat /\ k + 1 \in 1..Len(q) /\ k \in 0..Len(q) /\ 1..k \subseteq 1..Len(q) /\ 1..(k + 1) \subseteq 1..Len(q)
      /\ \A i \in 1..Len(q) : q[i] \in Layout!Part
  OBVIOUS
<1>2. PICK d : d = q[k + 1]
  OBVIOUS
<1>3. PICK m : m = Layout!Place(l, d)
  OBVIOUS
<1>4. d \in Layout!Part /\ l \in Layouts /\ l.size \in Nat /\ l.align \in Nat
  BY <1>1, <1>2 DEF Placed, Layouts
<1>5. PICK o \in Nat :
        /\ o >= l.size /\ o % PartAlign[d] = 0
        /\ m \in Layouts /\ m.size = o + PartSize[d]
        /\ m.align = IF l.align >= PartAlign[d] THEN l.align ELSE PartAlign[d]
        /\ m.offset[d] = o
        /\ \A e \in Layout!Part : e # d => m.offset[e] = l.offset[e]
  BY <1>3, <1>4, PlacingOne
<1>6. \A e \in Layout!Part : PartSize[e] \in Nat \ {0} /\ PartAlign[e] \in Nat \ {0}
  BY MetaAssumption
<1>7. ASSUME NEW i \in 1..k
      PROVE  /\ q[i] \in Layout!Part /\ m.offset[q[i]] = l.offset[q[i]]
             /\ l.offset[q[i]] \in Nat /\ l.offset[q[i]] % PartAlign[q[i]] = 0
             /\ l.offset[q[i]] + PartSize[q[i]] <= l.size /\ PartAlign[q[i]] <= l.align
  <2>1. i \in 1..Len(q) /\ i # k + 1
    BY <1>1
  <2>2. q[i] \in Layout!Part /\ q[i] # d
    BY <1>1, <1>2, <2>1
  <2> QED
    BY <1>5, <2>2 DEF Placed
<1>8. ASSUME NEW i \in 1..(k + 1)
      PROVE  /\ m.offset[q[i]] \in Nat /\ m.offset[q[i]] % PartAlign[q[i]] = 0
             /\ m.offset[q[i]] + PartSize[q[i]] <= m.size /\ PartAlign[q[i]] <= m.align
  <2>1. CASE i = k + 1
    BY <1>2, <1>4, <1>5, <1>6, <2>1
  <2>2. CASE i # k + 1
    <3>1. i \in 1..k
      BY <2>2
    <3>2. PICK x \in Nat : x = l.offset[q[i]]
      BY <1>7, <3>1
    <3>3. PICK y \in Nat : y = PartSize[q[i]]
      BY <1>6, <1>7, <3>1
    <3>4. PICK z \in Nat : z = PartAlign[q[i]]
      BY <1>6, <1>7, <3>1
    <3>5. x + y <= l.size /\ z <= l.align
      BY <1>7, <3>1, <3>2, <3>3, <3>4
    <3>6. x + y <= m.size /\ z <= m.align
      BY <1>4, <1>5, <1>6, <3>5
    <3> QED
      BY <1>7, <3>1, <3>2, <3>3, <3>4, <3>6
  <2> QED
    BY <2>1, <2>2
<1>9. ASSUME NEW i \in 1..(k + 1), NEW j \in 1..(k + 1), i < j
      PROVE  m.offset[q[i]] + PartSize[q[i]] <= m.offset[q[j]]
  <2>1. i \in 1..k
    BY <1>9
  <2>2. CASE j = k + 1
    <3>1. PICK x \in Nat : x = l.offset[q[i]]
      BY <1>7, <2>1
    <3>2. PICK y \in Nat : y = PartSize[q[i]]
      BY <1>6, <1>7, <2>1
    <3>3. x + y <= o
      BY <1>4, <1>5, <1>7, <2>1, <3>1, <3>2
    <3> QED
      BY <1>2, <1>5, <1>7, <2>1, <2>2, <3>1, <3>2, <3>3
  <2>3. CASE j # k + 1
    <3>1. j \in 1..k
      BY <2>3
    <3>2. l.offset[q[i]] + PartSize[q[i]] <= l.offset[q[j]]
      BY <1>9, <2>1, <3>1 DEF Placed
    <3> QED
      BY <1>7, <2>1, <3>1, <3>2
  <2> QED
    BY <2>2, <2>3
<1>10. \E i \in 1..(k + 1) : m.align = PartAlign[q[i]]
  <2>1. CASE l.align >= PartAlign[d]
    <3>1. k # 0
      BY <1>4, <1>6, <2>1 DEF Placed
    <3>2. PICK i \in 1..k : l.align = PartAlign[q[i]]
      BY <3>1 DEF Placed
    <3>3. i \in 1..(k + 1)
      BY <3>2
    <3> QED
      BY <1>5, <2>1, <3>2, <3>3
  <2>2. CASE ~(l.align >= PartAlign[d])
    BY <1>2, <1>5, <2>2
  <2> QED
    BY <2>1, <2>2
<1>11. Placed(m, q, k + 1)
  BY <1>5, <1>8, <1>9, <1>10 DEF Placed
<1> QED
  BY <1>2, <1>3, <1>11

LEMMA PlacingIs ==
  ASSUME NEW first, NEW q \in Seq(Layout!Part), Placed(first, q, 0), \A i, j \in 1..Len(q) : q[i] = q[j] => i = j,
         NEW f, IsPlacing(f, first, q)
  PROVE  Placed(f[Len(q)], q, Len(q))
<1>1. \A i \in 0..Len(q) : f[i] = IF i = 0 THEN first ELSE Layout!Place(f[i - 1], q[i])
  <2>1. PICK g : g = [i \in 0..Len(q) |-> IF i = 0 THEN first ELSE Layout!Place(f[i - 1], q[i])]
    OBVIOUS
  <2>2. g = f
    BY <2>1 DEF IsPlacing
  <2> QED
    BY <2>1, <2>2
<1>2. Len(q) \in Nat
  OBVIOUS
<1> DEFINE T == {k \in Nat : k <= Len(q) => Placed(f[k], q, k)}
<1>3. 0 \in T
  BY <1>1, <1>2
<1>4. ASSUME NEW k \in Nat, k \in T PROVE k + 1 \in T
  <2>1. CASE k + 1 <= Len(q)
    <3>1. k + 1 \in 0..Len(q) /\ k + 1 # 0 /\ (k + 1) - 1 = k /\ k <= Len(q)
      BY <1>2, <2>1
    <3>2. Placed(f[k], q, k) /\ f[k + 1] = Layout!Place(f[k], q[k + 1])
      BY <1>1, <1>4, <3>1
    <3>3. Placed(f[k + 1], q, k + 1)
      BY <2>1, <3>2, PlacedNext
    <3> QED
      BY <3>3
  <2> QED
    BY <2>1
<1>5. Len(q) \in T
  <2> HIDE DEF T
  <2> QED
    BY <1>2, <1>3, <1>4, AllNumbers
<1> QED
  BY <1>2, <1>5

LEMMA FinalizeIs ==
  ASSUME TableIs(gNextDescriptionId, part_id, gDescriptions), Registered # {},
         gAlign = 0, gSize = 0, part_offset \in [Layout!Part -> Int]
  PROVE  /\ LayoutIs(Layout!Finalize.size, Layout!Finalize.offset, Registered)
         /\ Layout!Finalize.offset \in [Layout!Part -> Int]
<1>1. PICK q : q = Layout!Described
  OBVIOUS
<1>2. PICK n : n = Len(q)
  OBVIOUS
<1>3. /\ q \in Seq(Layout!Part) /\ n \in Nat /\ \A i, j \in 1..n : q[i] = q[j] => i = j
      /\ Registered = {q[i] : i \in 1..n} /\ \A i \in 1..n : q[i] \in Layout!Part
  <2>1. n = gNextDescriptionId
    BY <1>1, <1>2, DescribedIs
  <2>2. /\ q \in Seq(Layout!Part) /\ n \in Nat /\ \A i, j \in 1..n : q[i] = q[j] => i = j
        /\ Registered = {q[i] : i \in 1..n}
    BY <1>1, <2>1, DescribedIs
  <2> QED
    BY <1>2, <2>2
<1>4. PICK first : first = [align |-> gAlign, size |-> gSize, offset |-> part_offset]
  OBVIOUS
<1>5. first \in Layouts /\ first.align = 0 /\ first.size = 0
  BY <1>4 DEF Layouts
<1>6. Placed(first, q, 0)
  BY <1>5 DEF Placed
<1>7. PICK f : f = CHOOSE g : IsPlacing(g, first, q)
  OBVIOUS
<1>8. IsPlacing(f, first, q)
  BY <1>3, <1>5, <1>7, PlacingExists
<1>9. PICK all : all = f[n]
  OBVIOUS
<1>10. Placed(all, q, n)
  BY <1>2, <1>3, <1>6, <1>8, <1>9, PlacingIs
<1>11. Layout!Finalize = [all EXCEPT !.size = Layout!RoundUp(all.size, all.align)]
  BY <1>1, <1>2, <1>4, <1>7, <1>9 DEF Layout!Finalize, IsPlacing
<1>12. all \in Layouts /\ all.align \in Nat /\ all.size \in Nat /\ all.offset \in [Layout!Part -> Int]
  BY <1>10 DEF Placed, Layouts
<1>13. PICK size : size = Layout!RoundUp(all.size, all.align)
  OBVIOUS
<1>14. Layout!Finalize.size = size /\ Layout!Finalize.offset = all.offset
  <2>1. all = [align |-> all.align, size |-> all.size, offset |-> all.offset]
    BY <1>12 DEF Layouts
  <2> QED
    BY <1>11, <1>13, <2>1
<1>15. n # 0
  BY <1>3
<1>16. PICK m \in 1..n : all.align = PartAlign[q[m]]
  BY <1>10, <1>15 DEF Placed
<1>17. \A d \in Layout!Part : PartSize[d] \in Nat \ {0} /\ PartAlign[d] \in Nat \ {0}
  BY MetaAssumption
<1>18. all.align \in Nat \ {0}
  BY <1>3, <1>16, <1>17
<1>19. size \in Nat /\ size >= all.size /\ size % all.align = 0
  BY <1>12, <1>13, <1>18, RoundUpIs
<1>20. ASSUME NEW i \in 1..n
       PROVE  /\ all.offset[q[i]] \in Nat /\ all.offset[q[i]] % PartAlign[q[i]] = 0
              /\ all.offset[q[i]] + PartSize[q[i]] <= size /\ size % PartAlign[q[i]] = 0
  <2>1. /\ all.offset[q[i]] \in Nat /\ all.offset[q[i]] % PartAlign[q[i]] = 0
        /\ all.offset[q[i]] + PartSize[q[i]] <= all.size /\ PartAlign[q[i]] <= all.align
    BY <1>10 DEF Placed
  <2>2. q[i] \in Layout!Part /\ q[m] \in Layout!Part
    BY <1>3, <1>16
  <2>3. all.align % PartAlign[q[i]] = 0
    BY <1>16, <2>1, <2>2, MetaAssumption
  <2>4. size % PartAlign[q[i]] = 0
    BY <1>17, <1>18, <1>19, <2>2, <2>3, DividesThrough
  <2>5. PICK x \in Nat : x = all.offset[q[i]]
    BY <2>1
  <2>6. PICK y \in Nat : y = PartSize[q[i]]
    BY <1>17, <2>2
  <2>7. x + y <= size
    BY <1>12, <1>19, <2>1, <2>5, <2>6
  <2> QED
    BY <2>1, <2>4, <2>5, <2>6, <2>7
<1>21. \A i, j \in 1..n : i < j => all.offset[q[i]] + PartSize[q[i]] <= all.offset[q[j]]
  BY <1>10 DEF Placed
<1>22. size # 0
  <2>1. PICK x \in Nat : x = all.offset[q[m]]
    BY <1>16, <1>20
  <2>2. PICK y \in Nat \ {0} : y = PartSize[q[m]]
    BY <1>3, <1>16, <1>17
  <2>3. x + y <= size
    BY <1>16, <1>20, <2>1, <2>2
  <2> QED
    BY <1>19, <2>1, <2>2, <2>3
<1>23. ASSUME NEW d \in Registered, NEW e \in Registered, d # e
       PROVE  all.offset[d] + PartSize[d] <= all.offset[e] \/ all.offset[e] + PartSize[e] <= all.offset[d]
  <2>1. PICK i \in 1..n : d = q[i]
    BY <1>3
  <2>2. PICK j \in 1..n : e = q[j]
    BY <1>3
  <2>3. i < j \/ j < i
    BY <1>23, <2>1, <2>2
  <2> QED
    BY <1>21, <2>1, <2>2, <2>3
<1>24. LayoutIs(size, all.offset, Registered)
  <2>1. ASSUME NEW d \in Registered
        PROVE  /\ all.offset[d] \in Nat /\ all.offset[d] % PartAlign[d] = 0
               /\ all.offset[d] + PartSize[d] <= size /\ size % PartAlign[d] = 0
    <3>1. PICK i \in 1..n : d = q[i]
      BY <1>3
    <3> QED
      BY <1>20, <3>1
  <2> QED
    BY <1>19, <1>22, <1>23, <2>1 DEF LayoutIs
<1> QED
  BY <1>12, <1>14, <1>24

\* Where the slab allocator puts objects.
AtPlace(a, size) == a \in Nat /\ a % size = 0 /\ a >= SlabHeader /\ a + size <= ObjectBytes

LEMMA PlacesAre ==
  ASSUME NEW size \in Nat \ {0}, NEW cut, cut = Layout!InitAllocator(size),
         NEW a \in (cut.first)..(cut.end - 1), (a - cut.first) % cut.stride = 0
  PROVE  AtPlace(a, size)
<1>1. PICK first : first = Layout!RoundUp(SlabHeader, size)
  OBVIOUS
<1>2. first \in Nat /\ first >= SlabHeader /\ first % size = 0 /\ SlabHeader \in Nat /\ ObjectBytes \in Nat
  BY <1>1, MetaAssumption, RoundUpIs
<1>3. PICK x : x = ObjectBytes - first - size + 1
  OBVIOUS
<1>4. x \in Int
  BY <1>2, <1>3
<1>5. PICK m : m = x \div size
  OBVIOUS
<1>6. m \in Int /\ m * size <= x
  <2>1. x = size * (x \div size) + (x % size) /\ x \div size \in Int /\ x % size \in Nat
    BY <1>4
  <2>2. x = size * m + (x % size) /\ m \in Int
    BY <1>5, <2>1
  <2>3. size * m = m * size /\ size * m \in Int
    BY <2>2
  <2> QED
    BY <1>4, <2>1, <2>2, <2>3
<1>7. cut.first = first /\ cut.end = first + m * size /\ cut.stride = size
  BY <1>1, <1>3, <1>5 DEF Layout!InitAllocator
<1>8. PICK e \in Int : e = m * size
  BY <1>6
<1>9. a \in Int /\ first <= a /\ a < first + e /\ (a - first) % size = 0
  BY <1>2, <1>7, <1>8
<1>10. PICK y \in Int : y = a - first
  BY <1>2, <1>9
<1>11. y % size = 0 /\ e % size = 0 /\ y < e
  <2>1. y % size = 0 /\ y < e
    BY <1>2, <1>9, <1>10
  <2>2. e = size * m
    BY <1>6, <1>8
  <2> QED
    BY <1>6, <2>1, <2>2, Multiple
<1>12. y + size <= e
  BY <1>8, <1>10, <1>11, MultiplesApart
<1>13. a = first + y /\ e <= x
  BY <1>2, <1>6, <1>8, <1>9, <1>10
<1>14. a + size <= ObjectBytes
  BY <1>2, <1>3, <1>8, <1>10, <1>12, <1>13
<1>15. a % size = 0
  <2>1. first \in Int /\ y \in Int /\ first % size = 0 /\ y % size = 0
    BY <1>2, <1>10, <1>11
  <2>2. (first + y) % size = 0
    BY <2>1, DividesSum
  <2> QED
    BY <1>13, <2>2
<1> QED
  BY <1>2, <1>9, <1>14, <1>15 DEF AtPlace

\* The parts of objects are in the slab, aligned, and apart from each other.
LEMMA PartInSlab ==
  ASSUME NEW size, NEW offs, NEW parts, LayoutIs(size, offs, parts), parts \subseteq Layout!Part,
         NEW a, AtPlace(a, size), NEW d \in parts
  PROVE  /\ a + offs[d] \in Nat /\ (a + offs[d]) % PartAlign[d] = 0
         /\ a + offs[d] >= SlabHeader /\ (a + offs[d]) + PartSize[d] <= ObjectBytes
<1>1. /\ size \in Nat \ {0} /\ offs[d] \in Nat /\ offs[d] % PartAlign[d] = 0
      /\ offs[d] + PartSize[d] <= size /\ size % PartAlign[d] = 0
  BY DEF LayoutIs
<1>2. a \in Nat /\ a % size = 0 /\ a >= SlabHeader /\ a + size <= ObjectBytes
  BY DEF AtPlace
<1>3. PartSize[d] \in Nat /\ PartAlign[d] \in Nat \ {0} /\ SlabHeader \in Nat /\ ObjectBytes \in Nat
  BY MetaAssumption
<1>4. a % PartAlign[d] = 0
  BY <1>1, <1>2, <1>3, DividesThrough
<1>5. (a + offs[d]) % PartAlign[d] = 0
  BY <1>1, <1>2, <1>3, <1>4, DividesSum
<1>6. PICK x \in Nat : x = offs[d]
  BY <1>1
<1>7. PICK y \in Nat : y = PartSize[d]
  BY <1>3
<1>8. x + y <= size
  BY <1>1, <1>6, <1>7
<1>9. a + x \in Nat /\ a + x >= SlabHeader /\ (a + x) + y <= ObjectBytes
  BY <1>1, <1>2, <1>3, <1>8
<1> QED
  BY <1>5, <1>6, <1>7, <1>9

LEMMA ObjectPartsApart ==
  ASSUME NEW size, NEW offs, NEW parts, LayoutIs(size, offs, parts), parts \subseteq Layout!Part,
         NEW a, AtPlace(a, size), NEW b, AtPlace(b, size), NEW d \in parts, NEW e \in parts, a # b \/ d # e
  PROVE  \/ (a + offs[d]) + PartSize[d] <= b + offs[e]
         \/ (b + offs[e]) + PartSize[e] <= a + offs[d]
<1>1. /\ size \in Nat \ {0} /\ offs[d] \in Nat /\ offs[e] \in Nat
      /\ offs[d] + PartSize[d] <= size /\ offs[e] + PartSize[e] <= size
  BY DEF LayoutIs
<1>2. a \in Nat /\ a % size = 0 /\ b \in Nat /\ b % size = 0
  BY DEF AtPlace
<1>3. PartSize[d] \in Nat /\ PartSize[e] \in Nat
  BY MetaAssumption
<1>4. PICK x \in Nat, u \in Nat : x = offs[d] /\ u = PartSize[d]
  BY <1>1, <1>3
<1>5. PICK y \in Nat, v \in Nat : y = offs[e] /\ v = PartSize[e]
  BY <1>1, <1>3
<1>6. x + u <= size /\ y + v <= size
  BY <1>1, <1>4, <1>5
<1>7. CASE a < b
  <2>1. a + size <= b
    <3>1. a \in Int /\ b \in Int /\ size \in Nat \ {0} /\ a % size = 0 /\ b % size = 0
      BY <1>1, <1>2
    <3> QED
      BY <1>7, <3>1, MultiplesApart
  <2>2. (a + x) + u <= b + y
    BY <1>1, <1>2, <1>6, <2>1
  <2> QED
    BY <1>4, <1>5, <2>2
<1>8. CASE b < a
  <2>1. b + size <= a
    <3>1. a \in Int /\ b \in Int /\ size \in Nat \ {0} /\ a % size = 0 /\ b % size = 0
      BY <1>1, <1>2
    <3> QED
      BY <1>8, <3>1, MultiplesApart
  <2>2. (b + y) + v <= a + x
    BY <1>1, <1>2, <1>6, <2>1
  <2> QED
    BY <1>4, <1>5, <2>2
<1>9. CASE a = b
  <2>1. offs[d] + PartSize[d] <= offs[e] \/ offs[e] + PartSize[e] <= offs[d]
    BY <1>9 DEF LayoutIs
  <2>2. x + u <= y \/ y + v <= x
    BY <1>4, <1>5, <2>1
  <2>3. (a + x) + u <= b + y \/ (b + y) + v <= a + x
    BY <1>2, <1>9, <2>2
  <2> QED
    BY <1>4, <1>5, <2>3
<1> QED
  BY <1>2, <1>7, <1>8, <1>9

-----------------------------------------------------------------------------
(* The invariant.                                                          *)

\* A part of an object of this session.
ObjectPart(a, d) == [start |-> starts, at |-> a + part_offset[d], part |-> d]

PartFits(p) ==
  /\ p.start \in Nat /\ p.start <= starts /\ p.part \in Layout!Part /\ p.at \in Nat
  /\ p.at % PartAlign[p.part] = 0 /\ p.at >= SlabHeader /\ p.at + PartSize[p.part] <= ObjectBytes
PartsDisjoint(p, q) ==
  p.at + PartSize[p.part] <= q.at \/ q.at + PartSize[q.part] <= p.at

MetaTypes ==
  /\ step \in {"off", "init", "running", "exit_index", "exit_meta"}
  /\ starts \in Nat /\ wanted \in Seq(ToolPart) /\ part_offset \in [Layout!Part -> Int]

\* Between sessions no description has an id; in one, every description that Granary and the
\* tools want has one.
TableInv ==
  /\ TableIs(IF step = "off" THEN 0 ELSE gNextDescriptionId, part_id, gDescriptions)
  /\ step # "off" => \A i \in 1..Len(Builtin) : part_id[Builtin[i]] # -1
  /\ step \notin {"off", "init"} => \A i \in 1..Len(wanted) : part_id[wanted[i]] # -1

\* Once the layout is final it has every description that has an id.
LayoutInv ==
  /\ gIsFinalized \in BOOLEAN
  /\ gIsFinalized = FALSE => gAlign = 0 /\ gSize = 0
  /\ step = "init" => gIsFinalized = FALSE
  /\ gIsFinalized = TRUE /\ step # "off" =>
       LayoutIs(gSize, part_offset, Registered) /\ gAllocator = Layout!InitAllocator(gSize)

ObjectsInv ==
  /\ step \in {"off", "init"} \/ gIsFinalized = FALSE => DOMAIN objects = {}
  /\ \A a \in DOMAIN objects : /\ objects[a] \in {"factory", "edge", "template", "index"}
                               /\ AtPlace(a, gSize)
  /\ step = "exit_index" => \A a \in DOMAIN objects : objects[a] \in {"template", "index"}
  /\ step = "exit_meta" => \A a \in DOMAIN objects : objects[a] = "template"

\* The parts that exist, of this session the parts of the objects.
FitsInv ==
  /\ \A p \in constructed : PartFits(p)
  /\ \A p, q \in constructed : p # q /\ q.start = p.start => PartsDisjoint(p, q)
SessionInv ==
  step # "off" =>
    /\ \A a \in DOMAIN objects, d \in Registered : ObjectPart(a, d) \in constructed
    /\ \A p \in constructed : p.start = starts => \E a \in DOMAIN objects, d \in Registered : p = ObjectPart(a, d)

MetaDataInv == MetaTypes /\ TableInv /\ LayoutInv /\ ObjectsInv /\ FitsInv /\ SessionInv

LEMMA BuiltinIs == Builtin \in Seq(Layout!Part) /\ Len(Builtin) \in Nat \ {0} /\ ToolPart \subseteq Layout!Part
<1>1. Builtin \in Seq(Layout!ToSet(Builtin)) /\ Builtin # << >>
  BY MetaAssumption DEF ToSet, Layout!ToSet
<1>2. Layout!ToSet(Builtin) \subseteq Layout!Part /\ ToolPart \subseteq Layout!Part
  BY DEF Layout!Part
<1>3. PICK S : S = Layout!ToSet(Builtin)
  OBVIOUS
<1>4. Builtin \in Seq(S) /\ S \subseteq Layout!Part
  BY <1>1, <1>2, <1>3
<1>5. Len(Builtin) \in Nat /\ Builtin \in [1..Len(Builtin) -> S]
  BY <1>4
<1>6. Builtin \in [1..Len(Builtin) -> Layout!Part]
  BY <1>4, <1>5
<1> QED
  BY <1>1, <1>2, <1>4, <1>5, <1>6

LEMMA KnownNotEmpty ==
  ASSUME TableInv, step # "off"
  PROVE  Registered # {} /\ TableIs(gNextDescriptionId, part_id, gDescriptions) /\ Registered \subseteq Layout!Part
<1>1. 1 \in 1..Len(Builtin) /\ Builtin[1] \in Layout!Part
  BY BuiltinIs
<1> QED
  BY <1>1 DEF TableInv, Registered

LEMMA PartsAtIs ==
  ASSUME TableInv, step # "off", NEW a, NEW offs
  PROVE  Layout!PartsAt(a, offs) = {[start |-> starts, at |-> a + offs[d], part |-> d] : d \in Registered}
<1>1. Layout!ToSet(Layout!Described) = Registered
  <2>1. PICK q : q = Layout!Described
    OBVIOUS
  <2>2. q \in Seq(Layout!Part) /\ Len(q) = gNextDescriptionId /\ Registered = {q[i] : i \in 1..gNextDescriptionId}
    BY <2>1, KnownNotEmpty, DescribedIs
  <2>3. DOMAIN q = 1..gNextDescriptionId
    BY <2>2
  <2> QED
    BY <2>1, <2>2, <2>3 DEF Layout!ToSet
<1> QED
  BY <1>1 DEF Layout!PartsAt

LEMMA MetaInit ==
  ASSUME Layout!Init
  PROVE  MetaDataInv
<1>1. MetaTypes
  BY DEF Layout!Init, MetaTypes, Layout!NoOffset
<1>2. TableInv
  <2>1. 0 \in 0..kMaxNumManagedMetaData /\ \A i \in Layout!PartId : ~(i < 0) /\ i >= 0
    BY MetaAssumption, PartIdIs
  <2>2. /\ step = "off" /\ part_id = [d \in Layout!Part |-> -1]
        /\ gDescriptions = [i \in Layout!PartId |-> NoPart]
    BY DEF Layout!Init
  <2>3. TableIs(0, part_id, gDescriptions)
    BY <2>1, <2>2 DEF TableIs
  <2> QED
    BY <2>2, <2>3 DEF TableInv
<1>3. LayoutInv
  BY DEF Layout!Init, LayoutInv
<1>4. DOMAIN objects = {} /\ step = "off" /\ constructed = {}
  BY DEF Layout!Init
<1> QED
  BY <1>1, <1>2, <1>3, <1>4 DEF MetaDataInv, ObjectsInv, FitsInv, SessionInv

\* A new session.
LEMMA InitMetaDataKeeps ==
  ASSUME MetaDataInv, Layout!InitMetaData
  PROVE  MetaDataInv'
<1>1. /\ step = "off" /\ step' = "init" /\ starts' = starts + 1 /\ starts \in Nat
      /\ gIsFinalized' = FALSE /\ gAlign' = 0 /\ gSize' = 0 /\ part_offset' = part_offset
      /\ objects' = objects /\ constructed' = constructed /\ Layout!Register(0, Builtin)
      /\ wanted' \in Layout!BoundedSeq(ToolPart, MaxParts)
  BY DEF Layout!InitMetaData, MetaDataInv, MetaTypes
<1>2. MetaTypes'
  <2>1. \A w \in Layout!BoundedSeq(ToolPart, MaxParts) : w \in Seq(ToolPart)
    BY MetaAssumption DEF Layout!BoundedSeq, Layout!SeqOf
  <2> QED
    BY <1>1, <2>1 DEF MetaDataInv, MetaTypes
<1>3. TableInv'
  <2>1. TableIs(0, part_id, gDescriptions)
    BY <1>1 DEF MetaDataInv, TableInv
  <2>2. /\ TableIs(gNextDescriptionId', part_id', gDescriptions')
        /\ \A i \in 1..Len(Builtin) : part_id'[Builtin[i]] # -1
    BY <1>1, <2>1, BuiltinIs, RegisterIs
  <2> QED
    BY <1>1, <2>2 DEF TableInv
<1>4. LayoutInv'
  BY <1>1 DEF LayoutInv
<1>5. DOMAIN objects' = {}
  BY <1>1 DEF MetaDataInv, ObjectsInv
<1>6. ObjectsInv'
  BY <1>1, <1>5 DEF ObjectsInv
<1>7. \A p \in constructed : p.start # starts' /\ p.start <= starts' /\ PartFits(p)
  BY <1>1 DEF MetaDataInv, FitsInv, PartFits
<1>8. FitsInv'
  <2>1. \A p \in constructed' : PartFits(p)'
    BY <1>1, <1>7 DEF PartFits
  <2> QED
    BY <1>1, <2>1 DEF MetaDataInv, FitsInv, PartsDisjoint
<1>9. SessionInv'
  BY <1>1, <1>5, <1>7 DEF SessionInv
<1> QED
  BY <1>2, <1>3, <1>4, <1>6, <1>8, <1>9 DEF MetaDataInv

\* What the tools register.
LEMMA InitToolsKeeps ==
  ASSUME MetaDataInv, Layout!InitTools
  PROVE  MetaDataInv'
<1>1. /\ step = "init" /\ step' = "running" /\ starts' = starts /\ wanted' = wanted
      /\ gIsFinalized' = gIsFinalized /\ gAlign' = gAlign /\ gSize' = gSize /\ part_offset' = part_offset
      /\ objects' = objects /\ constructed' = constructed /\ gAllocator' = gAllocator
      /\ Layout!Register(gNextDescriptionId, wanted)
  BY DEF Layout!InitTools, Layout!RegisteredIn, Layout!layout
<1>2. MetaTypes'
  BY <1>1 DEF MetaDataInv, MetaTypes
<1>3. TableInv'
  <2>1. TableIs(gNextDescriptionId, part_id, gDescriptions)
    BY <1>1 DEF MetaDataInv, TableInv
  <2>2. wanted \in Seq(Layout!Part)
    <3>1. Len(wanted) \in Nat /\ wanted \in [1..Len(wanted) -> ToolPart]
      BY DEF MetaDataInv, MetaTypes
    <3>2. wanted \in [1..Len(wanted) -> Layout!Part]
      BY <3>1, BuiltinIs
    <3> QED
      BY <3>1, <3>2
  <2>3. /\ TableIs(gNextDescriptionId', part_id', gDescriptions')
        /\ \A d \in Layout!Part : part_id[d] # -1 => part_id'[d] # -1
        /\ \A i \in 1..Len(wanted) : part_id'[wanted[i]] # -1
    BY <1>1, <2>1, <2>2, RegisterIs
  <2>4. \A i \in 1..Len(Builtin) : part_id[Builtin[i]] # -1 /\ Builtin[i] \in Layout!Part
    BY <1>1, BuiltinIs DEF MetaDataInv, TableInv
  <2> QED
    BY <1>1, <2>3, <2>4 DEF TableInv
<1>4. gIsFinalized = FALSE /\ DOMAIN objects = {}
  BY <1>1 DEF MetaDataInv, LayoutInv, ObjectsInv
<1>5. LayoutInv'
  BY <1>1, <1>4 DEF MetaDataInv, LayoutInv
<1>6. ObjectsInv'
  BY <1>1, <1>4 DEF ObjectsInv
<1>7. FitsInv'
  BY <1>1 DEF MetaDataInv, FitsInv, PartsDisjoint, PartFits
<1>8. SessionInv'
  <2>1. \A p \in constructed : p.start # starts
    BY <1>1, <1>4 DEF MetaDataInv, SessionInv
  <2> QED
    BY <1>1, <1>4, <2>1 DEF SessionInv
<1> QED
  BY <1>2, <1>3, <1>5, <1>6, <1>7, <1>8 DEF MetaDataInv

\* A step that changes nothing.
LEMMA MetaStays ==
  ASSUME MetaDataInv, UNCHANGED Layout!metaVars
  PROVE  MetaDataInv'
<1>1. /\ step' = step /\ starts' = starts /\ wanted' = wanted
      /\ gIsFinalized' = gIsFinalized /\ gAlign' = gAlign /\ gSize' = gSize /\ part_offset' = part_offset
      /\ objects' = objects /\ constructed' = constructed /\ gAllocator' = gAllocator
      /\ gNextDescriptionId' = gNextDescriptionId /\ gDescriptions' = gDescriptions /\ part_id' = part_id
  BY DEF Layout!metaVars
<1>2. MetaTypes' /\ TableInv'
  BY <1>1 DEF MetaDataInv, MetaTypes, TableInv
<1>3. Registered' = Registered
  BY <1>1 DEF Registered
<1>4. LayoutInv'
  BY <1>1, <1>3 DEF MetaDataInv, LayoutInv
<1>5. ObjectsInv'
  BY <1>1 DEF MetaDataInv, ObjectsInv
<1>6. FitsInv'
  BY <1>1 DEF MetaDataInv, FitsInv, PartsDisjoint, PartFits
<1>7. SessionInv'
  BY <1>1, <1>3 DEF MetaDataInv, SessionInv, ObjectPart
<1> QED
  BY <1>2, <1>4, <1>5, <1>6, <1>7 DEF MetaDataInv

LEMMA InitThreadKeeps ==
  ASSUME MetaDataInv, Layout!InitThread
  PROVE  MetaDataInv'
<1>1. Layout!Register(gNextDescriptionId, << >>)
  BY DEF Layout!InitThread, Layout!RegisteredIn
<1>2. UNCHANGED Layout!metaVars
  BY <1>1, RegisterNothing DEF Layout!InitThread, Layout!layout, Layout!metaVars
<1> QED
  BY <1>2, MetaStays

\* What the steps that neither start a session nor end one leave alone.
LEMMA TableKept ==
  ASSUME MetaDataInv, UNCHANGED <<starts, wanted, Layout!table>>, step \notin {"off", "init"},
         step' \in {"running", "exit_index", "exit_meta"}, part_offset' \in [Layout!Part -> Int]
  PROVE  MetaTypes' /\ TableInv' /\ Registered' = Registered
<1>1. /\ starts' = starts /\ wanted' = wanted
      /\ gNextDescriptionId' = gNextDescriptionId /\ gDescriptions' = gDescriptions /\ part_id' = part_id
  BY DEF Layout!table
<1>2. MetaTypes' /\ TableInv'
  BY <1>1 DEF MetaDataInv, MetaTypes, TableInv
<1> QED
  BY <1>1, <1>2 DEF Registered

\* The deletion of objects destroys their parts and no others.
LEMMA DeleteKeeps ==
  ASSUME MetaDataInv, UNCHANGED <<starts, wanted, Layout!table, Layout!layout>>, step \notin {"off", "init"},
         step' \in {"running", "exit_index", "exit_meta"},
         NEW S \in SUBSET DOMAIN objects, Layout!Delete(S),
         \A a \in DOMAIN objects \ S :
           /\ step' = "exit_index" => objects[a] \in {"template", "index"}
           /\ step' = "exit_meta" => objects[a] = "template"
  PROVE  MetaDataInv'
<1>1. /\ starts' = starts /\ gIsFinalized' = gIsFinalized /\ gAlign' = gAlign /\ gSize' = gSize
      /\ part_offset' = part_offset /\ gAllocator' = gAllocator
  BY DEF Layout!layout
<1>2. MetaTypes' /\ TableInv' /\ Registered' = Registered
  <2>1. part_offset' \in [Layout!Part -> Int]
    BY <1>1 DEF MetaDataInv, MetaTypes
  <2> QED
    BY <2>1, TableKept
<1>3. /\ DOMAIN objects' = DOMAIN objects \ S
      /\ \A a \in DOMAIN objects' : objects'[a] = objects[a]
      /\ constructed' = constructed \ UNION {Layout!PartsAt(a, part_offset) : a \in S}
  BY DEF Layout!Delete
<1>4. LayoutInv'
  <2>1. step' # "init"
    OBVIOUS
  <2> QED
    BY <1>1, <1>2, <2>1 DEF MetaDataInv, LayoutInv
<1>5. ObjectsInv'
  <2>1. step' \notin {"off", "init"}
    OBVIOUS
  <2>2. gIsFinalized' = FALSE => DOMAIN objects' = {}
    BY <1>1, <1>3 DEF MetaDataInv, ObjectsInv
  <2>3. \A a \in DOMAIN objects' : /\ objects'[a] \in {"factory", "edge", "template", "index"}
                                   /\ AtPlace(a, gSize')
    BY <1>1, <1>3 DEF MetaDataInv, ObjectsInv
  <2> QED
    BY <1>3, <2>1, <2>2, <2>3 DEF ObjectsInv
<1>6. FitsInv'
  BY <1>1, <1>3 DEF MetaDataInv, FitsInv, PartsDisjoint, PartFits
<1>7. \A a : Layout!PartsAt(a, part_offset) = {ObjectPart(a, d) : d \in Registered}
  BY PartsAtIs DEF MetaDataInv, ObjectPart
<1>8. \A a, d : ObjectPart(a, d)' = ObjectPart(a, d)
  BY <1>1 DEF ObjectPart
<1>9. ASSUME NEW a \in DOMAIN objects', NEW d \in Registered' PROVE ObjectPart(a, d)' \in constructed'
  <2>1. a \in DOMAIN objects /\ a \notin S /\ d \in Registered
    BY <1>2, <1>3
  <2>2. ObjectPart(a, d) \in constructed
    BY <2>1 DEF MetaDataInv, SessionInv
  <2>3. ASSUME NEW b \in S, NEW e \in Registered PROVE ObjectPart(a, d) # ObjectPart(b, e)
    <3> SUFFICES ASSUME ObjectPart(a, d) = ObjectPart(b, e) PROVE FALSE
      OBVIOUS
    <3>1. d = e /\ a + part_offset[d] = b + part_offset[d]
      BY DEF ObjectPart
    <3>2. a \in Int /\ b \in Int /\ part_offset[d] \in Int
      <4>1. d \in Layout!Part
        BY <2>1 DEF Registered
      <4> QED
        BY <2>1, <4>1 DEF MetaDataInv, MetaTypes, ObjectsInv, AtPlace
    <3>3. a = b
      <4>1. PICK x \in Int : x = part_offset[d]
        BY <3>2
      <4>2. a + x = b + x
        BY <3>1, <4>1
      <4> QED
        BY <3>2, <4>2
    <3> QED
      BY <2>1, <3>3
  <2>4. ObjectPart(a, d) \notin UNION {Layout!PartsAt(b, part_offset) : b \in S}
    BY <1>7, <2>3
  <2> QED
    BY <1>3, <1>8, <2>2, <2>4
<1>10. ASSUME NEW p \in constructed', p.start = starts'
       PROVE  \E a \in DOMAIN objects', d \in Registered' : p = ObjectPart(a, d)'
  <2>1. p \in constructed /\ p.start = starts
    BY <1>1, <1>3, <1>10
  <2>2. PICK a \in DOMAIN objects, d \in Registered : p = ObjectPart(a, d)
    BY <2>1 DEF MetaDataInv, SessionInv
  <2>3. a \notin S
    <3> SUFFICES ASSUME a \in S PROVE FALSE
      OBVIOUS
    <3>1. p \in Layout!PartsAt(a, part_offset)
      BY <1>7, <2>2
    <3> QED
      BY <1>3, <3>1
  <2> QED
    BY <1>2, <1>3, <1>8, <2>2, <2>3
<1>11. SessionInv'
  BY <1>9, <1>10 DEF SessionInv
<1> QED
  BY <1>2, <1>4, <1>5, <1>6, <1>11 DEF MetaDataInv

LEMMA DeletionsKeep ==
  ASSUME MetaDataInv,
         (\E a \in DOMAIN objects : Layout!DeleteBlockMetaData(a)) \/ Layout!ExitContext \/ Layout!ExitIndex
  PROVE  MetaDataInv'
<1>1. \A a \in DOMAIN objects : objects[a] \in {"factory", "edge", "template", "index"}
  BY DEF MetaDataInv, ObjectsInv
<1>2. ASSUME NEW a \in DOMAIN objects, Layout!DeleteBlockMetaData(a) PROVE MetaDataInv'
  <2>1. /\ UNCHANGED <<starts, wanted, Layout!table, Layout!layout>> /\ step = "running" /\ step' = "running"
        /\ Layout!Delete({a})
    BY <1>2 DEF Layout!DeleteBlockMetaData
  <2> QED
    BY <2>1, DeleteKeeps
<1>3. ASSUME Layout!ExitContext PROVE MetaDataInv'
  <2>1. PICK S : S = Layout!HeldBy("edge")
    OBVIOUS
  <2>2. /\ UNCHANGED <<starts, wanted, Layout!table, Layout!layout>>
        /\ step = "running" /\ step' = "exit_index" /\ Layout!Delete(S)
    BY <1>3, <2>1 DEF Layout!ExitContext
  <2>3. S \in SUBSET DOMAIN objects /\ \A a \in DOMAIN objects \ S : objects[a] \in {"template", "index"}
    BY <1>1, <1>3, <2>1 DEF Layout!ExitContext, Layout!HeldBy
  <2> QED
    BY <2>2, <2>3, DeleteKeeps
<1>4. ASSUME Layout!ExitIndex PROVE MetaDataInv'
  <2>1. PICK S : S = Layout!HeldBy("index")
    OBVIOUS
  <2>2. /\ UNCHANGED <<starts, wanted, Layout!table, Layout!layout>>
        /\ step = "exit_index" /\ step' = "exit_meta" /\ Layout!Delete(S)
    BY <1>4, <2>1 DEF Layout!ExitIndex
  <2>3. \A a \in DOMAIN objects : objects[a] \in {"template", "index"}
    BY <2>2 DEF MetaDataInv, ObjectsInv
  <2>4. S \in SUBSET DOMAIN objects /\ \A a \in DOMAIN objects \ S : objects[a] = "template"
    BY <2>1, <2>3 DEF Layout!HeldBy
  <2> QED
    BY <2>2, <2>4, DeleteKeeps
<1> QED
  BY <1>2, <1>3, <1>4

LEMMA HandKeeps ==
  ASSUME MetaDataInv, NEW a \in DOMAIN objects, NEW holder \in {"edge", "template", "index"}, Layout!Hand(a, holder)
  PROVE  MetaDataInv'
<1>1. /\ starts' = starts /\ gIsFinalized' = gIsFinalized /\ gAlign' = gAlign /\ gSize' = gSize
      /\ part_offset' = part_offset /\ gAllocator' = gAllocator /\ constructed' = constructed
      /\ step = "running" /\ step' = "running" /\ UNCHANGED <<starts, wanted, Layout!table>>
  BY DEF Layout!Hand, Layout!layout
<1>2. MetaTypes' /\ TableInv' /\ Registered' = Registered
  <2>1. part_offset' \in [Layout!Part -> Int]
    BY <1>1 DEF MetaDataInv, MetaTypes
  <2> QED
    BY <1>1, <2>1, TableKept
<1>3. DOMAIN objects' = DOMAIN objects /\ \A b \in DOMAIN objects : objects'[b] \in {objects[b], holder}
  BY DEF Layout!Hand
<1>4. LayoutInv'
  BY <1>1, <1>2 DEF MetaDataInv, LayoutInv
<1>5. ObjectsInv'
  BY <1>1, <1>3 DEF MetaDataInv, ObjectsInv
<1>6. FitsInv'
  BY <1>1 DEF MetaDataInv, FitsInv, PartsDisjoint, PartFits
<1>7. \A b, d : ObjectPart(b, d)' = ObjectPart(b, d)
  BY <1>1 DEF ObjectPart
<1>8. SessionInv'
  BY <1>1, <1>2, <1>3, <1>7 DEF MetaDataInv, SessionInv
<1> QED
  BY <1>2, <1>4, <1>5, <1>6, <1>8 DEF MetaDataInv

\* The end of a session.
LEMMA ExitMetaDataKeeps ==
  ASSUME MetaDataInv, Layout!ExitMetaData
  PROVE  MetaDataInv'
<1>1. /\ step = "exit_meta" /\ step' = "off" /\ starts' = starts /\ wanted' = wanted
      /\ gIsFinalized' = gIsFinalized /\ gAlign' = gAlign /\ gSize' = gSize
      /\ objects' = << >> /\ constructed' = constructed
      /\ gDescriptions' = [i \in Layout!PartId |-> NoPart]
  BY DEF Layout!ExitMetaData
<1>2. PICK R : R = {d \in Layout!Part : \E i \in Layout!PartId : gDescriptions[i] = d}
  OBVIOUS
<1>3. /\ part_id' = [d \in Layout!Part |-> IF d \in R THEN -1 ELSE part_id[d]]
      /\ part_offset' = [d \in Layout!Part |-> IF d \in R THEN -1 ELSE part_offset[d]]
  BY <1>2 DEF Layout!ExitMetaData, Layout!NoOffset
<1>4. MetaTypes'
  BY <1>1, <1>3 DEF MetaDataInv, MetaTypes
<1>5. \A d \in Layout!Part : part_id'[d] = -1
  <2> SUFFICES ASSUME NEW d \in Layout!Part, d \notin R, part_id[d] # -1 PROVE FALSE
    BY <1>3
  <2>1. TableIs(gNextDescriptionId, part_id, gDescriptions)
    BY <1>1 DEF MetaDataInv, TableInv
  <2>2. part_id[d] \in 0..(gNextDescriptionId - 1) /\ gDescriptions[part_id[d]] = d
    BY <2>1 DEF TableIs
  <2>3. part_id[d] \in Layout!PartId
    BY <2>1, <2>2, PartIdIs, MetaAssumption DEF TableIs
  <2> QED
    BY <1>2, <2>2, <2>3
<1>6. TableInv'
  <2>1. 0 \in 0..kMaxNumManagedMetaData /\ \A i \in Layout!PartId : ~(i < 0) /\ i >= 0
    BY MetaAssumption, PartIdIs
  <2>2. part_id' \in [Layout!Part -> Int]
    BY <1>3, <1>5
  <2>3. TableIs(0, part_id', gDescriptions')
    BY <1>1, <1>5, <2>1, <2>2 DEF TableIs
  <2> QED
    BY <1>1, <2>3 DEF TableInv
<1>7. LayoutInv'
  BY <1>1 DEF MetaDataInv, LayoutInv
<1>8. ObjectsInv'
  BY <1>1 DEF ObjectsInv
<1>9. FitsInv'
  BY <1>1 DEF MetaDataInv, FitsInv, PartsDisjoint, PartFits
<1>10. SessionInv'
  BY <1>1 DEF SessionInv
<1> QED
  BY <1>4, <1>6, <1>7, <1>8, <1>9, <1>10 DEF MetaDataInv

\* The layout that a new object has, final before or made final now.
LEMMA LayoutForNewIs ==
  ASSUME MetaDataInv, step = "running", NEW l, l = Layout!LayoutForNew
  PROVE  /\ LayoutIs(l.size, l.offset, Registered) /\ l.offset \in [Layout!Part -> Int]
         /\ l.slab = Layout!InitAllocator(l.size)
         /\ DOMAIN objects # {} => l.size = gSize /\ l.offset = part_offset
<1>1. gIsFinalized \in BOOLEAN /\ part_offset \in [Layout!Part -> Int] /\ TableInv
  BY DEF MetaDataInv, LayoutInv, MetaTypes
<1>2. CASE gIsFinalized = TRUE
  <2>1. l = [size |-> gSize, align |-> gAlign, offset |-> part_offset, slab |-> gAllocator]
    BY <1>2 DEF Layout!LayoutForNew
  <2>2. LayoutIs(gSize, part_offset, Registered) /\ gAllocator = Layout!InitAllocator(gSize)
    BY <1>2 DEF MetaDataInv, LayoutInv
  <2>3. l.size = gSize /\ l.offset = part_offset /\ l.slab = gAllocator
    BY <2>1
  <2> QED
    BY <1>1, <2>2, <2>3
<1>3. CASE gIsFinalized = FALSE
  <2>1. PICK f : f = Layout!Finalize
    OBVIOUS
  <2>2. l = [size |-> f.size, align |-> f.align, offset |-> f.offset, slab |-> Layout!InitAllocator(f.size)]
    BY <1>3, <2>1 DEF Layout!LayoutForNew
  <2>3. gAlign = 0 /\ gSize = 0 /\ DOMAIN objects = {}
    BY <1>3 DEF MetaDataInv, LayoutInv, ObjectsInv
  <2>4. Registered # {} /\ TableIs(gNextDescriptionId, part_id, gDescriptions)
    BY <1>1, KnownNotEmpty
  <2>5. LayoutIs(f.size, f.offset, Registered) /\ f.offset \in [Layout!Part -> Int]
    BY <1>1, <2>1, <2>3, <2>4, FinalizeIs
  <2>6. l.size = f.size /\ l.offset = f.offset /\ l.slab = Layout!InitAllocator(f.size)
    BY <2>2
  <2> QED
    BY <2>3, <2>5, <2>6
<1> QED
  BY <1>1, <1>2, <1>3

LEMMA NewBlockMetaDataKeeps ==
  ASSUME MetaDataInv, Layout!NewBlockMetaData
  PROVE  MetaDataInv'
<1>1. PICK l : l = Layout!LayoutForNew
  OBVIOUS
<1>2. /\ step = "running" /\ step' = "running" /\ starts' = starts
      /\ UNCHANGED <<starts, wanted, Layout!table>>
      /\ gIsFinalized' = TRUE /\ gSize' = l.size /\ part_offset' = l.offset /\ gAllocator' = l.slab
  BY <1>1 DEF Layout!NewBlockMetaData
<1>3. PICK a \in (l.slab.first)..(l.slab.end - 1) :
        /\ (a - l.slab.first) % l.slab.stride = 0 /\ a \notin DOMAIN objects
        /\ objects' = [x \in DOMAIN objects \cup {a} |-> IF x = a THEN "factory" ELSE objects[x]]
        /\ constructed' = constructed \cup Layout!PartsAt(a, l.offset)
  BY <1>1 DEF Layout!NewBlockMetaData
<1>4. /\ LayoutIs(gSize', part_offset', Registered) /\ part_offset' \in [Layout!Part -> Int]
      /\ gAllocator' = Layout!InitAllocator(gSize')
      /\ DOMAIN objects # {} => gSize' = gSize /\ part_offset' = part_offset
  BY <1>1, <1>2, LayoutForNewIs
<1>5. MetaTypes' /\ TableInv' /\ Registered' = Registered
  BY <1>2, <1>4, TableKept
<1>6. LayoutInv'
  BY <1>2, <1>4, <1>5 DEF LayoutInv
<1>7. DOMAIN objects' = DOMAIN objects \cup {a} /\ objects'[a] = "factory" /\ \A b \in DOMAIN objects : objects'[b] = objects[b]
  BY <1>3
<1>8. \A b \in DOMAIN objects' : AtPlace(b, gSize')
  <2>1. AtPlace(a, gSize')
    <3>1. PICK cut : cut = gAllocator'
      OBVIOUS
    <3>2. PICK size : size = gSize'
      OBVIOUS
    <3>3. size \in Nat \ {0} /\ cut = Layout!InitAllocator(size)
      BY <1>4, <3>1, <3>2 DEF LayoutIs
    <3>4. a \in (cut.first)..(cut.end - 1) /\ (a - cut.first) % cut.stride = 0
      BY <1>2, <1>3, <3>1
    <3>5. AtPlace(a, size)
      BY <3>3, <3>4, PlacesAre
    <3> QED
      BY <3>2, <3>5
  <2>2. ASSUME NEW b \in DOMAIN objects PROVE AtPlace(b, gSize')
    BY <1>4, <2>2 DEF MetaDataInv, ObjectsInv
  <2> QED
    BY <1>7, <2>1, <2>2
<1>9. ObjectsInv'
  <2>1. \A b \in DOMAIN objects' : objects'[b] \in {"factory", "edge", "template", "index"}
    BY <1>7 DEF MetaDataInv, ObjectsInv
  <2> QED
    BY <1>2, <1>8, <2>1 DEF ObjectsInv
<1>10. Layout!PartsAt(a, l.offset) = {ObjectPart(a, d)' : d \in Registered}
  BY <1>2, PartsAtIs DEF MetaDataInv, ObjectPart
<1>11. \A b \in DOMAIN objects, d \in Registered : ObjectPart(b, d)' = ObjectPart(b, d)
  BY <1>2, <1>4 DEF ObjectPart
<1>12. \A b \in DOMAIN objects', d \in Registered : ObjectPart(b, d)' \in constructed'
  <2>1. \A b \in DOMAIN objects, d \in Registered : ObjectPart(b, d) \in constructed
    BY <1>2 DEF MetaDataInv, SessionInv
  <2> QED
    BY <1>3, <1>7, <1>10, <1>11, <2>1
<1>13. ASSUME NEW p \in constructed', p.start = starts'
       PROVE  \E b \in DOMAIN objects', d \in Registered : p = ObjectPart(b, d)'
  <2>1. CASE p \in constructed
    <3>1. PICK b \in DOMAIN objects, d \in Registered : p = ObjectPart(b, d)
      BY <1>2, <1>13, <2>1 DEF MetaDataInv, SessionInv
    <3> QED
      BY <1>7, <1>11, <3>1
  <2>2. CASE p \notin constructed
    BY <1>3, <1>7, <1>10, <2>2
  <2> QED
    BY <2>1, <2>2
<1>14. SessionInv'
  BY <1>2, <1>5, <1>12, <1>13 DEF SessionInv
<1>15. Registered \subseteq Layout!Part
  BY DEF Registered
<1>16. ASSUME NEW p \in constructed' PROVE PartFits(p)'
  <2>1. CASE p \in constructed
    BY <1>2, <2>1 DEF MetaDataInv, FitsInv, PartFits
  <2>2. CASE p \notin constructed
    <3>1. PICK d \in Registered : p = ObjectPart(a, d)'
      BY <1>3, <1>10, <2>2
    <3>2. p.start = starts' /\ p.at = a + part_offset'[d] /\ p.part = d
      BY <3>1 DEF ObjectPart
    <3>3. PICK size : size = gSize'
      OBVIOUS
    <3>4. PICK offs : offs = part_offset'
      OBVIOUS
    <3>5. LayoutIs(size, offs, Registered) /\ AtPlace(a, size)
      BY <1>4, <1>7, <1>8, <3>3, <3>4
    <3>6. /\ a + offs[d] \in Nat /\ (a + offs[d]) % PartAlign[d] = 0
          /\ a + offs[d] >= SlabHeader /\ (a + offs[d]) + PartSize[d] <= ObjectBytes
      BY <1>15, <3>5, PartInSlab
    <3>7. starts' \in Nat
      BY <1>5 DEF MetaTypes
    <3> QED
      BY <1>15, <3>2, <3>4, <3>6, <3>7 DEF PartFits
  <2> QED
    BY <2>1, <2>2
<1>17. ASSUME NEW p \in constructed', NEW q \in constructed', p # q, q.start = p.start PROVE PartsDisjoint(p, q)
  <2>1. CASE p \in constructed /\ q \in constructed
    BY <1>17, <2>1 DEF MetaDataInv, FitsInv
  <2>2. CASE p \notin constructed \/ q \notin constructed
    <3>1. p.start = starts' /\ q.start = starts'
      BY <1>3, <1>10, <1>17, <2>2 DEF ObjectPart
    <3>2. PICK b \in DOMAIN objects', d \in Registered : p = ObjectPart(b, d)'
      BY <1>13, <3>1
    <3>3. PICK c \in DOMAIN objects', e \in Registered : q = ObjectPart(c, e)'
      BY <1>13, <3>1
    <3>4. PICK size : size = gSize'
      OBVIOUS
    <3>5. PICK offs : offs = part_offset'
      OBVIOUS
    <3>6. LayoutIs(size, offs, Registered) /\ AtPlace(b, size) /\ AtPlace(c, size)
      BY <1>4, <1>8, <3>4, <3>5
    <3>7. b # c \/ d # e
      BY <1>17, <3>2, <3>3
    <3>8. \/ (b + offs[d]) + PartSize[d] <= c + offs[e]
          \/ (c + offs[e]) + PartSize[e] <= b + offs[d]
      BY <1>15, <3>6, <3>7, ObjectPartsApart
    <3>9. p.at = b + offs[d] /\ p.part = d /\ q.at = c + offs[e] /\ q.part = e
      BY <3>2, <3>3, <3>5 DEF ObjectPart
    <3> QED
      BY <3>8, <3>9 DEF PartsDisjoint
  <2> QED
    BY <2>1, <2>2
<1>18. FitsInv'
  BY <1>16, <1>17 DEF FitsInv, PartsDisjoint
<1> QED
  BY <1>5, <1>6, <1>9, <1>14, <1>18 DEF MetaDataInv

LEMMA MetaNext ==
  ASSUME MetaDataInv, [Layout!Next]_(Layout!metaVars)
  PROVE  MetaDataInv'
<1>1. CASE UNCHANGED Layout!metaVars
  BY <1>1, MetaStays
<1>2. CASE Layout!InitMetaData
  BY <1>2, InitMetaDataKeeps
<1>3. CASE Layout!InitTools
  BY <1>3, InitToolsKeeps
<1>4. CASE Layout!InitThread
  BY <1>4, InitThreadKeeps
<1>5. CASE Layout!NewBlockMetaData
  BY <1>5, NewBlockMetaDataKeeps
<1>6. ASSUME NEW a \in DOMAIN objects, Layout!DeleteBlockMetaData(a) PROVE MetaDataInv'
  BY <1>6, DeletionsKeep
<1>7. ASSUME NEW a \in DOMAIN objects, NEW holder \in {"edge", "template", "index"}, Layout!Hand(a, holder)
      PROVE  MetaDataInv'
  BY <1>7, HandKeeps
<1>8. CASE Layout!ExitContext \/ Layout!ExitIndex
  BY <1>8, DeletionsKeep
<1>9. CASE Layout!ExitMetaData
  BY <1>9, ExitMetaDataKeeps
<1> QED
  BY <1>1, <1>2, <1>3, <1>4, <1>5, <1>6, <1>7, <1>8, <1>9 DEF Layout!Next

LEMMA MetaSound ==
  ASSUME MetaDataInv
  PROVE  PartsInPlace
<1>1. ASSUME NEW a \in DOMAIN objects, NEW d \in Layout!ToSet(Builtin) \cup Layout!ToSet(wanted)
      PROVE  [start |-> starts, at |-> a + part_offset[d], part |-> d] \in constructed
  <2>1. step \notin {"off", "init"}
    BY DEF MetaDataInv, ObjectsInv
  <2>2. d \in Registered
    <3>1. DOMAIN Builtin = 1..Len(Builtin) /\ DOMAIN wanted = 1..Len(wanted)
      BY BuiltinIs DEF MetaDataInv, MetaTypes
    <3>2. Layout!ToSet(Builtin) = {Builtin[i] : i \in 1..Len(Builtin)} /\ Layout!ToSet(wanted) = {wanted[i] : i \in 1..Len(wanted)}
      BY <3>1 DEF Layout!ToSet
    <3>3. \A i \in 1..Len(Builtin) : Builtin[i] \in Layout!Part /\ part_id[Builtin[i]] # -1
      BY <2>1, BuiltinIs DEF MetaDataInv, TableInv
    <3>4. \A i \in 1..Len(wanted) : wanted[i] \in ToolPart
      BY DEF MetaDataInv, MetaTypes
    <3>5. \A i \in 1..Len(wanted) : wanted[i] \in Layout!Part /\ part_id[wanted[i]] # -1
      BY <2>1, <3>4, BuiltinIs DEF MetaDataInv, TableInv
    <3> QED
      BY <3>2, <3>3, <3>5 DEF Registered
  <2>3. ObjectPart(a, d) \in constructed
    BY <2>1, <2>2 DEF MetaDataInv, SessionInv
  <2> QED
    BY <2>3 DEF ObjectPart
<1>2. ASSUME NEW p \in constructed
      PROVE  /\ p.at % PartAlign[p.part] = 0
             /\ p.at >= SlabHeader /\ p.at + PartSize[p.part] <= ObjectBytes
             /\ \A q \in constructed \ {p} :
                  q.start = p.start => \/ p.at + PartSize[p.part] <= q.at
                                       \/ q.at + PartSize[q.part] <= p.at
  <2>1. PartFits(p)
    BY DEF MetaDataInv, FitsInv
  <2>2. \A q \in constructed \ {p} : q.start = p.start => PartsDisjoint(p, q)
    BY DEF MetaDataInv, FitsInv
  <2> QED
    BY <2>1, <2>2 DEF PartFits, PartsDisjoint
<1>3. ASSUME step = "exit_meta", NEW p \in constructed, p.start = starts
      PROVE  \E a \in Layout!HeldBy("template") : p.at = a + part_offset[p.part]
  <2>1. PICK a \in DOMAIN objects, d \in Registered : p = ObjectPart(a, d)
    BY <1>3 DEF MetaDataInv, SessionInv
  <2>2. a \in Layout!HeldBy("template")
    BY <1>3, <2>1 DEF MetaDataInv, ObjectsInv, Layout!HeldBy
  <2>3. p.at = a + part_offset[d] /\ p.part = d
    BY <2>1 DEF ObjectPart
  <2> QED
    BY <2>2, <2>3
<1> QED
  BY <1>1, <1>2, <1>3 DEF PartsInPlace, Layout!PartsInPlace

\* MetaDataCast finds the part of a description at its offset in every session, whatever is
\* registered, in whatever order, and whenever objects come and go: every object holds every
\* registered part, aligned, in its slab and apart from all others, and at exit only the parts
\* of the templates of indirect edges have not been destroyed.
THEOREM PartsInPlaceHolds == Layout!Spec => []PartsInPlace
<1>1. Layout!Init => MetaDataInv
  BY MetaInit
<1>2. MetaDataInv /\ [Layout!Next]_(Layout!metaVars) => MetaDataInv'
  BY MetaNext
<1>3. MetaDataInv => PartsInPlace
  BY MetaSound
<1> QED
  BY <1>1, <1>2, <1>3, PTL DEF Layout!Spec
=============================================================================
