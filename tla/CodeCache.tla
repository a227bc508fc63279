------------------------------ MODULE CodeCache ------------------------------
(***************************************************************************)
(* The code caches of granary/cache.{h,cc}.  Each kind of cache has a list *)
(* of slabs and an offset into the newest one; AllocateCode runs under the *)
(* cache's spin lock and is one step.  Code is written later, in a         *)
(* CodeCacheTransaction, so threads allocate while another one writes.     *)
(***************************************************************************)
EXTENDS Naturals

CONSTANTS
  Thread,           \* The threads that generate code.
  Kind,             \* CodeCacheKind.
  Slab,             \* What os::AllocateCodePages can return (PageHeap).
  SlabBytes,        \* slab_num_bytes.
  CodeAlign,        \* arch::CODE_ALIGN_BYTES.
  CodeSize,         \* Sizes of the code that gets generated.
  NoSlab,           \* nullptr.
  NoThread          \* The code cache lock is free.

\* No piece of code fills a slab: the assertion of AllocateCode.
ASSUME CodeCacheAssumption ==
  /\ SlabBytes \in Nat
  /\ CodeAlign \in Nat \ {0}
  /\ CodeSize \subseteq 1..(SlabBytes - 1)
  /\ NoSlab \notin Slab
  /\ NoThread \notin Thread

VARIABLES
  slab,             \* The head of each cache's slab_list.
  slab_byte_offset, \* CodeCache::slab_byte_offset.
  slabs,            \* Every slab on some cache's slab_list.
  region,           \* The code each thread has allocated and not yet written.
  written,          \* The code that has been written.
  memory,           \* Which code each byte of each slab belongs to.
  transaction       \* The thread that has gCodeCacheLock.

vars == <<slab, slab_byte_offset, slabs, region, written, memory, transaction>>

\* A piece of code, and its bytes.
Region == [slab : Slab, start : Nat, size : CodeSize]
NoRegion == [slab |-> NoSlab, start |-> 0, size |-> 0]
Bytes(r) == r.start .. (r.start + r.size - 1)

\* GRANARY_ALIGN_TO(x, arch::CODE_ALIGN_BYTES).
AlignTo(x) == x + (IF x % CodeAlign = 0 THEN 0 ELSE CodeAlign - (x % CodeAlign))
-----------------------------------------------------------------------------
\* InitCodeCache: the constructor of each cache allocates its first slab.
Init == /\ slab \in [Kind -> Slab]
        /\ \A k, l \in Kind : slab[k] = slab[l] => k = l
        /\ slab_byte_offset = [k \in Kind |-> 0]
        /\ slabs = {slab[k] : k \in Kind}
        /\ region = [t \in Thread |-> NoRegion]
        /\ written = {}
        /\ memory = [s \in Slab |-> [b \in 0..(SlabBytes - 1) |-> NoRegion]]
        /\ transaction = NoThread

\* Mutant: the offset grows by the size only, without the padding.
AllocateInSlabNoPadding(t, k, size) ==
  LET aligned_offset == AlignTo(slab_byte_offset[k]) IN
  /\ aligned_offset + size < SlabBytes
  /\ region' = [region EXCEPT ![t] = [slab |-> slab[k], start |-> aligned_offset,
                                      size |-> size]]
  /\ slab_byte_offset' = [slab_byte_offset EXCEPT ![k] = @ + size]
  /\ UNCHANGED <<slab, slabs>>

\* The code goes to the current slab, from aligned_offset on.
AllocateInSlab(t, k, size) ==
  LET aligned_offset == AlignTo(slab_byte_offset[k]) IN
  /\ aligned_offset + size < SlabBytes
  /\ region' = [region EXCEPT ![t] = [slab |-> slab[k], start |-> aligned_offset,
                                      size |-> size]]
  /\ slab_byte_offset' = [slab_byte_offset EXCEPT ![k] = aligned_offset + size]
  /\ UNCHANGED <<slab, slabs>>

\* The code does not fit: it is the first of a new slab.
AllocateInNewSlab(t, k, size) ==
  /\ AlignTo(slab_byte_offset[k]) + size >= SlabBytes
  /\ \E s \in Slab \ slabs :
       /\ slab' = [slab EXCEPT ![k] = s]
       /\ slabs' = slabs \cup {s}
       /\ region' = [region EXCEPT ![t] = [slab |-> s, start |-> 0, size |-> size]]
  /\ slab_byte_offset' = [slab_byte_offset EXCEPT ![k] = size]

\* CodeCache::AllocateCode, under slab_list_lock.
AllocateCode(t, k, size) ==
  /\ region[t] = NoRegion
  /\ slab[k] # NoSlab
  /\ AllocateInSlab(t, k, size) \/ AllocateInNewSlab(t, k, size)
  /\ UNCHANGED <<written, memory, transaction>>

\* CodeCacheTransaction(): gCodeCacheLock.Acquire().
BeginTransaction(t) == /\ region[t] # NoRegion
                       /\ transaction = NoThread
                       /\ transaction' = t
                       /\ UNCHANGED <<slab, slab_byte_offset, slabs, region,
                                      written, memory>>

\* The generator fills its code, and ~CodeCacheTransaction() releases the lock.
EndTransaction(t) ==
  LET r == region[t] IN
  /\ transaction = t
  /\ memory' = [memory EXCEPT ![r.slab] =
                  [b \in DOMAIN @ |-> IF b \in Bytes(r) THEN r ELSE @[b]]]
  /\ written' = written \cup {r}
  /\ region' = [region EXCEPT ![t] = NoRegion]
  /\ transaction' = NoThread
  /\ UNCHANGED <<slab, slab_byte_offset, slabs>>

\* ExitCodeCache, when nobody generates code: the lists go, the code stays.
ExitCodeCache == /\ \A t \in Thread : region[t] = NoRegion
                 /\ slab' = [k \in Kind |-> NoSlab]
                 /\ slab_byte_offset' = [k \in Kind |-> 0]
                 /\ UNCHANGED <<slabs, region, written, memory, transaction>>

Next == \/ \E t \in Thread :
             \/ \E k \in Kind, size \in CodeSize : AllocateCode(t, k, size)
             \/ BeginTransaction(t)
             \/ EndTransaction(t)
        \/ ExitCodeCache

Spec == Init /\ [][Next]_vars
-----------------------------------------------------------------------------
(* Properties.                                                             *)

TypeOK == /\ slab \in [Kind -> Slab \cup {NoSlab}]
          /\ slab_byte_offset \in [Kind -> Nat]
          /\ slabs \subseteq Slab
          /\ region \in [Thread -> Region \cup {NoRegion}]
          /\ written \subseteq Region
          /\ memory \in [Slab -> [0..(SlabBytes - 1) -> Region \cup {NoRegion}]]
          /\ transaction \in Thread \cup {NoThread}

\* All code there is, written or not.
AllCode == written \cup ({region[t] : t \in Thread} \ {NoRegion})

Disjoint(q, r) == q.slab # r.slab \/ Bytes(q) \cap Bytes(r) = {}

\* No two pieces of code overlap, whoever allocated them and from whichever
\* cache, and each lies within a slab.
CodeDisjoint ==
  /\ \A q, r \in AllCode : q # r => Disjoint(q, r)
  /\ \A s, t \in Thread : s # t => region[s] # region[t] \/ region[s] = NoRegion
  /\ \A t \in Thread : region[t] \notin written
  /\ \A r \in AllCode : r.start + r.size < SlabBytes

\* Why: code in a current slab lies below the offset, every other slab with
\* code is on a list, no two caches have the same current slab, and whoever
\* has the lock has code to write.
OffsetInv ==
  /\ \A r \in AllCode : r.slab \in slabs
  /\ \A k \in Kind : slab[k] # NoSlab =>
       /\ slab[k] \in slabs
       /\ \A r \in AllCode : r.slab = slab[k] =>
            r.start + r.size <= slab_byte_offset[k]
  /\ \A k, l \in Kind : slab[k] = slab[l] /\ slab[k] # NoSlab => k = l
  /\ transaction # NoThread => region[transaction] # NoRegion

\* Code that has been written is never overwritten.
CodeIntact == \A r \in written : \A b \in Bytes(r) : memory[r.slab][b] = r
=============================================================================
