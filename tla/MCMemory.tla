------------------------------ MODULE MCMemory ------------------------------
(***************************************************************************)
(* Runs the code cache, the page allocator, the slab allocator, the code   *)
(* cache index and the meta-data of blocks, one of them at a time: what    *)
(* the first and the third need of the pages they get is what PageHeap     *)
(* says.                                                                   *)
(***************************************************************************)
EXTENDS CodeCache, SequencesExt

CONSTANTS Parts, NumPages, SlotBits, Request, SlabThread, HeapSlab, MaxOffset,
          Meta, StartPC, CanUnifyWith, First, Second, IndexOf, Array,
          Builtin, ToolPart, PartSize, PartAlign, kMaxNumManagedMetaData, SlabHeader, ObjectBytes,
          MaxParts, MaxObjects, MaxStarts, NoPart

VARIABLES part,
          num_allocated_pages, free_pages, owned, want,
          offset, slab_list, free_list, object_memory, pc, address, given_back,
          gIndex, metas, arrays, gSecondLevelLocks, gUnindexedMeta, encoded, used, deleted,
          index_pc, meta, blocks, array, response, indexed,
          starts, step, wanted, gNextDescriptionId, gDescriptions, gAlign, gSize,
          gIsFinalized, part_id, part_offset, gAllocator, objects, constructed

Heap == INSTANCE PageAllocator
Slabs == INSTANCE SlabAllocator
           WITH Thread <- SlabThread, Slab <- HeapSlab, memory <- object_memory

\* A slab holds an object, and is not nullptr.
ASSUME SlabAssumption == /\ MaxOffset \in Nat \ {0}
                         /\ "none" \notin HeapSlab

\* A slot has bits, and nobody asks for no pages.
ASSUME HeapAssumption == /\ NumPages \in Nat
                         /\ SlotBits \in Nat \ {0}
                         /\ Request \subseteq Nat \ {0}

\* Four meta-data objects: a1 and a2 are versions of one block, b of a block that
\* shares their bucket, c of a block that does not.
Metas == {"a1", "a2", "b", "c"}
MetaPC == [m \in Metas |-> CASE m \in {"a1", "a2"} -> 1 [] m = "b" -> 2 [] m = "c" -> 3]

\* c differs from the others in the first level only.
IndexOfOther == [p \in 1..3 |-> IF p = 3 THEN <<2, 1>> ELSE <<1, 1>>]

\* c has the array of the others, but another bucket.
IndexOfSame == [p \in 1..3 |-> IF p = 3 THEN <<1, 2>> ELSE <<1, 1>>]

\* The versions of a can be adapted to one another; b accepts no other meta-data,
\* and all others accept it.
Versions == [m \in Metas |-> [n \in Metas |->
               IF m = n THEN "accept" ELSE IF {m, n} = {"a1", "a2"} THEN "adapt"
               ELSE IF m = "b" THEN "reject" ELSE "accept"]]

Lookup == INSTANCE CodeCacheIndex WITH pc <- index_pc, Null <- NoThread

ASSUME IndexAssumption == Lookup!IndexAssumption

\* Granary's own parts of the meta-data, and those of two tools, as many as there may be.
MCBuiltin == <<"app", "cache", "index">>
MCPartSize == [d \in ToSet(Builtin) \cup ToolPart |-> CASE d = "counter" -> 2 [] d = "wrapper" -> 12 [] OTHER -> 8]
MCPartAlign == [d \in ToSet(Builtin) \cup ToolPart |-> CASE d = "counter" -> 2 [] d = "wrapper" -> 4 [] OTHER -> 8]
Layout == INSTANCE BlockMetaData WITH SlabBytes <- ObjectBytes

\* Sizes and alignments are those of C++ types: of two alignments, the smaller divides
\* the other.
ASSUME MetaAssumption ==
  /\ Builtin \in Seq(ToSet(Builtin)) /\ Builtin # << >> /\ NoPart \notin Layout!Part
  /\ IsFiniteSet(Layout!Part) /\ Cardinality(Layout!Part) <= kMaxNumManagedMetaData
  /\ kMaxNumManagedMetaData \in Nat /\ SlabHeader \in Nat /\ ObjectBytes \in Nat /\ MaxParts \in Nat
  /\ \A d \in Layout!Part :
       /\ PartSize[d] \in Nat \ {0} /\ PartAlign[d] \in Nat \ {0}
       /\ \A e \in Layout!Part : PartAlign[d] <= PartAlign[e] => PartAlign[e] % PartAlign[d] = 0

heapVars == <<num_allocated_pages, free_pages, owned, want>>
slabVars == <<offset, slab_list, free_list, object_memory, pc, address, given_back>>
indexVars == <<gIndex, metas, arrays, gSecondLevelLocks, gUnindexedMeta, encoded, used, deleted,
               index_pc, meta, blocks, array, response, indexed>>
metaVars == <<starts, step, wanted, gNextDescriptionId, gDescriptions, gAlign, gSize,
              gIsFinalized, part_id, part_offset, gAllocator, objects, constructed>>
memoryVars == <<part, vars, heapVars, slabVars, indexVars, metaVars>>

\* The other parts start with one state of the code cache, to be explored once.
FirstSlabs == CHOOSE s \in [Kind -> Slab] : \A k, l \in Kind : s[k] = s[l] => k = l

MemoryInit == /\ part \in Parts
              /\ Init
              /\ Heap!Init
              /\ Slabs!Init
              /\ Lookup!Init
              /\ Layout!Init
              /\ part # "code" => slab = FirstSlabs

MemoryNext ==
  \/ part = "code" /\ Next /\ UNCHANGED <<part, heapVars, slabVars, indexVars, metaVars>>
  \/ part = "pages" /\ Heap!Next /\ UNCHANGED <<part, vars, slabVars, indexVars, metaVars>>
  \/ part = "slabs" /\ Slabs!Next /\ UNCHANGED <<part, vars, heapVars, indexVars, metaVars>>
  \/ part = "index" /\ Lookup!Next /\ UNCHANGED <<part, vars, heapVars, slabVars, metaVars>>
  \/ part = "meta_data" /\ Layout!Next /\ UNCHANGED <<part, vars, heapVars, slabVars, indexVars>>

MemorySpec == MemoryInit /\ [][MemoryNext]_memoryVars
-----------------------------------------------------------------------------
\* Pages are handed out by a scan that is first fit, and none is handed out twice
\* (os/memory.h).
ImplementsPageHeap == Heap!ImplementsPageHeap /\ [](part = "pages" => Heap!ScanIsFirstFit)

\* SlabAllocator hands nothing out twice and loses nothing, and what Allocate
\* asserts of the memory it hands out holds (granary/base/new.cc).
ObjectsConserved == part = "slabs" => Slabs!ObjectsConserved

\* What is indexed can be found (granary/index.cc).
NothingLost == part = "index" => Lookup!NothingLost

\* What is indexed can be found, and what is found is the block that was asked for,
\* with its code in the cache (granary/index.cc, translate.cc).
IndexSound == NothingLost /\ (part = "index" => Lookup!FoundIsEncoded)

\* Every meta-data object has one owner (granary/index.cc).
OwnedOnce == part = "index" => Lookup!OwnedOnce

\* Every part of the meta-data of a block is at its offset (granary/metadata.cc).
PartsInPlace == Layout!PartsInPlace
=============================================================================
