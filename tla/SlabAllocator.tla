---------------------------- MODULE SlabAllocator ----------------------------
(***************************************************************************)
(* SlabAllocator of granary/base/new.{h,cc}, which serves operator new of  *)
(* one type: freed objects first, then the next object of the newest slab, *)
(* then a new slab.  The free list and the slab list have a lock each; the *)
(* poisoning of memory happens outside of both.  A slab is the number of   *)
(* the page block that os::AllocateDataPages returned (module PageHeap:    *)
(* nobody else has it); an object is its slab and its offset, counted in   *)
(* units of allocation_size.                                               *)
(***************************************************************************)
EXTENDS Naturals, Sequences, FiniteSets, SequencesExt

CONSTANTS
  Thread,           \* The threads that allocate and free.
  Slab,             \* The page blocks that the allocator may get.
  MaxOffset         \* Objects per slab: the offsets go from 0 to MaxOffset - 1.

VARIABLES
  offset,           \* SlabAllocator::offset.
  slab_list,        \* SlabAllocator::slab_list, newest slab first.
  free_list,        \* SlabAllocator::free_list, head first.
  memory,           \* What the bytes of each object are.
  pc,               \* Where each thread is in Allocate or Free.
  address,          \* The object each thread has in hand there.
  given_back        \* The slabs the destructor passed to os::FreeDataPages.

vars == <<offset, slab_list, free_list, memory, pc, address, given_back>>

Object == [slab : Slab, offset : 0..(MaxOffset - 1)]
NoObject == [slab |-> "none", offset |-> 0]

\* MemoryNotInUse looks for the two poisons; a freed object that is linked
\* into the free list has a pointer in its first word; "used" is anything that
\* a constructor or kUninitializedMemoryPoison leaves there.
Content == {"unallocated", "deallocated", "linked", "used"}

InUse == {o \in Object : memory[o] = "used"} \ {address[t] : t \in Thread}

Goto(t, from, to) == /\ pc[t] = from
                     /\ pc' = [pc EXCEPT ![t] = to]
-----------------------------------------------------------------------------
\* offset starts at max_offset, so that the first Allocate gets a slab.
Init == /\ offset = MaxOffset
        /\ slab_list = <<>>
        /\ free_list = <<>>
        /\ memory = [o \in Object |-> "unallocated"]
        /\ pc = [t \in Thread |-> "idle"]
        /\ address = [t \in Thread |-> NoObject]
        /\ given_back = <<>>

\* AllocateFromFreeList, under free_list_lock.
AllocateFromFreeList(t) ==
  \/ /\ free_list = <<>>
     /\ Goto(t, "idle", "slab")
     /\ UNCHANGED <<free_list, address>>
  \/ /\ free_list # <<>>
     /\ Goto(t, "idle", "unlink")
     /\ address' = [address EXCEPT ![t] = Head(free_list)]
     /\ free_list' = Tail(free_list)

\* AllocateFromFreeList, after the lock: the link is poisoned again.
Unlink(t) == /\ Goto(t, "unlink", "take")
             /\ memory' = [memory EXCEPT ![address[t]] = "deallocated"]

\* Does SlabForAllocation need a new slab?
SlabForAllocation == offset >= MaxOffset

\* Allocate, under slab_list_lock: SlabForAllocation and the next object.
AllocateFromSlab(t) ==
  /\ Goto(t, "slab", "take")
  /\ \/ /\ SlabForAllocation
        /\ \E s \in Slab \ ToSet(slab_list) :
             /\ slab_list' = <<s>> \o slab_list
             /\ address' = [address EXCEPT ![t] = [slab |-> s, offset |-> 0]]
             /\ memory' = [o \in Object |-> IF o.slab = s THEN "unallocated"
                                                          ELSE memory[o]]
        /\ offset' = 1
     \/ /\ ~SlabForAllocation
        /\ address' = [address EXCEPT
                         ![t] = [slab |-> Head(slab_list), offset |-> offset]]
        /\ offset' = offset + 1
        /\ UNCHANGED <<slab_list, memory>>

\* Allocate, after the locks: the assertion, the poison, and the return.
Take(t) == /\ Goto(t, "take", "idle")
           /\ memory' = [memory EXCEPT ![address[t]] = "used"]
           /\ address' = [address EXCEPT ![t] = NoObject]

\* Free, before the lock.
Poison(t) == /\ Goto(t, "idle", "link")
             /\ \E o \in InUse :
                  /\ address' = [address EXCEPT ![t] = o]
                  /\ memory' = [memory EXCEPT ![o] = "deallocated"]

\* Mutant: the new head forgets the rest of the list.
LinkAlone(t) == /\ Goto(t, "link", "idle")
                /\ memory' = [memory EXCEPT ![address[t]] = "linked"]
                /\ free_list' = <<address[t]>>
                /\ address' = [address EXCEPT ![t] = NoObject]

\* Free, under free_list_lock.
Link(t) == /\ Goto(t, "link", "idle")
           /\ memory' = [memory EXCEPT ![address[t]] = "linked"]
           /\ free_list' = <<address[t]>> \o free_list
           /\ address' = [address EXCEPT ![t] = NoObject]

Allocate(t) == \/ /\ AllocateFromFreeList(t)
                  /\ UNCHANGED <<offset, slab_list, memory>>
               \/ /\ Unlink(t)
                  /\ UNCHANGED <<offset, slab_list, free_list, address>>
               \/ /\ AllocateFromSlab(t)
                  /\ UNCHANGED free_list
               \/ /\ Take(t)
                  /\ UNCHANGED <<offset, slab_list, free_list>>

Free(t) == \/ /\ Poison(t)
              /\ UNCHANGED <<offset, slab_list, free_list>>
           \/ /\ Link(t)
              /\ UNCHANGED <<offset, slab_list>>

\* ~SlabAllocator, when nobody uses the allocator any more: the loop visits
\* every slab, and passes the head of the list to FreeDataPages each time.
Destroy == /\ \A t \in Thread : pc[t] = "idle"
           /\ slab_list # <<>>
           /\ given_back' = [i \in 1..Len(slab_list) |-> Head(slab_list)]
           /\ slab_list' = <<>>
           /\ free_list' = <<>>
           /\ UNCHANGED <<offset, memory, pc, address>>

Next == \/ /\ given_back = <<>>
           /\ \E t \in Thread : Allocate(t) \/ Free(t)
           /\ UNCHANGED given_back
        \/ Destroy

Spec == Init /\ [][Next]_vars
-----------------------------------------------------------------------------
(* Properties.                                                             *)

TypeOK ==
  /\ offset \in 1..MaxOffset
  /\ slab_list \in Seq(Slab)
  /\ free_list \in Seq(Object)
  /\ memory \in [Object -> Content]
  /\ pc \in [Thread -> {"idle", "slab", "unlink", "take", "link"}]
  /\ address \in [Thread -> Object \cup {NoObject}]
  /\ given_back \in Seq(Slab)

\* The objects that have been carved out of a slab so far.
Carved == {o \in Object : \E i \in 1..Len(slab_list) :
             /\ o.slab = slab_list[i]
             /\ i = 1 => o.offset < offset}

InHand == {address[t] : t \in Thread} \ {NoObject}

\* What the threads have in hand, what its bytes are, and what the slabs have left:
\* objects that have never been handed out.
SlabInv ==
  /\ IsInjective(slab_list)
  /\ given_back = <<>> /\ slab_list = <<>> => offset = MaxOffset
  /\ given_back # <<>> => /\ slab_list = <<>> /\ free_list = <<>>
                          /\ \A t \in Thread : pc[t] = "idle"
  /\ \A t \in Thread : /\ address[t] = NoObject <=> pc[t] \in {"idle", "slab"}
                       /\ pc[t] = "unlink" => memory[address[t]] = "linked"
                       /\ pc[t] = "link" => memory[address[t]] = "deallocated"
  /\ \A o \in Object \ Carved : o.slab \in ToSet(slab_list) => memory[o] = "unallocated"

\* Every carved object is in exactly one place: on the free list (once), in the
\* hands of exactly one thread, or in use.  Nothing is handed out twice, and
\* nothing is lost.  So the assertion of Allocate holds: memory that is handed out
\* is not in use, although it is poisoned outside the locks.
ObjectsConserved ==
  /\ IsInjective(free_list)
  /\ \A s, t \in Thread : address[s] = address[t] => s = t \/ address[t] = NoObject
  /\ InHand \cap ToSet(free_list) = {}
  /\ \A o \in Carved : \/ o \in ToSet(free_list) \cup InHand
                       \/ memory[o] = "used"
  /\ \A o \in ToSet(free_list) : memory[o] = "linked"
  /\ given_back = <<>> =>
       InUse \cup InHand \cup ToSet(free_list) \subseteq Carved
  /\ \A t \in Thread : pc[t] = "take" => memory[address[t]] \in {"unallocated", "deallocated"}
=============================================================================
