---------------------------- MODULE PageAllocator ----------------------------
(***************************************************************************)
(* PageAllocator of os/memory.h, which backs both the heap and the code    *)
(* cache: a counter that hands out fresh pages without a lock and, once it *)
(* has run past the end, a first-fit search of the freed pages under a     *)
(* spin lock.  A page is its index in the heap.                            *)
(***************************************************************************)
EXTENDS Naturals, FiniteSets, FiniteSetsExt

CONSTANTS
  Thread,           \* The threads that allocate and free pages.
  NumPages,         \* kNumPagesInHeap.
  SlotBits,         \* kNumBitsPerFreeSetSlot: 64 in the code.
  Request           \* The numbers of pages that callers ask for.

VARIABLES
  num_allocated_pages,  \* The counter.  From NumPages on all its values act
                        \* alike, so it stops there.
  free_pages,       \* The set bits of PageAllocator::free_pages.
  owned,            \* Blocks that callers have: [start, num].
  want              \* num of each thread between the counter and the slow
                    \* path; 0 for a thread that is in neither.

vars == <<num_allocated_pages, free_pages, owned, want>>

Page == 0..(NumPages - 1)
Slot == 0..(NumPages \div SlotBits)
Pages(b) == b.start .. (b.start + b.num - 1)
OwnedPages == UNION {Pages(b) : b \in owned}

\* Bit of slot i.
IsFree(i, bit) == SlotBits * i + bit \in free_pages

\* One bit of the scan of slot i for num set bits in a row: first_set_bit, and
\* whether the scan has ended in `goto allocate`.
ScanBit(i, num, before, bit) ==
  CASE before.found -> before
    [] ~before.found /\ IsFree(i, bit) ->
         [before EXCEPT !.first = IF bit < @ THEN bit ELSE @]
    [] ~before.found /\ ~IsFree(i, bit) /\ before.first < bit ->
         IF num <= bit - before.first THEN [before EXCEPT !.found = TRUE]
                                      ELSE [before EXCEPT !.first = SlotBits]
    [] OTHER -> before

\* The scan: scan[b] is what it knows after bits 0..b-1.
ScanSlot(i, num) ==
  LET scan[b \in 0..SlotBits] ==
        IF b = 0 THEN [first |-> SlotBits, found |-> FALSE]
                 ELSE ScanBit(i, num, scan[b - 1], b - 1)
  IN scan[SlotBits]

\* The slot has a run of num pages: either the scan found one, or one reaches
\* the end of the slot.
Fits(i, num) == LET scan == ScanSlot(i, num)
                IN scan.found \/ num <= SlotBits - scan.first

\* The first slot that fits, as a set with at most one start page.
FirstFit(num) ==
  LET fits == {i \in Slot : Fits(i, num)}
  IN IF fits = {} THEN {}
     ELSE {SlotBits * Min(fits) + ScanSlot(Min(fits), num).first}
-----------------------------------------------------------------------------
Init == /\ num_allocated_pages = 0
        /\ free_pages = {}
        /\ owned = {}
        /\ want = [t \in Thread |-> 0]

\* Mutant: the end of the heap is compared with the first page only.
BumpPastEnd(t, num) ==
  LET index == num_allocated_pages IN
  /\ want[t] = 0
  /\ num_allocated_pages' = Min({index + num, NumPages})
  /\ \/ /\ NumPages > index
        /\ owned' = owned \cup {[start |-> index, num |-> num]}
        /\ UNCHANGED want
     \/ /\ NumPages <= index
        /\ want' = [want EXCEPT ![t] = num]
        /\ UNCHANGED owned
  /\ UNCHANGED free_pages

\* AllocatePages: fetch_add, and fresh pages if the heap has them.
Bump(t, num) ==
  LET index == num_allocated_pages IN
  /\ want[t] = 0
  /\ num_allocated_pages' = Min({index + num, NumPages})
  /\ \/ /\ NumPages > index + num
        /\ owned' = owned \cup {[start |-> index, num |-> num]}
        /\ UNCHANGED want
     \/ /\ NumPages <= index + num
        /\ want' = [want EXCEPT ![t] = num]
        /\ UNCHANGED owned
  /\ UNCHANGED free_pages

\* AllocatePagesSlow, under free_pages_lock.  Without a fit the caller gets
\* nullptr (a debug build stops).
AllocatePagesSlow(t) ==
  LET num == want[t]
      taken == {[start |-> p, num |-> num] : p \in FirstFit(num)}
  IN /\ num # 0
     /\ want' = [want EXCEPT ![t] = 0]
     /\ owned' = owned \cup taken
     /\ free_pages' = free_pages \ UNION {Pages(b) : b \in taken}
     /\ UNCHANGED num_allocated_pages

\* FreePages, under free_pages_lock: FreePage for every page of the block.
FreePages(b) ==
  /\ owned' = owned \ {b}
  /\ free_pages' = free_pages \cup
       {SlotBits * (p \div SlotBits) + (p % SlotBits) : p \in Pages(b)}
  /\ UNCHANGED <<num_allocated_pages, want>>

\* ExitHeap clears the allocator and constructs it again, when no thread is
\* inside Granary any more; whatever was allocated is gone.
ExitHeap == /\ \A t \in Thread : want[t] = 0
            /\ num_allocated_pages' = 0
            /\ free_pages' = {}
            /\ owned' = {}
            /\ UNCHANGED want

Next == \/ \E t \in Thread : \/ \E num \in Request : Bump(t, num)
                             \/ AllocatePagesSlow(t)
        \/ \E b \in owned : FreePages(b)
        \/ ExitHeap

Spec == Init /\ [][Next]_vars
-----------------------------------------------------------------------------
(* Properties.                                                             *)

TypeOK == /\ num_allocated_pages \in 0..NumPages
          /\ free_pages \subseteq Page
          /\ owned \subseteq [start : Page, num : Request]
          /\ want \in [Thread -> Request \cup {0}]

\* A page is handed out once: blocks do not overlap, no owned page is marked
\* free, and no page the counter has yet to reach is owned or free.
PagesOnce ==
  /\ \A a, b \in owned : a # b => Pages(a) \cap Pages(b) = {}
  /\ OwnedPages \cap free_pages = {}
  /\ \A p \in OwnedPages \cup free_pages : p < num_allocated_pages

Abstract == INSTANCE PageHeap

\* Every caller gets a block of the heap that is its own, although fresh pages
\* are handed out without the lock.
ImplementsPageHeap == Abstract!Spec

\* The starts of the runs of num free pages that lie within one slot.
RunStarts(num) ==
  {p \in Page : /\ p \div SlotBits = (p + num - 1) \div SlotBits
                /\ p .. (p + num - 1) \subseteq free_pages}

\* The bit-by-bit scan is first fit: it finds the lowest run within one slot,
\* and fails only if there is none.
ScanIsFirstFit ==
  \A num \in Request :
     FirstFit(num) = IF RunStarts(num) = {} THEN {} ELSE {Min(RunStarts(num))}
=============================================================================
