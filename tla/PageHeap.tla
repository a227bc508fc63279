------------------------------ MODULE PageHeap ------------------------------
(***************************************************************************)
(* What the page allocators promise: a block of consecutive pages of the   *)
(* heap that nobody else has, until it is given back.                      *)
(***************************************************************************)
EXTENDS Naturals

CONSTANTS
  NumPages,         \* Pages in the heap.
  Request           \* The numbers of pages that callers ask for.

VARIABLE owned      \* Blocks that have been handed out and not freed.

\* The pages of a block.
Pages(b) == b.start .. (b.start + b.num - 1)

Block == [start : 0..(NumPages - 1), num : Request]

Init == owned = {}

Allocate == \E b \in Block :
              /\ b.start + b.num <= NumPages
              /\ \A o \in owned : Pages(o) \cap Pages(b) = {}
              /\ owned' = owned \cup {b}

Free == \E b \in owned : owned' = owned \ {b}

\* The heap is thrown away as a whole.
Reset == owned' = {}

Next == Allocate \/ Free \/ Reset

Spec == Init /\ [][Next]_owned
=============================================================================
