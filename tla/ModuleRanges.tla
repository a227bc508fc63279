---------------------------- MODULE ModuleRanges ----------------------------
(***************************************************************************)
(* The modules of os/module.{h,cc} and their address ranges: where the     *)
(* code at a program counter comes from.  A module's ranges are a list     *)
(* that AddRange and RemoveRange edit in place, through the list zipper of *)
(* granary/base/list.h, under the module's writer lock; each operation is  *)
(* one step.  Paths and permissions are left out.                          *)
(***************************************************************************)
EXTENDS Naturals, Sequences, SequencesExt

CONSTANTS
  Module,           \* Modules that /proc/self/maps may name.
  MaxAddr,          \* Addresses are 0..MaxAddr: a bound of the model.
  Offset,           \* Offsets of mappings into the module's file.
  None              \* No offset: the address is not part of the module.

Addr == 0..MaxAddr

VARIABLES
  modules,          \* ModuleManager::modules, newest first.
  ranges,           \* Module::ranges.
  mapped            \* History: what the last operation on each address said.

vars == <<modules, ranges, mapped>>

\* The first index of seq that P holds for, or the one behind its end.
FirstIndex(seq, P(_)) ==
  CHOOSE i \in 1..(Len(seq) + 1) :
    /\ i <= Len(seq) => P(seq[i])
    /\ \A j \in 1..(i - 1) : ~P(seq[j])
-----------------------------------------------------------------------------
\* FindRange: the range that has addr, in a list that is sorted.
FindRange(list, addr) ==
  LET i == FirstIndex(list, LAMBDA r : addr < r.end)
  IN  IF i <= Len(list) /\ list[i].begin <= addr THEN <<list[i]>> ELSE << >>

\* OffsetOfPC.
OffsetOfPC(list, addr) ==
  LET found == FindRange(list, addr)
  IN  IF found = << >> THEN None ELSE found[1].offset + (addr - found[1].begin)

\* Mutant: the right part keeps the offset of the whole.
RestSameOffset(r, begin, end) ==
  (IF r.begin < begin THEN <<[r EXCEPT !.end = begin]>> ELSE << >>)
  \o (IF end < r.end THEN <<[r EXCEPT !.begin = end]>> ELSE << >>)

\* What is left of a range that overlaps with begin..end-1.
Rest(r, begin, end) ==
  (IF r.begin < begin THEN <<[r EXCEPT !.end = begin]>> ELSE << >>)
  \o (IF end < r.end
      THEN <<[r EXCEPT !.begin = end, !.offset = @ + (end - r.begin)]>> ELSE << >>)

\* RemoveRangeConflicts.  When a range is split, InsertAfter makes its right
\* part the end of the list: `curr->next = next', and the new range has no
\* successor.
RemoveRangeConflicts(list, begin, end) ==
  LET Overlaps(r) == r.begin < end /\ r.end > begin
      stop == FirstIndex(list, LAMBDA r : ~Overlaps(r) /\ end < r.begin)
      split == FirstIndex(list, LAMBDA r : r.begin < begin /\ end < r.end)
      last == IF split < stop THEN split ELSE Len(list)
      Left(i) == IF i < stop /\ Overlaps(list[i]) THEN Rest(list[i], begin, end) ELSE <<list[i]>>
      kept[i \in 0..last] == IF i = 0 THEN << >> ELSE kept[i - 1] \o Left(i)
  IN  kept[last]

\* AddRangeNoConflict.
AddRangeNoConflict(list, r) ==
  InsertAt(list, FirstIndex(list, LAMBDA c : r.begin < c.begin), r)
-----------------------------------------------------------------------------
Init == /\ modules = << >>
        /\ ranges = [m \in Module |-> << >>]
        /\ mapped = [m \in Module |-> [a \in Addr |-> None]]

\* A line of /proc/self/maps (ParseMapsFile): find or register the module by
\* its path, and AddRange.
AddRange(m, begin, end, offset) ==
  LET r == [begin |-> begin, end |-> end, offset |-> offset] IN
  /\ begin < end
  /\ modules' = IF m \in ToSet(modules) THEN modules ELSE <<m>> \o modules
  /\ ranges' = [ranges EXCEPT ![m] =
       AddRangeNoConflict(RemoveRangeConflicts(@, begin, end), r)]
  /\ mapped' = [mapped EXCEPT ![m] =
       [a \in Addr |-> IF a \in begin..(end - 1) THEN offset + (a - begin) ELSE @[a]]]

\* ModuleManager::RemoveRange, from every module.
RemoveRange(begin, end) ==
  /\ begin < end
  /\ ranges' = [m \in Module |->
       IF m \in ToSet(modules) THEN RemoveRangeConflicts(ranges[m], begin, end)
       ELSE ranges[m]]
  /\ mapped' = [m \in Module |-> [a \in Addr |->
       IF a \in begin..(end - 1) THEN None ELSE mapped[m][a]]]
  /\ UNCHANGED modules

\* Module::RemoveRanges.
RemoveRanges(m) ==
  /\ ranges' = [ranges EXCEPT ![m] = << >>]
  /\ mapped' = [mapped EXCEPT ![m] = [a \in Addr |-> None]]
  /\ UNCHANGED modules

Next == \/ \E begin, end \in 0..(MaxAddr + 1) :
             \/ \E m \in Module, offset \in Offset : AddRange(m, begin, end, offset)
             \/ RemoveRange(begin, end)
        \/ \E m \in Module : RemoveRanges(m)

Spec == Init /\ [][Next]_vars
-----------------------------------------------------------------------------
(* Properties.                                                             *)

TypeOK == /\ modules \in Seq(Module)
          /\ \A m \in Module : \A i \in DOMAIN ranges[m] :
               ranges[m][i] \in [begin : Addr, end : 1..(MaxAddr + 1), offset : Nat]

\* A lookup never gives a wrong answer: if an address is found in a module, it
\* is at the offset it was last mapped to.
OffsetsRight ==
  \A m \in Module, a \in Addr :
    OffsetOfPC(ranges[m], a) # None => OffsetOfPC(ranges[m], a) = mapped[m][a]

\* The comment on AddRange: what is added is added, and what was there is
\* split or extended.  So an address that has been mapped can be found.
NothingForgotten ==
  \A m \in Module, a \in Addr :
    mapped[m][a] # None => OffsetOfPC(ranges[m], a) # None
=============================================================================
