--------------------------- MODULE BlockMetaData ---------------------------
(***************************************************************************)
(* The meta-data of blocks, granary/metadata.{h,cc}.  Granary and its      *)
(* tools register descriptions of their parts; the first object fixes the  *)
(* layout that every object of the session then has, and the layout of the *)
(* slab that objects come from.  Init and Exit of Granary (init.cc,        *)
(* exit.cc) give the order in which this happens, and a process may start  *)
(* Granary more than once.                                                 *)
(***************************************************************************)
EXTENDS Integers, Sequences, SequencesExt, FiniteSetsExt

CONSTANTS
  Builtin,          \* The parts of Granary itself, a sequence.
  ToolPart,         \* The parts of tools.
  PartSize, PartAlign,
  kMaxNumManagedMetaData,
  SlabHeader,       \* sizeof(SlabList).
  SlabBytes,        \* kNewAllocatorNumBytesPerSlab.
  MaxParts,         \* Most registrations by tools: a bound of the model.
  MaxObjects,       \* Most objects at a time: a bound of the model.
  MaxStarts,        \* How often Granary starts: a bound of the model.
  NoPart

VARIABLES
  starts,           \* How often Granary has started.
  step,             \* Where Init or Exit is.
  wanted,           \* What the active tools register in Init, in order.
  gNextDescriptionId, gDescriptions, gAlign, gSize, gIsFinalized,
  part_id, part_offset,     \* id and offset of every description.
  gAllocator,       \* Start, end and stride of the objects in a slab.
  objects,          \* Who holds the object at an address.
  constructed       \* The parts that exist: session, address, description.

metaVars == <<starts, step, wanted, gNextDescriptionId, gDescriptions, gAlign, gSize,
              gIsFinalized, part_id, part_offset, gAllocator, objects, constructed>>
table == <<gNextDescriptionId, gDescriptions, part_id>>
layout == <<gAlign, gSize, gIsFinalized, part_offset, gAllocator>>

Part == ToSet(Builtin) \cup ToolPart
PartId == 0..(kMaxNumManagedMetaData - 1)
NoOffset == -1

\* GRANARY_ALIGN_TO.
RoundUp(x, align) == x + (IF x % align = 0 THEN 0 ELSE align - (x % align))

\* The descriptions before the first gap of gDescriptions, in their order.
Described ==
  LET n == Min({i \in PartId : gDescriptions[i] = NoPart} \cup {kMaxNumManagedMetaData})
  IN  [i \in 1..n |-> gDescriptions[i - 1]]

Init ==
  /\ starts = 0 /\ step = "off" /\ wanted = << >>
  /\ gNextDescriptionId = 0
  /\ gDescriptions = [i \in PartId |-> NoPart]
  /\ gAlign = 0 /\ gSize = 0 /\ gIsFinalized = FALSE
  /\ part_id = [d \in Part |-> -1]
  /\ part_offset = [d \in Part |-> NoOffset]
  /\ gAllocator = [first |-> 0, end |-> 0, stride |-> 0]
  /\ objects = << >> /\ constructed = {}

\* AddMetaData, on a table [next, ids, descs].
AddMetaData(tab, desc) ==
  LET i == IF tab.ids[desc] = -1 THEN tab.next ELSE tab.ids[desc]
  IN  [next |-> IF tab.ids[desc] = -1 THEN tab.next + 1 ELSE tab.next,
       ids |-> [tab.ids EXCEPT ![desc] = i],
       descs |-> [tab.descs EXCEPT ![i] = desc]]

\* Several registrations.
Register(next, descs) ==
  LET tab[i \in 0..Len(descs)] ==
        IF i = 0 THEN [next |-> next, ids |-> part_id, descs |-> gDescriptions]
        ELSE AddMetaData(tab[i - 1], descs[i])
      registered == tab[Len(descs)]
  IN  /\ gNextDescriptionId' = registered.next
      /\ gDescriptions' = registered.descs
      /\ part_id' = registered.ids

\* InitMetaData, in Init.
InitMetaData ==
  /\ step = "off" /\ starts < MaxStarts
  /\ starts' = starts + 1
  /\ step' = "init"
  /\ wanted' \in BoundedSeq(ToolPart, MaxParts)
  /\ gAlign' = 0 /\ gSize' = 0 /\ gIsFinalized' = FALSE
  /\ Register(0, Builtin)
  /\ UNCHANGED <<part_offset, gAllocator, objects, constructed>>

\* Mutant: a tool tests for the wrong reason.
RegisteredForThread(reason) == IF reason = "kInitThread" THEN wanted ELSE << >>

\* What the Init functions of the tools register: nothing for kInitThread.
RegisteredIn(reason) == IF reason = "kInitThread" THEN << >> ELSE wanted

\* InitTools, the end of Init.
InitTools ==
  /\ step = "init"
  /\ step' = "running"
  /\ Register(gNextDescriptionId, RegisteredIn("kInitProgram"))
  /\ UNCHANGED <<starts, wanted, layout, objects, constructed>>

\* os::InitThread, in any thread and at any time.
InitThread ==
  /\ step = "running"
  /\ Register(gNextDescriptionId, RegisteredIn("kInitThread"))
  /\ UNCHANGED <<starts, step, wanted, layout, objects, constructed>>

\* The loop of Finalize: a description gets the next offset of its alignment.
Place(l, desc) ==
  LET o == RoundUp(l.size, PartAlign[desc])
  IN  [align |-> Max({l.align, PartAlign[desc]}), size |-> o + PartSize[desc],
       offset |-> [l.offset EXCEPT ![desc] = o]]

\* Finalize: the offset of each description, the size and the alignment.
Finalize ==
  LET placed[i \in 0..Len(Described)] ==
        IF i = 0 THEN [align |-> gAlign, size |-> gSize, offset |-> part_offset]
        ELSE Place(placed[i - 1], Described[i])
      all == placed[Len(Described)]
  IN  [all EXCEPT !.size = RoundUp(@, all.align)]

\* InitAllocator: the places of objects of a size in a slab.
InitAllocator(size) ==
  LET first == RoundUp(SlabHeader, size)
      max_num_allocs == (SlabBytes - first - size + 1) \div size
  IN  [first |-> first, end |-> first + max_num_allocs * size, stride |-> size]

\* The layout when operator new returns.
LayoutForNew ==
  IF gIsFinalized
  THEN [size |-> gSize, align |-> gAlign, offset |-> part_offset, slab |-> gAllocator]
  ELSE [size |-> Finalize.size, align |-> Finalize.align, offset |-> Finalize.offset,
        slab |-> InitAllocator(Finalize.size)]

PartsAt(address, offset) ==
  {[start |-> starts, at |-> address + offset[d], part |-> d] : d \in ToSet(Described)}

\* new BlockMetaData, by the block factory or as a copy of another object; the
\* allocator gives any free place.
NewBlockMetaData ==
  /\ step = "running" /\ Cardinality(DOMAIN objects) < MaxObjects
  /\ LET l == LayoutForNew
         places == {a \in (l.slab.first)..(l.slab.end - 1) : (a - l.slab.first) % l.slab.stride = 0}
     IN  /\ gSize' = l.size /\ gAlign' = l.align /\ part_offset' = l.offset
         /\ gAllocator' = l.slab
         /\ \E a \in places \ DOMAIN objects :
              /\ objects' = [x \in DOMAIN objects \cup {a} |-> IF x = a THEN "factory" ELSE objects[x]]
              /\ constructed' = constructed \cup PartsAt(a, l.offset)
  /\ gIsFinalized' = TRUE
  /\ UNCHANGED <<starts, step, wanted, table>>

\* The destructor and operator delete, for a set of objects.
Delete(addresses) ==
  /\ objects' = [a \in DOMAIN objects \ addresses |-> objects[a]]
  /\ constructed' = constructed \ UNION {PartsAt(a, part_offset) : a \in addresses}

HeldBy(holder) == {a \in DOMAIN objects : objects[a] = holder}

\* The factory deletes what it does not use; the rest goes to an edge, to the
\* template of an indirect edge or to the index, and from an edge to the index.
DeleteBlockMetaData(a) ==
  /\ step = "running" /\ objects[a] = "factory"
  /\ Delete({a})
  /\ UNCHANGED <<starts, step, wanted, table, layout>>

Hand(a, holder) ==
  /\ step = "running"
  /\ \/ objects[a] = "factory"
     \/ objects[a] = "edge" /\ holder = "index"
  /\ objects' = [objects EXCEPT ![a] = holder]
  /\ UNCHANGED <<starts, step, wanted, table, layout, constructed>>

\* ~Context deletes the direct edges, and not the indirect ones.
ExitContext ==
  /\ step = "running" /\ HeldBy("factory") = {}
  /\ step' = "exit_index"
  /\ Delete(HeldBy("edge"))
  /\ UNCHANGED <<starts, wanted, table, layout>>

ExitIndex ==
  /\ step = "exit_index"
  /\ step' = "exit_meta"
  /\ Delete(HeldBy("index"))
  /\ UNCHANGED <<starts, wanted, table, layout>>

\* ExitMetaData: the slabs go, and with them the templates of indirect edges,
\* whose destructors nobody runs.
ExitMetaData ==
  /\ step = "exit_meta"
  /\ step' = "off"
  /\ LET registered == {d \in Part : \E i \in PartId : gDescriptions[i] = d} IN
     /\ part_id' = [d \in Part |-> IF d \in registered THEN -1 ELSE part_id[d]]
     /\ part_offset' = [d \in Part |-> IF d \in registered THEN NoOffset ELSE part_offset[d]]
  /\ gDescriptions' = [i \in PartId |-> NoPart]
  /\ objects' = << >>
  /\ UNCHANGED <<starts, wanted, gNextDescriptionId, gAlign, gSize, gIsFinalized, gAllocator,
                 constructed>>

Next ==
  \/ InitMetaData \/ InitTools \/ InitThread
  \/ NewBlockMetaData
  \/ \E a \in DOMAIN objects : \/ DeleteBlockMetaData(a)
                               \/ \E holder \in {"edge", "template", "index"} : Hand(a, holder)
  \/ ExitContext \/ ExitIndex \/ ExitMetaData

Spec == Init /\ [][Next]_metaVars
-----------------------------------------------------------------------------
(* Properties.                                                             *)

\* MetaDataCast finds the part of a description at its offset, whoever asks and
\* whenever the description was registered: every object holds every registered
\* part, aligned, in the slab and apart from every other part; and when Granary
\* exits only the parts of the indirect edges' templates were not destroyed.
PartsInPlace ==
  /\ \A a \in DOMAIN objects : \A d \in ToSet(Builtin) \cup ToSet(wanted) :
       [start |-> starts, at |-> a + part_offset[d], part |-> d] \in constructed
  /\ \A p \in constructed :
       /\ p.at % PartAlign[p.part] = 0
       /\ p.at >= SlabHeader /\ p.at + PartSize[p.part] <= SlabBytes
       /\ \A q \in constructed \ {p} :
            q.start = p.start => \/ p.at + PartSize[p.part] <= q.at
                                 \/ q.at + PartSize[q.part] <= p.at
  /\ step = "exit_meta" =>
       \A p \in constructed : p.start = starts =>
         \E a \in HeldBy("template") : p.at = a + part_offset[p.part]
=============================================================================
