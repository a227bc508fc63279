-------------------------- MODULE RegisterScheduler --------------------------
(***************************************************************************)
(* Virtual registers: stages 6, 8 and 9 of the assembler                   *)
(* (granary/code/assemble/{6_track_virtual_regs,8_schedule_registers,      *)
(* 9_allocate_slots}, their parts in arch/x86-64, and stage 7, which does  *)
(* nothing).  Tools and the mangler write code with as many registers as   *)
(* they like.  A data-flow analysis finds where these are live; each gets  *)
(* a general-purpose register that nothing else in the trace uses, or is   *)
(* kept in a slot between fragments; what the application has in a         *)
(* register that is taken away goes to a slot.  Slots are on the stack     *)
(* below everything the partition pushes, if the stack can be trusted.     *)
(*                                                                         *)
(* A register is a number: general-purpose ones come first, and RAX is 0.  *)
(***************************************************************************)
EXTENDS FragmentBuilder

CONSTANTS
  NumGPRs,          \* NUM_GENERAL_PURPOSE_REGISTERS.
  Restricted,       \* The ones that an instruction with a legacy register cannot have.
  RedZone           \* Words below the stack pointer that a leaf function uses.

GPR == 0 .. NumGPRs - 1
Virtual(regs) == regs \ GPR

VRsUsed(instr) == Virtual(instr.uses \cup instr.updates)
VRsDefined(instr) == Virtual(instr.defs)

\* The instruction behind a cell; generated ones have no virtual registers.
InstrOf(c) == IF c.do = "instr" THEN At(c.at) ELSE Plain

\* FindInstructionVRs, backwards over a fragment.
FindInstructionVRs(frag) ==
  FoldRight(LAMBDA c, r :
              LET instr == InstrOf(c)
              IN  [r EXCEPT !.entry_regs = (@ \cup VRsUsed(instr)) \ VRsDefined(instr),
                            !.exit_regs = @ \cup VRsUsed(instr) \cup VRsDefined(instr),
                            !.def_regs = @ \cup Virtual(instr.defs \cup instr.updates)],
            frag.instrs, frag)

TrackVirtualRegs == Stage("track",
  [frags EXCEPT !.node = [f \in DOMAIN frags.node |->
     IF IsCode(frags, f) /\ f \in ToSet(frags.list) THEN FindInstructionVRs(frags.node[f])
     ELSE frags.node[f]]],
  "propagate")

CodeSuccessors(b, f) == SelectSeq(Successors(b, f), LAMBDA s : IsCode(b, s))
FollowsPartitionEntry(b, f) ==
  \E e \in ToSet(b.list) : /\ b.node[e].class = "partition_entry"
                           /\ b.node[e].succ[FallThrough] = f

\* Registers live on entry to a successor are live here, on exit and, unless the
\* partition begins here, on entry.
BackPropagate(b, f) ==
  LET pass(c, s) == LET new == c.node[s].entry_regs \ c.node[f].exit_regs
                    IN  [c EXCEPT !.node[f].exit_regs = @ \cup new,
                                  !.node[f].entry_regs =
                                     IF FollowsPartitionEntry(c, f) THEN @ ELSE @ \cup new]
  IN  IF IsCode(b, f) THEN FoldLeft(pass, b, CodeSuccessors(b, f)) ELSE b

\* One sweep of the loop.
BackPropagateEntryDefs ==
  LET b == FoldLeft(BackPropagate, frags, Reverse(frags.list))
  IN  Stage("propagate", b, IF b = frags THEN "extend" ELSE "propagate")
-----------------------------------------------------------------------------
DefSet(b, f) == b.node[f].exit_regs \ b.node[f].entry_regs

\* What a successor of this partition defines is live before it already, but not
\* in hotter code than the successor.
Extends(b, f) == SelectSeq(CodeSuccessors(b, f),
                           LAMBDA s : /\ b.node[f].cache >= b.node[s].cache
                                      /\ SamePartition(b, f, s))
ExtendExit(b, f) ==
  IF ~IsCode(b, f) THEN b
  ELSE [b EXCEPT !.node[f].exit_regs =
          @ \cup UNION {DefSet(b, s) : s \in ToSet(Extends(b, f))}]
ExtendEntry(b, f) ==
  IF ~IsCode(b, f) THEN b
  ELSE FoldLeft(LAMBDA c, s : [c EXCEPT !.node[s].entry_regs = @ \cup c.node[s].exit_regs],
                b, Extends(b, f))
ExtendLiveRanges(b) ==
  FoldLeft(ExtendEntry, FoldLeft(ExtendExit, b, Reverse(b.list)), Reverse(b.list))

\* A fragment on an edge on which registers die.
MakeCompensatingFrag(b, pred, sel) ==
  LET s == b.node[pred].succ[sel]
      comp == [NewFragment(Fresh(b), "code", b.node[pred].block) EXCEPT
                 !.is_comp = TRUE, !.succ = <<s, 0>>,
                 !.entry_regs = b.node[pred].exit_regs,
                 !.exit_regs = IF IsCode(b, s) THEN b.node[s].entry_regs ELSE {},
                 !.partition = b.node[pred].partition, !.zone = b.node[s].zone,
                 !.valid_stack = b.node[pred].valid_stack,
                 !.cache = IF b.node[pred].cache < b.node[s].cache THEN b.node[s].cache
                           ELSE b.node[pred].cache]
  IN  SetSucc([b EXCEPT !.node = Append(@, comp), !.list = InsertAfter(@, pred, Fresh(b))],
              pred, sel, Fresh(b))

\* Mutant: registers are given back only where the partition is left.
CompensateAtEnd(b, pred, sel) ==
  LET s == b.node[pred].succ[sel]
  IN  IF /\ IsCode(b, pred) /\ s # 0 /\ ~IsCode(b, s) /\ b.node[pred].exit_regs # {}
      THEN MakeCompensatingFrag(b, pred, sel) ELSE b

AddCompensatingFragment(b, pred, sel) ==
  LET s == b.node[pred].succ[sel]
      dies == IF IsCode(b, s) THEN ~(b.node[pred].exit_regs \subseteq b.node[s].entry_regs)
              ELSE b.node[pred].exit_regs # {}
  IN  IF IsCode(b, pred) /\ s # 0 /\ dies THEN MakeCompensatingFrag(b, pred, sel) ELSE b

AddCompensatingFragments(b) ==
  FoldLeft(LAMBDA c, f : AddCompensatingFragment(AddCompensatingFragment(c, f, FallThrough),
                                                 f, Branch),
           b, Reverse(b.list))

\* The RegisterScheduler and PartitionInfo, as they are constructed; and the
\* virtual registers that need scheduling (GetSchedulableVRs).
NewScheduler(b) ==
  [num_slots |-> 0, slot_for_gpr |-> << >>, preferred |-> {},
   vrs |-> UNION {b.node[f].entry_regs \cup b.node[f].exit_regs : f \in ToSet(b.list)}]
NewPartition == [uses_vrs |-> FALSE, num_slots |-> 0, min_frame_offset |-> 0]

LiveRanges ==
  LET b == AddCompensatingFragments(ExtendLiveRanges(frags))
  IN  Stage("extend",
            [node |-> b.node, list |-> b.list, label |-> b.label, sched |-> NewScheduler(b),
             part |-> [p \in DOMAIN b.node |-> NewPartition]],
            "schedule")
-----------------------------------------------------------------------------
(***************************************************************************)
(* Scheduling, one virtual register at a time, each fragment backwards.    *)
(***************************************************************************)
\* General-purpose registers in a cell, and how often one is an operand.
HomeOf(c, x) == IF x \in DOMAIN c.home THEN c.home[x] ELSE x
Mentions(c, g, regs) == Cardinality({x \in regs : HomeOf(c, x) = g})
NumUses(c, g) ==
  LET instr == InstrOf(c)
  IN  CASE c.do = "instr" -> Mentions(c, g, instr.uses) + Mentions(c, g, instr.defs)
                             + Mentions(c, g, instr.updates)
        [] c.do = "xchg" -> IF g \in {c.gpr, c.other} THEN 1 ELSE 0
        [] OTHER -> IF g = c.gpr THEN 1 ELSE 0
CountGPRUses(cells, g) == FoldLeft(LAMBDA n, c : n + NumUses(c, g), 0, cells)

\* UsedRegisterSet: what a cell leaves no room for a virtual register in.
Touches(c, v) == v \in VRsUsed(InstrOf(c)) \cup VRsDefined(InstrOf(c))
UsedRegs(c, v) == {g \in GPR : NumUses(c, g) > 0}
                  \cup (IF Touches(c, v) /\ InstrOf(c).legacy THEN Restricted ELSE {})

LowestGPR(regs) == CHOOSE g \in regs : \A h \in regs : g <= h
GetPreferredGPR(b) ==
  {g \in GPR \ b.sched.preferred :
     \A f \in ToSet(b.list) : CountGPRUses(b.node[f].instrs, g) = 0}

\* The least used register of the fragment that the instruction does not use.
GetGPR(cells, used) ==
  LowestGPR({g \in GPR \ used :
               \A h \in GPR \ used : CountGPRUses(cells, g) <= CountGPRUses(cells, h)})

\* SlotForGPR: a slot, from the first use on.
WithSlot(sched, g) ==
  IF g \in DOMAIN sched.slot_for_gpr THEN sched
  ELSE [sched EXCEPT !.slot_for_gpr = (g :> sched.num_slots) @@ @,
                     !.num_slots = @ + 1]
SaveGPRToSlot(g, slot) == [Cell("spill") EXCEPT !.gpr = g, !.slot = slot]
RestoreGPRFromSlot(g, slot) == [Cell("fill") EXCEPT !.gpr = g, !.slot = slot]
SwapGPRWithGPR(g, h) == [Cell("xchg") EXCEPT !.gpr = g, !.other = h]
SwapGPRWithSlot(g, slot) == [Cell("swap") EXCEPT !.gpr = g, !.slot = slot]

Replace(c, v, g) == IF Touches(c, v) THEN [c EXCEPT !.home = (v :> g) @@ @] ELSE c

\* What scheduling v in a fragment has come to, going backwards: the home of v, the
\* code so far, and whether an instruction has v.
AtEnd(b, home, used) == [home |-> home, out |-> << >>, used |-> used, sched |-> b.sched]
InFront(r, cells) == [r EXCEPT !.out = cells \o @]
WithCell(r, c, v) == [InFront(r, <<Replace(c, v, r.home)>>) EXCEPT !.used = @ \/ Touches(c, v)]
Finish(b, f, r) == [b EXCEPT !.node[f].instrs = r.out, !.sched = r.sched,
                             !.part[b.node[f].partition].uses_vrs = @ \/ r.used]

\* SlotForGPR and a save of the register to it.
SaveGPR(r, g) ==
  LET sched == WithSlot(r.sched, g)
  IN  InFront([r EXCEPT !.sched = sched], <<SaveGPRToSlot(g, sched.slot_for_gpr[g])>>)

\* A virtual register moves: going forward, from new to old.
ChangeVRHome(r, old, new) ==
  LET sched == WithSlot(WithSlot(r.sched, new), old)
  IN  InFront([r EXCEPT !.sched = sched, !.home = new],
             <<SaveGPRToSlot(old, sched.slot_for_gpr[old]), SwapGPRWithGPR(old, new),
               RestoreGPRFromSlot(new, sched.slot_for_gpr[new])>>)

\* Kept in register p from fragment to fragment; elsewhere while p is in use.
HomeFor(cells, p, used) == IF p \notin used THEN p ELSE GetGPR(cells, used)
MovedFrom(r, used, new) == IF r.home \in used THEN ChangeVRHome(r, r.home, new) ELSE r
StartInGPR(frag, v, p, r) ==
  CASE v \notin frag.entry_regs -> SaveGPR(r, r.home)
    [] v \in frag.entry_regs /\ r.home # p -> ChangeVRHome(r, r.home, p)
    [] OTHER -> r
ScheduleInGPR(b, f, v, p) ==
  LET cells == b.node[f].instrs
      visit(c, r) ==
        LET used == UsedRegs(c, v)
        IN  WithCell(MovedFrom(r, used, HomeFor(cells, p, used)), c, v)
  IN  IF v \notin b.node[f].exit_regs THEN b
      ELSE Finish(b, f, StartInGPR(b.node[f], v, p,
                                   FoldRight(visit, cells, AtEnd(b, p, FALSE))))

\* In a compensating fragment the register dies.
KillInGPR(b, f, v, p) ==
  LET sched == WithSlot(b.sched, p)
  IN  IF v \in b.node[f].entry_regs /\ v \notin b.node[f].exit_regs
      THEN [b EXCEPT !.sched = sched,
                     !.node[f].instrs = <<RestoreGPRFromSlot(p, sched.slot_for_gpr[p])>> \o @]
      ELSE b

VRIsLiveOnExit(b, f, v) ==
  \E s \in ToSet(CodeSuccessors(b, f)) : b.node[s].is_comp => v \in b.node[s].exit_regs

\* Kept in a slot from fragment to fragment; in a register, which is returned
\* behind the last instruction with the virtual register, or before one that uses
\* the register itself.  A home below 0 is the slot.
LeaveGPR(r, slot) ==
  [SaveGPR(InFront(r, <<RestoreGPRFromSlot(r.home, slot)>>), r.home) EXCEPT !.home = -1]
TakeGPR(r, frag, v, slot, g) ==
  LET sched == WithSlot(r.sched, g)
      store == IF r.used /\ v \in frag.def_regs THEN <<SaveGPRToSlot(g, slot)>> ELSE << >>
  IN  InFront([r EXCEPT !.sched = sched, !.home = g],
             store \o <<RestoreGPRFromSlot(g, sched.slot_for_gpr[g])>>)
LeftBefore(r, used, slot) == IF r.home \in used THEN LeaveGPR(r, slot) ELSE r
TakenFor(r, frag, c, v, slot, used) ==
  IF Touches(c, v) /\ r.home < 0 THEN TakeGPR(r, frag, v, slot, GetGPR(frag.instrs, used)) ELSE r
StartInSlot(frag, v, slot, r) ==
  CASE r.home < 0 -> r
    [] r.home >= 0 /\ v \in frag.entry_regs ->
         SaveGPR(InFront(r, <<RestoreGPRFromSlot(r.home, slot)>>), r.home)
    [] OTHER -> SaveGPR(r, r.home)
ScheduleInSlot(b, f, v, slot) ==
  LET frag == b.node[f]
      visit(c, r) ==
        LET used == UsedRegs(c, v)
        IN  WithCell(TakenFor(LeftBefore(r, used, slot), frag, c, v, slot, used), c, v)
  IN  IF v \notin frag.exit_regs \/ frag.is_comp THEN b
      ELSE Finish(b, f, StartInSlot(frag, v, slot,
                     FoldRight(visit, frag.instrs, AtEnd(b, -1, VRIsLiveOnExit(b, f, v)))))

\* One iteration of ScheduleRegisters.  The order of the set is left open.
ScheduleVR(v) ==
  LET free == GetPreferredGPR(frags)
      p == LowestGPR(free)
      b == [frags EXCEPT !.sched.vrs = @ \ {v},
                         !.sched.preferred = IF free = {} THEN @ ELSE @ \cup {p},
                         !.sched.num_slots = IF free = {} THEN @ + 1 ELSE @]
      schedule(c, f) == CASE ~IsCode(c, f) -> c
                          [] IsCode(c, f) /\ free = {} ->
                               ScheduleInSlot(c, f, v, frags.sched.num_slots)
                          [] IsCode(c, f) /\ free # {} /\ c.node[f].is_comp -> KillInGPR(c, f, v, p)
                          [] OTHER -> ScheduleInGPR(c, f, v, p)
  IN  Stage("schedule", FoldLeft(schedule, b, b.list), "schedule")

\* The annotations around the code for flags, which have slots of their own.
ScheduleSaveRestore(b, f) ==
  LET concrete(c, sched) ==
        LET slot == sched.slot_for_gpr[c.gpr]
        IN  CASE c.do = "save_reg" -> SaveGPRToSlot(c.gpr, slot)
              [] c.do = "restore_reg" -> RestoreGPRFromSlot(c.gpr, slot)
              [] c.do = "swap_reg" -> SwapGPRWithSlot(c.gpr, slot)
      visit(r, c) ==
        IF c.do \notin {"save_reg", "restore_reg", "swap_reg"} THEN [r EXCEPT !.out = Append(@, c)]
        ELSE [sched |-> WithSlot(r.sched, c.gpr), used |-> TRUE,
              out |-> Append(r.out, concrete(c, WithSlot(r.sched, c.gpr)))]
  IN  IF ~IsCode(b, f) THEN b
      ELSE Finish(b, f, FoldLeft(visit, [sched |-> b.sched, used |-> FALSE, out |-> << >>],
                                 b.node[f].instrs))

MarkPartitionUseCounts(b) ==
  [b EXCEPT !.part = [p \in DOMAIN b.part |->
     [b.part[p] EXCEPT !.num_slots = IF b.part[p].uses_vrs THEN b.sched.num_slots ELSE @]]]

ScheduleRegisters == phase = "schedule" /\ \E v \in frags.sched.vrs : ScheduleVR(v)

\* When all are scheduled.
ScheduleSaveRestores ==
  /\ phase = "schedule" /\ frags.sched.vrs = {}
  /\ Stage("schedule",
           MarkPartitionUseCounts(FoldLeft(ScheduleSaveRestore,
                                           [frags EXCEPT !.sched.slot_for_gpr = << >>],
                                           frags.list)),
           "frames")
-----------------------------------------------------------------------------
(***************************************************************************)
(* Stack frames, in words.                                                 *)
(***************************************************************************)
StackPointerShiftAmount(c) == CASE InstrOf(c).stack = "push" -> -1
                                [] InstrOf(c).stack = "pop" -> 1
                                [] OTHER -> 0
OffsetBefore(frag, i) ==
  FoldLeft(LAMBDA n, c : n + StackPointerShiftAmount(c), frag.entry_offset,
           SubSeq(frag.instrs, 1, i - 1))
LowestOffset(frag, low) ==
  LET offsets == {low} \cup {OffsetBefore(frag, i + 1) : i \in DOMAIN frag.instrs}
  IN  CHOOSE n \in offsets : \A k \in offsets : n <= k

\* A fragment's offsets, and those of its successors in the partition.  No instruction
\* of the model computes an address below the stack pointer.
FindFrameSize(b, f) ==
  LET frag == b.node[f]
      offset == OffsetBefore(frag, Len(frag.instrs) + 1)
      c == [b EXCEPT !.node[f].exit_offset = offset,
                     !.part[frag.partition].min_frame_offset = LowestOffset(frag, @)]
      inside == SelectSeq(Successors(b, f), LAMBDA s : /\ SamePartition(b, s, f)
                                                       /\ b.node[s].class # "partition_entry")
  IN  IF ~frag.valid_stack THEN b
      ELSE FoldLeft(LAMBDA d, s : [d EXCEPT !.node[s].entry_offset = offset], c, inside)

\* One sweep of the loop.
FindFrameSizes ==
  LET b == FoldLeft(FindFrameSize, frags, frags.list)
      changed == \/ b.part # frags.part
                 \/ \E f \in DOMAIN b.node : b.node[f].exit_offset # frags.node[f].exit_offset
  IN  Stage("frames", b, IF changed THEN "frames" ELSE "slots")

\* AllocateStackSlotsStackValid: the entry moves the stack pointer, the exit moves
\* it back to where the application has it, and code between them is adjusted.
FrameSpace(part) == part.min_frame_offset - part.num_slots - RedZone
AllocateStackSpace(words) == [Cell("lea") EXCEPT !.disp = words]

FreeStackSpace(frag, space) == -(space - frag.entry_offset)

\* AdjustStackInstruction: push and pop become moves, relative to the new pointer.
AdjustStackInstruction(frag, i, space) ==
  LET c == frag.instrs[i]
      offset == OffsetBefore(frag, i) - space
  IN  CASE InstrOf(c).stack = "push" -> [c EXCEPT !.disp = offset - 1, !.moved = TRUE]
        [] InstrOf(c).stack \in {"pop", "access"} -> [c EXCEPT !.disp = offset, !.moved = TRUE]
        [] OTHER -> c

AllocateStackSlots == Stage("slots",
  [frags EXCEPT !.node = [f \in DOMAIN frags.node |->
     LET frag == frags.node[f]
         space == FrameSpace(frags.part[frag.partition])
     IN  CASE f \notin ToSet(frags.list) \/ ~frag.valid_stack
              \/ frags.part[frag.partition].num_slots = 0 -> frag
           [] frag.class = "partition_entry" ->
                [frag EXCEPT !.instrs = Append(@, AllocateStackSpace(space))]
           [] frag.class = "partition_exit" ->
                [frag EXCEPT !.instrs = Append(@, AllocateStackSpace(FreeStackSpace(frag, space)))]
           [] OTHER ->
                [frag EXCEPT !.instrs = [i \in DOMAIN @ |-> AdjustStackInstruction(frag, i, space)]]]],
  "order")

RegisterStep == \/ TrackVirtualRegs \/ BackPropagateEntryDefs \/ LiveRanges \/ ScheduleRegisters
                \/ ScheduleSaveRestores \/ FindFrameSizes \/ AllocateStackSlots
=============================================================================
