--------------------------- MODULE FragmentBuilder ---------------------------
(***************************************************************************)
(* How the blocks of a trace become a graph of fragments, how these are    *)
(* grouped into partitions, and where instrumentation has to save and      *)
(* restore the application's flags: stages 2 to 5 of the assembler         *)
(* (granary/code/assemble/{2_build_fragment_list,3_partition_fragments,    *)
(* 4_add_entry_exit_fragments,5_save_and_restore_flags}, and their parts in *)
(* arch/x86-64).  A fragment holds instructions of the application or of   *)
(* the tools and ends where control flow does, at a label that something   *)
(* refers to, or where an instruction of the other kind uses the flags.  A *)
(* data-flow analysis then finds the flags that are live; fragments of     *)
(* instrumentation that follow each other in a partition form a flag zone, *)
(* and fragments are added to the graph wherever it crosses the border of a *)
(* zone or of a partition.                                                 *)
(*                                                                         *)
(* An instruction is its position <<block, index>> in the trace.  Of its   *)
(* operands the model keeps the flags and registers it uses, what it does  *)
(* with the stack pointer, and where it leads.  Left out are indirect      *)
(* calls and jumps, instructions that may fault and calls of the tools'    *)
(* functions, which are code of their own that the architecture's part     *)
(* generates.                                                              *)
(***************************************************************************)
EXTENDS Integers, SequencesExt

CONSTANTS
  Traces,           \* The traces to assemble: sequences of blocks.
  Flags,            \* The arithmetic flags.
  Overflow          \* The flag that LAHF does not save.

VARIABLES
  trace,            \* The trace.
  frags,            \* The FragmentList and the FragmentBuilder.
  current,          \* ProcessFragment: the fragment and the next instruction.
  phase             \* The assembler's next stage.

builderVars == <<trace, frags, current, phase>>

\* An instruction; the operators that make the traces change its fields.  Flags
\* are read and written, registers used, defined (written as a whole) or updated;
\* on the stack something is pushed, popped, or accessed behind the pointer.
Plain == [op |-> "native", app |-> TRUE, reads |-> {}, writes |-> {}, maybe |-> FALSE,
          uses |-> {}, defs |-> {}, updates |-> {}, legacy |-> FALSE, stack |-> "none",
          cond |-> FALSE, near |-> FALSE, taken |-> FALSE, to |-> 0]
MovesStack(instr) == instr.stack \in {"push", "pop"}

Nowhere == <<0, 0>>
At(pos) == trace[pos[1]].instrs[pos[2]]
Annotations == {"label", "cache", "interrupts", "badstack"}
NextOf(pos) == <<pos[1], pos[2] + 1>>
Decoded(b) == trace[b].class = "decoded"
Labels == {l \in UNION {{b} \X DOMAIN trace[b].instrs : b \in DOMAIN trace} : At(l).op = "label"}
LabelOf(pos) == CHOOSE l \in Labels : l[1] = pos[1] /\ At(l).to = At(pos).to

\* LabelInstruction::data counts the branches to a label, and the operands that
\* take its address.
IsReferenced(l) == \/ At(l).taken
                   \/ \E i \in DOMAIN trace[l[1]].instrs :
                        LET instr == trace[l[1]].instrs[i]
                        IN  instr.op = "branch" /\ instr.to = At(l).to

\* Flags used in a fragment (FlagUsageInfo), and code caches by hotness.
NoFlags == [entry |-> {}, exit |-> {}, read |-> {}, written |-> {}]
Hot == 0
Cold == 1
Frozen == 2
EdgeCache == 4

\* What a fragment holds: instructions of the trace and generated ones, with the
\* general-purpose registers, the spill slot and the displacement they have.  The
\* virtual registers of an instruction are given a home, and branches a target, later.
Cell(do) == [do |-> do, at |-> Nowhere, gpr |-> 0, other |-> 0, slot |-> 0,
             home |-> << >>, disp |-> 0, moved |-> FALSE, negated |-> FALSE, target |-> Nowhere]
Instr(pos) == [Cell("instr") EXCEPT !.at = pos]

\* The selectors of a fragment's successors; 0 if there is none.
FallThrough == 1
Branch == 2

NewFragment(id, class, block) ==
  [class |-> class, block |-> block, instrs |-> << >>, succ |-> <<0, 0>>, branch |-> Nowhere,
   kind |-> IF class = "exit" THEN "app" ELSE "invalid", cache |-> Hot, head |-> FALSE,
   can_add_succ |-> TRUE, can_add_pred |-> TRUE, has_native |-> FALSE,
   partition |-> id, zone |-> id, app_flags |-> NoFlags, inst_flags |-> NoFlags,
   entry_regs |-> {}, exit_regs |-> {}, def_regs |-> {}, is_comp |-> FALSE,
   entry_offset |-> 0, exit_offset |-> 0, valid_stack |-> TRUE,
   link |-> 0, encoded |-> FALSE, jump |-> FALSE, skip |-> FALSE, negated |-> FALSE]

\* A block's fragment has the block's number (InitializeFragAndWorklist).  The
\* fragments of decoded blocks come first, in order; those of the others last.
BlockFragment(t, b) ==
  LET frag == NewFragment(b, IF t[b].class = "decoded" THEN "code" ELSE "exit", b)
  IN  CASE t[b].class = "decoded" ->
             [frag EXCEPT !.head = TRUE, !.cache = IF t[b].cold THEN Cold ELSE Hot]
        [] t[b].class = "direct" -> [frag EXCEPT !.cache = EdgeCache]
        [] t[b].class = "cached" -> [frag EXCEPT !.cache = EdgeCache, !.encoded = TRUE]

Item(frag, pos) == [frag |-> frag, pos |-> pos]
Idle == Item(0, Nowhere)

InitializeFragAndWorklist(t) ==
  LET numbers == [b \in DOMAIN t |-> b]
      decoded == SelectSeq(numbers, LAMBDA b : t[b].class = "decoded")
      others == SelectSeq(numbers, LAMBDA b : t[b].class # "decoded")
  IN  [node |-> [b \in DOMAIN t |-> BlockFragment(t, b)],
       list |-> decoded \o Reverse(others),
       work |-> [i \in DOMAIN decoded |-> Item(decoded[i], <<decoded[i], 1>>)],
       label |-> << >>]

BuilderInit(t) == /\ trace = t
                  /\ frags = InitializeFragAndWorklist(t)
                  /\ current = Idle
                  /\ phase = "build"
-----------------------------------------------------------------------------
\* Operations on the list of fragments.
Fresh(b) == Len(b.node) + 1
IndexIn(list, f) == CHOOSE i \in DOMAIN list : list[i] = f
InsertAfter(list, f, new) == InsertAt(list, IndexIn(list, f) + 1, new)
SetSucc(b, f, sel, s) == [b EXCEPT !.node[f].succ[sel] = s]
AppendInstr(b, f, pos) == [b EXCEPT !.node[f].instrs = Append(@, Instr(pos)),
                                    !.node[f].has_native = TRUE]

\* A fragment that is linked behind pred in the list and in the graph.
AddFragment(b, pred, frag) ==
  SetSucc([b EXCEPT !.node = Append(@, frag),
                    !.list = InsertAfter(@, pred, Fresh(b))], pred, FallThrough, Fresh(b))

\* The fragment of a label, once there is one.
FragmentOf(b, label) == IF label \in DOMAIN b.label THEN b.label[label] ELSE 0

\* The rest of a block becomes a fragment of its own, the next to be built.
AddBlockTailToWorkList(b, pred, label, pos, sel) ==
  LET new == Fresh(b)
      frag == NewFragment(new, "code", b.node[pred].block)
  IN  IF FragmentOf(b, label) # 0
      THEN SetSucc(b, pred, sel, FragmentOf(b, label))
      ELSE SetSucc([b EXCEPT !.node = Append(@, frag),
                             !.list = InsertAfter(@, pred, new),
                             !.work = <<Item(new, pos)>> \o @,
                             !.label = IF label = Nowhere THEN @ ELSE (label :> new) @@ @],
                   pred, sel, new)

\* Building goes on with the next instruction, or with another fragment.
Continue(b) == /\ frags' = b
               /\ current' = [current EXCEPT !.pos = NextOf(@)]
               /\ UNCHANGED <<trace, phase>>
Split(b) == /\ frags' = b
            /\ current' = Idle
            /\ UNCHANGED <<trace, phase>>

Building(op) == phase = "build" /\ current # Idle /\ At(current.pos).op = op

\* BuildFragmentList: the head of the work list.
TakeItem == /\ phase = "build" /\ current = Idle
            /\ frags.work # << >>
            /\ current' = Head(frags.work)
            /\ frags' = [frags EXCEPT !.work = Tail(@)]
            /\ UNCHANGED <<trace, phase>>

ProcessLabel ==
  /\ Building("label")
  /\ LET f == current.frag
         alone == ~frags.node[f].has_native /\ ~frags.node[f].can_add_pred
         b == [frags EXCEPT !.node[f].can_add_succ = @ /\ ~alone]
     IN  IF IsReferenced(current.pos)
         THEN Split(AddBlockTailToWorkList(b, f, current.pos, NextOf(current.pos), FallThrough))
         ELSE Continue(frags)

\* ProcessAnnotation: kAnnotInterruptDeliveryStateChange, the code cache kind, and
\* kAnnotInvalidStack.
ProcessAnnotation ==
  \/ /\ Building("interrupts")
     /\ Split(AddBlockTailToWorkList([frags EXCEPT !.node[current.frag].can_add_succ = FALSE],
                                     current.frag, Nowhere, NextOf(current.pos), FallThrough))
  \/ /\ Building("cache")
     /\ Continue([frags EXCEPT !.node[current.frag].cache = At(current.pos).to])
  \/ /\ Building("badstack")
     /\ Continue([frags EXCEPT !.node[current.frag].valid_stack = FALSE])

\* A branch to a label.  A conditional one of the application does not belong
\* into a fragment of the instrumentation.
ProcessBranch ==
  /\ Building("branch")
  /\ LET pos == current.pos
         instr == At(pos)
         native == instr.app /\ instr.cond
         split == native /\ frags.node[current.frag].kind = "inst"
         b0 == IF split
               THEN AddFragment(frags, current.frag,
                                NewFragment(Fresh(frags), "code", frags.node[current.frag].block))
               ELSE frags
         f == IF split THEN Fresh(frags) ELSE current.frag
         b1 == [b0 EXCEPT !.node[f].kind = IF native THEN "app" ELSE @,
                          !.node[f].branch = pos]
         b2 == AddBlockTailToWorkList(b1, f, LabelOf(pos), NextOf(LabelOf(pos)), Branch)
         next == NextOf(pos)
         b3 == IF ~instr.cond THEN b2
               ELSE IF next \in Labels
               THEN AddBlockTailToWorkList(b2, f, next, NextOf(next), FallThrough)
               ELSE AddBlockTailToWorkList(b2, f, Nowhere, next, FallThrough)
     IN  Split(AppendInstr(b3, f, pos))
-----------------------------------------------------------------------------
(***************************************************************************)
(* Control flow between blocks.                                            *)
(***************************************************************************)
\* A jump is not encoded: it is an edge of the graph.  Both ends can be in one
\* partition if they are of one block.
ProcessJump(b, pred, target) ==
  SetSucc([b EXCEPT !.node[pred].can_add_succ = (b.node[pred].block = b.node[target].block)],
          pred, FallThrough, target)

\* A fragment for the instruction alone, in no partition with others.
MakeCFIFrag(b, pred, pos) ==
  LET new == Fresh(b)
      frag == [NewFragment(new, "code", b.node[pred].block) EXCEPT
                 !.kind = "app", !.branch = pos,
                 !.can_add_succ = FALSE, !.can_add_pred = FALSE]
  IN  AppendInstr(AddFragment([b EXCEPT !.node[pred].can_add_succ = FALSE], pred, frag),
                  new, pos)

ProcessTwoWayCFITail(b, f, pos) ==
  IF At(pos).op = "jump" THEN ProcessJump(b, f, At(pos).to)
  ELSE AddBlockTailToWorkList(b, f, Nowhere, pos, FallThrough)

\* Jumps; calls and conditional jumps; system calls; and returns, which end in
\* a fragment that is not in the list.
ProcessCFI ==
  LET f == current.frag
      pos == current.pos
      new == Fresh(frags)
  IN  \/ /\ Building("jump")
         /\ Split(ProcessJump(frags, f, At(pos).to))
      \/ /\ Building("call") \/ Building("condjump")
         /\ Split(ProcessTwoWayCFITail(SetSucc(MakeCFIFrag(frags, f, pos), new, Branch, At(pos).to),
                                       new, NextOf(pos)))
      \/ /\ Building("syscall")
         /\ LET frag == [NewFragment(new, "code", 0) EXCEPT !.can_add_succ = FALSE,
                                                            !.can_add_pred = FALSE]
            IN  Split(ProcessTwoWayCFITail(AppendInstr(AddFragment(frags, f, frag), new, pos),
                                           new, NextOf(pos)))
      \/ /\ Building("return")
         /\ LET b == [frags EXCEPT !.node = Append(@, NewFragment(new, "exit", 0))]
            IN  Split(SetSucc(AppendInstr(b, new, pos), f, FallThrough, new))

\* Instrumentation that writes the flags and application code that uses them, or
\* that changes the stack pointer, are not mixed.
SplitsFragment(kind, instr) ==
  \/ kind = "app" /\ ~instr.app /\ instr.writes # {}
  \/ kind = "inst" /\ instr.app /\ (instr.reads # {} \/ instr.writes # {} \/ MovesStack(instr))

ProcessNativeInstr ==
  /\ Building("native")
  /\ LET f == current.frag
         instr == At(current.pos)
         kind == frags.node[f].kind
         b == IF kind # "invalid" THEN frags
              ELSE [frags EXCEPT !.node[f].kind = IF instr.app THEN "app" ELSE "inst"]
     IN  IF SplitsFragment(kind, instr)
         THEN Split(AddBlockTailToWorkList(frags, f, Nowhere, current.pos, FallThrough))
         ELSE Continue(AppendInstr(b, f, current.pos))
-----------------------------------------------------------------------------
\* A label that nothing reached but whose address is taken, with code behind it
\* that is in no fragment yet.  One of each block at a time, last blocks first.
Placed == UNION {{c.at : c \in ToSet(frags.node[f].instrs)} : f \in DOMAIN frags.node}
Straggler(b) == {l \in Labels : /\ l[1] = b /\ IsReferenced(l) /\ FragmentOf(frags, l) = 0
                                /\ \E i \in DOMAIN trace[b].instrs :
                                     /\ i > l[2]
                                     /\ trace[b].instrs[i].op \notin Annotations
                                     /\ <<b, i>> \notin Placed}
FirstStraggler(b) == CHOOSE l \in Straggler(b) : \A k \in Straggler(b) : l[2] <= k[2]

AddBlockStragglerToWorkList(b, l) ==
  LET entry == Fresh(b)
      code == entry + 1
  IN  [b EXCEPT
        !.node = @ \o <<[NewFragment(entry, "nonlocal", 0) EXCEPT !.succ = <<code, 0>>,
                                                                  !.cache = Frozen],
                        NewFragment(code, "code", l[1])>>,
        !.list = @ \o <<entry, code>>,
        !.work = <<Item(code, NextOf(l))>> \o @,
        !.label = (l :> entry) @@ @]

StragglerBlocks == SelectSeq(Reverse([b \in DOMAIN trace |-> b]), LAMBDA b : Straggler(b) # {})

AddStragglerFragments ==
  /\ phase = "build" /\ current = Idle /\ frags.work = << >>
  /\ StragglerBlocks # << >>
  /\ frags' = FoldLeft(LAMBDA b, n : AddBlockStragglerToWorkList(b, FirstStraggler(n)),
                       frags, StragglerBlocks)
  /\ UNCHANGED <<trace, current, phase>>
-----------------------------------------------------------------------------
(***************************************************************************)
(* Partitions.  A disjoint set is the number all of its members have.      *)
(***************************************************************************)
UnionPartitions(b, f, g) ==
  [b EXCEPT !.node = [n \in DOMAIN b.node |->
     IF b.node[n].partition = b.node[f].partition
     THEN [b.node[n] EXCEPT !.partition = b.node[g].partition] ELSE b.node[n]]]

IsCode(b, f) == f # 0 /\ b.node[f].class \in {"code", "flag_entry", "flag_exit"}

GroupWithSuccessor(b, f, sel) ==
  LET s == b.node[f].succ[sel]
  IN  IF IsCode(b, s) /\ b.node[s].can_add_pred THEN UnionPartitions(b, f, s) ELSE b

\* One fragment that may move the stack pointer anywhere makes the stack useless
\* for all.
InitStackValidity(b) ==
  LET valid == \A f \in ToSet(b.list) : b.node[f].valid_stack
  IN  [b EXCEPT !.node = [f \in DOMAIN b.node |-> [b.node[f] EXCEPT !.valid_stack = valid]]]

\* InitStackValidity and GroupFragments, when nothing is left to build.
PartitionFragments ==
  /\ phase = "build" /\ current = Idle /\ frags.work = << >>
  /\ StragglerBlocks = << >>
  /\ frags' = FoldLeft(LAMBDA b, f : IF ~IsCode(b, f) \/ ~b.node[f].can_add_succ THEN b
                                     ELSE GroupWithSuccessor(GroupWithSuccessor(b, f, FallThrough),
                                                             f, Branch),
                       InitStackValidity(frags), frags.list)
  /\ phase' = "flags"
  /\ UNCHANGED <<trace, current>>

BuildStep == \/ TakeItem \/ ProcessLabel \/ ProcessAnnotation \/ ProcessBranch \/ ProcessCFI
             \/ ProcessNativeInstr \/ AddStragglerFragments \/ PartitionFragments
-----------------------------------------------------------------------------
(* Stages 4 and 5: entry and exit fragments, and flags.                    *)

Stage(from, b, to) == /\ phase = from
                      /\ frags' = b
                      /\ phase' = to
                      /\ UNCHANGED <<trace, current>>

Successors(b, f) == SelectSeq(b.node[f].succ, LAMBDA s : s # 0)

\* Fragments whose kind is not known take that of a successor.
FragKind(b, f) ==
  LET codes == SelectSeq(Successors(b, f), LAMBDA s : IsCode(b, s))
      kind == IF codes = << >> THEN "app" ELSE b.node[Last(codes)].kind
  IN  IF b.node[f].kind # "invalid" THEN b.node[f].kind
      ELSE IF ~IsCode(b, f) THEN "app"
      ELSE IF kind = "invalid" THEN "inst" ELSE kind

\* AnalyzeFlagsUse starts with everything live where the trace is left.
InitFlagsUse(b) ==
  [b EXCEPT !.node = [f \in DOMAIN b.node |->
     IF b.node[f].class = "exit" /\ f \in ToSet(b.list)
     THEN [b.node[f] EXCEPT !.app_flags = [entry |-> Flags, exit |-> Flags,
                                           read |-> Flags, written |-> Flags]]
     ELSE b.node[f]]]

PropagateFragKinds ==
  Stage("flags",
        InitFlagsUse(FoldLeft(LAMBDA b, f : [b EXCEPT !.node[f].kind = FragKind(b, f)],
                              frags, Reverse(frags.list))),
        "live")
-----------------------------------------------------------------------------
\* Flags of the application, and of the instrumentation, that are live.
LiveFlagsOnEntry(b, f) ==
  IF f = 0 THEN [app |-> {}, inst |-> {}]
  ELSE IF b.node[f].class = "exit" THEN [app |-> Flags, inst |-> {}]
  ELSE [app |-> b.node[f].app_flags.entry, inst |-> b.node[f].inst_flags.entry]

LiveFlagsOnExit(b, f) ==
  LET frag == b.node[f]
      fall == LiveFlagsOnEntry(b, frag.succ[FallThrough])
      branch == LiveFlagsOnEntry(b, frag.succ[Branch])
  IN  IF frag.class = "exit" THEN LiveFlagsOnEntry(b, f)
      ELSE IF frag.branch # Nowhere /\ ~At(frag.branch).cond THEN branch
      ELSE [app |-> fall.app \cup branch.app, inst |-> fall.inst \cup branch.inst]

\* One instruction, backwards.
VisitInstructionFlags(usage, instr) ==
  [usage EXCEPT !.written = @ \cup instr.writes,
                !.read = @ \cup instr.reads,
                !.entry = (IF instr.maybe THEN @ \cup instr.writes ELSE @ \ instr.writes)
                          \cup instr.reads]

UsageOf(b, f, usage, exit) ==
  FoldRight(LAMBDA c, u : VisitInstructionFlags(u, At(c.at)), b.node[f].instrs,
            [usage EXCEPT !.exit = exit, !.entry = exit])

\* What an application's fragment does to flags, or one of the instrumentation:
\* through the latter the application's flags just pass.
UpdateFlagsUse(b, f) ==
  LET live == LiveFlagsOnExit(b, f)
      frag == b.node[f]
  IN  IF frag.kind = "app"
      THEN [b EXCEPT !.node[f].app_flags = UsageOf(b, f, @, live.app)]
      ELSE [b EXCEPT !.node[f].inst_flags = UsageOf(b, f, @, live.inst),
                     !.node[f].app_flags.exit = @ \cup live.app,
                     !.node[f].app_flags.entry = @ \cup live.app]

\* Whether TryUpdateFlagsUse reports a change: it looks at one of the two.
Reports(b, c, f) == IF b.node[f].kind = "app" THEN b.node[f].app_flags # c.node[f].app_flags
                    ELSE b.node[f].inst_flags # c.node[f].inst_flags

Sweep(b) ==
  FoldLeft(LAMBDA r, f : LET new == UpdateFlagsUse(r.frags, f)
                         IN  [frags |-> new, changed |-> r.changed \/ Reports(r.frags, new, f)],
           [frags |-> b, changed |-> FALSE], Reverse(b.list))

\* One iteration of the loop.
AnalyzeFlagsUse == LET sweep == Sweep(frags)
                   IN  Stage("live", sweep.frags, IF sweep.changed THEN "live" ELSE "zones")
-----------------------------------------------------------------------------
UnionZones(b, f, g) ==
  [b EXCEPT !.node = [n \in DOMAIN b.node |->
     IF b.node[n].zone = b.node[f].zone
     THEN [b.node[n] EXCEPT !.zone = b.node[g].zone] ELSE b.node[n]]]

\* A fragment and its successor in one zone; an application's fragment without
\* flags may become one of the instrumentation.
CombineWithSuccessor(b, f, sel) ==
  LET s == b.node[f].succ[sel]
      frag == b.node[f]
      succ == b.node[s]
      convert == /\ succ.kind = "app" /\ succ.branch = Nowhere
                 /\ succ.app_flags.read = {} /\ succ.app_flags.written = {}
  IN  IF ~IsCode(b, s) \/ frag.partition # succ.partition THEN b
      ELSE IF frag.kind = succ.kind THEN UnionZones(b, f, s)
      ELSE IF convert THEN UnionZones([b EXCEPT !.node[s].kind = "inst"], f, s)
      ELSE b

CombineFlagZones ==
  Stage("zones",
        FoldLeft(LAMBDA b, f : IF ~IsCode(b, f) THEN b
                               ELSE CombineWithSuccessor(CombineWithSuccessor(b, f, FallThrough),
                                                         f, Branch),
                 frags, frags.list),
        "entries")

\* FlagZone: flags killed anywhere in the zone, and live behind a part of it
\* (UpdateFlagZones).  Fragments that are added later have no flags themselves.
ZoneOf(b, f) == {g \in ToSet(b.list) : /\ b.node[g].zone = b.node[f].zone
                                       /\ b.node[g].kind = "inst"
                                       /\ b.node[g].class = "code"}
KilledFlags(b, f) == UNION {b.node[g].inst_flags.written : g \in ZoneOf(b, f)}
LiveFlags(b, f) == UNION {b.node[g].app_flags.exit : g \in ZoneOf(b, f)}

IsFlagInstCode(b, f) == b.node[f].kind = "inst" /\ KilledFlags(b, f) # {}
IsCFI(b, f) == b.node[f].branch # Nowhere /\ At(b.node[f].branch).op # "branch"
SamePartition(b, f, g) == b.node[f].partition = b.node[g].partition
SameZone(b, f, g) == b.node[f].zone = b.node[g].zone
Neither(b, f, g, classes) == b.node[f].class \notin classes /\ b.node[g].class \notin classes

IsPartitionEntry(b, f, next) ==
  /\ Neither(b, f, next, {"partition_entry"})
  /\ b.node[next].class # "exit"
  /\ ~IsCFI(b, next)
  /\ b.node[f].class = "nonlocal" \/ ~SamePartition(b, f, next)
IsPartitionExit(b, f, next) ==
  /\ Neither(b, f, next, {"partition_exit"})
  /\ b.node[f].class # "partition_entry"
  /\ ~IsCFI(b, f)
  /\ ~SamePartition(b, f, next)
IsFlagEntry(b, f, next) ==
  /\ Neither(b, f, next, {"flag_entry"})
  /\ SamePartition(b, f, next) /\ ~SameZone(b, f, next)
  /\ IsFlagInstCode(b, next)
IsFlagExit(b, f, next) ==
  /\ Neither(b, f, next, {"flag_exit"})
  /\ SamePartition(b, f, next) /\ ~SameZone(b, f, next)
  /\ IsFlagInstCode(b, f)
-----------------------------------------------------------------------------
(***************************************************************************)
(* Entry and exit fragments, which several edges may share.                *)
(***************************************************************************)
\* A fragment in front of succ, in the partition of inherit, and in its zone if
\* it is there for the flags.
MakeFragment(b, class, inherit, succ) ==
  [NewFragment(Fresh(b), class, b.node[inherit].block) EXCEPT
     !.kind = "inst", !.cache = b.node[inherit].cache, !.succ = <<succ, 0>>,
     !.partition = b.node[inherit].partition, !.valid_stack = b.node[inherit].valid_stack,
     !.zone = IF class \in {"flag_entry", "flag_exit"} THEN b.node[inherit].zone ELSE @,
     !.app_flags = [NoFlags EXCEPT !.entry = b.node[succ].app_flags.entry,
                                   !.exit = b.node[succ].app_flags.entry]]

Crosses(b, class, f, next) ==
  CASE class = "partition_entry" -> IsPartitionEntry(b, f, next)
    [] class = "partition_exit" -> IsPartitionExit(b, f, next)
    [] class = "flag_entry" -> IsFlagEntry(b, f, next)
    [] class = "flag_exit" -> IsFlagExit(b, f, next)

\* AddEntryFragment and AddExitFragment: an entry belongs to what it enters, an
\* exit to what it leaves.
AddEntryOrExit(b, class, f, sel) ==
  LET succ == b.node[f].succ[sel]
      inherit == IF class \in {"partition_entry", "flag_entry"} THEN succ ELSE f
      back == b.node[succ].link
      new == Fresh(b)
      made == [b EXCEPT !.node = [Append(@, MakeFragment(b, class, inherit, succ))
                                   EXCEPT ![succ].link = new],
                        !.list = InsertAfter(@, f, new)]
  IN  IF succ = 0 \/ ~Crosses(b, class, f, succ) THEN b
      ELSE IF back # 0 /\ SamePartition(b, inherit, back) THEN SetSucc(b, f, sel, back)
      ELSE SetSucc(made, f, sel, new)

ResetEntryExitFrag(b) ==
  [b EXCEPT !.node = [f \in DOMAIN b.node |-> [b.node[f] EXCEPT !.link = 0]]]

AddAll(b, class) ==
  FoldLeft(LAMBDA c, f : AddEntryOrExit(AddEntryOrExit(c, class, f, FallThrough), class, f, Branch),
           b, b.list)

\* The first fragment always has an entry: the trace is entered from outside.
AddFirstEntry(b) ==
  LET first == Head(b.list)
      new == Fresh(b)
  IN  IF IsCFI(b, first) THEN b
      ELSE [b EXCEPT !.node = [Append(@, MakeFragment(b, "partition_entry", first, first))
                                EXCEPT ![first].link = new],
                     !.list = <<new>> \o @]

AddPartitionEntries == Stage("entries",
  AddAll(AddFirstEntry(ResetEntryExitFrag(frags)), "partition_entry"), "exits")
AddPartitionExits == Stage("exits",
  AddAll(ResetEntryExitFrag(frags), "partition_exit"), "flag entries")
AddFlagEntries == Stage("flag entries",
  AddAll(ResetEntryExitFrag(frags), "flag_entry"), "flag exits")
AddFlagExits == Stage("flag exits",
  AddAll(ResetEntryExitFrag(frags), "flag_exit"), "save")

\* InjectSaveFlags and InjectRestoreFlags.  LAHF and SAHF move all flags but the
\* overflow flag to and from RAX, which takes an instruction of its own; RAX is
\* saved, and swapped with its slot, in which the flags remain.
Inject(b, f) ==
  LET frag == b.node[f]
      flags == KilledFlags(b, f) \cap LiveFlags(b, f)
      ifOverflow(do) == IF Overflow \in flags THEN <<Cell(do)>> ELSE << >>
  IN  CASE frag.class = "flag_entry" /\ flags # {} ->
             <<Cell("save_reg"), Cell("lahf")>> \o ifOverflow("seto") \o <<Cell("swap_reg")>>
        [] frag.class = "flag_exit" /\ flags # {} ->
             <<Cell("swap_reg")>> \o ifOverflow("add") \o <<Cell("sahf"), Cell("restore_reg")>>
        [] OTHER -> frag.instrs

SaveAndRestoreFlags == Stage("save",
  [frags EXCEPT !.node = [f \in DOMAIN frags.node |->
                            [frags.node[f] EXCEPT !.instrs = Inject(frags, f)]]],
  "track")

FlagStep == \/ PropagateFragKinds \/ AnalyzeFlagsUse \/ CombineFlagZones
            \/ AddPartitionEntries \/ AddPartitionExits
            \/ AddFlagEntries \/ AddFlagExits \/ SaveAndRestoreFlags
=============================================================================
