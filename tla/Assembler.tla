------------------------------ MODULE Assembler ------------------------------
(***************************************************************************)
(* From the fragments to code: the last stages of the assembler            *)
(* (granary/code/assemble/{10_add_connecting_jumps,                        *)
(* 11_find_block_entrypoints}) and the compiler (granary/code/compile.cc), *)
(* which lays the fragments out in the code caches.  A processor then runs *)
(* the code from the start of any of its blocks, side by side with the     *)
(* trace it was made from.  Every instruction takes one unit of its cache. *)
(***************************************************************************)
EXTENDS RegisterScheduler

VARIABLES
  code,             \* The code caches: sequences of encoded instructions.
  start_pc,         \* Where the trace can be entered: CacheMetaData::start_pc.
  cpu               \* The processor.

vars == <<builderVars, code, start_pc, cpu>>

Caches == {Hot, Cold, Frozen, EdgeCache}
Elsewhere == 5      \* Code that is not of this trace.

\* What a register or a slot can hold, other than the current value of one of the
\* registers, native or virtual, of the trace: the saved flags, or anything.
SavedFlags == -1
Junk == -2

\* The processor, before it runs: where it is, which instruction of the trace it
\* has to execute next, which flags, and which of the saved ones, have the value
\* that the application gave them, what is in the registers and slots, and by how
\* much the stack pointer is below the application's.
Off == [at |-> <<Hot, 0>>, src |-> Nowhere, flags |-> Flags, saved |-> {},
        reg |-> [g \in GPR |-> g], slot |-> << >>, depth |-> 0]

ProcessorInit == /\ code = [k \in Caches |-> << >>]
                 /\ start_pc = {}
                 /\ cpu = Off

Init == ProcessorInit /\ \E t \in Traces : BuilderInit(t)
-----------------------------------------------------------------------------
\* The work list of AddConnectingJumps: fragments are queued once.
Enqueue(b, f) == IF f = 0 \/ f \in ToSet(b.queued) THEN b
                 ELSE [b EXCEPT !.work = <<f>> \o @, !.queued = Append(@, f)]

\* EnqueueStragglerFragments, and the first fragment.
StartOrder ==
  LET stragglers == SelectSeq(Reverse(frags.list), LAMBDA f : frags.node[f].class = "nonlocal")
      b == [node |-> frags.node, list |-> frags.list, label |-> frags.label,
            work |-> << >>, queued |-> << >>, order |-> << >>]
  IN  Stage("order", Enqueue(FoldLeft(Enqueue, b, stragglers), Head(frags.list)), "ordering")

IsNearRelativeJump(frag) == frag.branch # Nowhere /\ At(frag.branch).near
CanNegate(frag) == frag.branch # Nowhere /\ At(frag.branch).cond /\ ~IsNearRelativeJump(frag)

\* A branch to hotter code is turned around, if the condition can be.
Swapped(b, f) ==
  LET frag == b.node[f]
      fall == frag.succ[FallThrough]
      branch == frag.succ[Branch]
  IN  IF /\ fall # 0 /\ branch # 0
         /\ b.node[branch].cache < b.node[fall].cache
         /\ frag.cache = b.node[branch].cache
         /\ CanNegate(frag)
      THEN [b EXCEPT !.node[f].succ = <<branch, fall>>, !.node[f].negated = TRUE]
      ELSE b

\* What comes last is encoded next: the hotter successor, or the one that a
\* short jump has to reach; otherwise the fall-through.
BranchFirst(b, f) ==
  LET frag == b.node[f]
      fall == b.node[frag.succ[FallThrough]].cache
      branch == b.node[frag.succ[Branch]].cache
  IN  branch < fall \/ (branch = fall /\ IsNearRelativeJump(frag))

OrderFragment ==
  /\ phase = "ordering" /\ frags.work # << >>
  /\ LET f == Head(frags.work)
         b == [frags EXCEPT !.work = Tail(@), !.order = Append(@, f)]
         fall == b.node[f].succ[FallThrough]
         branch == b.node[f].succ[Branch]
     IN  Stage("ordering",
               IF fall # 0 /\ branch # 0 /\ BranchFirst(b, f)
               THEN Enqueue(Enqueue(Swapped(b, f), fall), branch)
               ELSE Enqueue(Enqueue(b, branch), fall),
               "ordering")

\* Mutant: the fragment that comes next is taken to follow in the same cache.
NeedsJumpAnywhere(b, f, next) ==
  b.node[f].succ[FallThrough] # 0 /\ b.node[f].succ[FallThrough] # next

\* A jump is needed unless the fall-through is encoded right behind; a branch is
\* not, if it is all that leads to what comes next.
NeedsJump(b, f, next) ==
  LET fall == b.node[f].succ[FallThrough]
  IN  fall # 0 /\ (\/ fall # next \/ b.node[fall].encoded
                   \/ b.node[f].cache # b.node[fall].cache)
NeedsNoBranch(b, f, next) ==
  LET frag == b.node[f]
  IN  /\ frag.succ[FallThrough] = 0 /\ frag.branch # Nowhere
      /\ frag.succ[Branch] = next /\ next # 0
      /\ frag.cache = b.node[next].cache /\ ~b.node[next].encoded

AddConnectingJumps ==
  /\ phase = "ordering" /\ frags.work = << >>
  /\ LET place(f) == IndexIn(frags.order, f)
         next(f) == IF place(f) = Len(frags.order) THEN 0 ELSE frags.order[place(f) + 1]
     IN  Stage("ordering",
               [frags EXCEPT !.node = [f \in DOMAIN frags.node |->
                  IF f \notin ToSet(frags.order) THEN frags.node[f]
                  ELSE [frags.node[f] EXCEPT !.jump = NeedsJump(frags, f, next(f)),
                                             !.skip = NeedsNoBranch(frags, f, next(f))]]],
               "encode")
-----------------------------------------------------------------------------
(***************************************************************************)
(* Compile: sizes, addresses, code.                                        *)
(***************************************************************************)
\* What is encoded of a fragment; an exit through an edge is its edge's code.
Encoded(b, f) ==
  LET frag == b.node[f]
  IN  IF frag.class = "exit" /\ frag.instrs = << >>
      THEN <<[Cell("exit") EXCEPT !.at = <<f, 1>>]>>
      ELSE SelectSeq(frag.instrs, LAMBDA c : ~(frag.skip /\ c.at = frag.branch))
           \o (IF frag.jump THEN <<Cell("jump")>> ELSE << >>)

\* RelativizeCode: fragments get their addresses in their order.
Before(b, f) == SelectSeq(SubSeq(b.order, 1, IndexIn(b.order, f) - 1),
                          LAMBDA g : b.node[g].cache = b.node[f].cache /\ ~b.node[g].encoded)
EncodedPC(b, f) ==
  IF b.node[f].encoded THEN <<Elsewhere, f>>
  ELSE <<b.node[f].cache, FoldLeft(LAMBDA n, g : n + Len(Encoded(b, g)), 1, Before(b, f))>>

\* RelativizeControlFlow: jumps and branches get their targets' addresses.
Relativized(b, f) ==
  LET frag == b.node[f]
      cell(c) == [c EXCEPT !.negated = frag.negated,
                           !.target = CASE c.do = "jump" -> EncodedPC(b, frag.succ[FallThrough])
                                        [] c.at # Nowhere /\ c.at = frag.branch ->
                                             EncodedPC(b, frag.succ[Branch])
                                        [] OTHER -> <<Elsewhere, 0>>]
      cells == Encoded(b, f)
  IN  [i \in DOMAIN cells |-> cell(cells[i])]

EncodeCache(b, k) ==
  FoldLeft(LAMBDA s, f : IF b.node[f].cache = k /\ ~b.node[f].encoded
                         THEN s \o Relativized(b, f) ELSE s,
           << >>, b.order)

\* FindBlockEntrypointFragments: the partition's last entry, if it has one, or the first
\* head of a block in it.
EntryFrag(b, head) ==
  LET inside(S) == SelectSeq(b.list, LAMBDA f : f \in S /\ SamePartition(b, f, head))
      entries == inside({f \in DOMAIN b.node : b.node[f].class = "partition_entry"})
  IN  IF entries # << >> THEN Last(entries)
      ELSE Head(inside({c \in DOMAIN trace : Decoded(c)}))

\* EncodeAndFree.  The trace can be entered at the start_pc of its blocks, and at
\* the labels whose address was taken.
EncodeAndFree ==
  /\ phase = "encode"
  /\ code' = [k \in Caches |-> EncodeCache(frags, k)]
  /\ start_pc' = {[src |-> <<b, 1>>, pc |-> EncodedPC(frags, EntryFrag(frags, b))] :
                   b \in {c \in DOMAIN trace : Decoded(c)}}
                 \cup {[src |-> l, pc |-> EncodedPC(frags, frags.label[l])] :
                        l \in {k \in DOMAIN frags.label :
                               frags.node[frags.label[k]].class = "nonlocal"}}
  /\ phase' = "run"
  /\ frags' = << >>
  /\ UNCHANGED <<trace, current, cpu>>
-----------------------------------------------------------------------------
(***************************************************************************)
(* The processor.                                                          *)
(***************************************************************************)
\* The next instruction of the trace that does anything, from some position on.
NextInTrace(pos) ==
  LET From[p \in Nat \X Nat] ==
        IF ~Decoded(p[1]) THEN p
        ELSE LET instr == At(p)
             IN  CASE instr.op \in Annotations -> From[NextOf(p)]
                   [] instr.op = "branch" /\ ~instr.cond -> From[NextOf(LabelOf(p))]
                   [] instr.op = "jump" -> From[<<instr.to, 1>>]
                   [] OTHER -> p
  IN  From[pos]

\* Nothing is fetched behind the end of a cache: that is code of other traces.
Fetch == IF cpu.at[1] = Elsewhere THEN [Cell("exit") EXCEPT !.at = <<cpu.at[2], 1>>]
         ELSE IF cpu.at[2] \in DOMAIN code[cpu.at[1]] THEN code[cpu.at[1]][cpu.at[2]]
         ELSE Cell("nothing")
Running == phase = "run" /\ cpu # Off
Behind == <<cpu.at[1], cpu.at[2] + 1>>
Execute(new) == cpu' = new /\ UNCHANGED <<builderVars, code, start_pc>>

\* Other code jumps to a block of the trace.
Enter == /\ phase = "run" /\ cpu = Off
         /\ \E entry \in start_pc :
              Execute([Off EXCEPT !.at = entry.pc, !.src = NextInTrace(entry.src)])

\* The stack pointer moves; what is in the slots is lost.
RunFrame == /\ Running /\ Fetch.do = "lea"
            /\ Execute([cpu EXCEPT !.at = Behind, !.depth = @ - Fetch.disp, !.slot = << >>])

SlotValue(s) == IF s \in DOMAIN cpu.slot THEN cpu.slot[s] ELSE Junk
RunMove ==
  /\ Running
  /\ LET c == Fetch
         store == (c.slot :> cpu.reg[c.gpr]) @@ cpu.slot
         load == [cpu.reg EXCEPT ![c.gpr] = SlotValue(c.slot)]
         swap == [cpu.reg EXCEPT ![c.gpr] = cpu.reg[c.other], ![c.other] = cpu.reg[c.gpr]]
     IN  \/ c.do = "spill" /\ Execute([cpu EXCEPT !.at = Behind, !.slot = store])
         \/ c.do = "fill" /\ Execute([cpu EXCEPT !.at = Behind, !.reg = load])
         \/ c.do = "swap" /\ Execute([cpu EXCEPT !.at = Behind, !.slot = store, !.reg = load])
         \/ c.do = "xchg" /\ Execute([cpu EXCEPT !.at = Behind, !.reg = swap])

\* Values that are overwritten, by the register that holds the new one.
Overwritten(places, regs, home(_)) ==
  [p \in DOMAIN places |->
     IF \E x \in regs : home(x) = p THEN CHOOSE x \in regs : home(x) = p
     ELSE IF places[p] \in regs THEN Junk ELSE places[p]]
InRegisters(regs, home(_)) == Overwritten(cpu.reg, regs, home)
InSlots(regs) == Overwritten(cpu.slot, regs, LAMBDA x : Junk)

\* LAHF and SETO; ADD, which makes the overflow flag again, and SAHF.
RunFlags ==
  /\ Running
  /\ LET saved == IF cpu.reg[Fetch.gpr] = SavedFlags THEN cpu.saved ELSE {}
     IN  \/ /\ Fetch.do = "lahf"
            /\ Execute([cpu EXCEPT !.at = Behind, !.saved = cpu.flags \ {Overflow},
                                   !.reg = InRegisters({SavedFlags}, LAMBDA x : Fetch.gpr),
                                   !.slot = InSlots({SavedFlags})])
         \/ /\ Fetch.do = "seto"
            /\ Execute([cpu EXCEPT !.at = Behind,
                                   !.saved = saved \cup (cpu.flags \cap {Overflow})])
         \/ /\ Fetch.do = "add"
            /\ Execute([cpu EXCEPT !.at = Behind, !.flags = saved \cap {Overflow}])
         \/ /\ Fetch.do = "sahf"
            /\ Execute([cpu EXCEPT !.at = Behind,
                                   !.flags = (@ \cap {Overflow}) \cup (saved \ {Overflow})])

RunJump == /\ Running
           /\ \/ Fetch.do = "jump"
              \/ Fetch.do = "instr" /\ At(Fetch.at).op = "branch" /\ ~At(Fetch.at).cond
           /\ Execute([cpu EXCEPT !.at = Fetch.target])

\* An instruction that may leave the flags alone may also write them.  One that
\* became a move leaves the stack pointer where it is.
RunInstr ==
  /\ Running /\ Fetch.do = "instr" /\ At(Fetch.at).op \in {"native", "syscall"}
  /\ LET instr == At(Fetch.at)
         regs == instr.defs \cup instr.updates
     IN  \E w \in {instr.writes} \cup {{} : m \in {m \in {TRUE} : instr.maybe}} :
           Execute([cpu EXCEPT !.at = Behind, !.src = NextInTrace(NextOf(@)),
                               !.flags = IF instr.app THEN @ \cup w ELSE @ \ w,
                               !.saved = IF instr.app THEN @ \ w ELSE @,
                               !.reg = InRegisters(regs, LAMBDA x : HomeOf(Fetch, x)),
                               !.slot = InSlots(regs),
                               !.depth = IF Fetch.moved THEN @ + StackPointerShiftAmount(Fetch) ELSE @])

\* Conditional branches go either way, and calls go and come back.
RunBranch ==
  /\ Running /\ Fetch.do = "instr"
  /\ LET instr == At(Fetch.at)
         target == IF instr.op = "branch" THEN NextOf(LabelOf(Fetch.at)) ELSE <<instr.to, 1>>
     IN  /\ instr.op \in {"condjump", "call"} \/ (instr.op = "branch" /\ instr.cond)
         /\ \E taken \in BOOLEAN :
              Execute([cpu EXCEPT
                !.at = IF taken # Fetch.negated THEN Fetch.target ELSE Behind,
                !.flags = IF instr.op = "call" /\ ~taken THEN Flags ELSE @,
                !.reg = IF instr.op = "call" /\ ~taken THEN Off.reg ELSE @,
                !.src = NextInTrace(IF taken THEN target ELSE NextOf(@))])

\* Control goes elsewhere, and comes back some time.
Leaves == Fetch.do = "exit" \/ (Fetch.do = "instr" /\ At(Fetch.at).op = "return")
Leave == Running /\ Leaves /\ Execute(Off)

AssembleStep == /\ BuildStep \/ FlagStep \/ RegisterStep \/ StartOrder
                   \/ OrderFragment \/ AddConnectingJumps
                /\ UNCHANGED <<code, start_pc, cpu>>

Next == \/ AssembleStep \/ EncodeAndFree
        \/ Enter \/ RunFrame \/ RunMove \/ RunFlags \/ RunJump \/ RunInstr \/ RunBranch
        \/ Leave

Spec == Init /\ [][Next]_vars
-----------------------------------------------------------------------------
\* The code does what the trace does: whatever path is taken, from any entry,
\* the instructions of the trace are executed in its order, none is left out
\* and none is added, until the trace is left where it should be
\* (2_build_fragment_list.cc, 10_add_connecting_jumps.cc, compile.cc).
FollowsTrace ==
  Running => CASE Fetch.do = "instr" -> Fetch.at = cpu.src \/ (At(Fetch.at).op = "branch" /\ ~At(Fetch.at).cond)
               [] Fetch.do = "exit" -> Fetch.at = cpu.src
               [] OTHER -> Fetch.do # "nothing"

\* The application never sees flags of the instrumentation: where it reads a
\* flag, and where it leaves the trace, the flag has the value that the
\* application gave it last (4_add_entry_exit_fragments.cc,
\* 5_save_and_restore_flags.cc).
FlagsPreserved ==
  Running => /\ Leaves => cpu.flags = Flags
             /\ Fetch.do = "instr" /\ At(Fetch.at).app => At(Fetch.at).reads \subseteq cpu.flags

\* Nor does it see values of the instrumentation in its registers, and tools find
\* in their virtual registers what they put there, wherever these are at the time
\* (6_track_virtual_regs.cc, 8_schedule_registers.cc).
LeavesPartition == Leaves \/ (Fetch.do = "instr" /\ At(Fetch.at).op \in {"condjump", "call", "syscall"})
RegistersPreserved ==
  Running => /\ LeavesPartition => \A g \in GPR : cpu.reg[g] = g
             /\ Fetch.do = "instr" =>
                  \A x \in At(Fetch.at).uses \cup At(Fetch.at).updates : cpu.reg[HomeOf(Fetch, x)] = x

\* On all paths the stack pointer is back where the application has it when the
\* partition is left, in between the application's accesses to its stack go where
\* they should, and no slot is where the application keeps data
\* (9_allocate_slots.cc).
StackIsValid == \A b \in DOMAIN trace : \A i \in DOMAIN trace[b].instrs :
                  trace[b].instrs[i].op # "badstack"
StackPreserved ==
  Running => /\ LeavesPartition => cpu.depth = 0
             /\ Fetch.do = "instr" /\ At(Fetch.at).stack # "none" =>
                  Fetch.disp = cpu.depth + (IF At(Fetch.at).stack = "push" /\ Fetch.moved THEN -1 ELSE 0)
             /\ Fetch.do \in {"spill", "fill", "swap"} /\ StackIsValid =>
                  Fetch.slot < cpu.depth - RedZone
=============================================================================
