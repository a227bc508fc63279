--------------------------- MODULE MCTranslation ---------------------------
(***************************************************************************)
(* Runs the sequential parts of a translation, one of them at a time: the  *)
(* block factory, one instruction through the mangler, the assembler and   *)
(* what it makes, the modules' address ranges and the tool manager.        *)
(***************************************************************************)
EXTENDS BlockFactory

CONSTANTS Parts,            \* The parts to run.
          Traces,           \* The traces to assemble.
          A, B, C, N,
          Module, MaxAddr, Offset, None,
          Tool, Priority, TestTool, tool_a, tool_b, MaxSessions, MaxFlags,
          cf, of, Flags, Overflow, NumGPRs, Restricted, RedZone

VARIABLES part,
          modules, ranges, mapped,
          clients, requires, session, tool_phase, registering, requested,
          next_request, gNextToolId, gToolNames, gRegisteredTools,
          gToolDependencies, id, is_active, gPrevRequestedTool, stack,
          gActiveTools, allocation_offset, gAllocationSize,
          asm_trace, frags, current, stage, code, start_pc, cpu,
          instr, situation, list, pass, native, machine, mangled_next

\* A program: a branch both sides of which lead to B, an instruction in B that
\* may fault, and a conditional jump back in C, before native code.
To(pc, strategy) == [pc |-> pc, strategy |-> strategy]
MCSucc == [pc \in PC |-> CASE pc = A -> <<To(B, Later), To(B, Later)>>
                           [] pc = B -> <<To(A, InFuture), To(C, DecodeNow)>>
                           [] pc = C -> <<To(A, Later), To(N, Later)>>
                           [] pc = N -> << >>]

\* Two tools may require each other; sizes and alignments that leave gaps.
MCRequirements == {<< >>, <<tool_a>>, <<tool_b>>}
MCSize == [t \in Tool |-> CASE t = tool_a -> 8 [] t = tool_b -> 3 [] OTHER -> 1]
MCAlign == [t \in Tool |-> IF t = tool_a THEN 4 ELSE 1]

Ranges == INSTANCE ModuleRanges
ASSUME RangesAssumption == MaxAddr \in Nat /\ Offset \subseteq Nat

Tools == INSTANCE ToolManager WITH phase <- tool_phase,
           Requirements <- MCRequirements, Size <- MCSize, Align <- MCAlign

\* The assembler's own Init is not used: TranslationInit chooses the trace.
Asm == INSTANCE Assembler WITH trace <- asm_trace, phase <- stage, Traces <- {}

\* Neither is the mangler's: TranslationInit chooses the instruction.
Mangle == INSTANCE Mangler WITH next <- mangled_next, Words <- 16, Byte <- 4,
            SegBase <- [s \in {"DS", "FS"} |-> IF s = "FS" THEN 9 ELSE 0],
            Near <- {2, 3}, Absolute <- {1, 2, 3, 14, 15}, Fits32 <- {1, 2, 3, 4, 5}, Frames <- {0, 5},
            Instructions <- {}, States <- {}

-----------------------------------------------------------------------------
(* Traces.                                                                 *)

\* Two virtual registers; the application's registers are the first of the others.
V == NumGPRs
W == NumGPRs + 1

\* Instructions of the application and of the tools.
App(reads, writes) == [Asm!Plain EXCEPT !.reads = reads, !.writes = writes]
Mov == [Asm!Plain EXCEPT !.uses = {0}, !.defs = {1}]
Adc == [App({cf}, {cf, of}) EXCEPT !.updates = {0}]
Shl == [App({}, {cf, of}) EXCEPT !.maybe = TRUE]
Push == [Asm!Plain EXCEPT !.uses = {1}, !.stack = "push"]
Pop == [Asm!Plain EXCEPT !.defs = {1}, !.stack = "pop"]
OfTool(writes) == [App({}, writes) EXCEPT !.app = FALSE]
Add == [OfTool({cf, of}) EXCEPT !.defs = {V}, !.uses = {0}]
Inc == [OfTool({of}) EXCEPT !.defs = {V}]
Lea == [OfTool({}) EXCEPT !.uses = {V}]
Label(l) == [Asm!Plain EXCEPT !.op = "label", !.to = l]
Entry(l) == [Label(l) EXCEPT !.taken = TRUE]
Annotation(op, to) == [Asm!Plain EXCEPT !.op = op, !.to = to]
Goto(l) == [Asm!Plain EXCEPT !.op = "branch", !.app = FALSE, !.to = l]
If(l) == [Goto(l) EXCEPT !.cond = TRUE, !.reads = {of}]
AppIf(l) == [Goto(l) EXCEPT !.app = TRUE, !.cond = TRUE, !.near = TRUE]
Jump(b) == [Asm!Plain EXCEPT !.op = "jump", !.to = b]
CondJump(b) == [Jump(b) EXCEPT !.op = "condjump", !.cond = TRUE, !.reads = {of}]
Call(b) == [Jump(b) EXCEPT !.op = "call"]
Syscall == [Asm!Plain EXCEPT !.op = "syscall"]
Return == [Asm!Plain EXCEPT !.op = "return"]

Block(instrs) == [class |-> "decoded", cold |-> FALSE, instrs |-> instrs]
ColdBlock(instrs) == [Block(instrs) EXCEPT !.cold = TRUE]
Exit == [class |-> "direct", cold |-> FALSE, instrs |-> << >>]
CachedBlock == [Exit EXCEPT !.class = "cached"]

\* Two blocks of the application, with or without instrumentation, and what they
\* do to the flags; all ways to loop, to call and to leave.
Bodies == {p \o b : p \in {<< >>, <<Add>>},
                    b \in {<<Adc>>, <<Mov>>, <<Shl>>, <<Push, Inc, Pop>>}}
Ends(x) == {<<Jump(1)>>, <<Jump(2)>>, <<CondJump(1), Jump(x)>>, <<Jump(x)>>, <<Return>>}
Loops == {<<Block(b \o e), Block(c \o f), Exit>> :
            b \in Bodies, c \in Bodies, f \in Ends(3),
            e \in {<<Jump(2)>>, <<CondJump(1), Jump(2)>>}}
         \cup {<<Block(b \o <<CondJump(3), Jump(2)>>), Block(c \o f), Exit, CachedBlock>> :
                 b \in Bodies, c \in Bodies, f \in Ends(4)}

\* One block whose instrumentation has control flow of its own: tests of the tools
\* that skip code or repeat it, labels that nothing or something else refers to,
\* code that is moved to another cache, a loop instruction of the application as
\* the mangler leaves it, system calls and changes of the interrupts.
Middles == {<<Inc, If(1), Lea, Label(1)>>,
            <<Add, If(1), Annotation("cache", Asm!Cold), Inc, Label(1)>>,
            <<Inc, If(1), Label(2), Adc, Label(1)>>,
            <<Add, If(1), Inc, If(1), Lea, Label(1)>>,
            <<Label(1), Inc, If(1)>>,
            <<Goto(2), Label(1), Jump(2), Label(2), AppIf(1)>>,
            <<Label(2), Annotation("interrupts", 0)>>,
            <<Syscall>>,
            <<CondJump(2), Add>>}
Shapes == {<<Block(p \o m \o s \o <<Call(3), Jump(4)>>), Exit, CachedBlock, Exit>> :
             p \in {<< >>, <<Adc>>, <<Add>>, <<Shl, Add>>},
             m \in Middles,
             s \in {<< >>, <<Adc>>, <<Inc, Push>>}}

\* Paths that part and join, one through a cold block; and code behind a label
\* whose address a function wrapper takes.
Others == {<<Block(b \o <<CondJump(2), Jump(3)>>), ColdBlock(c \o <<Jump(4)>>),
             Block(d \o <<Jump(4)>>), Block(<<Adc, Return>>)>> :
             b \in Bodies, c \in Bodies, d \in Bodies}
          \cup {<<Block(b \o <<Jump(2), Entry(1)>> \o c \o <<Jump(3)>>), Exit, Exit>> :
                  b \in Bodies, c \in Bodies}

\* Virtual registers: all ways to define and use one between and around accesses
\* to the application's registers and stack, in one fragment and across branches,
\* also into cold code, and without a stack; and two of them, either both with a
\* register of their own or both without one.
Def(r) == [OfTool({}) EXCEPT !.defs = {r}]
Use(r) == [OfTool({}) EXCEPT !.uses = {r}]
Update(r) == [OfTool({}) EXCEPT !.updates = {r}]
UseHigh(r) == [Use(r) EXCEPT !.uses = {0, r}, !.legacy = TRUE]
Copy(from, to) == [Asm!Plain EXCEPT !.uses = {from}, !.defs = {to}]
Access == [Copy(1, 0) EXCEPT !.stack = "access"]
Test(l) == <<OfTool({of}), If(l)>>

Straight == {<<Def(V)>> \o s : s \in [1 .. 3 -> {Use(V), UseHigh(V), Update(V), Def(V), Copy(1, 2),
                                               Adc, Push, Access}]}
Pairs == {<<Def(V), Def(W), a, Use(V), b, Use(W)>> : a \in {Use(V), Adc, Copy(0, 1)}, b \in {Use(V), Copy(1, 2)}}
BothOrNone(s) == LET gprs == Asm!GPR \cap UNION {s[i].uses \cup s[i].defs \cup s[i].updates : i \in DOMAIN s}
                 IN  gprs = Asm!GPR \/ Cardinality(gprs) <= 1
Diamonds == {p \o Test(1) \o m \o <<Label(1)>> \o q :
               p \in {<<Def(V)>>, <<Def(V), Adc>>},
               m \in {<<Annotation("cache", Asm!Cold), Use(V)>>, <<Update(V)>>, <<Goto(2), Label(2), Use(V)>>,
                      <<Lea, Annotation("cache", Asm!Cold)>>, <<Push, Inc, Pop>>},
               q \in {<<Adc, Use(V)>>, <<Def(V), Adc>>, <<Copy(1, 2), Copy(2, 0), Use(V)>>, <<Adc, Push>>}}
Registers == {<<Block(s \o <<Jump(2)>>), Exit>> :
                s \in Straight \cup Diamonds \cup {p \in Pairs : BothOrNone(p)}
                      \cup {<<Annotation("badstack", 0), Def(V), Push, Use(V), Pop>>}}

MCTraces == Loops \cup Shapes \cup Others \cup Registers

\* Two loops that share a block of instrumentation, and leave at the second block.
TwoLoops == {<<Block(<<Adc, CondJump(2), Jump(3)>>), Block(<<Mov, CondJump(5), Jump(4)>>),
               Block(<<Def(V), Mov, Jump(1)>>), Block(<<Add, Mov, Jump(3)>>), Exit>>}

\* A virtual register with a register of its own, and one that is kept in a slot and
\* borrows the register that the fragment uses least.
SharedRegister == {<<Block(<<Def(V), Copy(1, 2), Copy(2, 1), Copy(1, 2), Def(W), Use(W), Use(V), Jump(2)>>), Exit>>}
-----------------------------------------------------------------------------
(* Instructions and processor states for the mangler.                      *)

\* Memory operands: a register, the stack pointer with and without an offset, an
\* index, an offset from a segment, an absolute and a relative address.
MCOperands ==
  {Mangle!Raw("rbx", Mangle!NoReg, 1, 0, "DS"), Mangle!Raw("rsp", Mangle!NoReg, 1, 0, "DS"), Mangle!Raw("rsp", Mangle!NoReg, 1, 2, "DS"),
   Mangle!Raw("rsp", "rbx", 1, 0, "DS"), Mangle!Raw("rbx", "rcx", 2, 1, "DS"), Mangle!Raw(Mangle!NoReg, "rbx", 1, 0, "DS"),
   Mangle!Raw(Mangle!NoReg, "rbx", 2, 0, "FS"), Mangle!Raw("rbx", Mangle!NoReg, 1, 1, "FS"), Mangle!Raw(Mangle!NoReg, Mangle!NoReg, 1, 5, "FS"),
   Mangle!Raw(Mangle!NoReg, Mangle!NoReg, 1, 3, "DS"), Mangle!Raw("rip", Mangle!NoReg, 1, 3, "DS")}

MCTargets == {Mangle!Rel(2), Mangle!Rel(8), Mangle!Reg("rax"), Mangle!Raw("rsp", Mangle!NoReg, 1, 1, "DS"), Mangle!Raw("rip", Mangle!NoReg, 1, 2, "DS")}

MCInstructions ==
  LET Two(op, as, bs) == {Mangle!Ins(op, a, b) : a \in as, b \in bs}
      One(op, as) == {Mangle!Ins(op, a, Mangle!NoOp) : a \in as}
      sp == {Mangle!Reg("rsp")}
      ax == {Mangle!Reg("rax")}
  IN  Two("MOV", ax, MCOperands \cup sp) \cup Two("MOV", MCOperands, ax \cup sp) \cup
      Two("MOV", sp, MCOperands \cup ax) \cup Two("ADD", ax, MCOperands \cup sp) \cup
      Two("ADD", MCOperands, ax) \cup Two("ADD", sp, {Mangle!Imm(2)} \cup ax) \cup
      Two("LEA", ax \cup sp, {Mangle!Raw("rsp", Mangle!NoReg, 1, 2, "DS"), Mangle!Raw("rbx", Mangle!NoReg, 1, 1, "FS"),
                              Mangle!Raw("rip", Mangle!NoReg, 1, 3, "DS")}) \cup
      One("PUSH", MCOperands \cup ax \cup sp \cup {Mangle!Imm(1), Mangle!Reg("fs")}) \cup
      One("POP", MCOperands \cup ax \cup sp \cup {Mangle!Reg("fs")}) \cup
      One("PUSHF", {Mangle!NoOp}) \cup One("POPF", {Mangle!NoOp}) \cup One("XLAT", {Mangle!NoOp}) \cup
      Two("ENTER", {Mangle!Imm(0), Mangle!Imm(2)}, {Mangle!Imm(0), Mangle!Imm(1), Mangle!Imm(2), Mangle!Imm(3)}) \cup
      One("LEAVE", {Mangle!NoOp}) \cup One("JMP", MCTargets) \cup One("CALL", MCTargets) \cup
      One("RET", {Mangle!Imm(0), Mangle!Imm(2)}) \cup One("JZ", {Mangle!Rel(2), Mangle!Rel(8)}) \cup One("JNZ", {Mangle!Rel(2), Mangle!Rel(8)}) \cup
      UNION {One(op, {Mangle!Rel(3)}) : op \in {"LOOP", "LOOPE", "LOOPNE", "JRCXZ"}}

\* The stack pointer itself is pushed.
PushStackPointer == {Mangle!Ins("PUSH", Mangle!Reg("rsp"), Mangle!NoOp)}

\* Memory holds a different value in every word; virtual registers hold garbage.
MCStates ==
  {[regs |-> [r \in Mangle!AppRegs \cup ToSet(Mangle!VReg) \cup {"t1"} |->
                CASE r = "rsp" -> 6 [] r = "rbp" -> rbp [] r = "rax" -> 5 [] r = "rbx" -> rbx
                  [] r = "rcx" -> rcx [] r = "fs" -> 1 [] OTHER -> 14],
    mem |-> [a \in 0..15 |-> (5 * a + 3) % 16], flags |-> flags, rip |-> rip, ctl |-> Mangle!NoOp] :
     rbp \in {7, 12}, rbx \in {1, 7}, rcx \in {0, 1, 2}, flags \in {0, 1}, rip \in {2, 9}}
-----------------------------------------------------------------------------
rangeVars == <<modules, ranges, mapped>>
toolVars == <<clients, requires, session, tool_phase, registering, requested,
              next_request, gNextToolId, gToolNames, gRegisteredTools,
              gToolDependencies, id, is_active, gPrevRequestedTool, stack,
              gActiveTools, allocation_offset, gAllocationSize>>
asmVars == <<asm_trace, frags, current, stage, code, start_pc, cpu>>
mangleVars == <<instr, situation, list, pass, native, machine, mangled_next>>
translationVars == <<part, vars, rangeVars, toolVars, asmVars, mangleVars>>

\* A part starts with one state of the others.  Of the program, A and B may be
\* in the index and may be adapted or rejected.
FirstTrace == CHOOSE t \in Traces : TRUE
FirstInstruction == Mangle!Ins("PUSHF", Mangle!NoOp, Mangle!NoOp)
FirstState == CHOOSE s \in MCStates : TRUE
Usual == [index |-> "none", trace |-> "accept"]
TranslationInit ==
  /\ part \in Parts
  /\ Ranges!Init
  /\ Init /\ (\A pc \in PC : (part # "blocks" \/ pc \in {C, N}) => status[pc] = Usual)
  /\ part # "blocks" => kind = "direct"
  /\ Tools!Init
  /\ part # "tools" => /\ clients = <<Priority>> /\ registering = clients
                       /\ \A t \in Tool : requires[t] = << >>
  /\ \E t \in (IF part = "code" THEN Traces ELSE {FirstTrace}) : Asm!BuilderInit(t)
  /\ Asm!ProcessorInit
  /\ \E ins \in (IF part = "instruction" THEN MCInstructions ELSE {FirstInstruction}),
       s \in (IF part = "instruction" THEN MCStates ELSE {FirstState}) : Mangle!Begin(ins, s)
  /\ situation.frame # 0 => instr \notin PushStackPointer

TranslationNext ==
  \/ /\ part = "blocks" /\ Next
     /\ UNCHANGED <<part, rangeVars, toolVars, asmVars, mangleVars>>
  \/ /\ part = "code" /\ Asm!Next
     /\ UNCHANGED <<part, vars, rangeVars, toolVars, mangleVars>>
  \/ /\ part = "instruction" /\ Mangle!Next
     /\ UNCHANGED <<part, vars, rangeVars, toolVars, asmVars>>
  \/ /\ part = "ranges" /\ Ranges!Next
     /\ UNCHANGED <<part, vars, toolVars, asmVars, mangleVars>>
  \/ /\ part = "tools" /\ Tools!Next
     /\ UNCHANGED <<part, vars, rangeVars, asmVars, mangleVars>>

TranslationSpec == TranslationInit /\ [][TranslationNext]_translationVars
-----------------------------------------------------------------------------
\* A trace is closed under its edges, and each of its blocks owns its meta-data
\* (granary/cfg/factory.cc, block.cc).
TraceSound == TraceClosed /\ MetaOwnedOnce

\* An address that is found is found at its offset (os/module.cc).
OffsetsRight == Ranges!OffsetsRight

\* Tools run after the tools they depend on, each once (granary/tool.cc).
ToolOrder == Tools!ToolOrder

\* An instruction and what the manglers make of it do the same, also inside a frame
\* for virtual registers (arch/x86-64/early_mangle.cc, assemble/1_late_mangle.cc,
\* assemble/9_allocate_slots.cc).
InstructionKept == Mangle!MangledIsInstruction /\ Mangle!FrameTransparent

\* RSP moves by the amount that stack analysis takes it to (arch/x86-64/instruction.cc).
ShiftsKnown == Mangle!ShiftsKnown

\* Translated code does what its trace does (granary/code/assemble.cc, compile.cc).
FollowsTrace == Asm!FollowsTrace

\* Instrumentation does not change the flags that the application sees
\* (granary/code/assemble/{4_add_entry_exit_fragments,5_save_and_restore_flags}.cc).
FlagsPreserved == Asm!FlagsPreserved

\* Virtual registers and saved registers share the machine's registers and the
\* slots: the application finds its values in every register that it uses
\* (granary/code/assemble/{6_track_virtual_regs,8_schedule_registers}.cc).
RegistersPreserved == Asm!RegistersPreserved

\* The application finds its stack pointer where it left it, whatever frames and
\* shifts of the stack are around it (assemble/9_allocate_slots.cc).
StackPreserved == Asm!StackPreserved

\* What tools add to the code is hidden from the application: its flags, its registers
\* and its stack pointer (granary/code/assemble.cc).
InstrumentationHidden == FlagsPreserved /\ RegistersPreserved /\ StackPreserved
=============================================================================
