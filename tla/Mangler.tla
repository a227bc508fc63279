------------------------------ MODULE Mangler ------------------------------
(***************************************************************************)
(* One instruction on its way through Granary: it is decoded               *)
(* (arch/x86-64/decode.cc), mangled early (early_mangle.cc), so that every *)
(* memory operand is a register or an address and the stack pointer moves  *)
(* by known amounts, and mangled late (assemble/1_late_mangle.cc), where   *)
(* targets and addresses out of reach are replaced.  If its partition      *)
(* keeps virtual registers on the stack, it is adjusted to the frame that  *)
(* these are in (assemble/9_allocate_slots.cc).  Then the processor runs   *)
(* what came of it, beside the instruction itself.                         *)
(***************************************************************************)
EXTENDS Naturals, Sequences, SequencesExt, FiniteSetsExt
-----------------------------------------------------------------------------
(* The part of an x86-64 processor that mangling is about: registers, a    *)
(* stack, memory operands and control transfer.  Memory is words, and a    *)
(* word is one unit of an address.  Addresses and values wrap around.      *)

CONSTANTS
  Words,            \* Size of memory; values are 0..(Words - 1).
  Byte,             \* Values of the low byte of a register: 0..(Byte - 1).
  SegBase           \* Base of each segment, 0 for "DS".

AppRegs == {"rsp", "rbp", "rax", "rbx", "rcx", "fs"}
Value == 0..(Words - 1)
NoReg == "none"

\* Operands.  A memory operand is as XED decodes it ("raw"), compound ("mem"), a
\* plain register ("deref") or an absolute address ("ptr"); a branch goes to an
\* address ("rel") or to a label of the code.
Reg(r) == [k |-> "reg", reg |-> r]
Imm(v) == [k |-> "imm", imm |-> v]
Raw(base, index, scale, disp, seg) ==
  [k |-> "raw", base |-> base, index |-> index, scale |-> scale, disp |-> disp, seg |-> seg]
Mem(base, index, scale, disp, seg) == [Raw(base, index, scale, disp, seg) EXCEPT !.k = "mem"]
Deref(r, seg) == [k |-> "deref", reg |-> r, seg |-> seg]
Ptr(a, seg) == [k |-> "ptr", imm |-> a, seg |-> seg]
Rel(a) == [k |-> "rel", imm |-> a]
Label(name) == [k |-> "label", reg |-> name]
NoOp == [k |-> "none"]

IsMemory(o) == o.k \in {"raw", "mem", "deref", "ptr"}

\* An instruction: its class and two operands.
Ins(op, a, b) == [op |-> op, a |-> a, b |-> b]

-----------------------------------------------------------------------------
(* Execution.  A state has registers, memory, flags, the address of the    *)
(* next instruction and, once control leaves, where it goes.               *)

Wrap(v) == v % Words
Low(v) == v % Byte
Minus(x, y) == Wrap(x + Words - y)

RegValue(s, r) == CASE r = NoReg -> 0 [] r = "rip" -> s.rip [] OTHER -> s.regs[r]

\* The address that an operand names, without its segment.
EffectiveAddress(s, o) ==
  CASE o.k \in {"raw", "mem"} -> Wrap(RegValue(s, o.base) + o.scale * RegValue(s, o.index) + o.disp)
    [] o.k = "deref" -> s.regs[o.reg]
    [] o.k = "ptr" -> o.imm
Address(s, o) == Wrap(SegBase[o.seg] + EffectiveAddress(s, o))

Read(s, o) == CASE o.k = "reg" -> s.regs[o.reg]
                [] o.k \in {"imm", "rel"} -> o.imm
                [] OTHER -> s.mem[Address(s, o)]
Write(s, o, v) == IF o.k = "reg" THEN [s EXCEPT !.regs[o.reg] = v]
                  ELSE [s EXCEPT !.mem[Address(s, o)] = v]

Push(s, v) == LET sp == Minus(s.regs["rsp"], 1)
              IN  [s EXCEPT !.regs["rsp"] = sp, !.mem[sp] = v]
Top(s) == s.mem[s.regs["rsp"]]
Shift(s, n) == [s EXCEPT !.regs["rsp"] = Wrap(@ + n)]
Goto(s, target) == [s EXCEPT !.ctl = target]

\* The counter and the condition of each looping instruction.
Loop(s, op, target) ==
  LET rcx == Minus(s.regs["rcx"], 1)
      t == IF op = "JRCXZ" THEN s ELSE [s EXCEPT !.regs["rcx"] = rcx]
      taken == CASE op = "JRCXZ" -> s.regs["rcx"] = 0
                 [] op = "LOOP" -> rcx # 0
                 [] op = "LOOPE" -> rcx # 0 /\ s.flags = 1
                 [] op = "LOOPNE" -> rcx # 0 /\ s.flags # 1
  IN  IF taken THEN Goto(t, target) ELSE t

\* ENTER frame, level: the display of the enclosing frames is copied.
Enter(s, frame, level) ==
  LET pushed == Push(s, s.regs["rbp"])
      temp == pushed.regs["rsp"]
      display == FoldLeft(LAMBDA t, i : Push(t, t.mem[Minus(s.regs["rbp"], i)]), pushed,
                          [i \in 1..(level - 1) |-> i])
      linked == IF level = 0 THEN pushed ELSE Push(display, temp)
  IN  [linked EXCEPT !.regs["rbp"] = temp, !.regs["rsp"] = Minus(@, frame)]

\* Where a branch goes: a label of the code, or an address.
Target(s, o) == IF o.k = "label" THEN o ELSE Imm(Read(s, o))

Exec(s, ins) ==
  LET a == ins.a
      b == ins.b
  IN
  CASE ins.op \in {"LABEL", "ANNOTATION", "NOP", "TEST"} -> s
    [] ins.op = "UD2" -> Goto(s, Label("fault"))
    [] ins.op = "MOV" -> Write(s, a, Read(s, b))
    [] ins.op = "MOV16" -> Write(s, a, Read(s, a) - Low(Read(s, a)) + Low(Read(s, b)))
    [] ins.op = "MOVZX" -> Write(s, a, Low(Read(s, b)))
    [] ins.op = "ADD" -> Write(s, a, Wrap(Read(s, a) + Read(s, b)))
    [] ins.op = "LEA" -> Write(s, a, EffectiveAddress(s, b))
    [] ins.op = "PUSH" -> Push(s, Read(s, a))
    [] ins.op = "POP" -> Write(Shift(s, 1), a, Top(s))
    [] ins.op = "PUSHF" -> Push(s, s.flags)
    [] ins.op = "POPF" -> [Shift(s, 1) EXCEPT !.flags = Top(s)]
    [] ins.op = "XLAT" -> [s EXCEPT !.regs["rax"] =
                             @ - Low(@) + Low(s.mem[Wrap(s.regs["rbx"] + Low(@))])]
    [] ins.op = "ENTER" -> Enter(s, a.imm, b.imm)
    [] ins.op = "LEAVE" -> LET t == [s EXCEPT !.regs["rsp"] = s.regs["rbp"]]
                           IN  [Shift(t, 1) EXCEPT !.regs["rbp"] = Top(t)]
    [] ins.op = "JMP" -> Goto(s, Target(s, a))
    [] ins.op = "CALL" -> Goto(Push(s, s.rip), Target(s, a))
    [] ins.op = "RET" -> Goto(Shift(s, 1 + a.imm), Imm(Top(s)))
    [] ins.op = "JZ" -> IF s.flags = 1 THEN Goto(s, Target(s, a)) ELSE s
    [] ins.op = "JNZ" -> IF s.flags # 1 THEN Goto(s, Target(s, a)) ELSE s
    [] ins.op \in {"LOOP", "LOOPE", "LOOPNE", "JRCXZ"} -> Loop(s, ins.op, Target(s, a))
-----------------------------------------------------------------------------

CONSTANTS
  Instructions,     \* The instructions to translate.
  States,           \* The processor states to run them in.
  Near,             \* Addresses that a 32-bit displacement from the cache reaches.
  Absolute,         \* Addresses that sign-extend from 32 bits.
  Fits32,           \* Addresses that zero-extend from 32 bits.
  Frames            \* Sizes of the frame around an instruction, 0 for none.

VARIABLES
  instr,            \* The instruction.
  situation,        \* What its translation depends on.
  list,             \* The instructions that stand for it.
  pass,             \* How far it is.
  native,           \* The state that the instruction itself leads to.
  machine, next     \* The processor in the translated code.

manglerVars == <<instr, situation, list, pass, native, machine, next>>

-----------------------------------------------------------------------------
(* Decoding.                                                               *)

\* ConvertMemoryOperand and ConvertBaseDisp.
DecodeOperand(o) ==
  CASE o.k # "raw" -> o
    [] o.base = "rip" -> Ptr(Wrap(machine.rip + o.disp), "DS")
    [] o.base = NoReg /\ o.index = NoReg -> Ptr(o.disp, o.seg)
    [] o.base = NoReg /\ o.index # NoReg /\ o.disp = 0 /\ o.scale = 1 -> Deref(o.index, o.seg)
    [] o.index = NoReg /\ o.base \notin {NoReg, "rsp"} /\ o.disp = 0 -> Deref(o.base, o.seg)
    [] OTHER -> [o EXCEPT !.k = "mem"]

\* InstructionDecoder::DecodeInternal skips a conditional jump to the next
\* instruction, and takes a looping instruction for one.
IsSkipped(ins) == ins.op \in {"JZ", "JNZ", "LOOP", "LOOPE", "LOOPNE", "JRCXZ"} /\ ins.a = Rel(machine.rip)

\* ConvertDecodedInstruction.
DecodeInternal(ins) == [ins EXCEPT !.a = DecodeOperand(@), !.b = DecodeOperand(@)]

-----------------------------------------------------------------------------
(* Stack usage (instruction.cc).                                           *)

IsSP(o) == o.k = "reg" /\ o.reg = "rsp"

\* BaseDispMemOp.
BaseDisp(disp, base) == IF disp = 0 THEN Deref(base, "DS") ELSE Mem(base, NoReg, 1, disp, "DS")

WritesToStackPointer(ins) ==
  \/ ins.op \in {"PUSH", "POP", "PUSHF", "POPF", "ENTER", "LEAVE", "CALL", "RET"}
  \/ ins.op \in {"MOV", "ADD", "LEA"} /\ IsSP(ins.a)

ShiftsStackPointer(ins) ==
  \/ ins.op \in {"PUSH", "PUSHF", "POPF", "ENTER", "CALL", "RET"}
  \/ ins.op = "POP" /\ ~IsSP(ins.a)
  \/ ins.op = "ADD" /\ IsSP(ins.a) /\ ins.b.k = "imm"
  \/ ins.op = "LEA" /\ IsSP(ins.a) /\ ins.b.k = "mem" /\ ins.b.base = "rsp" /\ ins.b.index = NoReg

\* StackPointerShiftAmount, as a number of words.
StackPointerShiftAmount(ins) ==
  CASE ins.op \in {"PUSH", "PUSHF", "CALL"} -> Minus(0, 1)
    [] ins.op \in {"POP", "POPF"} /\ ~IsSP(ins.a) -> 1
    [] ins.op = "RET" -> 1 + ins.a.imm
    [] ins.op = "ADD" /\ ShiftsStackPointer(ins) -> Wrap(ins.b.imm)
    [] ins.op = "LEA" /\ ShiftsStackPointer(ins) -> Wrap(ins.b.disp)
    [] OTHER -> 0

-----------------------------------------------------------------------------
(* Early mangling.  n is the number of the next free virtual register.     *)

\* EarlyMangler::regs.
VReg == <<"v1", "v2", "v3", "v4", "v5", "v6">>

\* MangleExplicitMemOp, MangleSegmentOffset: the instruction that goes before,
\* and the operand.
MangleMemOp(o, n) ==
  CASE o.k = "mem" -> [before |-> <<Ins("LEA", Reg(VReg[n]), [o EXCEPT !.seg = "DS"])>>,
                       op |-> Deref(VReg[n], o.seg), n |-> n + 1]
    [] o.k = "ptr" /\ o.seg # "DS" -> [before |-> <<Ins("MOV", Reg(VReg[n]), Imm(o.imm))>>,
                                       op |-> Deref(VReg[n], o.seg), n |-> n + 1]
    [] OTHER -> [before |-> << >>, op |-> o, n |-> n]

\* MangleExplicitStackPointerRegOp, for an operand that is only read.
MangleReadOp(o, n) ==
  IF IsSP(o) THEN [before |-> <<Ins("LEA", Reg(VReg[n]), BaseDisp(0, "rsp"))>>, op |-> Reg(VReg[n]), n |-> n + 1]
  ELSE MangleMemOp(o, n)

\* MangleExplicitOps.  A move of the stack pointer to a register becomes a LEA.
MangleExplicitOps(ins, n) ==
  IF ins.op = "MOV" /\ ins.a.k = "reg" /\ IsSP(ins.b)
  THEN <<Ins("LEA", ins.a, BaseDisp(0, "rsp"))>>
  ELSE LET a == MangleMemOp(ins.a, n)
           b == MangleReadOp(ins.b, a.n)
       IN  a.before \o b.before \o <<Ins(ins.op, a.op, b.op)>>

\* MangleIndirectCFI.
MangleIndirectTarget(ins, n) ==
  CASE IsMemory(ins.a) -> MangleExplicitOps(Ins("MOV", Reg(VReg[n]), ins.a), n + 1) \o
                          <<Ins(ins.op, Reg(VReg[n]), NoOp)>>
    [] ins.a.k = "reg" -> <<Ins("MOV", Reg(VReg[n]), ins.a), Ins(ins.op, Reg(VReg[n]), NoOp)>>
    [] OTHER -> <<ins>>

\* ManglePush.
ManglePush(ins, n) ==
  CASE IsMemory(ins.a) -> MangleExplicitOps(Ins("MOV", Reg(VReg[n]), ins.a), n + 1) \o
                          <<Ins("PUSH", Reg(VReg[n]), NoOp)>>
    [] ins.a = Reg("fs") -> <<Ins("MOV16", Reg(VReg[n]), ins.a), Ins("MOVZX", Reg(VReg[n]), Reg(VReg[n])),
                              Ins("PUSH", Reg(VReg[n]), NoOp)>>
    [] OTHER -> <<ins>>

\* Mutant: the displacement from the stack pointer is left alone.
PopOperandUnmoved(o) == o

\* ManglePopMemOp: where the popped word goes, seen before RSP has moved.
PopOperand(o) ==
  CASE o.k = "mem" /\ o.base = "rsp" -> [o EXCEPT !.disp = Wrap(@ + 1)]
    [] o.k = "deref" /\ o.reg = "rsp" -> BaseDisp(1, "rsp")
    [] OTHER -> o

\* ManglePop.
ManglePop(ins, n) ==
  CASE IsMemory(ins.a) ->
         <<Ins("MOV", Reg(VReg[n]), BaseDisp(0, "rsp"))>> \o
         MangleExplicitOps(Ins("MOV", PopOperand(ins.a), Reg(VReg[n])), n + 1) \o
         <<Ins("LEA", Reg("rsp"), BaseDisp(1, "rsp"))>>
    [] IsSP(ins.a) -> MangleExplicitOps(Ins("MOV", ins.a, BaseDisp(0, "rsp")), n)
    [] ins.a = Reg("fs") -> <<Ins("POP", Reg(VReg[n]), NoOp), Ins("MOV16", ins.a, Reg(VReg[n]))>>
    [] OTHER -> <<ins>>

\* MangleXLAT.
MangleXLAT(n) ==
  <<Ins("MOVZX", Reg(VReg[n]), Reg("rax")), Ins("LEA", Reg(VReg[n]), Mem(VReg[n], "rbx", 1, 0, "DS")),
    Ins("MOV16", Reg("rax"), Deref(VReg[n], "DS"))>>

\* MangleEnter.  The display is copied to where the pushes would have put it.
MangleEnter(frame_size, num_args, n) ==
  LET temp_rbp == VReg[n]
      addr == VReg[n + 1]
      dest == VReg[n + 2]
      val == VReg[n + 3]
      Copy(i) == <<Ins("LEA", Reg(addr), BaseDisp(Minus(0, i), "rbp")),
                   Ins("LEA", Reg(dest), BaseDisp(num_args - i - 1, "rsp")),
                   Ins("MOV", Reg(val), Deref(addr, "DS")),
                   Ins("MOV", Deref(dest, "DS"), Reg(val))>>
      display == <<Ins("LEA", Reg("rsp"), BaseDisp(Minus(0, num_args - 1), "rsp"))>> \o
                 FlattenSeq([i \in 1..(num_args - 1) |-> Copy(i)]) \o
                 <<Ins("PUSH", Reg(temp_rbp), NoOp)>>
  IN  <<Ins("PUSH", Reg("rbp"), NoOp), Ins("LEA", Reg(temp_rbp), BaseDisp(0, "rsp"))>> \o
      (IF num_args = 0 THEN << >> ELSE display) \o
      (IF frame_size = 0 THEN << >>
       ELSE <<Ins("LEA", Reg("rsp"), BaseDisp(Minus(0, frame_size), "rsp"))>>) \o
      <<Ins("MOV", Reg("rbp"), Reg(temp_rbp))>>

\* MangleLeave.
MangleLeave == <<Ins("MOV", Reg("rsp"), Reg("rbp")), Ins("POP", Reg("rbp"), NoOp)>>

Annotation == Ins("ANNOTATION", NoOp, NoOp)

\* Mutant: a pop of the stack pointer is taken for a shift.
AnnotateNothing(ins) == << >>

\* kAnnotInvalidStack, before an instruction that moves RSP by an unknown amount.
InvalidStack(ins) ==
  IF WritesToStackPointer(ins) /\ ~ShiftsStackPointer(ins) THEN <<Annotation>> ELSE << >>

\* MangleDecodedInstruction.
MangleDecodedInstruction(ins) ==
  InvalidStack(ins) \o
  CASE ins.op \in {"CALL", "JMP"} -> MangleIndirectTarget(ins, 1)
    [] ins.op = "PUSH" -> ManglePush(ins, 1)
    [] ins.op = "POP" -> ManglePop(ins, 1)
    [] ins.op = "XLAT" -> MangleXLAT(1)
    [] ins.op = "ENTER" -> MangleEnter(ins.a.imm, ins.b.imm, 1)
    [] ins.op = "LEAVE" -> MangleLeave
    [] ins.op = "PUSHF" -> <<Ins("PUSHF", Reg(VReg[1]), NoOp)>>
    [] ins.op = "POPF" -> <<Annotation, ins>>
    [] ins.op \in {"MOV", "ADD"} -> MangleExplicitOps(ins, 1)
    [] OTHER -> <<ins>>

-----------------------------------------------------------------------------
(* Late mangling.  t1 is a temporary virtual register.                     *)

NativeAddress(target) == Imm(target)
UD2 == Ins("UD2", NoOp, NoOp)
IsLoop(op) == op \in {"LOOP", "LOOPE", "LOOPNE", "JRCXZ"}
LabelAt(name) == Ins("LABEL", Label(name), NoOp)

\* kReversedConditionalCFIs.
Reversed(op) == IF op = "JZ" THEN "JNZ" ELSE "JZ"

\* RelativizeConditionalBranch.  The trap is inserted last, right behind the jump.
RelativizeConditionalBranch(ins) ==
  <<Ins(Reversed(ins.op), Label("around"), NoOp), Ins("JMP", NativeAddress(ins.a.imm), NoOp), UD2,
    LabelAt("around")>>

\* RelativizeLoop.  Here the trap is inserted first, and ends up behind the loop.
RelativizeLoop(ins, far) ==
  <<Ins("JMP", Label("try_loop"), NoOp), LabelAt("do_loop"),
    Ins("JMP", IF far THEN NativeAddress(ins.a.imm) ELSE ins.a, NoOp), LabelAt("try_loop"),
    Ins(ins.op, Label("do_loop"), NoOp)>> \o
  (IF far THEN <<UD2>> ELSE << >>)

\* RelativizeDirectCFI, for native code.
RelativizeDirectCFI(ins, far) ==
  CASE IsLoop(ins.op) -> RelativizeLoop(ins, far)
    [] ~far -> <<ins>>
    [] ins.op = "CALL" -> <<Ins("CALL", NativeAddress(ins.a.imm), NoOp)>>
    [] ins.op = "JMP" -> <<Ins("JMP", NativeAddress(ins.a.imm), NoOp), UD2>>
    [] OTHER -> RelativizeConditionalBranch(ins)

\* MangleIndirectReturn, for a return with meta-data.
MangleIndirectReturn(ins) ==
  (IF StackPointerShiftAmount(ins) = 1 THEN <<Ins("POP", Reg("t1"), NoOp)>>
   ELSE <<Ins("MOV", Reg("t1"), BaseDisp(0, "rsp")),
          Ins("LEA", Reg("rsp"), BaseDisp(StackPointerShiftAmount(ins), "rsp"))>>) \o
  <<Ins("JMP", Reg("t1"), NoOp)>>

\* MangleTailCall: the return address is pushed, through a register if it is wide.
MangleTailCall ==
  IF machine.rip \in Fits32 THEN <<Ins("PUSH", Imm(machine.rip), NoOp)>>
  ELSE <<Ins("MOV", Reg("t1"), Imm(machine.rip)), Ins("PUSH", Reg("t1"), NoOp)>>

\* MangleFunctionCall, with ConvertFunctionCallToJump, for the last instruction.
MangleFunctionCall(code) ==
  IF situation.transparent_returns
  THEN Front(code) \o MangleTailCall \o <<Ins("JMP", Last(code).a, NoOp)>>
  ELSE code

\* BlockMangler::MangleCFI.
MangleCFI(ins) ==
  LET direct == ins.a.k = "rel"
      code == CASE direct /\ situation.target = "native" ->
                     RelativizeDirectCFI(ins, ins.a.imm \notin Near)
                [] direct -> IF IsLoop(ins.op) THEN RelativizeLoop(ins, FALSE) ELSE <<ins>>
                [] ins.op = "RET" -> IF situation.target = "meta_data" THEN MangleIndirectReturn(ins)
                                     ELSE <<ins>>
                [] OTHER -> <<ins>>
  IN  IF ins.op = "CALL" THEN MangleFunctionCall(code) ELSE code

\* RelativizeMemOp: an address that is too far and too wide goes to a register.
RelativizeMemOp(ins) ==
  LET far(o) == o.k = "ptr" /\ o.seg = "DS" /\ o.imm \notin Near \cup Absolute
      Through(o) == IF far(o) THEN Deref("t1", "DS") ELSE o
      address == CHOOSE o \in {ins.a, ins.b} : far(o)
  IN  CASE ~(far(ins.a) \/ far(ins.b)) -> <<ins>>
        [] ins.op = "LEA" -> <<Ins("MOV", ins.a, Imm(ins.b.imm))>>
        [] OTHER -> <<Ins("MOV", Reg("t1"), Imm(address.imm)),
                      Ins(ins.op, Through(ins.a), Through(ins.b))>>

IsCFI(ins) == ins.op \in {"JMP", "CALL", "RET", "JZ", "JNZ"} \/ IsLoop(ins.op)

\* BlockMangler::Mangle.
MangleInstructions(code) ==
  FlattenSeq([i \in DOMAIN code |-> IF IsCFI(code[i]) THEN MangleCFI(code[i])
                                    ELSE RelativizeMemOp(code[i])])

-----------------------------------------------------------------------------
(* Frames.  Inside one the stack pointer stands still, below all slots; an *)
(* offset says where the application has it.                               *)

AdjustMemOp(o, offset) ==
  CASE o.k = "mem" /\ o.base = "rsp" -> [o EXCEPT !.disp = Wrap(@ + offset)]
    [] o.k = "deref" /\ o.reg = "rsp" -> BaseDisp(offset, "rsp")
    [] OTHER -> o

\* ManglePush in 9_allocate_slots.cc: where a pushed word goes.
PushOffset(offset, next_offset) == next_offset

\* AdjustStackInstruction: offsets before and after the instruction.
AdjustStackInstruction(ins, offset, next_offset) ==
  LET pushed == BaseDisp(PushOffset(offset, next_offset), "rsp")
      top == BaseDisp(offset, "rsp")
  IN  CASE ins.op = "PUSH" -> <<Ins("MOV", pushed, ins.a)>>
        [] ins.op = "POP" -> <<Ins("MOV", ins.a, top)>>
        [] ins.op = "PUSHF" -> <<Ins("PUSHF", NoOp, NoOp), Ins("POP", ins.a, NoOp), Ins("MOV", pushed, ins.a)>>
        [] ins.op = "POPF" -> <<Ins("PUSH", top, NoOp), ins>>
        [] ins.op = "LEA" /\ IsSP(ins.a) -> <<Ins("NOP", NoOp, NoOp)>>
        [] ins.op = "ADD" /\ IsSP(ins.a) -> <<Ins("TEST", ins.a, ins.a)>>
        [] OTHER -> <<Ins(ins.op, AdjustMemOp(ins.a, offset), AdjustMemOp(ins.b, offset))>>

\* AdjustStackInstructions, between the shifts of the partition's entry and exit.
InFrame(code, frame) ==
  LET Shifted(i) == FoldLeft(LAMBDA n, ins : Wrap(n + StackPointerShiftAmount(ins)), frame,
                            SubSeq(code, 1, i - 1))
      ShiftBy(n) == <<Ins("LEA", Reg("rsp"), BaseDisp(n, "rsp"))>>
  IN  ShiftBy(Minus(0, frame)) \o
      FlattenSeq([i \in DOMAIN code |-> AdjustStackInstruction(code[i], Shifted(i), Shifted(i + 1))]) \o
      ShiftBy(Shifted(Len(code) + 1))

-----------------------------------------------------------------------------
(* The translation of one instruction, and its execution.                  *)

\* The kinds of target block, whether Granary keeps returns transparent, the frame,
\* and words below it that it uses itself.
Situations == [target : {"native", "translated", "meta_data"}, transparent_returns : BOOLEAN,
               frame : Frames, scratch : {{}}]

\* Frames are for partitions in which every shift is known, without control flow.  The
\* register that PUSHF gets puts it into one.
Begin(ins, state) ==
  /\ instr = ins
  /\ situation \in Situations
  /\ IsCFI(ins) \/ (situation.target = "translated" /\ ~situation.transparent_returns)
  /\ situation.target = "meta_data" => ins.op = "RET"
  /\ situation.transparent_returns => ins.op = "CALL"
  /\ machine = state /\ native = state
  /\ situation.frame # 0 => ~IsCFI(ins) /\ InvalidStack(DecodeInternal(ins)) = << >>
  /\ ins.op = "PUSHF" => situation.frame # 0
  /\ list = << >> /\ pass = "decode" /\ next = 1

Init == \E ins \in Instructions, state \in States : Begin(ins, state)

Decode ==
  /\ pass = "decode" /\ pass' = "late"
  /\ list' = IF IsSkipped(instr) THEN << >> ELSE MangleDecodedInstruction(DecodeInternal(instr))
  /\ native' = Exec(native, instr)
  /\ UNCHANGED <<instr, situation, machine, next>>

LateMangle ==
  /\ pass = "late" /\ pass' = IF situation.frame = 0 THEN "run" ELSE "frame"
  /\ list' = MangleInstructions(list)
  /\ UNCHANGED <<instr, situation, native, machine, next>>

\* AllocateStackSlotsStackValid.
AllocateFrame ==
  /\ pass = "frame" /\ pass' = "run"
  /\ list' = InFrame(list, situation.frame)
  /\ situation' = [situation EXCEPT !.scratch = {Minus(machine.regs["rsp"], situation.frame + 1)}]
  /\ UNCHANGED <<instr, native, machine, next>>

\* EncodeOperands: operands that XED has an encoding for.  A LOOP reaches only
\* the labels around it, an address must be near or sign-extend.
CanEncode(ins) ==
  /\ ins.op = "PUSH" /\ ins.a.k = "imm" => ins.a.imm \in Absolute
  /\ \A o \in {ins.a, ins.b} : /\ o.k = "ptr" => o.imm \in Near \cup Absolute
                               /\ o.k = "rel" => /\ o.imm \in Near \/ situation.target # "native"
                                                 /\ ~IsLoop(ins.op)
  /\ ins.op \notin {"ENTER", "LEAVE", "XLAT"}

Step ==
  /\ pass = "run" /\ next <= Len(list) /\ machine.ctl = NoOp
  /\ LET after == IF CanEncode(list[next]) THEN Exec(machine, list[next])
                  ELSE Goto(machine, Label("unencodable"))
         goto == {i \in DOMAIN list : list[i].op = "LABEL" /\ list[i].a = after.ctl}
     IN  /\ machine' = IF goto = {} THEN after ELSE Goto(after, NoOp)
         /\ next' = IF goto = {} THEN next + 1 ELSE Min(goto)
  /\ UNCHANGED <<instr, situation, list, pass, native>>

Next == Decode \/ LateMangle \/ AllocateFrame \/ Step

Spec == Init /\ [][Next]_manglerVars
-----------------------------------------------------------------------------
(* Properties.                                                             *)

\* What the application sees of a state.
Visible(s) == [regs |-> [r \in AppRegs |-> s.regs[r]],
               mem |-> [a \in Value \ situation.scratch |-> s.mem[a]], flags |-> s.flags,
               ctl |-> IF s.ctl = Imm(s.rip) THEN NoOp ELSE s.ctl]
Finished == pass = "run" /\ (next > Len(list) \/ machine.ctl # NoOp)

\* What comes of an instruction does what the instruction does: to the registers
\* and flags of the application, to every word of memory and to control, whatever
\* its operands have to do with the stack pointer that it moves (decode.cc,
\* early_mangle.cc, 1_late_mangle.cc).
MangledIsInstruction ==
  Finished /\ situation.frame = 0 => Visible(machine) = Visible(native)

\* The same in a frame: the instructions that stand for one see the stack and the
\* stack pointer of the application, though the processor's is somewhere else
\* (arch/x86-64/assemble/9_allocate_slots.cc).
FrameTransparent ==
  Finished /\ situation.frame # 0 => Visible(machine) = Visible(native)

\* The amount that stack analysis and slot allocation take RSP to move by is the
\* amount it moves by, unless an annotation before it says that the stack is not
\* known (instruction.cc, and 2_partition_fragments.cc, which relies on it).
ShiftsKnown ==
  [][(next' # next /\ next <= Len(list) /\ situation.frame = 0) =>
       \/ Minus(machine'.regs["rsp"], machine.regs["rsp"]) = StackPointerShiftAmount(list[next])
       \/ \E i \in 1..(next - 1) : list[i] = Annotation /\ ~ShiftsStackPointer(list[next])]_manglerVars
=============================================================================
