----------------------------- MODULE Registers ------------------------------
(***************************************************************************)
(* How registers are named.  A VirtualRegister stands for a part of a      *)
(* general-purpose register, for another register of the processor, or for *)
(* a register still to be chosen.  The decoder makes one from XED's number *)
(* of a register, the scheduler puts a general-purpose register in the     *)
(* place of a virtual one, and the encoder turns it into XED's number      *)
(* again (arch/x86-64/register.cc, granary/code/register.cc,               *)
(* arch/x86-64/assemble/8_schedule_registers.cc).                          *)
(*                                                                         *)
(* One instruction at a time goes through this, with operands from         *)
(* Operands: what XED decoded, and a virtual register of a tool.           *)
(***************************************************************************)
EXTENDS Integers, Sequences, FiniteSets

CONSTANTS
  Native,           \* The registers, by XED's number, that instructions name.
  OtherRegister     \* Of these, the ones that are not general-purpose.

VARIABLES
  instr,            \* The instruction: a sequence of operands [mem, reg].
  source,           \* What the operands were: XED numbers, or the width of the virtual one.
  used_regs,        \* UsedRegisterSet: the bits of its word.
  vr_home,          \* The general-purpose register chosen.
  stage             \* "decode", "visit", "restrict", "home", "replace", "encode"

registerVars == <<instr, source, used_regs, vr_home, stage>>
-----------------------------------------------------------------------------
\* XED's numbers.  In every row the registers are in the order of their encoding:
\* A, C, D, B, SP, BP, SI, DI, 8, ..., 15.
XED_REG_AX == 42
XED_REG_EAX == 58
XED_REG_RAX == 74
XED_REG_RSP == 78
XED_REG_R15 == 89
XED_REG_AL == 90
XED_REG_AH == 106
XED_REG_BH == 109
XED_REG_INVALID == 0

\* xed_get_largest_enclosing_register and xed_get_register_width_bits64.
Row(reg) == CHOOSE r \in {XED_REG_AX, XED_REG_EAX, XED_REG_RAX, XED_REG_AL, XED_REG_AH} :
              r <= reg /\ reg < r + (IF r = XED_REG_AH THEN 4 ELSE 16)
Widest(reg) == IF reg \in OtherRegister THEN reg ELSE XED_REG_RAX + (reg - Row(reg))
Width(reg) ==
  IF reg \in OtherRegister THEN 8
  ELSE CASE Row(reg) = XED_REG_AX -> 2 [] Row(reg) = XED_REG_EAX -> 4
         [] Row(reg) = XED_REG_RAX -> 8 [] OTHER -> 1

\* The bytes of the enclosing register that are named, as masks.
LOW_BYTE == {0}
BYTE_2 == {1}
LOW_2_BYTES == 0..1
LOW_4_BYTES == 0..3
ALL_8_BYTES == 0..7

\* Registers of a kind, with their number, width and bytes.
Reg(kind, reg_num, num_bytes, byte_mask, is_legacy) ==
  [kind |-> kind, reg_num |-> reg_num, num_bytes |-> num_bytes, byte_mask |-> byte_mask,
   is_legacy |-> is_legacy]

NthArchGPR(n) == Reg("gpr", n, 8, ALL_8_BYTES, FALSE)
VirtualGPR(num_bytes) == Reg("virtual", 1024, num_bytes, 0..(num_bytes - 1), FALSE)

\* DecodeFromNative.  The stack pointer has no number among the general-purpose
\* registers: those behind it move up by one.
DecodeFromNative(reg) ==
  LET widest == Widest(reg)
  IN  IF widest < XED_REG_RAX \/ widest > XED_REG_R15 \/ widest = XED_REG_RSP
      THEN Reg("unschedulable", reg, Width(reg), {}, FALSE)
      ELSE Reg("gpr", (widest - XED_REG_RAX) - (IF XED_REG_RSP < widest THEN 1 ELSE 0), Width(reg),
               CASE Row(reg) = XED_REG_AX -> LOW_2_BYTES
                 [] Row(reg) = XED_REG_EAX -> LOW_4_BYTES
                 [] Row(reg) = XED_REG_RAX -> ALL_8_BYTES
                 [] Row(reg) = XED_REG_AL -> LOW_BYTE
                 [] Row(reg) = XED_REG_AH -> BYTE_2,
               XED_REG_AH <= reg /\ reg <= XED_REG_BH)

EncodeBelowRSP(r) ==
  LET widest == XED_REG_RAX + r.reg_num + (IF XED_REG_RSP < XED_REG_RAX + r.reg_num THEN 1 ELSE 0)
  IN  IF r.kind = "unschedulable" THEN r.reg_num
      ELSE CASE r.byte_mask = LOW_BYTE -> widest + (XED_REG_AL - XED_REG_RAX)
             [] r.byte_mask = BYTE_2 -> widest + (XED_REG_AH - XED_REG_RAX)
             [] OTHER -> widest

\* EncodeToNative.
EncodeToNative(r) ==
  LET widest == XED_REG_RAX + r.reg_num + (IF XED_REG_RSP <= XED_REG_RAX + r.reg_num THEN 1 ELSE 0)
  IN  IF r.kind = "unschedulable" THEN r.reg_num
      ELSE IF r.kind # "gpr" THEN XED_REG_INVALID
      ELSE CASE r.byte_mask = LOW_2_BYTES -> widest - (XED_REG_RAX - XED_REG_AX)
             [] r.byte_mask = LOW_4_BYTES -> widest - (XED_REG_RAX - XED_REG_EAX)
             [] r.byte_mask = ALL_8_BYTES -> widest
             [] r.byte_mask = LOW_BYTE -> widest + (XED_REG_AL - XED_REG_RAX)
             [] r.byte_mask = BYTE_2 -> widest + (XED_REG_AH - XED_REG_RAX)
             [] OTHER -> XED_REG_INVALID

\* Widen.
Widen(r, width) == [r EXCEPT !.num_bytes = width, !.byte_mask = 0..(width - 1)]

SameRegister(r, s) == r.reg_num = s.reg_num /\ r.kind = s.kind
-----------------------------------------------------------------------------
\* An instruction has up to two operands as decoded and one with a virtual register,
\* in a register or as the address of memory.
Decode ==
  /\ stage = "decode"
  /\ \E regs \in UNION {[1..n -> Native] : n \in 0..2}, width \in {1, 2, 4, 8}, mem \in BOOLEAN :
       /\ mem => width = 8
       /\ source' = [regs |-> regs, width |-> width]
       /\ instr' = Append([i \in DOMAIN regs |-> [mem |-> FALSE, reg |-> DecodeFromNative(regs[i])]],
                          [mem |-> mem, reg |-> VirtualGPR(width)])
  /\ used_regs' = {} /\ stage' = "visit" /\ UNCHANGED vr_home

\* RegisterSet::Revive(VirtualRegister).
Revived(r) == IF r.kind = "gpr" THEN {r.reg_num} ELSE {}

\* UsedRegisterSet::Visit.
Visit ==
  /\ stage = "visit" /\ stage' = "restrict"
  /\ used_regs' = used_regs \cup UNION {Revived(instr[i].reg) : i \in DOMAIN instr}
  /\ UNCHANGED <<instr, source, vr_home>>

\* UsesLegacyRegisters and ReviveRestrictedRegisters.
UsesLegacyRegisters == \E i \in DOMAIN instr : ~instr[i].mem /\ instr[i].reg.is_legacy

ReviveRestrictedRegisters ==
  /\ stage = "restrict" /\ stage' = "home"
  /\ used_regs' = used_regs \cup (IF UsesLegacyRegisters THEN 7..14 ELSE {})
  /\ UNCHANGED <<instr, source, vr_home>>

\* GetGPR: a register that is not used; which one depends on the rest of the fragment.
GetGPR ==
  /\ stage = "home" /\ stage' = "replace"
  /\ \E n \in 0..14 : n \notin used_regs /\ vr_home' = NthArchGPR(n)
  /\ UNCHANGED <<instr, source, used_regs>>

\* TryReplaceRegInInstruction.
TryReplaceReg(r, old_reg, new_reg) ==
  IF SameRegister(r, old_reg) THEN Widen(new_reg, r.num_bytes) ELSE r

TryReplaceRegInInstruction ==
  /\ stage = "replace" /\ stage' = "encode"
  /\ instr' = [i \in DOMAIN instr |->
                 [instr[i] EXCEPT !.reg = TryReplaceReg(@, VirtualGPR(8), vr_home)]]
  /\ UNCHANGED <<source, used_regs, vr_home>>

NamesInit ==
  /\ instr = << >> /\ source = [regs |-> << >>, width |-> 8] /\ used_regs = {}
  /\ vr_home = NthArchGPR(0) /\ stage = "decode"

\* The encoder takes the instruction.
Encode ==
  /\ stage = "encode" /\ stage' = "decode"
  /\ instr' = << >> /\ source' = [regs |-> << >>, width |-> 8] /\ used_regs' = {}
  /\ vr_home' = NthArchGPR(0)

NamesNext ==
  \/ Decode \/ Visit \/ ReviveRestrictedRegisters \/ GetGPR
  \/ TryReplaceRegInInstruction \/ Encode

NamesSpec == NamesInit /\ [][NamesNext]_registerVars
-----------------------------------------------------------------------------
\* The encoder is given back the registers that were decoded, whatever their row, the
\* stack pointer and the high bytes included, and for the virtual register as many
\* bytes as it has of the register that was chosen (register.cc:34-132, 181-205).
NamesItsBytes ==
  stage = "encode" =>
    LET n == Len(source.regs)
        chosen == EncodeToNative(instr[n + 1].reg)
    IN  /\ \A i \in 1..n : EncodeToNative(instr[i].reg) = source.regs[i]
        /\ Width(chosen) = source.width /\ Row(chosen) # XED_REG_AH
        /\ Widest(chosen) = EncodeToNative(vr_home)

\* The register that is chosen shares no byte with one the instruction names under any
\* width, and where the instruction names AH, CH, DH or BH it is one of the original
\* eight (register.cc:229-289).  Whether the encoder finds room for it is not said: one
\* byte of RBP, RSI or RDI takes a REX prefix as well, and nothing excludes these.
HomeFits ==
  stage = "encode" =>
    LET n == Len(source.regs)
        chosen == EncodeToNative(instr[n + 1].reg)
    IN  /\ \A i \in 1..n : Widest(source.regs[i]) # Widest(chosen)
        /\ (\E i \in 1..n : source.regs[i] \notin OtherRegister /\ Row(source.regs[i]) = XED_REG_AH)
             => Widest(chosen) - XED_REG_RAX < 8
-----------------------------------------------------------------------------
(* The numbers of virtual registers.  They come from three ranges: the     *)
(* temporaries of late mangling, which are taken again for every           *)
(* instruction, the registers of a trace, and those that tools allocate    *)
(* when they are initialised and use in every trace (granary/code/         *)
(* register.h, register.cc, granary/cfg/trace.cc, arch/early_mangle.cc).   *)
(*                                                                         *)
(* Assertions alone watch over the ranges.  A debug build stops where one  *)
(* fails; a release build has none of them and goes on, and so does this.  *)

CONSTANTS
  kMinTemporaryVirtualRegister, kMinTraceVirtualRegister, kMinGlobalVirtualRegister,
  kMaxNumVirtRegs,          \* Registers of an early mangler.
  kMaxNumFuncOperands,      \* Argument registers of a block.
  kMaxTemporaries,          \* Temporaries that late mangling takes for one instruction.
  MaxBlocks, MaxGlobals, MaxExtra   \* Bounds: blocks of a trace, and registers that tools take.

VARIABLES
  gNextVirtualRegister,     \* The next one of a tool.
  num_virtual_regs, num_temporary_regs,   \* The trace's.
  vr_stage,                    \* "init", "trace", "mangle"
  blocks, extra,            \* Blocks of the trace, and registers tools took in it: for the bounds.
  held,                     \* Ranges <<first, last, holder>> that are in use.
  asserted                  \* Whether all assertions have held so far.

virtualVars ==
  <<gNextVirtualRegister, num_virtual_regs, num_temporary_regs, vr_stage, blocks, extra, held, asserted>>

\* reg_num has 16 bits.
kNumRegNums == 65536

NumbersInit ==
  /\ gNextVirtualRegister = kMinGlobalVirtualRegister
  /\ num_virtual_regs = kMinTraceVirtualRegister
  /\ num_temporary_regs = kMinTemporaryVirtualRegister
  /\ vr_stage = "init" /\ blocks = 0 /\ extra = 0 /\ held = {} /\ asserted = TRUE

\* n registers with consecutive numbers, for one holder.
Held(first, n, holder) == IF n = 0 THEN {} ELSE {<<first, first + n - 1, holder>>}

\* AllocateVirtualRegister: a tool takes registers when it is initialised.  They are told
\* apart by their numbers: those below the range, which no tool is meant to get, come
\* round before one comes again.
ToolInit ==
  /\ vr_stage = "init" /\ gNextVirtualRegister < kMinGlobalVirtualRegister + MaxGlobals
  /\ gNextVirtualRegister' = (gNextVirtualRegister + 1) % kNumRegNums
  /\ held' = held \cup Held(gNextVirtualRegister, 1, <<"tool", gNextVirtualRegister>>)
  /\ asserted' = (asserted /\ kMinGlobalVirtualRegister <= gNextVirtualRegister)
  /\ UNCHANGED <<num_virtual_regs, num_temporary_regs, vr_stage, blocks, extra>>

\* A trace begins: its constructor starts both of its ranges.
NewTrace ==
  /\ vr_stage = "init"
  /\ num_virtual_regs' = kMinTraceVirtualRegister
  /\ num_temporary_regs' = kMinTemporaryVirtualRegister
  /\ vr_stage' = "trace" /\ blocks' = 0 /\ extra' = 0
  /\ UNCHANGED <<gNextVirtualRegister, held, asserted>>

\* Mutant: the first number that a block takes is checked, not the last.
AllocateFirstAsserted(n, holder) ==
  /\ num_virtual_regs' = (num_virtual_regs + n) % kNumRegNums
  /\ held' = held \cup Held(num_virtual_regs, n, holder)
  /\ asserted' = (asserted /\ num_virtual_regs < kMinGlobalVirtualRegister)

\* Trace::AllocateVirtualRegister, n times, with its two assertions each time.
AllocateVirtualRegisters(n, holder) ==
  /\ num_virtual_regs' = (num_virtual_regs + n) % kNumRegNums
  /\ held' = held \cup Held(num_virtual_regs, n, holder)
  /\ asserted' = (asserted /\ \A i \in 1..n :
                     /\ kMinTraceVirtualRegister <= (num_virtual_regs + i) % kNumRegNums
                     /\ kMinGlobalVirtualRegister > (num_virtual_regs + i) % kNumRegNums)

\* A block takes its argument registers, and when it is decoded the early mangler
\* takes all of its own; a compensation block is not decoded.
NewBlock(decoded) ==
  /\ vr_stage = "trace" /\ blocks < MaxBlocks
  /\ blocks' = blocks + 1
  /\ AllocateVirtualRegisters(kMaxNumFuncOperands + (IF decoded THEN kMaxNumVirtRegs ELSE 0),
                              <<"block", blocks>>)
  /\ UNCHANGED <<gNextVirtualRegister, num_temporary_regs, vr_stage, extra>>

\* DecodedBlock::AllocateVirtualRegister: a tool takes a register of the trace, for
\* inline assembly or for the state that is saved for an exception.
ToolRegister ==
  /\ vr_stage = "trace" /\ blocks > 0 /\ extra < MaxExtra
  /\ extra' = extra + 1
  /\ AllocateVirtualRegisters(1, <<"instrumentation", extra>>)
  /\ UNCHANGED <<gNextVirtualRegister, num_temporary_regs, vr_stage, blocks>>

\* Late mangling of one instruction: FreeTemporaryRegisters, then as many as it needs,
\* each asserted to be below those of the trace.
RelativizeInstruction(n) ==
  /\ vr_stage \in {"trace", "mangle"} /\ blocks > 0 /\ vr_stage' = "mangle"
  /\ num_temporary_regs' = kMinTemporaryVirtualRegister + n
  /\ held' = {h \in held : h[3] # <<"temporary">>}
               \cup Held(kMinTemporaryVirtualRegister, n, <<"temporary">>)
  /\ asserted' = (asserted /\ kMinTemporaryVirtualRegister + n <= kMinTraceVirtualRegister)
  /\ UNCHANGED <<gNextVirtualRegister, num_virtual_regs, blocks, extra>>

\* The trace is encoded and destroyed; the registers of tools stay.
EndTrace ==
  /\ vr_stage = "mangle" /\ vr_stage' = "init"
  /\ held' = {h \in held : h[3][1] = "tool"}
  /\ blocks' = 0 /\ extra' = 0
  /\ UNCHANGED <<gNextVirtualRegister, num_virtual_regs, num_temporary_regs, asserted>>

\* FreeAllVirtualRegisters, when Granary exits.
FreeAllVirtualRegisters ==
  /\ vr_stage = "init"
  /\ gNextVirtualRegister' = kMinGlobalVirtualRegister
  /\ held' = {}
  /\ UNCHANGED <<num_virtual_regs, num_temporary_regs, vr_stage, blocks, extra, asserted>>

NumbersNext ==
  \/ ToolInit \/ NewTrace \/ ToolRegister \/ EndTrace \/ FreeAllVirtualRegisters
  \/ \E decoded \in BOOLEAN : NewBlock(decoded)
  \/ \E n \in 0..kMaxTemporaries : RelativizeInstruction(n)

NumbersSpec == NumbersInit /\ [][NumbersNext]_virtualVars
-----------------------------------------------------------------------------
\* As long as no assertion has failed, a register number in use belongs to one holder:
\* neither does a block that takes many numbers at once run into those of tools, nor an
\* instruction's temporaries into those of the trace.  A trace with too many blocks does
\* get there, and the assertions are what tells (trace.cc:92-93, 103-104, register.cc:22).
NumbersApart ==
  asserted =>
    /\ \A h, g \in held : h # g => h[2] < g[1] \/ g[2] < h[1]
    /\ \A h \in held :
         CASE h[3][1] = "temporary" -> h[2] < kMinTraceVirtualRegister
           [] h[3][1] = "tool" -> h[1] >= kMinGlobalVirtualRegister
           [] OTHER -> h[1] >= kMinTraceVirtualRegister /\ h[2] < kMinGlobalVirtualRegister
=============================================================================
