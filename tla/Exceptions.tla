----------------------------- MODULE Exceptions -----------------------------
(* Instructions of the kernel that may fault and that the kernel's exception  *)
(* tables know how to recover from (src/os/linux/arch/x86-64/exception.cc,    *)
(* exception_util.asm and src/arch/x86-64/exception.cc).                      *)
(*                                                                            *)
(* Such an instruction is not put into the code cache: a fault there would    *)
(* find no entry in the tables.  Its operands are pushed, and a function that *)
(* has an entry executes the instruction on them.  When it faults, the fixup  *)
(* of the function adds 5 to its return address, which skips one jump in the  *)
(* cache and so takes the way to the recovery code of the kernel.             *)
(*                                                                            *)
(* Two faults do happen in the cache: that of an instruction with an entry    *)
(* that there is no function for, and that of the push which reads the source *)
(* of a segment register from memory.                                         *)
(*                                                                            *)
(* A word is eight bytes, and a byte is named for where it comes from.  The   *)
(* stack has its top first, so [rsp + 8 k] is its element k + 1.              *)
EXTENDS Naturals, Integers, Sequences, FiniteSets, SequencesExt

CONSTANTS GPRs,         \* registers that an operand may be
          PCs,          \* addresses of instructions, below those of the tables
          ErrorOffset   \* 0x7ffffff0, in units of half an entry

VARIABLES table,    \* the module's entries, in order of address
          at,       \* the address of the instruction
          ins,      \* the instruction
          regs, saved, stack, mem, seg, flags,
          pc,       \* the next operation: where it is and its number
          exc       \* what GetExceptionInfo found

vars == <<table, at, ins, regs, saved, stack, mem, seg, flags, pc, exc>>

-----------------------------------------------------------------------------
(* Words.                                                                     *)

Named(kind, name) == [i \in 1..8 |-> <<kind, name, i>>]
Zero == <<"zero", "", 0>>

\* A register after a write of its low width bits: 32 bits clear the rest.
Written(old, new, width) ==
    [i \in 1..8 |-> IF i <= width \div 8 THEN new[i]
                    ELSE IF width = 32 THEN Zero ELSE old[i]]

\* Memory after a store of width bits.
Stored(old, new, width) == [i \in 1..8 |-> IF i <= width \div 8 THEN new[i] ELSE old[i]]

\* A register after MOVZX of one byte into its low width bits.
ZeroExtended(old, word, width) ==
    Written(old, [i \in 1..8 |-> IF i = 1 THEN word[1] ELSE Zero], width)

BSWAP(word) == Reverse(word)

\* REP MOVS advances its registers, by less than 2^32.
RepRegs == {"RCX", "RSI", "RDI"}
Advanced(old, how) == Stored(old, Named(how, ""), 32)

-----------------------------------------------------------------------------
(* The exception tables.  Both halves of an entry are offsets from where they *)
(* are; the tables lie behind the code.                                       *)

TableAt == Cardinality(PCs) * 4

FaultPC(k) == TableAt + 2 * k + table[k].fault_addr_rel32
RecoveryPC(k) == TableAt + 2 * k + 1 + table[k].fixup_addr_rel32

\* The recovery code of the instruction at p, as the kernel's build places it.
FixupOf(p) == Cardinality(PCs) + p

Entry(k, p, is_error) ==
    [fault_addr_rel32 |-> p - (TableAt + 2 * k),
     fixup_addr_rel32 |-> FixupOf(p) - (TableAt + 2 * k + 1)
                            + IF is_error THEN ErrorOffset ELSE 0]

IsError(p) == p % 2 = 1

TableOf(S) == [k \in 1..Cardinality(S) |->
                 LET p == SetToSortSeq(S, <)[k] IN Entry(k, p, IsError(p))]

\* FindRecoveryEntry, on the entries first to last, with last included.
FindRecoveryEntry(fault_pc) ==
    LET n == Len(table)
        Search[r \in (1..n + 1) \X (0..n)] ==
          LET mid == r[1] + (r[2] - r[1]) \div 2
          IN  IF r[1] > r[2] THEN 0
              ELSE IF FaultPC(mid) < fault_pc THEN Search[<<mid + 1, r[2]>>]
              ELSE IF FaultPC(mid) > fault_pc THEN Search[<<r[1], mid - 1>>]
              ELSE mid
    IN  Search[<<1, n>>]

RecoveryEntryIsError(k) ==
    table[k].fixup_addr_rel32 - table[k].fault_addr_rel32 >= ErrorOffset - 1

FindRecoveryAddress(k) ==
    RecoveryPC(k) - IF RecoveryEntryIsError(k) THEN ErrorOffset ELSE 0

-----------------------------------------------------------------------------
(* Instructions: their kind, width, address register and other register.      *)

Instr(kind, width, base, reg) == [kind |-> kind, width |-> width, base |-> base, reg |-> reg]

Widths == {8, 16, 32, 64}

\* "V" is the virtual register of a compound address, "IMM" an immediate.
Bases == GPRs \cup {"V"}
Registers == GPRs \cup {"RAX", "RDX", "RCX", "RSI", "RDI", "V"}

\* A segment register is loaded from a register, or from memory.
Instructions ==
    {Instr("read", w, b, r) : w \in Widths, b \in Bases, r \in GPRs}
      \cup {Instr("movzx", w, b, r) : w \in Widths \ {8}, b \in Bases, r \in GPRs}
      \cup {Instr("write", w, b, r) : w \in Widths, b \in Bases, r \in GPRs \cup {"IMM"}}
      \cup {Instr("xchg", w, b, r) : w \in Widths, b \in Bases, r \in GPRs}
      \cup {Instr("seg", 16, "V", r) : r \in GPRs}
      \cup {Instr("seg_mem", 16, b, "V") : b \in Bases}
      \cup {Instr("fxsave", 64, b, "V") : b \in Bases}
      \cup {Instr("rdmsr", 64, "V", "V"), Instr("rep_movs", 64, "V", "V")}
      \cup {Instr("other", 64, b, "V") : b \in Bases}

\* There is no function for the others, and the kernel's tables do have entries for some.
HasEmulation(i) == i.kind # "other"

MayBeError(i) == i.kind \in {"read", "write"}

UsedRegs(i) ==
    CASE i.kind = "rep_movs" -> RepRegs
      [] i.kind = "rdmsr" -> {"RAX", "RCX", "RDX"}
      [] OTHER -> {i.base, i.reg} \ {"V", "IMM"}

\* Registers that the instruction reads and writes (FindRWRegs).
RWRegs(i) == IF i.kind = "rep_movs" THEN RepRegs
             ELSE IF i.kind = "xchg" THEN {i.reg} ELSE {}

IsRestartable(i) == i.kind = "rep_movs"

-----------------------------------------------------------------------------
(* The code that is emitted and the functions that emulate.                   *)

Op(op, reg, n) == [op |-> op, reg |-> reg, n |-> n]
Push(reg) == Op("push", reg, 0)
Pop(reg) == Op("pop", reg, 0)

\* Mistake: reads push the address first, as writes do.
PushAddressFirst(i) ==
    IF i.kind \in {"read", "movzx"} THEN <<Push(i.base), Push(i.reg)>>
    ELSE CASE i.kind = "seg" -> <<Push(i.reg)>>
           [] i.kind = "seg_mem" -> <<Op("push_mem", i.base, 0)>>
           [] i.kind = "fxsave" -> <<Push(i.base)>>
           [] i.kind \in {"write", "xchg"} -> <<Push(i.base), Push(i.reg)>>
           [] OTHER -> <<>>

PushOperands(i) ==
    CASE i.kind = "seg" -> <<Push(i.reg)>>
      [] i.kind = "seg_mem" -> <<Op("push_mem", i.base, 0)>>
      [] i.kind = "fxsave" -> <<Push(i.base)>>
      [] i.kind \in {"write", "xchg"} -> <<Push(i.base), Push(i.reg)>>
      [] i.kind \in {"read", "movzx"} -> <<Push(i.reg), Push(i.base)>>
      [] OTHER -> <<>>

\* Which of the pushed operands are popped into the register they came from.
PopOnSuccess(i, k) == \/ i.kind = "xchg" /\ k = 2
                      \/ i.kind \in {"read", "movzx"} /\ k = 1

UnspillRegsOnFailure(i) ==
    LET n == Len(PushOperands(i)) IN IF n = 0 THEN <<>> ELSE <<Op("lea", "", n)>>

UnspillRegsOnSuccess(i) ==
    LET pushed == Reverse(PushOperands(i))
    IN  [k \in 1..Len(pushed) |->
           IF PopOnSuccess(i, Len(pushed) + 1 - k) THEN Pop(pushed[k].reg) ELSE Op("lea", "", 1)]

\* ProcessExceptionalCFI.  The first jump is the one that a fault skips.
Fragment(i) ==
    LET failure == UnspillRegsOnFailure(i)
        no_fault_label == Len(PushOperands(i)) + Len(failure) + 4
    IN  PushOperands(i) \o <<Op("call", "", 0), Op("jmp", "", no_fault_label)>>
          \o failure \o <<Op("recover", "", 0)>> \o UnspillRegsOnSuccess(i)

\* The functions of exception_util.asm.
Emulation(i) ==
    CASE i.kind \in {"rep_movs", "rdmsr"} -> <<Op("instr", "", 0), Op("ret", "", 0)>>
      [] i.kind \in {"seg", "seg_mem"} ->
           <<Push("RSI"), Op("load", "RSI", 3), Op("instr", "", 0), Pop("RSI"), Op("ret", "", 0)>>
      [] i.kind = "fxsave" ->
           <<Push("RDI"), Op("load", "RDI", 3), Op("instr", "", 0), Pop("RDI"), Op("ret", "", 0)>>
      [] i.kind = "write" ->
           <<Push("RDI"), Push("RSI"), Op("load", "RDI", 5), Op("load", "RSI", 4),
             Op("instr", "", 0), Pop("RSI"), Pop("RDI"), Op("ret", "", 0)>>
      [] i.kind = "xchg" ->
           <<Push("RDI"), Push("RSI"), Op("load", "RDI", 5), Op("load", "RSI", 4),
             Op("instr", "", 0), Op("store", "RSI", 4), Pop("RSI"), Pop("RDI"), Op("ret", "", 0)>>
      [] i.kind \in {"read", "movzx"} ->
           <<Push("RSI"), Push("RDI"), Op("load", "RDI", 4), Op("instr", "", 0),
             Op("store", "RSI", 5), Pop("RDI"), Pop("RSI"), Op("ret", "", 0)>>

Fixup(i) ==
    LET pops == SelectSeq(Emulation(i), LAMBDA o : o.op = "pop")
    IN  <<Op("pushfq", "", 0), Op("add", "", Len(pops) + 2), Op("popfq", "", 0)>>
          \o pops \o <<Op("ret", "", 0)>>

-----------------------------------------------------------------------------
(* Executing it.                                                              *)

Value(r) == IF r = "IMM" THEN Named("reg", "IMM") ELSE regs[r]
ReturnTo(k) == [i \in 1..8 |-> <<"return", "", k>>]
SavedFlags(f) == Named("flags", f)
Addresses == {Named("reg", r) : r \in Registers \cup {"IMM"}}

\* The instruction itself, on the operands that the function has loaded.
Emulated ==
    LET a == regs["RDI"]
        v == regs["RSI"]
    IN  CASE ins.kind = "write" ->
               /\ mem' = [mem EXCEPT ![a] = Stored(@, v, ins.width)]
               /\ UNCHANGED <<regs, seg>>
          [] ins.kind = "xchg" ->
               /\ mem' = [mem EXCEPT ![a] = Stored(@, v, ins.width)]
               /\ regs' = [regs EXCEPT !["RSI"] = Written(@, mem[a], ins.width)]
               /\ seg' = seg
          [] ins.kind = "read" ->
               /\ regs' = [regs EXCEPT !["RSI"] = Written(@, mem[a], ins.width)]
               /\ UNCHANGED <<mem, seg>>
          [] ins.kind = "movzx" ->
               /\ regs' = [regs EXCEPT !["RSI"] = ZeroExtended(@, mem[a], 32)]
               /\ UNCHANGED <<mem, seg>>
          [] ins.kind \in {"seg", "seg_mem"} -> seg' = Stored(seg, v, 16) /\ UNCHANGED <<regs, mem>>
          [] ins.kind = "fxsave" -> mem' = [mem EXCEPT ![a] = Named("fx", "")] /\ UNCHANGED <<regs, seg>>
          [] ins.kind = "rdmsr" ->
               /\ regs' = [regs EXCEPT !["RAX"] = Written(@, Named("msr", ""), 32)]
               /\ UNCHANGED <<mem, seg>>
          [] ins.kind = "rep_movs" ->
               /\ regs' = [r \in Registers |-> IF r \in RepRegs THEN Advanced(regs[r], "done") ELSE regs[r]]
               /\ UNCHANGED <<mem, seg>>

Code(where) == CASE where = "fragment" -> Fragment(ins)
                 [] where = "emulation" -> Emulation(ins)
                 [] where = "fixup" -> Fixup(ins)
                 [] OTHER -> <<>>

Running == pc[1] \in {"fragment", "emulation", "fixup"} /\ pc[2] <= Len(Code(pc[1]))
Current == Code(pc[1])[pc[2]]
At(op) == Running /\ Current.op = op
Following == <<pc[1], pc[2] + 1>>
Same == UNCHANGED <<table, at, ins, saved, exc>>

PUSH == /\ At("push")
        /\ stack' = <<Value(Current.reg)>> \o stack
        /\ pc' = Following
        /\ UNCHANGED <<regs, mem, seg, flags>> /\ Same

\* PUSH_MEMv reads 64 bits where MOV to a segment register reads 16, and may fault.
PUSH_MEM == /\ At("push_mem")
            /\ stack' = <<mem[regs[Current.reg]]>> \o stack
            /\ pc' = Following
            /\ UNCHANGED <<regs, mem, seg, flags>> /\ Same

POP == /\ At("pop")
       /\ regs' = [regs EXCEPT ![Current.reg] = Head(stack)]
       /\ stack' = Tail(stack)
       /\ pc' = Following
       /\ UNCHANGED <<mem, seg, flags>> /\ Same

MOV == /\ At("load") \/ At("store")
       /\ IF Current.op = "load"
          THEN regs' = [regs EXCEPT ![Current.reg] = stack[Current.n]] /\ stack' = stack
          ELSE stack' = [stack EXCEPT ![Current.n] = regs[Current.reg]] /\ regs' = regs
       /\ pc' = Following
       /\ UNCHANGED <<mem, seg, flags>> /\ Same

LEA == /\ At("lea")
       /\ stack' = SubSeq(stack, Current.n + 1, Len(stack))
       /\ pc' = Following
       /\ UNCHANGED <<regs, mem, seg, flags>> /\ Same

CALL == /\ At("call")
        /\ stack' = <<ReturnTo(pc[2] + 1)>> \o stack
        /\ pc' = <<"emulation", 1>>
        /\ UNCHANGED <<regs, mem, seg, flags>> /\ Same

RET == /\ At("ret")
       /\ pc' = <<"fragment", Head(stack)[1][3]>>
       /\ stack' = Tail(stack)
       /\ UNCHANGED <<regs, mem, seg, flags>> /\ Same

JMP == /\ At("jmp")
       /\ pc' = <<"fragment", Current.n>>
       /\ UNCHANGED <<regs, stack, mem, seg, flags>> /\ Same

\* The five bytes are those of one JMP_RELBRd.
ADD == /\ At("add")
       /\ stack' = [stack EXCEPT ![Current.n] = ReturnTo(@[1][3] + 1)]
       /\ flags' = "sum"
       /\ pc' = Following
       /\ UNCHANGED <<regs, mem, seg>> /\ Same

PUSHFQ == /\ At("pushfq")
          /\ stack' = <<SavedFlags(flags)>> \o stack
          /\ pc' = Following
          /\ UNCHANGED <<regs, mem, seg, flags>> /\ Same

POPFQ == /\ At("popfq")
         /\ flags' = Head(stack)[1][2]
         /\ stack' = Tail(stack)
         /\ pc' = Following
         /\ UNCHANGED <<regs, mem, seg>> /\ Same

Completes == /\ At("instr") /\ Emulated
             /\ pc' = Following
             /\ UNCHANGED <<stack, flags>> /\ Same

\* A fault: the kernel goes on at the fixup.  REP MOVS has done a part.
Faults == /\ At("instr")
          /\ regs' = [r \in Registers |->
                        IF IsRestartable(ins) /\ r \in RepRegs THEN Advanced(regs[r], "part") ELSE regs[r]]
          /\ pc' = <<"fixup", 1>>
          /\ UNCHANGED <<stack, mem, seg, flags>> /\ Same

\* A fault in the cache, which has no entries: the kernel stops with an oops.
FaultsInCache == /\ At("push_mem") \/ pc[1] = "native"
                 /\ pc' = <<"oops", 0>>
                 /\ UNCHANGED <<regs, stack, mem, seg, flags>> /\ Same

-----------------------------------------------------------------------------
(* Around it.                                                                 *)

\* The low half of gpr is meant to stay, and the other to be the saved one.
Restarted(gpr, saved_gpr) == BSWAP(Written(BSWAP(gpr), BSWAP(saved_gpr), 32))

RestoreRegsOnFailure ==
    /\ At("recover")
    /\ regs' = [r \in Registers |->
                  IF r \notin UsedRegs(ins) THEN regs[r]
                  ELSE IF IsRestartable(ins) /\ r \in RWRegs(ins) THEN Restarted(regs[r], saved[r])
                  ELSE saved[r]]
    /\ pc' = <<"recovered", exc.recovery_pc>>
    /\ UNCHANGED <<stack, mem, seg, flags>> /\ Same

FallThrough ==
    /\ pc[1] = "fragment" /\ pc[2] > Len(Fragment(ins))
    /\ pc' = <<"done", 0>>
    /\ UNCHANGED <<regs, stack, mem, seg, flags>> /\ Same

\* An entry is of no use where there is no function.
GetExceptionInfo(k) ==
    [found |-> k # 0 /\ HasEmulation(ins),
     recovery_pc |-> IF k = 0 THEN 0 ELSE FindRecoveryAddress(k),
     is_error |-> k # 0 /\ RecoveryEntryIsError(k)]

\* MakeInstruction: an instruction that is not to be emulated is put into the cache.
MakeInstruction ==
    /\ pc[1] = "decode"
    /\ exc' = GetExceptionInfo(FindRecoveryEntry(at))
    /\ pc' = IF exc'.found THEN <<"save", 0>> ELSE <<"native", 0>>
    /\ UNCHANGED <<table, at, ins, regs, saved, stack, mem, seg, flags>>

SaveStateForExceptionCFI ==
    /\ pc[1] = "save"
    /\ saved' = [r \in UsedRegs(ins) |-> regs[r]]
    /\ pc' = <<"fragment", 1>>
    /\ UNCHANGED <<table, at, ins, regs, stack, mem, seg, flags, exc>>

\* An instruction at p, where the instructions in S have entries.
Begin(p, S, instruction) ==
    /\ table = TableOf(S) /\ at = p /\ ins = instruction
    /\ MayBeError(ins) \/ ~IsError(at)
    /\ regs = [r \in Registers |-> Named("reg", r)]
    /\ saved = [r \in {} |-> Zero]
    /\ stack = <<Named("app", "")>>
    /\ mem = [a \in Addresses |-> Named("mem", a[1][2])]
    /\ seg = Named("seg", "")
    /\ flags = "app"
    /\ pc = <<"decode", 0>>
    /\ exc = [found |-> FALSE, recovery_pc |-> 0, is_error |-> FALSE]

Next == \/ MakeInstruction \/ SaveStateForExceptionCFI
        \/ PUSH \/ PUSH_MEM \/ POP \/ MOV \/ LEA \/ CALL \/ RET \/ JMP \/ ADD \/ PUSHFQ \/ POPFQ
        \/ Completes \/ Faults \/ FaultsInCache
        \/ RestoreRegsOnFailure \/ FallThrough

Init == \E p \in PCs, S \in SUBSET PCs, instruction \in Instructions : Begin(p, S, instruction)

Spec == Init /\ [][Next]_vars

-----------------------------------------------------------------------------
(* What the instruction does by itself.                                       *)

App(r) == Named("reg", r)
AppMemory(r) == Named("mem", r)

NativeRegs ==
    LET changed(r, word) == [q \in Registers |-> IF q = r THEN word ELSE App(q)]
    IN  CASE ins.kind \in {"read", "xchg"} ->
               changed(ins.reg, Written(App(ins.reg), AppMemory(ins.base), ins.width))
          [] ins.kind = "movzx" -> changed(ins.reg, ZeroExtended(App(ins.reg), AppMemory(ins.base), ins.width))
          [] ins.kind = "rdmsr" -> changed("RAX", Written(App("RAX"), Named("msr", ""), 32))
          [] ins.kind = "rep_movs" ->
               [r \in Registers |-> IF r \in RepRegs THEN Advanced(App(r), "done") ELSE App(r)]
          [] OTHER -> [r \in Registers |-> App(r)]

NativeMemory ==
    LET changed(word) == [a \in Addresses |-> IF a = App(ins.base) THEN word ELSE AppMemory(a[1][2])]
    IN  CASE ins.kind \in {"write", "xchg"} ->
               changed(Stored(AppMemory(ins.base), App(ins.reg), ins.width))
          [] ins.kind = "fxsave" -> changed(Named("fx", ""))
          [] OTHER -> [a \in Addresses |-> AppMemory(a[1][2])]

NativeSegment ==
    CASE ins.kind = "seg" -> Stored(Named("seg", ""), App(ins.reg), 16)
      [] ins.kind = "seg_mem" -> Stored(Named("seg", ""), AppMemory(ins.base), 16)
      [] OTHER -> Named("seg", "")

Stopped == pc[1] \in {"done", "recovered"}

\* Registers that a fault in the middle of a repetition leaves changed.
InProgress == IF IsRestartable(ins) THEN RepRegs ELSE {}

\* A read of less than 32 bits is right in these, and changes the rest of its register.
NarrowRead == ins.kind \in {"read", "movzx"} /\ ins.width < 32

\* An emulated instruction does what it would have done by itself: registers, memory
\* and segment after it are those of the instruction, and stack and flags those before;
\* of the destination of a narrow read this is said of the bytes that were read.
\* After a fault in the emulating function all are as before it, but for the registers
\* of a repetition (arch/x86-64/exception.cc and exception_util.asm).
EmulatesInstruction ==
    /\ Stopped => stack = <<Named("app", "")>> /\ flags = "app"
    /\ pc[1] = "done" =>
         /\ \A r \in Registers, i \in 1..8 :
              regs[r][i] = NativeRegs[r][i] \/ (NarrowRead /\ r = ins.reg /\ i > ins.width \div 8)
         /\ mem = NativeMemory
         /\ seg = NativeSegment
    /\ pc[1] = "recovered" =>
         /\ \A r \in Registers \ InProgress : regs[r] = App(r)
         /\ mem = [a \in Addresses |-> AppMemory(a[1][2])]
         /\ seg = Named("seg", "")

\* Instructions with an entry are emulated, those that there is a function for, and no
\* others.  A fault in the function is recovered from at the kernel's recovery code for
\* this very instruction; what the tables know may fault in the cache only where there
\* is no function, and in the read of a segment register's source from memory
\* (os/linux/arch/x86-64/exception.cc).
RecoversAtItsFixup ==
    LET has_entry == \E k \in 1..Len(table) : FaultPC(k) = at
    IN  /\ pc[1] # "decode" => (exc.found <=> has_entry /\ HasEmulation(ins))
        /\ exc.found => exc.is_error = IsError(at)
        /\ pc[1] = "recovered" => pc[2] = FixupOf(at)
        /\ pc[1] = "oops" /\ has_entry => ins.kind \in {"other", "seg_mem"}
=============================================================================
