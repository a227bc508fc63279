--------------------------- MODULE SupportProofs ---------------------------
(***************************************************************************)
(* What holds of the kernel module's sessions (KernelSessions) for every   *)
(* size of the table of system calls and any number of sessions, and of    *)
(* the numbers of virtual registers (Registers) for all ranges of numbers  *)
(* that have room for what a trace takes, of their names for every set of  *)
(* operands, and of inline assembly (InlineAssembly) for any scopes,       *)
(* variables, texts, pieces and memory operands.                           *)
(***************************************************************************)
EXTENDS MCSupport, FiniteSetTheorems, SequenceTheorems, WellFoundedInduction, TLAPS

-----------------------------------------------------------------------------
(* The table of system calls.                                              *)

\* While a command is carried out the table is partly rewritten: from the front, to
\* what ProcessAttach has computed or back to native system calls.
TableInv ==
  /\ command = "idle" /\ ~seenAttach => \A i \in 1..Syscalls : syscall_table[i] = 0
  /\ command \in {"load", "init"} => ~seenAttach /\ \A i \in 1..Syscalls : syscall_table[i] = 0
  /\ command = "attach" =>
       /\ seenAttach
       /\ \A i \in 1..Syscalls : inst[i] # 0 => alive /\ inst[i] = session
  /\ command = "detach" => ~seenAttach /\ \A i \in 1..Syscalls : i <= entry => syscall_table[i] = 0

\* Granary is not ended while it is attached, so the code that entries of the table lead
\* to belongs to the current session.
KernelInv ==
  /\ entry \in Nat
  /\ inst \in [1..Syscalls -> Int] /\ syscall_table \in [1..Syscalls -> Int] /\ session \in Nat
  /\ command \in {"load", "idle", "init", "attach", "detach"}
  /\ seenAttach \in BOOLEAN /\ seenInit \in BOOLEAN /\ alive \in BOOLEAN
  /\ seenAttach => seenInit
  /\ TableInv
  /\ SyscallsReachLiveCode

LEMMA KernelInit == Kernel!Init => KernelInv
<1> SUFFICES ASSUME Kernel!Init PROVE KernelInv
  OBVIOUS
<1>1. /\ seenInit = FALSE /\ seenAttach = FALSE /\ command = "load" /\ entry = 0 /\ session = 0 /\ alive = FALSE
      /\ inst = [i \in 1..Syscalls |-> 0] /\ syscall_table = [i \in 1..Syscalls |-> 0]
  BY DEF Kernel!Init, Kernel!NativeTable
<1>2. \A i \in 1..Syscalls : inst[i] = 0 /\ syscall_table[i] = 0
  BY <1>1
<1>3. inst \in [1..Syscalls -> Int] /\ syscall_table \in [1..Syscalls -> Int]
  BY <1>1
<1>4. TableInv
  BY <1>1, <1>2 DEF TableInv
<1>5. SyscallsReachLiveCode
  BY <1>2 DEF SyscallsReachLiveCode, Kernel!SyscallsReachLiveCode
<1> QED
  BY <1>1, <1>3, <1>4, <1>5 DEF KernelInv

\* One entry of the table is copied.
LEMMA CopyEntryKeeps == KernelInv /\ Kernel!CopyEntry => KernelInv'
<1> SUFFICES ASSUME KernelInv, Kernel!CopyEntry PROVE KernelInv'
  OBVIOUS
<1> DEFINE new == IF command = "attach" THEN inst[entry + 1] ELSE 0
<1>1. /\ command \in {"attach", "detach"} /\ entry + 1 \in 1..Syscalls /\ entry' = entry + 1
      /\ inst' = IF entry' = Syscalls THEN [i \in 1..Syscalls |-> 0] ELSE inst
      /\ syscall_table' = [i \in 1..Syscalls |-> IF i = entry + 1 THEN new ELSE syscall_table[i]]
      /\ command' = IF entry' = Syscalls THEN "idle" ELSE command
      /\ UNCHANGED <<seenInit, seenAttach, session, alive>>
  <2>1. /\ command \in {"attach", "detach"} /\ entry < Syscalls /\ entry' = entry + 1
        /\ inst' = IF entry' = Syscalls THEN [i \in 1..Syscalls |-> 0] ELSE inst
        /\ syscall_table' = [syscall_table EXCEPT ![entry + 1] = new]
        /\ command' = IF entry' = Syscalls THEN "idle" ELSE command
        /\ UNCHANGED <<seenInit, seenAttach, session, alive>>
    BY DEF Kernel!CopyEntry, Kernel!NativeTable
  <2> HIDE DEF new
  <2>2. entry + 1 \in 1..Syscalls
    BY <2>1, KernelAssumption DEF KernelInv
  <2>3. syscall_table' = [i \in 1..Syscalls |-> IF i = entry + 1 THEN new ELSE syscall_table[i]]
    BY <2>1 DEF KernelInv
  <2> QED
    BY <2>1, <2>2, <2>3
<1>2. new \in Int /\ (new # 0 => alive /\ new = session)
  BY <1>1 DEF KernelInv, TableInv
<1> HIDE DEF new
<1>3. SyscallsReachLiveCode'
  BY <1>1, <1>2 DEF KernelInv, SyscallsReachLiveCode, Kernel!SyscallsReachLiveCode
<1>4. CASE command = "attach"
  BY <1>1, <1>2, <1>3, <1>4, KernelAssumption DEF KernelInv, TableInv
<1>5. CASE command = "detach"
  <2>1. new = 0
    BY <1>5 DEF new
  <2>2. \A i \in 1..Syscalls : i <= entry' => syscall_table'[i] = 0
    BY <1>1, <1>5, <2>1, KernelAssumption DEF KernelInv, TableInv
  <2> QED
    BY <1>1, <1>2, <1>3, <1>5, <2>2, KernelAssumption DEF KernelInv, TableInv
<1> QED
  BY <1>1, <1>4, <1>5

LEMMA KernelStep == KernelInv /\ [Kernel!Next]_(Kernel!vars) => KernelInv'
<1> SUFFICES ASSUME KernelInv, [Kernel!Next]_(Kernel!vars) PROVE KernelInv'
  OBVIOUS
<1> USE DEF KernelInv, TableInv, SyscallsReachLiveCode, Kernel!SyscallsReachLiveCode
<1>1. CASE Kernel!Load
  BY <1>1 DEF Kernel!Load
<1>2. CASE Kernel!CommandInit
  BY <1>2 DEF Kernel!CommandInit
<1>3. CASE Kernel!ProcessPendingOptions
  BY <1>3 DEF Kernel!ProcessPendingOptions
<1>4. CASE Kernel!InitGranary
  BY <1>4 DEF Kernel!InitGranary
<1>5. CASE Kernel!CommandAttach
  <2>1. inst' \in [1..Syscalls -> Int] /\ \A i \in 1..Syscalls : inst'[i] # 0 => alive /\ inst'[i] = session
    BY <1>5 DEF Kernel!CommandAttach
  <2> QED
    BY <1>5, <2>1 DEF Kernel!CommandAttach
<1>6. CASE Kernel!CommandDetach
  <2>1. /\ command = "idle" /\ seenAttach' = FALSE /\ command' = "detach" /\ entry' = 0
        /\ UNCHANGED <<seenInit, session, alive, inst, syscall_table>>
    BY <1>6 DEF Kernel!CommandDetach
  <2>2. \A i \in 1..Syscalls : ~(i <= entry')
    BY <2>1, KernelAssumption
  <2> QED
    BY <2>1, <2>2
<1>7. CASE Kernel!CopyEntry
  BY <1>7, CopyEntryKeeps
<1>8. CASE Kernel!CommandExit
  BY <1>8 DEF Kernel!CommandExit, Kernel!MayExit
<1>9. CASE UNCHANGED Kernel!vars
  BY <1>9 DEF Kernel!vars, Kernel!sessionVars
<1> QED
  BY <1>1, <1>2, <1>3, <1>4, <1>5, <1>6, <1>7, <1>8, <1>9 DEF Kernel!Next

\* However many sessions there are, in whatever order commands are written and however
\* far the table has been rewritten, no system call enters the code cache of a session
\* that has ended (command.c, syscall.c).
THEOREM SyscallsReachLiveCodeHolds == Kernel!Spec => []SyscallsReachLiveCode
<1>1. KernelInv => SyscallsReachLiveCode
  BY DEF KernelInv
<1> QED
  BY <1>1, KernelInit, KernelStep, PTL DEF Kernel!Spec
-----------------------------------------------------------------------------
(* The numbers of virtual registers.                                       *)

\* What holds a range of numbers: a tool, the instruction that is being mangled, or a
\* block or a tool in the trace.
ToolRange(h) == \E n \in Nat : h = <<n, n, <<"tool", n>>>>
TemporaryRange(h) == \E b \in Nat : h = <<kMinTemporaryVirtualRegister, b, <<"temporary">>>>
TraceRange(h) == \E a, b, n \in Nat, x \in {"block", "instrumentation"} : h = <<a, b, <<x, n>>>>

\* As long as assertions hold, the numbers in use are in their range, and those of a
\* trace below its counter.
RangesInv ==
  /\ vr_stage # "init" => /\ kMinTraceVirtualRegister <= num_virtual_regs
                          /\ num_virtual_regs < kMinGlobalVirtualRegister
  /\ \A h \in held : ToolRange(h) => kMinGlobalVirtualRegister <= h[1]
  /\ \A h \in held : TemporaryRange(h) => h[2] = num_temporary_regs - 1 /\ h[2] < kMinTraceVirtualRegister
  /\ \A h \in held : TraceRange(h) => kMinTraceVirtualRegister <= h[1] /\ h[1] <= h[2] /\ h[2] < num_virtual_regs
  /\ \A h, g \in held : TraceRange(h) /\ TraceRange(g) /\ h # g => h[2] < g[1] \/ g[2] < h[1]

\* Between traces only tools hold numbers.
NumbersInv ==
  /\ gNextVirtualRegister \in Nat /\ num_virtual_regs \in Nat /\ num_temporary_regs \in Nat
  /\ blocks \in Nat /\ extra \in Nat
  /\ \A h \in held : ToolRange(h) \/ (vr_stage # "init" /\ (TemporaryRange(h) \/ TraceRange(h)))
  /\ asserted => RangesInv

LEMMA RangesInOrder ==
  /\ kMinTemporaryVirtualRegister \in Nat /\ kMinTraceVirtualRegister \in Nat /\ kMinGlobalVirtualRegister \in Nat
  /\ kMaxNumFuncOperands \in Nat /\ kMaxNumVirtRegs \in Nat
  /\ kMaxTemporaries \in Nat /\ MaxBlocks \in Nat /\ MaxGlobals \in Nat /\ MaxExtra \in Nat
  /\ kMinTemporaryVirtualRegister <= kMinTraceVirtualRegister
  /\ kMinTraceVirtualRegister < kMinGlobalVirtualRegister
  /\ kMinGlobalVirtualRegister < 65536
  BY NumbersAssumption

LEMMA NumbersInitial == Arch!NumbersInit => NumbersInv
  BY RangesInOrder DEF Arch!NumbersInit, NumbersInv, RangesInv

\* Ranges are of one kind.
LEMMA RangeKinds ==
  ASSUME NEW h
  PROVE  /\ ToolRange(h) => ~TemporaryRange(h) /\ ~TraceRange(h) /\ h[3][1] = "tool" /\ h[1] = h[2]
         /\ TemporaryRange(h) => ~TraceRange(h) /\ h[3][1] = "temporary" /\ h[3] = <<"temporary">>
         /\ TraceRange(h) => h[3] # <<"temporary">> /\ h[3][1] \in {"block", "instrumentation"}
         /\ ToolRange(h) => h[3] # <<"temporary">>
  BY DEF ToolRange, TemporaryRange, TraceRange

LEMMA NumbersApartFollows == NumbersInv => Arch!NumbersApart
<1> SUFFICES ASSUME NumbersInv, asserted PROVE Arch!NumbersApart
  BY Zenon DEF Arch!NumbersApart
<1>0. RangesInv
  BY DEF NumbersInv
<1>1. ASSUME NEW h \in held
      PROVE  CASE h[3][1] = "temporary" -> h[2] < kMinTraceVirtualRegister
               [] h[3][1] = "tool" -> h[1] >= kMinGlobalVirtualRegister
               [] OTHER -> h[1] >= kMinTraceVirtualRegister /\ h[2] < kMinGlobalVirtualRegister
  <2>1. CASE ToolRange(h)
    BY <1>0, <2>1, RangeKinds, RangesInOrder DEF RangesInv, ToolRange
  <2>2. CASE TemporaryRange(h)
    BY <1>0, <2>2, RangeKinds DEF RangesInv
  <2>3. CASE TraceRange(h) /\ vr_stage # "init"
    <3>1. h[3][1] \in {"block", "instrumentation"}
      BY <2>3, RangeKinds
    <3>2. h[1] \in Nat /\ h[2] \in Nat
      BY <2>3 DEF TraceRange
    <3>3. kMinTraceVirtualRegister <= h[1] /\ h[2] < kMinGlobalVirtualRegister
      BY <1>0, <2>3, <3>2, RangesInOrder DEF NumbersInv, RangesInv
    <3> QED
      BY <3>1, <3>2, <3>3, RangesInOrder
  <2> QED
    BY <2>1, <2>2, <2>3 DEF NumbersInv
<1>2. ASSUME NEW h \in held, NEW g \in held, h # g
      PROVE  h[2] < g[1] \/ g[2] < h[1]
  <2>1. CASE ToolRange(h) /\ ToolRange(g)
    BY <1>2, <2>1 DEF ToolRange
  <2>2. CASE TemporaryRange(h) /\ TemporaryRange(g)
    BY <1>0, <1>2, <2>2 DEF TemporaryRange, RangesInv
  <2>3. CASE TraceRange(h) /\ TraceRange(g)
    BY <1>0, <1>2, <2>3 DEF RangesInv
  <2>4. \A x, y \in held : TemporaryRange(x) /\ ToolRange(y) => x[2] < y[1]
    BY <1>0, RangesInOrder DEF RangesInv, ToolRange, TemporaryRange
  <2>5. \A x, y \in held : TemporaryRange(x) /\ TraceRange(y) => x[2] < y[1]
    BY <1>0, RangesInOrder DEF RangesInv, TraceRange, TemporaryRange
  <2>6. \A x, y \in held : vr_stage # "init" /\ TraceRange(x) /\ ToolRange(y) => x[2] < y[1]
    BY <1>0, RangesInOrder DEF NumbersInv, RangesInv, TraceRange, ToolRange
  <2>7. \A x \in held : ToolRange(x) \/ (vr_stage # "init" /\ (TemporaryRange(x) \/ TraceRange(x)))
    BY DEF NumbersInv
  <2> QED
    BY <2>1, <2>2, <2>3, <2>4, <2>5, <2>6, <2>7
<1> QED
  BY <1>1, <1>2 DEF Arch!NumbersApart

\* A tool takes the next number.
LEMMA ToolInitKeeps == NumbersInv /\ Arch!ToolInit => NumbersInv'
<1> SUFFICES ASSUME NumbersInv, Arch!ToolInit PROVE NumbersInv'
  OBVIOUS
<1>1. PICK n \in Nat : n = gNextVirtualRegister
  BY DEF NumbersInv
<1>0. PICK new \in {<<n, n, <<"tool", n>>>>} : TRUE
  OBVIOUS
<1>2. /\ vr_stage = "init"
      /\ gNextVirtualRegister' = (n + 1) % 65536
      /\ held' = held \cup {<<n, n + 1 - 1, <<"tool", n>>>>}
      /\ asserted' => asserted /\ kMinGlobalVirtualRegister <= n
      /\ UNCHANGED <<num_virtual_regs, num_temporary_regs, vr_stage, blocks, extra>>
  <2>1. /\ vr_stage = "init"
        /\ gNextVirtualRegister' = (n + 1) % 65536
        /\ held' = held \cup {<<n, n + 1 - 1, <<"tool", n>>>>}
        /\ UNCHANGED <<num_virtual_regs, num_temporary_regs, vr_stage, blocks, extra>>
    BY <1>1 DEF Arch!ToolInit, Arch!Held, Arch!kNumRegNums
  <2>2. asserted' => asserted /\ kMinGlobalVirtualRegister <= n
    BY <1>1, Zenon DEF Arch!ToolInit
  <2> QED
    BY <2>1, <2>2
<1>3. gNextVirtualRegister' \in Nat
  BY <1>2
<1>4. n + 1 - 1 = n
  OBVIOUS
<1>5. held' = held \cup {new} /\ ToolRange(new) /\ new[1] = n
  BY <1>0, <1>1, <1>2, <1>4 DEF ToolRange
<1>6. ~TemporaryRange(new) /\ ~TraceRange(new)
  BY <1>5, RangeKinds
<1>8. \A h \in held' : h \in held \/ h = new
  BY <1>5
<1>9. ASSUME asserted' PROVE RangesInv'
  <2>1. RangesInv /\ kMinGlobalVirtualRegister <= n
    BY <1>2, <1>9 DEF NumbersInv
  <2>2. \A h \in held' : ToolRange(h) => kMinGlobalVirtualRegister <= h[1]
    BY <1>5, <1>8, <2>1 DEF RangesInv
  <2> QED
    BY <1>2, <1>6, <1>8, <2>1, <2>2 DEF RangesInv
<1>10. \A h \in held' : ToolRange(h) \/ (vr_stage' # "init" /\ (TemporaryRange(h) \/ TraceRange(h)))
  BY <1>2, <1>5, <1>8 DEF NumbersInv
<1> QED
  BY <1>2, <1>3, <1>9, <1>10 DEF NumbersInv

LEMMA NewTraceKeeps == NumbersInv /\ Arch!NewTrace => NumbersInv'
<1> SUFFICES ASSUME NumbersInv, Arch!NewTrace PROVE NumbersInv'
  OBVIOUS
<1>1. /\ vr_stage = "init" /\ vr_stage' = "trace" /\ blocks' = 0 /\ extra' = 0
      /\ num_virtual_regs' = kMinTraceVirtualRegister /\ num_temporary_regs' = kMinTemporaryVirtualRegister
      /\ UNCHANGED <<gNextVirtualRegister, held, asserted>>
  BY DEF Arch!NewTrace
<1>2. \A h \in held : ToolRange(h) /\ ~TemporaryRange(h) /\ ~TraceRange(h)
  BY <1>1, RangeKinds DEF NumbersInv
<1>3. asserted' => RangesInv'
  BY <1>1, <1>2, RangesInOrder DEF NumbersInv, RangesInv
<1> QED
  BY <1>1, <1>2, <1>3, RangesInOrder DEF NumbersInv

\* A block or a tool takes n numbers of the trace.  If they reached the tools' range, the
\* assertion for the first number of that range would have failed.
LEMMA TraceTakes ==
  ASSUME NumbersInv, NEW n \in Nat, NEW i \in Nat, NEW x \in {"block", "instrumentation"},
         vr_stage = "trace", Arch!AllocateVirtualRegisters(n, <<x, i>>),
         blocks' \in Nat, extra' \in Nat,
         UNCHANGED <<gNextVirtualRegister, num_temporary_regs, vr_stage>>
  PROVE  NumbersInv'
<1>1. PICK a \in Nat : a = num_virtual_regs
  BY DEF NumbersInv
<1>2. /\ num_virtual_regs' = (a + n) % 65536
      /\ asserted' => asserted
  <2>1. num_virtual_regs' = (a + n) % 65536
    BY <1>1 DEF Arch!AllocateVirtualRegisters, Arch!kNumRegNums
  <2>2. asserted' => asserted
    BY Zenon DEF Arch!AllocateVirtualRegisters
  <2> QED
    BY <2>1, <2>2
<1>3. num_virtual_regs' \in Nat
  BY <1>2
<1>4. ASSUME asserted'
      PROVE  /\ RangesInv /\ kMinTraceVirtualRegister <= a
             /\ a + n < kMinGlobalVirtualRegister /\ num_virtual_regs' = a + n
  <2>1. RangesInv /\ kMinTraceVirtualRegister <= a /\ a < kMinGlobalVirtualRegister
    BY <1>1, <1>2, <1>4 DEF NumbersInv, RangesInv
  <2>2. a + n < kMinGlobalVirtualRegister
    <3> SUFFICES ASSUME ~(a + n < kMinGlobalVirtualRegister) PROVE FALSE
      OBVIOUS
    <3>1. PICK k \in 1..n : a + k = kMinGlobalVirtualRegister
      <4>1. kMinGlobalVirtualRegister - a \in 1..n /\ a + (kMinGlobalVirtualRegister - a) = kMinGlobalVirtualRegister
        BY <2>1, RangesInOrder
      <4> QED
        BY <4>1
    <3>2. (a + k) % 65536 = kMinGlobalVirtualRegister
      BY <3>1, RangesInOrder
    <3>3. kMinGlobalVirtualRegister > (a + k) % 65536
      <4>1. kMinGlobalVirtualRegister > (num_virtual_regs + k) % Arch!kNumRegNums
        BY <1>4, <3>1, Zenon DEF Arch!AllocateVirtualRegisters
      <4> QED
        BY <1>1, <4>1 DEF Arch!kNumRegNums
    <3> QED
      BY <3>2, <3>3, RangesInOrder
  <2> QED
    BY <1>2, <2>1, <2>2, RangesInOrder
<1>6. held' = held \cup (IF n = 0 THEN {} ELSE {<<a, a + n - 1, <<x, i>>>>})
  BY <1>1 DEF Arch!AllocateVirtualRegisters, Arch!Held
<1>7. \A h \in held : TraceRange(h) => h[1] \in Nat /\ h[2] \in Nat
  BY DEF TraceRange
<1>8. CASE n = 0
  <2>1. held' = held
    BY <1>6, <1>8
  <2>2. asserted' => RangesInv'
    BY <1>1, <1>4, <1>8, <2>1 DEF RangesInv
  <2> QED
    BY <1>3, <2>1, <2>2 DEF NumbersInv
<1>9. CASE n # 0
  <2>1. PICK b \in Nat : b = a + n - 1
    BY <1>9
  <2>2. PICK new \in {<<a, b, <<x, i>>>>} : TRUE
    OBVIOUS
  <2>3. held' = held \cup {new} /\ TraceRange(new) /\ new[1] = a /\ new[2] = b
    BY <1>6, <1>9, <2>1, <2>2 DEF TraceRange
  <2>4. ~TemporaryRange(new) /\ ~ToolRange(new)
    BY <2>3, RangeKinds
  <2>5. \A h \in held' : h \in held \/ h = new
    BY <2>3
  <2>6. ASSUME asserted' PROVE RangesInv'
    <3>1. RangesInv /\ kMinTraceVirtualRegister <= a /\ a + n < kMinGlobalVirtualRegister /\ num_virtual_regs' = a + n
      BY <1>4, <2>6
    <3>2. \A h \in held : TraceRange(h) => h[2] < a
      BY <1>1, <3>1 DEF RangesInv
    <3>3. \A h \in held' : TraceRange(h) => kMinTraceVirtualRegister <= h[1] /\ h[1] <= h[2] /\ h[2] < a + n
      BY <1>1, <1>7, <1>9, <2>1, <2>3, <3>1, <3>2, RangesInOrder DEF RangesInv
    <3>4. \A h, g \in held' : TraceRange(h) /\ TraceRange(g) /\ h # g => h[2] < g[1] \/ g[2] < h[1]
      BY <2>3, <3>1, <3>2 DEF RangesInv
    <3>5. kMinTraceVirtualRegister <= a + n
      BY <3>1, RangesInOrder
    <3> QED
      BY <2>4, <2>5, <3>1, <3>3, <3>4, <3>5 DEF RangesInv
  <2>7. \A h \in held' : ToolRange(h) \/ (vr_stage' # "init" /\ (TemporaryRange(h) \/ TraceRange(h)))
    BY <2>3, <2>5 DEF NumbersInv
  <2> QED
    BY <1>3, <2>6, <2>7 DEF NumbersInv
<1> QED
  BY <1>8, <1>9

LEMMA NewBlockKeeps == ASSUME NumbersInv, NEW decoded \in BOOLEAN, Arch!NewBlock(decoded) PROVE NumbersInv'
<1> DEFINE n == kMaxNumFuncOperands + (IF decoded THEN kMaxNumVirtRegs ELSE 0)
<1>1. /\ vr_stage = "trace" /\ blocks' = blocks + 1
      /\ Arch!AllocateVirtualRegisters(n, <<"block", blocks>>)
      /\ UNCHANGED <<gNextVirtualRegister, num_temporary_regs, vr_stage, extra>>
  BY DEF Arch!NewBlock
<1>2. n \in Nat
  BY RangesInOrder
<1> HIDE DEF n
<1>3. blocks \in Nat /\ blocks' \in Nat /\ extra' \in Nat
  BY <1>1 DEF NumbersInv
<1> QED
  BY <1>1, <1>2, <1>3, TraceTakes

LEMMA ToolRegisterKeeps == NumbersInv /\ Arch!ToolRegister => NumbersInv'
<1> SUFFICES ASSUME NumbersInv, Arch!ToolRegister PROVE NumbersInv'
  OBVIOUS
<1>1. /\ vr_stage = "trace" /\ extra' = extra + 1
      /\ Arch!AllocateVirtualRegisters(1, <<"instrumentation", extra>>)
      /\ UNCHANGED <<gNextVirtualRegister, num_temporary_regs, vr_stage, blocks>>
  BY DEF Arch!ToolRegister
<1>2. extra \in Nat /\ extra' \in Nat /\ blocks' \in Nat
  BY <1>1 DEF NumbersInv
<1> QED
  BY <1>1, <1>2, TraceTakes

\* Temporaries are taken anew for every instruction.
LEMMA RelativizeInstructionKeeps ==
  ASSUME NumbersInv, NEW n \in 0..kMaxTemporaries, Arch!RelativizeInstruction(n) PROVE NumbersInv'
<1> DEFINE old == {h \in held : h[3] # <<"temporary">>}
<1>1. /\ vr_stage \in {"trace", "mangle"} /\ vr_stage' = "mangle"
      /\ num_temporary_regs' = kMinTemporaryVirtualRegister + n
      /\ held' = old \cup (IF n = 0 THEN {} ELSE {<<kMinTemporaryVirtualRegister,
                                        kMinTemporaryVirtualRegister + n - 1, <<"temporary">>>>})
      /\ asserted' => asserted /\ kMinTemporaryVirtualRegister + n <= kMinTraceVirtualRegister
      /\ UNCHANGED <<gNextVirtualRegister, num_virtual_regs, blocks, extra>>
  BY DEF Arch!RelativizeInstruction, Arch!Held
<1>2. \A h \in old : h \in held /\ ~TemporaryRange(h)
  BY RangeKinds
<1> HIDE DEF old
<1>21. num_temporary_regs' \in Nat
  BY <1>1, RangesInOrder
<1>3. CASE n = 0
  <2>1. held' = old
    BY <1>1, <1>3
  <2>2. asserted' => RangesInv'
    BY <1>1, <1>2, <2>1 DEF NumbersInv, RangesInv
  <2> QED
    BY <1>1, <1>2, <1>21, <2>1, <2>2 DEF NumbersInv
<1>4. CASE n # 0
  <2>1. PICK b \in Nat : b = kMinTemporaryVirtualRegister + n - 1
    BY <1>4, RangesInOrder
  <2>2. PICK new \in {<<kMinTemporaryVirtualRegister, b, <<"temporary">>>>} : TRUE
    OBVIOUS
  <2>3. held' = old \cup {new} /\ TemporaryRange(new) /\ new[2] = b
    BY <1>1, <1>4, <2>1, <2>2 DEF TemporaryRange
  <2>4. ~ToolRange(new) /\ ~TraceRange(new)
    BY <2>3, RangeKinds
  <2>5. b = num_temporary_regs' - 1 /\ (asserted' => b < kMinTraceVirtualRegister)
    BY <1>1, <1>4, <2>1, RangesInOrder
  <2>6. \A h \in held' : h = new \/ (h \in held /\ ~TemporaryRange(h))
    BY <1>2, <2>3
  <2>7. asserted' => RangesInv'
    BY <1>1, <2>3, <2>4, <2>5, <2>6 DEF NumbersInv, RangesInv
  <2> QED
    BY <1>1, <1>21, <2>3, <2>6, <2>7 DEF NumbersInv
<1> QED
  BY <1>3, <1>4

LEMMA EndTraceKeeps == NumbersInv /\ Arch!EndTrace => NumbersInv'
<1> SUFFICES ASSUME NumbersInv, Arch!EndTrace PROVE NumbersInv'
  OBVIOUS
<1>1. /\ vr_stage' = "init" /\ blocks' = 0 /\ extra' = 0
      /\ held' = {h \in held : h[3][1] = "tool"}
      /\ UNCHANGED <<gNextVirtualRegister, num_virtual_regs, num_temporary_regs, asserted>>
  BY DEF Arch!EndTrace
<1>2. \A h \in held' : h \in held /\ ToolRange(h) /\ ~TemporaryRange(h) /\ ~TraceRange(h)
  BY <1>1, RangeKinds DEF NumbersInv
<1>3. asserted' => RangesInv'
  BY <1>1, <1>2 DEF NumbersInv, RangesInv
<1> QED
  BY <1>1, <1>2, <1>3 DEF NumbersInv

LEMMA NumbersStep == NumbersInv /\ [Arch!NumbersNext]_(Arch!virtualVars) => NumbersInv'
<1> SUFFICES ASSUME NumbersInv, [Arch!NumbersNext]_(Arch!virtualVars) PROVE NumbersInv'
  OBVIOUS
<1>1. CASE Arch!FreeAllVirtualRegisters
  BY <1>1, RangesInOrder DEF Arch!FreeAllVirtualRegisters, NumbersInv, RangesInv
<1>2. CASE UNCHANGED Arch!virtualVars
  BY <1>2 DEF Arch!virtualVars, NumbersInv, RangesInv
<1> QED
  BY <1>1, <1>2, ToolInitKeeps, NewTraceKeeps, NewBlockKeeps, ToolRegisterKeeps, RelativizeInstructionKeeps,
     EndTraceKeeps DEF Arch!NumbersNext

\* For any number of blocks, and whether or not they fit: as long as no assertion has
\* failed, a number in use has one holder.  Tools, the trace and the instruction that is
\* mangled share virtual registers only behind a failed assertion
\* (granary/cfg/trace.cc, granary/code/register.cc).
THEOREM NumbersApartHolds == Arch!NumbersSpec => []NumbersApart
<1>1. NumbersInv => NumbersApart
  BY NumbersApartFollows DEF NumbersApart
<1> QED
  BY <1>1, NumbersInitial, NumbersStep, PTL DEF Arch!NumbersSpec
-----------------------------------------------------------------------------
(* Inline assembly.  Scopes count the pieces of text that stand in the     *)
(* block, in the order of a list into which instructions are inserted.     *)

Statement == [what : {"use", "jump", "label"}, var : Assembly!Vars]
TextItem == [kind : {"asm"}, scope : Scopes, text : Texts]
InstrItem == [kind : {"instr"}, scope : Scopes, stmt : Statement, target : Nat]
Item == {Assembly!AppInstruction} \cup TextItem \cup InstrItem

AsmTypes ==
  /\ scopes \in [Scopes -> [alive : BOOLEAN, count : Nat, var : [Assembly!Vars -> Nat]]]
  /\ handle \in SUBSET Scopes
  /\ given \in [Scopes -> [RegVars -> Nat]]
  /\ list \in Seq(Item)
  /\ asm_stage \in {"tools", "compile", "done"}
  /\ parsing = Assembly!NotParsing \/ parsing \in [scope : Scopes, rest : Seq(Statement)]
  /\ next_vr \in Nat

\* Text is compiled when tools have gone, from the first piece on.
StageInv ==
  /\ asm_stage # "tools" => handle = {}
  /\ asm_stage = "tools" => Assembly!Compiled = {}
  /\ parsing # Assembly!NotParsing =>
       /\ asm_stage = "compile" /\ Assembly!Pieces # {}
       /\ list[Assembly!FirstPiece].scope = parsing.scope

\* The two parts of a scope's count that are not the handle's.
CountInv == \A s \in Scopes : scopes[s].count = 2 * Cardinality(Assembly!PiecesOf(s))

\* What variables are has been made once, and instructions have it.
VarInv ==
  /\ \A s \in Scopes, v \in Assembly!Vars : scopes[s].var[v] <= next_vr
  /\ \A s, t \in Scopes, v, w \in Assembly!Vars :
       scopes[s].var[v] = scopes[t].var[w] /\ scopes[s].var[v] # 0 => s = t /\ v = w
  /\ \A s \in Scopes, v \in RegVars : given[s][v] # 0 => scopes[s].var[v] = given[s][v]
  /\ \A i \in Assembly!Compiled :
       list[i].target # 0 /\ list[i].target = scopes[list[i].scope].var[list[i].stmt.var]

AsmInv == AsmTypes /\ StageInv /\ CountInv /\ Assembly!ScopesHeld /\ VarInv

LEMMA AsmCardinality == \A S : Assembly!Cardinality(S) = Cardinality(S)
BY DEF Assembly!Cardinality, Cardinality

\* The least-number principle, for a set of numbers.
LEMMA LeastNumber == ASSUME NEW T \in SUBSET Nat, T # {}
                     PROVE  \E n \in T : \A m \in T : n <= m
<1> DEFINE R == {ss \in Nat \X Nat : ss[1] < ss[2]}
<1>1. IsWellFoundedOn(R, Nat)
  BY NatLessThanWellFounded DEF OpToRel
<1>2. PICK x \in T : \A y \in T : ~(<<y, x>> \in R)
  BY <1>1, WFMin
<1>3. \A y \in T : ~(y < x)
  BY <1>2
<1> QED
  BY <1>3

LEMMA ItemKinds ==
  ASSUME NEW x \in Item
  PROVE  /\ x.kind = "asm" => x \in TextItem /\ x.scope \in Scopes /\ x.text \in Texts
         /\ x.kind = "instr" => /\ x \in InstrItem /\ x.scope \in Scopes /\ x.stmt \in Statement
                               /\ x.stmt.var \in Assembly!Vars /\ x.target \in Nat
BY DEF Item, TextItem, InstrItem, Statement, Assembly!AppInstruction

\* r is q with another element at i.
Shift(i, j) == IF j < i THEN j ELSE j + 1
Grown(q, r, i) ==
  /\ Len(r) = Len(q) + 1 /\ i \in 1..Len(r)
  /\ \A j \in 1..Len(q) : q[j] = r[Shift(i, j)]

\* The parts of a concatenation.
LEMMA Concatenated ==
  ASSUME NEW S, NEW a \in Seq(S), NEW b \in Seq(S), NEW r, r = a \o b
  PROVE  /\ r \in Seq(S) /\ Len(r) = Len(a) + Len(b)
         /\ \A j \in 1..Len(a) : r[j] = a[j]
         /\ \A j \in 1..Len(b) : r[Len(a) + j] = b[j]
<1>1. Len(a) \in Nat /\ Len(b) \in Nat
  OBVIOUS
<1>2. /\ r \in Seq(S) /\ Len(r) = Len(a) + Len(b)
      /\ \A j \in 1..(Len(a) + Len(b)) : r[j] = IF j <= Len(a) THEN a[j] ELSE b[j - Len(a)]
  BY ConcatProperties
<1>3. ASSUME NEW j \in 1..Len(a) PROVE r[j] = a[j]
  BY <1>1, <1>2
<1>4. ASSUME NEW j \in 1..Len(b) PROVE r[Len(a) + j] = b[j]
  <2>1. PICK k \in 1..(Len(a) + Len(b)) : k = Len(a) + j
    BY <1>1
  <2>2. ~(k <= Len(a)) /\ k - Len(a) = j
    BY <1>1, <2>1
  <2> QED
    BY <1>2, <2>1, <2>2
<1> QED
  BY <1>2, <1>3, <1>4

LEMMA InsertAtGrows ==
  ASSUME NEW S, NEW q \in Seq(S), NEW e \in S, NEW i \in 1..(Len(q) + 1)
  PROVE  /\ Assembly!InsertAt(q, i, e) \in Seq(S) /\ Assembly!InsertAt(q, i, e)[i] = e
         /\ Grown(q, Assembly!InsertAt(q, i, e), i)
<1>1. PICK a : a = SubSeq(q, 1, i - 1)
  OBVIOUS
<1>2. PICK b : b = SubSeq(q, i, Len(q))
  OBVIOUS
<1>3. a \in Seq(S) /\ Len(a) = i - 1 /\ \A j \in 1..(i - 1) : a[j] = q[j]
  BY <1>1
<1>4. b \in Seq(S) /\ Len(b) = Len(q) - i + 1 /\ \A j \in 1..Len(b) : b[j] = q[i + j - 1]
  BY <1>2
<1>5. PICK c : c = a \o <<e>>
  OBVIOUS
<1>6. c \in Seq(S) /\ Len(c) = i /\ c[i] = e /\ \A j \in 1..(i - 1) : c[j] = a[j]
  BY <1>3, <1>5
<1>7. PICK r : r = c \o b
  OBVIOUS
<1>8. /\ r \in Seq(S) /\ Len(r) = Len(q) + 1
      /\ \A j \in 1..i : r[j] = c[j]
      /\ \A j \in 1..Len(b) : r[i + j] = b[j]
  <2>1. c \in Seq(S) /\ b \in Seq(S) /\ Len(c) \in Nat /\ Len(b) \in Nat /\ Len(q) \in Nat
    BY <1>6, <1>4
  <2>2. /\ r \in Seq(S) /\ Len(r) = Len(c) + Len(b)
        /\ \A j \in 1..Len(c) : r[j] = c[j]
        /\ \A j \in 1..Len(b) : r[Len(c) + j] = b[j]
    BY <1>7, <2>1, Concatenated
  <2> QED
    BY <1>6, <1>4, <2>1, <2>2
<1>9. r = Assembly!InsertAt(q, i, e)
  BY <1>1, <1>2, <1>5, <1>7 DEF Assembly!InsertAt
<1>10. r[i] = e
  BY <1>6, <1>8
<1>11. ASSUME NEW j \in 1..Len(q) PROVE q[j] = r[Shift(i, j)]
  <2>1. CASE j < i
    BY <1>3, <1>6, <1>8, <2>1 DEF Shift
  <2>2. CASE ~(j < i)
    <3>1. PICK k \in 1..Len(b) : k = j - i + 1
      BY <1>4, <2>2
    <3>2. b[k] = q[i + k - 1] /\ i + k - 1 = j /\ r[i + k] = b[k] /\ i + k = j + 1
      BY <1>4, <1>8, <3>1
    <3> QED
      BY <2>2, <3>2 DEF Shift
  <2> QED
    BY <2>1, <2>2
<1> QED
  BY <1>8, <1>9, <1>10, <1>11 DEF Grown

LEMMA RemoveAtShrinks ==
  ASSUME NEW S, NEW q \in Seq(S), NEW i \in 1..Len(q)
  PROVE  Assembly!RemoveAt(q, i) \in Seq(S) /\ Grown(Assembly!RemoveAt(q, i), q, i)
<1>1. PICK a : a = SubSeq(q, 1, i - 1)
  OBVIOUS
<1>2. PICK b : b = SubSeq(q, i + 1, Len(q))
  OBVIOUS
<1>3. a \in Seq(S) /\ Len(a) = i - 1 /\ \A j \in 1..(i - 1) : a[j] = q[j]
  BY <1>1
<1>4. b \in Seq(S) /\ Len(b) = Len(q) - i /\ \A j \in 1..Len(b) : b[j] = q[i + j]
  BY <1>2
<1>5. PICK r : r = a \o b
  OBVIOUS
<1>6. /\ r \in Seq(S) /\ Len(r) = Len(q) - 1
      /\ \A j \in 1..(i - 1) : r[j] = a[j]
      /\ \A j \in 1..Len(b) : r[i - 1 + j] = b[j]
  <2>1. a \in Seq(S) /\ b \in Seq(S) /\ Len(a) \in Nat /\ Len(b) \in Nat /\ Len(q) \in Nat
    BY <1>3, <1>4
  <2>2. /\ r \in Seq(S) /\ Len(r) = Len(a) + Len(b)
        /\ \A j \in 1..Len(a) : r[j] = a[j]
        /\ \A j \in 1..Len(b) : r[Len(a) + j] = b[j]
    BY <1>5, <2>1, Concatenated
  <2> QED
    BY <1>3, <1>4, <2>1, <2>2
<1>7. ASSUME NEW j \in 1..Len(r) PROVE r[j] = q[Shift(i, j)]
  <2>1. CASE j < i
    BY <1>3, <1>6, <2>1 DEF Shift
  <2>2. CASE ~(j < i)
    <3>1. PICK k \in 1..Len(b) : k = j - i + 1
      BY <1>4, <1>6, <2>2
    <3>2. b[k] = q[i + k] /\ i + k = j + 1 /\ r[i - 1 + k] = b[k] /\ i - 1 + k = j
      BY <1>4, <1>6, <3>1
    <3> QED
      BY <2>2, <3>2 DEF Shift
  <2> QED
    BY <2>1, <2>2
<1>8. r = Assembly!RemoveAt(q, i)
  BY <1>1, <1>2, <1>5 DEF Assembly!RemoveAt
<1>9. Grown(r, q, i)
  BY <1>6, <1>7 DEF Grown
<1> QED
  BY <1>6, <1>8, <1>9

LEMMA GrownFacts ==
  ASSUME NEW S, NEW q \in Seq(S), NEW r \in Seq(S), NEW i, Grown(q, r, i)
  PROVE  /\ \A j \in 1..Len(q) : /\ Shift(i, j) \in 1..Len(r) /\ Shift(i, j) # i
                                  /\ r[Shift(i, j)] = q[j]
         /\ \A j \in 1..Len(r) : j = i \/ \E k \in 1..Len(q) : j = Shift(i, k) /\ r[j] = q[k]
         /\ \A j, k \in 1..Len(q) : Shift(i, j) = Shift(i, k) => j = k
         /\ \A j, k \in 1..Len(q) : j <= k => Shift(i, j) <= Shift(i, k)
<1>1. i \in Nat /\ Len(q) \in Nat /\ Len(r) = Len(q) + 1 /\ i <= Len(r) /\ 1 <= i
  BY DEF Grown
<1>2. ASSUME NEW j \in 1..Len(q)
      PROVE  Shift(i, j) \in 1..Len(r) /\ Shift(i, j) # i /\ r[Shift(i, j)] = q[j]
  BY <1>1 DEF Grown, Shift
<1>3. ASSUME NEW j \in 1..Len(r), j # i
      PROVE  \E k \in 1..Len(q) : j = Shift(i, k)
  <2>1. CASE j < i
    BY <1>1, <2>1 DEF Shift
  <2>2. CASE i < j
    <3>1. j - 1 \in 1..Len(q) /\ j = Shift(i, j - 1)
      BY <1>1, <2>2 DEF Shift
    <3> QED
      BY <3>1
  <2> QED
    BY <1>1, <1>3, <2>1, <2>2
<1>4. \A j, k \in 1..Len(q) : Shift(i, j) = Shift(i, k) => j = k
  BY <1>1 DEF Shift
<1>5. \A j, k \in 1..Len(q) : j <= k => Shift(i, j) <= Shift(i, k)
  BY <1>1 DEF Shift
<1> QED
  BY <1>2, <1>3, <1>4, <1>5

\* Where pieces of s stand in a list.
TextOf(x, s) == x.kind = "asm" /\ x.scope = s
Positions(q, s) == {j \in 1..Len(q) : TextOf(q[j], s)}

LEMMA PositionsFinite ==
  ASSUME NEW q \in Seq(Item), NEW s
  PROVE  IsFiniteSet(Positions(q, s)) /\ Cardinality(Positions(q, s)) \in Nat
<1>1. Positions(q, s) \in SUBSET Nat /\ Len(q) \in Nat /\ \A j \in Positions(q, s) : j <= Len(q)
  BY DEF Positions
<1> QED
  BY <1>1, FS_BoundedSetOfNaturals, FS_CardinalityType

\* Another element is one piece more of its scope, and of no other.
LEMMA PositionsGrow ==
  ASSUME NEW q \in Seq(Item), NEW r \in Seq(Item), NEW i, Grown(q, r, i), NEW s
  PROVE  Cardinality(Positions(r, s)) = Cardinality(Positions(q, s)) + (IF TextOf(r[i], s) THEN 1 ELSE 0)
<1> DEFINE P == Positions(q, s)
           T == Positions(r, s) \ {i}
           f == [j \in P |-> Shift(i, j)]
<1>1. \A j \in P : j \in 1..Len(q) /\ TextOf(q[j], s)
  BY DEF Positions
<1>2. \A j \in P : Shift(i, j) \in T
  BY <1>1, GrownFacts DEF Positions
<1>3. \A n \in T : \E j \in P : Shift(i, j) = n
  <2> SUFFICES ASSUME NEW n \in T PROVE \E j \in P : Shift(i, j) = n
    OBVIOUS
  <2>1. n \in 1..Len(r) /\ n # i /\ TextOf(r[n], s)
    BY DEF Positions
  <2>2. PICK k \in 1..Len(q) : n = Shift(i, k) /\ r[n] = q[k]
    BY <2>1, GrownFacts
  <2> QED
    BY <2>1, <2>2 DEF Positions
<1>4. \A j, k \in P : Shift(i, j) = Shift(i, k) => j = k
  BY <1>1, GrownFacts
<1>5. f \in Bijection(P, T)
  <2> HIDE DEF P, T
  <2>1. f \in [P -> T] /\ \A j \in P : f[j] = Shift(i, j)
    BY <1>2
  <2> HIDE DEF f
  <2>2. f \in Injection(P, T)
    BY <1>4, <2>1 DEF Injection, IsInjective
  <2>3. f \in Surjection(P, T)
    BY <1>3, <2>1 DEF Surjection
  <2> QED
    BY <2>2, <2>3 DEF Bijection
<1>6. IsFiniteSet(P) /\ Cardinality(T) = Cardinality(P) /\ Cardinality(P) \in Nat
  <2>1. IsFiniteSet(P) /\ Cardinality(P) \in Nat
    BY PositionsFinite
  <2> HIDE DEF P, T, f
  <2> QED
    BY <1>5, <2>1, FS_Bijection DEF ExistsBijection
<1>7. i \in Positions(r, s) <=> TextOf(r[i], s)
  BY DEF Positions, Grown
<1>8. IsFiniteSet(Positions(r, s)) /\ Cardinality(Positions(r, s)) \in Nat
  BY PositionsFinite
<1>9. Cardinality(T) = IF TextOf(r[i], s) THEN Cardinality(Positions(r, s)) - 1 ELSE Cardinality(Positions(r, s))
  BY <1>7, <1>8, FS_RemoveElement
<1> HIDE DEF P, T, f
<1>10. CASE TextOf(r[i], s)
  BY <1>6, <1>8, <1>9, <1>10 DEF P
<1>11. CASE ~TextOf(r[i], s)
  BY <1>6, <1>8, <1>9, <1>11 DEF P
<1> QED
  BY <1>10, <1>11

LEMMA PiecesAre ==
  ASSUME AsmTypes
  PROVE  /\ \A s \in Scopes : Assembly!PiecesOf(s) = Positions(list, s)
         /\ Assembly!Pieces \in SUBSET Nat
         /\ Assembly!Pieces \subseteq 1..Len(list)
         /\ \A i \in Assembly!Pieces : /\ list[i] \in Item /\ list[i].kind = "asm"
                                        /\ list[i].scope \in Scopes /\ list[i].text \in Texts
                                        /\ i \in Positions(list, list[i].scope)
<1>1. list \in Seq(Item) /\ DOMAIN list = 1..Len(list) /\ \A i \in 1..Len(list) : list[i] \in Item
  BY DEF AsmTypes
<1>2. \A s \in Scopes : Assembly!PiecesOf(s) = Positions(list, s)
  BY <1>1 DEF Assembly!PiecesOf, Assembly!Pieces, Positions, TextOf
<1>3. Assembly!Pieces \in SUBSET Nat /\ Assembly!Pieces \subseteq 1..Len(list)
  BY <1>1 DEF Assembly!Pieces
<1>4. ASSUME NEW i \in Assembly!Pieces
      PROVE  /\ list[i] \in Item /\ list[i].kind = "asm" /\ list[i].scope \in Scopes /\ list[i].text \in Texts
             /\ i \in Positions(list, list[i].scope)
  <2>1. i \in 1..Len(list) /\ list[i] \in Item /\ list[i].kind = "asm"
    BY <1>1 DEF Assembly!Pieces
  <2> QED
    BY <2>1, ItemKinds DEF Positions, TextOf
<1> QED
  BY <1>2, <1>3, <1>4

LEMMA FirstPieceIs ==
  ASSUME AsmTypes, Assembly!Pieces # {}
  PROVE  Assembly!FirstPiece \in Assembly!Pieces /\ \A j \in Assembly!Pieces : Assembly!FirstPiece <= j
BY PiecesAre, LeastNumber DEF Assembly!FirstPiece

LEMMA AsmInit == Assembly!Init => AsmInv
<1> SUFFICES ASSUME Assembly!Init PROVE AsmInv
  OBVIOUS
<1>1. /\ scopes \in [Scopes -> [alive : BOOLEAN, count : Nat, var : [Assembly!Vars -> Nat]]]
      /\ \A s \in Scopes : /\ scopes[s].alive = FALSE /\ scopes[s].count = 0
                            /\ \A v \in Assembly!Vars : scopes[s].var[v] = 0
  BY DEF Assembly!Init, Assembly!Fresh, Assembly!NotInitialized
<1>2. /\ given \in [Scopes -> [RegVars -> Nat]]
      /\ \A s \in Scopes, v \in RegVars : given[s][v] = 0
  BY DEF Assembly!Init, Assembly!NotInitialized
<1>3. list \in Seq(Item) /\ \A i \in DOMAIN list : list[i].kind = "app"
  BY DEF Assembly!Init, Assembly!AppInstruction, Item
<1>4. AsmTypes
  BY <1>1, <1>2, <1>3 DEF Assembly!Init, AsmTypes
<1>5. Assembly!Pieces = {} /\ Assembly!Compiled = {}
  BY <1>3 DEF Assembly!Pieces, Assembly!Compiled
<1>6. StageInv
  BY <1>5 DEF StageInv, Assembly!Init
<1>7. \A s \in Scopes : Assembly!PiecesOf(s) = {} /\ Cardinality(Assembly!PiecesOf(s)) = 0
  BY <1>5, FS_EmptySet DEF Assembly!PiecesOf
<1>8. CountInv
  BY <1>1, <1>7 DEF CountInv
<1>9. Assembly!ScopesHeld
  BY <1>1, <1>7 DEF Assembly!ScopesHeld, Assembly!Init
<1>10. VarInv
  BY <1>1, <1>2, <1>5 DEF VarInv, Assembly!Init
<1> QED
  BY <1>4, <1>6, <1>8, <1>9, <1>10 DEF AsmInv

\* What is said of the list stays true while it stays as it is.
LEMMA ListKept ==
  ASSUME list' = list
  PROVE  /\ Assembly!Pieces' = Assembly!Pieces /\ Assembly!Compiled' = Assembly!Compiled
         /\ Assembly!FirstPiece' = Assembly!FirstPiece
         /\ \A s \in Scopes : Assembly!PiecesOf(s)' = Assembly!PiecesOf(s)
BY DEF Assembly!Pieces, Assembly!Compiled, Assembly!FirstPiece, Assembly!PiecesOf

\* Registers that a tool passes get different numbers.
Rank(inputs, v) == Cardinality({w \in inputs : w <= v})

LEMMA Ranks ==
  ASSUME NEW inputs \in Inputs
  PROVE  /\ Cardinality(inputs) \in Nat
         /\ \A v \in inputs : Rank(inputs, v) \in 1..Cardinality(inputs)
         /\ \A v, w \in inputs : Rank(inputs, v) = Rank(inputs, w) => v = w
<1>1. IsFiniteSet(inputs) /\ inputs \subseteq Nat
  BY AssemblyAssumption
<1>2. Cardinality(inputs) \in Nat
  BY <1>1, FS_CardinalityType
<1>3. ASSUME NEW v \in inputs
      PROVE  /\ IsFiniteSet({u \in inputs : u <= v}) /\ Rank(inputs, v) \in Nat
             /\ Rank(inputs, v) <= Cardinality(inputs) /\ Rank(inputs, v) # 0
  <2>0. PICK T : T = {u \in inputs : u <= v}
    OBVIOUS
  <2>1. T \in SUBSET inputs /\ v \in T
    BY <1>1, <2>0
  <2>2. IsFiniteSet(T) /\ Cardinality(T) <= Cardinality(inputs)
    BY <1>1, <2>1, FS_Subset
  <2>3. Cardinality(T) \in Nat /\ Cardinality(T) # 0
    BY <2>1, <2>2, FS_CardinalityType, FS_EmptySet
  <2> QED
    BY <2>0, <2>2, <2>3 DEF Rank
<1>4. ASSUME NEW v \in inputs, NEW w \in inputs, v < w, Rank(inputs, v) = Rank(inputs, w)
      PROVE  FALSE
  <2>1. PICK U : U = {u \in inputs : u <= w}
    OBVIOUS
  <2>2. PICK T : T = {u \in inputs : u <= v}
    OBVIOUS
  <2>3. T \in SUBSET U /\ w \in U /\ w \notin T
    <3>1. v \in Nat /\ w \in Nat /\ w <= w /\ ~(w <= v) /\ \A u \in inputs : u <= v => u <= w
      BY <1>1, <1>4
    <3> QED
      BY <2>1, <2>2, <3>1
  <2>4. IsFiniteSet(U) /\ Cardinality(U) = Cardinality(T)
    BY <1>3, <1>4, <2>1, <2>2 DEF Rank
  <2> QED
    BY <2>3, <2>4, FS_Subset
<1>5. \A v, w \in inputs : Rank(inputs, v) = Rank(inputs, w) => v = w
  BY <1>1, <1>4
<1>6. \A v \in inputs : Rank(inputs, v) \in 1..Cardinality(inputs)
  <2> SUFFICES ASSUME NEW v \in inputs PROVE Rank(inputs, v) \in 1..Cardinality(inputs)
    OBVIOUS
  <2>1. PICK n \in Nat : n = Rank(inputs, v) /\ n <= Cardinality(inputs) /\ n # 0
    BY <1>3
  <2> QED
    BY <1>2, <2>1
<1> QED
  BY <1>2, <1>5, <1>6

LEMMA NewScopeKeeps ==
  ASSUME AsmInv, NEW s \in Scopes, NEW inputs \in Inputs, Assembly!NewScope(s, inputs) PROVE AsmInv'
<1>1. PICK pv : pv = [v \in Assembly!Vars |->
                        IF v \in inputs THEN next_vr + Rank(inputs, v) ELSE 0]
  OBVIOUS
<1>2. next_vr \in Nat /\ Cardinality(inputs) \in Nat /\ next_vr' = next_vr + Cardinality(inputs)
  BY AsmCardinality, Ranks DEF AsmInv, AsmTypes, Assembly!NewScope
<1>3. /\ pv \in [Assembly!Vars -> Nat]
      /\ \A v \in Assembly!Vars : pv[v] # 0 => v \in inputs /\ next_vr < pv[v]
      /\ \A v \in Assembly!Vars : pv[v] <= next_vr'
  BY <1>1, <1>2, Ranks
<1>4. ASSUME NEW v \in Assembly!Vars, NEW w \in Assembly!Vars, pv[v] = pv[w], pv[v] # 0 PROVE v = w
  <2>1. v \in inputs /\ w \in inputs
    BY <1>3, <1>4
  <2>2. Rank(inputs, v) \in Nat /\ Rank(inputs, w) \in Nat /\ next_vr + Rank(inputs, v) = next_vr + Rank(inputs, w)
    BY <1>1, <1>4, <2>1, Ranks
  <2> QED
    BY <1>2, <2>1, <2>2, Ranks
<1>5. /\ scopes' = [scopes EXCEPT ![s] = [alive |-> TRUE, count |-> 0, var |-> pv]]
      /\ given' = [given EXCEPT ![s] = [v \in RegVars |-> pv[v]]]
  <2>1. \A v \in Assembly!Vars :
          (IF v \in inputs THEN next_vr + Assembly!Cardinality({w \in inputs : w <= v})
                           ELSE Assembly!NotInitialized) = pv[v]
    BY <1>1, AsmCardinality DEF Assembly!NotInitialized, Rank
  <2>2. \A v \in RegVars : v \in Assembly!Vars
    BY DEF Assembly!Vars
  <2> QED
    BY <1>1, <1>3, <2>1, <2>2 DEF Assembly!NewScope
<1>6. /\ scopes'[s].alive = TRUE /\ scopes'[s].count = 0 /\ scopes'[s].var = pv
      /\ \A t \in Scopes : t # s => scopes'[t] = scopes[t] /\ given'[t] = given[t]
      /\ \A v \in RegVars : given'[s][v] = pv[v]
      /\ handle' = handle \cup {s} /\ list' = list /\ asm_stage' = asm_stage /\ parsing' = parsing
      /\ asm_stage = "tools" /\ ~scopes[s].alive
  <2>1. /\ handle' = handle \cup {s} /\ list' = list /\ asm_stage' = asm_stage /\ parsing' = parsing
        /\ asm_stage = "tools" /\ ~scopes[s].alive
    BY DEF Assembly!NewScope
  <2>2. scopes'[s] = [alive |-> TRUE, count |-> 0, var |-> pv] /\ \A t \in Scopes : t # s => scopes'[t] = scopes[t]
    BY <1>5 DEF AsmInv, AsmTypes
  <2>3. given'[s] = [v \in RegVars |-> pv[v]] /\ \A t \in Scopes : t # s => given'[t] = given[t]
    BY <1>5 DEF AsmInv, AsmTypes
  <2> QED
    BY <2>1, <2>2, <2>3
<1>7. AsmTypes'
  <2>1. [alive |-> TRUE, count |-> 0, var |-> pv] \in [alive : BOOLEAN, count : Nat, var : [Assembly!Vars -> Nat]]
    BY <1>3
  <2>2. [v \in RegVars |-> pv[v]] \in [RegVars -> Nat]
    BY <1>3 DEF Assembly!Vars
  <2> QED
    BY <1>2, <1>5, <1>6, <2>1, <2>2 DEF AsmInv, AsmTypes, Assembly!NotParsing
<1>8. StageInv'
  BY <1>6, ListKept DEF AsmInv, StageInv, Assembly!NotParsing
<1>9. Assembly!PiecesOf(s) = {} /\ Cardinality(Assembly!PiecesOf(s)) = 0
  <2>1. Assembly!PiecesOf(s) = {}
    BY <1>6 DEF AsmInv, Assembly!ScopesHeld
  <2> QED
    BY <2>1, FS_EmptySet
<1>10. CountInv'
  <2>1. scopes'[s].count = 2 * Cardinality(Assembly!PiecesOf(s))
    BY <1>6, <1>9
  <2> QED
    BY <1>6, <2>1, ListKept DEF AsmInv, CountInv
<1>11. Assembly!ScopesHeld'
  BY <1>6, ListKept DEF AsmInv, Assembly!ScopesHeld
<1>12. VarInv'
  <2>1. Assembly!Compiled' = {}
    BY <1>6, ListKept DEF AsmInv, StageInv
  <2>2. \A t \in Scopes, v \in Assembly!Vars : t # s => scopes[t].var[v] \in Nat /\ scopes[t].var[v] <= next_vr
    BY DEF AsmInv, AsmTypes, VarInv
  <2>3. \A t \in Scopes, v \in Assembly!Vars : scopes'[t].var[v] <= next_vr'
    BY <1>2, <1>3, <1>6, <2>2
  <2>4. ASSUME NEW t \in Scopes, NEW u \in Scopes, NEW v \in Assembly!Vars, NEW w \in Assembly!Vars,
               scopes'[t].var[v] = scopes'[u].var[w], scopes'[t].var[v] # 0
        PROVE  t = u /\ v = w
    <3>1. CASE t = s /\ u = s
      BY <1>4, <1>6, <2>4, <3>1
    <3>2. CASE t # s /\ u # s
      BY <1>6, <2>4, <3>2 DEF AsmInv, VarInv
    <3>3. CASE t = s /\ u # s
      BY <1>2, <1>3, <1>6, <2>2, <2>4, <3>3
    <3>4. CASE t # s /\ u = s
      BY <1>2, <1>3, <1>6, <2>2, <2>4, <3>4
    <3> QED
      BY <3>1, <3>2, <3>3, <3>4
  <2>5. \A t \in Scopes, v \in RegVars : given'[t][v] # 0 => scopes'[t].var[v] = given'[t][v]
    BY <1>6 DEF AsmInv, VarInv
  <2> QED
    BY <2>1, <2>3, <2>4, <2>5 DEF VarInv, Assembly!Vars
<1> QED
  BY <1>7, <1>8, <1>10, <1>11, <1>12 DEF AsmInv

LEMMA RegisterKeeps ==
  ASSUME AsmInv, NEW s \in Scopes, NEW v \in RegVars, Assembly!Register(s, v) PROVE AsmInv'
<1>0. v \in Assembly!Vars
  BY DEF Assembly!Vars
<1>1. PICK old \in Nat : old = scopes[s].var[v] /\ old <= next_vr
  BY <1>0 DEF AsmInv, AsmTypes, VarInv
<1>2. next_vr \in Nat
  BY DEF AsmInv, AsmTypes
<1>3. PICK r \in Nat : /\ r = (IF old = 0 THEN next_vr + 1 ELSE old) /\ r # 0
                       /\ next_vr' = (IF old = 0 THEN r ELSE next_vr)
                       /\ scopes' = [scopes EXCEPT ![s].var[v] = r]
                       /\ given' = [given EXCEPT ![s][v] = r]
  <2>1. PICK r : r = (IF old = 0 THEN next_vr + 1 ELSE old)
    OBVIOUS
  <2>2. r \in Nat /\ r # 0
    BY <1>2, <2>1
  <2>3. /\ next_vr' = (IF old = 0 THEN r ELSE next_vr)
        /\ scopes' = [scopes EXCEPT ![s].var[v] = r]
        /\ given' = [given EXCEPT ![s][v] = r]
    BY <1>1, <2>1 DEF Assembly!Register, Assembly!NotInitialized
  <2> QED
    BY <2>1, <2>2, <2>3
<1>4. /\ scopes'[s].alive = scopes[s].alive /\ scopes'[s].count = scopes[s].count
      /\ scopes'[s].var[v] = r
      /\ \A w \in Assembly!Vars : w # v => scopes'[s].var[w] = scopes[s].var[w]
      /\ \A t \in Scopes : t # s => scopes'[t] = scopes[t] /\ given'[t] = given[t]
      /\ given'[s][v] = r /\ \A w \in RegVars : w # v => given'[s][w] = given[s][w]
  BY <1>0, <1>3 DEF AsmInv, AsmTypes
<1>5. /\ handle' = handle /\ list' = list /\ asm_stage' = asm_stage /\ parsing' = parsing
      /\ asm_stage = "tools"
  BY DEF Assembly!Register
<1>6. AsmTypes'
  <2>1. scopes' \in [Scopes -> [alive : BOOLEAN, count : Nat, var : [Assembly!Vars -> Nat]]]
    BY <1>0, <1>3 DEF AsmInv, AsmTypes
  <2>2. given' \in [Scopes -> [RegVars -> Nat]]
    BY <1>3 DEF AsmInv, AsmTypes
  <2> QED
    BY <1>2, <1>3, <1>5, <2>1, <2>2 DEF AsmInv, AsmTypes, Assembly!Vars, Assembly!NotParsing
<1>7. StageInv'
  BY <1>5, ListKept DEF AsmInv, StageInv, Assembly!NotParsing
<1>8. CountInv'
  BY <1>4, <1>5, ListKept DEF AsmInv, CountInv
<1>9. Assembly!ScopesHeld'
  BY <1>4, <1>5, ListKept DEF AsmInv, Assembly!ScopesHeld
<1>10. VarInv'
  <2>1. Assembly!Compiled' = {}
    BY <1>5, ListKept DEF AsmInv, StageInv
  <2>2. \A t \in Scopes, w \in Assembly!Vars : scopes[t].var[w] \in Nat /\ scopes[t].var[w] <= next_vr
    BY DEF AsmInv, AsmTypes, VarInv
  <2>3. \A t \in Scopes, w \in Assembly!Vars : scopes'[t].var[w] = IF t = s /\ w = v THEN r ELSE scopes[t].var[w]
    BY <1>4
  <2>4. \A t \in Scopes, w \in Assembly!Vars : scopes'[t].var[w] <= next_vr'
    BY <1>1, <1>2, <1>3, <2>2, <2>3
  <2>5. \A t \in Scopes, w \in Assembly!Vars : scopes[t].var[w] = r => t = s /\ w = v
    <3>1. CASE old = 0
      BY <1>2, <1>3, <2>2, <3>1
    <3>2. CASE old # 0
      BY <1>0, <1>1, <1>3, <3>2 DEF AsmInv, VarInv
    <3> QED
      BY <3>1, <3>2
  <2>6. ASSUME NEW t \in Scopes, NEW u \in Scopes, NEW x \in Assembly!Vars, NEW w \in Assembly!Vars,
               scopes'[t].var[x] = scopes'[u].var[w], scopes'[t].var[x] # 0
        PROVE  t = u /\ x = w
    BY <2>3, <2>5, <2>6 DEF AsmInv, VarInv
  <2>7. \A t \in Scopes, w \in RegVars : given'[t][w] # 0 => scopes'[t].var[w] = given'[t][w]
    BY <1>4 DEF AsmInv, VarInv, Assembly!Vars
  <2> QED
    BY <2>1, <2>4, <2>6, <2>7 DEF VarInv, Assembly!Vars
<1> QED
  BY <1>6, <1>7, <1>8, <1>9, <1>10 DEF AsmInv

LEMMA VarsKept ==
  ASSUME AsmInv, given' = given, next_vr' = next_vr, \A t \in Scopes : scopes'[t].var = scopes[t].var,
         \A i \in Assembly!Compiled' : \E k \in Assembly!Compiled : list'[i] = list[k]
  PROVE  VarInv'
<1>1. \A t \in Scopes, v \in Assembly!Vars : scopes'[t].var[v] <= next_vr'
  BY DEF AsmInv, VarInv
<1>2. \A t, u \in Scopes, v, w \in Assembly!Vars :
         scopes'[t].var[v] = scopes'[u].var[w] /\ scopes'[t].var[v] # 0 => t = u /\ v = w
  BY DEF AsmInv, VarInv
<1>3. \A t \in Scopes, v \in RegVars : given'[t][v] # 0 => scopes'[t].var[v] = given'[t][v]
  BY DEF AsmInv, VarInv
<1>4. ASSUME NEW i \in Assembly!Compiled'
      PROVE  list'[i].target # 0 /\ list'[i].target = scopes'[list'[i].scope].var[list'[i].stmt.var]
  <2>1. PICK k \in Assembly!Compiled : list'[i] = list[k]
    OBVIOUS
  <2>2. list[k].scope \in Scopes
    BY ItemKinds DEF AsmInv, AsmTypes, Assembly!Compiled
  <2>3. list[k].target # 0 /\ list[k].target = scopes[list[k].scope].var[list[k].stmt.var]
    BY DEF AsmInv, VarInv
  <2> QED
    BY <2>1, <2>2, <2>3
<1> QED
  BY <1>1, <1>2, <1>3, <1>4 DEF VarInv

LEMMA DestroyHandleKeeps ==
  ASSUME AsmInv, NEW s \in Scopes, Assembly!DestroyHandle(s) PROVE AsmInv'
<1>1. /\ handle' = handle \ {s} /\ given' = given /\ list' = list /\ asm_stage' = asm_stage
      /\ parsing' = parsing /\ next_vr' = next_vr /\ asm_stage = "tools" /\ s \in handle
  BY DEF Assembly!DestroyHandle
<1>2. scopes' = IF scopes[s].count = 0 THEN [scopes EXCEPT ![s].alive = FALSE] ELSE scopes
  BY DEF Assembly!DestroyHandle, Assembly!CanDestroy
<1>3. /\ scopes' \in [Scopes -> [alive : BOOLEAN, count : Nat, var : [Assembly!Vars -> Nat]]]
      /\ \A t \in Scopes : t # s => scopes'[t] = scopes[t]
      /\ \A t \in Scopes : scopes'[t].count = scopes[t].count /\ scopes'[t].var = scopes[t].var
      /\ scopes[s].count = 0 => ~scopes'[s].alive
      /\ scopes[s].count # 0 => scopes'[s] = scopes[s]
  BY <1>2 DEF AsmInv, AsmTypes
<1>4. AsmTypes'
  BY <1>1, <1>3 DEF AsmInv, AsmTypes, Assembly!NotParsing
<1>5. StageInv'
  BY <1>1, ListKept DEF AsmInv, StageInv, Assembly!NotParsing
<1>6. CountInv'
  BY <1>1, <1>3, ListKept DEF AsmInv, CountInv
<1>7. scopes[s].count = 0 <=> Assembly!PiecesOf(s) = {}
  <2>1. list \in Seq(Item) /\ Assembly!PiecesOf(s) = Positions(list, s)
    BY PiecesAre DEF AsmInv, AsmTypes
  <2>2. IsFiniteSet(Assembly!PiecesOf(s)) /\ Cardinality(Assembly!PiecesOf(s)) \in Nat
    BY <2>1, PositionsFinite
  <2>3. Cardinality(Assembly!PiecesOf(s)) = 0 <=> Assembly!PiecesOf(s) = {}
    BY <2>2, FS_EmptySet
  <2>4. scopes[s].count = 2 * Cardinality(Assembly!PiecesOf(s))
    BY DEF AsmInv, CountInv
  <2> QED
    BY <2>2, <2>3, <2>4
<1>8. Assembly!ScopesHeld'
  <2>1. scopes[s].alive
    BY <1>1 DEF AsmInv, Assembly!ScopesHeld
  <2>2. scopes'[s].alive <=> Assembly!PiecesOf(s) # {}
    BY <1>3, <1>7, <2>1
  <2>3. \A t \in Scopes : t # s => (scopes'[t].alive <=> (t \in handle \/ Assembly!PiecesOf(t) # {}))
    BY <1>3 DEF AsmInv, Assembly!ScopesHeld
  <2> QED
    BY <1>1, <2>2, <2>3, ListKept DEF Assembly!ScopesHeld
<1>9. VarInv'
  <2>1. Assembly!Compiled' = {}
    BY <1>1, ListKept DEF AsmInv, StageInv
  <2> QED
    BY <1>1, <1>3, <2>1, VarsKept
<1> QED
  BY <1>4, <1>5, <1>6, <1>8, <1>9 DEF AsmInv

LEMMA InlineKeeps ==
  ASSUME AsmInv, NEW s \in Scopes, NEW x \in Texts, NEW i \in 1..(Len(list) + 1),
         Assembly!Inline(s, x, i)
  PROVE  AsmInv'
<1>0. list \in Seq(Item)
  BY DEF AsmInv, AsmTypes
<1>1. PICK e \in TextItem : e = Assembly!Piece(s, x)
  BY DEF Assembly!Piece, TextItem
<1>2. e \in Item /\ e.kind = "asm" /\ e.scope = s
  BY <1>1 DEF Assembly!Piece, Item
<1>3. list' = Assembly!InsertAt(list, i, e)
  BY <1>1 DEF Assembly!Inline
<1>4. list' \in Seq(Item) /\ list'[i] = e /\ Grown(list, list', i)
  BY <1>0, <1>2, <1>3, InsertAtGrows
<1>5. /\ handle' = handle /\ given' = given /\ asm_stage' = asm_stage
      /\ parsing' = parsing /\ next_vr' = next_vr /\ asm_stage = "tools" /\ s \in handle
      /\ scopes' = [scopes EXCEPT ![s].count = @ + 2]
  BY DEF Assembly!Inline
<1>6. /\ scopes' \in [Scopes -> [alive : BOOLEAN, count : Nat, var : [Assembly!Vars -> Nat]]]
      /\ \A t \in Scopes : t # s => scopes'[t] = scopes[t]
      /\ \A t \in Scopes : scopes'[t].alive = scopes[t].alive /\ scopes'[t].var = scopes[t].var
      /\ scopes'[s].count = scopes[s].count + 2
  <2>1. PICK c \in [alive : BOOLEAN, count : Nat, var : [Assembly!Vars -> Nat]] : c = scopes[s]
    BY DEF AsmInv, AsmTypes
  <2>2. PICK d : d = [c EXCEPT !.count = c.count + 2]
    OBVIOUS
  <2>3. /\ d \in [alive : BOOLEAN, count : Nat, var : [Assembly!Vars -> Nat]]
        /\ d.alive = c.alive /\ d.count = c.count + 2 /\ d.var = c.var
    BY <2>2
  <2>4. scopes' = [scopes EXCEPT ![s] = d]
    BY <1>5, <2>1, <2>2 DEF AsmInv, AsmTypes
  <2> QED
    BY <2>1, <2>3, <2>4 DEF AsmInv, AsmTypes
<1>7. AsmTypes'
  BY <1>4, <1>5, <1>6 DEF AsmInv, AsmTypes, Assembly!NotParsing
<1>8. Assembly!Compiled' = {}
  <2>1. \A j \in 1..Len(list') : list'[j].kind # "instr"
    <3>1. \A j \in 1..Len(list) : list[j].kind # "instr"
      BY <1>0, <1>5 DEF AsmInv, StageInv, Assembly!Compiled
    <3> QED
      BY <1>0, <1>2, <1>4, <3>1, GrownFacts
  <2> QED
    BY <1>4, <2>1 DEF Assembly!Compiled
<1>9. StageInv'
  BY <1>5, <1>8 DEF AsmInv, StageInv, Assembly!NotParsing
<1>10. \A t \in Scopes : /\ Assembly!PiecesOf(t) = Positions(list, t) /\ Assembly!PiecesOf(t)' = Positions(list, t)'
                         /\ Cardinality(Positions(list, t)) \in Nat
  <2>1. \A t \in Scopes : Assembly!PiecesOf(t) = Positions(list, t)
    BY PiecesAre DEF AsmInv
  <2>2. \A t \in Scopes : Assembly!PiecesOf(t)' = Positions(list, t)'
    BY <1>4 DEF Assembly!PiecesOf, Assembly!Pieces, Positions, TextOf
  <2> QED
    BY <1>0, <2>1, <2>2, PositionsFinite
<1>11. \A t \in Scopes : Cardinality(Assembly!PiecesOf(t)') =
                           Cardinality(Assembly!PiecesOf(t)) + (IF t = s THEN 1 ELSE 0)
  <2> SUFFICES ASSUME NEW t \in Scopes
               PROVE  Cardinality(Assembly!PiecesOf(t)') = Cardinality(Assembly!PiecesOf(t)) + (IF t = s THEN 1 ELSE 0)
    OBVIOUS
  <2>1. TextOf(list'[i], t) <=> t = s
    BY <1>2, <1>4 DEF TextOf
  <2>2. Cardinality(Positions(list', t)) = Cardinality(Positions(list, t)) + (IF TextOf(list'[i], t) THEN 1 ELSE 0)
    BY <1>0, <1>4, PositionsGrow
  <2>3. Assembly!PiecesOf(t)' = Positions(list', t)
    BY <1>10 DEF Positions, TextOf
  <2> QED
    BY <1>10, <2>1, <2>2, <2>3
<1>12. CountInv'
  <2>1. \A t \in Scopes : Cardinality(Assembly!PiecesOf(t)) \in Nat /\ scopes[t].count = 2 * Cardinality(Assembly!PiecesOf(t))
    BY <1>10 DEF AsmInv, CountInv
  <2>2. ASSUME NEW t \in Scopes PROVE scopes'[t].count = 2 * Cardinality(Assembly!PiecesOf(t)')
    <3>1. CASE t = s
      BY <1>6, <1>11, <2>1, <3>1
    <3>2. CASE t # s
      BY <1>6, <1>11, <2>1, <3>2
    <3> QED
      BY <3>1, <3>2
  <2> QED
    BY <2>2 DEF CountInv
<1>13. Assembly!ScopesHeld'
  <2>1. \A t \in Scopes : t # s => (Assembly!PiecesOf(t)' = {} <=> Assembly!PiecesOf(t) = {})
    <3> SUFFICES ASSUME NEW t \in Scopes, t # s PROVE Assembly!PiecesOf(t)' = {} <=> Assembly!PiecesOf(t) = {}
      OBVIOUS
    <3>1. /\ IsFiniteSet(Positions(list, t)) /\ IsFiniteSet(Positions(list', t))
      BY <1>0, <1>4, PositionsFinite
    <3>2. Assembly!PiecesOf(t)' = Positions(list', t) /\ Assembly!PiecesOf(t) = Positions(list, t)
      BY <1>10 DEF Positions, TextOf
    <3>3. Cardinality(Positions(list', t)) = Cardinality(Positions(list, t))
      BY <1>10, <1>11, <3>2
    <3> QED
      BY <3>1, <3>2, <3>3, FS_EmptySet
  <2> QED
    BY <1>5, <1>6, <2>1 DEF AsmInv, Assembly!ScopesHeld
<1>14. VarInv'
  BY <1>5, <1>6, <1>8, VarsKept
<1> QED
  BY <1>7, <1>9, <1>12, <1>13, <1>14 DEF AsmInv

\* A piece goes, and with the last one its scope.
LEMMA ReleaseKeeps ==
  ASSUME AsmInv, NEW i \in Assembly!Pieces, NEW s \in Scopes, s = list[i].scope, s \notin handle,
         scopes' = Assembly!Released(s), list' = Assembly!RemoveAt(list, i),
         handle' = handle, given' = given, next_vr' = next_vr
  PROVE  /\ scopes' \in [Scopes -> [alive : BOOLEAN, count : Nat, var : [Assembly!Vars -> Nat]]]
         /\ list' \in Seq(Item) /\ CountInv' /\ Assembly!ScopesHeld' /\ VarInv'
         /\ Assembly!Compiled = {} => Assembly!Compiled' = {}
<1>0. list \in Seq(Item) /\ i \in 1..Len(list) /\ i \in Positions(list, s) /\ TextOf(list[i], s)
      /\ list[i].kind = "asm"
  BY PiecesAre DEF AsmInv, AsmTypes, TextOf
<1>1. list' \in Seq(Item) /\ Grown(list', list, i)
  BY <1>0, RemoveAtShrinks
<1>2. \A t \in Scopes : /\ Assembly!PiecesOf(t) = Positions(list, t) /\ Assembly!PiecesOf(t)' = Positions(list', t)
                        /\ IsFiniteSet(Positions(list, t)) /\ IsFiniteSet(Positions(list', t))
                        /\ Cardinality(Positions(list, t)) \in Nat /\ Cardinality(Positions(list', t)) \in Nat
  <2>1. \A t \in Scopes : Assembly!PiecesOf(t) = Positions(list, t)
    BY PiecesAre DEF AsmInv
  <2>2. \A t \in Scopes : Assembly!PiecesOf(t)' = Positions(list', t)
    BY <1>1 DEF Assembly!PiecesOf, Assembly!Pieces, Positions, TextOf
  <2> QED
    BY <1>0, <1>1, <2>1, <2>2, PositionsFinite
<1>3. ASSUME NEW t \in Scopes
      PROVE  Cardinality(Positions(list, t)) = Cardinality(Positions(list', t)) + (IF t = s THEN 1 ELSE 0)
  <2>1. TextOf(list[i], t) <=> t = s
    BY <1>0 DEF TextOf
  <2>2. Cardinality(Positions(list, t)) = Cardinality(Positions(list', t)) + (IF TextOf(list[i], t) THEN 1 ELSE 0)
    BY <1>0, <1>1, PositionsGrow
  <2> QED
    BY <2>1, <2>2
<1>4. PICK c \in [alive : BOOLEAN, count : Nat, var : [Assembly!Vars -> Nat]] : c = scopes[s]
  BY DEF AsmInv, AsmTypes
<1>5. PICK m \in Nat : m = Cardinality(Positions(list', s)) /\ c.count = 2 * (m + 1)
  <2>1. scopes[s].count = 2 * Cardinality(Positions(list, s))
    BY <1>2 DEF AsmInv, CountInv
  <2> QED
    BY <1>2, <1>3, <1>4, <2>1
<1>6. PICK d : d = [c EXCEPT !.count = c.count - 2, !.alive = c.alive /\ c.count - 2 # 0]
  OBVIOUS
<1>7. c.count - 2 = 2 * m /\ c.count - 2 \in Nat /\ (c.count - 2 # 0 <=> m # 0)
  BY <1>5
<1>8. /\ d \in [alive : BOOLEAN, count : Nat, var : [Assembly!Vars -> Nat]]
      /\ (d.alive <=> c.alive /\ m # 0) /\ d.count = 2 * m /\ d.var = c.var
  <2>1. (c.alive /\ c.count - 2 # 0) \in BOOLEAN
    OBVIOUS
  <2>2. d.count = c.count - 2 /\ d.var = c.var /\ d.alive = (c.alive /\ c.count - 2 # 0)
    BY <1>6
  <2>3. d \in [alive : BOOLEAN, count : Nat, var : [Assembly!Vars -> Nat]]
    BY <1>6, <1>7, <2>1
  <2> QED
    BY <1>7, <2>2, <2>3
<1>9. scopes' = [scopes EXCEPT ![s] = d]
  BY <1>4, <1>6 DEF Assembly!Released, AsmInv, AsmTypes
<1>10. /\ scopes' \in [Scopes -> [alive : BOOLEAN, count : Nat, var : [Assembly!Vars -> Nat]]]
       /\ scopes'[s] = d /\ \A t \in Scopes : t # s => scopes'[t] = scopes[t]
       /\ \A t \in Scopes : scopes'[t].var = scopes[t].var
  BY <1>4, <1>8, <1>9 DEF AsmInv, AsmTypes
<1>11. CountInv'
  <2>1. ASSUME NEW t \in Scopes PROVE scopes'[t].count = 2 * Cardinality(Assembly!PiecesOf(t)')
    <3>1. CASE t = s
      BY <1>2, <1>5, <1>8, <1>10, <3>1
    <3>2. CASE t # s
      <4>1. scopes[t].count = 2 * Cardinality(Positions(list, t))
        BY <1>2 DEF AsmInv, CountInv
      <4>2. Cardinality(Positions(list, t)) = Cardinality(Positions(list', t))
        BY <1>2, <1>3, <3>2
      <4> QED
        BY <1>2, <1>10, <3>2, <4>1, <4>2
    <3> QED
      BY <3>1, <3>2
  <2> QED
    BY <2>1 DEF CountInv
<1>12. Assembly!ScopesHeld'
  <2>1. ASSUME NEW t \in Scopes PROVE scopes'[t].alive <=> (t \in handle \/ Assembly!PiecesOf(t)' # {})
    <3>1. CASE t = s
      <4>1. c.alive
        BY <1>0, <1>2, <1>4 DEF AsmInv, Assembly!ScopesHeld
      <4>2. m # 0 <=> Positions(list', s) # {}
        BY <1>2, <1>5, FS_EmptySet
      <4> QED
        BY <1>2, <1>8, <1>10, <3>1, <4>1, <4>2
    <3>2. CASE t # s
      <4>1. Cardinality(Positions(list, t)) = Cardinality(Positions(list', t))
        BY <1>2, <1>3, <3>2
      <4>2. Positions(list, t) = {} <=> Positions(list', t) = {}
        BY <1>2, <4>1, FS_EmptySet
      <4> QED
        BY <1>2, <1>10, <3>2, <4>2 DEF AsmInv, Assembly!ScopesHeld
    <3> QED
      BY <3>1, <3>2
  <2> QED
    BY <2>1 DEF Assembly!ScopesHeld
<1>13. \A n \in Assembly!Compiled' : \E k \in Assembly!Compiled : list'[n] = list[k]
  <2> SUFFICES ASSUME NEW n \in Assembly!Compiled' PROVE \E k \in Assembly!Compiled : list'[n] = list[k]
    OBVIOUS
  <2>1. n \in 1..Len(list') /\ list'[n].kind = "instr"
    BY <1>1 DEF Assembly!Compiled
  <2>2. Shift(i, n) \in 1..Len(list) /\ list[Shift(i, n)] = list'[n]
    BY <1>0, <1>1, <2>1, GrownFacts
  <2>3. Shift(i, n) \in Assembly!Compiled
    BY <1>0, <2>1, <2>2 DEF Assembly!Compiled
  <2> QED
    BY <2>2, <2>3
<1>14. VarInv'
  BY <1>10, <1>13, VarsKept
<1> QED
  BY <1>1, <1>10, <1>11, <1>12, <1>13, <1>14

LEMMA UnlinkKeeps ==
  ASSUME AsmInv, NEW i \in DOMAIN list, Assembly!Unlink(i) PROVE AsmInv'
<1>1. /\ asm_stage = "tools" /\ i \in Assembly!Pieces /\ list[i].scope \notin handle
      /\ scopes' = Assembly!Released(list[i].scope) /\ list' = Assembly!RemoveAt(list, i)
      /\ handle' = handle /\ given' = given /\ asm_stage' = asm_stage /\ parsing' = parsing /\ next_vr' = next_vr
  BY DEF Assembly!Unlink
<1>2. list[i].scope \in Scopes
  BY <1>1, PiecesAre DEF AsmInv
<1>3. /\ scopes' \in [Scopes -> [alive : BOOLEAN, count : Nat, var : [Assembly!Vars -> Nat]]]
      /\ list' \in Seq(Item) /\ CountInv' /\ Assembly!ScopesHeld' /\ VarInv'
      /\ Assembly!Compiled = {} => Assembly!Compiled' = {}
  BY <1>1, <1>2, ReleaseKeeps
<1>4. AsmTypes'
  BY <1>1, <1>3 DEF AsmInv, AsmTypes, Assembly!NotParsing
<1>5. StageInv'
  BY <1>1, <1>3 DEF AsmInv, StageInv, Assembly!NotParsing
<1> QED
  BY <1>3, <1>4, <1>5 DEF AsmInv

LEMMA DeletePieceKeeps ==
  ASSUME AsmInv, Assembly!DeletePiece PROVE AsmInv'
<1>1. /\ parsing # Assembly!NotParsing /\ parsing' = Assembly!NotParsing
      /\ scopes' = Assembly!Released(parsing.scope) /\ list' = Assembly!RemoveAt(list, Assembly!FirstPiece)
      /\ handle' = handle /\ given' = given /\ asm_stage' = asm_stage /\ next_vr' = next_vr
  BY DEF Assembly!DeletePiece
<1>2. PICK i \in Assembly!Pieces : i = Assembly!FirstPiece /\ list[i].scope = parsing.scope
  BY <1>1, FirstPieceIs DEF AsmInv, StageInv
<1>3. asm_stage = "compile" /\ handle = {} /\ list[i].scope \in Scopes
  BY <1>1, PiecesAre DEF AsmInv, StageInv
<1>4. /\ scopes' \in [Scopes -> [alive : BOOLEAN, count : Nat, var : [Assembly!Vars -> Nat]]]
      /\ list' \in Seq(Item) /\ CountInv' /\ Assembly!ScopesHeld' /\ VarInv'
  BY <1>1, <1>2, <1>3, ReleaseKeeps
<1>5. AsmTypes'
  BY <1>1, <1>4 DEF AsmInv, AsmTypes, Assembly!NotParsing
<1>6. StageInv'
  BY <1>1, <1>3 DEF AsmInv, StageInv, Assembly!NotParsing
<1> QED
  BY <1>4, <1>5, <1>6 DEF AsmInv

\* Steps that only turn to another piece or stage.
LEMMA TurnKeeps ==
  ASSUME AsmInv, UNCHANGED <<scopes, handle, given, list, next_vr>>, StageInv',
         asm_stage' \in {"tools", "compile", "done"},
         parsing' = Assembly!NotParsing \/ parsing' \in [scope : Scopes, rest : Seq(Statement)]
  PROVE  AsmInv'
<1>1. AsmTypes'
  BY DEF AsmInv, AsmTypes, Assembly!NotParsing
<1>2. CountInv'
  BY ListKept DEF AsmInv, CountInv
<1>3. Assembly!ScopesHeld'
  BY ListKept DEF AsmInv, Assembly!ScopesHeld
<1>4. VarInv'
  BY ListKept, VarsKept
<1> QED
  BY <1>1, <1>2, <1>3, <1>4 DEF AsmInv

LEMMA StartCompileKeeps == ASSUME AsmInv, Assembly!StartCompile PROVE AsmInv'
<1>1. /\ UNCHANGED <<scopes, handle, given, list, next_vr>> /\ asm_stage' = "compile"
      /\ parsing' = parsing /\ handle = {} /\ asm_stage = "tools"
  BY DEF Assembly!StartCompile
<1>2. parsing = Assembly!NotParsing
  BY <1>1 DEF AsmInv, StageInv
<1>3. StageInv'
  BY <1>1, <1>2 DEF StageInv, Assembly!NotParsing
<1> QED
  BY <1>1, <1>2, <1>3, TurnKeeps

LEMMA CompileBlockKeeps == ASSUME AsmInv, Assembly!CompileInlineAssemblyBlock PROVE AsmInv'
<1>1. /\ UNCHANGED <<scopes, handle, given, list, next_vr>> /\ asm_stage' = asm_stage /\ asm_stage = "compile"
      /\ Assembly!Pieces # {}
      /\ parsing' = [scope |-> list[Assembly!FirstPiece].scope, rest |-> list[Assembly!FirstPiece].text]
  BY DEF Assembly!CompileInlineAssemblyBlock
<1>2. PICK i \in Assembly!Pieces : i = Assembly!FirstPiece
  BY <1>1, FirstPieceIs DEF AsmInv
<1>3. list[i].scope \in Scopes /\ list[i].text \in Texts
  BY PiecesAre DEF AsmInv
<1>4. list[i].text \in Seq(Statement)
  BY <1>3, AssemblyAssumption DEF Statement, Assembly!Vars
<1>5. StageInv'
  BY <1>1, ListKept DEF AsmInv, StageInv
<1> QED
  BY <1>1, <1>2, <1>3, <1>4, <1>5, TurnKeeps

LEMMA EndCompileKeeps == ASSUME AsmInv, Assembly!EndCompile PROVE AsmInv'
<1>1. /\ UNCHANGED <<scopes, handle, given, list, next_vr>> /\ asm_stage' = "done"
      /\ parsing' = parsing /\ asm_stage = "compile" /\ Assembly!Pieces = {}
  BY DEF Assembly!EndCompile
<1>2. parsing = Assembly!NotParsing /\ handle = {}
  BY <1>1 DEF AsmInv, StageInv
<1>3. StageInv'
  BY <1>1, <1>2 DEF StageInv, Assembly!NotParsing
<1> QED
  BY <1>1, <1>2, <1>3, TurnKeeps

\* An instruction before the first piece leaves that piece the first one.
LEMMA FirstPieceStays ==
  ASSUME AsmTypes, AsmTypes', NEW i \in Assembly!Pieces, i = Assembly!FirstPiece,
         Grown(list, list', i), list'[i].kind # "asm"
  PROVE  /\ Assembly!Pieces' # {} /\ Assembly!FirstPiece' \in 1..Len(list')
         /\ list'[Assembly!FirstPiece'] = list[i]
<1>1. /\ list \in Seq(Item) /\ list' \in Seq(Item) /\ i \in 1..Len(list) /\ list[i].kind = "asm"
      /\ \A j \in Assembly!Pieces : i <= j /\ j \in 1..Len(list)
  BY PiecesAre, FirstPieceIs DEF AsmTypes
<1>2. i + 1 \in 1..Len(list') /\ list'[i + 1] = list[i]
  BY <1>1 DEF Grown, Shift
<1>3. i + 1 \in Assembly!Pieces'
  BY <1>1, <1>2 DEF Assembly!Pieces
<1>4. ASSUME NEW n \in Assembly!Pieces' PROVE n \in Nat /\ i + 1 <= n
  <2>1. n \in 1..Len(list') /\ list'[n].kind = "asm" /\ n # i
    BY <1>1 DEF Assembly!Pieces
  <2>2. PICK k \in 1..Len(list) : n = Shift(i, k) /\ list'[n] = list[k]
    BY <1>1, <2>1, GrownFacts
  <2>3. k \in Assembly!Pieces
    BY <1>1, <2>1, <2>2 DEF Assembly!Pieces
  <2> QED
    BY <1>1, <2>1, <2>2, <2>3 DEF Shift
<1>5. Assembly!FirstPiece' = i + 1
  <2>1. Assembly!FirstPiece' = CHOOSE n \in Assembly!Pieces' : \A m \in Assembly!Pieces' : n <= m
    BY DEF Assembly!FirstPiece
  <2>2. \E n \in Assembly!Pieces' : \A m \in Assembly!Pieces' : n <= m
    BY <1>3, <1>4
  <2>3. Assembly!FirstPiece' \in Assembly!Pieces' /\ \A m \in Assembly!Pieces' : Assembly!FirstPiece' <= m
    BY <2>1, <2>2
  <2>4. Assembly!FirstPiece' \in Nat /\ Assembly!FirstPiece' <= i + 1 /\ i + 1 <= Assembly!FirstPiece'
    BY <1>3, <1>4, <2>3
  <2> QED
    BY <1>1, <2>4
<1> QED
  BY <1>2, <1>3, <1>5

LEMMA ParseInstructionKeeps == ASSUME AsmInv, Assembly!ParseInstruction PROVE AsmInv'
<1>1. PICK s \in Scopes : s = parsing.scope /\ parsing \in [scope : Scopes, rest : Seq(Statement)]
  BY DEF AsmInv, AsmTypes, Assembly!ParseInstruction
<1>2. PICK x \in Statement : x = Head(parsing.rest)
  BY <1>1 DEF Assembly!ParseInstruction
<1>3. PICK v \in Assembly!Vars : v = x.var
  BY DEF Statement
<1>4. PICK i \in Assembly!Pieces : i = Assembly!FirstPiece /\ list[i].scope = s
  BY <1>1, FirstPieceIs DEF AsmInv, StageInv, Assembly!ParseInstruction
<1>5. /\ list \in Seq(Item) /\ i \in 1..(Len(list) + 1) /\ next_vr \in Nat
      /\ asm_stage = "compile" /\ handle = {}
  BY PiecesAre DEF AsmInv, AsmTypes, StageInv, Assembly!ParseInstruction
<1>6. PICK old \in Nat : old = scopes[s].var[v] /\ old <= next_vr
  BY DEF AsmInv, AsmTypes, VarInv
<1>7. PICK r : r = (IF old = 0 THEN next_vr + 1 ELSE old)
  OBVIOUS
<1>8. r \in Nat /\ r # 0
  BY <1>5, <1>7
<1>9. PICK e : e = Assembly!Instruction(s, x, r)
  OBVIOUS
<1>10. /\ e \in Item /\ e.kind = "instr" /\ e.scope = s /\ e.stmt = x /\ e.target = r
  BY <1>8, <1>9 DEF Assembly!Instruction, Item, InstrItem
<1>11. /\ next_vr' = (IF old = 0 THEN r ELSE next_vr)
       /\ scopes' = [scopes EXCEPT ![s].var[v] = r]
       /\ list' = Assembly!InsertAt(list, i, e)
  <2>1. Assembly!InitVar(s, v) = [var |-> r, next |-> IF old = 0 THEN r ELSE next_vr]
    BY <1>6, <1>7 DEF Assembly!InitVar, Assembly!NotInitialized
  <2>2. /\ scopes' = [scopes EXCEPT ![s].var[v] = Assembly!InitVar(s, v).var]
        /\ next_vr' = Assembly!InitVar(s, v).next
        /\ list' = Assembly!InsertAt(list, i, Assembly!Instruction(s, x, Assembly!InitVar(s, v).var))
    BY <1>1, <1>2, <1>3, <1>4 DEF Assembly!ParseInstruction
  <2>3. Assembly!InitVar(s, v).var = r /\ Assembly!InitVar(s, v).next = (IF old = 0 THEN r ELSE next_vr)
    BY <2>1
  <2> QED
    BY <1>9, <2>2, <2>3
<1>12. handle' = handle /\ given' = given /\ asm_stage' = asm_stage
  BY DEF Assembly!ParseInstruction
<1>13. parsing' \in [scope : Scopes, rest : Seq(Statement)] /\ parsing'.scope = s
  <2>1. PICK p \in Seq(Statement) : p = parsing.rest /\ p # <<>>
    BY <1>1 DEF Assembly!ParseInstruction
  <2>2. Tail(p) \in Seq(Statement)
    BY <2>1
  <2>3. PICK q : q = Tail(p)
    OBVIOUS
  <2>4. parsing' = [parsing EXCEPT !.rest = q] /\ q \in Seq(Statement)
    BY <2>1, <2>2, <2>3 DEF Assembly!ParseInstruction
  <2> QED
    BY <1>1, <2>4
<1>14. list' \in Seq(Item) /\ list'[i] = e /\ Grown(list, list', i)
  BY <1>5, <1>10, <1>11, InsertAtGrows
<1>15. /\ scopes'[s].alive = scopes[s].alive /\ scopes'[s].count = scopes[s].count
       /\ scopes'[s].var[v] = r
       /\ \A w \in Assembly!Vars : w # v => scopes'[s].var[w] = scopes[s].var[w]
       /\ \A t \in Scopes : t # s => scopes'[t] = scopes[t]
  BY <1>11 DEF AsmInv, AsmTypes
<1>16. AsmTypes'
  <2>1. scopes' \in [Scopes -> [alive : BOOLEAN, count : Nat, var : [Assembly!Vars -> Nat]]]
    BY <1>8, <1>11 DEF AsmInv, AsmTypes
  <2>2. next_vr' \in Nat
    BY <1>5, <1>8, <1>11
  <2> QED
    BY <1>12, <1>13, <1>14, <2>1, <2>2 DEF AsmInv, AsmTypes, Assembly!Vars
<1>17. StageInv'
  <2>1. Assembly!Pieces' # {} /\ list'[Assembly!FirstPiece'] = list[i]
    BY <1>4, <1>10, <1>14, <1>16, FirstPieceStays DEF AsmInv
  <2> QED
    BY <1>4, <1>5, <1>12, <1>13, <2>1 DEF StageInv
<1>18. ASSUME NEW t \in Scopes
       PROVE  /\ Cardinality(Assembly!PiecesOf(t)') = Cardinality(Assembly!PiecesOf(t))
              /\ Assembly!PiecesOf(t)' = {} <=> Assembly!PiecesOf(t) = {}
  <2>1. Assembly!PiecesOf(t) = Positions(list, t)
    BY PiecesAre DEF AsmInv
  <2>2. Assembly!PiecesOf(t)' = Positions(list', t)
    BY <1>14 DEF Assembly!PiecesOf, Assembly!Pieces, Positions, TextOf
  <2>3. ~TextOf(list'[i], t)
    BY <1>10, <1>14 DEF TextOf
  <2>4. /\ IsFiniteSet(Positions(list, t)) /\ Cardinality(Positions(list, t)) \in Nat
        /\ IsFiniteSet(Positions(list', t))
    BY <1>5, <1>14, PositionsFinite
  <2>5. Cardinality(Positions(list', t)) = Cardinality(Positions(list, t))
    BY <1>5, <1>14, <2>3, <2>4, PositionsGrow
  <2> QED
    BY <2>1, <2>2, <2>4, <2>5, FS_EmptySet
<1>19. CountInv'
  BY <1>15, <1>18 DEF AsmInv, CountInv
<1>20. Assembly!ScopesHeld'
  BY <1>12, <1>15, <1>18 DEF AsmInv, Assembly!ScopesHeld
<1>21. VarInv'
  <2>1. \A t \in Scopes, w \in Assembly!Vars : scopes[t].var[w] \in Nat /\ scopes[t].var[w] <= next_vr
    BY DEF AsmInv, AsmTypes, VarInv
  <2>2. \A t \in Scopes, w \in Assembly!Vars : scopes'[t].var[w] = IF t = s /\ w = v THEN r ELSE scopes[t].var[w]
    BY <1>15
  <2>3. \A t \in Scopes, w \in Assembly!Vars : scopes'[t].var[w] <= next_vr'
    BY <1>5, <1>6, <1>7, <1>11, <2>1, <2>2
  <2>4. \A t \in Scopes, w \in Assembly!Vars : scopes[t].var[w] = r => t = s /\ w = v
    <3>1. CASE old = 0
      BY <1>5, <1>7, <2>1, <3>1
    <3>2. CASE old # 0
      BY <1>6, <1>7, <3>2 DEF AsmInv, VarInv
    <3> QED
      BY <3>1, <3>2
  <2>5. ASSUME NEW t \in Scopes, NEW u \in Scopes, NEW y \in Assembly!Vars, NEW w \in Assembly!Vars,
               scopes'[t].var[y] = scopes'[u].var[w], scopes'[t].var[y] # 0
        PROVE  t = u /\ y = w
    BY <2>2, <2>4, <2>5 DEF AsmInv, VarInv
  <2>6. \A t \in Scopes, w \in Assembly!Vars : scopes[t].var[w] # 0 => scopes'[t].var[w] = scopes[t].var[w]
    BY <1>6, <1>7, <2>2
  <2>7. ASSUME NEW t \in Scopes, NEW w \in RegVars, given'[t][w] # 0
        PROVE  scopes'[t].var[w] = given'[t][w]
    <3>1. w \in Assembly!Vars /\ given[t][w] # 0
      BY <1>12, <2>7 DEF Assembly!Vars
    <3>2. scopes[t].var[w] = given[t][w]
      BY <3>1 DEF AsmInv, VarInv
    <3> QED
      BY <1>12, <2>6, <3>1, <3>2
  <2>8. ASSUME NEW n \in Assembly!Compiled'
        PROVE  list'[n].target # 0 /\ list'[n].target = scopes'[list'[n].scope].var[list'[n].stmt.var]
    <3>1. n \in 1..Len(list') /\ list'[n].kind = "instr"
      BY <1>14 DEF Assembly!Compiled
    <3>2. CASE n = i
      BY <1>3, <1>8, <1>10, <1>14, <1>15, <3>2
    <3>3. CASE n # i
      <4>1. PICK k \in 1..Len(list) : list'[n] = list[k]
        BY <1>5, <1>14, <3>1, <3>3, GrownFacts
      <4>2. k \in Assembly!Compiled /\ list[k] \in Item
        BY <1>5, <3>1, <4>1 DEF Assembly!Compiled
      <4>3. list[k].scope \in Scopes /\ list[k].stmt.var \in Assembly!Vars
        BY <3>1, <4>1, <4>2, ItemKinds
      <4>4. list[k].target # 0 /\ list[k].target = scopes[list[k].scope].var[list[k].stmt.var]
        BY <4>2 DEF AsmInv, VarInv
      <4> QED
        BY <2>6, <4>1, <4>3, <4>4
    <3> QED
      BY <3>2, <3>3
  <2> QED
    BY <2>3, <2>5, <2>7, <2>8 DEF VarInv, Assembly!Vars
<1> QED
  BY <1>16, <1>17, <1>19, <1>20, <1>21 DEF AsmInv

LEMMA AsmStep == AsmInv /\ [Assembly!Next]_(Assembly!vars) => AsmInv'
<1> SUFFICES ASSUME AsmInv, [Assembly!Next]_(Assembly!vars) PROVE AsmInv'
  OBVIOUS
<1>1. ASSUME NEW s \in Scopes, NEW inputs \in Inputs, Assembly!NewScope(s, inputs) PROVE AsmInv'
  BY <1>1, NewScopeKeeps
<1>2. ASSUME NEW s \in Scopes, Assembly!DestroyHandle(s) PROVE AsmInv'
  BY <1>2, DestroyHandleKeeps
<1>3. ASSUME NEW s \in Scopes, NEW v \in RegVars, Assembly!Register(s, v) PROVE AsmInv'
  BY <1>3, RegisterKeeps
<1>4. ASSUME NEW s \in Scopes, NEW x \in Texts, NEW i \in 1..(Len(list) + 1), Assembly!Inline(s, x, i)
      PROVE  AsmInv'
  BY <1>4, InlineKeeps
<1>5. ASSUME NEW i \in DOMAIN list, Assembly!Unlink(i) PROVE AsmInv'
  BY <1>5, UnlinkKeeps
<1>6. CASE Assembly!StartCompile
  BY <1>6, StartCompileKeeps
<1>7. CASE Assembly!CompileInlineAssemblyBlock
  BY <1>7, CompileBlockKeeps
<1>8. CASE Assembly!ParseInstruction
  BY <1>8, ParseInstructionKeeps
<1>9. CASE Assembly!DeletePiece
  BY <1>9, DeletePieceKeeps
<1>10. CASE Assembly!EndCompile
  BY <1>10, EndCompileKeeps
<1>11. CASE UNCHANGED Assembly!vars
  <2>1. UNCHANGED <<scopes, handle, given, list, next_vr>> /\ asm_stage' = asm_stage /\ parsing' = parsing
    BY <1>11 DEF Assembly!vars
  <2>2. StageInv'
    BY <2>1, ListKept DEF AsmInv, StageInv, Assembly!NotParsing
  <2> QED
    BY <2>1, <2>2, TurnKeeps DEF AsmInv, AsmTypes
<1> QED
  BY <1>1, <1>2, <1>3, <1>4, <1>5, <1>6, <1>7, <1>8, <1>9, <1>10, <1>11 DEF Assembly!Next

LEMMA VariablesSharedFollows == AsmInv => Assembly!VariablesShared
<1> SUFFICES ASSUME AsmInv PROVE Assembly!VariablesShared
  OBVIOUS
<1>1. ASSUME NEW i \in Assembly!Compiled
      PROVE  /\ list[i].scope \in Scopes /\ list[i].stmt.var \in Assembly!Vars
             /\ list[i].target # 0 /\ list[i].target = scopes[list[i].scope].var[list[i].stmt.var]
  <2>1. list[i] \in Item /\ list[i].kind = "instr"
    BY DEF AsmInv, AsmTypes, Assembly!Compiled
  <2> QED
    BY <2>1, ItemKinds DEF AsmInv, VarInv
<1>2. ASSUME NEW i \in Assembly!Compiled, NEW s \in Scopes, NEW w \in Assembly!Vars
      PROVE  (list[i].target = scopes[s].var[w]) <=> (list[i].scope = s /\ list[i].stmt.var = w)
  BY <1>1 DEF AsmInv, VarInv
<1>3. ASSUME NEW i \in Assembly!Compiled, NEW j \in Assembly!Compiled
      PROVE  (list[i].target = list[j].target) <=>
               (list[i].scope = list[j].scope /\ list[i].stmt.var = list[j].stmt.var)
  BY <1>1, <1>2
<1>4. ASSUME NEW i \in Assembly!Compiled, NEW s \in Scopes, NEW w \in RegVars, given[s][w] # 0
      PROVE  (list[i].target = given[s][w]) <=> (list[i].scope = s /\ list[i].stmt.var = w)
  <2>1. w \in Assembly!Vars /\ scopes[s].var[w] = given[s][w]
    BY <1>4 DEF AsmInv, VarInv, Assembly!Vars
  <2> QED
    BY <1>2, <2>1
<1> QED
  BY <1>3, <1>4 DEF Assembly!VariablesShared, Assembly!NotInitialized

\* In any program of tools, with any number of scopes, variables, texts and pieces: a
\* scope is in memory exactly as long as a tool or a piece of text can reach it, and a
\* variable is one register or label in all pieces of its scope, the one that the tool
\* was given for it (inline_assembly.cc, lir.cc, 0_compile_inline_assembly.cc).
THEOREM ScopesSoundHolds == Assembly!Spec => []ScopesSound
<1>1. AsmInv => ScopesSound
  BY VariablesSharedFollows DEF AsmInv, ScopesSound
<1> QED
  BY <1>1, AsmInit, AsmStep, PTL DEF Assembly!Spec
-----------------------------------------------------------------------------
(* Memory operands.                                                        *)

Token == {Assembly!RegToken(r) : r \in Regs} \cup Assembly!Disps
           \cup {Assembly!Literal(s) : s \in Assembly!Scales}
           \cup {Assembly!Sign("*"), Assembly!Sign("+"), Assembly!Close}

\* What stands in the tokens q of a text from position n on: the displacement and the
\* bracket, or the index before them.
DispAt(q, x, n) ==
  IF x.disp = Assembly!NoDisp THEN Len(q) = n /\ q[n] = Assembly!Close
  ELSE Len(q) = n + 2 /\ q[n] = Assembly!Sign("+") /\ q[n + 1] = x.disp /\ q[n + 2] = Assembly!Close

IndexAt(q, x, n) ==
  /\ q[n] = Assembly!RegToken(x.index)
  /\ IF x.scale = 0 THEN DispAt(q, x, n + 1)
     ELSE q[n + 1] = Assembly!Sign("*") /\ q[n + 2] = Assembly!Literal(x.scale) /\ DispAt(q, x, n + 3)

\* The texts that are written.
MemText(x) ==
  /\ x.kind = "mem" /\ x.disp \in Assembly!Disps
  /\ x.base \in Regs \cup {"none"} /\ x.index \in Regs \cup {"none"} /\ x.scale \in Assembly!Scales \cup {0}
  /\ x.index = "none" => x.base \in Regs /\ x.scale = 0
  /\ x.base = "none" => x.scale # 0

PtrText(x) == x.kind = "ptr" /\ x.base = "none" /\ x.index = "none" /\ \E n \in Numbers : x.disp = Assembly!Literal(n)

LEMMA TextKinds ==
  ASSUME NEW x \in Assembly!OperandTexts
  PROVE  MemText(x) \/ PtrText(x)
<1> USE DEF Assembly!OperandText, MemText, PtrText, Assembly!Scales, Assembly!NoReg
<1>1. CASE \E r \in Regs, d \in Assembly!Disps : x = Assembly!OperandText("mem", r, "none", 0, d)
  BY <1>1, OperandAssumption
<1>2. CASE \E r, i \in Regs, n \in Assembly!Scales \cup {0}, d \in Assembly!Disps :
             x = Assembly!OperandText("mem", r, i, n, d)
  BY <1>2, OperandAssumption
<1>3. CASE \E i \in Regs, n \in Assembly!Scales, d \in Assembly!Disps :
             x = Assembly!OperandText("mem", "none", i, n, d)
  BY <1>3, OperandAssumption
<1>4. CASE \E n \in Numbers : x = Assembly!OperandText("ptr", "none", "none", 0, Assembly!Literal(n))
  BY <1>4
<1> QED
  BY <1>1, <1>2, <1>3, <1>4 DEF Assembly!OperandTexts

LEMMA DispKinds ==
  ASSUME NEW d \in Assembly!Disps
  PROVE  \/ d = Assembly!NoDisp
         \/ d \in [t : {"num", "imm"}, v : Nat] /\ d # Assembly!NoDisp
BY OperandAssumption DEF Assembly!Disps, Assembly!NoDisp, Assembly!Literal, Assembly!Immediate

\* Tuples one behind the other.
LEMMA Tuple11 ==
  ASSUME NEW a, NEW b
  PROVE  <<a>> \o <<b>> = <<a, b>>
<1> DEFINE S == {a, b}
<1>1. PICK r : r = <<a>> \o <<b>>
  OBVIOUS
<1>2. PICK q : q = <<a, b>>
  OBVIOUS
<1>3. <<a>> \in Seq(S) /\ <<b>> \in Seq(S) /\ q \in Seq(S) /\ Len(q) = 2
  BY <1>2
<1>4. r \in Seq(S) /\ Len(r) = 2 /\ r[1] = a /\ r[2] = b
  BY <1>1, <1>3, ConcatProperties
<1>5. \A i \in 1..2 : r[i] = q[i]
  BY <1>2, <1>4
<1> QED
  BY <1>1, <1>2, <1>3, <1>4, <1>5, SeqEqual

LEMMA Tuple12 ==
  ASSUME NEW a, NEW b, NEW c
  PROVE  <<a>> \o <<b, c>> = <<a, b, c>>
<1> DEFINE S == {a, b, c}
<1>1. PICK r : r = <<a>> \o <<b, c>>
  OBVIOUS
<1>2. PICK q : q = <<a, b, c>>
  OBVIOUS
<1>3. <<a>> \in Seq(S) /\ <<b, c>> \in Seq(S) /\ q \in Seq(S) /\ Len(q) = 3
  BY <1>2
<1>4. r \in Seq(S) /\ Len(r) = 3 /\ r[1] = a /\ r[2] = b /\ r[3] = c
  BY <1>1, <1>3, ConcatProperties
<1>5. \A i \in 1..3 : r[i] = q[i]
  BY <1>2, <1>4
<1> QED
  BY <1>1, <1>2, <1>3, <1>4, <1>5, SeqEqual

LEMMA Tuple21 ==
  ASSUME NEW a, NEW b, NEW c
  PROVE  <<a, b>> \o <<c>> = <<a, b, c>>
<1> DEFINE S == {a, b, c}
<1>1. PICK r : r = <<a, b>> \o <<c>>
  OBVIOUS
<1>2. PICK q : q = <<a, b, c>>
  OBVIOUS
<1>3. <<a, b>> \in Seq(S) /\ <<c>> \in Seq(S) /\ q \in Seq(S) /\ Len(q) = 3
  BY <1>2
<1>4. r \in Seq(S) /\ Len(r) = 3 /\ r[1] = a /\ r[2] = b /\ r[3] = c
  BY <1>1, <1>3, ConcatProperties
<1>5. \A i \in 1..3 : r[i] = q[i]
  BY <1>2, <1>4
<1> QED
  BY <1>1, <1>2, <1>3, <1>4, <1>5, SeqEqual

LEMMA Tuple23 ==
  ASSUME NEW a, NEW b, NEW c, NEW d, NEW e
  PROVE  <<a, b>> \o <<c, d, e>> = <<a, b, c, d, e>>
<1> DEFINE S == {a, b, c, d, e}
<1>1. PICK r : r = <<a, b>> \o <<c, d, e>>
  OBVIOUS
<1>2. PICK q : q = <<a, b, c, d, e>>
  OBVIOUS
<1>3. <<a, b>> \in Seq(S) /\ <<c, d, e>> \in Seq(S) /\ q \in Seq(S) /\ Len(q) = 5
  BY <1>2
<1>4. r \in Seq(S) /\ Len(r) = 5 /\ r[1] = a /\ r[2] = b /\ r[3] = c /\ r[4] = d /\ r[5] = e
  BY <1>1, <1>3, ConcatProperties
<1>5. \A i \in 1..5 : r[i] = q[i]
  BY <1>2, <1>4
<1> QED
  BY <1>1, <1>2, <1>3, <1>4, <1>5, SeqEqual

\* How a text ends.
Ending(p, d) ==
  (IF d = Assembly!NoDisp THEN p \o << >> ELSE p \o <<Assembly!Sign("+")>> \o <<d>>) \o <<Assembly!Close>>

LEMMA Endings ==
  ASSUME NEW x, NEW p \in Seq(Token), x.disp \in Assembly!Disps
  PROVE  /\ Ending(p, x.disp) \in Seq(Token)
         /\ DispAt(Ending(p, x.disp), x, Len(p) + 1)
         /\ \A j \in 1..Len(p) : Ending(p, x.disp)[j] = p[j]
<1> DEFINE d == x.disp
           plus == Assembly!Sign("+")
           close == Assembly!Close
<1>1. plus \in Token /\ close \in Token /\ d \in Token
  BY DEF Token
<1>2. <<plus>> \in Seq(Token) /\ <<close>> \in Seq(Token) /\ <<d>> \in Seq(Token)
  BY <1>1
<1> HIDE DEF plus, close
<1>3. CASE d = Assembly!NoDisp
  <2>1. PICK w : w = p \o <<close>>
    OBVIOUS
  <2>2. Ending(p, d) = w
    BY <1>3, <2>1 DEF Ending, close
  <2>3. /\ w \in Seq(Token) /\ Len(w) = Len(p) + 1
        /\ \A j \in 1..Len(p) : w[j] = p[j]
        /\ w[Len(p) + 1] = close
    BY <1>2, <2>1, Concatenated
  <2> QED
    BY <1>3, <2>2, <2>3 DEF DispAt, close
<1>4. CASE d # Assembly!NoDisp
  <2>1. PICK v : v = p \o <<plus>>
    OBVIOUS
  <2>2. PICK u : u = v \o <<d>>
    OBVIOUS
  <2>3. PICK w : w = u \o <<close>>
    OBVIOUS
  <2>4. Ending(p, d) = w
    BY <1>4, <2>1, <2>2, <2>3 DEF Ending, close, plus
  <2>5. /\ v \in Seq(Token) /\ Len(v) = Len(p) + 1
        /\ \A j \in 1..Len(p) : v[j] = p[j]
        /\ v[Len(p) + 1] = plus
    BY <1>2, <2>1, Concatenated
  <2>6. /\ u \in Seq(Token) /\ Len(u) = Len(v) + 1
        /\ \A j \in 1..Len(v) : u[j] = v[j]
        /\ u[Len(v) + 1] = d
    BY <1>2, <2>2, <2>5, Concatenated
  <2>7. /\ w \in Seq(Token) /\ Len(w) = Len(u) + 1
        /\ \A j \in 1..Len(u) : w[j] = u[j]
        /\ w[Len(u) + 1] = close
    BY <1>2, <2>3, <2>6, Concatenated
  <2>8. Len(w) = Len(p) + 3 /\ w[Len(p) + 1] = plus /\ w[Len(p) + 2] = d /\ w[Len(p) + 3] = close
    BY <2>5, <2>6, <2>7
  <2>9. \A j \in 1..Len(p) : w[j] = p[j]
    BY <2>5, <2>6, <2>7
  <2> QED
    BY <1>4, <2>4, <2>7, <2>8, <2>9 DEF DispAt, close, plus
<1> QED
  BY <1>3, <1>4

\* How a text is written.
Begins(q, x) ==
  IF x.kind = "ptr" THEN Len(q) = 2 /\ q[1] = x.disp /\ q[2] = Assembly!Close
  ELSE IF x.base = "none" THEN IndexAt(q, x, 1)
  ELSE /\ q[1] = Assembly!RegToken(x.base)
       /\ IF x.index = "none" THEN DispAt(q, x, 2)
          ELSE q[2] = Assembly!Sign("+") /\ IndexAt(q, x, 3)

LEMMA WrittenIs ==
  ASSUME NEW x \in Assembly!OperandTexts
  PROVE  Assembly!Written(x) \in Seq(Token) /\ Begins(Assembly!Written(x), x)
<1> DEFINE b == Assembly!RegToken(x.base)
           k == Assembly!RegToken(x.index)
           star == Assembly!Sign("*")
           plus == Assembly!Sign("+")
           lit == Assembly!Literal(x.scale)
           base == IF x.base = "none" THEN << >> ELSE <<b>>
           scale == IF x.scale = 0 THEN << >> ELSE <<star, lit>>
           index == IF x.index = "none" THEN << >> ELSE <<k>> \o scale
           disp == IF x.disp = Assembly!NoDisp THEN << >> ELSE <<x.disp>>
           Plus(p, q) == IF p = << >> \/ q = << >> THEN p \o q ELSE p \o <<plus>> \o q
<1>0. Assembly!Written(x) = Plus(Plus(base, index), disp) \o <<Assembly!Close>>
  BY DEF Assembly!Written, Assembly!NoReg
<1>1. star \in Token /\ plus \in Token
  BY DEF Token
<1>2. CASE MemText(x)
  <2>1. /\ x.disp \in Assembly!Disps /\ x.kind # "ptr"
        /\ x.base # "none" => b \in Token
        /\ x.index # "none" => k \in Token
        /\ x.scale # 0 => lit \in Token
    BY <1>2 DEF MemText, Token
  <2> DEFINE joined == Plus(base, index)
             P(p) == p \in Seq(Token) /\ p # << >> /\ joined = p
  <2>2. ASSUME NEW p, P(p) PROVE Assembly!Written(x) = Ending(p, x.disp)
    <3>1. disp = << >> <=> x.disp = Assembly!NoDisp
      OBVIOUS
    <3>2. Plus(p, disp) = IF x.disp = Assembly!NoDisp THEN p \o << >> ELSE p \o <<plus>> \o <<x.disp>>
      BY <2>2, <3>1
    <3> QED
      BY <1>0, <2>2, <3>2 DEF Ending
  <2> DEFINE w == Assembly!Written(x)
  <2>3. ASSUME NEW p, P(p)
        PROVE  w \in Seq(Token) /\ DispAt(w, x, Len(p) + 1) /\ \A j \in 1..Len(p) : w[j] = p[j]
    <3>1. p \in Seq(Token)
      BY <2>3
    <3>2. Assembly!Written(x) = Ending(p, x.disp)
      BY <2>2, <2>3
    <3> HIDE DEF P
    <3> QED
      BY <2>1, <3>1, <3>2, Endings
  <2> HIDE DEF b, k, star, plus, lit, P, w, joined
  <2>4. CASE x.base # "none" /\ x.index = "none"
    <3>5. PICK p : p = <<b>>
      OBVIOUS
    <3>6. p \in Seq(Token) /\ p # << >> /\ Len(p) = 1 /\ p[1] = b
      BY <1>1, <2>1, <2>4, <3>5
    <3>7. joined = p
      BY <2>4, <3>5 DEF joined
    <3>8. w \in Seq(Token) /\ DispAt(w, x, 2) /\ w[1] = b
      <4>1. P(p)
        BY <3>6, <3>7 DEF P
      <4>2. w \in Seq(Token) /\ DispAt(w, x, Len(p) + 1) /\ \A j \in 1..Len(p) : w[j] = p[j]
        BY <2>3, <4>1
      <4> QED
        BY <3>6, <4>2
    <3> QED
      BY <2>1, <2>4, <3>8 DEF Begins, b, w
  <2>5. CASE x.base = "none" /\ x.index # "none"
    <3>1. x.scale # 0
      BY <1>2, <2>5 DEF MemText
    <3>2. index = <<k, star, lit>>
      BY <2>5, <3>1, Tuple12
    <3>5. PICK p : p = <<k, star, lit>>
      OBVIOUS
    <3>6. p \in Seq(Token) /\ p # << >> /\ Len(p) = 3 /\ p[1] = k /\ p[2] = star /\ p[3] = lit
      BY <1>1, <2>1, <2>5, <3>5, <3>1
    <3>7. joined = p
      BY <2>5, <3>5, <3>2 DEF joined
    <3>8. w \in Seq(Token) /\ DispAt(w, x, 4) /\ w[1] = k /\ w[2] = star /\ w[3] = lit
      <4>1. P(p)
        BY <3>6, <3>7 DEF P
      <4>2. w \in Seq(Token) /\ DispAt(w, x, Len(p) + 1) /\ \A j \in 1..Len(p) : w[j] = p[j]
        BY <2>3, <4>1
      <4> QED
        BY <3>6, <4>2
    <3> QED
      BY <2>1, <2>5, <3>1, <3>8 DEF Begins, IndexAt, k, star, lit, w
  <2>6. CASE x.base # "none" /\ x.index # "none" /\ x.scale = 0
    <3>1. <<b>> \o <<plus>> \o <<k>> = <<b, plus, k>>
      <4>1. <<b>> \o <<plus>> = <<b, plus>>
        BY Tuple11
      <4>2. <<b, plus>> \o <<k>> = <<b, plus, k>>
        BY Tuple21
      <4> QED
        BY <4>1, <4>2
    <3>2. index = <<k>>
      BY <2>6
    <3>5. PICK p : p = <<b, plus, k>>
      OBVIOUS
    <3>6. p \in Seq(Token) /\ p # << >> /\ Len(p) = 3 /\ p[1] = b /\ p[2] = plus /\ p[3] = k
      BY <1>1, <2>1, <2>6, <3>5
    <3>7. joined = p
      BY <2>6, <3>5, <3>1, <3>2 DEF joined
    <3>8. w \in Seq(Token) /\ DispAt(w, x, 4) /\ w[1] = b /\ w[2] = plus /\ w[3] = k
      <4>1. P(p)
        BY <3>6, <3>7 DEF P
      <4>2. w \in Seq(Token) /\ DispAt(w, x, Len(p) + 1) /\ \A j \in 1..Len(p) : w[j] = p[j]
        BY <2>3, <4>1
      <4> QED
        BY <3>6, <4>2
    <3> QED
      BY <2>1, <2>6, <3>8 DEF Begins, IndexAt, b, plus, k, w
  <2>7. CASE x.base # "none" /\ x.index # "none" /\ x.scale # 0
    <3>1. <<b>> \o <<plus>> = <<b, plus>>
      BY Tuple11
    <3>2. <<b, plus>> \o <<k, star, lit>> = <<b, plus, k, star, lit>>
      BY Tuple23
    <3>3. index = <<k, star, lit>>
      BY <2>7, Tuple12
    <3>5. PICK p : p = <<b, plus, k, star, lit>>
      OBVIOUS
    <3>6. p \in Seq(Token) /\ p # << >> /\ Len(p) = 5 /\ p[1] = b /\ p[2] = plus /\ p[3] = k /\ p[4] = star /\ p[5] = lit
      BY <1>1, <2>1, <2>7, <3>5
    <3>7. joined = p
      <4>1. base = <<b>> /\ <<b>> # << >> /\ <<k, star, lit>> # << >>
        BY <2>7
      <4>2. joined = <<b>> \o <<plus>> \o <<k, star, lit>>
        BY <3>3, <4>1 DEF joined
      <4> QED
        BY <3>1, <3>2, <3>5, <4>2
    <3>8. w \in Seq(Token) /\ DispAt(w, x, 6) /\ w[1] = b /\ w[2] = plus /\ w[3] = k /\ w[4] = star /\ w[5] = lit
      <4>1. P(p)
        BY <3>6, <3>7 DEF P
      <4>2. w \in Seq(Token) /\ DispAt(w, x, Len(p) + 1) /\ \A j \in 1..Len(p) : w[j] = p[j]
        BY <2>3, <4>1
      <4> QED
        BY <3>6, <4>2
    <3> QED
      BY <2>1, <2>7, <3>8 DEF Begins, IndexAt, b, plus, k, star, lit, w
  <2> QED
    BY <1>2, <2>4, <2>5, <2>6, <2>7 DEF MemText
<1>3. CASE PtrText(x)
  <2>1. x.disp # Assembly!NoDisp /\ x.disp \in Token /\ Assembly!Close \in Token
    BY <1>3, OperandAssumption DEF PtrText, Token, Assembly!Disps, Assembly!NoDisp, Assembly!Literal
  <2>2. Assembly!Written(x) = <<x.disp>> \o <<Assembly!Close>>
    BY <1>0, <1>3, <2>1 DEF PtrText
  <2>3. Assembly!Written(x) = <<x.disp, Assembly!Close>>
    BY <2>2, Tuple11
  <2> QED
    BY <1>3, <2>1, <2>3 DEF PtrText, Begins
<1> QED
  BY <1>2, <1>3, TextKinds

\* An operand that is being built, and the scale of an index.
Building(b, i, n, d) ==
  [type |-> "none", base |-> b, index |-> i, scale |-> n, disp |-> d, addr |-> 0, is_compound |-> FALSE]
ScaleOf(x) == IF x.index = "none" THEN 0 ELSE IF x.scale = 0 THEN 1 ELSE x.scale

\* Only the displacement is left of the text.
DispLeft(q, x) == x.disp # Assembly!NoDisp /\ Len(q) = 2 /\ q[1] = x.disp /\ q[2] = Assembly!Close

\* In each state of the parser, what is left of the text, and what the operand has of it.
OperandInv ==
  /\ text \in Assembly!OperandTexts /\ tokens \in Seq(Token)
  /\ state \in {"Start", "ParseReg", "InterpretRegAsIndex", "TryParseIndexOrDisp", "ParseScale", "ParseDisp",
                "Done", "Parsed"}
  /\ state \notin {"Start", "Parsed"} => MemText(text)
  /\ state \in {"Start", "ParseReg"} => Begins(tokens, text) /\ op = Building("none", "none", 0, 0)
  /\ state = "InterpretRegAsIndex" =>
       /\ text.base = "none" /\ reg = text.index /\ op = Building("none", "none", 0, 0)
       /\ tokens[1] = Assembly!Sign("*") /\ tokens[2] = Assembly!Literal(text.scale) /\ DispAt(tokens, text, 3)
  /\ state = "TryParseIndexOrDisp" =>
       /\ text.base \in Regs /\ op = Building(text.base, "none", 0, 0)
       /\ IF text.index = "none" THEN DispLeft(tokens, text) ELSE IndexAt(tokens, text, 1)
  /\ state = "ParseScale" =>
       /\ text.index \in Regs /\ text.scale # 0 /\ op = Building(text.base, text.index, 1, 0)
       /\ tokens[1] = Assembly!Literal(text.scale) /\ DispAt(tokens, text, 2)
  /\ state = "ParseDisp" => DispLeft(tokens, text) /\ op = Building(text.base, text.index, ScaleOf(text), 0)
  /\ state = "Done" =>
       /\ Len(tokens) = 1 /\ tokens[1] = Assembly!Close
       /\ op = Building(text.base, text.index, ScaleOf(text), text.disp.v)
  /\ Assembly!AddressIsText

LEMMA OperandInitial == Assembly!OperandInit => OperandInv
<1> SUFFICES ASSUME Assembly!OperandInit PROVE OperandInv
  OBVIOUS
<1>1. /\ text \in Assembly!OperandTexts /\ tokens = Assembly!Written(text) /\ state = "Start"
      /\ op = Building("none", "none", 0, 0)
  BY DEF Assembly!OperandInit, Assembly!EmptyOperand, Building, Assembly!NoReg
<1>2. tokens \in Seq(Token) /\ Begins(tokens, text)
  BY <1>1, WrittenIs
<1> QED
  BY <1>1, <1>2 DEF OperandInv, Assembly!AddressIsText

\* Kinds of the tokens.
LEMMA TokenKinds ==
  /\ \A c \in {"*", "+", "]"} : Assembly!Sign(c).t = c /\ c \notin {"num", "imm"} /\ c \notin Regs
  /\ \A r \in Regs : Assembly!RegToken(r).t = r /\ r \notin {"none", "num", "imm", "*", "+", "]"}
  /\ \A n : Assembly!Literal(n).t = "num" /\ Assembly!Literal(n).v = n
  /\ Assembly!Close = Assembly!Sign("]")
  /\ Assembly!Sign("*") # Assembly!Close /\ Assembly!Sign("+") # Assembly!Close
  /\ {"none", "num", "imm", "*", "+", "]"} \cap Regs = {}
BY OperandAssumption DEF Assembly!Sign, Assembly!RegToken, Assembly!Literal, Assembly!Close

LEMMA ReadsTail ==
  ASSUME NEW q \in Seq(Token), q # << >>
  PROVE  /\ Tail(q) \in Seq(Token) /\ Len(Tail(q)) = Len(q) - 1 /\ Head(q) = q[1]
         /\ \A i \in 1..(Len(q) - 1) : Tail(q)[i] = q[i + 1]
OBVIOUS

LEMMA SecondIsLast ==
  ASSUME NEW q \in Seq(Token), Len(q) = 2, q[2] = Assembly!Close
  PROVE  /\ q # << >> /\ Head(q) = q[1] /\ Tail(q) \in Seq(Token) /\ Len(Tail(q)) = 1
         /\ Tail(q)[1] = Assembly!Close
<1>1. q # << >>
  OBVIOUS
<1>2. PICK r : r = Tail(q)
  OBVIOUS
<1>3. r \in Seq(Token) /\ Len(r) = Len(q) - 1 /\ Head(q) = q[1] /\ \A i \in 1..(Len(q) - 1) : r[i] = q[i + 1]
  BY <1>1, <1>2, ReadsTail
<1>4. r[1] = Assembly!Close /\ Len(r) = 1
  BY <1>3
<1>5. Tail(q) \in Seq(Token) /\ Len(Tail(q)) = 1 /\ Tail(q)[1] = Assembly!Close
  BY <1>2, <1>3, <1>4, Zenon
<1> QED
  BY <1>1, <1>3, <1>5

LEMMA OnlyClose ==
  ASSUME NEW q \in Seq(Token), Len(q) = 1, q[1] = Assembly!Close
  PROVE  q = <<Assembly!Close>>
<1>1. PICK r : r = <<Assembly!Close>>
  OBVIOUS
<1>2. r \in Seq(Token) /\ Len(r) = 1 /\ \A i \in 1..1 : q[i] = r[i]
  BY <1>1 DEF Token
<1> QED
  BY <1>1, <1>2, SeqEqual

\* What follows a register that is not scaled, or a scale: nothing, or the displacement.
LEMMA AfterDisp ==
  ASSUME NEW x, NEW q \in Seq(Token), DispAt(q, x, 1), x.disp \in Assembly!Disps
  PROVE  /\ q # << >>
         /\ \/ x.disp = Assembly!NoDisp /\ Head(q) = Assembly!Close /\ Head(q).t = "]" /\ Len(q) = 1
            \/ Head(q).t = "+" /\ Head(q) # Assembly!Close /\ DispLeft(Tail(q), x) /\ Tail(q) \in Seq(Token)
<1>1. Len(q) >= 1
  BY DEF DispAt
<1>2. q # << >>
  BY <1>1
<1> QED
  BY <1>1, <1>2, ReadsTail, TokenKinds DEF DispAt, DispLeft

LEMMA DispValue ==
  ASSUME NEW d \in Assembly!Disps
  PROVE  (d = Assembly!NoDisp => d.v = 0) /\ d.v \in Nat /\ (d # Assembly!NoDisp => d.t \in {"num", "imm"})
BY DispKinds DEF Assembly!NoDisp

LEMMA ParsePointerOperandKeeps == ASSUME OperandInv, Assembly!ParsePointerOperand PROVE OperandInv'
<1>1. /\ state = "Start" /\ Head(tokens).t = "num" /\ state' = "Parsed" /\ text' = text
      /\ tokens' = Tail(tokens) /\ op' = [op EXCEPT !.type = "ptr", !.addr = Head(tokens).v]
  BY DEF Assembly!ParsePointerOperand, Assembly!PeekNumber, Assembly!Peek
<1>2. text \in Assembly!OperandTexts /\ tokens \in Seq(Token) /\ Begins(tokens, text)
      /\ op = Building("none", "none", 0, 0)
  BY <1>1 DEF OperandInv
<1>3. Len(tokens) > 0
  BY <1>2 DEF Begins, IndexAt, DispAt
<1>3a. tokens # << >> /\ Head(tokens) = tokens[1]
  BY <1>2, <1>3
<1>4. PtrText(text)
  <2>1. SUFFICES ASSUME MemText(text) PROVE FALSE
    BY <1>2, TextKinds
  <2>2. \E r \in Regs : tokens[1] = Assembly!RegToken(r)
    BY <1>2, <2>1 DEF MemText, Begins, IndexAt
  <2> QED
    BY <1>1, <1>3a, <2>2, TokenKinds
<1>5. Len(tokens) = 2 /\ tokens[1] = text.disp /\ tokens[2] = Assembly!Close
  BY <1>2, <1>4 DEF Begins, PtrText
<1>6. Tail(tokens) \in Seq(Token) /\ Len(Tail(tokens)) = 1 /\ Tail(tokens)[1] = Assembly!Close
  BY <1>2, <1>5, SecondIsLast
<1>7. Tail(tokens) = <<Assembly!Close>>
  BY <1>6, OnlyClose
<1>8. op'.type = "ptr" /\ op'.addr = text.disp.v
  BY <1>1, <1>2, <1>3a, <1>5 DEF Building
<1>9. Assembly!AddressIsText'
  BY <1>1, <1>4, <1>7, <1>8 DEF Assembly!AddressIsText, PtrText
<1> QED
  BY <1>1, <1>2, <1>6, <1>9 DEF OperandInv

LEMMA BeginRegsKeeps == ASSUME OperandInv, Assembly!BeginRegs PROVE OperandInv'
<1>1. state = "Start" /\ Head(tokens).t # "num" /\ state' = "ParseReg" /\ UNCHANGED <<text, tokens, reg, op>>
  BY DEF Assembly!BeginRegs, Assembly!PeekNumber, Assembly!Peek
<1>2. text \in Assembly!OperandTexts /\ tokens \in Seq(Token) /\ Begins(tokens, text)
      /\ op = Building("none", "none", 0, 0)
  BY <1>1 DEF OperandInv
<1>3. MemText(text)
  <2>1. SUFFICES ASSUME PtrText(text) PROVE FALSE
    BY <1>2, TextKinds
  <2>2. Len(tokens) = 2 /\ tokens[1] = text.disp /\ \E n \in Numbers : text.disp = Assembly!Literal(n)
    BY <1>2, <2>1 DEF PtrText, Begins
  <2> QED
    BY <1>1, <1>2, <2>2, TokenKinds
<1> QED
  BY <1>1, <1>2, <1>3 DEF OperandInv, Assembly!AddressIsText

\* What stands behind the index.
BehindIndex(q, x) ==
  IF x.scale = 0 THEN DispAt(q, x, 1)
  ELSE q[1] = Assembly!Sign("*") /\ q[2] = Assembly!Literal(x.scale) /\ DispAt(q, x, 3)

LEMMA AsIndexKeeps ==
  ASSUME text \in Assembly!OperandTexts, MemText(text), text.index \in Regs, op = Building(text.base, "none", 0, 0),
         NEW q \in Seq(Token), BehindIndex(q, text),
         Assembly!AsIndex(text.index, q), text' = text
  PROVE  OperandInv'
<1>1. /\ op' = Building(text.base, text.index, 1, 0)
      /\ tokens' = IF Head(q) = Assembly!Close THEN q ELSE Tail(q)
      /\ state' = CASE Head(q).t = "*" -> "ParseScale"
                    [] Head(q).t = "+" -> "ParseDisp"
                    [] OTHER -> "Done"
  BY DEF Assembly!AsIndex, Building
<1>2. text.disp \in Assembly!Disps /\ text.scale \in Nat /\ text.index # "none"
  BY OperandAssumption DEF MemText, Assembly!Scales
<1>3. CASE text.scale = 0
  <2>1. DispAt(q, text, 1) /\ ScaleOf(text) = 1
    BY <1>2, <1>3 DEF BehindIndex, ScaleOf
  <2>2. CASE text.disp = Assembly!NoDisp /\ Head(q) = Assembly!Close /\ Head(q).t = "]" /\ Len(q) = 1
    <3>1. state' = "Done" /\ tokens' = q /\ q[1] = Assembly!Close /\ text.disp.v = 0
      BY <1>1, <1>2, <2>2, DispValue
    <3> QED
      BY <1>1, <2>1, <2>2, <3>1 DEF OperandInv, Assembly!AddressIsText
  <2>3. CASE Head(q).t = "+" /\ Head(q) # Assembly!Close /\ DispLeft(Tail(q), text) /\ Tail(q) \in Seq(Token)
    <3>1. state' = "ParseDisp" /\ tokens' = Tail(q)
      BY <1>1, <2>3
    <3> QED
      BY <1>1, <2>1, <2>3, <3>1 DEF OperandInv, Assembly!AddressIsText
  <2> QED
    BY <1>2, <2>1, <2>2, <2>3, AfterDisp
<1>4. CASE text.scale # 0
  <2>1. q[1] = Assembly!Sign("*") /\ q[2] = Assembly!Literal(text.scale) /\ DispAt(q, text, 3) /\ Len(q) >= 3
    BY <1>4 DEF BehindIndex, DispAt
  <2>2. q # << >> /\ Head(q) = q[1] /\ Head(q).t = "*" /\ Head(q) # Assembly!Close
    BY <2>1, TokenKinds
  <2>3. state' = "ParseScale" /\ tokens' = Tail(q)
    BY <1>1, <2>2
  <2>4. Tail(q) \in Seq(Token) /\ Tail(q)[1] = Assembly!Literal(text.scale) /\ DispAt(Tail(q), text, 2)
    BY <2>1, <2>2, ReadsTail DEF DispAt
  <2> QED
    BY <1>1, <1>4, <2>3, <2>4 DEF OperandInv, Assembly!AddressIsText
<1> QED
  BY <1>3, <1>4

LEMMA ParseRegKeeps == ASSUME OperandInv, Assembly!ParseReg PROVE OperandInv'
<1>1. PICK q : q = Tail(tokens)
  OBVIOUS
<1>2. /\ state = "ParseReg" /\ text' = text /\ reg' = Head(tokens).t
      /\ \/ Head(q).t = "*" /\ state' = "InterpretRegAsIndex" /\ tokens' = q /\ op' = op
         \/ /\ Head(q).t # "*" /\ op' = [op EXCEPT !.base = Head(tokens).t]
            /\ \/ Head(q).t = "+" /\ tokens' = Tail(q) /\ state' = "TryParseIndexOrDisp"
               \/ Head(q).t # "+" /\ tokens' = q /\ state' = "Done"
  BY <1>1 DEF Assembly!ParseReg, Assembly!Peek
<1>3. /\ text \in Assembly!OperandTexts /\ tokens \in Seq(Token) /\ Begins(tokens, text)
      /\ op = Building("none", "none", 0, 0) /\ MemText(text)
  BY <1>2 DEF OperandInv
<1>4. text.disp \in Assembly!Disps /\ text.scale \in Nat /\ text.kind # "ptr"
  BY <1>3 DEF MemText, Assembly!Scales
<1>5. CASE text.base = "none"
  <2>1. text.scale # 0 /\ text.index \in Regs
    BY <1>3, <1>5, OperandAssumption DEF MemText
  <2>2. IndexAt(tokens, text, 1)
    BY <1>3, <1>4, <1>5 DEF Begins
  <2>3. /\ tokens[1] = Assembly!RegToken(text.index) /\ tokens[2] = Assembly!Sign("*")
        /\ tokens[3] = Assembly!Literal(text.scale) /\ DispAt(tokens, text, 4) /\ Len(tokens) >= 4
    BY <2>1, <2>2 DEF IndexAt, DispAt
  <2>4. tokens # << >> /\ Head(tokens) = tokens[1] /\ Head(tokens).t = text.index
    BY <1>3, <2>1, <2>3, TokenKinds
  <2>5. /\ q \in Seq(Token) /\ q[1] = Assembly!Sign("*") /\ q[2] = Assembly!Literal(text.scale)
        /\ DispAt(q, text, 3) /\ Len(q) >= 3
    BY <1>1, <1>3, <2>3, <2>4, ReadsTail DEF DispAt
  <2>6. Head(q).t = "*"
    BY <2>5, TokenKinds
  <2> QED
    BY <1>2, <1>3, <1>5, <2>1, <2>4, <2>5, <2>6 DEF OperandInv, Assembly!AddressIsText
<1>6. CASE text.base # "none"
  <2>1. text.base \in Regs /\ tokens[1] = Assembly!RegToken(text.base)
    BY <1>3, <1>4, <1>6 DEF MemText, Begins
  <2>2. Len(tokens) >= 2
    BY <1>3, <1>4, <1>6 DEF Begins, IndexAt, DispAt
  <2>3. tokens # << >> /\ Head(tokens) = tokens[1] /\ Head(tokens).t = text.base /\ q \in Seq(Token)
    BY <1>1, <1>3, <2>1, <2>2, TokenKinds
  <2>4. Len(q) = Len(tokens) - 1 /\ \A k \in 1..(Len(tokens) - 1) : q[k] = tokens[k + 1]
    BY <1>1, <1>3, <2>3, ReadsTail
  <2>5. ASSUME NEW o, o = [op EXCEPT !.base = text.base] PROVE o = Building(text.base, "none", 0, 0)
    BY <1>3, <2>5 DEF Building
  <2>6. CASE text.index = "none"
    <3>1. DispAt(q, text, 1) /\ ScaleOf(text) = 0
      BY <1>3, <1>4, <1>6, <2>2, <2>4, <2>6 DEF Begins, DispAt, ScaleOf
    <3>2. CASE text.disp = Assembly!NoDisp /\ Head(q) = Assembly!Close /\ Head(q).t = "]" /\ Len(q) = 1
      <4>1. state' = "Done" /\ tokens' = q /\ q[1] = Assembly!Close /\ text.disp.v = 0
        BY <1>2, <1>4, <2>3, <3>2, DispValue
      <4>2. op' = Building(text.base, "none", 0, 0)
        BY <1>2, <1>3, <2>3, <2>5, <3>2
      <4> QED
        BY <1>2, <1>3, <2>3, <2>6, <3>1, <3>2, <4>1, <4>2 DEF OperandInv, Assembly!AddressIsText
    <3>3. CASE Head(q).t = "+" /\ Head(q) # Assembly!Close /\ DispLeft(Tail(q), text) /\ Tail(q) \in Seq(Token)
      <4>1. state' = "TryParseIndexOrDisp" /\ tokens' = Tail(q) /\ op' = Building(text.base, "none", 0, 0)
        BY <1>2, <1>3, <2>3, <2>5, <3>3
      <4> QED
        BY <1>2, <1>3, <2>1, <2>6, <3>3, <4>1 DEF OperandInv, Assembly!AddressIsText
    <3> QED
      BY <1>4, <2>3, <3>1, <3>2, <3>3, AfterDisp
  <2>7. CASE text.index # "none"
    <3>1. tokens[2] = Assembly!Sign("+") /\ IndexAt(tokens, text, 3) /\ Len(tokens) >= 4
      BY <1>3, <1>4, <1>6, <2>7 DEF Begins, IndexAt, DispAt
    <3>2. q # << >> /\ Head(q) = tokens[2] /\ Head(q).t = "+" /\ Len(q) >= 3
      BY <2>3, <2>4, <3>1, TokenKinds
    <3>3. PICK w : w = Tail(q)
      OBVIOUS
    <3>4. w \in Seq(Token) /\ IndexAt(w, text, 1)
      <4>0. /\ w \in Seq(Token) /\ Len(w) = Len(q) - 1
            /\ \A k \in 1..(Len(q) - 1) : w[k] = q[k + 1]
        BY <2>3, <3>2, <3>3, ReadsTail
      <4>1. /\ w \in Seq(Token) /\ Len(w) = Len(tokens) - 2
            /\ \A k \in 1..(Len(tokens) - 2) : w[k] = tokens[k + 2]
        BY <2>4, <4>0
      <4>2. CASE text.scale = 0
        <5>1. tokens[3] = Assembly!RegToken(text.index) /\ DispAt(tokens, text, 4)
          BY <3>1, <4>2 DEF IndexAt
        <5>2. w[1] = tokens[3] /\ DispAt(w, text, 2)
          BY <4>1, <5>1 DEF DispAt
        <5> QED
          BY <4>1, <4>2, <5>1, <5>2 DEF IndexAt
      <4>3. CASE text.scale # 0
        <5>1. /\ tokens[3] = Assembly!RegToken(text.index) /\ tokens[4] = Assembly!Sign("*")
              /\ tokens[5] = Assembly!Literal(text.scale) /\ DispAt(tokens, text, 6)
          BY <3>1, <4>3 DEF IndexAt
        <5>2. /\ w[1] = tokens[3] /\ w[2] = tokens[4] /\ w[3] = tokens[5]
              /\ DispAt(w, text, 4)
          BY <4>1, <5>1 DEF DispAt
        <5> QED
          BY <4>1, <4>3, <5>1, <5>2 DEF IndexAt
      <4> QED
        BY <4>2, <4>3
    <3>5. state' = "TryParseIndexOrDisp" /\ tokens' = w /\ op' = Building(text.base, "none", 0, 0)
      BY <1>2, <1>3, <2>3, <2>5, <3>2, <3>3
    <3> QED
      BY <1>2, <1>3, <2>1, <2>7, <3>4, <3>5 DEF OperandInv, Assembly!AddressIsText
  <2> QED
    BY <2>6, <2>7
<1> QED
  BY <1>5, <1>6

LEMMA InterpretRegAsIndexKeeps == ASSUME OperandInv, Assembly!InterpretRegAsIndex PROVE OperandInv'
<1>1. state = "InterpretRegAsIndex" /\ Assembly!AsIndex(reg, tokens) /\ text' = text
  BY DEF Assembly!InterpretRegAsIndex
<1>2. /\ text \in Assembly!OperandTexts /\ tokens \in Seq(Token) /\ MemText(text)
      /\ text.base = "none" /\ reg = text.index /\ op = Building("none", "none", 0, 0)
      /\ tokens[1] = Assembly!Sign("*") /\ tokens[2] = Assembly!Literal(text.scale) /\ DispAt(tokens, text, 3)
  BY <1>1 DEF OperandInv
<1>3. text.index \in Regs /\ text.scale # 0
  BY <1>2, OperandAssumption DEF MemText
<1>4. BehindIndex(tokens, text)
  BY <1>2, <1>3 DEF BehindIndex
<1> QED
  BY <1>1, <1>2, <1>3, <1>4, AsIndexKeeps

LEMMA TryParseIndexOrDispKeeps == ASSUME OperandInv, Assembly!TryParseIndexOrDisp PROVE OperandInv'
<1>1. /\ state = "TryParseIndexOrDisp" /\ text' = text
      /\ \/ Head(tokens).t = "num" /\ state' = "ParseDisp" /\ UNCHANGED <<tokens, reg, op>>
         \/ Head(tokens).t \in Regs /\ Assembly!AsIndex(Head(tokens).t, Tail(tokens))
         \/ /\ Head(tokens).t = "imm" /\ op' = [op EXCEPT !.disp = Head(tokens).v]
            /\ tokens' = Tail(tokens) /\ state' = "Done" /\ reg' = reg
  BY DEF Assembly!TryParseIndexOrDisp, Assembly!Peek, Assembly!PeekNumber, Assembly!PeekReg
<1>2. /\ text \in Assembly!OperandTexts /\ tokens \in Seq(Token) /\ MemText(text)
      /\ text.base \in Regs /\ op = Building(text.base, "none", 0, 0)
      /\ IF text.index = "none" THEN DispLeft(tokens, text) ELSE IndexAt(tokens, text, 1)
  BY <1>1 DEF OperandInv
<1>3. text.disp \in Assembly!Disps /\ text.scale \in Nat
  BY <1>2 DEF MemText, Assembly!Scales
<1>4. CASE text.index = "none"
  <2>1. /\ text.disp # Assembly!NoDisp /\ Len(tokens) = 2 /\ tokens[1] = text.disp /\ tokens[2] = Assembly!Close
        /\ ScaleOf(text) = 0
    BY <1>2, <1>4 DEF DispLeft, ScaleOf
  <2>2. Head(tokens) = text.disp /\ Tail(tokens) \in Seq(Token) /\ Len(Tail(tokens)) = 1
        /\ Tail(tokens)[1] = Assembly!Close
    BY <1>2, <2>1, SecondIsLast
  <2>3. Head(tokens).t \in {"num", "imm"} /\ Head(tokens).t \notin Regs
    BY <1>3, <2>1, <2>2, DispValue, TokenKinds
  <2>4. CASE Head(tokens).t = "num" /\ state' = "ParseDisp" /\ UNCHANGED <<tokens, reg, op>>
    BY <1>1, <1>2, <1>4, <2>1, <2>4 DEF OperandInv, Assembly!AddressIsText
  <2>5. CASE /\ op' = [op EXCEPT !.disp = Head(tokens).v]
             /\ tokens' = Tail(tokens) /\ state' = "Done" /\ reg' = reg
    <3>1. op' = Building(text.base, "none", 0, text.disp.v)
      BY <1>2, <2>2, <2>5 DEF Building
    <3> QED
      BY <1>1, <1>2, <1>4, <2>1, <2>2, <2>5, <3>1 DEF OperandInv, Assembly!AddressIsText
  <2> QED
    BY <1>1, <2>3, <2>4, <2>5
<1>5. CASE text.index # "none"
  <2>1. text.index \in Regs /\ IndexAt(tokens, text, 1)
    BY <1>2, <1>5 DEF MemText
  <2>2. tokens[1] = Assembly!RegToken(text.index) /\ Len(tokens) >= 2
    BY <2>1 DEF IndexAt, DispAt
  <2>3. tokens # << >> /\ Head(tokens) = tokens[1] /\ Head(tokens).t = text.index
    BY <1>2, <2>1, <2>2, TokenKinds
  <2>4. Assembly!AsIndex(text.index, Tail(tokens))
    BY <1>1, <2>1, <2>3, TokenKinds
  <2>5. Tail(tokens) \in Seq(Token) /\ BehindIndex(Tail(tokens), text)
    <3>1. Tail(tokens) \in Seq(Token) /\ Len(Tail(tokens)) = Len(tokens) - 1
          /\ \A k \in 1..(Len(tokens) - 1) : Tail(tokens)[k] = tokens[k + 1]
      BY <1>2, <2>3, ReadsTail
    <3>2. CASE text.scale = 0
      <4>1. DispAt(tokens, text, 2)
        BY <2>1, <3>2 DEF IndexAt
      <4> QED
        BY <3>1, <3>2, <4>1 DEF BehindIndex, DispAt
    <3>3. CASE text.scale # 0
      <4>1. tokens[2] = Assembly!Sign("*") /\ tokens[3] = Assembly!Literal(text.scale) /\ DispAt(tokens, text, 4)
        BY <2>1, <3>3 DEF IndexAt
      <4>2. Tail(tokens)[1] = tokens[2] /\ Tail(tokens)[2] = tokens[3] /\ DispAt(Tail(tokens), text, 3)
        BY <3>1, <4>1 DEF DispAt
      <4> QED
        BY <3>1, <3>3, <4>1, <4>2 DEF BehindIndex
    <3> QED
      BY <3>2, <3>3
  <2> QED
    BY <1>1, <1>2, <2>1, <2>4, <2>5, AsIndexKeeps
<1> QED
  BY <1>4, <1>5

LEMMA ParseScaleKeeps == ASSUME OperandInv, Assembly!ParseScale PROVE OperandInv'
<1>1. /\ state = "ParseScale" /\ text' = text /\ op' = [op EXCEPT !.scale = Head(tokens).v]
      /\ \/ tokens[2].t = "+" /\ tokens' = Tail(Tail(tokens)) /\ state' = "ParseDisp"
         \/ tokens[2].t # "+" /\ tokens' = Tail(tokens) /\ state' = "Done"
  BY DEF Assembly!ParseScale
<1>2. /\ text \in Assembly!OperandTexts /\ tokens \in Seq(Token) /\ MemText(text)
      /\ text.index \in Regs /\ text.scale # 0 /\ op = Building(text.base, text.index, 1, 0)
      /\ tokens[1] = Assembly!Literal(text.scale) /\ DispAt(tokens, text, 2)
  BY <1>1 DEF OperandInv
<1>3. /\ text.disp \in Assembly!Disps /\ text.scale \in Nat /\ text.index # "none" /\ Len(tokens) >= 2
      /\ ScaleOf(text) = text.scale
  BY <1>2, OperandAssumption DEF MemText, Assembly!Scales, DispAt, ScaleOf
<1>4. tokens # << >> /\ Head(tokens) = tokens[1] /\ Head(tokens).v = text.scale
  BY <1>2, <1>3, TokenKinds
<1>5. op' = Building(text.base, text.index, ScaleOf(text), 0)
  BY <1>1, <1>2, <1>3, <1>4 DEF Building
<1>6. PICK q : q = Tail(tokens)
  OBVIOUS
<1>7. q \in Seq(Token) /\ Len(q) = Len(tokens) - 1 /\ \A k \in 1..(Len(tokens) - 1) : q[k] = tokens[k + 1]
  BY <1>2, <1>4, <1>6, ReadsTail
<1>8. DispAt(q, text, 1) /\ q[1] = tokens[2]
  BY <1>2, <1>3, <1>7 DEF DispAt
<1>8a. Head(q) = q[1]
  BY <1>3, <1>7
<1>9. CASE text.disp = Assembly!NoDisp /\ Head(q) = Assembly!Close /\ Head(q).t = "]" /\ Len(q) = 1
  <2>1. state' = "Done" /\ tokens' = q /\ q[1] = Assembly!Close /\ text.disp.v = 0
    BY <1>1, <1>3, <1>6, <1>8, <1>8a, <1>9, DispValue
  <2> QED
    BY <1>1, <1>2, <1>5, <1>7, <1>9, <2>1 DEF OperandInv, Assembly!AddressIsText
<1>10. CASE Head(q).t = "+" /\ Head(q) # Assembly!Close /\ DispLeft(Tail(q), text) /\ Tail(q) \in Seq(Token)
  <2>1. state' = "ParseDisp" /\ tokens' = Tail(q)
    BY <1>1, <1>6, <1>8, <1>8a, <1>10
  <2> QED
    BY <1>1, <1>2, <1>5, <1>10, <2>1 DEF OperandInv, Assembly!AddressIsText
<1> QED
  BY <1>3, <1>7, <1>8, <1>9, <1>10, AfterDisp

LEMMA ParseDispKeeps == ASSUME OperandInv, Assembly!ParseDisp PROVE OperandInv'
<1>1. /\ state = "ParseDisp" /\ text' = text /\ op' = [op EXCEPT !.disp = Head(tokens).v]
      /\ tokens' = Tail(tokens) /\ state' = "Done"
  BY DEF Assembly!ParseDisp
<1>2. /\ text \in Assembly!OperandTexts /\ tokens \in Seq(Token) /\ MemText(text)
      /\ Len(tokens) = 2 /\ tokens[1] = text.disp /\ tokens[2] = Assembly!Close
      /\ op = Building(text.base, text.index, ScaleOf(text), 0)
  BY <1>1 DEF OperandInv, DispLeft
<1>3. Head(tokens) = text.disp /\ Tail(tokens) \in Seq(Token) /\ Len(Tail(tokens)) = 1
      /\ Tail(tokens)[1] = Assembly!Close
  BY <1>2, SecondIsLast
<1>4. op' = Building(text.base, text.index, ScaleOf(text), text.disp.v)
  BY <1>1, <1>2, <1>3 DEF Building
<1> QED
  BY <1>1, <1>2, <1>3, <1>4 DEF OperandInv, Assembly!AddressIsText

LEMMA FinishOperandKeeps == ASSUME OperandInv, Assembly!FinishOperand PROVE OperandInv'
<1>1. /\ state = "Done" /\ state' = "Parsed" /\ UNCHANGED <<text, tokens, reg>>
      /\ op' = [Assembly!Canonical(op) EXCEPT !.type = "mem", !.is_compound = Assembly!IsCompound(op)]
  BY DEF Assembly!FinishOperand
<1>2. /\ text \in Assembly!OperandTexts /\ tokens \in Seq(Token) /\ MemText(text)
      /\ Len(tokens) = 1 /\ tokens[1] = Assembly!Close
      /\ op = Building(text.base, text.index, ScaleOf(text), text.disp.v)
  BY <1>1 DEF OperandInv
<1>3. tokens = <<Assembly!Close>>
  BY <1>2, OnlyClose
<1>4. /\ text.kind = "mem" /\ text.disp.v \in Nat /\ text.scale \in Nat
      /\ text.base \in Regs \cup {"none"} /\ text.index \in Regs \cup {"none"}
      /\ text.index = "none" => text.base \in Regs
      /\ "none" \notin Regs
  BY <1>2, DispValue, OperandAssumption DEF MemText, Assembly!Scales
<1>5. CASE Assembly!IsCompound(op)
  <2>1. op' = [Building(text.base, text.index, ScaleOf(text), text.disp.v) EXCEPT !.type = "mem", !.is_compound = TRUE]
    BY <1>1, <1>2, <1>5 DEF Assembly!Canonical
  <2>2. /\ op'.type = "mem" /\ op'.is_compound /\ op'.base = text.base /\ op'.index = text.index
        /\ op'.scale = ScaleOf(text) /\ op'.disp = text.disp.v
    BY <2>1 DEF Building
  <2>3. \A r \in Regs : Assembly!Weight(r, text.base, text.index, IF text.scale = 0 THEN 1 ELSE text.scale)
                          = Assembly!Weight(r, op'.base, op'.index, op'.scale)
    BY <1>4, <2>2 DEF Assembly!Weight, ScaleOf
  <2> QED
    BY <1>1, <1>2, <1>3, <1>4, <2>2, <2>3 DEF OperandInv, Assembly!AddressIsText
<1>6. CASE ~Assembly!IsCompound(op)
  <2>1. /\ text.disp.v = 0 /\ ScaleOf(text) <= 1 /\ (text.base = "none" \/ text.index = "none")
    BY <1>2, <1>4, <1>6 DEF Assembly!IsCompound, Building, Assembly!NoReg, ScaleOf
  <2>2. /\ op'.type = "mem" /\ ~op'.is_compound /\ op'.disp = text.disp.v
        /\ op'.base = IF text.index = "none" THEN text.base ELSE text.index
    BY <1>1, <1>2, <1>6 DEF Assembly!Canonical, Building, Assembly!NoReg
  <2>3. \A r \in Regs : Assembly!Weight(r, text.base, text.index, IF text.scale = 0 THEN 1 ELSE text.scale)
                          = Assembly!Weight(r, op'.base, "none", 0)
    BY <1>4, <2>1, <2>2 DEF Assembly!Weight, ScaleOf
  <2> QED
    BY <1>1, <1>2, <1>3, <1>4, <2>2, <2>3 DEF OperandInv, Assembly!AddressIsText, Assembly!NoReg
<1> QED
  BY <1>5, <1>6

LEMMA OperandStep == OperandInv /\ [Assembly!OperandNext]_(Assembly!operandVars) => OperandInv'
<1> SUFFICES ASSUME OperandInv, [Assembly!OperandNext]_(Assembly!operandVars) PROVE OperandInv'
  OBVIOUS
<1>1. CASE UNCHANGED Assembly!operandVars
  BY <1>1 DEF Assembly!operandVars, OperandInv, Assembly!AddressIsText
<1> QED
  BY <1>1, ParsePointerOperandKeeps, BeginRegsKeeps, ParseRegKeeps, InterpretRegAsIndexKeeps,
     TryParseIndexOrDispKeeps, ParseScaleKeeps, ParseDispKeeps, FinishOperandKeeps DEF Assembly!OperandNext

\* A memory operand of inline assembly is the address that its text says, whatever the
\* registers, scales and displacements in it and wherever they stand, and no token is
\* left or read twice (ParseCompoundMemoryOperand).
THEOREM AddressIsTextHolds == Assembly!OperandSpec => []AddressIsText
<1>1. OperandInv => AddressIsText
  BY DEF OperandInv, AddressIsText
<1> QED
  BY <1>1, OperandInitial, OperandStep, PTL DEF Assembly!OperandSpec
-----------------------------------------------------------------------------
(* Names of registers.                                                     *)

\* The rows of XED's numbers.
LEMMA RowIs ==
  ASSUME NEW x \in Int
  PROVE  /\ x \in 42..57 => Arch!Row(x) = 42
         /\ x \in 58..73 => Arch!Row(x) = 58
         /\ x \in 74..89 => Arch!Row(x) = 74
         /\ x \in 90..105 => Arch!Row(x) = 90
         /\ x \in 106..109 => Arch!Row(x) = 106
BY DEF Arch!Row, Arch!XED_REG_AX, Arch!XED_REG_EAX, Arch!XED_REG_RAX, Arch!XED_REG_AL, Arch!XED_REG_AH

LEMMA NotOther == \A x \in 42..109 : x \notin OtherRegister
BY NamesAssumption DEF Arch!XED_REG_AX, Arch!XED_REG_BH

\* The five masks are different.
LEMMA MasksDiffer ==
  /\ 0..1 # 0..3 /\ 0..1 # 0..7 /\ 0..3 # 0..7 /\ {0} # 0..1 /\ {0} # 0..3 /\ {0} # 0..7
  /\ {1} # 0..1 /\ {1} # 0..3 /\ {1} # 0..7 /\ {0} # {1} /\ 0..0 = {0}
<1>1. 3 \in 0..3 /\ 3 \notin 0..1 /\ 7 \in 0..7 /\ 7 \notin 0..1 /\ 7 \notin 0..3
      /\ 1 \in 0..1 /\ 1 \in 0..3 /\ 1 \in 0..7 /\ 1 \notin {0} /\ 0 \in 0..1 /\ 0 \in 0..3 /\ 0 \in 0..7 /\ 0 \notin {1}
  OBVIOUS
<1>2. 0..0 = {0}
  OBVIOUS
<1> QED
  BY <1>1, <1>2, Zenon

\* What EncodeToNative makes of a general-purpose register with a mask.
Numbered(n) == 74 + n + (IF 4 <= n THEN 1 ELSE 0)
LEMMA EncodedIs ==
  ASSUME NEW r, r.kind = "gpr", r.reg_num \in 0..14
  PROVE  /\ r.byte_mask = 0..1 => Arch!EncodeToNative(r) = Numbered(r.reg_num) - 32
         /\ r.byte_mask = 0..3 => Arch!EncodeToNative(r) = Numbered(r.reg_num) - 16
         /\ r.byte_mask = 0..7 => Arch!EncodeToNative(r) = Numbered(r.reg_num)
         /\ r.byte_mask = {0} => Arch!EncodeToNative(r) = Numbered(r.reg_num) + 16
         /\ r.byte_mask = {1} => Arch!EncodeToNative(r) = Numbered(r.reg_num) + 32
<1>1. PICK w : w = 74 + r.reg_num + (IF 78 <= 74 + r.reg_num THEN 1 ELSE 0)
  OBVIOUS
<1>2. w = Numbered(r.reg_num)
  BY <1>1 DEF Numbered
<1>3. Arch!EncodeToNative(r) =
        CASE r.byte_mask = 0..1 -> w - (74 - 42)
          [] r.byte_mask = 0..3 -> w - (74 - 58)
          [] r.byte_mask = 0..7 -> w
          [] r.byte_mask = {0} -> w + (90 - 74)
          [] r.byte_mask = {1} -> w + (106 - 74)
          [] OTHER -> 0
  BY <1>1 DEF Arch!EncodeToNative, Arch!XED_REG_INVALID, Arch!XED_REG_RAX, Arch!XED_REG_RSP, Arch!XED_REG_AX,
       Arch!XED_REG_EAX, Arch!XED_REG_AL, Arch!XED_REG_AH, Arch!LOW_2_BYTES, Arch!LOW_4_BYTES, Arch!ALL_8_BYTES,
       Arch!LOW_BYTE, Arch!BYTE_2
<1>4. 74 - 42 = 32 /\ 74 - 58 = 16 /\ 90 - 74 = 16 /\ 106 - 74 = 32
  OBVIOUS
<1> QED
  BY <1>2, <1>3, <1>4, MasksDiffer

\* What a decoded register is.
IsDecoded(d, x) ==
  /\ Arch!EncodeToNative(d) = x
  /\ d.kind \in {"gpr", "unschedulable"}
  /\ d.kind = "gpr" => d.reg_num \in 0..14 /\ Arch!Widest(x) = Numbered(d.reg_num)
  /\ d.kind = "unschedulable" => \A n \in 0..14 : Arch!Widest(x) # Numbered(n)
  /\ x \notin OtherRegister /\ Arch!Row(x) = 106 => d.is_legacy

\* What DecodeFromNative makes of a general-purpose register other than the stack pointer.
GPRMask(x) ==
  CASE Arch!Row(x) = Arch!XED_REG_AX -> Arch!LOW_2_BYTES
    [] Arch!Row(x) = Arch!XED_REG_EAX -> Arch!LOW_4_BYTES
    [] Arch!Row(x) = Arch!XED_REG_RAX -> Arch!ALL_8_BYTES
    [] Arch!Row(x) = Arch!XED_REG_AL -> Arch!LOW_BYTE
    [] Arch!Row(x) = Arch!XED_REG_AH -> Arch!BYTE_2

LEMMA DecodedGPR ==
  ASSUME NEW x, Arch!Widest(x) \in 74..89, Arch!Widest(x) # 78
  PROVE  /\ Arch!DecodeFromNative(x).kind = "gpr"
         /\ Arch!DecodeFromNative(x).reg_num = (Arch!Widest(x) - 74) - (IF 78 < Arch!Widest(x) THEN 1 ELSE 0)
         /\ Arch!DecodeFromNative(x).byte_mask = GPRMask(x)
         /\ Arch!DecodeFromNative(x).is_legacy = (106 <= x /\ x <= 109)
<1>1. ~(\/ Arch!Widest(x) < Arch!XED_REG_RAX \/ Arch!Widest(x) > Arch!XED_REG_R15
         \/ Arch!Widest(x) = Arch!XED_REG_RSP)
  BY DEF Arch!XED_REG_RAX, Arch!XED_REG_R15, Arch!XED_REG_RSP
<1>2. Arch!DecodeFromNative(x) =
        Arch!Reg("gpr", (Arch!Widest(x) - Arch!XED_REG_RAX) - (IF Arch!XED_REG_RSP < Arch!Widest(x) THEN 1 ELSE 0),
                 Arch!Width(x), GPRMask(x), Arch!XED_REG_AH <= x /\ x <= Arch!XED_REG_BH)
  BY <1>1, Zenon DEF Arch!DecodeFromNative, GPRMask
<1>4. Arch!XED_REG_RAX = 74 /\ Arch!XED_REG_RSP = 78 /\ Arch!XED_REG_AH = 106 /\ Arch!XED_REG_BH = 109
  BY DEF Arch!XED_REG_RAX, Arch!XED_REG_RSP, Arch!XED_REG_AH, Arch!XED_REG_BH
<1>5. PICK n, legacy :
        /\ n = (Arch!Widest(x) - Arch!XED_REG_RAX) - (IF Arch!XED_REG_RSP < Arch!Widest(x) THEN 1 ELSE 0)
        /\ legacy = (Arch!XED_REG_AH <= x /\ x <= Arch!XED_REG_BH)
  OBVIOUS
<1>6. n = (Arch!Widest(x) - 74) - (IF 78 < Arch!Widest(x) THEN 1 ELSE 0)
  BY <1>4, <1>5, Zenon
<1>7. legacy = (106 <= x /\ x <= 109)
  BY <1>4, <1>5, Zenon
<1>8. Arch!DecodeFromNative(x) = Arch!Reg("gpr", n, Arch!Width(x), GPRMask(x), legacy)
  BY <1>2, <1>5, Zenon
<1>9. PICK d : d = Arch!Reg("gpr", n, Arch!Width(x), GPRMask(x), legacy)
  OBVIOUS
<1>10. d.kind = "gpr" /\ d.reg_num = n /\ d.byte_mask = GPRMask(x) /\ d.is_legacy = legacy
  <2>1. d = [kind |-> "gpr", reg_num |-> n, num_bytes |-> Arch!Width(x), byte_mask |-> GPRMask(x),
             is_legacy |-> legacy]
    BY <1>9 DEF Arch!Reg
  <2> QED
    BY <2>1, Zenon
<1>11. d = Arch!DecodeFromNative(x)
  BY <1>8, <1>9
<1>12. /\ d.kind = "gpr" /\ d.reg_num = (Arch!Widest(x) - 74) - (IF 78 < Arch!Widest(x) THEN 1 ELSE 0)
       /\ d.byte_mask = GPRMask(x) /\ d.is_legacy = (106 <= x /\ x <= 109)
  <2>1. d.is_legacy = (106 <= x /\ x <= 109)
    BY <1>7, <1>10, Zenon
  <2>2. d.reg_num = (Arch!Widest(x) - 74) - (IF 78 < Arch!Widest(x) THEN 1 ELSE 0)
    BY <1>6, <1>10, Zenon
  <2> QED
    BY <1>10, <2>1, <2>2, Zenon
<1> QED
  BY <1>11, <1>12, Zenon

LEMMA DecodedIs ==
  ASSUME NEW x \in Native
  PROVE  IsDecoded(Arch!DecodeFromNative(x), x)
<1> DEFINE d == Arch!DecodeFromNative(x)
<1>0. x \in Nat /\ (x \in OtherRegister => x \notin 42..109) /\ (x \notin OtherRegister => x \in 42..109)
  BY NamesAssumption DEF Arch!XED_REG_AX, Arch!XED_REG_BH
<1>1. CASE x \in OtherRegister
  <2>1. Arch!Widest(x) = x
    BY <1>1 DEF Arch!Widest
  <2>6. Arch!Widest(x) < Arch!XED_REG_RAX \/ Arch!Widest(x) > Arch!XED_REG_R15
    BY <1>0, <1>1, <2>1 DEF Arch!XED_REG_RAX, Arch!XED_REG_R15
  <2>2. d = Arch!Reg("unschedulable", x, Arch!Width(x), {}, FALSE)
    BY <2>6, Zenon DEF Arch!DecodeFromNative
  <2>3. d.kind = "unschedulable" /\ d.reg_num = x
    BY <2>2 DEF Arch!Reg
  <2>4. Arch!EncodeToNative(d) = x
    BY <2>3 DEF Arch!EncodeToNative
  <2>5. \A n \in 0..14 : x # Numbered(n)
    BY <1>0, <1>1 DEF Numbered
  <2> QED
    BY <1>1, <2>1, <2>3, <2>4, <2>5 DEF IsDecoded
<1>2. CASE x \notin OtherRegister
  <2>1. ASSUME NEW r \in {42, 58, 74, 90, 106}, Arch!Row(x) = r, x \in r..(r + 15), r = 106 => x \in 106..109,
               NEW mask, mask = Arch!DecodeFromNative(x).byte_mask,
               x # r + 4 => mask = CASE r = 42 -> 0..1 [] r = 58 -> 0..3 [] r = 74 -> 0..7 [] r = 90 -> {0} [] r = 106 -> {1}
        PROVE  IsDecoded(d, x)
    <3>1. PICK w : w = 74 + (x - r)
      OBVIOUS
    <3>2. Arch!Widest(x) = w /\ w \in 74..89
      BY <1>0, <1>2, <2>1, <3>1 DEF Arch!Widest, Arch!XED_REG_RAX
    <3>3. CASE x = r + 4
      <4>1. w = 78
        BY <3>1, <3>3
      <4>2. d = Arch!Reg("unschedulable", x, Arch!Width(x), {}, FALSE)
        BY <3>2, <4>1 DEF Arch!DecodeFromNative, Arch!XED_REG_RAX, Arch!XED_REG_R15, Arch!XED_REG_RSP
      <4>3. d.kind = "unschedulable" /\ d.reg_num = x
        BY <4>2 DEF Arch!Reg
      <4>4. Arch!EncodeToNative(d) = x
        BY <4>3 DEF Arch!EncodeToNative
      <4>5. \A n \in 0..14 : 78 # Numbered(n)
        BY DEF Numbered
      <4>6. r # 106
        BY <2>1, <3>3
      <4> QED
        BY <2>1, <3>2, <4>1, <4>3, <4>4, <4>5, <4>6 DEF IsDecoded
    <3>4. CASE x # r + 4
      <4>1. w # 78
        BY <1>0, <2>1, <3>1, <3>4
      <4>2. /\ d.kind = "gpr" /\ d.reg_num = (w - 74) - (IF 78 < w THEN 1 ELSE 0)
            /\ d.is_legacy = (106 <= x /\ x <= 109)
        <5>1. Arch!Widest(x) \in 74..89 /\ Arch!Widest(x) # 78
          BY <3>2, <4>1, Zenon
        <5>2. /\ d.kind = "gpr" /\ d.reg_num = (Arch!Widest(x) - 74) - (IF 78 < Arch!Widest(x) THEN 1 ELSE 0)
              /\ d.is_legacy = (106 <= x /\ x <= 109)
          BY <5>1, DecodedGPR, Zenon
        <5> QED
          BY <3>2, <5>2, Zenon
      <4>3. d.reg_num \in 0..14 /\ Numbered(d.reg_num) = w
        BY <3>2, <4>1, <4>2 DEF Numbered
      <4>4. Arch!EncodeToNative(d) = x
        <5>1. d.byte_mask = CASE r = 42 -> 0..1 [] r = 58 -> 0..3 [] r = 74 -> 0..7 [] r = 90 -> {0} [] r = 106 -> {1}
          BY <2>1, <3>4
        <5>2. PICK e : e = d
          OBVIOUS
        <5> HIDE DEF d
        <5>3. CASE r = 42
          <6>1. e.byte_mask = 0..1
            BY <5>1, <5>2, <5>3
          <6> QED
            BY <1>0, <2>1, <3>1, <4>2, <4>3, <5>2, <5>3, <6>1, EncodedIs
        <5>4. CASE r = 58
          <6>1. e.byte_mask = 0..3
            BY <5>1, <5>2, <5>4
          <6> QED
            BY <1>0, <2>1, <3>1, <4>2, <4>3, <5>2, <5>4, <6>1, EncodedIs
        <5>5. CASE r = 74
          <6>1. e.byte_mask = 0..7
            BY <5>1, <5>2, <5>5
          <6> QED
            BY <1>0, <2>1, <3>1, <4>2, <4>3, <5>2, <5>5, <6>1, EncodedIs
        <5>6. CASE r = 90
          <6>1. e.byte_mask = {0}
            BY <5>1, <5>2, <5>6
          <6> QED
            BY <1>0, <2>1, <3>1, <4>2, <4>3, <5>2, <5>6, <6>1, EncodedIs
        <5>7. CASE r = 106
          <6>1. e.byte_mask = {1}
            BY <5>1, <5>2, <5>7
          <6> QED
            BY <1>0, <2>1, <3>1, <4>2, <4>3, <5>2, <5>7, <6>1, EncodedIs
        <5> QED
          BY <5>3, <5>4, <5>5, <5>6, <5>7
      <4>5. Arch!Row(x) = 106 => d.is_legacy
        <5>1. Arch!Row(x) = 106 => 106 <= x /\ x <= 109
          BY <1>0, <2>1
        <5> QED
          BY <4>2, <5>1, Zenon
      <4> QED
        BY <3>2, <4>2, <4>3, <4>4, <4>5 DEF IsDecoded
    <3> QED
      BY <3>3, <3>4
  <2>2. PICK r \in {42, 58, 74, 90, 106} :
          Arch!Row(x) = r /\ x \in r..(r + 15) /\ (r = 106 => x \in 106..109)
    BY <1>0, <1>2, RowIs
  <2>3. PICK mask : mask = d.byte_mask
    OBVIOUS
  <2>4. x # r + 4 => mask = CASE r = 42 -> 0..1 [] r = 58 -> 0..3 [] r = 74 -> 0..7 [] r = 90 -> {0} [] r = 106 -> {1}
    <3> HAVE x # r + 4
    <3>1. PICK w : w = 74 + (x - r)
      OBVIOUS
    <3>2. Arch!Widest(x) = w /\ w \in 74..89 /\ w # 78
      BY <1>0, <1>2, <2>2, <3>1 DEF Arch!Widest, Arch!XED_REG_RAX
    <3>3. mask = CASE Arch!Row(x) = 42 -> 0..1 [] Arch!Row(x) = 58 -> 0..3 [] Arch!Row(x) = 74 -> 0..7
                   [] Arch!Row(x) = 90 -> {0} [] Arch!Row(x) = 106 -> {1}
      <4>1. mask = GPRMask(x)
        <5>1. Arch!Widest(x) \in 74..89 /\ Arch!Widest(x) # 78
          BY <3>2, Zenon
        <5> QED
          BY <2>3, <5>1, DecodedGPR, Zenon
      <4> QED
        BY <4>1 DEF GPRMask, Arch!XED_REG_RAX, Arch!XED_REG_AH, Arch!XED_REG_AX, Arch!XED_REG_EAX, Arch!XED_REG_AL,
          Arch!LOW_2_BYTES, Arch!LOW_4_BYTES, Arch!ALL_8_BYTES, Arch!LOW_BYTE, Arch!BYTE_2
    <3> QED
      BY <2>2, <3>3
  <2> QED
    BY <2>1, <2>2, <2>3, <2>4
<1> QED
  BY <1>1, <1>2

\* What is encoded for the register that is chosen, in the width that is asked for.
IsHomeOf(c, n, width) ==
  /\ Arch!Width(c) = width /\ Arch!Row(c) # 106
  /\ Arch!Widest(c) = Numbered(n) /\ Arch!EncodeToNative(Arch!NthArchGPR(n)) = Numbered(n)
  /\ width = 8 => Arch!Row(c) # 90

LEMMA HomeIs ==
  ASSUME NEW n \in 0..14, NEW width \in {1, 2, 4, 8}
  PROVE  IsHomeOf(Arch!EncodeToNative(Arch!Widen(Arch!NthArchGPR(n), width)), n, width)
<1>0. PICK c : c = Arch!EncodeToNative(Arch!Widen(Arch!NthArchGPR(n), width))
  OBVIOUS
<1> SUFFICES IsHomeOf(c, n, width)
  BY <1>0
<1>1. PICK h : h = Arch!NthArchGPR(n)
  OBVIOUS
<1>2. h = [kind |-> "gpr", reg_num |-> n, num_bytes |-> 8, byte_mask |-> 0..7, is_legacy |-> FALSE]
  BY <1>1 DEF Arch!NthArchGPR, Arch!Reg, Arch!ALL_8_BYTES
<1>3. Arch!EncodeToNative(h) = Numbered(n)
  BY <1>2, EncodedIs
<1>4. PICK r : r = Arch!Widen(h, width)
  OBVIOUS
<1>5. r.kind = "gpr" /\ r.reg_num = n /\ r.byte_mask = 0..(width - 1)
  BY <1>2, <1>4 DEF Arch!Widen
<1>6. Numbered(n) \in 74..89
  BY DEF Numbered
<1>7. CASE width = 1
  <2>1. r.byte_mask = {0}
    BY <1>5, <1>7, MasksDiffer
  <2>2. c = Numbered(n) + 16
    BY <1>0, <1>1, <1>4, <1>5, <2>1, EncodedIs
  <2>3. c \in 90..105 /\ Arch!Row(c) = 90 /\ c \notin OtherRegister
    BY <1>6, <2>2, RowIs, NotOther
  <2> QED
    BY <1>1, <1>3, <1>6, <1>7, <2>2, <2>3
    DEF IsHomeOf, Arch!Width, Arch!Widest, Arch!XED_REG_RAX, Arch!XED_REG_AX, Arch!XED_REG_EAX
<1>8. CASE width = 2
  <2>1. r.byte_mask = 0..1
    BY <1>5, <1>8
  <2>2. c = Numbered(n) - 32
    BY <1>0, <1>1, <1>4, <1>5, <2>1, EncodedIs
  <2>3. c \in 42..57 /\ Arch!Row(c) = 42 /\ c \notin OtherRegister
    BY <1>6, <2>2, RowIs, NotOther
  <2> QED
    BY <1>1, <1>3, <1>6, <1>8, <2>2, <2>3
    DEF IsHomeOf, Arch!Width, Arch!Widest, Arch!XED_REG_RAX, Arch!XED_REG_AX, Arch!XED_REG_EAX
<1>9. CASE width = 4
  <2>1. r.byte_mask = 0..3
    BY <1>5, <1>9
  <2>2. c = Numbered(n) - 16
    BY <1>0, <1>1, <1>4, <1>5, <2>1, EncodedIs
  <2>3. c \in 58..73 /\ Arch!Row(c) = 58 /\ c \notin OtherRegister
    BY <1>6, <2>2, RowIs, NotOther
  <2> QED
    BY <1>1, <1>3, <1>6, <1>9, <2>2, <2>3
    DEF IsHomeOf, Arch!Width, Arch!Widest, Arch!XED_REG_RAX, Arch!XED_REG_AX, Arch!XED_REG_EAX
<1>10. CASE width = 8
  <2>1. r.byte_mask = 0..7
    BY <1>5, <1>10
  <2>2. c = Numbered(n)
    BY <1>0, <1>1, <1>4, <1>5, <2>1, EncodedIs
  <2>3. c \in 74..89 /\ Arch!Row(c) = 74 /\ c \notin OtherRegister
    BY <1>6, <2>2, RowIs, NotOther
  <2> QED
    BY <1>1, <1>3, <1>6, <1>10, <2>2, <2>3
    DEF IsHomeOf, Arch!Width, Arch!Widest, Arch!XED_REG_RAX, Arch!XED_REG_AX, Arch!XED_REG_EAX
<1> QED
  BY <1>7, <1>8, <1>9, <1>10

\* The instruction while it goes through the stages: its first operands are as decoded,
\* the last one is the virtual register, and then the register chosen for it.
IsInstruction(q, src) ==
  /\ DOMAIN q = 1..(Len(src.regs) + 1) /\ src.regs \in Seq(Native) /\ src.width \in {1, 2, 4, 8}
  /\ \A i \in 1..Len(src.regs) : q[i].mem = FALSE /\ q[i].reg = Arch!DecodeFromNative(src.regs[i])
  /\ \A i \in 1..(Len(src.regs) + 1) : q[i] = [mem |-> q[i].mem, reg |-> q[i].reg]
  /\ q[Len(src.regs) + 1].mem => src.width = 8

IsHome(h, used) == \E n \in 0..14 : n \notin used /\ h = Arch!NthArchGPR(n)

NamesInv ==
  /\ stage \in {"decode", "visit", "restrict", "home", "replace", "encode"}
  /\ stage # "decode" => IsInstruction(instr, source)
  /\ stage \in {"visit", "restrict", "home", "replace"} =>
       instr[Len(source.regs) + 1].reg = Arch!VirtualGPR(source.width)
  /\ stage \in {"restrict", "home", "replace", "encode"} =>
       \A i \in 1..Len(source.regs) : Arch!Revived(Arch!DecodeFromNative(source.regs[i])) \subseteq used_regs
  /\ stage \in {"home", "replace", "encode"} =>
       ((\E i \in 1..Len(source.regs) : Arch!DecodeFromNative(source.regs[i]).is_legacy) => 7..14 \subseteq used_regs)
  /\ stage \in {"replace", "encode"} => IsHome(vr_home, used_regs)
  /\ stage = "encode" => instr[Len(source.regs) + 1].reg = Arch!Widen(vr_home, source.width)

LEMMA NamesInitInv == Arch!NamesInit => NamesInv
BY DEF Arch!NamesInit, NamesInv

LEMMA NamesDecodeInv ==
  ASSUME NamesInv, Arch!Decode
  PROVE  NamesInv'
<1>1. PICK regs_ \in UNION {[1..n -> Native] : n \in 0..2}, width \in {1, 2, 4, 8}, mem_ \in BOOLEAN :
        /\ mem_ => width = 8
        /\ source' = [regs |-> regs_, width |-> width]
        /\ instr' = Append([i \in DOMAIN regs_ |-> [mem |-> FALSE, reg |-> Arch!DecodeFromNative(regs_[i])]],
                           [mem |-> mem_, reg |-> Arch!VirtualGPR(width)])
  BY DEF Arch!Decode
<1>2. stage' = "visit"
  BY DEF Arch!Decode
<1>3. PICK n \in 0..2 : regs_ \in [1..n -> Native]
  OBVIOUS
<1>4. regs_ \in Seq(Native) /\ Len(regs_) = n /\ DOMAIN regs_ = 1..n
  BY <1>3
<1> DEFINE S == [mem : BOOLEAN, reg : {Arch!DecodeFromNative(x) : x \in Native} \cup {Arch!VirtualGPR(width)}]
<1>5. PICK q : q = [i \in 1..n |-> [mem |-> FALSE, reg |-> Arch!DecodeFromNative(regs_[i])]]
  OBVIOUS
<1>6. q \in Seq(S) /\ Len(q) = n /\ \A i \in 1..n : q[i] = [mem |-> FALSE, reg |-> Arch!DecodeFromNative(regs_[i])]
  BY <1>3, <1>5
<1>7. PICK e : e = [mem |-> mem_, reg |-> Arch!VirtualGPR(width)]
  OBVIOUS
<1>8. e \in S
  BY <1>7
<1>9. instr' = Append(q, e)
  BY <1>1, <1>4, <1>5, <1>7
<1> HIDE DEF S
<1>10. /\ DOMAIN instr' = 1..(n + 1) /\ instr'[n + 1] = e
       /\ \A i \in 1..n : instr'[i] = q[i]
  BY <1>6, <1>8, <1>9
<1>11. source'.regs = regs_ /\ source'.width = width
  BY <1>1
<1>12. \A i \in 1..n : instr'[i].mem = FALSE /\ instr'[i].reg = Arch!DecodeFromNative(regs_[i])
  BY <1>6, <1>10
<1>13. instr'[n + 1].mem = mem_ /\ instr'[n + 1].reg = Arch!VirtualGPR(width)
  <2>1. e.mem = mem_ /\ e.reg = Arch!VirtualGPR(width)
    BY <1>7, Zenon
  <2> QED
    BY <1>10, <2>1, Zenon
<1>15. ASSUME NEW i \in 1..(n + 1) PROVE instr'[i] = [mem |-> instr'[i].mem, reg |-> instr'[i].reg]
  <2>1. CASE i \in 1..n
    <3>1. instr'[i] = [mem |-> FALSE, reg |-> Arch!DecodeFromNative(regs_[i])]
      BY <1>6, <1>10, <2>1
    <3> QED
      BY <3>1
  <2>2. CASE i = n + 1
    <3>1. instr'[i] = [mem |-> mem_, reg |-> Arch!VirtualGPR(width)]
      BY <1>7, <1>10, <2>2
    <3> QED
      BY <3>1, Zenon
  <2> QED
    BY <2>1, <2>2
<1>14. IsInstruction(instr', source')
  <2>1. instr'[n + 1].mem => width = 8
    BY <1>1, <1>13, Zenon
  <2> QED
    BY <1>4, <1>10, <1>11, <1>12, <1>15, <2>1 DEF IsInstruction
<1> QED
  BY <1>2, <1>4, <1>11, <1>13, <1>14 DEF NamesInv

LEMMA NamesVisitInv ==
  ASSUME NamesInv, Arch!Visit
  PROVE  NamesInv'
<1>1. /\ stage = "visit" /\ stage' = "restrict" /\ instr' = instr /\ source' = source /\ vr_home' = vr_home
      /\ used_regs' = used_regs \cup UNION {Arch!Revived(instr[i].reg) : i \in DOMAIN instr}
  BY DEF Arch!Visit
<1>2. IsInstruction(instr, source) /\ instr[Len(source.regs) + 1].reg = Arch!VirtualGPR(source.width)
  BY <1>1 DEF NamesInv
<1>3. ASSUME NEW i \in 1..Len(source.regs)
      PROVE  Arch!Revived(Arch!DecodeFromNative(source.regs[i])) \subseteq used_regs'
  <2>1. i \in DOMAIN instr /\ instr[i].reg = Arch!DecodeFromNative(source.regs[i])
    <3>1. Len(source.regs) \in Nat
      BY <1>2 DEF IsInstruction
    <3> QED
      BY <1>2, <3>1 DEF IsInstruction
  <2> QED
    BY <1>1, <2>1, Zenon
<1> QED
  BY <1>1, <1>2, <1>3 DEF NamesInv

LEMMA NamesRestrictInv ==
  ASSUME NamesInv, Arch!ReviveRestrictedRegisters
  PROVE  NamesInv'
<1>1. /\ stage = "restrict" /\ stage' = "home" /\ instr' = instr /\ source' = source /\ vr_home' = vr_home
      /\ used_regs' = used_regs \cup (IF Arch!UsesLegacyRegisters THEN 7..14 ELSE {})
  BY DEF Arch!ReviveRestrictedRegisters
<1>2. /\ IsInstruction(instr, source) /\ instr[Len(source.regs) + 1].reg = Arch!VirtualGPR(source.width)
      /\ \A i \in 1..Len(source.regs) : Arch!Revived(Arch!DecodeFromNative(source.regs[i])) \subseteq used_regs
  BY <1>1 DEF NamesInv
<1>3. ASSUME NEW i \in 1..Len(source.regs), Arch!DecodeFromNative(source.regs[i]).is_legacy
      PROVE  7..14 \subseteq used_regs'
  <2>1. Len(source.regs) \in Nat
    BY <1>2 DEF IsInstruction
  <2>2. i \in DOMAIN instr
    BY <1>2, <2>1 DEF IsInstruction
  <2>3. instr[i].mem = FALSE /\ instr[i].reg = Arch!DecodeFromNative(source.regs[i])
    BY <1>2 DEF IsInstruction
  <2>4. Arch!UsesLegacyRegisters
    BY <1>3, <2>2, <2>3, Zenon DEF Arch!UsesLegacyRegisters
  <2> QED
    BY <1>1, <2>4
<1>4. \A i \in 1..Len(source.regs) : Arch!Revived(Arch!DecodeFromNative(source.regs[i])) \subseteq used_regs'
  BY <1>1, <1>2
<1> QED
  BY <1>1, <1>2, <1>3, <1>4 DEF NamesInv

LEMMA NamesHomeInv ==
  ASSUME NamesInv, Arch!GetGPR
  PROVE  NamesInv'
<1>1. /\ stage = "home" /\ stage' = "replace" /\ instr' = instr /\ source' = source /\ used_regs' = used_regs
      /\ \E n \in 0..14 : n \notin used_regs /\ vr_home' = Arch!NthArchGPR(n)
  BY DEF Arch!GetGPR
<1>2. IsHome(vr_home', used_regs')
  BY <1>1, Zenon DEF IsHome
<1> QED
  BY <1>1, <1>2 DEF NamesInv

LEMMA OperandFields ==
  ASSUME NEW x, NEW a, NEW r, x = [mem |-> a, reg |-> r]
  PROVE  x.mem = a /\ x.reg = r /\ x = [mem |-> x.mem, reg |-> x.reg]
BY Zenon

LEMMA NamesReplaceInv ==
  ASSUME NamesInv, Arch!TryReplaceRegInInstruction
  PROVE  NamesInv'
<1>1. /\ stage = "replace" /\ stage' = "encode" /\ source' = source /\ used_regs' = used_regs /\ vr_home' = vr_home
      /\ instr' = [i \in DOMAIN instr |->
           [instr[i] EXCEPT !.reg = Arch!TryReplaceReg(@, Arch!VirtualGPR(8), vr_home)]]
  BY DEF Arch!TryReplaceRegInInstruction
<1>2. /\ IsInstruction(instr, source) /\ instr[Len(source.regs) + 1].reg = Arch!VirtualGPR(source.width)
      /\ IsHome(vr_home, used_regs)
  BY <1>1 DEF NamesInv
<1>3. PICK m : m = Len(source.regs)
  OBVIOUS
<1>4. m \in Nat /\ DOMAIN instr = 1..(m + 1) /\ source.regs \in Seq(Native)
  BY <1>2, <1>3 DEF IsInstruction
<1>5. DOMAIN instr' = 1..(m + 1)
  BY <1>1, <1>4
<1>9. ASSUME NEW i \in 1..(m + 1)
      PROVE  instr'[i] = [mem |-> instr[i].mem,
                          reg |-> Arch!TryReplaceReg(instr[i].reg, Arch!VirtualGPR(8), vr_home)]
  <2>1. i \in DOMAIN instr /\ instr[i] = [mem |-> instr[i].mem, reg |-> instr[i].reg]
    BY <1>2, <1>3 DEF IsInstruction
  <2>2. PICK x : x = instr[i]
    OBVIOUS
  <2>3. PICK y : y = Arch!TryReplaceReg(x.reg, Arch!VirtualGPR(8), vr_home)
    OBVIOUS
  <2>4. x = [mem |-> x.mem, reg |-> x.reg]
    BY <2>1, <2>2
  <2>5. instr'[i] = [x EXCEPT !.reg = y]
    BY <1>1, <2>1, <2>2, <2>3
  <2>6. [x EXCEPT !.reg = y] = [mem |-> x.mem, reg |-> y]
    BY <2>4
  <2> QED
    BY <2>2, <2>3, <2>5, <2>6
<1>6. ASSUME NEW i \in 1..m PROVE instr'[i].reg = instr[i].reg /\ instr'[i].mem = instr[i].mem
  <2>1. instr[i].reg = Arch!DecodeFromNative(source.regs[i])
    BY <1>2, <1>3 DEF IsInstruction
  <2>2. source.regs[i] \in Native
    BY <1>3, <1>4
  <2>3. instr[i].reg.kind # "virtual"
    BY <2>1, <2>2, DecodedIs DEF IsDecoded
  <2>4. ~Arch!SameRegister(instr[i].reg, Arch!VirtualGPR(8))
    BY <2>3 DEF Arch!SameRegister, Arch!VirtualGPR, Arch!Reg
  <2>5. Arch!TryReplaceReg(instr[i].reg, Arch!VirtualGPR(8), vr_home) = instr[i].reg
    BY <2>4, Zenon DEF Arch!TryReplaceReg
  <2>6. instr'[i] = [mem |-> instr[i].mem, reg |-> instr[i].reg]
    BY <1>4, <1>9, <2>5
  <2> QED
    BY <2>6, OperandFields
<1>7. /\ instr'[m + 1].reg = Arch!Widen(vr_home, source.width)
      /\ instr'[m + 1].mem = instr[m + 1].mem
  <2>1. instr[m + 1].reg = Arch!VirtualGPR(source.width)
    BY <1>2, <1>3
  <2>2. Arch!SameRegister(Arch!VirtualGPR(source.width), Arch!VirtualGPR(8))
        /\ Arch!VirtualGPR(source.width).num_bytes = source.width
    BY DEF Arch!SameRegister, Arch!VirtualGPR, Arch!Reg
  <2>3. Arch!TryReplaceReg(instr[m + 1].reg, Arch!VirtualGPR(8), vr_home) = Arch!Widen(vr_home, source.width)
    BY <2>1, <2>2, Zenon DEF Arch!TryReplaceReg
  <2>4. instr'[m + 1] = [mem |-> instr[m + 1].mem, reg |-> Arch!Widen(vr_home, source.width)]
    BY <1>4, <1>9, <2>3
  <2> QED
    BY <2>4, OperandFields
<1>10. ASSUME NEW i \in 1..(m + 1) PROVE instr'[i] = [mem |-> instr'[i].mem, reg |-> instr'[i].reg]
  <2>1. PICK x, a, r : x = instr'[i] /\ x = [mem |-> a, reg |-> r]
    BY <1>9
  <2> QED
    BY <2>1, OperandFields
<1>11. instr'[m + 1].mem => source'.width = 8
  <2>1. instr[m + 1].mem => source.width = 8
    BY <1>2, <1>3 DEF IsInstruction
  <2> QED
    BY <1>1, <1>7, <2>1, Zenon
<1>8. IsInstruction(instr', source')
  BY <1>1, <1>2, <1>3, <1>5, <1>6, <1>10, <1>11 DEF IsInstruction
<1> QED
  BY <1>1, <1>3, <1>7, <1>8 DEF NamesInv

LEMMA NamesNextInv ==
  ASSUME NamesInv, [Arch!NamesNext]_(Arch!registerVars)
  PROVE  NamesInv'
<1>1. CASE UNCHANGED Arch!registerVars
  BY <1>1 DEF NamesInv, Arch!registerVars
<1>2. CASE Arch!Encode
  BY <1>2 DEF NamesInv, Arch!Encode
<1> QED
  BY <1>1, <1>2, NamesDecodeInv, NamesVisitInv, NamesRestrictInv, NamesHomeInv, NamesReplaceInv DEF Arch!NamesNext

LEMMA NamesInvSound == NamesInv => RegistersNamed
<1> SUFFICES ASSUME NamesInv, stage = "encode" PROVE Arch!NamesItsBytes /\ Arch!HomeFits
  BY Zenon DEF RegistersNamed, Arch!NamesItsBytes, Arch!HomeFits
<1>1. PICK m : m = Len(source.regs)
  OBVIOUS
<1>2. PICK width : width = source.width
  OBVIOUS
<1>3. PICK n \in 0..14 : n \notin used_regs /\ vr_home = Arch!NthArchGPR(n)
  BY DEF NamesInv, IsHome
<1>4. PICK c : c = Arch!EncodeToNative(instr[m + 1].reg)
  OBVIOUS
<1>5. /\ m \in Nat /\ source.regs \in Seq(Native) /\ width \in {1, 2, 4, 8} /\ (instr[m + 1].mem => width = 8)
      /\ \A i \in 1..m : instr[i].reg = Arch!DecodeFromNative(source.regs[i])
  BY <1>1, <1>2 DEF NamesInv, IsInstruction
<1>6. c = Arch!EncodeToNative(Arch!Widen(Arch!NthArchGPR(n), width))
  BY <1>1, <1>2, <1>3, <1>4 DEF NamesInv
<1>7. /\ Arch!Width(c) = width /\ Arch!Row(c) # 106
      /\ Arch!Widest(c) = Numbered(n) /\ Arch!EncodeToNative(vr_home) = Numbered(n)
      /\ width = 8 => Arch!Row(c) # 90
  <2>1. IsHomeOf(c, n, width)
    BY <1>5, <1>6, HomeIs
  <2> QED
    BY <1>3, <2>1, Zenon DEF IsHomeOf
<1>8. ASSUME NEW i \in 1..m
      PROVE  /\ Arch!EncodeToNative(instr[i].reg) = source.regs[i]
             /\ Arch!Widest(source.regs[i]) # Arch!Widest(c)
             /\ source.regs[i] \notin OtherRegister /\ Arch!Row(source.regs[i]) = 106 => n \notin 7..14
  <2>1. PICK x : x = source.regs[i]
    OBVIOUS
  <2>2. PICK d : d = Arch!DecodeFromNative(x)
    OBVIOUS
  <2>3. x \in Native /\ instr[i].reg = d
    BY <1>1, <1>5, <2>1, <2>2
  <2>4. IsDecoded(d, x)
    BY <2>2, <2>3, DecodedIs
  <2>5. Arch!Revived(d) \subseteq used_regs
    BY <1>1, <2>1, <2>2 DEF NamesInv
  <2>6. Arch!Widest(x) # Arch!Widest(c)
    <3>1. CASE d.kind = "gpr"
      <4>1. d.reg_num # n /\ d.reg_num \in 0..14
        BY <1>3, <2>4, <2>5, <3>1 DEF Arch!Revived, IsDecoded
      <4>2. Numbered(d.reg_num) # Numbered(n)
        BY <4>1 DEF Numbered
      <4> QED
        BY <1>7, <2>4, <3>1, <4>2 DEF IsDecoded
    <3>2. CASE d.kind = "unschedulable"
      BY <1>7, <2>4, <3>2 DEF IsDecoded
    <3> QED
      BY <2>4, <3>1, <3>2 DEF IsDecoded
  <2>7. x \notin OtherRegister /\ Arch!Row(x) = 106 => n \notin 7..14
    <3> HAVE x \notin OtherRegister /\ Arch!Row(x) = 106
    <3>1. d.is_legacy
      BY <2>4, Zenon DEF IsDecoded
    <3>2. \E k \in 1..Len(source.regs) : Arch!DecodeFromNative(source.regs[k]).is_legacy
      BY <1>1, <2>1, <2>2, <3>1, Zenon
    <3>3. 7..14 \subseteq used_regs
      BY <3>2, Zenon DEF NamesInv
    <3> QED
      BY <1>3, <3>3
  <2> QED
    BY <2>1, <2>3, <2>4, <2>6, <2>7 DEF IsDecoded
<1>9. Arch!NamesItsBytes
  BY <1>1, <1>2, <1>4, <1>7, <1>8 DEF Arch!NamesItsBytes, Arch!XED_REG_AH
<1>10. ASSUME NEW i \in 1..m, source.regs[i] \notin OtherRegister /\ Arch!Row(source.regs[i]) = Arch!XED_REG_AH
       PROVE  Arch!Widest(c) - Arch!XED_REG_RAX < 8
  <2>1. n \in 0..6
    BY <1>8, <1>10 DEF Arch!XED_REG_AH
  <2>2. Numbered(n) \in 74..81
    BY <2>1 DEF Numbered
  <2> QED
    BY <1>7, <2>2 DEF Arch!XED_REG_RAX
<1>11. Arch!HomeFits
  BY <1>1, <1>4, <1>8, <1>10, Zenon DEF Arch!HomeFits
<1> QED
  BY <1>9, <1>11

\* Whatever an instruction names (arch/x86-64/register.cc, 8_schedule_registers.cc): each
\* register that was decoded, of all rows, is encoded again as it was, and the
\* register that is chosen for a virtual one is encoded in the width that was asked
\* for, shares no byte with another operand, and is none of R8 to R15 beside a high
\* byte.
THEOREM RegistersNamedHolds == Arch!NamesSpec => []RegistersNamed
<1>1. Arch!NamesInit => NamesInv
  BY NamesInitInv
<1>2. NamesInv /\ [Arch!NamesNext]_(Arch!registerVars) => NamesInv'
  BY NamesNextInv
<1>3. NamesInv => RegistersNamed
  BY NamesInvSound
<1> QED
  BY <1>1, <1>2, <1>3, PTL DEF Arch!NamesSpec
=============================================================================
