------------------------------ MODULE MCSupport ------------------------------
(***************************************************************************)
(* Runs what the translation of code rests on, one part at a time: the     *)
(* containers of granary/base, names and numbers of registers, calls and   *)
(* inline assembly of tools, the emulation of instructions that may fault, *)
(* and the sessions of the kernel module with their options.               *)
(***************************************************************************)
EXTENDS Integers, Sequences, SequencesExt, TLC

CONSTANTS
  Parts,            \* The parts to run.
  Lines,            \* Command lines of the sessions.
  Syscalls,         \* System calls: two, so that the table is seen half written.
  MaxSessions,      \* Bound on the sessions: two, since the third does not get past its options.
  Native, OtherRegister,    \* Of Registers.  In the runs some of each kind.
  \* Of Registers, too.  In the runs the ranges of numbers are in proportion: four decoded
  \* blocks fill that of a trace, and the fifth goes past its end.
  kMinTemporaryVirtualRegister, kMinTraceVirtualRegister, kMinGlobalVirtualRegister,
  kMaxNumVirtRegs, kMaxNumFuncOperands, kMaxTemporaries,
  MaxBlocks, MaxGlobals, MaxExtra,
  \* Of InlineAssembly.  In the runs, two scopes with three pieces between them.
  Scopes, RegVars, LabelVars, Inputs, Texts, MaxPieces, Regs, Numbers,
  InlineFunctions, ContextFunctions, Arguments, Hooked      \* Of ClientCalls.

ASSUME KernelAssumption == Syscalls \in Nat

\* The ranges of numbers are in this order (granary/code/register.h), and their limits
\* are numbers of registers themselves.
ASSUME NumbersAssumption ==
  /\ {kMinTemporaryVirtualRegister, kMinTraceVirtualRegister, kMinGlobalVirtualRegister, kMaxNumVirtRegs,
      kMaxNumFuncOperands, kMaxTemporaries, MaxBlocks, MaxGlobals, MaxExtra} \subseteq Nat
  /\ kMinTemporaryVirtualRegister <= kMinTraceVirtualRegister
  /\ kMinTraceVirtualRegister < kMinGlobalVirtualRegister
  /\ kMinGlobalVirtualRegister < 65536

VARIABLES
  part,
  next, prev, first, last, set, map, parent, value, valued,
  instr, source, used_regs, vr_home, stage,
  gNextVirtualRegister, num_virtual_regs, num_temporary_regs, vr_stage, blocks, extra, held, asserted,
  inline_callbacks, context_callbacks, regs, flags, stack, slots, arg_regs, code, call, before, arrived,
  scopes, handle, given, list, asm_stage, parsing, next_vr, text, tokens, state, reg, op,
  exc_table, at, ins, exc_regs, saved, exc_stack, mem, seg, exc_flags, pc, exc,
  string, length, names, values, options, next_option, initialized, flag,
  donePreInit, seenInit, seenAttach, command, option, entry, line, session, alive, inst, syscall_table

listVars == <<next, prev, first, last>>
tinyVars == <<set, map>>
disjointVars == <<parent, value, valued>>
containerVars == <<listVars, tinyVars, disjointVars>>
nameVars == <<instr, source, used_regs, vr_home, stage>>
numberVars == <<gNextVirtualRegister, num_virtual_regs, num_temporary_regs, vr_stage, blocks, extra, held, asserted>>
registerVars == <<nameVars, numberVars>>
callVars == <<inline_callbacks, context_callbacks, regs, flags, stack, slots, arg_regs, code, call, before, arrived>>
operandVars == <<text, tokens, state, reg, op>>
assemblyVars == <<scopes, handle, given, list, asm_stage, parsing, next_vr>>
toolCodeVars == <<callVars, operandVars, assemblyVars>>
exceptionVars == <<exc_table, at, ins, exc_regs, saved, exc_stack, mem, seg, exc_flags, pc, exc>>
sessionVars == <<string, length, names, values, options, next_option, initialized, flag,
                 donePreInit, seenInit, seenAttach, command, option, entry, line, session, alive, inst, syscall_table>>
-----------------------------------------------------------------------------
(* Containers.                                                             *)

ListElems == {"e1", "e2", "e3", "e4"}
ListNames == {"l1", "l2", "l3"}
SetNames == {"s1", "s2"}

\* Vectors of up to three chunks of two elements.
Data == INSTANCE Containers WITH
          Elem <- ListElems, List <- ListNames, Null <- "null",
          SetName <- SetNames, Value <- {1, 2}, Key <- 1..5, kMinSize <- 2, MaxElems <- 5,
          Node <- 1..4

\* What a reader of the containers gets: lists and sets by iteration, bindings of
\* the map, and the classes of nodes whose roots agree.  What is not run stays as it
\* is at first.
Abstract == INSTANCE Collections WITH Elem <- ListElems, List <- ListNames,
              SetName <- SetNames, Value <- {1, 2}, Key <- 1..5, Node <- 1..4,
              lists <- [l \in ListNames |-> IF part = "lists" THEN Data!Forward(l) ELSE << >>],
              sets <- [s \in SetNames |-> IF part = "sets" THEN ToSet(Data!Members(set[s])) ELSE {}],
              map <- IF part = "map" THEN {<<p.key, p.value>> : p \in ToSet(Data!Entries(map))} ELSE {},
              classes <- IF part = "disjoint" THEN Data!Classes ELSE {{n} : n \in 1..4}
-----------------------------------------------------------------------------
(* Registers.                                                              *)

\* Every row of A, SP, BP, 8 and 15, the high bytes, and registers before and
\* behind the general-purpose ones: RFLAGS and RIP.
SomeRegisters == {r + i : r \in {42, 58, 74, 90}, i \in {0, 4, 5, 8, 15}} \cup {106, 109, 41, 111}
Arch == INSTANCE Registers

\* The general-purpose registers have the numbers from that of AX to that of BH, which
\* are in five rows, and no other register has one of them.
ASSUME NamesAssumption ==
  /\ Native \subseteq (Arch!XED_REG_AX..Arch!XED_REG_BH) \cup OtherRegister
  /\ OtherRegister \subseteq Nat \ (Arch!XED_REG_AX..Arch!XED_REG_BH)
-----------------------------------------------------------------------------
(* Code of tools.                                                          *)

\* Operands in and around the argument registers.
Operand(kind, r) == [kind |-> kind, reg |-> r]
Operands == {Operand("imm", "none"), Operand("reg", "RAX"), Operand("mem", "RDX")}
              \cup {Operand("reg", r) : r \in {"RDI", "RSI"}}
              \cup {Operand("mem", r) : r \in {"RDI", "RSI"}}

\* Functions of none, two and six arguments; the last gets all argument registers
\* turned by one.
ArgumentsOf ==
  [zero |-> {<<>>},
   two |-> {<<a, b>> : a, b \in Operands},
   six |-> {<<Operand("reg", "RSI"), Operand("reg", "RDX"), Operand("reg", "RCX"),
              Operand("reg", "R8"), Operand("reg", "R9"), Operand("reg", "RDI")>>}]

Calls == INSTANCE ClientCalls

\* A function of a tool has as many arguments in all its calls, six at most.
ASSUME CallsAssumption ==
  /\ InlineFunctions \cap ContextFunctions = {} /\ "none" \notin InlineFunctions \cup ContextFunctions
  /\ \A f \in InlineFunctions : \E n \in 0..Len(Calls!ArgGPRs) :
       Arguments[f] \subseteq [1..n -> [kind : {"imm", "reg", "mem"}, reg : Calls!AllGPRs \cup {"none"}]]

Stmt(what, v) == [what |-> what, var |-> v]
TwoTexts == {<<Stmt("use", 0), Stmt("use", 1), Stmt("jump", 2)>>, <<Stmt("label", 2), Stmt("use", 1)>>}
Assembly == INSTANCE InlineAssembly WITH stage <- asm_stage

\* Variables %n are numbered, and a tool passes finitely many.
ASSUME AssemblyAssumption ==
  /\ RegVars \subseteq Nat /\ LabelVars \subseteq Nat
  /\ \A inputs \in Inputs : inputs \subseteq RegVars /\ IsFiniteSet(inputs)
  /\ \A t \in Texts : t \in Seq([what : {"use", "jump", "label"}, var : RegVars \cup LabelVars])
  /\ "none" \notin Scopes

\* No register is written like another token.
ASSUME OperandAssumption ==
  /\ Numbers \subseteq Nat
  /\ Regs \cap {"none", "num", "imm", "*", "+", "]"} = {}
-----------------------------------------------------------------------------
(* Instructions that may fault.                                            *)

Faulting == INSTANCE Exceptions WITH
              table <- exc_table, regs <- exc_regs, stack <- exc_stack, flags <- exc_flags,
              GPRs <- {"RAX", "RDI", "RSI"}, PCs <- 1..4, ErrorOffset <- 16
-----------------------------------------------------------------------------
(* Sessions: command lines over five options.                              *)

OptionNames == {"a", "s", "u", "i", "m"}
Word(form, name, val) == [form |-> form, name |-> name, value |-> val]

\* --a, --na, --a=x, --s=a, --s=[a a], --u=10, --u=0, --i=-1, --m=0x1a, -a
Words == {Word("bare", <<"a">>, << >>), Word("bare", <<"n", "a">>, << >>),
          Word("equals", <<"a">>, <<"x">>), Word("equals", <<"s">>, <<"a">>),
          Word("literal", <<"s">>, <<"a", " ", "a">>),
          Word("equals", <<"u">>, <<"1", "0">>), Word("equals", <<"u">>, <<"0">>),
          Word("equals", <<"i">>, <<"-", "1">>), Word("equals", <<"m">>, <<"0", "x", "1", "a">>),
          Word("stray", <<"-", "a">>, << >>)}

Render(w) == CASE w.form = "stray" -> w.name
               [] w.form = "bare" -> <<"-", "-">> \o w.name
               [] w.form = "equals" -> <<"-", "-">> \o w.name \o <<"=">> \o w.value
               [] OTHER -> <<"-", "-">> \o w.name \o <<"=", "[">> \o w.value \o <<"]">>

\* Behind the word `init' there is a blank; echo ends the line with a newline, which
\* is as good as one.
Rendered(l) == FlattenSeq([i \in DOMAIN l |-> <<" ">> \o Render(l[i])]) \o <<" ">>

\* Lines of up to two words: a value that is missing, empty, quoted or unreadable, an
\* option named twice, negated, or not at all.
SecondWords == {w \in Words : w.form \in {"literal", "stray"} \/ w.name = <<"n", "a">>
                                 \/ w.value \in {<<"x">>, <<"0">>}}
ManyLines == {<< >>} \cup {<<w>> : w \in Words} \cup {<<v, w>> : v \in Words, w \in SecondWords}
FewLines == {<< >>, <<Word("bare", <<"a">>, << >>), Word("bare", <<"s">>, << >>)>>}

Kernel == INSTANCE KernelSessions WITH
            list <- options, next <- next_option, table <- syscall_table, None <- "none",
            Constructors <- <<"a", "s", "u", "i", "m">>,
            OptionName <- [o \in OptionNames |-> <<o>>],
            AltName <- [o \in OptionNames |-> <<"n", o>>],
            OptionKind <- [o \in OptionNames |->
                             CASE o = "a" -> "bool" [] o = "s" -> "string" [] o = "u" -> "positive_uint"
                               [] o = "i" -> "int" [] OTHER -> "mask"],
            Default <- [o \in OptionNames |-> CASE o = "a" -> TRUE [] o = "s" -> <<"d">> [] OTHER -> 2],
            Text <- Rendered, MaxLength <- 24, MaxOptions <- 3
-----------------------------------------------------------------------------
\* A part starts with one state of the others.
SupportInit ==
  /\ part \in Parts
  /\ Data!ListsInit /\ Data!TinyInit /\ Data!DisjointInit
  /\ Arch!NamesInit /\ Arch!NumbersInit
  /\ Calls!Init /\ Assembly!Init
  /\ text \in (IF part = "operands" THEN Assembly!OperandTexts
               ELSE {CHOOSE t \in Assembly!OperandTexts : TRUE})
  /\ Assembly!OperandInit
  /\ \E a \in (IF part = "exceptions" THEN 1..4 ELSE {2}),
        S \in (IF part = "exceptions" THEN SUBSET (1..4) ELSE {{}}),
        i \in (IF part = "exceptions" THEN Faulting!Instructions ELSE {CHOOSE i \in Faulting!Instructions : TRUE}) :
       Faulting!Begin(a, S, i)
  /\ Kernel!Init

SupportNext ==
  \/ /\ part = "lists" /\ Data!ListsNext
     /\ UNCHANGED <<part, tinyVars, disjointVars, registerVars, toolCodeVars, exceptionVars, sessionVars>>
  \/ /\ part = "sets" /\ Data!SetsNext
     /\ UNCHANGED <<part, listVars, disjointVars, registerVars, toolCodeVars, exceptionVars, sessionVars>>
  \/ /\ part = "map" /\ Data!MapNext
     /\ UNCHANGED <<part, listVars, disjointVars, registerVars, toolCodeVars, exceptionVars, sessionVars>>
  \/ /\ part = "disjoint" /\ Data!DisjointNext
     /\ UNCHANGED <<part, listVars, tinyVars, registerVars, toolCodeVars, exceptionVars, sessionVars>>
  \/ /\ part = "names" /\ Arch!NamesNext
     /\ UNCHANGED <<part, containerVars, numberVars, toolCodeVars, exceptionVars, sessionVars>>
  \/ /\ part = "numbers" /\ Arch!NumbersNext
     /\ UNCHANGED <<part, containerVars, nameVars, toolCodeVars, exceptionVars, sessionVars>>
  \/ /\ part = "calls" /\ Calls!Next
     /\ UNCHANGED <<part, containerVars, registerVars, operandVars, assemblyVars, exceptionVars, sessionVars>>
  \/ /\ part = "operands" /\ Assembly!OperandNext
     /\ UNCHANGED <<part, containerVars, registerVars, callVars, assemblyVars, exceptionVars, sessionVars>>
  \/ /\ part = "assembly" /\ Assembly!Next
     /\ UNCHANGED <<part, containerVars, registerVars, callVars, operandVars, exceptionVars, sessionVars>>
  \/ /\ part = "exceptions" /\ Faulting!Next
     /\ UNCHANGED <<part, containerVars, registerVars, toolCodeVars, sessionVars>>
  \/ /\ part = "sessions" /\ Kernel!Next
     /\ UNCHANGED <<part, containerVars, registerVars, toolCodeVars, exceptionVars>>

\* A command that has been written to /dev/granary is carried out.
SupportSpec ==
  /\ SupportInit
  /\ [][SupportNext]_<<part, containerVars, registerVars, toolCodeVars, exceptionVars, sessionVars>>
  /\ WF_sessionVars(part = "sessions" /\ Kernel!CarryOut)
-----------------------------------------------------------------------------
\* Seen through their iterators and roots, the containers behave as sequences, sets,
\* a function and a partition: an operation changes what it names and nothing else.
\* Lists read the same from both ends, sizes count what iterators meet, and no union
\* loses the value of a class (list.h, tiny_*.h, disjoint_set.h).
ImplementsCollections ==
  /\ Abstract!Spec
  /\ [](part \in {"lists", "sets", "map", "disjoint"} => Data!BothWays /\ Data!SizesAgree /\ Data!ValuesKept)

\* Decoded registers are encoded again as they were, chosen ones in the width that was
\* asked for; and a chosen register is apart from all that the instruction names, and
\* none of R8 to R15 beside a high byte (arch/x86-64/register.cc).
RegistersNamed == part = "names" => Arch!NamesItsBytes /\ Arch!HomeFits

\* No two holders share the number of a virtual register, unless an assertion has
\* failed (trace.cc, register.cc).
NumbersApart == part = "numbers" => Arch!NumbersApart

\* Functions of tools find their arguments, and calls leave the application's state as
\* it was (arch/x86-64/call.cc, context.cc).
CallsTransparent == part = "calls" => Calls!ArgumentsArrive /\ Calls!StatePreserved

\* Memory operands are the addresses that their text says (0_compile_inline_assembly.cc).
AddressIsText == part = "operands" => Assembly!AddressIsText

\* Scopes live as long as they can be reached, and their variables are the same in all
\* their pieces (inline_assembly.cc, lir.cc, 0_compile_inline_assembly.cc).
ScopesSound == part = "assembly" => Assembly!ScopesHeld /\ Assembly!VariablesShared

\* An emulated instruction does what it does by itself, but for the rest of a narrow
\* read's destination, and a fault in it is recovered from where the kernel's tables
\* say, but for what Exceptions names (os/linux/arch/x86-64/exception.cc, exception_util.asm).
FaultsEmulated == part = "exceptions" => Faulting!EmulatesInstruction /\ Faulting!RecoversAtItsFixup

\* Options that the command line names are obeyed in every session, and negations where
\* no entry of an earlier line is in their way (granary/base/option.cc).
GivenIsObeyed == part = "sessions" => Kernel!GivenIsObeyed

\* System calls never enter code of a session that has ended (command.c, syscall.c).
SyscallsReachLiveCode == Kernel!SyscallsReachLiveCode

\* Options that are not on the command line are not found (granary/base/option.cc).
NotGivenNotFound == part = "sessions" => Kernel!NotGivenNotFound

\* Every initialization comes to an end (option.cc, init.cc).
InitEnds == Kernel!InitEnds
=============================================================================
