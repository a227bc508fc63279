---------------------------- MODULE ClientCalls -----------------------------
(***************************************************************************)
(* Calls from instrumented code to functions of tools.                     *)
(*                                                                         *)
(* An inline call (arch/x86-64/call.cc) puts its operands into argument    *)
(* registers and calls a wrapper that saves the other registers.  The      *)
(* wrapper is made once for a function, by Context::InlineCallback, and    *)
(* knows the number of arguments of that first call.  A context call       *)
(* (arch/x86-64/context.cc) saves all registers and passes a pointer to    *)
(* them, through which the tool may change what the application sees.      *)
(*                                                                         *)
(* A value is named for where it comes from.  The stack has its top first. *)
(* The build is the one for user space: in the kernel wrappers also turn   *)
(* interrupts off and change to a private stack.                           *)
(***************************************************************************)
EXTENDS Naturals, Sequences, SequencesExt, FiniteSets

CONSTANTS
  InlineFunctions,    \* functions of tools that are called inline
  ContextFunctions,   \* functions of tools that are given the machine context
  Arguments,          \* Arguments[f]: the lists of operands that f is called with
  Hooked              \* registers that a context function may change

VARIABLES
  inline_callbacks,   \* the wrappers made, by function
  context_callbacks,
  regs, flags, stack,
  slots,              \* spill slots of saved registers
  arg_regs,           \* the block's virtual registers for arguments
  code,               \* operations that are still to be executed
  call,               \* the call being executed
  before,             \* registers at its beginning, as changed by the tool since
  arrived             \* whether the tool found the arguments

vars == <<inline_callbacks, context_callbacks, regs, flags, stack, slots, arg_regs,
          code, call, before, arrived>>
-----------------------------------------------------------------------------
\* The order in which wrappers push registers, and that of arguments.
GPRs == <<"RAX", "RCX", "RDX", "RBX", "RBP", "RSI", "RDI", "R8", "R9",
          "R10", "R11", "R12", "R13", "R14", "R15">>
ArgGPRs == <<"RDI", "RSI", "RDX", "RCX", "R8", "R9">>
CalleeSaved == {"RBX", "RBP", "R12", "R13", "R14", "R15"}
AllGPRs == ToSet(GPRs)

App(r) == <<"app", r>>
Imm == <<"imm", "">>
Junk == <<"junk", "">>
NoValue == <<"none", "">>

\* Memory at an address, which has the name of the register that held it.
Deref(v) == <<"mem", v[2]>>

Op(op, reg, n) == [op |-> op, reg |-> reg, n |-> n]
Idle == [func |-> "none", args |-> <<>>]
-----------------------------------------------------------------------------
(* Wrappers.                                                               *)

Push(rs) == [i \in DOMAIN rs |-> Op("push", rs[i], 0)]
Pop(rs) == [i \in DOMAIN rs |-> Op("pop", rs[i], 0)]

\* A wrapper saves a register unless the call saves it as that of an argument.
Saves(r, num_args) == \A k \in DOMAIN ArgGPRs : ArgGPRs[k] = r => k > num_args

\* The registers that it saves, in their order.
Saved(num_args) ==
  LET places == {i \in DOMAIN GPRs : Saves(GPRs[i], num_args)}
      Place(k) == CHOOSE i \in places : Cardinality({j \in places : j < i}) = k - 1
  IN  [k \in 1..Cardinality(places) |-> GPRs[Place(k)]]

GenerateInlineCallCode(num_args) ==
  LET saved == Saved(num_args)
  IN  <<Op("pushfq", "", 0)>> \o Push(saved) \o <<Op("client", "", 0)>>
        \o Pop(Reverse(saved)) \o <<Op("popfq", "", 0), Op("ret", "", 0)>>

\* MachineContext has the registers in the order that pushing leaves on the stack.
MachineContext == Reverse(GPRs)

GenerateContextCallCode ==
  <<Op("pushfq", "", 0)>> \o Push(GPRs) \o <<Op("context", "", 0)>>
    \o Pop(MachineContext) \o <<Op("popfq", "", 0), Op("ret", "", 0)>>
-----------------------------------------------------------------------------
(* Calls.                                                                  *)

\* Mistake: operands are moved to the argument registers without the detour.
CallMovingDirectly(args) ==
  LET n == Len(args)
      Each(op) == [k \in 1..n |-> Op(op, ArgGPRs[k], k)]
      Direct(k) == <<Op("copy", ArgGPRs[k], k), Op("move", ArgGPRs[k], k)>>
  IN  Each("save") \o FlattenSeq([k \in 1..n |-> Direct(k)])
        \o <<Op("call", "", 0)>> \o Reverse(Each("restore"))

\* ExtendFragmentWithInlineCall: all operands are copied before any is moved.
InlineCallCode(args) ==
  LET Each(op) == [k \in DOMAIN args |-> Op(op, ArgGPRs[k], k)]
  IN  Each("save") \o Each("copy") \o Each("move") \o <<Op("call", "", 0)>> \o Reverse(Each("restore"))

\* InlineCallback: the wrapper of the first call serves all later ones.
InlineCall(f) ==
  /\ call = Idle
  /\ \E args \in Arguments[f] :
       /\ inline_callbacks' = IF inline_callbacks[f] # <<>> THEN inline_callbacks
                              ELSE [inline_callbacks EXCEPT ![f] = GenerateInlineCallCode(Len(args))]
       /\ code' = InlineCallCode(args)
       /\ call' = [func |-> f, args |-> args]
  /\ before' = regs
  /\ UNCHANGED <<context_callbacks, regs, flags, stack, slots, arg_regs, arrived>>

\* CreateContextCallFragment.
ContextCall(f) ==
  /\ call = Idle
  /\ context_callbacks' = IF context_callbacks[f] # <<>> THEN context_callbacks
                          ELSE [context_callbacks EXCEPT ![f] = GenerateContextCallCode]
  /\ code' = <<Op("call", "", 0)>>
  /\ call' = [func |-> f, args |-> <<>>]
  /\ before' = regs
  /\ UNCHANGED <<inline_callbacks, regs, flags, stack, slots, arg_regs, arrived>>

\* CopyOperand: what an operand is worth where it is evaluated.
OperandValue(arg, rs) == CASE arg.kind = "imm" -> Imm
                           [] arg.kind = "reg" -> rs[arg.reg]
                           [] arg.kind = "mem" -> Deref(rs[arg.reg])
-----------------------------------------------------------------------------
(* Execution.                                                              *)

At(op) == code # <<>> /\ Head(code).op = op
Current == Head(code)
Done == code' = Tail(code)
Tables == <<inline_callbacks, context_callbacks, call>>

SaveRestoreRegister ==
  /\ At("save") \/ At("restore")
  /\ IF Current.op = "save"
     THEN slots' = [slots EXCEPT ![Current.reg] = regs[Current.reg]] /\ regs' = regs
     ELSE regs' = [regs EXCEPT ![Current.reg] = slots[Current.reg]] /\ slots' = slots
  /\ Done
  /\ UNCHANGED <<Tables, flags, stack, arg_regs, before, arrived>>

CopyOperand ==
  /\ At("copy")
  /\ arg_regs' = [arg_regs EXCEPT ![Current.n] = OperandValue(call.args[Current.n], regs)]
  /\ Done
  /\ UNCHANGED <<Tables, regs, flags, stack, slots, before, arrived>>

MoveArg ==
  /\ At("move")
  /\ regs' = [regs EXCEPT ![Current.reg] = arg_regs[Current.n]]
  /\ Done
  /\ UNCHANGED <<Tables, flags, stack, slots, arg_regs, before, arrived>>

CallWrapper ==
  /\ At("call")
  /\ code' = (IF call.func \in InlineFunctions THEN inline_callbacks[call.func]
                                               ELSE context_callbacks[call.func]) \o Tail(code)
  /\ stack' = <<<<"return", "">>>> \o stack
  /\ UNCHANGED <<Tables, regs, flags, slots, arg_regs, before, arrived>>

PushRegister ==
  /\ At("push") \/ At("pushfq")
  /\ stack' = <<IF Current.op = "push" THEN regs[Current.reg] ELSE flags>> \o stack
  /\ Done
  /\ UNCHANGED <<Tables, regs, flags, slots, arg_regs, before, arrived>>

PopRegister ==
  /\ At("pop") \/ At("popfq") \/ At("ret")
  /\ regs' = IF Current.op = "pop" THEN [regs EXCEPT ![Current.reg] = Head(stack)] ELSE regs
  /\ flags' = IF Current.op = "popfq" THEN Head(stack) ELSE flags
  /\ stack' = Tail(stack)
  /\ Done
  /\ UNCHANGED <<Tables, slots, arg_regs, before, arrived>>

\* A compiled function keeps the registers that it has to, and no others.
Clobber(rs) == [r \in AllGPRs |-> IF r \in CalleeSaved THEN rs[r] ELSE Junk]

RunInlineFunction ==
  /\ At("client")
  /\ arrived' = \A k \in DOMAIN call.args :
                  regs[ArgGPRs[k]] = OperandValue(call.args[k], before)
  /\ regs' = Clobber(regs)
  /\ flags' = Junk
  /\ Done
  /\ UNCHANGED <<Tables, stack, slots, arg_regs, before>>

\* The context is on the top of the stack; the tool may change a field of it.
RunContextFunction ==
  /\ At("context")
  /\ arrived' = \A k \in DOMAIN MachineContext : stack[k] = before[MachineContext[k]]
  /\ \/ UNCHANGED <<stack, before>>
     \/ \E k \in DOMAIN MachineContext :
          /\ MachineContext[k] \in Hooked
          /\ stack' = [stack EXCEPT ![k] = <<"hook", MachineContext[k]>>]
          /\ before' = [before EXCEPT ![MachineContext[k]] = <<"hook", MachineContext[k]>>]
  /\ regs' = Clobber(regs)
  /\ flags' = Junk
  /\ Done
  /\ UNCHANGED <<Tables, slots, arg_regs>>

\* The application goes on; registers that hold nothing any more are dropped.
Return ==
  /\ call # Idle /\ code = <<>>
  /\ call' = Idle
  /\ slots' = [r \in AllGPRs |-> NoValue]
  /\ arg_regs' = [k \in DOMAIN ArgGPRs |-> NoValue]
  /\ UNCHANGED <<inline_callbacks, context_callbacks, regs, flags, stack, code, before, arrived>>

Init ==
  /\ inline_callbacks = [f \in InlineFunctions |-> <<>>]
  /\ context_callbacks = [f \in ContextFunctions |-> <<>>]
  /\ regs = [r \in AllGPRs |-> App(r)]
  /\ flags = App("flags")
  /\ stack = <<App("stack")>>
  /\ slots = [r \in AllGPRs |-> NoValue]
  /\ arg_regs = [k \in DOMAIN ArgGPRs |-> NoValue]
  /\ code = <<>>
  /\ call = Idle
  /\ before = regs
  /\ arrived = TRUE

Next ==
  \/ \E f \in InlineFunctions : InlineCall(f)
  \/ \E f \in ContextFunctions : ContextCall(f)
  \/ SaveRestoreRegister \/ CopyOperand \/ MoveArg \/ CallWrapper
  \/ PushRegister \/ PopRegister \/ RunInlineFunction \/ RunContextFunction \/ Return

Spec == Init /\ [][Next]_vars
-----------------------------------------------------------------------------
\* A tool's function finds the values that its operands had where the call stands,
\* also when they name the argument registers, and a context function the registers
\* of the application in the fields of that name (call.cc, context.cc, context.h).
ArgumentsArrive == arrived

\* After a call, registers, flags and stack are those before it, as far as the tool has
\* not changed them through the context: no register is left unsaved between the call
\* and the wrapper (call.cc, context.cc).
StatePreserved ==
  code = <<>> => regs = before /\ flags = App("flags") /\ stack = <<App("stack")>>
=============================================================================
