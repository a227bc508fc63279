--------------------------- MODULE InlineAssembly ---------------------------
(***************************************************************************)
(* Inline assembly of tools: scopes, the pieces of text that share one,    *)
(* and their compilation (lir.cc, inline_assembly.cc, refcount.h and both  *)
(* 0_compile_inline_assembly.cc).                                          *)
(*                                                                         *)
(* A tool makes a scope and puts pieces of text around instructions of a   *)
(* block, as annotations.  The scope outlives the tool's handle until the  *)
(* last of its pieces is compiled or thrown away.  A variable %n of the    *)
(* scope is one register or one label in all pieces.                       *)
(***************************************************************************)
EXTENDS Naturals, Sequences, SequencesExt, FiniteSets

CONSTANTS
  Scopes,
  RegVars, LabelVars,   \* variables used as registers, and as labels
  Inputs,               \* sets of register variables that a tool passes to a scope
  Texts,                \* pieces of text: sequences of statements
  MaxPieces             \* bound on the pieces of a block

VARIABLES
  scopes,       \* what is in the memory of each scope
  handle,       \* scopes that the tool can still use
  given,        \* registers that the tool was given for variables
  list,         \* the block: annotations and instructions, in order
  stage,        \* "tools", "compile" or "done"
  parsing,      \* what is left of the piece being compiled, and its scope
  next_vr       \* virtual registers and labels made so far

vars == <<scopes, handle, given, list, stage, parsing, next_vr>>

Vars == RegVars \cup LabelVars
NotInitialized == 0

Fresh == [alive |-> FALSE, count |-> 0, var |-> [v \in Vars |-> NotInitialized]]
Piece(s, text) == [kind |-> "asm", scope |-> s, text |-> text]
Instruction(s, stmt, target) == [kind |-> "instr", scope |-> s, stmt |-> stmt, target |-> target]
AppInstruction == [kind |-> "app"]
NotParsing == [scope |-> "none", rest |-> <<>>]

Pieces == {i \in DOMAIN list : list[i].kind = "asm"}
PiecesOf(s) == {i \in Pieces : list[i].scope = s}
-----------------------------------------------------------------------------
(* Tools.                                                                  *)

\* InlineAssembly::InlineAssembly, with some variables that have the tool's registers.
NewScope(s, inputs) ==
  /\ stage = "tools" /\ s \notin handle /\ ~scopes[s].alive
  /\ given[s] = [v \in RegVars |-> NotInitialized]
  /\ LET Passed(v) == IF v \in inputs THEN next_vr + Cardinality({w \in inputs : w <= v}) ELSE NotInitialized
     IN  /\ scopes' = [scopes EXCEPT ![s] = [alive |-> TRUE, count |-> 0, var |-> [v \in Vars |-> Passed(v)]]]
         /\ given' = [given EXCEPT ![s] = [v \in RegVars |-> Passed(v)]]
  /\ next_vr' = next_vr + Cardinality(inputs)
  /\ handle' = handle \cup {s}
  /\ UNCHANGED <<list, stage, parsing>>

HasLabel(text) == \E k \in DOMAIN text : text[k].what = "label"

\* MakeInlineAssembly, before or after an instruction of the block.  A label stands once.
Inline(s, text, i) ==
  /\ stage = "tools" /\ s \in handle
  /\ Cardinality(Pieces) < MaxPieces
  /\ HasLabel(text) => \A j \in PiecesOf(s) : ~HasLabel(list[j].text)
  /\ list' = InsertAt(list, i, Piece(s, text))
  /\ scopes' = [scopes EXCEPT ![s].count = @ + 2]
  /\ UNCHANGED <<handle, given, stage, parsing, next_vr>>

\* InlineAssembly::Register: the register of a variable, before its text is read.
Register(s, v) ==
  /\ stage = "tools" /\ s \in handle
  /\ LET new == scopes[s].var[v] = NotInitialized
         r == IF new THEN next_vr + 1 ELSE scopes[s].var[v]
     IN  /\ scopes' = [scopes EXCEPT ![s].var[v] = r]
         /\ given' = [given EXCEPT ![s][v] = r]
         /\ next_vr' = IF new THEN r ELSE next_vr
  /\ UNCHANGED <<handle, list, stage, parsing>>

CanDestroy(s) == scopes[s].count = 0

\* Mistake: the scope goes away with the tool's handle.
DestroyWithHandle(s) ==
  /\ stage = "tools" /\ s \in handle
  /\ handle' = handle \ {s}
  /\ scopes' = [scopes EXCEPT ![s].alive = FALSE]
  /\ UNCHANGED <<given, list, stage, parsing, next_vr>>

\* InlineAssembly::~InlineAssembly.
DestroyHandle(s) ==
  /\ stage = "tools" /\ s \in handle
  /\ handle' = handle \ {s}
  /\ scopes' = IF CanDestroy(s) THEN [scopes EXCEPT ![s].alive = FALSE] ELSE scopes
  /\ UNCHANGED <<given, list, stage, parsing, next_vr>>

\* ~InlineAssemblyBlock, on a piece of s.
Released(s) ==
  [scopes EXCEPT ![s].count = @ - 2, ![s].alive = @ /\ scopes[s].count - 2 # 0]

\* A later tool, or the end of the trace, unlinks a piece (~AnnotationInstruction).
\* Handles are local to the function that inlines, so the handle is gone; the code relies
\* on it: the last piece takes the scope with it, whether or not there is a handle.
Unlink(i) ==
  /\ stage = "tools" /\ i \in Pieces /\ list[i].scope \notin handle
  /\ scopes' = Released(list[i].scope)
  /\ list' = RemoveAt(list, i)
  /\ UNCHANGED <<handle, given, stage, parsing, next_vr>>
-----------------------------------------------------------------------------
(* Compilation, in the order of the block.                                 *)

StartCompile ==
  /\ stage = "tools" /\ handle = {}
  /\ stage' = "compile"
  /\ UNCHANGED <<scopes, handle, given, list, parsing, next_vr>>

FirstPiece == CHOOSE i \in Pieces : \A j \in Pieces : i <= j

CompileInlineAssemblyBlock ==
  /\ stage = "compile" /\ parsing = NotParsing /\ Pieces # {}
  /\ parsing' = [scope |-> list[FirstPiece].scope, rest |-> list[FirstPiece].text]
  /\ UNCHANGED <<scopes, handle, given, list, stage, next_vr>>

\* InitRegVar, InitLabelVar: what a variable is, made when it is first met.
InitVar(s, v) ==
  IF scopes[s].var[v] # NotInitialized THEN [var |-> scopes[s].var[v], next |-> next_vr]
  ELSE [var |-> next_vr + 1, next |-> next_vr + 1]

\* ParseInstruction: the instruction goes before the annotation.
ParseInstruction ==
  /\ parsing # NotParsing /\ parsing.rest # <<>>
  /\ LET s == parsing.scope
         stmt == Head(parsing.rest)
         init == InitVar(s, stmt.var)
     IN  /\ scopes' = [scopes EXCEPT ![s].var[stmt.var] = init.var]
         /\ next_vr' = init.next
         /\ list' = InsertAt(list, FirstPiece, Instruction(s, stmt, init.var))
  /\ parsing' = [parsing EXCEPT !.rest = Tail(@)]
  /\ UNCHANGED <<handle, given, stage>>

\* CompileInlineAssembly: the block of text is deleted and its annotation unlinked.
DeletePiece ==
  /\ parsing # NotParsing /\ parsing.rest = <<>>
  /\ scopes' = Released(parsing.scope)
  /\ list' = RemoveAt(list, FirstPiece)
  /\ parsing' = NotParsing
  /\ UNCHANGED <<handle, given, stage, next_vr>>

EndCompile ==
  /\ stage = "compile" /\ Pieces = {}
  /\ stage' = "done"
  /\ UNCHANGED <<scopes, handle, given, list, parsing, next_vr>>

Init ==
  /\ scopes = [s \in Scopes |-> Fresh]
  /\ handle = {}
  /\ given = [s \in Scopes |-> [v \in RegVars |-> NotInitialized]]
  /\ list = <<AppInstruction>>
  /\ stage = "tools"
  /\ parsing = NotParsing
  /\ next_vr = 0

Next ==
  \/ \E s \in Scopes :
       \/ \E inputs \in Inputs : NewScope(s, inputs)
       \/ DestroyHandle(s)
       \/ \E v \in RegVars : Register(s, v)
       \/ \E text \in Texts, i \in 1..Len(list) + 1 : Inline(s, text, i)
  \/ \E i \in DOMAIN list : Unlink(i)
  \/ StartCompile \/ CompileInlineAssemblyBlock \/ ParseInstruction \/ DeletePiece \/ EndCompile

Spec == Init /\ [][Next]_vars
-----------------------------------------------------------------------------
\* A scope is in memory as long as a tool or a piece of text can reach it, and no longer
\* (inline_assembly.cc, lir.cc).
ScopesHeld ==
  \A s \in Scopes : scopes[s].alive <=> (s \in handle \/ PiecesOf(s) # {})

Compiled == {i \in DOMAIN list : list[i].kind = "instr"}

\* In all pieces of a scope, wherever they stand and in whichever order they are read, a
\* variable is the same register or label, the one that the tool was given for it, and
\* different variables are different ones (0_compile_inline_assembly.cc).
VariablesShared ==
  /\ \A i, j \in Compiled :
       (list[i].target = list[j].target) <=>
         (list[i].scope = list[j].scope /\ list[i].stmt.var = list[j].stmt.var)
  /\ \A i \in Compiled, s \in Scopes, v \in RegVars :
       given[s][v] # NotInitialized =>
         ((list[i].target = given[s][v]) <=> (list[i].scope = s /\ list[i].stmt.var = v))
-----------------------------------------------------------------------------
(* The parser of memory operands in inline assembly, such as               *)
(* [%0 + RAX * 4 + %2] (InlineAssemblyParser::ParseCompoundMemoryOperand   *)
(* in arch/x86-64/assemble/0_compile_inline_assembly.cc).                  *)

CONSTANTS
  Regs,       \* registers, written as variables or by their names
  Numbers     \* literal displacements and pointers

VARIABLES
  text,       \* what the operand says
  tokens,     \* what is left to read of it
  state, reg,
  op          \* the operand being built

operandVars == <<text, tokens, state, reg, op>>

NoReg == "none"
-----------------------------------------------------------------------------
(* Texts: base, index, scale (0: not written) and displacement ("none", a  *)
(* literal, or a variable that is an immediate).                           *)

Scales == {1, 2, 4, 8}
NoDisp == [t |-> "none", v |-> 0]
Literal(n) == [t |-> "num", v |-> n]
Immediate(n) == [t |-> "imm", v |-> n]
RegToken(r) == [t |-> r, v |-> 0]
Sign(c) == [t |-> c, v |-> 0]
Close == Sign("]")

Disps == {NoDisp} \cup {Literal(n) : n \in Numbers} \cup {Immediate(n) : n \in Numbers}

OperandText(kind, base, index, scale, disp) ==
  [kind |-> kind, base |-> base, index |-> index, scale |-> scale, disp |-> disp]

OperandTexts ==
  {OperandText("mem", b, NoReg, 0, d) : b \in Regs, d \in Disps}
    \cup {OperandText("mem", b, i, s, d) : b \in Regs, i \in Regs, s \in Scales \cup {0}, d \in Disps}
    \cup {OperandText("mem", NoReg, i, s, d) : i \in Regs, s \in Scales, d \in Disps}
    \cup {OperandText("ptr", NoReg, NoReg, 0, Literal(n)) : n \in Numbers}

Written(x) ==
  LET base == IF x.base = NoReg THEN <<>> ELSE <<RegToken(x.base)>>
      scale == IF x.scale = 0 THEN <<>> ELSE <<Sign("*"), Literal(x.scale)>>
      index == IF x.index = NoReg THEN <<>> ELSE <<RegToken(x.index)>> \o scale
      disp == IF x.disp = NoDisp THEN <<>> ELSE <<x.disp>>
      Plus(p, q) == IF p = <<>> \/ q = <<>> THEN p \o q ELSE p \o <<Sign("+")>> \o q
  IN  Plus(Plus(base, index), disp) \o <<Close>>
-----------------------------------------------------------------------------
(* The parser.                                                             *)

Peek == Head(tokens).t
PeekNumber == Peek = "num"
PeekReg == Peek \in Regs
EmptyOperand == [type |-> "none", base |-> NoReg, index |-> NoReg, scale |-> 0, disp |-> 0, addr |-> 0, is_compound |-> FALSE]

ParsePointerOperand ==
  /\ state = "Start" /\ PeekNumber
  /\ op' = [op EXCEPT !.type = "ptr", !.addr = Head(tokens).v]
  /\ tokens' = Tail(tokens)
  /\ state' = "Parsed"
  /\ UNCHANGED <<text, reg>>

BeginRegs ==
  /\ state = "Start" /\ ~PeekNumber
  /\ state' = "ParseReg"
  /\ UNCHANGED <<text, tokens, reg, op>>

\* Reading a register; what follows tells whether it is the base.
ParseReg ==
  /\ state = "ParseReg"
  /\ LET next == Tail(tokens) IN
       /\ reg' = Peek
       /\ IF Head(next).t = "*"
          THEN state' = "InterpretRegAsIndex" /\ tokens' = next /\ op' = op
          ELSE /\ op' = [op EXCEPT !.base = Peek]
               /\ IF Head(next).t = "+"
                  THEN tokens' = Tail(next) /\ state' = "TryParseIndexOrDisp"
                  ELSE tokens' = next /\ state' = "Done"
  /\ text' = text

\* The register is the index, of scale 1 unless one follows.
AsIndex(r, next) ==
  /\ op' = [op EXCEPT !.index = r, !.scale = 1]
  /\ tokens' = IF Head(next) = Close THEN next ELSE Tail(next)
  /\ state' = CASE Head(next).t = "*" -> "ParseScale"
                [] Head(next).t = "+" -> "ParseDisp"
                [] OTHER -> "Done"

InterpretRegAsIndex ==
  /\ state = "InterpretRegAsIndex"
  /\ AsIndex(reg, tokens)
  /\ UNCHANGED <<text, reg>>

TryParseIndexOrDisp ==
  /\ state = "TryParseIndexOrDisp"
  /\ \/ PeekNumber /\ state' = "ParseDisp" /\ UNCHANGED <<tokens, reg, op>>
     \/ PeekReg /\ reg' = Peek /\ AsIndex(Peek, Tail(tokens))
     \/ /\ Peek = "imm"
        /\ op' = [op EXCEPT !.disp = Head(tokens).v]
        /\ tokens' = Tail(tokens) /\ state' = "Done" /\ reg' = reg
  /\ text' = text

ParseScale ==
  /\ state = "ParseScale"
  /\ op' = [op EXCEPT !.scale = Head(tokens).v]
  /\ IF tokens[2].t = "+" THEN tokens' = Tail(Tail(tokens)) /\ state' = "ParseDisp"
                          ELSE tokens' = Tail(tokens) /\ state' = "Done"
  /\ UNCHANGED <<text, reg>>

ParseDisp ==
  /\ state = "ParseDisp"
  /\ op' = [op EXCEPT !.disp = Head(tokens).v]
  /\ tokens' = Tail(tokens) /\ state' = "Done"
  /\ UNCHANGED <<text, reg>>

\* Mistake: a scaled index alone is taken for a simple register.
CompoundUnlessAlone(o) ==
  o.disp # 0 \/ (o.base # NoReg /\ o.index # NoReg)

IsCompound(o) == o.disp # 0 \/ 1 < o.scale \/ (o.base # NoReg /\ o.index # NoReg)

\* An index alone becomes the base when nothing is added to it.
Canonical(o) == IF IsCompound(o) \/ o.index = NoReg THEN o
                ELSE [o EXCEPT !.base = o.index, !.index = NoReg, !.scale = 0]

FinishOperand ==
  /\ state = "Done"
  /\ op' = [Canonical(op) EXCEPT !.type = "mem", !.is_compound = IsCompound(op)]
  /\ state' = "Parsed"
  /\ UNCHANGED <<text, tokens, reg>>

OperandInit ==
  /\ text \in OperandTexts
  /\ tokens = Written(text)
  /\ state = "Start" /\ reg = NoReg /\ op = EmptyOperand

OperandNext == ParsePointerOperand \/ BeginRegs \/ ParseReg \/ InterpretRegAsIndex \/ TryParseIndexOrDisp
          \/ ParseScale \/ ParseDisp \/ FinishOperand

OperandSpec == OperandInit /\ [][OperandNext]_operandVars
-----------------------------------------------------------------------------
\* How often a register is added, in the text and by the operand: one that is not
\* compound is its base register and no more.
Weight(r, base, index, scale) == (IF base = r THEN 1 ELSE 0) + (IF index = r THEN scale ELSE 0)

\* The parsed operand is the address that the text says, for registers in any place,
\* and the whole text is read (arch/x86-64/assemble/0_compile_inline_assembly.cc).
AddressIsText ==
  state = "Parsed" =>
    /\ tokens = <<Close>>
    /\ op.type = text.kind
    /\ op.type = "ptr" => op.addr = text.disp.v
    /\ op.type = "mem" =>
         /\ op.disp = text.disp.v
         /\ \A r \in Regs :
              Weight(r, text.base, text.index, IF text.scale = 0 THEN 1 ELSE text.scale) =
                IF op.is_compound THEN Weight(r, op.base, op.index, op.scale)
                                  ELSE Weight(r, op.base, NoReg, 0)
=============================================================================
