--------------------------- MODULE KernelSessions ---------------------------
(***************************************************************************)
(* Granary as a kernel module (os/linux/kernel/module/command.c, entry.c,  *)
(* syscall.c; granary/init.cc, exit.cc).  Commands that are written to     *)
(* /dev/granary, one at a time, initialize Granary with options, put the   *)
(* translated system calls into the kernel's table, take them out again,   *)
(* and end Granary: any number of times, without reloading the module.     *)
(*                                                                         *)
(* Command-line options (granary/base/option.cc, DeFormat of string.cc):   *)
(* one buffer holds the option string; it is cut into names and values in  *)
(* place, and two tables point into it.  Registered options are linked in  *)
(* a list and look themselves up in the tables.  Neither the buffer, the   *)
(* tables, the list nor the variables behind the options are reset when    *)
(* Granary is initialized again.                                           *)
(***************************************************************************)
EXTENDS Integers, Sequences, SequencesExt

CONSTANTS
  Constructors,   \* the registered options, in the order of .init_array
  OptionName,     \* their names, as sequences of characters
  AltName,        \* the name of a Boolean option's negation, no_...
  OptionKind,     \* "bool", "string", "int", "positive_uint" or "mask"
  Default,        \* the initial values of the variables behind the options
  MaxLength,      \* MAX_OPTIONS_LENGTH
  MaxOptions,     \* MAX_NUM_OPTIONS
  None

VARIABLES
  string,         \* OPTION_STRING
  length,         \* OPTION_STRING_LENGTH
  names, values,  \* OPTION_NAMES, OPTION_VALUES: places in the string, or 0
  list, next,     \* OPTIONS, and the links of the options
  initialized,    \* OPTIONS_INITIALIZED
  flag            \* the variables behind the options

optionVars == <<string, length, names, values, list, next, initialized, flag>>

Option == ToSet(Constructors)
NUL == "nul"

\* The place of a string that is always empty.
EmptyString == MaxLength + 1

OptionsInit ==
  /\ string = [i \in 1..EmptyString |-> NUL] /\ length = 0
  /\ names = [i \in 1..MaxOptions |-> 0] /\ values = [i \in 1..MaxOptions |-> 0]
  /\ list = None /\ next = [o \in Option |-> None] /\ initialized = FALSE
  /\ flag = Default
-----------------------------------------------------------------------------
(* The option string.                                                      *)

IsValidOptionChar(ch) == ch \notin {"-", "=", "[", "]", " ", "0", "1", NUL}
IsValidValueChar(ch) == ch \notin {"[", "]", " ", NUL}

\* CopyStringIntoOptions and TerminateOptionString.
Copied(raw) == [i \in 1..EmptyString |-> CASE i <= Len(raw) -> raw[i]
                                           [] i = Len(raw) + 1 -> NUL
                                           [] OTHER -> string[i]]

\* Mutant: an option without a value keeps the one that is in the table.
NewOptionKeepsValue(p, i) ==
  [p EXCEPT !.state = "in_option", !.names[p.n + 1] = i + 1, !.n = @ + 1]

\* A name begins behind the second dash; at first it has an empty value.
NewOption(p, i) ==
  [p EXCEPT !.state = "in_option", !.names[p.n + 1] = i + 1, !.values[p.n + 1] = EmptyString,
            !.n = @ + 1]

\* One turn of ProcessOptionString's loop.
ProcessChar(p, i) ==
  LET ch == p.string[i]
      Go(state) == [p EXCEPT !.state = state]
      Erase(q) == [q EXCEPT !.string[i] = NUL]
      Value(q, place) == [q EXCEPT !.values[p.n] = place]
  IN  CASE p.state = "in_option" /\ ~IsValidOptionChar(ch) ->
             Erase(Go(IF ch = "=" THEN "seen_equal" ELSE "elsewhere"))
        [] p.state = "in_value" /\ ~IsValidValueChar(ch) -> Erase(Go("elsewhere"))
        [] p.state = "in_literal_value" /\ ch = "]" -> Erase(Go("elsewhere"))
        [] p.state = "seen_equal" ->
             (CASE ch = "[" -> Value(Erase(Go("in_literal_value")), i + 1)
                [] IsValidValueChar(ch) -> Value(Go("in_value"), i)
                [] OTHER -> Go("elsewhere"))
        [] p.state = "seen_dash" ->
             Erase(IF ch = "-" THEN NewOption(p, i) ELSE Go("elsewhere"))
        [] p.state = "elsewhere" -> Erase(Go(IF ch = "-" THEN "seen_dash" ELSE "elsewhere"))
        [] OTHER -> p

ProcessOptionString(raw) ==
  FoldLeft(ProcessChar,
           [state |-> "elsewhere", string |-> Copied(raw), names |-> names, values |-> values, n |-> 0],
           [i \in 1..Len(raw) |-> i])
-----------------------------------------------------------------------------
(* Looking options up.                                                     *)

\* What a pointer into the string points to.
TextAt(place) ==
  LET end == CHOOSE j \in place..EmptyString : string[j] = NUL /\ \A i \in place..(j - 1) : string[i] # NUL
  IN  SubSeq(string, place, end - 1)

\* The null pointer; no text contains the character.
NoText == <<NUL>>

FindValueForName(name) ==
  LET Matches(i) == names[i] # 0 /\ TextAt(names[i]) = name
      First(i) == Matches(i) /\ \A j \in 1..(i - 1) : names[j] # 0 /\ ~Matches(j)
  IN  IF \E i \in 1..MaxOptions : First(i) /\ values[i] # 0
      THEN TextAt(values[CHOOSE i \in 1..MaxOptions : First(i)]) ELSE NoText

Digit == [c \in {"0", "1", "a"} |-> CASE c = "0" -> 0 [] c = "1" -> 1 [] OTHER -> 10]

\* DeFormatGenericInt: the digits at the beginning of a text, as a set with a number in
\* it, or none if there are no digits.
Number(text, digits, base) ==
  LET many == CHOOSE n \in 0..Len(text) :
                /\ \A i \in 1..n : text[i] \in digits
                /\ n < Len(text) => text[n + 1] \notin digits
  IN  IF many = 0 THEN {} ELSE {FoldLeft(LAMBDA v, c : base * v + Digit[c], 0, SubSeq(text, 1, many))}

Decimal(text) == Number(text, {"0", "1"}, 10)
Hexadecimal(text) == Number(text, {"0", "1", "a"}, 16)

\* ParseStringOption, ParseBoolOption and so on: the new value, if there is one.
Parse(kind, text) ==
  CASE kind = "string" -> {text}
    [] kind = "bool" -> IF text = << >> \/ Head(text) \in {"1", "y", "t"} THEN {TRUE}
                        ELSE IF Head(text) \in {"0", "n", "f"} THEN {FALSE} ELSE {}
    [] kind = "int" -> IF text # << >> /\ Head(text) = "-"
                       THEN {0 - n : n \in Decimal(Tail(text))} \cup
                            (IF Decimal(Tail(text)) = {} THEN {0} ELSE {})
                       ELSE Decimal(text)
    [] kind = "positive_uint" -> Decimal(text) \ {0}
    [] OTHER -> IF Len(text) > 2 /\ SubSeq(text, 1, 2) = <<"0", "x">> /\ Hexadecimal(SubSeq(text, 3, Len(text))) # {}
                THEN Hexadecimal(SubSeq(text, 3, Len(text))) ELSE Hexadecimal(text)

\* option->parse.
ParseOption(o) ==
  LET text == FindValueForName(OptionName[o])
  IN  IF text # NoText THEN Parse(OptionKind[o], text)
      ELSE IF OptionKind[o] = "bool" /\ FindValueForName(AltName[o]) # NoText THEN {FALSE} ELSE {}

\* A string flag points into the buffer in the code; here it is the text at the time.
Assigned(o) ==
  LET new == ParseOption(o) IN IF new = {} THEN flag[o] ELSE CHOOSE v \in new : TRUE
-----------------------------------------------------------------------------
(* Registration and initialization.                                        *)

\* AddOption: its link.  The last option of the list has no successor either.
AddOption(r, o) ==
  IF r.next[o] = None THEN [next |-> [r.next EXCEPT ![o] = r.list], list |-> o] ELSE r

\* The constructors of all options.
RunConstructors ==
  LET after == FoldLeft(AddOption, [next |-> next, list |-> list], Constructors)
  IN  /\ next' = after.next /\ list' = after.list
      /\ flag' = [o \in Option |-> IF initialized THEN Assigned(o) ELSE flag[o]]
      /\ UNCHANGED <<string, length, names, values, initialized>>

\* InitOptions, up to the options.
ReadOptions(raw) ==
  \E p \in {ProcessOptionString(raw)} :
      /\ Len(raw) < MaxLength
      /\ string' = p.string /\ length' = Len(raw) /\ names' = p.names /\ values' = p.values
      /\ initialized' = TRUE
      /\ UNCHANGED <<list, next, flag>>

\* One turn of ProcessPendingOptions' loop.
ProcessPendingOption(o) ==
  /\ flag' = [flag EXCEPT ![o] = Assigned(o)]
  /\ UNCHANGED <<string, length, names, values, list, next, initialized>>
-----------------------------------------------------------------------------
(* Sessions.                                                               *)

CONSTANTS
  Lines,          \* the command lines, as sequences of words
  Text(_),        \* a line as a sequence of characters
  Syscalls,       \* the number of system calls, __NR_syscall_max
  MaxSessions     \* bound on the number of sessions

VARIABLES
  donePreInit,    \* gDonePreInit
  seenInit, seenAttach,
  command,        \* what the command listener is doing
  option,         \* where ProcessPendingOptions is in the list
  entry,          \* how many entries of the table have been copied
  line,           \* the command line of the session
  session,        \* the number of sessions so far
  alive,          \* whether the session's context and code cache exist
  inst,           \* inst_sys_call_table
  table           \* linux_sys_call_table: 0 for a native system call, or the session
                  \* whose code cache the translated one is in

sessionVars == <<donePreInit, seenInit, seenAttach, command, option, entry, line, session, alive, inst, table>>
vars == <<optionVars, sessionVars>>

NativeTable == [i \in 1..Syscalls |-> 0]

Init ==
  /\ OptionsInit
  /\ donePreInit = FALSE /\ seenInit = FALSE /\ seenAttach = FALSE
  /\ command = "load" /\ option = None /\ entry = 0 /\ line = << >> /\ session = 0 /\ alive = FALSE
  /\ inst = NativeTable /\ table = NativeTable

PreInit == IF donePreInit THEN UNCHANGED optionVars ELSE RunConstructors

\* granary_enter.
Load ==
  /\ command = "load" /\ command' = "idle"
  /\ PreInit /\ donePreInit' = TRUE
  /\ UNCHANGED <<seenInit, seenAttach, option, entry, line, session, alive, inst, table>>

\* ProcessInit, up to the registered options.
CommandInit ==
  /\ command = "idle" /\ ~seenInit /\ session < MaxSessions
  /\ \E l \in Lines : line' = l /\ ReadOptions(Text(l))
  /\ seenInit' = TRUE /\ command' = "init" /\ option' = list /\ session' = session + 1
  /\ UNCHANGED <<donePreInit, seenAttach, entry, alive, inst, table>>

ProcessPendingOptions ==
  /\ command = "init" /\ option # None
  /\ ProcessPendingOption(option) /\ option' = next[option]
  /\ UNCHANGED <<donePreInit, seenInit, seenAttach, command, entry, line, session, alive, inst, table>>

\* granary::Init.
InitGranary ==
  /\ command = "init" /\ option = None /\ command' = "idle"
  /\ PreInit /\ donePreInit' = FALSE
  /\ alive' = TRUE
  /\ UNCHANGED <<seenInit, seenAttach, option, entry, line, session, inst, table>>

\* ProcessAttach.  The tools decide which system calls are translated.
CommandAttach ==
  /\ command = "idle" /\ seenInit /\ ~seenAttach
  /\ seenAttach' = TRUE /\ command' = "attach" /\ entry' = 0
  /\ inst' \in [1..Syscalls -> IF alive THEN {0, session} ELSE {0}]
  /\ UNCHANGED <<optionVars, donePreInit, seenInit, option, line, session, alive, table>>

\* ProcessDetach.
CommandDetach ==
  /\ command = "idle" /\ seenAttach
  /\ seenAttach' = FALSE /\ command' = "detach" /\ entry' = 0
  /\ UNCHANGED <<optionVars, donePreInit, seenInit, option, line, session, alive, inst, table>>

\* The loops of TakeoverSyscallTable and RestoreNativeSyscallTable.  Other processors
\* use the table meanwhile; what is left in inst_sys_call_table is not read again.
CopyEntry ==
  /\ command \in {"attach", "detach"} /\ entry < Syscalls
  /\ entry' = entry + 1
  /\ inst' = IF entry' = Syscalls THEN NativeTable ELSE inst
  /\ table' = [table EXCEPT ![entry + 1] = IF command = "attach" THEN inst[entry + 1] ELSE 0]
  /\ command' = IF entry' = Syscalls THEN "idle" ELSE command
  /\ UNCHANGED <<optionVars, donePreInit, seenInit, seenAttach, option, line, session, alive>>

\* Mutant: Granary may be ended while it is attached.
MayExitAttached == seenInit

MayExit == seenInit /\ ~seenAttach

\* ProcessExit, granary::Exit.
CommandExit ==
  /\ command = "idle" /\ MayExit
  /\ alive' = FALSE /\ seenInit' = FALSE /\ line' = << >>
  /\ UNCHANGED <<optionVars, donePreInit, seenAttach, command, option, entry, session, inst, table>>

Next ==
  \/ Load \/ CommandInit \/ ProcessPendingOptions \/ InitGranary
  \/ CommandAttach \/ CommandDetach \/ CopyEntry \/ CommandExit

\* A command that has been written is carried out.
CarryOut == Load \/ ProcessPendingOptions \/ InitGranary \/ CopyEntry

Spec == Init /\ [][Next]_vars /\ WF_vars(CarryOut)
-----------------------------------------------------------------------------
(* Properties.  A word of a command line is a record: a name, what kind of *)
(* word it is, and a value.                                                *)

\* The words of the line that name an option, or its negation.
Naming(o) == SelectSeq(line, LAMBDA w : w.form # "stray" /\ w.name = OptionName[o])
Negating(o) == SelectSeq(line, LAMBDA w : w.form # "stray" /\ w.name = AltName[o])

Parsed == alive

\* The number of options on the line, and whether an entry behind theirs, which an
\* earlier and longer line has left in the tables, names the option.
Given == Len(SelectSeq(line, LAMBDA w : w.form # "stray"))
Left(o) == \E i \in (Given + 1)..MaxOptions : names[i] # 0 /\ TextAt(names[i]) = OptionName[o]

\* An option that the command line names is obeyed in every session, whatever earlier
\* lines have left in the buffer and in the tables: its first mention counts.  So is a
\* negation, unless an entry that is left over names the option, which the code lets win.
\* In the first session an option that is not named, or with a value that cannot be
\* read, keeps its default; in a later one nothing is said of it (option.cc).
GivenIsObeyed ==
  Parsed => \A o \in Option :
    LET told == IF Naming(o) # << >> THEN Parse(OptionKind[o], Head(Naming(o)).value)
                ELSE IF OptionKind[o] = "bool" /\ Negating(o) # << >> /\ ~Left(o) THEN {FALSE} ELSE {}
    IN  /\ told # {} => flag[o] \in told
        /\ session = 1 /\ told = {} => flag[o] = Default[o]

\* An option that is not on the command line is not found, and so does not take
\* precedence over its negation (FindValueForName in option.cc).
NotGivenNotFound ==
  Parsed => \A o \in Option : Naming(o) = << >> => FindValueForName(OptionName[o]) = NoText

\* A system call never enters the code cache of a session that has ended, in whatever
\* order the commands come and however far the table has been rewritten (command.c,
\* syscall.c).
SyscallsReachLiveCode == \A i \in 1..Syscalls : table[i] # 0 => alive /\ table[i] = session

\* Every initialization comes to an end: the list of options is a list.  It is not from
\* the second session on, since the last option is linked twice (AddOption and
\* ProcessPendingOptions in option.cc, PreInit in init.cc).
InitEnds == (command = "init") ~> (command = "idle")
=============================================================================
