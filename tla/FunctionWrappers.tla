-------------------------- MODULE FunctionWrappers --------------------------
(***************************************************************************)
(* The wrap_func client (clients/wrap_func/client.cc): tools add wrappers  *)
(* of functions to a list, which is kept so that the wrappers of one       *)
(* function are next to each other and numbered; a call of a function in a *)
(* block that is translated becomes a call of its first wrapper.  The      *)
(* wrappers of this repository pass on the native function: none asks for  *)
(* the instrumented one.                                                   *)
(***************************************************************************)
EXTENDS Integers, Sequences, SequencesExt, FiniteSetsExt

CONSTANTS
  Wrapper,        \* FunctionWrapper objects.
  Function,       \* The function that each wraps: module_name and module_offset.
  Called,         \* Functions that the application calls.
  MaxSessions,    \* How often Granary attaches: a bound of the model.
  NoWrapper

VARIABLES
  session, registering,
  order,          \* What the tools register, in each session.
  wrappers,       \* The list, of FunctionWrapper objects.
  wrapper_id,     \* id of each, which survives a session.
  site            \* The call or jump that was translated last, and to what; or NoWrapper.

wrapVars == <<session, registering, order, wrappers, wrapper_id, site>>

Orders == {s \in UNION {[1..n -> Wrapper] : n \in 0..Cardinality(Wrapper)} : IsInjective(s)}

Init ==
  /\ session = 1
  /\ order \in Orders /\ registering = order
  /\ wrappers = << >>
  /\ wrapper_id = [w \in Wrapper |-> 0]
  /\ site = NoWrapper

\* Mutant: behind the first wrapper of the function.
InsertBehindFirst(w) ==
  LET at == SelectInSeq(wrappers, LAMBDA x : /\ Function[x].module = Function[w].module
                                             /\ Function[w].offset <= Function[x].offset)
  IN  IF at = 0 THEN [place |-> Len(wrappers) + 1, id |-> wrapper_id[w]]
      ELSE IF Function[wrappers[at]] # Function[w] THEN [place |-> at, id |-> wrapper_id[w]]
      ELSE [place |-> at + 1, id |-> wrapper_id[wrappers[at]] + 1]

\* FunctionWrapperInsertPoint: before the first wrapper of a later function of
\* the module, or behind the last one of the same function.
FunctionWrapperInsertPoint(w) ==
  LET at == SelectInSeq(wrappers, LAMBDA x : /\ Function[x].module = Function[w].module
                                             /\ Function[w].offset <= Function[x].offset)
      last == CHOOSE i \in at..Len(wrappers) :
                /\ \A j \in at..i : Function[wrappers[j]] = Function[wrappers[at]]
                /\ i < Len(wrappers) => Function[wrappers[i + 1]] # Function[wrappers[at]]
  IN  IF at = 0 THEN [place |-> Len(wrappers) + 1, id |-> wrapper_id[w]]
      ELSE IF Function[wrappers[at]] # Function[w] THEN [place |-> at, id |-> wrapper_id[w]]
      ELSE [place |-> last + 1, id |-> wrapper_id[wrappers[last]] + 1]

\* AddFunctionWrapper, under the write lock.
AddFunctionWrapper ==
  /\ registering # << >>
  /\ LET w == Head(registering)
         to == FunctionWrapperInsertPoint(w)
     IN  /\ wrappers' = InsertAt(wrappers, to.place, w)
         /\ wrapper_id' = [wrapper_id EXCEPT ![w] = to.id]
  /\ registering' = Tail(registering)
  /\ UNCHANGED <<session, order, site>>

\* FunctionWrapperFor, under the read lock.
FunctionWrapperFor(f, next_wrapper_id) ==
  LET at == SelectInSeq(wrappers, LAMBDA x : Function[x] = f /\ wrapper_id[x] = next_wrapper_id)
  IN  IF at = 0 THEN NoWrapper ELSE wrappers[at]

\* InstrumentControlFlow and WrapDecodedBlock, for one call or jump of a new block.
WrapDecodedBlock(f, kind) ==
  /\ registering = << >>
  /\ LET w == IF wrappers = << >> \/ kind = "conditional" THEN NoWrapper
              ELSE FunctionWrapperFor(f, 0)
     IN  site' = [function |-> f, kind |-> kind, to |-> w]
  /\ UNCHANGED <<session, registering, order, wrappers, wrapper_id>>

\* Exit, on detach; and the next attach, with the same tools, which register the same
\* wrappers in the same order: the code keeps the ids of the wrappers that it unlinks.
Exit ==
  /\ registering = << >> /\ session < MaxSessions
  /\ session' = session + 1
  /\ wrappers' = << >> /\ registering' = order
  /\ site' = NoWrapper
  /\ UNCHANGED <<order, wrapper_id>>

Next ==
  \/ AddFunctionWrapper
  \/ \E f \in Called, kind \in {"call", "jump", "conditional"} : WrapDecodedBlock(f, kind)
  \/ Exit

Spec == Init /\ [][Next]_wrapVars
-----------------------------------------------------------------------------
(* Properties.                                                             *)

\* How many wrappers of the same function are registered before the k-th.
Number(k) == Cardinality({j \in 1..(k - 1) : Function[order[j]] = Function[order[k]]})

\* Of the wrappers of f that have been added, w is the one that n others come before.
IsNth(f, n, w) ==
  \E k \in 1..(Len(order) - Len(registering)) : w = order[k] /\ Function[w] = f /\ Number(k) = n

\* The wrapper found for f and n is the n-th of f, if there is one.
IsFound(f, n, w) == IF \E x \in Wrapper : IsNth(f, n, x) THEN IsNth(f, n, w) ELSE w = NoWrapper

\* In the list the wrapper of a function with number n is the n-th that was added,
\* in every session, and calls and jumps go to the first.
WrappersFound ==
  /\ \A f \in Called : \A n \in 0..Len(order) : IsFound(f, n, FunctionWrapperFor(f, n))
  /\ site # NoWrapper =>
       IF site.kind = "conditional" THEN site.to = NoWrapper ELSE IsFound(site.function, 0, site.to)
=============================================================================
