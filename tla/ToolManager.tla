---------------------------- MODULE ToolManager ----------------------------
(***************************************************************************)
(* The tool manager of granary/tool.{h,cc}: clients register tools and     *)
(* name the tools they require, the command line requests some of them,    *)
(* and InitToolManager activates what was requested, after what it         *)
(* requires and what stands before it on the command line, and lays the    *)
(* tool objects out in one allocation.  Granary may exit and start again   *)
(* in one process, as its tests do; ids are then handed out anew, but the  *)
(* table of names is kept.  All of this is sequential.                     *)
(***************************************************************************)
EXTENDS Naturals, SequencesExt, FiniteSetsExt, Relation

CONSTANTS
  Tool,             \* Tool names.
  Priority,         \* "user" or "kernel", which RequestTools always requests.
  TestTool,         \* A tool that a test registers before it starts Granary.
  MaxSessions,      \* How often Granary starts: a bound of the model.
  Size, Align,      \* Size and alignment of the objects of each tool.
  Requirements,     \* The lists of tools that a client may require.
  MaxFlags,         \* Longest list on the command line: a bound of the model.
  None

Id == 0..(Cardinality(Tool) - 1)

VARIABLES
  clients,          \* The tools of the clients, in the order of InitClients.
  requires,         \* The tools each of them requires.
  session, phase,
  registering,      \* Tools that are still to be registered.
  requested,        \* The request list: the priority tool, then FLAG_tools.
  next_request,
  gNextToolId, gToolNames, gRegisteredTools, gToolDependencies,
  id,               \* ToolDescription::id.
  is_active,        \* ToolDescription::is_active.
  gPrevRequestedTool,
  stack,            \* Calls of ActivateTool: the tool, and the next dependency.
  gActiveTools,
  allocation_offset, gAllocationSize

input == <<clients, requires>>
table == <<gNextToolId, gToolNames, gRegisteredTools, id>>
layout == <<gActiveTools, allocation_offset, gAllocationSize>>
vars == <<input, session, phase, registering, requested, next_request, table,
          gToolDependencies, is_active, gPrevRequestedTool, stack, layout>>

\* GRANARY_ALIGN_TO.
AlignTo(x, align) == ((x + align - 1) \div align) * align
-----------------------------------------------------------------------------
\* What a session registers: a test its tool before Init, InitClients the rest.
Registrations(with_test) == (IF with_test THEN <<TestTool>> ELSE << >>) \o clients

Init ==
  /\ clients \in {c \in SetToAllKPermutations(Tool \ {TestTool}) : Priority \in ToSet(c)}
  /\ requires \in [Tool -> Requirements]
  /\ requires[Priority] = << >> /\ requires[TestTool] = << >>
  /\ \A t \in Tool : t \notin ToSet(requires[t])
  /\ session = 1
  /\ phase = "register"
  /\ registering \in {Registrations(b) : b \in BOOLEAN}
  /\ requested = << >> /\ next_request = 1
  /\ gNextToolId = 0
  /\ gToolNames = [i \in Id |-> None]
  /\ gRegisteredTools = [i \in Id |-> None]
  /\ gToolDependencies = [i \in Id |-> << >>]
  /\ id = [t \in Tool |-> 0]
  /\ is_active = [t \in Tool |-> FALSE]
  /\ gPrevRequestedTool = None
  /\ stack = << >> /\ gActiveTools = << >>
  /\ allocation_offset = [t \in Tool |-> 0]
  /\ gAllocationSize = 0

\* IdForName, on a table [next, names]: its first entry with the name, or the
\* next id, whose entry is overwritten.
IdForName(tab, name) ==
  LET known == {i \in Id : tab.names[i] = name}
  IN  IF known # {} THEN [tab EXCEPT !.id = Min(known)]
      ELSE [next |-> tab.next + 1, id |-> tab.next,
            names |-> [tab.names EXCEPT ![tab.next] = name]]

\* AddInstrumentationTool.
AddInstrumentationTool ==
  /\ phase = "register" /\ registering # << >>
  /\ LET tool == Head(registering)
         \* The tables after IdForName of the tool and of each requirement.
         tabs == FoldLeft(LAMBDA ts, name : Append(ts, IdForName(Last(ts), name)),
                          <<IdForName([next |-> gNextToolId, names |-> gToolNames, id |-> 0], tool)>>,
                          requires[tool])
         tool_id == tabs[1].id
     IN  /\ gNextToolId' = Last(tabs).next
         /\ gToolNames' = Last(tabs).names
         /\ gRegisteredTools' = [gRegisteredTools EXCEPT ![tool_id] = tool]
         /\ gToolDependencies' = [gToolDependencies EXCEPT ![tool_id] =
              [i \in DOMAIN tabs |-> tabs[i].id]]
         /\ id' = [id EXCEPT ![tool] = tool_id]
         /\ is_active' = [is_active EXCEPT ![tool] = FALSE]
         /\ allocation_offset' = [allocation_offset EXCEPT ![tool] = 0]
  /\ registering' = Tail(registering)
  /\ UNCHANGED <<input, session, phase, requested, next_request, gPrevRequestedTool, stack,
                 gActiveTools, gAllocationSize>>

\* InitToolManager begins: FLAG_tools is any list of names.
RequestTools(flag_tools) ==
  /\ phase = "register" /\ registering = << >>
  /\ phase' = "request"
  /\ requested' = <<Priority>> \o flag_tools
  /\ next_request' = 1
  /\ UNCHANGED <<input, session, registering, table, gToolDependencies, is_active,
                 gPrevRequestedTool, stack, layout>>

\* DescForName.
DescForName(name) ==
  LET known == {i \in Id : gToolNames[i] = name}
  IN  IF known = {} THEN None ELSE gRegisteredTools[Min(known)]

\* Mutant: the dependency on the previous tool is appended.
RequestToolReversed ==
  /\ phase = "request" /\ next_request <= Len(requested)
  /\ LET desc == DescForName(requested[next_request]) IN
     /\ gPrevRequestedTool' = IF desc = None THEN gPrevRequestedTool ELSE desc
     /\ gToolDependencies' =
          IF None \in {desc, gPrevRequestedTool} THEN gToolDependencies
          ELSE [gToolDependencies EXCEPT ![id[gPrevRequestedTool]][1] = id[desc]]
  /\ next_request' = next_request + 1
  /\ UNCHANGED <<input, session, phase, registering, requested, table, is_active, stack, layout>>

\* RequestTool.  The first dependency is the tool requested before this one.
RequestTool ==
  /\ phase = "request" /\ next_request <= Len(requested)
  /\ LET desc == DescForName(requested[next_request]) IN
     /\ gPrevRequestedTool' = IF desc = None THEN gPrevRequestedTool ELSE desc
     /\ gToolDependencies' =
          IF None \in {desc, gPrevRequestedTool} THEN gToolDependencies
          ELSE [gToolDependencies EXCEPT ![id[desc]][1] = id[gPrevRequestedTool]]
  /\ next_request' = next_request + 1
  /\ UNCHANGED <<input, session, phase, registering, requested, table, is_active, stack, layout>>

\* InitToolManager calls ActivateTool for the last tool.
ActivateLastTool ==
  /\ phase = "request" /\ next_request > Len(requested)
  /\ phase' = "activate"
  /\ stack' = <<[tool |-> gPrevRequestedTool, next |-> 1]>>
  /\ is_active' = [is_active EXCEPT ![gPrevRequestedTool] = TRUE]
  /\ UNCHANGED <<input, session, registering, requested, next_request, table,
                 gToolDependencies, gPrevRequestedTool, layout>>

\* ActivateTool, its loop: a dependency that is not active is activated first.
ActivateDependency ==
  /\ phase = "activate" /\ stack # << >>
  /\ LET top == Last(stack)
         deps == gToolDependencies[id[top.tool]]
     IN  /\ top.next <= Len(deps)
         /\ LET dep == gRegisteredTools[deps[top.next]]
                rest == Append(Front(stack), [top EXCEPT !.next = @ + 1])
            IN  IF dep = None \/ is_active[dep]
                THEN stack' = rest /\ UNCHANGED is_active
                ELSE /\ stack' = Append(rest, [tool |-> dep, next |-> 1])
                     /\ is_active' = [is_active EXCEPT ![dep] = TRUE]
  /\ UNCHANGED <<input, session, phase, registering, requested, next_request, table,
                 gToolDependencies, gPrevRequestedTool, layout>>

\* ActivateTool, its end: the tool gets its place.
AppendActiveTool ==
  /\ phase = "activate" /\ stack # << >>
  /\ LET tool == Last(stack).tool
         offset == AlignTo(gAllocationSize, Align[tool])
     IN  /\ Last(stack).next > Len(gToolDependencies[id[tool]])
         /\ gActiveTools' = Append(gActiveTools, tool)
         /\ allocation_offset' = [allocation_offset EXCEPT ![tool] = offset]
         /\ gAllocationSize' = offset + Size[tool]
  /\ stack' = Front(stack)
  /\ UNCHANGED <<input, session, phase, registering, requested, next_request, table,
                 gToolDependencies, is_active, gPrevRequestedTool>>

\* ExitToolManager.  It forgets everything but the names.
ExitToolManager ==
  /\ phase = "activate" /\ stack = << >> /\ session < MaxSessions
  /\ session' = session + 1
  /\ phase' = "register"
  /\ registering' \in {Registrations(b) : b \in BOOLEAN}
  /\ requested' = << >> /\ next_request' = 1
  /\ gNextToolId' = 0
  /\ gRegisteredTools' = [i \in Id |-> None]
  /\ gToolDependencies' = [i \in Id |-> << >>]
  /\ gPrevRequestedTool' = None
  /\ gActiveTools' = << >> /\ gAllocationSize' = 0
  /\ UNCHANGED <<input, gToolNames, id, is_active, stack, allocation_offset>>

Next == \/ AddInstrumentationTool
        \/ \E flag_tools \in BoundedSeq(Tool, MaxFlags) : RequestTools(flag_tools)
        \/ RequestTool \/ ActivateLastTool \/ ActivateDependency \/ AppendActiveTool
        \/ ExitToolManager

Spec == Init /\ [][Next]_vars
-----------------------------------------------------------------------------
(* Properties.                                                             *)

Registered == ToSet(clients) \cup {t \in {TestTool} : t \in ToSet(gRegisteredTools)}
Requested == SelectSeq(requested, LAMBDA t : t \in Registered)

\* What must come before a tool, in terms of names: what it requires and what
\* stands before it on the command line.
Before == [s, t \in Registered |->
             \/ s \in ToSet(requires[t])
             \/ \E i \in 1..(Len(Requested) - 1) : Requested[i] = s /\ Requested[i + 1] = t]
BeforeStar == TransitiveClosure(Before, Registered)
Acyclic == \A t \in Registered : ~BeforeStar[t, t]

\* The comment on gActiveTools: "The ordering respects `gToolDependencies`."
\* When the requests do not contradict each other, what runs is what was
\* requested and what that requires, each tool once and after what it depends
\* on, and the priority tool comes first.
ToolOrder ==
  (phase = "activate" /\ stack = << >> /\ Acyclic) =>
    /\ ToSet(gActiveTools) = {t \in Registered : \/ t \in ToSet(Requested)
                                                 \/ \E r \in ToSet(Requested) : BeforeStar[t, r]}
    /\ \A i, j \in DOMAIN gActiveTools :
         /\ gActiveTools[i] = gActiveTools[j] => i = j
         /\ BeforeStar[gActiveTools[i], gActiveTools[j]] => i < j
    /\ gActiveTools[1] = Priority
=============================================================================
