\* Blocks: three rounds and two requests of the tools, so that a block can be
\* requested, found, adapted, and cut off by the limit.  Ranges: one module with
\* five addresses: a range that is split, shortened on either side, covered and
\* extended.  Tools: three clients' and one of a test, two sessions: command
\* lines with repeated, unknown and contradictory names.
\* Code: traces of two blocks in all loops, one block with all kinds of control
\* flow in its instrumentation, and four blocks whose paths part and join.
\* Instruction: all forms of each instruction that the manglers rewrite, with
\* targets and addresses that are near, far, and in the low or the high half of
\* memory.
CONSTANTS
  Parts = {"blocks", "code", "instruction", "ranges", "tools"}
  Traces <- MCTraces
  A = A
  B = B
  C = C
  N = N
  PC = {A, B, C, N}
  NativePC = {N}
  EntryPC = A
  Succ <- MCSucc
  MaxIterations = 3
  MaxRequests = 2
  Module = {m1}
  MaxAddr = 4
  Offset = {0}
  None = None
  Tool = {user, tool_a, tool_b, t}
  Priority = user
  TestTool = t
  tool_a = tool_a
  tool_b = tool_b
  MaxSessions = 2
  MaxFlags = 2
  cf = cf
  of = of
  Flags = {cf, of}
  Overflow = of
  NumGPRs = 3
  Restricted = {2}
  RedZone = 1
SPECIFICATION TranslationSpec
INVARIANTS TraceSound CompensationEnds OffsetsRight ToolOrder
           InstructionKept FollowsTrace InstrumentationHidden
PROPERTY ShiftsKnown
CHECK_DEADLOCK FALSE
