\* Two loops through one block of instrumentation: the flags analysis stops too early.
CONSTANTS
  Parts = {"code"}
  Traces <- TwoLoops
  A = A
  B = B
  C = C
  N = N
  PC = {A, B, C, N}
  NativePC = {N}
  EntryPC = A
  Succ <- MCSucc
  MaxIterations = 3
  MaxRequests = 2
  Module = {m1}
  MaxAddr = 4
  Offset = {0}
  None = None
  Tool = {user, tool_a, tool_b, t}
  Priority = user
  TestTool = t
  tool_a = tool_a
  tool_b = tool_b
  MaxSessions = 2
  MaxFlags = 2
  cf = cf
  of = of
  Flags = {cf, of}
  Overflow = of
  NumGPRs = 3
  Restricted = {2}
  RedZone = 1
SPECIFICATION TranslationSpec
INVARIANT FlagsPreserved
CHECK_DEADLOCK FALSE
