\* A register that two virtual registers want.
CONSTANTS
  Parts = {"code"}
  Traces <- SharedRegister
  A = A
  B = B
  C = C
  N = N
  PC = {A, B, C, N}
  NativePC = {N}
  EntryPC = A
  Succ <- MCSucc
  MaxIterations = 3
  MaxRequests = 2
  Module = {m1}
  MaxAddr = 4
  Offset = {0}
  None = None
  Tool = {user, tool_a, tool_b, t}
  Priority = user
  TestTool = t
  tool_a = tool_a
  tool_b = tool_b
  MaxSessions = 2
  MaxFlags = 2
  cf = cf
  of = of
  Flags = {cf, of}
  Overflow = of
  NumGPRs = 3
  Restricted = {2}
  RedZone = 1
SPECIFICATION TranslationSpec
INVARIANT RegistersPreserved
CHECK_DEADLOCK FALSE
