\* The clients that keep state of their own: poly_code with the type ids of
\* watchpoints, shadow_memory, wrap_func, malcontent, and the system call hooks of user.
CONSTANTS
  Thread = {t1, t2}
  Block = {b1, b2}
  FirstBlock = b1
  Hook = {h1, h2, h3}
  Line = {1, 2}
  LinesOf <- OneLine
  Kind = {"write"}
  NumSamples = 2
  MaxAllocations = 2
  MaxRounds = 2
  Site = {s1, s2, s3}
  s3 = s3
  ListOf <- TwoLists
  NumBytes = {3}
  NumTaints = 4
  HalfAddrs = 8
  Taken = 1
  MaxObjects = 3
  Struct <- Shapes
  MaxStructs = 3
  gShiftAmount = 1
  OffsetBits = 3
  Address = {0, 1, 2, 5, 15, 16, 21}
  MaxMaps = 2
  Wrapper = {w1, w2, w3, w4, w5}
  Function <- ThreeFunctions
  Called <- FourFunctions
  MaxSessions = 2
  w4 = w4
  w5 = w5
  None = None

SPECIFICATION ClientsSpec
SYMMETRY ThreadSymmetry

INVARIANTS
  TypesRecorded
  ShadowShared
  WrappersFound
  ContentionShared
  HooksCalled

\* Tools stop being registered, sessions end, objects run out.
CHECK_DEADLOCK FALSE
