\* Two threads.  Direct edges: the entry's code and two translations of B are
\* all the code there can be.  Indirect edge: three targets, so that a thread
\* can be anywhere in the chain while another one prepends to it.
CONSTANTS
  Thread = {t1, t2}
  A = A
  B = B
  Block = {A, B}
  Succ <- MCSucc
  Entry = A
  Code = {c0, c1, c2}
  FirstCode = c0
  UnsafePatchEdges = TRUE
  Stub = Stub
  HasMeta = HasMeta
  AppPC = {p1, p2, p3}
  OutEdge = {o1, o2, o3}
  Miss = Miss
  Null = Null
SPECIFICATION EdgesSpec
INVARIANTS JumpsAreSafe UnionConsistent ChainSound
PROPERTIES ImplementsNativeExecution BranchesResolve
CHECK_DEADLOCK FALSE
