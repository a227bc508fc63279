\* Traces and walks over code end.
CONSTANTS
  Parts = {"lists", "sets", "map", "disjoint", "names", "numbers", "calls", "operands",
           "assembly", "exceptions", "sessions"}
  Lines <- ManyLines
  Syscalls = 2
  MaxSessions = 2
  Native <- SomeRegisters
  OtherRegister = {41, 111}
  kMinTemporaryVirtualRegister = 8
  kMinTraceVirtualRegister = 16
  kMinGlobalVirtualRegister = 64
  kMaxNumVirtRegs = 8
  kMaxNumFuncOperands = 2
  kMaxTemporaries = 2
  MaxBlocks = 5
  MaxGlobals = 3
  MaxExtra = 2
  Scopes = {"s1", "s2"}
  RegVars = {0, 1}
  LabelVars = {2}
  Inputs = {{}, {0}}
  Texts <- TwoTexts
  MaxPieces = 3
  Regs = {"%0", "%1"}
  InlineFunctions = {"zero", "two", "six"}
  ContextFunctions = {"hook"}
  Arguments <- ArgumentsOf
  Hooked = {"RAX", "RDI", "R15"}
  Numbers = {0, 6}
SPECIFICATION SupportSpec
INVARIANTS RegistersNamed NumbersApart CallsTransparent AddressIsText ScopesSound FaultsEmulated
           GivenIsObeyed SyscallsReachLiveCode
PROPERTY ImplementsCollections
CHECK_DEADLOCK FALSE
