\* Three sessions: the constructors run again in the second, and the third walks the list.
CONSTANTS
  Parts = {"sessions"}
  Lines <- FewLines
  Syscalls = 2
  MaxSessions = 3
  Native <- SomeRegisters
  OtherRegister = {41, 111}
  kMinTemporaryVirtualRegister = 8
  kMinTraceVirtualRegister = 16
  kMinGlobalVirtualRegister = 64
  kMaxNumVirtRegs = 8
  kMaxNumFuncOperands = 2
  kMaxTemporaries = 2
  MaxBlocks = 5
  MaxGlobals = 3
  MaxExtra = 2
  Scopes = {"s1", "s2"}
  RegVars = {0, 1}
  LabelVars = {2}
  Inputs = {{}, {0}}
  Texts <- TwoTexts
  MaxPieces = 3
  Regs = {"%0", "%1"}
  InlineFunctions = {"zero", "two", "six"}
  ContextFunctions = {"hook"}
  Arguments <- ArgumentsOf
  Hooked = {"RAX", "RDI", "R15"}
  Numbers = {0, 6}
SPECIFICATION SupportSpec
PROPERTY InitEnds
CHECK_DEADLOCK FALSE
