\* A range is split while another one lies behind it.
CONSTANTS
  Module = {m1}
  MaxAddr = 5
  Offset = {0}
  None = None
SPECIFICATION Spec
INVARIANT NothingForgotten
CHECK_DEADLOCK FALSE
