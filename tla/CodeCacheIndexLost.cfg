\* Two blocks with one array and two buckets.
CONSTANTS
  Parts = {"index"}
  IndexOf <- IndexOfSame
  Meta <- Metas
  StartPC <- MetaPC
  CanUnifyWith <- Versions
  First = {1, 2}
  Second = {1, 2}
  Array = {x1, x2}
  Thread = {t1, t2}
  Kind = {hot, edge}
  Slab = {s1, s2, s3}
  SlabBytes = 12
  CodeAlign = 4
  CodeSize = {1, 5}
  NoSlab = NoSlab
  NoThread = NoThread
  NumPages = 7
  SlotBits = 4
  Request = {1, 2, 3}
  SlabThread = {t1, t2, t3}
  HeapSlab = {s1, s2}
  MaxOffset = 2
  Builtin <- MCBuiltin
  ToolPart = {"counter", "wrapper"}
  PartSize <- MCPartSize
  PartAlign <- MCPartAlign
  kMaxNumManagedMetaData = 5
  SlabHeader = 8
  ObjectBytes = 160
  MaxParts = 2
  MaxObjects = 2
  MaxStarts = 2
  NoPart = NoPart
SPECIFICATION MemorySpec
INVARIANT NothingLost
CHECK_DEADLOCK FALSE
