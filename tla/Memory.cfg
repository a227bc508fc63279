\* Code cache: two caches and three slabs of twelve bytes; code of one and five
\* bytes makes the caches align, fill up and compete for the last slab.
\* Pages: seven in slots of four: a free run that crosses the slots, a last slot
\* that is not full, and requests that do not fit any more.  Objects: two slabs
\* of two for three threads: slabs fill up while objects are freed and reused.
\* Index: blocks with one array have one bucket, so its lock covers them.
\* Meta-data: three parts of Granary's and two of tools', which fill the table;
\* two sessions.
CONSTANTS
  Parts = {"code", "pages", "slabs", "index", "meta_data"}
  IndexOf <- IndexOfOther
  Meta <- Metas
  StartPC <- MetaPC
  CanUnifyWith <- Versions
  First = {1, 2}
  Second = {1, 2}
  Array = {x1, x2}
  Thread = {t1, t2}
  Kind = {hot, edge}
  Slab = {s1, s2, s3}
  SlabBytes = 12
  CodeAlign = 4
  CodeSize = {1, 5}
  NoSlab = NoSlab
  NoThread = NoThread
  NumPages = 7
  SlotBits = 4
  Request = {1, 2, 3}
  SlabThread = {t1, t2, t3}
  HeapSlab = {s1, s2}
  MaxOffset = 2
  Builtin <- MCBuiltin
  ToolPart = {"counter", "wrapper"}
  PartSize <- MCPartSize
  PartAlign <- MCPartAlign
  kMaxNumManagedMetaData = 5
  SlabHeader = 8
  ObjectBytes = 160
  MaxParts = 2
  MaxObjects = 2
  MaxStarts = 2
  NoPart = NoPart
SPECIFICATION MemorySpec
INVARIANTS CodeIntact ObjectsConserved IndexSound OwnedOnce PartsInPlace
PROPERTY ImplementsPageHeap
CHECK_DEADLOCK FALSE
