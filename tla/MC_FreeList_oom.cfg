\* One thread allocates as many blocks as the node has free, spread over
\* two head words.
CONSTANTS
  t1 = t1
  t2 = t2
  Threads <- MC_Threads
  NumIndexBlocks = 1
  TotalBlocks = 5
  FREELIST_PARTITIONS = 2
  TOMBSTONE = TOMBSTONE
  Program <- MC_Exhaust
SPECIFICATION Spec
INVARIANT OutOfMemoryOnlyWhenEmpty
