\* Two threads allocate concurrently from two partitions of two blocks each;
\* t1 frees a block between its allocations.
CONSTANTS
  t1 = t1
  t2 = t2
  Threads <- MC_Threads
  NumIndexBlocks = 1
  TotalBlocks = 5
  FREELIST_PARTITIONS = 2
  TOMBSTONE = TOMBSTONE
  Program <- MC_AllocOnly
SPECIFICATION Spec
INVARIANTS TypeOK NoDoubleAllocation
PROPERTIES FreePoolRefined AllocationTerminates
