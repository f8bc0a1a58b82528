\* Two threads, two inserts each, into one list of two blocks; four blocks.
CONSTANTS
  t1 = t1
  t2 = t2
  b0 = b0
  b1 = b1
  b2 = b2
  b3 = b3
  k1 = k1
  k2 = k2
  NULLPTR = NULLPTR
  Threads <- MC_Threads
  Blocks <- MC_Blocks
  Terms <- MC_Terms
  IndexBlocks <- MC_IndexBlocks
  Origin = b0
  NumLines = 2
  Cap = 3
  LineOf <- MC_LineOf
  TOMBSTONE <- MC_TOMBSTONE
  InitPostings <- MC_InitPostings
  Inserts <- MC_Inserts
SPECIFICATION Spec
INVARIANTS TypeOK LockExclusive
PROPERTIES PostingListRefined InsertsComplete
