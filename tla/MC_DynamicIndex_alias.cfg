\* One insert into a term that has no list in the index.
CONSTANTS
  t1 = t1
  t2 = t2
  b0 = b0
  b1 = b1
  b2 = b2
  b3 = b3
  k1 = k1
  k2 = k2
  NULLPTR = NULLPTR
  Threads <- MC_Threads
  Blocks <- MC_Blocks
  Terms <- MC_AliasTerms
  IndexBlocks <- MC_AliasIndexBlocks
  Origin = b0
  NumLines = 2
  Cap = 3
  LineOf <- MC_LineOf
  TOMBSTONE <- MC_TOMBSTONE
  InitPostings <- MC_AliasInitPostings
  Inserts <- MC_AliasInserts
SPECIFICATION Spec
PROPERTY PostingListRefined
