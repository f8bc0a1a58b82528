\* One inserting thread splitting a block beside a READ query: one
\* intersecting three lists, or a scan of the list being split.
CONSTANTS
  t1 = t1
  q1 = q1
  b0 = b0
  b1 = b1
  b2 = b2
  b3 = b3
  b4 = b4
  b5 = b5
  b6 = b6
  b7 = b7
  b8 = b8
  k1 = k1
  k2 = k2
  k3 = k3
  NULLPTR = NULLPTR
  Threads <- MC_Threads
  Readers <- MC_Readers
  Blocks <- MC_Blocks
  Terms <- MC_Terms
  IndexBlocks <- MC_IndexBlocks
  Origin = b0
  NumLines = 2
  Cap = 3
  LineOf <- MC_LineOf
  TOMBSTONE <- MC_TOMBSTONE
  InitPostings <- MC_InitPostings
  Inserts <- MC_Inserts
  Reads <- MC_Reads
SPECIFICATION QSpec
INVARIANTS RTypeOK ResultsComplete
PROPERTIES ResultsSound ReadsComplete
