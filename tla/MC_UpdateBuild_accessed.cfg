\* The partitioner run with -a on the keys 0 and 1: the list of the largest
\* key is never laid out (block_based.hh:124-127).
CONSTANTS
  NumNodes = 2
  BlockSizes = {32, 128}
  Updates = {TRUE, FALSE}
  KeyFile <- MC_KeyFile_accessed
  TOMBSTONE = 999
  NumDocuments = 40
  OriginalFile <- MC_OriginalFile
SPECIFICATION Spec
INVARIANT LayoutHoldsRemainder
