\* The update-workload build of a three-list index over forty documents,
\* with every draw of two documents and every block layout option.
CONSTANTS
  NumNodes = 2
  BlockSizes = {32, 128}
  Updates = {TRUE, FALSE}
  KeyFile <- MC_KeyFile
  TOMBSTONE = 999
  NumDocuments = 40
  OriginalFile <- MC_OriginalFile
SPECIFICATION Spec
INVARIANTS TypeOK DrawnAreSample LayoutHoldsRemainder IndexFilesWholeBlocks
