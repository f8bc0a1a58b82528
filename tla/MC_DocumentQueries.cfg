\* Two document-based compute threads sharing one context, two memory
\* nodes, two READ queries in a ten-query file.
CONSTANTS
    IdBits = 3
    NumThreads = 2
    MAX_QPS = 1
    max_send_queue_wr = 4
    NumServers = 2
    Postings <- MC_PostingsFn
    Index <- MC_Index
    Queries <- MC_Queries
    Operation = "intersection"
SPECIFICATION Spec
INVARIANTS
    TypeOK
    BuffersAccounted
    ResultsCorrect
PROPERTIES
    QueriesAnswered
