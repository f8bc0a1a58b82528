\* As MC_DocumentQueries.cfg with max_send_queue_wr = 3: a row of two READs
\* waits in the post_balance + requests loop for good (reported as a deadlock).
CONSTANTS
    IdBits = 3
    NumThreads = 2
    MAX_QPS = 1
    max_send_queue_wr = 3
    NumServers = 2
    Postings <- MC_PostingsFn
    Index <- MC_Index
    Queries <- MC_Queries
    Operation = "intersection"
SPECIFICATION Spec
INVARIANTS
    TypeOK
    BuffersAccounted
    ResultsCorrect
PROPERTIES
    QueriesAnswered
