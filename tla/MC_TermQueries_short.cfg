CONSTANTS
    IdBits = 2
    NumThreads = 2
    MAX_QPS = 4
    max_send_queue_wr = 1
    Postings <- MC_Postings
    Index <- MC_Index
    Queries <- MC_ShortQueries
    Operation = "intersection"
SPECIFICATION Spec
INVARIANT
    NoDivisionByZero
