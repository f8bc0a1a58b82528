\* A one-key query whose key has no list on memory node 0.
CONSTANTS
    IdBits = 3
    NumThreads = 2
    MAX_QPS = 1
    max_send_queue_wr = 4
    NumServers = 2
    Postings <- MC_PostingsFn
    Index <- MC_Index
    Queries <- MC_RareQueries
    Operation = "intersection"
SPECIFICATION Spec
INVARIANT NoEmptyBatch
