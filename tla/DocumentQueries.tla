---------------------------- MODULE DocumentQueries ----------------------------
(***************************************************************************)
(* The document-based query handler (src/src/index/document_based). Each   *)
(* memory node holds the posting lists of its own share of the documents,  *)
(* so a READ query visits every memory node, in an order std::shuffle      *)
(* picks. For one node, READ_row_into_buffer posts one RDMA READ per key   *)
(* with a non-empty list as a single BatchedREAD into one of the thread's  *)
(* NUM_READ_BUFFERS = 2 buffers. While that row is being read, the thread  *)
(* runs the operation on the row in the other buffer, then polls until     *)
(* posted_to_buffer of the current buffer is 0.                           *)
(*                                                                         *)
(* Latches, the query queue and the shared contexts are as in the          *)
(* term-based handler (TermQueries): thread t polls the one send CQ of     *)
(* context t % MAX_QPS and decrements posted_to_buffer and post_balance of *)
(* whichever thread each completion names (encode_64bit(ctx_tid, buffer)). *)
(*                                                                         *)
(* A WR is a record [t, b, k, n, key]: thread t's READ of key slot k, the  *)
(* list of `key` on memory node n, into buffer b. A buffer slot remembers  *)
(* which list last landed in it (<<n, key>>), or Zero: touch_memory left   *)
(* zeros there.                                                            *)
(***************************************************************************)
EXTENDS SetOperations

CONSTANTS
    NumThreads,        \* num_compute_threads_
    MAX_QPS,           \* constants.hh
    max_send_queue_wr, \* the configured bound on outstanding WRs
    NumServers,        \* memory nodes
    Postings,          \* Postings[n][term]: term's list on memory node n
    Index,             \* term -> its whole posting list, as the text index
                       \* lists it (the input of the offline build)
    Queries,           \* the query file: a sequence of [type, keys]
    Operation          \* "intersection" or "union"

NUM_READ_BUFFERS == 2

Threads == 0 .. NumThreads - 1
Contexts == 0 .. (IF NumThreads < MAX_QPS THEN NumThreads ELSE MAX_QPS) - 1
CtxOf(t) == t % MAX_QPS
Nodes == 0 .. NumServers - 1
Buffers == 0 .. NUM_READ_BUFFERS - 1
Terms == DOMAIN Postings[0]
QIdx == DOMAIN Queries
MaxKeys == Max({Len(Queries[q].keys) : q \in QIdx})
Slots == 1 .. MaxKeys
WRs == [t : Threads, b : Buffers, k : Slots, n : Nodes, key : Terms]
Zero == <<>>

ASSUME /\ NumThreads \in Nat \ {0} /\ MAX_QPS \in Nat \ {0}
       /\ max_send_queue_wr \in Nat \ {0} /\ NumServers \in Nat \ {0}
       /\ Operation \in {"intersection", "union"}
       /\ \A n \in Nodes : DOMAIN Postings[n] = Terms
       /\ \A q \in QIdx : Queries[q].type \in {"READ", "INSERT"}
                         /\ Queries[q].keys /= <<>>

VARIABLES
    start_latch, end_latch, \* the latches' counters
    queue,           \* the query indices not yet dequeued
    pc,              \* where each thread is in process_queries
    cur,             \* the query a thread processes
    order,           \* memory_nodes after std::shuffle
    mi,              \* the memory_node iterator, an index into order
    bid,             \* buffer_id
    info,            \* buffer_infos: per thread and buffer, the lists added
    posted,          \* posted_to_buffer, per thread and buffer
    post_balance,    \* per thread: READs added to a batch, not yet polled
    inflight,        \* per context: WRs posted, not completed
    cq,              \* per context: completions not yet polled
    buf,             \* per thread, buffer and key slot: the list there
    rows,            \* per query: the lists each operation ran on, in order
    answered         \* the queries whose final operation has run

vars == <<start_latch, end_latch, queue, pc, cur, order, mi, bid, info,
          posted, post_balance, inflight, cq, buf, rows, answered>>

Init ==
    /\ start_latch = NumThreads /\ end_latch = NumThreads
    /\ queue = [i \in 1 .. Len(Queries) |-> i]
    /\ pc = [t \in Threads |-> "arrive"]
    /\ cur = [t \in Threads |-> 1]
    /\ order = [t \in Threads |-> <<>>]
    /\ mi = [t \in Threads |-> 1]
    /\ bid = [t \in Threads |-> 0]
    /\ info = [t \in Threads |-> [b \in Buffers |-> <<>>]]
    /\ posted = [t \in Threads |-> [b \in Buffers |-> 0]]
    /\ post_balance = [t \in Threads |-> 0]
    /\ inflight = [c \in Contexts |-> {}]
    /\ cq = [c \in Contexts |-> {}]
    /\ buf = [t \in Threads |-> [b \in Buffers |-> [k \in Slots |-> Zero]]]
    /\ rows = [q \in QIdx |-> <<>>]
    /\ answered = {}

Keys(t) == Queries[cur[t]].keys
Node(t) == order[t][mi[t]]
Length(n, key) == Len(Postings[n][key])

(***************************************************************************)
(* Latch::arrive_and_wait and the try_dequeue loop, as in TermQueries.     *)
(***************************************************************************)
arrive_start(t) ==
    /\ pc[t] = "arrive"
    /\ start_latch' = start_latch - 1
    /\ pc' = [pc EXCEPT ![t] = "start"]
    /\ UNCHANGED <<end_latch, queue, cur, order, mi, bid, info, posted,
                   post_balance, inflight, cq, buf, rows, answered>>

pass_start(t) ==
    /\ pc[t] = "start" /\ start_latch = 0
    /\ pc' = [pc EXCEPT ![t] = "pop"]
    /\ UNCHANGED <<start_latch, end_latch, queue, cur, order, mi, bid, info,
                   posted, post_balance, inflight, cq, buf, rows, answered>>

pass_end(t) ==
    /\ pc[t] = "end" /\ end_latch = 0
    /\ pc' = [pc EXCEPT ![t] = "done"]
    /\ UNCHANGED <<start_latch, end_latch, queue, cur, order, mi, bid, info,
                   posted, post_balance, inflight, cq, buf, rows, answered>>

pop_empty(t) ==
    /\ pc[t] = "pop" /\ queue = <<>>
    /\ end_latch' = end_latch - 1
    /\ pc' = [pc EXCEPT ![t] = "end"]
    /\ UNCHANGED <<start_latch, queue, cur, order, mi, bid, info, posted,
                   post_balance, inflight, cq, buf, rows, answered>>

pop_skip(t) ==
    /\ pc[t] = "pop" /\ queue /= <<>>
    /\ Queries[Head(queue)].type /= "READ"
    /\ queue' = Tail(queue)
    /\ UNCHANGED <<start_latch, end_latch, pc, cur, order, mi, bid, info,
                   posted, post_balance, inflight, cq, buf, rows, answered>>

\* A READ query: fresh buffer_infos, the progress output (which divides by
\* queries.size() / 10), the memory nodes shuffled by the handler's one
\* std::mt19937, shared by all threads without a lock: whatever the race
\* does to it, std::shuffle only swaps, so the outcome is some permutation.
pop_read(t) ==
    /\ pc[t] = "pop" /\ queue /= <<>>
    /\ Queries[Head(queue)].type = "READ"
    /\ queue' = Tail(queue)
    /\ cur' = [cur EXCEPT ![t] = Head(queue)]
    /\ \E o \in SetToSeqs(Nodes) : order' = [order EXCEPT ![t] = o]
    /\ mi' = [mi EXCEPT ![t] = 1]
    /\ bid' = [bid EXCEPT ![t] = 0]
    /\ info' = [info EXCEPT ![t] = [b \in Buffers |-> <<>>]]
    /\ pc' = [pc EXCEPT ![t] = IF Len(Queries) \div 10 = 0 THEN "sigfpe"
                                                         ELSE "read"]
    /\ UNCHANGED <<start_latch, end_latch, posted, post_balance, inflight,
                   cq, buf, rows, answered>>
(***************************************************************************)
(* READ_row_into_buffer: for every key of the query, the address range of *)
(* its list on this node goes into buffer_infos[buffer_id] (a zero-length *)
(* one too: it still takes part in the operation), and a key with a        *)
(* non-empty list is added to the batch, counted in post_balance and in    *)
(* posted_to_buffer[buffer_id].                                            *)
(***************************************************************************)
NonEmpty(t) == {k \in DOMAIN Keys(t) : Length(Node(t), Keys(t)[k]) > 0}
Requests(t) == Cardinality(NonEmpty(t))

READ_row_into_buffer(t) ==
    /\ pc[t] = "read"
    /\ info' = [info EXCEPT ![t][bid[t]] =
                   @ \o [k \in DOMAIN Keys(t) |->
                           [n |-> Node(t), k |-> k, key |-> Keys(t)[k]]]]
    /\ post_balance' = [post_balance EXCEPT ![t] = @ + Requests(t)]
    /\ posted' = [posted EXCEPT ![t][bid[t]] = @ + Requests(t)]
    /\ pc' = [pc EXCEPT ![t] = "room"]
    /\ UNCHANGED <<start_latch, end_latch, queue, cur, order, mi, bid,
                   inflight, cq, buf, rows, answered>>

\* The batch's WRs, chained through work_requests[i].next.
BatchWRs_short(t) ==
    {[t |-> t, b |-> bid[t], k |-> k, n |-> Node(t), key |-> Keys(t)[k]] :
        k \in NonEmpty(t) \ {Max(NonEmpty(t))}}
BatchWRs(t) ==
    {[t |-> t, b |-> bid[t], k |-> k, n |-> Node(t), key |-> Keys(t)[k]] :
        k \in NonEmpty(t)}

\* The `while (post_balance + requests > max_send_queue_wr) poll_cq()`
\* loop: post_balance already counts this batch's requests.
NoRoom(t) == post_balance[t] + Requests(t) > max_send_queue_wr

\* BatchedREAD::post_batch after the wait: lib_assert(requests > 0, "Empty
\* READ batch") stops the process when no key of the query has a list on
\* this memory node; otherwise ibv_post_send of the whole chain. The first
\* row is then waited for; a later row overlaps with the operation on the
\* previous one.
post_batch(t) ==
    /\ pc[t] = "room" /\ ~NoRoom(t)
    /\ inflight' = [inflight EXCEPT ![CtxOf(t)] = @ \cup BatchWRs(t)]
    /\ pc' = [pc EXCEPT ![t] = IF Requests(t) = 0 THEN "empty_batch"
                               ELSE IF mi[t] = 1 THEN "wait" ELSE "operate"]
    /\ UNCHANGED <<start_latch, end_latch, queue, cur, order, mi, bid, info,
                   posted, post_balance, cq, buf, rows, answered>>

\* The NIC executes a READ: the list lands in its slot of the buffer, then
\* the CQE is written to the context's completion queue.
Complete(c) ==
    \E w \in inflight[c] :
        /\ inflight' = [inflight EXCEPT ![c] = @ \ {w}]
        /\ cq' = [cq EXCEPT ![c] = @ \cup {w}]
        /\ buf' = [buf EXCEPT ![w.t][w.b][w.k] = <<w.n, w.key>>]
        /\ UNCHANGED <<start_latch, end_latch, queue, pc, cur, order, mi,
                       bid, info, posted, post_balance, rows, answered>>

\* ComputeThread::poll_cq: up to max_send_queue_wr completions of the
\* thread's context; each decrements posted_to_buffer[buffer_id] and
\* post_balance of the thread its wr_id names.
PollPosted_own(S, t) ==
    [posted EXCEPT ![t] = [b \in Buffers |->
                              @[b] - Cardinality({w \in S : w.b = b})]]
PollPosted(S, t) ==
    [u \in Threads |-> [b \in Buffers |->
        posted[u][b] - Cardinality({w \in S : w.t = u /\ w.b = b})]]
PollBalance(S, t) ==
    [u \in Threads |-> post_balance[u] - Cardinality({w \in S : w.t = u})]

poll_cq(t) ==
    /\ \/ pc[t] = "room" /\ NoRoom(t)
       \/ pc[t] = "wait" /\ posted[t][bid[t]] > 0
    /\ cq[CtxOf(t)] /= {}
    /\ \E S \in SUBSET cq[CtxOf(t)] :
          /\ Cardinality(S) = Min({Cardinality(cq[CtxOf(t)]), max_send_queue_wr})
          /\ cq' = [cq EXCEPT ![CtxOf(t)] = @ \ S]
          /\ posted' = PollPosted(S, t)
          /\ post_balance' = PollBalance(S, t)
    /\ UNCHANGED <<start_latch, end_latch, queue, pc, cur, order, mi, bid,
                   info, inflight, buf, rows, answered>>

(***************************************************************************)
(* The operation on a buffer reads, for every address range recorded in   *)
(* its ReadBufferInfo, what is in memory there: the list if its READ has  *)
(* landed, else what an earlier READ left in that slot, or touch_memory's *)
(* zeros. compute_intersection or compute_union hands each id to          *)
(* result_handler; rows records the lists, Operate what they produce.      *)
(***************************************************************************)
Stale(x, len) == IF x = Zero THEN [i \in 1 .. len |-> 0]
                             ELSE Postings[x[1]][x[2]]
Contents(t, b, e) ==
    IF Length(e.n, e.key) = 0 THEN <<>>
    ELSE IF buf[t][b][e.k] = <<e.n, e.key>> THEN Postings[e.n][e.key]
    ELSE Stale(buf[t][b][e.k], Length(e.n, e.key))
Lists(t, b) == [i \in DOMAIN info[t][b] |-> Contents(t, b, info[t][b][i])]
Operate(ls) == IF Operation = "intersection" THEN compute_intersection(ls)
                                             ELSE compute_union(ls)

\* (buffer_id == 0) ? NUM_READ_BUFFERS - 1 : buffer_id - 1
PrevBuffer_current(t) == bid[t]
PrevBuffer(t) == IF bid[t] = 0 THEN NUM_READ_BUFFERS - 1 ELSE bid[t] - 1

\* The operation on the previous buffer, already read entirely, while the
\* current row is in flight; then its offsets are cleared.
operate(t) ==
    /\ pc[t] = "operate"
    /\ rows' = [rows EXCEPT ![cur[t]] = Append(@, Lists(t, PrevBuffer(t)))]
    /\ info' = [info EXCEPT ![t][PrevBuffer(t)] = <<>>]
    /\ pc' = [pc EXCEPT ![t] = "wait"]
    /\ UNCHANGED <<start_latch, end_latch, queue, cur, order, mi, bid,
                   posted, post_balance, inflight, cq, buf, answered>>

\* ++memory_node; buffer_id = (buffer_id + 1) % NUM_READ_BUFFERS (the
\* first row's ++buffer_id is the same for two buffers).
NextBuffer_nomod(t) == bid[t] + 1
NextBuffer(t) == (bid[t] + 1) % NUM_READ_BUFFERS

\* posted_to_buffer[buffer_id] is 0: on to the next memory node, or out
\* of the loop.
advance(t) ==
    /\ pc[t] = "wait" /\ posted[t][bid[t]] = 0
    /\ mi' = [mi EXCEPT ![t] = @ + 1]
    /\ bid' = [bid EXCEPT ![t] = NextBuffer(t)]
    /\ pc' = [pc EXCEPT ![t] = IF mi[t] = Len(order[t]) THEN "final"
                                                       ELSE "read"]
    /\ UNCHANGED <<start_latch, end_latch, queue, cur, order, info, posted,
                   post_balance, inflight, cq, buf, rows, answered>>

\* The final operation on the last buffer; buffer_infos goes out of scope.
final(t) ==
    /\ pc[t] = "final"
    /\ rows' = [rows EXCEPT ![cur[t]] = Append(@, Lists(t, PrevBuffer(t)))]
    /\ answered' = answered \cup {cur[t]}
    /\ pc' = [pc EXCEPT ![t] = "pop"]
    /\ UNCHANGED <<start_latch, end_latch, queue, cur, order, mi, bid, info,
                   posted, post_balance, inflight, cq, buf>>

Thread(t) ==
    \/ arrive_start(t) \/ pass_start(t)
    \/ pop_empty(t) \/ pop_skip(t) \/ pop_read(t)
    \/ READ_row_into_buffer(t) \/ post_batch(t)
    \/ poll_cq(t) \/ operate(t) \/ advance(t) \/ final(t)
    \/ pass_end(t)

Terminated == (\A t \in Threads : pc[t] = "done") /\ UNCHANGED vars

Next == (\E t \in Threads : Thread(t)) \/ (\E c \in Contexts : Complete(c))
        \/ Terminated

\* The threads are pinned and spin in their waits; the NIC completes every
\* posted READ.
Spec == Init /\ [][Next]_vars
        /\ \A t \in Threads : WF_vars(Thread(t))
        /\ \A c \in Contexts : WF_vars(Complete(c))

-----------------------------------------------------------------------------

\* The answer over the text index the lists were built from.
Reference(q) ==
    LET ls == [k \in DOMAIN Queries[q].keys |-> Index[Queries[q].keys[k]]]
    IN  IF Operation = "intersection" THEN Intersect(ls) ELSE Unite(ls)

TypeOK ==
    /\ start_latch \in 0 .. NumThreads /\ end_latch \in 0 .. NumThreads
    /\ pc \in [Threads -> {"arrive", "start", "pop", "read", "room", "wait",
                           "operate", "final", "end", "done", "sigfpe",
                           "empty_batch"}]
    /\ cur \in [Threads -> QIdx] /\ mi \in [Threads -> 1 .. NumServers + 1]
    /\ bid \in [Threads -> Buffers]
    /\ posted \in [Threads -> [Buffers -> 0 .. MaxKeys]]
    /\ post_balance \in [Threads -> 0 .. max_send_queue_wr]
    /\ \A c \in Contexts : inflight[c] \subseteq WRs /\ cq[c] \subseteq WRs
    /\ answered \subseteq QIdx

\* posted_to_buffer counts exactly the thread's READs into that buffer that
\* are batched and not yet polled, and post_balance is their sum, although
\* any thread of the shared context may poll a completion first: poll_cq
\* must credit each CQE to the thread and buffer its wr_id names.
Unposted(t, b) == IF pc[t] = "room" /\ b = bid[t] THEN Requests(t) ELSE 0
Outstanding(t, b) ==
    Cardinality({w \in inflight[CtxOf(t)] \cup cq[CtxOf(t)] :
                    w.t = t /\ w.b = b})
BuffersAccounted ==
    \A t \in Threads :
        /\ \A b \in Buffers : posted[t][b] = Outstanding(t, b) + Unposted(t, b)
        /\ post_balance[t] = posted[t][0] + posted[t][1]

\* What result_handler was called with for an answered query is the
\* intersection (union) of its keys' posting lists in the text index, each
\* id once. The lists reach the buffers through the offline build (sort,
\* partition by document, meta offsets in bytes) and the RDMA READs, and
\* the per-node results of the double-buffered rows add up to the answer
\* only if each operation runs on a row that has entirely landed and is
\* not overwritten or counted twice.
Emitted(q) == FlattenSeq([i \in DOMAIN rows[q] |-> Operate(rows[q][i])])

ResultsCorrect ==
    \A q \in answered : /\ Len(Emitted(q)) = Cardinality(Reference(q))
                        /\ ToSet(Emitted(q)) = Reference(q)

\* Every READ query is answered and every thread gets past end_latch_.
QueriesAnswered ==
    <>(/\ \A q \in QIdx : Queries[q].type = "READ" => q \in answered
       /\ \A t \in Threads : pc[t] = "done")

\* post_batch never meets an empty batch: lib_assert(requests > 0) stops
\* the process when no key of a query has a list on some memory node.
NoEmptyBatch == \A t \in Threads : pc[t] /= "empty_batch"
=============================================================================
