----------------------------- MODULE TermQueries -----------------------------
(***************************************************************************)
(* The term-based query handler (src/src/index/term_based): every compute  *)
(* thread runs process_queries. The threads meet at start_latch_, then pop *)
(* query indices from the shared concurrent queue until it is empty, and   *)
(* meet again at end_latch_. For a READ query a thread posts one RDMA READ *)
(* per key into its own buffer, at most max_send_queue_wr outstanding,     *)
(* polls until its post_balance is 0, and runs compute_intersection or    *)
(* compute_union on the buffers.                                           *)
(*                                                                         *)
(* Threads share RDMA resources: thread t is registered with shared       *)
(* context t % MAX_QPS, whose one send completion queue (created with      *)
(* max_send_queue_wr entries) collects the completions of every thread of *)
(* that context. poll_cq takes whatever completions are there and         *)
(* decrements the post_balance of the thread each one belongs to (its      *)
(* ctx_tid travels as the wr_id).                                          *)
(*                                                                         *)
(* A WR is a record [t, q, k]: thread t's READ of key k of query q. Its    *)
(* completion writes the list into buf[t][k] and then enqueues the CQE.    *)
(***************************************************************************)
EXTENDS SetOperations

CONSTANTS
    NumThreads,        \* num_compute_threads_
    MAX_QPS,           \* constants.hh
    max_send_queue_wr, \* the configured bound on outstanding WRs
    Postings,          \* term -> the list a READ of its RemotePtr returns
    Index,             \* term -> its posting list in the text index
    Queries,           \* the query file: a sequence of [type, keys]
    Operation          \* "intersection" or "union"

Threads == 0 .. NumThreads - 1
Contexts == 0 .. (IF NumThreads < MAX_QPS THEN NumThreads ELSE MAX_QPS) - 1
CtxOf(t) == t % MAX_QPS
QIdx == DOMAIN Queries
MaxKeys == Max({Len(Queries[q].keys) : q \in QIdx})
WRs == [t : Threads, q : QIdx, k : 1 .. MaxKeys]

ASSUME /\ NumThreads \in Nat \ {0} /\ MAX_QPS \in Nat \ {0}
       /\ max_send_queue_wr \in Nat \ {0}
       /\ Operation \in {"intersection", "union"}
       /\ \A q \in QIdx : Queries[q].type \in {"READ", "INSERT"}
                         /\ Queries[q].keys /= <<>>

VARIABLES
    start_latch, end_latch, \* the latches' counters
    queue,           \* the query indices not yet dequeued
    pc,              \* where each thread is in process_queries
    cur,             \* the query a thread processes
    k_idx,           \* the number of its keys posted so far
    post_balance,    \* per thread: READs posted and not yet polled
    inflight,        \* per context: WRs posted, not completed
    cq,              \* per context: completions not yet polled
    buf,             \* per thread and key slot: the list last READ there
    result           \* per query: what result_handler was called with

vars == <<start_latch, end_latch, queue, pc, cur, k_idx, post_balance,
          inflight, cq, buf, result>>

NoResult == <<-1>>

\* The constructor initialises both latches to the number of threads and
\* ComputeNode enqueues every query index before starting the threads.
Init ==
    /\ start_latch = NumThreads /\ end_latch = NumThreads
    /\ queue = [i \in 1 .. Len(Queries) |-> i]
    /\ pc = [t \in Threads |-> "arrive"]
    /\ cur = [t \in Threads |-> 1]
    /\ k_idx = [t \in Threads |-> 0]
    /\ post_balance = [t \in Threads |-> 0]
    /\ inflight = [c \in Contexts |-> {}]
    /\ cq = [c \in Contexts |-> {}]
    /\ buf = [t \in Threads |-> [k \in 1 .. MaxKeys |-> <<>>]]
    /\ result = [q \in QIdx |-> NoResult]

Keys(t) == Queries[cur[t]].keys

(***************************************************************************)
(* Latch::arrive_and_wait: decrement, then spin until the count is 0.     *)
(***************************************************************************)
arrive_start_without_decrement(t) ==
    /\ pc[t] = "arrive" /\ pc' = [pc EXCEPT ![t] = "start"]
    /\ UNCHANGED <<start_latch, end_latch, queue, cur, k_idx, post_balance,
                   inflight, cq, buf, result>>
arrive_start(t) ==
    /\ pc[t] = "arrive"
    /\ start_latch' = start_latch - 1
    /\ pc' = [pc EXCEPT ![t] = "start"]
    /\ UNCHANGED <<end_latch, queue, cur, k_idx, post_balance, inflight, cq,
                   buf, result>>

pass_start(t) ==
    /\ pc[t] = "start" /\ start_latch = 0
    /\ pc' = [pc EXCEPT ![t] = "pop"]
    /\ UNCHANGED <<start_latch, end_latch, queue, cur, k_idx, post_balance,
                   inflight, cq, buf, result>>

pass_end(t) ==
    /\ pc[t] = "end" /\ end_latch = 0
    /\ pc' = [pc EXCEPT ![t] = "done"]
    /\ UNCHANGED <<start_latch, end_latch, queue, cur, k_idx, post_balance,
                   inflight, cq, buf, result>>

(***************************************************************************)
(* The loop over query_queue.try_dequeue.                                 *)
(***************************************************************************)

\* The queue is empty: leave the loop and arrive at end_latch_.
pop_empty(t) ==
    /\ pc[t] = "pop" /\ queue = <<>>
    /\ end_latch' = end_latch - 1
    /\ pc' = [pc EXCEPT ![t] = "end"]
    /\ UNCHANGED <<start_latch, queue, cur, k_idx, post_balance, inflight, cq,
                   buf, result>>

\* A query that is not a READ is skipped (continue).
pop_skip(t) ==
    /\ pc[t] = "pop" /\ queue /= <<>>
    /\ Queries[Head(queue)].type /= "READ"
    /\ queue' = Tail(queue)
    /\ UNCHANGED <<start_latch, end_latch, pc, cur, k_idx, post_balance,
                   inflight, cq, buf, result>>

\* A READ query: the progress output computes q % (queries.size() / 10),
\* a division by zero (SIGFPE) when there are fewer than ten queries.
pop_read_keeps_k_idx(t) ==
    /\ pc[t] = "pop" /\ queue /= <<>>
    /\ Queries[Head(queue)].type = "READ"
    /\ queue' = Tail(queue)
    /\ cur' = [cur EXCEPT ![t] = Head(queue)]
    /\ pc' = [pc EXCEPT ![t] = IF Len(Queries) \div 10 = 0 THEN "sigfpe"
                                                         ELSE "post"]
    /\ UNCHANGED <<start_latch, end_latch, k_idx, post_balance, inflight, cq,
                   buf, result>>
pop_read(t) ==
    /\ pc[t] = "pop" /\ queue /= <<>>
    /\ Queries[Head(queue)].type = "READ"
    /\ queue' = Tail(queue)
    /\ cur' = [cur EXCEPT ![t] = Head(queue)]
    /\ k_idx' = [k_idx EXCEPT ![t] = 0]
    /\ pc' = [pc EXCEPT ![t] = IF Len(Queries) \div 10 = 0 THEN "sigfpe"
                                                         ELSE "post"]
    /\ UNCHANGED <<start_latch, end_latch, post_balance, inflight, cq, buf,
                   result>>

\* RemotePtr::READ_list for the next key, once the thread has fewer than
\* max_send_queue_wr READs outstanding (the `prevent WR overflow` wait).
WRRoom_overcommit(t) == post_balance[t] /= max_send_queue_wr + 1
WRRoom(t) == post_balance[t] /= max_send_queue_wr

READ_list(t) ==
    /\ pc[t] = "post" /\ WRRoom(t)
    /\ LET w == [t |-> t, q |-> cur[t], k |-> k_idx[t] + 1]
       IN  inflight' = [inflight EXCEPT ![CtxOf(t)] = @ \cup {w}]
    /\ post_balance' = [post_balance EXCEPT ![t] = @ + 1]
    /\ k_idx' = [k_idx EXCEPT ![t] = @ + 1]
    /\ pc' = [pc EXCEPT ![t] = IF k_idx[t] + 1 = Len(Keys(t)) THEN "wait"
                                                             ELSE "post"]
    /\ UNCHANGED <<start_latch, end_latch, queue, cur, cq, buf, result>>

\* The NIC executes a READ: the list lands in the buffer, then the CQE is
\* written to the context's completion queue.
Complete(c) ==
    \E w \in inflight[c] :
        /\ inflight' = [inflight EXCEPT ![c] = @ \ {w}]
        /\ cq' = [cq EXCEPT ![c] = @ \cup {w}]
        /\ buf' = [buf EXCEPT ![w.t][w.k] =
                        Postings[Queries[w.q].keys[w.k]]]
        /\ UNCHANGED <<start_latch, end_latch, queue, pc, cur, k_idx,
                       post_balance, result>>

\* ComputeThread::poll_cq: take up to max_send_queue_wr completions of the
\* thread's context and decrement the post_balance of each one's owner.
Polled(S, u) == Cardinality({w \in S : w.t = u})
PollBalance_own(S, t) == [post_balance EXCEPT ![t] = @ - Cardinality(S)]
PollBalance(S, t) == [u \in Threads |-> post_balance[u] - Polled(S, u)]

poll_cq(t) ==
    /\ \/ pc[t] = "post" /\ ~WRRoom(t)
       \/ pc[t] = "wait" /\ post_balance[t] > 0
    /\ cq[CtxOf(t)] /= {}
    /\ \E S \in SUBSET cq[CtxOf(t)] :
          /\ S /= {}
          /\ Cardinality(S) = IF Cardinality(cq[CtxOf(t)]) < max_send_queue_wr
                              THEN Cardinality(cq[CtxOf(t)]) ELSE max_send_queue_wr
          /\ cq' = [cq EXCEPT ![CtxOf(t)] = @ \ S]
          /\ post_balance' = PollBalance(S, t)
    /\ UNCHANGED <<start_latch, end_latch, queue, pc, cur, k_idx, inflight,
                   buf, result>>

\* Once post_balance is 0 the operation runs on the key buffers and each
\* id it emits goes to result_handler. A buffer only ever holds one of the
\* posting lists or nothing, so the operation's outcome on every such tuple
\* of buffers is a constant table TLC computes once.
Lists(t) == [k \in 1 .. Len(Keys(t)) |-> buf[t][k]]

BufferContents == {<<>>} \cup {Postings[x] : x \in DOMAIN Postings}

OperateTable ==
    {<<ls, IF Operation = "intersection" THEN compute_intersection(ls)
                                         ELSE compute_union(ls)>> :
        ls \in UNION {[1 .. n -> BufferContents] : n \in 1 .. MaxKeys}}

Operate(ls) == (CHOOSE e \in OperateTable : e[1] = ls)[2]

operate_unwaited(t) ==
    /\ pc[t] = "wait"
    /\ result' = [result EXCEPT ![cur[t]] = Operate(Lists(t))]
    /\ pc' = [pc EXCEPT ![t] = "pop"]
    /\ UNCHANGED <<start_latch, end_latch, queue, cur, k_idx, post_balance,
                   inflight, cq, buf>>
operate(t) ==
    /\ pc[t] = "wait" /\ post_balance[t] = 0
    /\ result' = [result EXCEPT ![cur[t]] = Operate(Lists(t))]
    /\ pc' = [pc EXCEPT ![t] = "pop"]
    /\ UNCHANGED <<start_latch, end_latch, queue, cur, k_idx, post_balance,
                   inflight, cq, buf>>

Thread(t) ==
    \/ arrive_start(t) \/ pass_start(t)
    \/ pop_empty(t) \/ pop_skip(t) \/ pop_read(t)
    \/ READ_list(t) \/ poll_cq(t) \/ operate(t)
    \/ pass_end(t)

Terminated == (\A t \in Threads : pc[t] = "done") /\ UNCHANGED vars

Next == (\E t \in Threads : Thread(t)) \/ (\E c \in Contexts : Complete(c))
        \/ Terminated

\* The threads are pinned and spin in their waits; the NIC completes every
\* posted READ.
Spec == Init /\ [][Next]_vars
        /\ \A t \in Threads : WF_vars(Thread(t))
        /\ \A c \in Contexts : WF_vars(Complete(c))

-----------------------------------------------------------------------------

Reference(q) ==
    LET ls == [k \in DOMAIN Queries[q].keys |-> Index[Queries[q].keys[k]]]
    IN  SetToSortSeq(IF Operation = "intersection" THEN Intersect(ls)
                                                   ELSE Unite(ls), <)

TypeOK ==
    /\ start_latch \in 0 .. NumThreads /\ end_latch \in 0 .. NumThreads
    /\ pc \in [Threads -> {"arrive", "start", "pop", "post", "wait", "end",
                           "done", "sigfpe"}]
    /\ cur \in [Threads -> QIdx] /\ k_idx \in [Threads -> 0 .. MaxKeys]
    /\ post_balance \in [Threads -> 0 .. max_send_queue_wr]
    /\ DOMAIN inflight = Contexts /\ DOMAIN cq = Contexts
    /\ \A c \in Contexts : inflight[c] \subseteq WRs /\ cq[c] \subseteq WRs

\* post_balance counts exactly the thread's READs whose completion nobody
\* has polled yet, although the completions are polled by whichever
\* thread of the shared context gets to them first: poll_cq must credit
\* each CQE to the thread its wr_id names.
BalanceAccounted ==
    \A t \in Threads :
        post_balance[t] = Cardinality({w \in inflight[CtxOf(t)] \cup cq[CtxOf(t)] :
                                          w.t = t})

\* A query's result is the intersection (union) of its keys' posting lists
\* in the text index: the offline build must place each list whole on one
\* memory node at the byte offset its meta file implies, and the operation
\* only starts once every READ of the query has landed in the thread's
\* buffer, never on what an earlier query left there.
ResultsCorrect ==
    \A q \in QIdx : result[q] /= NoResult => result[q] = Reference(q)

\* A context's completion queue never holds more CQEs than the
\* max_send_queue_wr entries it was created with (a CQ overrun).
CQNotOverrun ==
    \A c \in Contexts : Cardinality(cq[c]) <= max_send_queue_wr

\* Every READ query is answered and every thread gets past end_latch_.
QueriesAnswered ==
    <>(/\ \A q \in QIdx : Queries[q].type = "READ" => result[q] /= NoResult
       /\ \A t \in Threads : pc[t] = "done")

\* The progress output never divides by zero (the dynamic handler guards
\* the same expression with std::max<u32>(queries.size() / 10, 1)).
NoDivisionByZero == \A t \in Threads : pc[t] /= "sigfpe"
=============================================================================
