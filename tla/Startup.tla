------------------------------- MODULE Startup -------------------------------
(***************************************************************************)
(* How the compute nodes (ComputeNode, compute_node_impl.hh) and the      *)
(* memory nodes (MemoryNode, memory_node.hh) set up, synchronise and shut *)
(* down. Every node runs one sequential program. Past the TCP handshakes, *)
(* its nodes talk only through two-sided RDMA SEND and RECV on reliable   *)
(* connections whose rnr_retry is 7 (retry forever): a SEND waits in its  *)
(* queue pair until the peer has posted a receive, and then fills the     *)
(* oldest receive posted there.                                           *)
(*                                                                         *)
(* Each node program is a sequence of instructions, one per call into the *)
(* RDMA library:                                                           *)
(*   accept        Context::wait_for_connection                            *)
(*   tcp_connect   Context::connect_to_server (spins until the peer is at  *)
(*                 its accept)                                             *)
(*   post_recv     QueuePair::post_receive, for a message of some kind     *)
(*   post_send     QueuePair::post_send(_inlined), signaled or not         *)
(*   poll_send     Context::poll_send_cq_until_completion(n)               *)
(*   receive       Context::receive(), Context::receive(n)                 *)
(* A message is abstracted to its kind: what the receiving code expects   *)
(* to find in its buffer ("sizes", "token", "qpinfo", ...).                *)
(*                                                                         *)
(* The programs are built once for both builds: `dynamic` is the          *)
(* DYNAMIC_BLOCK build (MemoryNode<true>, block_based_dynamic handler),    *)
(* otherwise the term- and document-based handlers with shared contexts. *)
(***************************************************************************)
EXTENDS Integers, Sequences, SequencesExt, FiniteSets

CONSTANTS
    NumClients,   \* compute nodes, the initiator included (num_total_clients)
    NumServers,   \* memory nodes (num_server_nodes)
    NumThreads,   \* config.num_threads of the initiator
    MAX_QPS       \* constants.hh

ASSUME NumClients >= 1 /\ NumServers >= 1 /\ NumThreads >= 1 /\ MAX_QPS >= 1

C(i) == <<"c", i>>
M(j) == <<"m", j>>
Initiator == C(0)
ClientSeq == [i \in 1 .. NumClients |-> C(i - 1)]
ServerSeq == [j \in 1 .. NumServers |-> M(j - 1)]
OtherClients == Tail(ClientSeq)          \* the initiator's cm_.client_qps
Clients == ToSet(ClientSeq)
Servers == ToSet(ServerSeq)
Nodes == Clients \cup Servers

\* The instructions.
Accept            == [op |-> "accept"]
TcpConnect(p)     == [op |-> "tcp_connect", peer |-> p]
PostRecv(p, k)    == [op |-> "post_recv", peer |-> p, kind |-> k]
PostSend(p, k, s) == [op |-> "post_send", peer |-> p, kind |-> k, sig |-> s]
PollSend(n)       == [op |-> "poll_send", n |-> n]
Receive(n)        == [op |-> "receive", n |-> n]

\* A `for` loop over a sequence of peers.
ForEach(xs, Body(_)) == FlattenSeq([i \in DOMAIN xs |-> Body(xs[i])])
Times(n, body) == FlattenSeq([i \in 1 .. n |-> body])

\* QueuePair::receive_u32 and the SEND and receive of one inlined value.
receive_u32(p, k) == <<PostRecv(p, k), Receive(1)>>
send_and_wait(p, k) == <<PostSend(p, k, TRUE), PollSend(1)>>

(***************************************************************************)
(* DetachedQP::connect over the channel QP to p: post the receive for the *)
(* peer's QPInfo, SEND ours, wait for the SEND, wait for the QPInfo.      *)
(***************************************************************************)
Connect_send_first(p) ==
    <<PostSend(p, "qpinfo", TRUE), PollSend(1), PostRecv(p, "qpinfo"), Receive(1)>>
Connect(p) ==
    <<PostRecv(p, "qpinfo"), PostSend(p, "qpinfo", TRUE), PollSend(1), Receive(1)>>

(***************************************************************************)
(* The memory node: MemoryNode's constructor.                             *)
(***************************************************************************)
qps_per_node(dynamic) ==
    IF dynamic THEN NumThreads ELSE Min({NumThreads, MAX_QPS})

connect_to_clients == Times(NumClients, <<Accept>>)

receive_index_location ==
    receive_u32(Initiator, "num_threads") \o receive_u32(Initiator, "len")
    \o <<PostRecv(Initiator, "file"), Receive(1)>>

server_synchronize ==
    ForEach(ClientSeq, LAMBDA c : <<PostSend(c, "ready", TRUE)>>)
    \o <<PollSend(NumClients)>>

idle ==
    ForEach(ClientSeq, LAMBDA c : <<PostRecv(c, "done")>>) \o <<Receive(NumClients)>>

MemoryNode_tokens_first(dynamic) ==
    connect_to_clients \o receive_index_location
    \o (IF dynamic THEN receive_u32(Initiator, "block_size") ELSE <<>>)
    \o ForEach(ClientSeq, LAMBDA c : send_and_wait(c, "token"))
    \o ForEach(ClientSeq, LAMBDA c : send_and_wait(c, "sizes"))
    \o ForEach(ClientSeq, LAMBDA c : Times(qps_per_node(dynamic), Connect(c)))
    \o server_synchronize \o idle
MemoryNode(dynamic) ==
    connect_to_clients \o receive_index_location
    \o (IF dynamic THEN receive_u32(Initiator, "block_size") ELSE <<>>)
    \o ForEach(ClientSeq, LAMBDA c : send_and_wait(c, "sizes"))
    \o ForEach(ClientSeq, LAMBDA c : send_and_wait(c, "token"))
    \o ForEach(ClientSeq, LAMBDA c : Times(qps_per_node(dynamic), Connect(c)))
    \o server_synchronize \o idle

(***************************************************************************)
(* The compute node c: ComputeNode's constructor with the connection      *)
(* manager, the query distribution and the worker threads' QPs.           *)
(***************************************************************************)
IsInitiator(c) == c = Initiator

\* ClientConnectionManager::connect_among_clients: the initiator connects
\* to every other compute node, which waits for it.
connect_among_clients(c) ==
    IF IsInitiator(c) THEN ForEach(OtherClients, LAMBDA o : <<TcpConnect(o)>>)
                      ELSE <<Accept>>

distribute_client_ids(c) ==
    IF IsInitiator(c)
    THEN ForEach(OtherClients, LAMBDA o : <<PostSend(o, "ids", TRUE)>>)
         \o <<PollSend(NumClients - 1)>>
    ELSE receive_u32(Initiator, "ids")

connect_to_servers == ForEach(ServerSeq, LAMBDA m : <<TcpConnect(m)>>)

\* The initiator sends the index file (num_threads and len unsignaled),
\* and in the dynamic build the block size, to every memory node.
send_index_file(c, dynamic) ==
    IF IsInitiator(c)
    THEN ForEach(ServerSeq, LAMBDA m :
             <<PostSend(m, "num_threads", FALSE), PostSend(m, "len", FALSE)>>
             \o send_and_wait(m, "file")
             \o (IF dynamic THEN send_and_wait(m, "block_size") ELSE <<>>))
    ELSE <<>>

receive_index_sizes == ForEach(ServerSeq, LAMBDA m : receive_u32(m, "sizes"))

exchange_infos_with_compute_nodes(c) ==
    IF IsInitiator(c)
    THEN ForEach(OtherClients, LAMBDA o :
             <<PostSend(o, "cinfo", TRUE), PostSend(o, "dir", TRUE), PollSend(2)>>)
    ELSE receive_u32(Initiator, "cinfo") \o receive_u32(Initiator, "dir")

receive_remote_access_tokens == ForEach(ServerSeq, LAMBDA m : receive_u32(m, "token"))

\* query::distribute_queries (only with more than one compute node) and
\* query::receive_queries.
distribute_queries(c) ==
    IF IsInitiator(c)
    THEN ForEach(OtherClients, LAMBDA o :
             <<PostSend(o, "batch_size", FALSE), PostSend(o, "batch", TRUE), PollSend(1)>>)
    ELSE receive_u32(Initiator, "batch_size") \o receive_u32(Initiator, "batch")

\* A SharedContext (term and document handlers) or, in the dynamic build,
\* ComputeThread::connect_qps: one DetachedQP to every memory node in turn.
connect_qps == ForEach(ServerSeq, Connect)

\* allocate_worker_threads: min(threads, MAX_QPS) shared contexts, or in the
\* dynamic build one connect_qps per thread.
allocate_worker_threads(dynamic) == Times(qps_per_node(dynamic), connect_qps)

client_synchronize == ForEach(ServerSeq, LAMBDA m : receive_u32(m, "ready"))

\* gather_statistics and gather_timings: the others SEND to the initiator.
gather(c, k) ==
    IF IsInitiator(c) THEN ForEach(OtherClients, LAMBDA o : receive_u32(o, k))
                      ELSE send_and_wait(Initiator, k)

join_threads(c, dynamic) ==
    gather(c, "stats") \o (IF dynamic THEN gather(c, "stats") ELSE <<>>)
    \o gather(c, "timing")

terminate_wait_one ==
    ForEach(ServerSeq, LAMBDA m : <<PostSend(m, "done", TRUE)>>) \o <<PollSend(1)>>
terminate ==
    ForEach(ServerSeq, LAMBDA m : <<PostSend(m, "done", TRUE)>>)
    \o <<PollSend(NumServers)>>

ComputeNode(c, dynamic) ==
    connect_among_clients(c) \o distribute_client_ids(c) \o connect_to_servers
    \o send_index_file(c, dynamic) \o receive_index_sizes
    \o exchange_infos_with_compute_nodes(c) \o receive_remote_access_tokens
    \o distribute_queries(c)
    \o allocate_worker_threads(dynamic) \o client_synchronize
    \o join_threads(c, dynamic) \o terminate

\* Every node's program in the given build.
Program(d) == [n \in Nodes |-> IF n \in Clients THEN ComputeNode(n, d) ELSE MemoryNode(d)]

-----------------------------------------------------------------------------
(***************************************************************************)
(* The run. A queue pair exists per connected pair of nodes; <<a, b>> is  *)
(* a's end of the connection to b.                                         *)
(***************************************************************************)
VARIABLES
    dynamic,   \* which build runs (DYNAMIC_BLOCK)
    prog,      \* the program of every node in that build
    pc,        \* per node: the next instruction of its program
    got,       \* per node: completions counted by the poll loop it is in
    sq,        \* per QP: SENDs posted and not yet delivered, oldest first
    rq,        \* per QP: receives posted and not yet filled (their kinds)
    scq,       \* per node: send completions in its context's send CQ
    rcq        \* per node: receive completions in its context's receive CQ,
               \* each the kind the receive was posted for and the kind of
               \* the message that filled it

vars == <<dynamic, prog, pc, got, sq, rq, scq, rcq>>

QPs == {<<a, b>> \in Nodes \X Nodes : a /= b}

Instr(n) == prog[n][pc[n]]
Done(n) == pc[n] > Len(prog[n])
At(n, op) == ~Done(n) /\ Instr(n).op = op

Init ==
    /\ dynamic \in BOOLEAN
    /\ prog = Program(dynamic)
    /\ pc = [n \in Nodes |-> 1]
    /\ got = [n \in Nodes |-> 0]
    /\ sq = [q \in QPs |-> <<>>]
    /\ rq = [q \in QPs |-> <<>>]
    /\ scq = [n \in Nodes |-> 0]
    /\ rcq = [n \in Nodes |-> <<>>]

Step(n) == pc' = [pc EXCEPT ![n] = @ + 1]

\* connect_to_server succeeds once the peer's wait_for_connection accepts;
\* both exchange QPInfo over TCP and go on.
wait_for_connection(n) ==
    /\ At(n, "tcp_connect")
    /\ LET p == Instr(n).peer
       IN  /\ At(p, "accept")
           /\ pc' = [pc EXCEPT ![n] = @ + 1, ![p] = @ + 1]
    /\ UNCHANGED <<dynamic, prog, got, sq, rq, scq, rcq>>

post_receive(n) ==
    /\ At(n, "post_recv")
    /\ rq' = [rq EXCEPT ![<<n, Instr(n).peer>>] = Append(@, Instr(n).kind)]
    /\ Step(n)
    /\ UNCHANGED <<dynamic, prog, got, sq, scq, rcq>>

post_send(n) ==
    /\ At(n, "post_send")
    /\ sq' = [sq EXCEPT ![<<n, Instr(n).peer>>] =
                 Append(@, [kind |-> Instr(n).kind, sig |-> Instr(n).sig])]
    /\ Step(n)
    /\ UNCHANGED <<dynamic, prog, got, rq, scq, rcq>>

(***************************************************************************)
(* The polling loops `do num_entries += poll(cq, n) while (num_entries <  *)
(* n)`: every poll takes up to n completions, whatever was counted before. *)
(* A poll that finds nothing changes nothing and is not a step.           *)
(***************************************************************************)
Polled_all(n, avail) == Instr(n).n
Polled(n, avail) == Min({Instr(n).n, avail})
LoopAfter(n, k) ==
    IF got[n] + k >= Instr(n).n
    THEN /\ got' = [got EXCEPT ![n] = 0] /\ Step(n)
    ELSE /\ got' = [got EXCEPT ![n] = @ + k] /\ UNCHANGED pc

poll_send_cq_until_completion(n) ==
    /\ At(n, "poll_send")
    /\ scq[n] > 0 \/ Instr(n).n = 0
    /\ LET k == Polled(n, scq[n])
       IN  /\ scq' = [scq EXCEPT ![n] = @ - k]
           /\ LoopAfter(n, k)
    /\ UNCHANGED <<dynamic, prog, sq, rq, rcq>>

receive(n) ==
    /\ At(n, "receive")
    /\ rcq[n] /= <<>>
    /\ LET k == Polled(n, Len(rcq[n]))
       IN  /\ rcq' = [rcq EXCEPT ![n] = SubSeq(@, k + 1, Len(@))]
           /\ LoopAfter(n, k)
    /\ UNCHANGED <<dynamic, prog, sq, rq, scq>>

(***************************************************************************)
(* The NIC: the oldest SEND of QP <<a, b>> fills the oldest receive posted *)
(* at b's end, once there is one (rnr_retry 7 retries without limit), and *)
(* completes in b's receive CQ and, if signaled, in a's send CQ.          *)
(***************************************************************************)
Deliver(a, b) ==
    /\ sq[<<a, b>>] /= <<>> /\ rq[<<b, a>>] /= <<>>
    /\ LET msg == Head(sq[<<a, b>>])
       IN  /\ rcq' = [rcq EXCEPT ![b] = Append(@, [exp |-> Head(rq[<<b, a>>]),
                                                   act |-> msg.kind])]
           /\ scq' = [scq EXCEPT ![a] = @ + (IF msg.sig THEN 1 ELSE 0)]
    /\ sq' = [sq EXCEPT ![<<a, b>>] = Tail(@)]
    /\ rq' = [rq EXCEPT ![<<b, a>>] = Tail(@)]
    /\ UNCHANGED <<dynamic, prog, pc, got>>

Node(n) ==
    \/ wait_for_connection(n) \/ post_receive(n) \/ post_send(n)
    \/ poll_send_cq_until_completion(n) \/ receive(n)

\* Every node has returned from its constructor.
Terminated == \A n \in Nodes : Done(n)

Next ==
    \/ \E n \in Nodes : Node(n)
    \/ \E q \in QPs : Deliver(q[1], q[2])
    \/ Terminated /\ UNCHANGED vars

\* Each node is a process of its own that spins in its polling loops, and
\* the NIC delivers a SEND once the peer has posted a receive.
Spec == Init /\ [][Next]_vars
        /\ \A n \in Nodes : WF_vars(Node(n))
        /\ \A q \in QPs : WF_vars(Deliver(q[1], q[2]))

-----------------------------------------------------------------------------

Kinds == {"ids", "num_threads", "len", "file", "block_size", "sizes", "token",
          "cinfo", "dir", "batch_size", "batch", "qpinfo", "ready", "stats",
          "timing", "done"}

TypeOK ==
    /\ dynamic \in BOOLEAN
    /\ \A n \in Nodes : pc[n] \in 1 .. Len(prog[n]) + 1
                        /\ got[n] \in Nat /\ scq[n] \in Nat
                        /\ \A i \in DOMAIN rcq[n] : rcq[n][i] \in [exp : Kinds, act : Kinds]
    /\ \A q \in QPs : /\ \A i \in DOMAIN sq[q] : sq[q][i] \in [kind : Kinds, sig : BOOLEAN]
                      /\ \A i \in DOMAIN rq[q] : rq[q][i] \in Kinds

\* Every message lands in a receive posted for that message: the order of
\* SENDs of each node matches the order in which its peers post their
\* receives on that connection, across the nodes' programs as they
\* interleave (a mismatch puts, say, an access token where the compute node
\* reads its index sizes).
MessagesMatch ==
    \A n \in Nodes : \A i \in DOMAIN rcq[n] : rcq[n][i].exp = rcq[n][i].act

\* The completion counting is exact: when poll_send_cq_until_completion(n)
\* returns, every SEND the node posted has been delivered (its buffer, a
\* local such as the query batch, may be reused), and when receive returns,
\* every receive the node posted has been filled (its buffer may be read).
JustDid(n, op) == pc[n] > 1 /\ prog[n][pc[n] - 1].op = op
CompletionsAccounted ==
    \A n \in Nodes :
        /\ JustDid(n, "poll_send") => \A q \in QPs : q[1] = n => sq[q] = <<>>
        /\ JustDid(n, "receive") => \A q \in QPs : q[1] = n => rq[q] = <<>>

\* Start-up, the queries and shutdown never hang: every compute node and
\* every memory node returns from its constructor (each waits on
\* completions only the others' steps produce).
StartupCompletes == <>Terminated

====
