# TLA+ models of the RDMA inverted index

This directory holds TLA+ models of the distributed inverted index in `src/`.
Most of them model the dynamic, updatable block index
(`src/src/index/block_based_dynamic/`). In that index, compute threads insert
document ids into posting lists held in remote memory. They use only one-sided
RDMA READ, WRITE and CAS, so the memory nodes run no index code of their own.
Other modules model:
- the list operations every handler uses;
- the term-based and document-based query handlers;
- the message protocol by which compute nodes and memory nodes start up and
  shut down;
- the offline build of the index files, and of an update workload.

## 1. The system

| part | code | state | operations |
|---|---|---|---|
| posting-list blocks | `block_based/read_buffer.hh`, `block_based_dynamic/remote_pointer.hh`, `insert.hh` | remote blocks: a version word per cache line, id slots (tombstone = u32 -1), a footer with the next pointer word (p_tag, node, offset) and the last word (version, b_tag, lock bit) | `find_block_and_insert`, `LOCK_block`, `allocate_and_write_block`, `split_block`, `ordered_insert`, `WRITE_and_unlock_block` |
| READ completion | `block_based_dynamic/compute_thread.hh` | per-thread read buffer (32 columns × 2 rows), post balance | `set_ready_and_validate` re-READs a block that is locked or whose line versions differ |
| free list | `block_based_dynamic/free_list.hh`, `memory_node.hh` | 16 head words and a next word per block, per memory node | `allocate` (READ head, READ next, CAS), `deallocate` (READ head, WRITE next, CAS), `initialize_freelist` |
| query processing | `block_based_dynamic/query_handler.hh`, `compute_node_impl.hh`, `query/` | shared query queue, latches, catalog `remote_pointers_` | `process_queries`: INSERT calls `find_block_and_insert` per key until it returns true; READ runs `block_intersection`; the thread flushes after each query |
| intersection | `block_based/block_operations.hh`, `operations.hh` | prefetched blocks per term | `block_intersection`, `compute_intersection`, `compute_union` |
| term-based handler | `term_based/query_handler.hh`, `compute_thread.hh`, `remote_pointer.hh`, `shared_context.hh`, `latch.hh` | shared query queue, two latches, per-thread post balance and buffers, `min(threads, MAX_QPS)` shared contexts with one send CQ each | `process_queries`: READ one list per key, poll, `compute_intersection` or `compute_union` |
| document-based handler | `document_based/query_handler.hh`, `compute_thread.hh`, `rdma-library/library/batched_read.hh` | as the term-based handler, plus per thread two read buffers with `posted_to_buffer` and a `ReadBufferInfo` each | `process_queries`: visit the memory nodes in shuffled order; per node one `BatchedREAD` of the keys' lists into one buffer, while the previous buffer's row is operated on |
| start-up and shutdown | `compute_node_impl.hh`, `memory_node.hh`, `query/distribute_queries.hh`, `rdma-library/library/connection_manager.cc`, `context.cc`, `queue_pair.cc`, `detached_qp.hh` | per node: its place in the constructor; per queue pair: posted SENDs and receives; per context: send and receive CQs | TCP handshakes; SEND/RECV of the index location, sizes, tokens, node infos, query batches, QPInfos, ready, statistics, timings, done |
| offline build | `data_processing/serializer/`, `data_processing/partitioner/`, `assign_remote_pointers` of the query handlers, `memory_node.hh` | the serialized index file; per memory node a meta file and an index file; the catalog of `RemotePtr`s | `serialize`, the document-, term- and block-based `partition`, `assign_remote_pointers`, `read_index_into_memory` |
| update workload | `data_processing/update_queries/`, `serializer/`, the block-based `partition` | the documents file, the drawn ids, the insert-documents file, the rebuilt text and binary index | `create_documents`, `draw_documents_and_create_index`, `serialize`, `BlockBasedPartitioner::partition` |
| plumbing | `rdma-library/`, `timing/` | ibverbs objects, counters | connection setup, timing |

**How the parts interact.** An insert walks a list block by block and
prefetches each successor into the other row. It locks the block where the id
belongs with a CAS on the block's last word. That CAS compares the version,
the tag and the lock bit. If the block is full, the thread splits it into a
block taken from the free list. The new block's WRITE completes before the
WRITE that links to it and releases the lock. Readers never lock: a torn or
locked image is READ again.

**Hard behaviours.**
- Torn READs and WRITEs. Each cache line moves atomically, and lines arrive in
  any order.
- Concurrent CAS on the same block.
- A stale but valid image used for the CAS.
- Splits racing list walks.
- Retry loops that could spin.
- The process exiting in `lib_assert` while a lock is held.
- Threads sharing a context poll each other's completions.
- Start-up messages are untyped SENDs. Each lands in whatever receive the
  peer posted next, and every wait counts completions of a shared CQ.

## 2. Modules

| module | models | state ↔ code |
|---|---|---|
| `FreePool` | abstract: a pool of free blocks and the blocks each thread owns | `free`, `owned` |
| `FreeList` | `FreeList::allocate` and `deallocate`, and `initialize_freelist` | `head`/`next` are the remote words. `flb` is the `FreeListBuffers`. Each remote operation, which the thread waits for, is one action. `Exited` is `lib_assert`'s `std::exit` |
| `MC_FreeList` | TLC instance | two threads, with programs of alloc/dealloc calls |
| `PostingList` | abstract: one strictly ascending id list per term; each insert adds its id to its term's list atomically | `postings`, `pending` |
| `DynamicIndex` | `find_block_and_insert` with everything it calls, the READ completion handler, and the per-query flush | see below |
| `IndexQueries` | READ queries beside the inserts: `block_intersection<true>` and the READ branch of `process_queries` | EXTENDS `DynamicIndex`; see below |
| `MC_DynamicIndex` | TLC instances | two threads, 4 blocks, blocks of 2 lines / 3 slots; one term, or two terms of which one has no list |
| `SetOperations` | `compute_intersection` and `compute_union` of `operations.hh` | a record holding the loop's locals (iterators, `curr_value`, `count`, the heap, `last_element`, the output); one operator per loop branch, and `InterLoop`/`UnionLoop` running the whole loop |
| `MC_SetOperations` | TLC instance | `op`, `st`: one loop iteration per step; every heap entry that may be on top is a separate step |
| `TermQueries` | term-based `process_queries` with `READ_list`, `poll_cq`, the latches and the shared contexts | see below |
| `Partitioner` | the offline build as operators on files of u32 words: `Serialize`, `DocumentPartition`, `TermPartition`, both handlers' `assign_remote_pointers` (`DocumentCatalog`, `TermCatalog`) and `READ_remote` | a file is a sequence of words; each recursive operator is one loop of the code, carrying the loop's locals (position in the file, list counter, running byte offset). The catalogs' `ok` flag is the conjunction of the `lib_assert`s on the meta node and on a pointer assigned twice |
| `MC_TermQueries` | TLC instance | three terms of a text index, partitioned by term over two memory nodes (the third list lands on node 0 at byte offset 8), a ten-query file with three READs, and a two-query file |
| `DocumentQueries` | document-based `process_queries` with `READ_row_into_buffer`, `BatchedREAD`, `poll_cq`, the latches and the shared contexts | see below |
| `MC_DocumentQueries` | TLC instance | three terms of a text index, partitioned by document over two memory nodes (term 2 has nothing on node 0), a ten-query file with two READs, and a file whose one READ has no list on node 0 |
| `BlockPartitioner` | `partition<BlockBasedPartitioner>` and `BlockBasedPartitioner::partition`, with main's `-a` key set | `binary` is the input file, `pos` the deserializer's position, `j` the list counter, `node`, `offsets`, `meta`, `ibatch` the code's `node`, `offset_per_memory_node`, `meta_batches_`, `index_batches_`; `accessed`/`next_list` the `-a` heap. One `partition_list` step is one iteration of the list loop; the block builder is a record `[ib, off, node, rem]` passed through `CacheLineVersioning`, `NewBlock`, `AddDocument`, `FillTombstones` and `SetNullPointer` |
| `UpdateBuild` | `create_documents`, `draw_documents_and_create_index`, `serialize` and `BlockPartitioner`, one program after the other | EXTENDS `BlockPartitioner`; see below |
| `MC_UpdateBuild` | TLC instance | 40 documents, 2 drawn; lists 0 .. 13, the even ids 0 .. 26, and `<<7>>`; 2 memory nodes; blocks of 32 and 128 bytes, with and without `-u` |
| `Startup` | the `ComputeNode` and `MemoryNode` constructors with the connection manager, `distribute_queries`, the worker threads' QP connection, `synchronize`, the gathering of statistics and `terminate` | see below |

**DynamicIndex in more detail.**
- `mem` is remote memory. `IndexBlocks[k]` is the chain of blocks the
  partitioner loads for term `k`; `Origin` is the block at node 0, offset 0,
  where the first loaded list starts.
- `RemotePointer(k)` is the catalog entry `remote_pointers_[k]` that
  `assign_remote_pointers` fills: the first block of `k`'s list, and
  `Origin` (the `(0,0)` default) for a term absent from the meta files.
- `todo[t]` is the thread's remaining `[term, id]` inserts; `Key(t)` and
  `Id(t)` are `query.keys[k_idx]` and `query.update_id` of its current one.
- `buf[t][r]` is the thread's read-buffer row `r`. `abuf[t]` is its
  `allocation_block`.
- `rd[t][r]` is a posted READ: its source, and the cache lines still to
  arrive.
- `wr[t][k]` is a posted WRITE from the allocation block (`k = "alloc"`) or
  the read-buffer block (`k = "block"`).
- `READ_line` and `WRITE_line` move one cache line. The last line of a READ
  runs `set_ready_and_validate`.
- The loop body splits into one action per branch: `descend`, `lock_failed`,
  `insert_in_block` (cases 2 and 4), and `lock_full_block` followed by
  `allocate_and_write_block` (cases 1 and 3).
- `WRITE_and_unlock_block` waits for the new block's WRITE. `insert_done` is
  the return plus `process_queries`' flush.
- The tag mismatch branch (`return false`) is not an action. No code path
  changes `b_tag`, so it cannot be taken. If it could, the model would
  deadlock, and deadlock is checked.
- The `!is_valid` branch is unreachable as well. `set_ready_and_validate`
  re-reads until the block is valid.
- `allocate_block` is an atomic pop from `pool`. This is justified by
  `FreeList` refining `FreePool`.
- `allocate_block_exits` is `allocate`'s `lib_assert` on a `TOMBSTONE`
  head. With fewer free blocks than the 16 head partitions, some partition
  is empty and any allocation may draw it (`freelist_oom` shows this in
  `FreeList`). The thread stops at `"exited"`, holding the remote lock of
  the block it was splitting. Its READs are done and its WRITEs flushed, so
  nothing else of it reaches remote memory. Each thread is its own compute
  process. The exit carries no fairness, and `InsertsComplete` is stated
  for the runs without an exit.

**IndexQueries in more detail.** It extends `DynamicIndex` with reader
threads, as history-variable extensions do: every insert step leaves the
reader variables unchanged, and every reader step leaves `DynamicIndex`'s
variables unchanged.
- `rbuf[q][c][r]` and `rrd[q][c][r]` are the reader's read buffer and its
  posted READs, one column per key. `RREAD_line` runs the same
  `set_ready_and_validate` as the inserters (a shared operator of
  `DynamicIndex`), so a reader re-READs torn and locked blocks.
- `rrow`, `rpos`, `cval`, `count` and `col` are `row`, `current_positions`,
  `current_value`, `count` and `col` of `block_intersection`. Positions are
  payload slots: the line-version words the code steps over are not slots.
- `result` is the sequence of ids handed to `result_handler`. The code only
  counts them.
- `keys[q]` is `query.keys` of the READ query reader q runs, any of the
  file's READ queries (`Reads`).
- `snap[q]` is a history variable: the ids common to the query's lists when
  it was posted.
- Actions: `process_READ` posts the first READs. `scan_block` is the
  `query_length == 1` loop, one block per step. `first_value` takes the
  first id. Each branch of the main loop is an action: `next_block`,
  `match` (not yet in every column), `full_match`, `full_match_last` (the
  match ends a block), `refill` (the wait for the next block after it) and
  `reset_value`. `flush_reads` is the flush after the query.
- Each loop iteration reads only the thread's own buffer, so one step per
  iteration loses no interleaving with remote memory.

**TermQueries in more detail.**
- The state is:
  - `start_latch` and `end_latch` are the latch counters;
  - `queue` is `query_queue_`;
  - `pc[t]` is where thread `t` is in `process_queries`;
  - `cur[t]` and `k_idx[t]` are the query and the key being posted;
  - `post_balance[t]` is the thread's counter;
  - `inflight[c]` and `cq[c]` are the READs and the completions of shared
    context `c` (= `t % MAX_QPS`);
  - `buf[t][k]` is the thread's buffer for key `k`;
  - `result[q]` is what `result_handler` got.
- The actions:
  - `arrive_start`, `pass_start`, `pop_empty` and `pass_end` are the latch
    and queue steps;
  - `pop_skip` skips an INSERT;
  - `pop_read` takes a READ, including the progress output, whose
    `q % (queries.size() / 10)` goes to `"sigfpe"` when the divisor is 0;
  - `READ_list` posts one key, behind the `prevent WR overflow` wait;
  - `Complete(c)` is the NIC finishing a READ of context `c`;
  - `poll_cq` takes up to `max_send_queue_wr` completions of the thread's
    context and decrements the balance of each one's owner;
  - `operate` runs `compute_intersection` or `compute_union` of
    `SetOperations` on the buffers.
- `Operate` looks the result up in a table computed once per run. Calling
  the recursive loop operators inside `ENABLED` (for fairness) re-evaluated
  them lazily and made liveness checking intractable.

**DocumentQueries in more detail.**
- The state adds to that of `TermQueries`:
  - `order`, `mi` and `bid` are `memory_nodes` after the shuffle, the
    iterator into it and `buffer_id`;
  - `info[t][b]` is `buffer_infos[b]`: one entry (node, key slot, term) per
    address range added, zero-length ones included;
  - `posted[t][b]` is `posted_to_buffer[b]`;
  - `buf[t][b][k]` names the list that last landed in key slot `k` of
    buffer `b`, or `Zero` for what `touch_memory` left;
  - `rows[q]` holds the lists each operation of query `q` ran on.
    `Emitted(q)` applies `compute_intersection` (or `compute_union`) to
    them. Recording the inputs, not the outputs, keeps the recursive
    operators out of the actions, so `ENABLED` never evaluates them.
- The actions:
  - `pop_read` picks any permutation of the memory nodes. `mt_` is shared
    by all threads without a lock, but `std::shuffle` only swaps, so any
    outcome of the race is still a permutation;
  - `READ_row_into_buffer` adds every key's range to the buffer's info and
    counts the non-empty ones in `post_balance` and `posted_to_buffer`;
  - `post_batch` is the wait `post_balance + requests > max_send_queue_wr`
    passed, then `BatchedREAD::post_batch`. Its `lib_assert(requests > 0)`
    goes to `"empty_batch"`;
  - `poll_cq` serves both waits: the batch wait above and
    `posted_to_buffer[buffer_id] > 0`;
  - `operate` runs on the previous buffer and clears its info;
  - `advance` moves to the next memory node and buffer;
  - `final` runs on the last buffer.
- A list's range holds its list only once its READ has landed. Until then
  it holds what an earlier READ or `touch_memory` left there, so an early
  operation computes on that.

**Partitioner and the MC modules.** `MC_DocumentQueries` and
`MC_TermQueries` do not state the lists on the memory nodes. They state a
text index (`MC_Lines`: "term: ids" lines, ids not in order) and run it
through the build: `Serialize` sorts each list; `DocumentPartition` sends
id `d` to node `d % 2` and counts it in the last length word of that node's
meta batch, `TermPartition` sends each whole list to the first node of
least cost; the handler's catalog gives each term its length and byte
offset; `READ_remote` cuts `length` words at `offset / 4` out of the
node's index file, which `read_index_into_memory` loaded from byte 0. That
is the handler's `Postings`. `Index`, the text index itself, is what
`ResultsCorrect` compares the answers with, so the property covers the
build and the queries together. An `ASSUME` states that the meta files
pass `assign_remote_pointers`' `lib_assert`s.

**Startup in more detail.**
- Every node runs one program, a sequence of instructions built by one
  operator per function of the code (`MemoryNode`, `ComputeNode`,
  `exchange_infos_with_compute_nodes`, `distribute_queries`, `Connect` for
  `DetachedQP::connect`, `terminate`, ...).
- Each instruction is one call into the RDMA library: `accept`,
  `tcp_connect`, `post_recv`, `post_send` (signaled or not), `poll_send`
  (`poll_send_cq_until_completion(n)`) and `receive(n)`.
- A message is only its kind, the thing its receiver expects in its buffer.
- `sq` and `rq` are the SENDs and receives posted on each queue pair.
  `scq` and `rcq` are each node's context CQs. `got` is the counter of the
  polling loop a node is in.
- `Deliver(a, b)` is the NIC. The oldest SEND of `a`'s QP to `b` fills the
  oldest receive `b` posted there, but only once there is one: `rnr_retry`
  is 7, which retries forever. A receive completion records the kind
  expected and the kind delivered.
- The polling actions take `min(n, available)` completions per poll, adding
  to `got` as the code's `num_entries += poll(...)` loop does.
- `dynamic` picks the build (`DYNAMIC_BLOCK`). The dynamic build adds the
  block size message and the second `gather_statistics`, and connects one
  QP per thread, not per shared context. `prog` holds the programs of that
  build, so that TLC computes them once.

**UpdateBuild in more detail.**
- `DocumentsFile` is what `create_documents` prints: line `i` holds document
  `i - 1` with the terms of the lists that contain it, in list order.
- `Init` picks any `num_samples`-subset of the ids (`std::sample`, which
  keeps the drawn ids in order) and pops the first.
- `draw_line` is one iteration of the `getline` loop: the drawn document
  goes to the insert-documents file `dof` and the next drawn id is popped
  if one is left; any other document is appended to its terms' lists.
- `write_index` writes the header `num_lists / num_lists` and the non-empty
  lists; `serialize` turns it into `binary`, and `BlockPartitioner` lays
  that out.
- The properties read the layout back the way `block_intersection` walks
  it: a term's meta entry, each block's payload (no line versions, no
  tombstones) and its footer, decoded as `read_buffer.hh` decodes it, until
  the null pointer.

**Refinement.** `DynamicIndex` implements `PostingList` under this mapping:
- `postings[k]` is the ids met walking from term `k`'s first loaded block
  (empty for a term with no loaded list). A block that is
  being written counts with the image its WRITE carries. A block's ids are its
  slots up to the first tombstone, as `verify_block` reads them.
- An insert takes effect when its block's WRITE is posted.

`FreeList` implements `FreePool` under this mapping:
- `free` is the set of blocks on the chains from the head words;
- `owned` is what the callers hold.

## 3. Runs

| run | cfg | result | what it shows |
|---|---|---|---|
| `freelist_alloc` | `MC_FreeList.cfg` | pass | `NoDoubleAllocation`, `FreePoolRefined`, `AllocationTerminates` for 2 threads with 2 allocations each, t1 freeing a block between them, 2 partitions, 4 free blocks; a single free racing allocations is safe, the ABA needs two allocations and a free by the other thread |
| `freelist_oom` | `MC_FreeList_oom.cfg` | violation of `OutOfMemoryOnlyWhenEmpty` | one thread empties partition 1, draws it again and exits, while block 1 is still free in partition 0 |
| `dynamic_insert` | `MC_DynamicIndex.cfg` | pass | `LockExclusive`, `PostingListRefined`, `InsertsComplete`, with process exits in `allocate_block`: an exit leaves no partial insert and nobody else takes its lock (11,035 states, about 110 s) |
| `query_intersect` | `MC_IndexQueries.cfg` | pass | `RTypeOK`, `ResultsSound`, `ResultsComplete`, `ReadsComplete` for a three-key intersection, or a one-key scan of the list being split, while an insert splits one of its lists (29,325 states, about 1 min) |
| `set_operations` | `MC_SetOperations.cfg` | pass | `TypeOK`, `IntersectionCorrect`, `UnionCorrect`, `OperationsTerminate` on every tuple of 1 to 3 sorted lists over ids {0,1,2} (6,316 states, 1 s) |
| `term_queries` | `MC_TermQueries.cfg` | pass | `TypeOK`, `BalanceAccounted`, `ResultsCorrect`, `QueriesAnswered` for 5 threads on 4 contexts, `max_send_queue_wr = 1`, ten queries, lists built from a three-term text index (572,563 states, about 90 s) |
| `term_cq_overrun` | `MC_TermQueries_overrun.cfg` | violation of `CQNotOverrun` | threads 0 and 4 share context 0; each has one READ outstanding, so its CQ, created with one entry, receives two completions |
| `doc_queries` | `MC_DocumentQueries.cfg` | pass | `TypeOK`, `BuffersAccounted`, `ResultsCorrect`, `QueriesAnswered` for 2 threads on 1 context, 2 memory nodes, `max_send_queue_wr = 4`, ten queries, lists built from a three-term text index (11,335 states, 5 s) |
| `doc_empty_batch` | `MC_DocumentQueries_empty.cfg` | violation of `NoEmptyBatch` | the query `<<2>>`: term 2 (ids 3 and 5) has no list on memory node 0, so the batch for node 0 is empty and `post_batch` asserts |
| `startup` | `MC_Startup.cfg` | pass | `TypeOK`, `MessagesMatch`, `CompletionsAccounted`, `StartupCompletes` for 2 compute nodes, 2 memory nodes, 3 threads and `MAX_QPS = 2`, in both builds (25,526 states, 10 s) |
| `update_build` | `MC_UpdateBuild.cfg` | pass (48,984 states, 15 s) | `TypeOK`, `DrawnAreSample`, `LayoutHoldsRemainder`, `IndexFilesWholeBlocks` for every draw of 2 of 40 documents and every block option: the insert-documents file holds exactly the drawn documents, and every list reads back from the blocks, across nodes, footers and cache-line versions, as its undrawn ids in order, in whole blocks |
| `dynamic_alias` | `MC_DynamicIndex_alias.cfg` | violation of `PostingListRefined` | term `k2` has no list, so its catalog entry stays `(0,0)`; t1's insert of 4 for `k2` READs block `(0,0)`, which is `k1`'s first block, and appends 4 to `k1`'s list |

**Bounds for `dynamic_insert`.**
- The list is loaded as a full block `[1,3,5]` and a block `[7]`.
- t1 inserts 8 (append at the tail) and then 2 (a split of the first block).
- t2 inserts 4 (a split, with the id going into the original block) and then
  6 (a walk over three blocks into an interior insert).
- So every path of the loop fires: descend, lock failure, in-place insert,
  lock of a full block, split, and delayed unlock.
- Two cache lines are the fewest that allow a torn block. Slot 3 shares the
  footer's line, so a torn image can mix ids with a stale next pointer.
- Four blocks allow two splits.

**Bounds for `query_intersect`.**
- k1 = [1,3,4] [5,7,8] [9], k2 = [3,4,6] [8], k3 = [1,3,5] [7,8].
- The cycle then meets current_value raised by a larger id, a match in some
  columns only, and a match in all columns, both inside a block (3) and at
  a block's end with a successor (8, which needs the refill).
- 4 is common to k1 and k2 only, and 5 to k1 and k3 only. So a `count`
  carried over a reset would report an id that is not in every list.
- t1's insert of 2 splits k2's first block while the reader walks it.
- The reader runs either READ query of the file (`keys` is chosen in
  `RInit`): the intersection, or `<<k2>>` alone, which takes the
  `query_length == 1` scan of the block being split.
- One reader: two readers take over 10 minutes and add no interaction,
  since readers share nothing but remote memory.

**Bounds for the newer runs.**
- `set_operations`:
  - Three lists allow an id to be in some lists and not in others.
  - Three ids give lists of every length up to 3.
  - Ties in the union heap occur in every input with a shared id.
  - `IdBits = 2` keeps u32(-1) = 3 out of the inputs: that case is
    `MC_SetOperations_sentinel.cfg`.
- `term_queries`:
  - Five threads make context 0 shared by threads 0 and 4, so a thread
    polls another's completions.
  - `max_send_queue_wr = 1` makes the `prevent WR overflow` wait fire on
    every second key.
  - Ten queries are the fewest that avoid the division by zero.
  - The READs have one and two keys; term 2 sits behind term 0 on node 0,
    so one READ is at a non-zero byte offset.
- `doc_queries`:
  - Node 0 holds the even documents 2 and 4, node 1 the odd 1, 3 and 5.
    The READs `<<0, 1>>` and `<<1, 2>>` meet one-key and two-key rows, a
    zero-length range (term 2 on node 0) inside a non-empty batch, and
    lists at non-zero byte offsets on both nodes.
  - Two memory nodes make every row after the first overlap with an
    operation. Two READ queries make a thread reuse both buffers, with the
    previous query's lists still in them.
  - `MAX_QPS = 1` makes both threads poll one CQ, so each decrements the
    other's counters.
  - `max_send_queue_wr = 4` is the least value at which a two-READ row
    passes the batch wait (see finding 7).
- `startup`:
  - Two compute nodes give an initiator and a non-initiator.
  - Two memory nodes make each compute node interleave its connections.
  - With 3 threads and `MAX_QPS = 2`, the term build connects 2 QPs per
    pair of nodes and the dynamic build 3. So `min(threads, MAX_QPS)`
    matters, and the memory node's client-major loop meets the compute
    node's context-major loop.
  - Three compute nodes also pass (228,431 states), but take 3 minutes.
- `update_build`:
  - 40 documents are the fewest for which `num_samples` (5%) is 2, so the
    pop of the next drawn id runs; documents 27 .. 39 are in no list.
  - Term 2 has the one id 7: a draw of 7 empties it, and the rebuilt file
    then announces three lists but holds two.
  - 32-byte blocks hold three ids with `-u` and six without, so the
    14-id lists chain over five or three blocks, alternating nodes.
    128-byte blocks take the second cache line's version word.
  - 14 ids per list keep TLC's recursive evaluation of the block loop
    within its stack.

**Mutants.** Each property of a passing run is checked to fail under a
plausible bug in a mapped definition (PROJECT.json lists them):
- a CAS that ignores the lock bit, or the version;
- `WRITE_and_unlock_block` without `set_unlock`;
- the row index without `% READ_BUFFER_DEPTH`;
- `initialize_freelist` linking `i+1`, or bounding with `<=`;
- allocate taking the block whatever the CAS returned, or retrying with a
  stale head;
- the column cycle without `% query_length`;
- the inner while loop stepping over an id equal to current_value;
- `reset_value` keeping `count`;
- the one-key loop stopping one slot early;
- `set_ready_and_validate` without `validate_cache_lines`, which makes a
  scan report a torn block;
- an unlock WRITE that leaves the lock bit set, which starves the readers;
- in `SetOperations`:
  - `reset_value` keeping `count`;
  - the inner while also stepping over an id equal to the candidate;
  - `compute_union` not updating `last_element`;
  - the inner while not advancing;
- in `TermQueries`:
  - the overflow wait allowing one more WR;
  - `poll_cq` decrementing the poller's own balance;
  - `operate` running before the balance is 0;
  - a latch arrival without `--count`;
- in `DocumentQueries`:
  - `buffer_id + 1` without `% NUM_READ_BUFFERS`;
  - `poll_cq` decrementing the poller's own `posted_to_buffer`;
  - the operation run on the current buffer, not the previous one;
  - the batch chain losing its last WR, so a buffer never drains;
- in `Partitioner` (through `ResultsCorrect` of `doc_queries` and
  `term_queries`):
  - `assign_remote_pointers` advancing the offset by the list size, not by
    `list_size * sizeof(u32)` bytes;
  - `serialize(false)`, which leaves each list in text order;
- in `UpdateBuild` and `BlockPartitioner`:
  - `std::sample` drawing from one past the last id;
  - the draw not popping the next drawn id;
  - a new block that does not advance the next node's offset;
  - the tombstone padding stopping one entry early;
- in `Startup`:
  - a poll assumed to return n completions;
  - the memory node sending the token before the sizes;
  - `terminate` waiting for one completion;
  - `DetachedQP::connect` SENDing before posting its receive, which
    deadlocks the first pair of nodes.

The following were also checked and are caught by `PostingListRefined`:
- dropping the version check of `validate_cache_lines`;
- unlocking before the new block's WRITE completed.

**Fairness.** Weak fairness per thread. Each thread is an OS thread that
polls its own completion queue, and the NIC completes every posted operation
on a reliable connection. No fairness is assumed between threads beyond that.
- `TermQueries` assumes the same fairness: weak fairness per thread, and on
  each context's READ completion.
- `Startup` assumes weak fairness per node: each node is a process that
  spins in its polling loops. It also assumes weak fairness of each
  queue pair's delivery. The RC transport with `rnr_retry = 7` delivers a
  SEND once a receive is posted.
- `DocumentQueries` assumes the same fairness as `TermQueries`.
- `MC_SetOperations` assumes weak fairness of its single loop.
- `UpdateBuild` assumes no fairness: it is a sequence of single-threaded
  programs, and its run checks safety only.

Five configurations reproduce findings but are not in the run list:
- `MC_SetOperations_sentinel.cfg` violates `UnionCorrect`. With ids {1,3}
  and `IdBits = 2`, 3 plays u32(-1), and `compute_union` of `<<3>>`
  returns `<<>>`.
- `MC_TermQueries_short.cfg` violates `NoDivisionByZero`. With a two-query
  file, the first READ computes `q % 0`.
- `MC_DocumentQueries_hang.cfg` deadlocks. It is `doc_queries` with
  `max_send_queue_wr = 3`, and a two-READ row waits for good.
- `MC_DynamicIndex_exit.cfg` violates `SurvivorsComplete`. t2 exits in
  `allocate_block` while splitting the list's first block; t1 then re-READs
  that locked block for ever.
- `MC_UpdateBuild_accessed.cfg` violates `LayoutHoldsRemainder`. With `-a`
  and the keys 0 and 1, list 0 is laid out and the loop breaks at list 1.

## 4. Findings

1. **Out of memory with free blocks left** (`free_list.hh:55`). `allocate`
   exits as soon as its random partition is empty (run `freelist_oom`).
2. **Insert for a term without a list goes into the first list**
   (`remote_pointer.hh:215`, `query_handler.hh:117`).
   - The spec reserves `(0,0)` as the null pointer of an empty list. It says
     the first insert materialises a block at the catalog slot.
   - The partitioner puts the first list's first block at node 0, offset 0.
   - `assign_remote_pointers` leaves an absent term at `(0,0)`.
   - `find_block_and_insert` has no null check.
   - So the insert lands in the first list (run `dynamic_alias`).
3. **The union drops id 0xFFFFFFFF** (`operations.hh:88`). `last_element`
   starts at u32(-1), so a first popped entry equal to it is taken for a
   duplicate (`MC_SetOperations_sentinel.cfg`).
4. **Shared completion queues overrun** (`term_based/query_handler.hh:172`).
   - Each thread keeps at most `max_send_queue_wr` READs outstanding.
   - With more threads than `MAX_QPS`, threads `t` and `t + MAX_QPS` share a
     context. Its send CQ (`context.cc:42`) and QPs (`queue_pair.cc:44`)
     have only `max_send_queue_wr` entries.
   - The document-based handler does not overrun in this way. It counts
     each batch twice in `post_balance` (`document_based/query_handler.hh:187`
     and `204`). That caps each thread at `max_send_queue_wr / 2`
     outstanding READs, so two threads sharing a context stay within its
     entries.
5. **Division by zero with fewer than ten queries**
   (`term_based/query_handler.hh:149`, `document_based/query_handler.hh:236`).
   - This also happens when a compute node's share of the file is under
     ten queries.
   - The dynamic handler guards the same expression with `max(..., 1)`
     (`MC_TermQueries_short.cfg`).
6. **An empty READ batch stops the compute node**
   (`document_based/query_handler.hh:210`, `batched_read.hh:57`).
   - A term absent from a memory node's documents keeps the default remote
     pointer `{0, 0}`.
   - `READ_row_into_buffer` skips zero-length keys, then calls `post_batch`
     in any case.
   - `post_batch` asserts `requests > 0`. So any query none of whose terms
     occurs on one memory node exits the process (run `doc_empty_batch`).
7. **The batch wait counts its own READs twice**
   (`document_based/query_handler.hh:204`).
   - `post_balance` is incremented for each READ added to the batch. The wait
     then adds `batched_read.requests` again.
   - Each row is waited for before the next is posted, so the wait is either
     a no-op or an endless loop. It loops for good as soon as a row has more
     than `max_send_queue_wr / 2` READs, although the queue has room
     (`MC_DocumentQueries_hang.cfg`).

8. **With `-a` the list of the largest key is never laid out**
   (`block_based.hh:124-127`).
   - The loop pops the next key from the heap when it meets the wanted
     list, and breaks when it meets it with the heap already empty.
   - The largest key is popped last, so its list is met with an empty heap
     and skipped; with a one-key file nothing is laid out
     (`MC_UpdateBuild_accessed.cfg`).

**Held: the update workload build.** Drawing, rewriting, serializing and
partitioning lose, invent and duplicate no id (`update_build`), although
the rebuilt header still counts the lists the draw emptied: the block loop
stops on `bytes_left()`. The term- and document-based loops have no such
guard and would read past the file's end; the update run never feeds them
such a file.

**A latent bug: ABA in the free list** (`free_list.hh:76`).
- The CAS of `deallocate` and `allocate` compares only the head index.
- `FreeList` reaches it with two allocations and a free: t1 reads head 1
  and next 2. t2 allocates 1 and 2, then frees 1. t1's CAS succeeds and
  makes the held block 2 the head.
- No code under `src/` calls `deallocate`, so the program cannot reach it.
  It is neither a run nor a hazard. `freelist_alloc` still has t1 free a
  block between its allocations, so the refinement is also checked across a
  `deallocate`, in a program too short for the ABA.

**A process exit leaves its lock for ever** (`remote_pointer.hh:165`).
- `allocate_and_write_block` calls `allocate_block` while the thread holds
  the remote lock of the block it splits. `allocate` exits the process
  through `lib_assert` when the head partition it draws is empty.
- `dynamic_insert` shows that the lists stay intact: the new block is
  linked only by WRITEs that were never posted.
- But the lock bit stays set. Every other compute process that reaches the
  block re-READs it for ever, in inserts and in READ queries alike
  (`MC_DynamicIndex_exit.cfg`). The spec names no recovery for this.

**Held.** The start-up protocol is correct for the configurations checked:
- every message lands in the receive posted for it;
- no wait returns early or late;
- no node hangs, although the memory nodes connect client by client and
  the compute nodes context by context.

## 5. Not modelled, and the plan

Not modelled yet, and why:
- The tag fields: `b_tag` never changes. No code writes a block tag, and
  no code frees a block, so every tag stays 0. The tag checks of
  `find_block_and_insert` (`remote_pointer.hh:240-245`) therefore never
  fail, and the order in which `expected_tag` is overwritten cannot matter.
- The `just_writing` spin at `remote_pointer.hh:168`. It never polls, but it
  cannot be reached with a write in flight, because lines 202–204 wait first.
- Insert queries with several keys. Each key uses its own column, and the
  keys are not flushed between, so a key's unlock WRITE can still be in
  flight when the next key starts. The model flushes after every key.
- A thread mixing insert and READ queries. A thread is an inserter or a
  reader, and the flush separates a thread's queries.
- The 32-bit version wrap: it needs 2^32 writes.
- The RDMA library below the calls `Startup` models: memory regions,
  hugepages, queue-pair state transitions and ibverbs. These are I/O.
- Of the offline build: the writing of files and the command lines, and
  the conversion of the insert-documents file into a query file, which is
  not under `src/`. Timing and statistics: file I/O and arithmetic on
  counters. Configuration: option parsing, whose only checks (`block_size
  >= 12`, `-a` needs a key file) are the models' `ASSUME`s.
- `-u` blocks of 12 to 23 bytes: `remaining_block_entries` passes 4
  without equalling it and wraps to 2^32 - 1, beyond TLC's integers.
- `BlockPartitioner`'s layout is not yet `DynamicIndex`'s initial memory:
  `DynamicIndex` takes its loaded blocks as constants.
- A query key equal to the universe size. `read_queries` takes the largest
  key as the query universe and `compute_node_impl.hh:93` accepts it when it
  is `<=` the index's universe size, but the document- and term-based
  catalogs have `universe_size` entries, so that key reads past the vector.
  This is undefined behaviour, which TLC can only report as an evaluation
  error, and no run slot is left; it is listed as a hazard.
- In `DocumentQueries`:
  - the buffer sizing of `allocate_worker_threads` and the
    `local_buffer_length` asserts: the buffers are taken to be large
    enough;
  - `RemotePtr::READ_list`, which only the `BATCH_READ_REQUESTS = false`
    build uses;
  - the processing counters and timers.
- In `Startup`:
  - the index file read and memory allocation of the memory node, which are
    local I/O;
  - the queries run between `synchronize` and `join_threads`, which
    `TermQueries` and `DynamicIndex` model;
  - the `INLINE_SIZE` limit of inlined SENDs, which depends only on the
    length of the index path.
- Three checks were run once but are not in the run list:
  - the ABA trace of `FreeList`, because `deallocate` is dead code;
  - a two-thread `term_queries`, which the five-thread run covers;
  - a three-compute-node `startup`, which takes 3 minutes.

Next, in order:
1. An insert into a loaded but empty list: the partitioner writes an
   all-tombstone block, and `get_min_max` asserts a non-tombstone minimum
   (`read_buffer.hh:130`).
2. `DynamicIndex` started from `BlockPartitioner`'s layout, not from
   constant blocks.
3. `Startup` composed with the query phase, so that the statistics
   gathering follows the threads' end latch.
