----------------------------- MODULE Partitioner -----------------------------
(***************************************************************************)
(* The offline build and the way its files come back as remote lists:      *)
(*   - serialize (data_processing/serializer) turns the text index into a  *)
(*     file of u32 words: universe, num_lists, then per list its term, its *)
(*     size and its ids, sorted;                                           *)
(*   - the partitioner (data_processing/partitioner) reads that file and   *)
(*     writes per memory node a meta file [node | universe | num lists |  *)
(*     term | length | ...] and an index file of the ids;                  *)
(*   - the memory node reads its index file into its index buffer from     *)
(*     byte 0 (read_index_into_memory);                                    *)
(*   - a query handler reads every meta file in assign_remote_pointers and *)
(*     keeps per term a RemotePtr (length in ids, offset in bytes), which  *)
(*     an RDMA READ of length * sizeof(u32) bytes at that offset turns     *)
(*     back into a list.                                                   *)
(* Files are sequences of u32 words; the operators run the code's loops.  *)
(***************************************************************************)
EXTENDS Integers, Sequences, SequencesExt, FiniteSets, TLC

SIZEOF_U32 == 4

(***************************************************************************)
(* Serializer::serialize. A text line "term: id id ..." becomes a record   *)
(* [term, docs] with the ids in text order.                                *)
(***************************************************************************)
Serialize_unsorted(universe, num_lists, lines) ==
    <<universe, num_lists>> \o
    FlattenSeq([i \in DOMAIN lines |->
                   <<lines[i].term, Len(lines[i].docs)>> \o lines[i].docs])

Serialize(universe, num_lists, lines) ==
    <<universe, num_lists>> \o
    FlattenSeq([i \in DOMAIN lines |->
                   <<lines[i].term, Len(lines[i].docs)>>
                   \o SortSeq(lines[i].docs, LAMBDA a, b : a < b)])

\* The ids of the list whose term is at word pos of the serialized file.
ListAt(f, pos) == SubSeq(f, pos + 2, pos + 1 + f[pos + 1])

\* partition<Partitioner>: one meta batch {memory_node, universe_size, 0}
\* and one empty index batch per memory node.
Batches(f, num_nodes) ==
    [meta  |-> [n \in 0 .. num_nodes - 1 |-> <<n, f[1], 0>>],
     index |-> [n \in 0 .. num_nodes - 1 |-> <<>>]]

(***************************************************************************)
(* DocumentBasedPartitioner::partition: every term goes to every memory    *)
(* node with a length of 0; document d goes to node d % num_nodes, which   *)
(* increments the last length word of that node's meta batch.             *)
(***************************************************************************)
AddDocument(num_nodes, st, d) ==
    LET node == d % num_nodes
    IN  [st EXCEPT !.meta[node] = [@ EXCEPT ![Len(@)] = @ + 1],
                   !.index[node] = Append(@, d)]

RECURSIVE DocumentLists(_, _, _, _, _)
DocumentLists(f, num_nodes, pos, j, st) ==
    IF j = f[2] THEN st
    ELSE LET added == [st EXCEPT !.meta = [n \in DOMAIN @ |->
                                              @[n] \o <<f[pos], 0>>]]
             Add(s, d) == AddDocument(num_nodes, s, d)
         IN  DocumentLists(f, num_nodes, pos + 2 + f[pos + 1], j + 1,
                           FoldLeft(Add, added, ListAt(f, pos)))

DocumentPartition(f, num_nodes) ==
    LET b == Batches(f, num_nodes)
        all_lists == [b EXCEPT !.meta = [n \in DOMAIN @ |->
                                            [@[n] EXCEPT ![3] = f[2]]]]
    IN  DocumentLists(f, num_nodes, 3, 0, all_lists)

(***************************************************************************)
(* TermBasedPartitioner::partition: each list goes whole to the memory     *)
(* node with the lowest cost so far (std::min_element: the first such     *)
(* node), whose cost grows by the list's size.                            *)
(***************************************************************************)
MinNode(costs) ==
    CHOOSE n \in DOMAIN costs : /\ \A m \in DOMAIN costs : costs[n] <= costs[m]
                                /\ \A m \in 0 .. n - 1 : costs[m] > costs[n]

RECURSIVE TermLists(_, _, _, _)
TermLists(f, pos, j, st) ==
    IF j = f[2] THEN st
    ELSE LET n == MinNode(st.costs)
             size == f[pos + 1]
         IN  TermLists(f, pos + 2 + size, j + 1,
                 [st EXCEPT !.costs[n] = @ + size,
                            !.meta[n] = [@ EXCEPT ![3] = @ + 1]
                                        \o <<f[pos], size>>,
                            !.index[n] = @ \o ListAt(f, pos)])

TermPartition(f, num_nodes) ==
    LET b == Batches(f, num_nodes)
    IN  TermLists(f, 3, 0, [meta |-> b.meta, index |-> b.index,
                            costs |-> [n \in 0 .. num_nodes - 1 |-> 0]])

(***************************************************************************)
(* assign_remote_pointers. The catalog has universe_size entries, all      *)
(* null ({0, 0}) at first. The meta file must name its own memory node,    *)
(* and no entry may be assigned twice; both are lib_asserts, which the    *)
(* `ok` flag records. Offsets count bytes.                                 *)
(***************************************************************************)
NullPtr == [memory_node |-> 0, length |-> 0, offset |-> 0]
is_null(r) == r = NullPtr

RECURSIVE AssignLists_words(_, _, _, _, _, _)
AssignLists_words(meta, node, i, pos, offset, cat) ==
    IF i = meta[3] THEN cat
    ELSE AssignLists_words(meta, node, i + 1, pos + 2, offset + meta[pos + 1],
             [cat EXCEPT !.ok = @ /\ is_null(cat.ptrs[meta[pos]]),
                         !.ptrs[meta[pos]] = [memory_node |-> node,
                                              length |-> meta[pos + 1],
                                              offset |-> offset]])

RECURSIVE AssignLists(_, _, _, _, _, _)
AssignLists(meta, node, i, pos, offset, cat) ==
    IF i = meta[3] THEN cat
    ELSE LET term == meta[pos]
             size == meta[pos + 1]
         IN  AssignLists(meta, node, i + 1, pos + 2, offset + size * SIZEOF_U32,
                 [cat EXCEPT !.ok = @ /\ is_null(cat.ptrs[term]),
                             !.ptrs[term] = [memory_node |-> node,
                                             length |-> size,
                                             offset |-> offset]])

\* The document-based handler keeps one catalog per memory node (its
\* RemotePtr has no memory_node field, which stays 0 here).
DocumentCatalog(meta, node) ==
    AssignLists(meta, 0, 0, 4, 0,
                [ok |-> meta[1] = node,
                 ptrs |-> [t \in 0 .. meta[2] - 1 |-> NullPtr]])

\* The term-based handler keeps one catalog, sized at memory node 0, and
\* reads the meta files of nodes 0, 1, ... in turn.
RECURSIVE TermCatalogFrom(_, _, _)
TermCatalogFrom(metas, node, cat) ==
    IF node \notin DOMAIN metas THEN cat
    ELSE TermCatalogFrom(metas, node + 1,
             AssignLists(metas[node], node, 0, 4, 0,
                         [cat EXCEPT !.ok = @ /\ metas[node][1] = node]))

TermCatalog(metas) ==
    TermCatalogFrom(metas, 0,
        [ok |-> TRUE, ptrs |-> [t \in 0 .. metas[0][2] - 1 |-> NullPtr]])

\* An RDMA READ of r.length ids at byte r.offset of an index buffer that
\* holds the index file from byte 0.
READ_remote(index, r) ==
    SubSeq(index, r.offset \div SIZEOF_U32 + 1,
                  r.offset \div SIZEOF_U32 + r.length)
=============================================================================
