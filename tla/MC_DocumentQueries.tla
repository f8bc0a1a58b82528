------------------------ MODULE MC_DocumentQueries --------------------------
(***************************************************************************)
(* The document-based handler over lists produced by the offline build:    *)
(* the text index is serialized, partitioned by document over the two     *)
(* memory nodes, each node loads its index file, and the handler's         *)
(* assign_remote_pointers reads the meta files. A key's list on node n is  *)
(* what an RDMA READ of its RemotePtr returns from that node's buffer.     *)
(***************************************************************************)
EXTENDS DocumentQueries

Build == INSTANCE Partitioner

\* Universe and number of lists, then "term: ids" in text order. Documents
\* go to node id % 2: term 2 has nothing on node 0, term 1 one id on each.
MC_Lines ==
    <<[term |-> 0, docs |-> <<4, 1, 2>>],
      [term |-> 1, docs |-> <<3, 2>>],
      [term |-> 2, docs |-> <<5, 3>>]>>
MC_Index == [i \in 0 .. 2 |-> MC_Lines[i + 1].docs]

MC_File == Build!Serialize(3, 3, MC_Lines)
MC_Parts == Build!DocumentPartition(MC_File, 2)
MC_Catalog(n) == Build!DocumentCatalog(MC_Parts.meta[n], n)

\* The meta files pass assign_remote_pointers' lib_asserts.
ASSUME \A n \in 0 .. 1 : MC_Catalog(n).ok

MC_PostingsFn ==
    [n \in 0 .. 1 |-> [k \in 0 .. 2 |->
        Build!READ_remote(MC_Parts.index[n], MC_Catalog(n).ptrs[k])]]

Read(keys) == [type |-> "READ", keys |-> keys]
Insert(k) == [type |-> "INSERT", keys |-> <<k>>]

\* Ten queries, so that queries.size() / 10 is 1; the inserts are skipped.
MC_Queries ==
    <<Read(<<0, 1>>), Insert(0), Insert(1), Read(<<1, 2>>), Insert(0),
      Insert(1), Insert(0), Insert(2), Insert(1), Insert(0)>>

\* A query of term 2 alone: nothing of it on memory node 0.
MC_RareQueries ==
    <<Read(<<2>>), Insert(0), Insert(1), Insert(0), Insert(1),
      Insert(0), Insert(1), Insert(0), Insert(1), Insert(0)>>
=============================================================================
