-------------------------- MODULE MC_TermQueries ----------------------------
(***************************************************************************)
(* The term-based handler over lists produced by the offline build: the   *)
(* text index is serialized and partitioned by term over two memory nodes *)
(* (each list whole on the node with the lowest cost so far), and         *)
(* assign_remote_pointers reads both meta files into one catalog. A key's  *)
(* list is what an RDMA READ of its RemotePtr returns from its node.      *)
(***************************************************************************)
EXTENDS TermQueries

Build == INSTANCE Partitioner

\* Terms 0 and 1 share the id 1. Term 0 goes to node 0 and term 1 to node
\* 1; with equal costs term 2 goes to node 0 behind term 0's two ids.
MC_Lines ==
    <<[term |-> 0, docs |-> <<1, 0>>],
      [term |-> 1, docs |-> <<2, 1>>],
      [term |-> 2, docs |-> <<1>>]>>
MC_Index == [i \in 0 .. 2 |-> MC_Lines[i + 1].docs]

MC_File == Build!Serialize(3, 3, MC_Lines)
MC_Parts == Build!TermPartition(MC_File, 2)
MC_Catalog == Build!TermCatalog(MC_Parts.meta)

\* The meta files pass assign_remote_pointers' lib_asserts.
ASSUME MC_Catalog.ok

MC_Postings ==
    [k \in 0 .. 2 |-> LET r == MC_Catalog.ptrs[k]
                      IN  Build!READ_remote(MC_Parts.index[r.memory_node], r)]

Read(keys) == [type |-> "READ", keys |-> keys]
Insert(k) == [type |-> "INSERT", keys |-> <<k>>]

\* Ten queries, so that queries.size() / 10 is 1; the inserts are skipped.
MC_Queries ==
    <<Read(<<0, 1>>), Insert(0), Insert(1), Read(<<2>>), Insert(0),
      Insert(1), Insert(0), Read(<<1, 2>>), Insert(1), Insert(0)>>

\* Fewer than ten queries.
MC_ShortQueries == <<Read(<<0>>), Insert(1)>>
=============================================================================
