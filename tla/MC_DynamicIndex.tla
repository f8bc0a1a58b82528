-------------------------- MODULE MC_DynamicIndex --------------------------
(* Instantiates DynamicIndex for TLC: two threads, blocks of two cache     *)
(* lines holding three ids (two in the first line, one beside the footer). *)
EXTENDS DynamicIndex, TLC

CONSTANTS t1, t2, b0, b1, b2, b3, k1, k2

MC_Threads == {t1, t2}
MC_Blocks == {b0, b1, b2, b3}
MC_LineOf == <<1, 1, 2>>
MC_TOMBSTONE == 99

Ins(k, id) == [term |-> k, id |-> id]

(* One term whose list is loaded as a full block and a block with one id. *)
(* t2's first insert splits the first block, its second walks three       *)
(* blocks; t1 appends behind the list's end and then splits the first     *)
(* block again.                                                           *)
MC_Terms == {k1}
MC_IndexBlocks == k1 :> <<b0, b1>>
MC_InitPostings == k1 :> <<1, 3, 5, 7>>
MC_Inserts == (t1 :> <<Ins(k1, 8), Ins(k1, 2)>>) @@
              (t2 :> <<Ins(k1, 4), Ins(k1, 6)>>)

(* Two terms: k1's list is the first the partitioner wrote (it starts at  *)
(* node 0, offset 0); k2 has no list in the index.  t1 inserts into k2.   *)
MC_AliasTerms == {k1, k2}
MC_AliasIndexBlocks == (k1 :> <<b0>>) @@ (k2 :> <<>>)
MC_AliasInitPostings == (k1 :> <<1, 3>>) @@ (k2 :> <<>>)
MC_AliasInserts == (t1 :> <<Ins(k2, 4)>>) @@ (t2 :> <<>>)
=============================================================================
