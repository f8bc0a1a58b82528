-------------------------- MODULE MC_IndexQueries --------------------------
(* Instantiates IndexQueries for TLC: one inserting thread beside one READ *)
(* query, blocks of two cache lines holding three ids, as in              *)
(* MC_DynamicIndex.                                                        *)
EXTENDS IndexQueries, TLC

CONSTANTS t1, q1, b0, b1, b2, b3, b4, b5, b6, b7, b8, k1, k2, k3

MC_Threads == {t1}
MC_Readers == {q1}
MC_Blocks == {b0, b1, b2, b3, b4, b5, b6, b7, b8}
MC_LineOf == <<1, 1, 2>>
MC_TOMBSTONE == 99

Ins(k, id) == [term |-> k, id |-> id]

(* Three lists of full blocks.  Intersecting them, the cycle raises       *)
(* current_value, matches it in some columns and then in all (3, inside a *)
(* block; 8, at the end of k1's second block, which needs a refill), and  *)
(* meets 4, common to k1 and k2 only, and 5, common to k1 and k3 only.     *)
(* t1 inserts 2 into k2, splitting its first block under the reader.      *)
MC_Terms == {k1, k2, k3}
MC_IndexBlocks == (k1 :> <<b0, b1, b2>>) @@ (k2 :> <<b3, b4>>) @@ (k3 :> <<b5, b6>>)
MC_InitPostings == (k1 :> <<1, 3, 4, 5, 7, 8, 9>>) @@ (k2 :> <<3, 4, 6, 8>>)
                   @@ (k3 :> <<1, 3, 5, 7, 8>>)
MC_Inserts == t1 :> <<Ins(k2, 2)>>
(* The reader runs either query of the file: the three-key intersection, *)
(* or k2 alone, the query_length 1 path, reading k2 while it is split.    *)
MC_Reads == {<<k1, k2, k3>>, <<k2>>}
=============================================================================
