--------------------------- MODULE MC_UpdateBuild ---------------------------
(* Instantiates UpdateBuild for TLC: forty documents, of which std::sample *)
(* draws two; three lists, one of which a draw can empty; two memory      *)
(* nodes; blocks of 32 bytes (three ids with updates) and 128 bytes (two  *)
(* cache lines), with and without -u.  Lists hold at most 14 ids: five   *)
(* chained blocks at 32 bytes, past the second cache line at 128; the     *)
(* documents 27 .. 39 are in no list, so a draw can pick an empty one.    *)
EXTENDS UpdateBuild

MC_Lines ==
  <<[term |-> 0, docs |-> [i \in 1 .. 14 |-> i - 1]],
    [term |-> 1, docs |-> [i \in 1 .. 14 |-> 2 * (i - 1)]],
    [term |-> 2, docs |-> <<7>>]>>
MC_OriginalFile == Build!Serialize(3, 3, MC_Lines)

(* No -a: every list is partitioned. *)
MC_KeyFile == <<>>

(* -a with a key file of one line, "0 1". *)
MC_KeyFile_accessed == <<<<0, 1>>>>
=============================================================================
