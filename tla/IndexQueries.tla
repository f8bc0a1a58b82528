---------------------------- MODULE IndexQueries ----------------------------
(***************************************************************************)
(* READ queries running beside the inserts of DynamicIndex: the READ      *)
(* branch of process_queries (block_based_dynamic/query_handler.hh) and     *)
(* operations::block_intersection<true> (block_based/block_operations.hh), *)
(* which walks every key's list through two read-buffer rows per column,   *)
(* prefetching each block's successor, and intersects the lists by         *)
(* cycling over the columns.  Readers never lock: a block READ while it is *)
(* locked or torn is READ again by the shared completion handler.          *)
(*                                                                         *)
(* Columns are 0 .. query_length - 1 as in the code; column c reads key    *)
(* keys[q][c + 1].  Positions are payload slots 1 .. Cap, Cap + 1 being   *)
(* block_entries; the line-version words the code steps over are not       *)
(* slots (init_pos is slot 1).                                             *)
(***************************************************************************)
EXTENDS DynamicIndex

CONSTANTS
  Readers,  \* compute threads processing READ queries
  Reads     \* the READ queries of the query file: their keys, in order

ASSUME /\ Readers \cap Threads = {}
       /\ \A r \in Reads : r \in Seq(Terms) /\ r /= <<>>

BlockEntries == Cap + 1  \* block_entries

VARIABLES
  keys,    \* keys[q]: query.keys of the READ query reader q runs
  rpc,     \* control point of each reader
  rbuf,    \* rbuf[q][c][r]: read-buffer block (c, r) of reader q
  rrd,     \* rrd[q][c][r]: the READ into (c, r): source, lines to come
  rrow,    \* rrow[q][c]: row[col], the row of column c's current block
  rpos,    \* rpos[q][c]: current_positions[col] (pos for one key)
  cval,    \* current_value
  count,   \* how many columns hold current_value so far
  col,     \* the column the loop is at
  result,  \* the ids handed to result_handler, in order
  snap     \* the ids in all of q's lists when its query started (history)

Cols(q) == 0 .. Len(keys[q]) - 1

rvars == <<keys, rpc, rbuf, rrd, rrow, rpos, cval, count, col, result, snap>>
allvars == <<vars, rvars>>

(* Each reader runs one READ query of the file, any of them. *)
RInit ==
  /\ keys \in [Readers -> Reads]
  /\ rpc = [q \in Readers |-> "post"]
  /\ rbuf = [q \in Readers |-> [c \in Cols(q) |-> [r \in Rows |-> ZeroBlock]]]
  /\ rrd = [q \in Readers |-> [c \in Cols(q) |-> [r \in Rows |-> Idle]]]
  /\ rrow = [q \in Readers |-> [c \in Cols(q) |-> 0]]
  /\ rpos = [q \in Readers |-> [c \in Cols(q) |-> 1]]
  /\ cval = [q \in Readers |-> 0]
  /\ count = [q \in Readers |-> 0]
  /\ col = [q \in Readers |-> 0]
  /\ result = [q \in Readers |-> <<>>]
  /\ snap = [q \in Readers |-> {}]

(* The ids common to the lists of q's keys in the list state ls. *)
Common(ls, q) == {x \in ToSet(ls[keys[q][1]]) :
                    \A i \in DOMAIN keys[q] : x \in ToSet(ls[keys[q][i]])}

(* Column c's current block, and whether it is_ready: its READ, re-READs  *)
(* included, has completed.                                               *)
Blk(q, c) == rbuf[q][c][rrow[q][c]]
Ready(q, c) == rrd[q][c][rrow[q][c]].left = {}

(* post_READ of the block's successor into the column's other row, unless *)
(* the block points_to_null.                                              *)
PrefetchNext(q, c) ==
  IF Blk(q, c).next = NULLPTR THEN rrd
  ELSE [rrd EXCEPT ![q][c][1 - rrow[q][c]] = [src |-> Blk(q, c).next, left |-> Lines]]

(* The block is done at position p: past its last slot or at a tombstone. *)
AtEnd(blk, at) == IF at = BlockEntries THEN TRUE ELSE blk.slot[at] = TOMBSTONE

(* Variant of the inner while loop that also steps over an id equal to v. *)
Skip_through_equal(blk, from, v) ==
  Min({i \in from .. BlockEntries : AtEnd(blk, i) \/ blk.slot[i] > v})

(* The inner while loop: advance over ids below v, stopping at the end.   *)
Skip(blk, from, v) ==
  Min({i \in from .. BlockEntries : AtEnd(blk, i) \/ blk.slot[i] >= v})

(* Variant of the column cycle without % query_length. *)
NextCol_unwrapped(q) == col[q] + 1

NextCol(q) == (col[q] + 1) % Len(keys[q])

(* process_queries takes a READ query: it READs each key's first block    *)
(* into row 0 of the key's column (waiting while the send queue is full). *)
process_READ(q) ==
  /\ rpc[q] = "post"
  /\ rrd' = [rrd EXCEPT ![q] = [c \in Cols(q) |->
               [r \in Rows |-> IF r = 0
                               THEN [src |-> RemotePointer(keys[q][c + 1]), left |-> Lines]
                               ELSE Idle]]]
  /\ snap' = [snap EXCEPT ![q] = LET ls == Lists IN Common(ls, q)]
  /\ rpc' = [rpc EXCEPT ![q] = IF Len(keys[q]) = 1 THEN "scan" ELSE "first"]
  /\ UNCHANGED <<vars, rbuf, rrow, rpos, cval, count, col, result>>

(* One cache line of a reader's READ arrives; set_ready_and_validate.     *)
RREAD_line(q, c, r, l) ==
  /\ l \in rrd[q][c][r].left
  /\ LET res == set_ready_and_validate(rbuf[q][c][r], rrd[q][c][r], l)
     IN /\ rbuf' = [rbuf EXCEPT ![q][c][r] = res[1]]
        /\ rrd' = [rrd EXCEPT ![q][c][r] = res[2]]
  /\ UNCHANGED <<vars, rpc, rrow, rpos, cval, count, col, result, snap>>

(* Variant of scan_block whose loop stops one slot early. *)
scan_block_short(q) ==
  /\ rpc[q] = "scan" /\ Ready(q, 0)
  /\ rrd' = PrefetchNext(q, 0)
  /\ result' = [result EXCEPT ![q] =
                 @ \o SubSeq(Payload(Blk(q, 0)), 1, Min({Cap - 1, Len(Payload(Blk(q, 0)))}))]
  /\ IF Blk(q, 0).next = NULLPTR
     THEN rpc' = [rpc EXCEPT ![q] = "flush"] /\ rrow' = rrow
     ELSE rpc' = rpc /\ rrow' = [rrow EXCEPT ![q][0] = 1 - @]
  /\ UNCHANGED <<vars, rbuf, rpos, cval, count, col, snap>>

(* query_length 1: once the block is ready, prefetch its successor, hand  *)
(* every id before the first tombstone to result_handler, and stop at the *)
(* last block or go on in the other row.                                  *)
scan_block(q) ==
  /\ rpc[q] = "scan" /\ Ready(q, 0)
  /\ rrd' = PrefetchNext(q, 0)
  /\ result' = [result EXCEPT ![q] = @ \o Payload(Blk(q, 0))]
  /\ IF Blk(q, 0).next = NULLPTR
     THEN rpc' = [rpc EXCEPT ![q] = "flush"] /\ rrow' = rrow
     ELSE rpc' = rpc /\ rrow' = [rrow EXCEPT ![q][0] = 1 - @]
  /\ UNCHANGED <<vars, rbuf, rpos, cval, count, col, snap>>

(* Several keys: column 0's first block gives the first current_value.    *)
first_value(q) ==
  /\ rpc[q] = "first" /\ Ready(q, 0)
  /\ rrd' = PrefetchNext(q, 0)
  /\ cval' = [cval EXCEPT ![q] = Blk(q, 0).slot[1]]
  /\ rpos' = [rpos EXCEPT ![q][0] = 2]
  /\ count' = [count EXCEPT ![q] = 1]
  /\ col' = [col EXCEPT ![q] = 1]
  /\ rpc' = [rpc EXCEPT ![q] = "run"]
  /\ UNCHANGED <<vars, rbuf, rrow, result, snap>>

(* The top of an iteration of the main loop: the column's block is ready; *)
(* a block entered at init_pos gets its successor prefetched; the inner   *)
(* while loop skips the ids below current_value.                          *)
Visit(q) == rpc[q] = "run" /\ Ready(q, col[q])
VisitReads(q) == IF rpos[q][col[q]] = 1 THEN PrefetchNext(q, col[q]) ELSE rrd
Pos(q) == Skip(Blk(q, col[q]), rpos[q][col[q]], cval[q])

(* The block is done: all its ids are below current_value.  At the list's *)
(* last block no further match is possible and the loop breaks; else the *)
(* column goes on at init_pos of its next row (col stays).                *)
next_block(q) ==
  LET c == col[q]
  IN /\ Visit(q)
     /\ AtEnd(Blk(q, c), Pos(q))
     /\ rrd' = VisitReads(q)
     /\ IF Blk(q, c).next = NULLPTR
        THEN /\ rpc' = [rpc EXCEPT ![q] = "flush"]
             /\ UNCHANGED <<rrow, rpos>>
        ELSE /\ rrow' = [rrow EXCEPT ![q][c] = 1 - @]
             /\ rpos' = [rpos EXCEPT ![q][c] = 1]
             /\ rpc' = rpc
     /\ UNCHANGED <<vars, rbuf, cval, count, col, result, snap>>

(* Found current_value, but not yet in every column: go on to the next.   *)
match(q) ==
  LET c == col[q]  p == Pos(q)
  IN /\ Visit(q)
     /\ ~AtEnd(Blk(q, c), p) /\ Blk(q, c).slot[p] = cval[q]
     /\ count[q] + 1 < Len(keys[q])
     /\ rrd' = VisitReads(q)
     /\ count' = [count EXCEPT ![q] = @ + 1]
     /\ rpos' = [rpos EXCEPT ![q][c] = p + 1]
     /\ col' = [col EXCEPT ![q] = NextCol(q)]
     /\ UNCHANGED <<vars, rpc, rbuf, rrow, cval, result, snap>>

(* Found in every column: result_handler gets it, and the next id of this *)
(* block becomes current_value.                                           *)
full_match(q) ==
  LET c == col[q]  p == Pos(q)  b == Blk(q, c)
  IN /\ Visit(q)
     /\ ~AtEnd(b, p) /\ b.slot[p] = cval[q]
     /\ count[q] + 1 = Len(keys[q])
     /\ ~AtEnd(b, p + 1)
     /\ rrd' = VisitReads(q)
     /\ result' = [result EXCEPT ![q] = Append(@, cval[q])]
     /\ cval' = [cval EXCEPT ![q] = b.slot[p + 1]]
     /\ count' = [count EXCEPT ![q] = 1]
     /\ rpos' = [rpos EXCEPT ![q][c] = p + 2]
     /\ col' = [col EXCEPT ![q] = NextCol(q)]
     /\ UNCHANGED <<vars, rpc, rbuf, rrow, snap>>

(* Found in every column at the block's last id: result_handler gets it;  *)
(* at the list's end the loop breaks, else the column moves to its next   *)
(* row and waits for that block (refill).                                 *)
full_match_last(q) ==
  LET c == col[q]  p == Pos(q)  b == Blk(q, c)
  IN /\ Visit(q)
     /\ ~AtEnd(b, p) /\ b.slot[p] = cval[q]
     /\ count[q] + 1 = Len(keys[q])
     /\ AtEnd(b, p + 1)
     /\ rrd' = VisitReads(q)
     /\ result' = [result EXCEPT ![q] = Append(@, cval[q])]
     /\ count' = [count EXCEPT ![q] = @ + 1]
     /\ IF b.next = NULLPTR
        THEN /\ rpc' = [rpc EXCEPT ![q] = "flush"]
             /\ UNCHANGED <<rrow, rpos>>
        ELSE /\ rpc' = [rpc EXCEPT ![q] = "refill"]
             /\ rrow' = [rrow EXCEPT ![q][c] = 1 - @]
             /\ rpos' = [rpos EXCEPT ![q][c] = 1]
     /\ UNCHANGED <<vars, rbuf, cval, col, snap>>

(* After a match at a block's end: once the next block is ready, prefetch *)
(* its successor and take its first id as current_value.                  *)
refill(q) ==
  LET c == col[q]
  IN /\ rpc[q] = "refill" /\ Ready(q, c)
     /\ rrd' = PrefetchNext(q, c)
     /\ cval' = [cval EXCEPT ![q] = Blk(q, c).slot[1]]
     /\ count' = [count EXCEPT ![q] = 1]
     /\ rpos' = [rpos EXCEPT ![q][c] = 2]
     /\ col' = [col EXCEPT ![q] = NextCol(q)]
     /\ rpc' = [rpc EXCEPT ![q] = "run"]
     /\ UNCHANGED <<vars, rbuf, rrow, result, snap>>

(* Variant of reset_value that keeps count. *)
reset_value_keeps_count(q) ==
  LET c == col[q]  p == Pos(q)  b == Blk(q, c)
  IN /\ Visit(q)
     /\ ~AtEnd(b, p) /\ b.slot[p] > cval[q]
     /\ rrd' = VisitReads(q)
     /\ cval' = [cval EXCEPT ![q] = b.slot[p]]
     /\ rpos' = [rpos EXCEPT ![q][c] = p + 1]
     /\ col' = [col EXCEPT ![q] = NextCol(q)]
     /\ UNCHANGED <<vars, rpc, rbuf, rrow, count, result, snap>>

(* An id above current_value: it becomes current_value. *)
reset_value(q) ==
  LET c == col[q]  p == Pos(q)  b == Blk(q, c)
  IN /\ Visit(q)
     /\ ~AtEnd(b, p) /\ b.slot[p] > cval[q]
     /\ rrd' = VisitReads(q)
     /\ cval' = [cval EXCEPT ![q] = b.slot[p]]
     /\ count' = [count EXCEPT ![q] = 1]
     /\ rpos' = [rpos EXCEPT ![q][c] = p + 1]
     /\ col' = [col EXCEPT ![q] = NextCol(q)]
     /\ UNCHANGED <<vars, rpc, rbuf, rrow, result, snap>>

(* process_queries flushes the completion queue: prefetches still in      *)
(* flight complete before the thread takes its next query.               *)
flush_reads(q) ==
  /\ rpc[q] = "flush"
  /\ \A c \in Cols(q), r \in Rows : rrd[q][c][r].left = {}
  /\ rpc' = [rpc EXCEPT ![q] = "done"]
  /\ UNCHANGED <<vars, rbuf, rrd, rrow, rpos, cval, count, col, result, snap>>

RStep(q) ==
  /\ \/ process_READ(q)
     \/ \E c \in Cols(q), r \in Rows, l \in Lines : RREAD_line(q, c, r, l)
     \/ scan_block(q) \/ first_value(q)
     \/ next_block(q) \/ match(q) \/ full_match(q) \/ full_match_last(q)
     \/ refill(q) \/ reset_value(q) \/ flush_reads(q)
  /\ UNCHANGED keys

InsertStep(t) == Step(t) /\ UNCHANGED rvars

QInit == Init /\ RInit

(* Every query of every thread processed: the threads wait at end_latch_. *)
QTerminated == /\ \A t \in Threads : pc[t] = "done"
               /\ \A q \in Readers : rpc[q] = "done"
               /\ UNCHANGED allvars

QNext == (\E t \in Threads : InsertStep(t)) \/ (\E q \in Readers : RStep(q))
         \/ QTerminated

(* Every compute thread, inserting or reading, polls its own completion   *)
(* queue: weak fairness per thread, as in DynamicIndex.                   *)
QSpec == QInit /\ [][QNext]_allvars
         /\ \A t \in Threads : WF_allvars(InsertStep(t))
         /\ \A q \in Readers : WF_allvars(RStep(q))
-----------------------------------------------------------------------------
RTypeOK ==
  /\ keys \in [Readers -> Reads]
  /\ rpc \in [Readers -> {"post", "scan", "first", "run", "refill", "flush", "done"}]
  /\ \A q \in Readers :
       /\ rbuf[q] \in [Cols(q) -> [Rows -> Image]]
       /\ rrd[q] \in [Cols(q) -> [Rows -> Op]]
       /\ rrow[q] \in [Cols(q) -> Rows]
       /\ rpos[q] \in [Cols(q) -> 1 .. BlockEntries + 1]
       /\ col[q] \in Cols(q)
  /\ cval \in [Readers -> Nat]
  /\ count \in [Readers -> Nat]
  /\ result \in [Readers -> Seq(Nat)]
  /\ snap \in [Readers -> SUBSET Nat]

(* What block_intersection hands to result_handler while inserts split    *)
(* and rewrite the blocks it walks: each id it reports is, at that         *)
(* moment, in every list of the query, and above every id reported        *)
(* before.  A torn block, a stale successor or a wrong step of the column *)
(* cycle would repeat, reorder or invent an id.                           *)
ResultsSound ==
  [][\A q \in Readers :
       result'[q] /= result[q] =>
         LET new == ToSet(result'[q]) \ ToSet(result[q])
             ls  == Lists
         IN /\ IsSorted(result'[q], LAMBDA x, y : x < y)
            /\ new \subseteq Common(ls, q)]_allvars

(* A finished READ query has reported every id that was in all its lists  *)
(* when it started, whatever splits moved those ids to new blocks while   *)
(* it walked the lists.                                                   *)
ResultsComplete ==
  \A q \in Readers : rpc[q] = "done" => snap[q] \subseteq ToSet(result[q])

(* Every READ query ends: no reader spins forever on a locked or torn     *)
(* block or on a row whose READ was never posted.                         *)
ReadsComplete == <>(\A q \in Readers : rpc[q] = "done")
====
