---------------------------- MODULE DynamicIndex ----------------------------
(***************************************************************************)
(* Concurrent inserts into the posting lists of the dynamic block index:   *)
(* RemotePtr::find_block_and_insert and its helpers                        *)
(* (src/src/index/block_based_dynamic/remote_pointer.hh), the block image  *)
(* operations of ReadBuffer::BufferBlock (index/block_based/read_buffer.hh)*)
(* ordered_insert (block_based_dynamic/insert.hh), the READ completion     *)
(* handler (block_based_dynamic/compute_thread.hh) and the insert loop of  *)
(* process_queries (block_based_dynamic/query_handler.hh).                 *)
(*                                                                         *)
(* Remote memory is a function from blocks to block images.  A one-sided   *)
(* READ or WRITE moves a block cache line by cache line, each line         *)
(* atomically and in any order, so a reader can see a torn block; the      *)
(* per-line versions and the lock bit in the footer exist to detect that.  *)
(* A CAS on the footer's last 64-bit word is atomic.  Document ids are     *)
(* abstracted to small numbers; slot positions skip the line-version words *)
(* (LineOf says which cache line holds each slot).                         *)
(***************************************************************************)
EXTENDS Naturals, Sequences, FiniteSets, SequencesExt

CONSTANTS
  Threads,       \* compute threads inserting into the lists
  Blocks,        \* remote blocks (model values)
  Terms,         \* the terms of the catalog
  IndexBlocks,   \* IndexBlocks[k]: term k's blocks as the partitioner lays
                 \* them out; <<>> for a term without a list in the index
  Origin,        \* the block at node 0, offset 0: the first list's first
  NULLPTR,       \* the null remote pointer (0,0)
  NumLines,      \* cache lines per block
  Cap,           \* payload slots per block
  LineOf,        \* LineOf[i]: the cache line holding slot i
  TOMBSTONE,     \* the u32 -1 empty-slot marker, above every id
  InitPostings,  \* InitPostings[k]: term k's list as loaded
  Inserts        \* Inserts[t]: the [term, id] inserts of thread t, in order

(* assign_remote_pointers: a term's catalog entry is its first block; a    *)
(* term the meta files do not list keeps the default RemotePtr (0,0),      *)
(* which is the address of the first block the partitioner wrote.         *)
RemotePointer(k) == IF IndexBlocks[k] = <<>> THEN Origin ELSE IndexBlocks[k][1]
Lines == 1 .. NumLines
Slots == 1 .. Cap
Rows == 0 .. 1          \* READ_BUFFER_DEPTH = 2
Ptr == Blocks \cup {NULLPTR}
Kinds == {"alloc", "block"}  \* allocation_block, read-buffer block
FREELIST_PARTITIONS == 16    \* constants.hh

ASSUME /\ NumLines >= 2 /\ Cap >= 2
       /\ LineOf \in [Slots -> Lines]
       /\ \A i \in Slots \ {Cap} : LineOf[i] <= LineOf[i + 1]
       /\ LineOf[1] = 1 /\ LineOf[Cap] = NumLines
       /\ IndexBlocks \in [Terms -> Seq(Blocks)]
       /\ \E k \in Terms : IndexBlocks[k] /= <<>> /\ Origin = IndexBlocks[k][1]
       /\ \A k, m \in Terms : \A i \in DOMAIN IndexBlocks[k], j \in DOMAIN IndexBlocks[m] :
            IndexBlocks[k][i] = IndexBlocks[m][j] => k = m /\ i = j
       \* the partitioner writes every block it starts full except the last
       /\ \A k \in Terms :
            /\ IndexBlocks[k] = <<>> => InitPostings[k] = <<>>
            /\ IndexBlocks[k] /= <<>> =>
                 /\ Len(InitPostings[k]) > (Len(IndexBlocks[k]) - 1) * Cap
                 /\ Len(InitPostings[k]) <= Len(IndexBlocks[k]) * Cap
            /\ \A i \in 1 .. Len(InitPostings[k]) - 1 :
                 InitPostings[k][i] < InitPostings[k][i + 1]
       /\ \A t \in Threads : \A i \in DOMAIN Inserts[t] :
            /\ Inserts[t][i].term \in Terms
            /\ Inserts[t][i].id \notin ToSet(InitPostings[Inserts[t][i].term])
            /\ \A u \in Threads : \A j \in DOMAIN Inserts[u] :
                 Inserts[t][i].id = Inserts[u][j].id => t = u /\ i = j
            /\ 0 < Inserts[t][i].id /\ Inserts[t][i].id < TOMBSTONE
       /\ \A k \in Terms : \A x \in ToSet(InitPostings[k]) : 0 < x /\ x < TOMBSTONE

(* A block image: line versions, payload slots and the footer, which lies  *)
(* in the last cache line: the remote pointer word (p_tag, next) and the   *)
(* last word (version, b_tag, lock bit).                                   *)
Image == [ver : [Lines -> Nat], slot : [Slots -> Nat], next : Ptr,
          ptag : Nat, wver : Nat, btag : Nat, lock : BOOLEAN]

(* Memory behind the index is zeroed (HugePage::touch_memory). *)
ZeroBlock == [ver |-> [l \in Lines |-> 0], slot |-> [i \in Slots |-> 0],
              next |-> NULLPTR, ptag |-> 0, wver |-> 0, btag |-> 0,
              lock |-> FALSE]

(* The partitioner fills a list's blocks in order, pads the last one      *)
(* with tombstones, links each block to the next and the last to (0,0);    *)
(* versions and tags start at 0.  LoadedBlock(k, j): term k's j-th block.  *)
LoadedBlock(k, j) ==
  LET ids == InitPostings[k]
  IN [ZeroBlock EXCEPT
        !.slot = [i \in Slots |-> IF (j - 1) * Cap + i <= Len(ids)
                                  THEN ids[(j - 1) * Cap + i] ELSE TOMBSTONE],
        !.next = IF j < Len(IndexBlocks[k]) THEN IndexBlocks[k][j + 1]
                 ELSE NULLPTR]

(* One cache line of src lands in dst. *)
CopyLine(dst, src, l) ==
  LET f == IF l = NumLines THEN src ELSE dst
  IN [ver |-> [dst.ver EXCEPT ![l] = src.ver[l]],
      slot |-> [i \in Slots |-> IF LineOf[i] = l THEN src.slot[i]
                                ELSE dst.slot[i]],
      next |-> f.next, ptag |-> f.ptag, wver |-> f.wver, btag |-> f.btag,
      lock |-> f.lock]

(* validate_cache_lines: every line carries the version of the first. *)
ValidLines(b) == \A l \in Lines : b.ver[l] = b.ver[1]

(* increase_cache_line_versions: every line, and the version half of the  *)
(* last word, get the first line's version plus one.                       *)
IncreaseVersions(b) ==
  LET v == b.ver[1] + 1
  IN [b EXCEPT !.ver = [l \in Lines |-> v], !.wver = v]

(* get_last_word: what LOCK_block compares. *)
LastWord(b) == <<b.wver, b.btag, b.lock>>

(* is_full: the last payload slot holds an id. *)
IsFull(b) == b.slot[Cap] /= TOMBSTONE

(* get_min_max: the last slot before the trailing tombstones, and its id. *)
MaxPos(b) ==
  LET used == {i \in Slots : b.slot[i] /= TOMBSTONE}
  IN IF used = {} THEN 1 ELSE Max(used)
MaxId(b) == b.slot[MaxPos(b)]

(* ordered_insert: binary_search_block and binary_search_cacheline find   *)
(* the first slot whose id is not below v (tombstones compare above every *)
(* id); the slots from there up to free_pos shift right by one.           *)
OrderedInsert(s, v, free_pos) ==
  LET p == Min({i \in Slots : s[i] >= v})
  IN [i \in Slots |-> IF i < p \/ i > free_pos THEN s[i]
                      ELSE IF i = p THEN v ELSE s[i - 1]]

(* split_block: the slots from cache line num_cache_lines / 2 on move to   *)
(* the front of the target and become tombstones in the source; the       *)
(* target's remaining slots become tombstones.  move_from is the source's *)
(* first free slot afterwards, target_iter the target's.                   *)
MoveFrom == Min({i \in Slots : LineOf[i] > NumLines \div 2})
B2Free == Cap - MoveFrom + 2
KeptSlots(b) == [i \in Slots |-> IF i < MoveFrom THEN b.slot[i] ELSE TOMBSTONE]
MovedSlots(b) == [i \in Slots |-> IF i < B2Free THEN b.slot[MoveFrom + i - 1]
                                  ELSE TOMBSTONE]

-----------------------------------------------------------------------------
VARIABLES
  mem,           \* remote memory: the image of every block
  pool,          \* free blocks (the free list; see FreeList, FreePool)
  pc,            \* control point of each thread
  todo,          \* ids the thread has still to insert
  row,           \* the read-buffer row of the current block
  node,          \* node/offs: the current block
  expected_tag,  \* the tag the next block must carry
  buf,           \* buf[t][r]: read-buffer block (col, r) of thread t
  rd,            \* rd[t][r]: READ into row r: source and lines still to come
  abuf,          \* thread's allocation_block
  wr             \* wr[t][k]: WRITE from buffer k: target, lines to go

vars == <<mem, pool, pc, todo, row, node, expected_tag, buf, rd, abuf, wr>>

Idle == [src |-> NULLPTR, left |-> {}]
Op == [src : Ptr, left : SUBSET Lines]
WOp == [dst : Ptr, left : SUBSET Lines]

LoadedBlocks == UNION {ToSet(IndexBlocks[k]) : k \in Terms}
Positions == UNION {{<<k, j>> : j \in DOMAIN IndexBlocks[k]} : k \in Terms}

Init ==
  /\ mem = [b \in Blocks |->
              IF b \in LoadedBlocks
              THEN LET kj == CHOOSE kj \in Positions :
                               IndexBlocks[kj[1]][kj[2]] = b
                   IN LoadedBlock(kj[1], kj[2])
              ELSE ZeroBlock]
  /\ pool = Blocks \ LoadedBlocks
  /\ pc = [t \in Threads |-> IF Inserts[t] = <<>> THEN "done" ELSE "start"]
  /\ todo = Inserts
  /\ row = [t \in Threads |-> 0]
  /\ node = [t \in Threads |-> Origin]
  /\ expected_tag = [t \in Threads |-> 0]
  /\ buf = [t \in Threads |-> [r \in Rows |-> ZeroBlock]]
  /\ rd = [t \in Threads |-> [r \in Rows |-> Idle]]
  /\ abuf = [t \in Threads |-> ZeroBlock]
  /\ wr = [t \in Threads |-> [k \in Kinds |-> [dst |-> NULLPTR, left |-> {}]]]

Cur(t) == buf[t][row[t]]
Key(t) == Head(todo[t]).term  \* query.keys[k_idx]
Id(t) == Head(todo[t]).id     \* query.update_id
ReadsDone(t) == \A r \in Rows : rd[t][r].left = {}
WritesDone(t) == \A k \in Kinds : wr[t][k].left = {}

(* The buffer a posted WRITE sends from. *)
WriteSource(t, k) == IF k = "alloc" THEN abuf[t] ELSE Cur(t)

(* process_queries takes the thread's next insert (all its earlier work    *)
(* flushed) and calls find_block_and_insert, which READs the list's first  *)
(* block into row 0 and expects tag 0.                                     *)
find_block_and_insert(t) ==
  /\ pc[t] = "start"
  /\ rd' = [rd EXCEPT ![t][0] = [src |-> RemotePointer(Key(t)), left |-> Lines]]
  /\ row' = [row EXCEPT ![t] = 0]
  /\ node' = [node EXCEPT ![t] = RemotePointer(Key(t))]
  /\ expected_tag' = [expected_tag EXCEPT ![t] = 0]
  /\ pc' = [pc EXCEPT ![t] = "loop"]
  /\ UNCHANGED <<mem, pool, todo, buf, abuf, wr>>

(* Variant of set_ready_and_validate that re-READs locked blocks only,    *)
(* without validate_cache_lines.                                           *)
set_ready_and_validate_unvalidated(b, o, l) ==
  LET nb   == CopyLine(b, mem[o.src], l)
      rest == o.left \ {l}
  IN <<nb, [o EXCEPT !.left = IF rest = {} /\ nb.lock THEN Lines ELSE rest]>>

(* One cache line of the READ o lands in the buffer block b; with the     *)
(* last one the completion handler set_ready_and_validate runs: a locked  *)
(* block, or one whose line versions differ, is READ again, else it is    *)
(* ready.  Result: <<the buffer block, the READ still to come>>.          *)
set_ready_and_validate(b, o, l) ==
  LET nb   == CopyLine(b, mem[o.src], l)
      rest == o.left \ {l}
  IN <<nb, [o EXCEPT !.left = IF rest = {} /\ (nb.lock \/ ~ValidLines(nb))
                              THEN Lines ELSE rest]>>

(* One cache line of a posted READ into row r arrives. *)
READ_line(t, r, l) ==
  /\ l \in rd[t][r].left
  /\ LET res == set_ready_and_validate(buf[t][r], rd[t][r], l)
     IN /\ buf' = [buf EXCEPT ![t][r] = res[1]]
        /\ rd' = [rd EXCEPT ![t][r] = res[2]]
  /\ UNCHANGED <<mem, pool, pc, todo, row, node, expected_tag, abuf, wr>>

(* One cache line of a posted WRITE lands in remote memory. *)
WRITE_line(t, k, l) ==
  /\ l \in wr[t][k].left
  /\ mem' = [mem EXCEPT ![wr[t][k].dst] = CopyLine(@, WriteSource(t, k), l)]
  /\ wr' = [wr EXCEPT ![t][k].left = @ \ {l}]
  /\ UNCHANGED <<pool, pc, todo, row, node, expected_tag, buf, rd, abuf>>

(* The top of the loop, once every posted READ has been handled: the       *)
(* block (valid by then) must carry the expected tag -- else the call     *)
(* returns false and is retried; no b_tag ever changes, so that branch    *)
(* cannot be taken and is left out.  The block's pointer tag becomes the  *)
(* expected one and its successor, if any, is READ into the other row.    *)
LoopTop(t) ==
  /\ pc[t] = "loop" /\ ReadsDone(t)
  /\ Cur(t).btag = expected_tag[t]
  /\ expected_tag' = [expected_tag EXCEPT ![t] = Cur(t).ptag]

Prefetch(t, r) ==
  IF Cur(t).next = NULLPTR THEN r
  ELSE [r EXCEPT ![t][1 - row[t]] = [src |-> Cur(t).next, left |-> Lines]]

(* The id goes here: it is not above the block's largest id, or the block *)
(* is the last of the list.                                               *)
InsertsHere(t) == ~(MaxId(Cur(t)) < Id(t) /\ Cur(t).next /= NULLPTR)

(* Variants of LOCK_block's compare value that leave out the lock bit or  *)
(* the version half of the last word.                                      *)
LOCK_block_unmasked_lock(t) ==
  <<mem[node[t]].wver, mem[node[t]].btag>> = <<Cur(t).wver, Cur(t).btag>>
LOCK_block_without_version(t) ==
  <<mem[node[t]].btag, mem[node[t]].lock>> = <<Cur(t).btag, Cur(t).lock>>

(* LOCK_block: CAS the last word from the image read to it with the lock  *)
(* bit set; it succeeds iff the remote last word still equals the read one.*)
LOCK_block(t) == LastWord(mem[node[t]]) = LastWord(Cur(t))

(* Variant of descend that advances row without % READ_BUFFER_DEPTH. *)
descend_unwrapped_row(t) ==
  /\ LoopTop(t)
  /\ ~InsertsHere(t)
  /\ rd' = Prefetch(t, rd)
  /\ node' = [node EXCEPT ![t] = Cur(t).next]
  /\ row' = [row EXCEPT ![t] = @ + 1]
  /\ UNCHANGED <<mem, pool, pc, todo, buf, abuf, wr>>

(* max < id and the block points on: move on to the next block. *)
descend(t) ==
  /\ LoopTop(t)
  /\ ~InsertsHere(t)
  /\ rd' = Prefetch(t, rd)
  /\ node' = [node EXCEPT ![t] = Cur(t).next]
  /\ row' = [row EXCEPT ![t] = 1 - @]
  /\ UNCHANGED <<mem, pool, pc, todo, buf, abuf, wr>>

(* Locking failed: READ the block again (the successor's READ is already  *)
(* posted).                                                                *)
lock_failed(t) ==
  /\ LoopTop(t)
  /\ InsertsHere(t)
  /\ ~LOCK_block(t)
  /\ rd' = [Prefetch(t, rd) EXCEPT ![t][row[t]] = [src |-> node[t], left |-> Lines]]
  /\ UNCHANGED <<mem, pool, pc, todo, row, node, buf, abuf, wr>>

(* Variant of WRITE_and_unlock_block's image without set_unlock. *)
Unlocked_without_set_unlock(b) == IncreaseVersions(b)

(* WRITE_and_unlock_block: clear the lock bit in the buffer, increase the *)
(* versions (WRITE_block) and post the WRITE without waiting for it.      *)
Unlocked(b) == IncreaseVersions([b EXCEPT !.lock = FALSE])

PostBlockWrite(t) ==
  wr' = [wr EXCEPT ![t]["block"] = [dst |-> node[t], left |-> Lines]]

(* Cases 2 and 4: the block is locked and has room: append the id behind  *)
(* max_pos (the list's last block, max < id) or ordered_insert it with    *)
(* free position max_pos + 1; then WRITE_and_unlock_block.                 *)
insert_in_block(t) ==
  LET b  == Cur(t)
      id == Id(t)
      mp == MaxPos(b)
      s  == IF MaxId(b) < id THEN [b.slot EXCEPT ![mp + 1] = id]
            ELSE OrderedInsert(b.slot, id, mp + 1)
  IN /\ LoopTop(t)
     /\ InsertsHere(t)
     /\ LOCK_block(t)
     /\ ~IsFull(b)
     /\ mem' = [mem EXCEPT ![node[t]].lock = TRUE]
     /\ buf' = [buf EXCEPT ![t][row[t]] = Unlocked([b EXCEPT !.slot = s])]
     /\ PostBlockWrite(t)
     /\ rd' = Prefetch(t, rd)
     /\ pc' = [pc EXCEPT ![t] = "wblock"]
     /\ UNCHANGED <<pool, todo, row, node, abuf>>

(* Cases 1 and 3: the block is locked and full: go on to split it. *)
lock_full_block(t) ==
  /\ LoopTop(t)
  /\ InsertsHere(t)
  /\ LOCK_block(t)
  /\ IsFull(Cur(t))
  /\ mem' = [mem EXCEPT ![node[t]].lock = TRUE]
  /\ buf' = [buf EXCEPT ![t][row[t]].lock = TRUE]
  /\ rd' = Prefetch(t, rd)
  /\ pc' = [pc EXCEPT ![t] = "alloc"]
  /\ UNCHANGED <<pool, todo, row, node, abuf, wr>>

(* The inserter of case 1 puts the id at the allocation block's first     *)
(* free slot; that of case 3 ordered_inserts it into the original block   *)
(* when it is below the allocation block's first id, else into the        *)
(* allocation block.  Result: <<original's slots, allocation's slots>>.   *)
Inserter(b, id) ==
  LET kept  == KeptSlots(b)
      moved == MovedSlots(b)
  IN IF MaxId(b) < id THEN <<kept, [moved EXCEPT ![B2Free] = id]>>
     ELSE IF id < moved[1] THEN <<OrderedInsert(kept, id, MoveFrom), moved>>
     ELSE <<kept, OrderedInsert(moved, id, B2Free)>>

(* allocate_and_write_block: take a block r from the free list (an atomic *)
(* pop, as FreeList refines FreePool; pool exhaustion ends the process,   *)
(* which FreeList covers), READ it and wait for every READ, split the     *)
(* locked block into it, run the inserter, give r the block's remote      *)
(* pointer word and point the block at r with r's block tag, then post    *)
(* r's WRITE.                                                              *)
allocate_and_write_block(t) ==
  /\ pc[t] = "alloc" /\ ReadsDone(t)
  /\ \E r \in pool :
       LET b   == Cur(t)
           a   == mem[r]
           ins == Inserter(b, Id(t))
       IN /\ pool' = pool \ {r}
          /\ abuf' = [abuf EXCEPT ![t] =
                        IncreaseVersions([a EXCEPT !.slot = ins[2],
                                                   !.next = b.next,
                                                   !.ptag = b.ptag])]
          /\ buf' = [buf EXCEPT ![t][row[t]] =
                       [b EXCEPT !.slot = ins[1], !.next = r, !.ptag = a.btag]]
          /\ wr' = [wr EXCEPT ![t]["alloc"] = [dst |-> r, left |-> Lines]]
  /\ pc' = [pc EXCEPT ![t] = "walloc"]
  /\ UNCHANGED <<mem, todo, row, node, expected_tag, rd>>

(* allocate_and_write_block waits until r's WRITE is done; then the       *)
(* caller WRITE_and_unlock_blocks the original block.                      *)
WRITE_and_unlock_block(t) ==
  /\ pc[t] = "walloc" /\ wr[t]["alloc"].left = {}
  /\ buf' = [buf EXCEPT ![t][row[t]] = Unlocked(@)]
  /\ PostBlockWrite(t)
  /\ pc' = [pc EXCEPT ![t] = "wblock"]
  /\ UNCHANGED <<mem, pool, todo, row, node, expected_tag, rd, abuf>>

(* find_block_and_insert returns true; process_queries flushes every      *)
(* posted READ and WRITE before it takes the next query.                  *)
insert_done(t) ==
  /\ pc[t] = "wblock" /\ ReadsDone(t) /\ WritesDone(t)
  /\ todo' = [todo EXCEPT ![t] = Tail(@)]
  /\ pc' = [pc EXCEPT ![t] = IF Tail(todo[t]) = <<>> THEN "done" ELSE "start"]
  /\ UNCHANGED <<mem, pool, row, node, expected_tag, buf, rd, abuf, wr>>

Step(t) ==
  \/ find_block_and_insert(t)
  \/ \E r \in Rows, l \in Lines : READ_line(t, r, l)
  \/ descend(t) \/ lock_failed(t) \/ insert_in_block(t) \/ lock_full_block(t)
  \/ allocate_and_write_block(t) \/ WRITE_and_unlock_block(t)
  \/ \E k \in Kinds, l \in Lines : WRITE_line(t, k, l)
  \/ insert_done(t)

(* allocate_block is FreeList::allocate on a randomly drawn head          *)
(* partition; when the head it READs is TOMBSTONE, lib_assert ends the    *)
(* process. With fewer free blocks than FREELIST_PARTITIONS some partition *)
(* is empty, so every allocation may draw it. The thread exits where      *)
(* allocate_and_write_block calls allocate_block: the split block is      *)
(* locked remotely, its READs are done and its earlier WRITEs flushed, so *)
(* nothing else of it reaches remote memory. Each thread is taken to be   *)
(* its own compute process.                                                *)
allocate_block_exits(t) ==
  /\ pc[t] = "alloc" /\ ReadsDone(t)
  /\ Cardinality(pool) < FREELIST_PARTITIONS
  /\ pc' = [pc EXCEPT ![t] = "exited"]
  /\ UNCHANGED <<mem, pool, todo, row, node, expected_tag, buf, rd, abuf, wr>>

(* All queries processed: the threads wait at end_latch_. *)
Terminated == (\A t \in Threads : pc[t] \in {"done", "exited"}) /\ UNCHANGED vars

(* The exit is not a step a thread must take: it carries no fairness.     *)
Next == (\E t \in Threads : Step(t) \/ allocate_block_exits(t)) \/ Terminated

(* Each thread is an OS thread spinning on its completion queue, and the  *)
(* NIC executes every posted operation: each thread's steps are weakly    *)
(* fair.                                                                   *)
Spec == Init /\ [][Next]_vars /\ \A t \in Threads : WF_vars(Step(t))

-----------------------------------------------------------------------------
(* The list as it stands: a block being written counts with the image     *)
(* its WRITE carries, every other block with its remote image.            *)
Written(b) == {<<t, k>> \in Threads \X Kinds :
                 wr[t][k].left /= {} /\ wr[t][k].dst = b}
Content(b) == IF Written(b) = {} THEN mem[b]
              ELSE LET w == CHOOSE w \in Written(b) : TRUE
                   IN WriteSource(w[1], w[2])

(* A block's ids: its slots up to the first tombstone. *)
Payload(img) ==
  LET free == {i \in Slots : img.slot[i] = TOMBSTONE}
  IN SubSeq(img.slot, 1, IF free = {} THEN Cap ELSE Min(free) - 1)

(* Each term's ids, met walking its list from its first block along the  *)
(* next pointers (at most one visit per block).  A term without a list    *)
(* has the empty list: its catalog entry is the null pointer.             *)
Lists ==
  LET img == [b \in Blocks |-> Content(b)]
      Walk(first) ==
        LET at[i \in 1 .. Cardinality(Blocks)] ==
              IF i = 1 THEN first
              ELSE IF at[i - 1] = NULLPTR THEN NULLPTR ELSE img[at[i - 1]].next
            ch == SelectSeq(at, LAMBDA b : b /= NULLPTR)
        IN FlattenSeq([i \in DOMAIN ch |-> Payload(img[ch[i]])])
  IN [k \in Terms |-> IF IndexBlocks[k] = <<>> THEN <<>>
                     ELSE Walk(IndexBlocks[k][1])]

(* An insert takes effect when its block's WRITE is posted. *)
PendingIds == [t \in Threads |-> IF pc[t] = "wblock" THEN Tail(todo[t])
                                 ELSE todo[t]]

List == INSTANCE PostingList WITH postings <- Lists, pending <- PendingIds

(* Thread t holds b's lock: from its successful LOCK_block until the last *)
(* line of its unlocking WRITE, the one with the footer, has landed, or   *)
(* for ever once its process exited in allocate_block.                    *)
Holds(t, b) ==
  /\ node[t] = b
  /\ \/ pc[t] \in {"alloc", "walloc", "exited"}
     \/ pc[t] = "wblock" /\ NumLines \in wr[t]["block"].left

TypeOK ==
  /\ mem \in [Blocks -> Image]
  /\ pool \subseteq Blocks
  /\ pc \in [Threads -> {"start", "loop", "alloc", "walloc", "wblock", "done",
                       "exited"}]
  /\ todo \in [Threads -> Seq([term : Terms, id : Nat])]
  /\ row \in [Threads -> Rows]
  /\ node \in [Threads -> Blocks]
  /\ expected_tag \in [Threads -> Nat]
  /\ buf \in [Threads -> [Rows -> Image]]
  /\ rd \in [Threads -> [Rows -> Op]]
  /\ abuf \in [Threads -> Image]
  /\ wr \in [Threads -> [Kinds -> WOp]]

(* Spec section 4 (the lock bit) about LOCK_block's CAS and the unlocking *)
(* WRITE: a block's remote lock bit is set exactly while one thread holds *)
(* it, so two inserts never rewrite one block at once and no lock is left *)
(* behind by a thread that goes on; the lock an exited process held stays *)
(* set, and no other thread ever takes it.                                *)
LockExclusive ==
  \A b \in Blocks :
    /\ mem[b].lock <=> \E t \in Threads : Holds(t, b)
    /\ \A t, u \in Threads : Holds(t, b) /\ Holds(u, b) => t = u

(* Inserts racing on the list, torn READs and WRITEs, failed locks and     *)
(* splits together implement atomic sorted insertion: the ids reachable   *)
(* from the first block always form the ascending list of the loaded ids  *)
(* and the inserts done so far, each added exactly once and none lost.    *)
(* A process exiting in allocate_block, between the lock and the split,   *)
(* leaves no half-done insert: the block it took from the free list is    *)
(* linked only by WRITEs it never posted.                                 *)
PostingListRefined == List!Spec

(* Every insert of every thread completes, in every run where no process *)
(* exits: no thread spins forever on a locked or torn block or on a       *)
(* failing CAS.                                                            *)
NoExit == \A t \in Threads : pc[t] /= "exited"
InsertsComplete == []NoExit => <>(\A t \in Threads : pc[t] = "done")

(* Every thread that does not exit completes its inserts although another *)
(* process exited: violated, since the exited process's lock is never     *)
(* released and the find_block_and_insert loop of a thread that reaches   *)
(* the block re-READs it for ever (MC_DynamicIndex_exit.cfg).             *)
SurvivorsComplete == <>(\A t \in Threads : pc[t] \in {"done", "exited"})
=============================================================================
