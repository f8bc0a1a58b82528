------------------------------ MODULE FreeList ------------------------------
(***************************************************************************)
(* The per-memory-node remote free list of the dynamic block index         *)
(* (src/src/index/block_based_dynamic/free_list.hh) and its layout as the  *)
(* memory node initialises it (src/src/index/memory_node.hh).              *)
(*                                                                         *)
(* Remote state: FREELIST_PARTITIONS 64-bit head words and one 32-bit      *)
(* next word per block.  Compute threads change it only with one-sided     *)
(* READ, WRITE and CAS; every operation here is one remote operation that  *)
(* the thread waits for, so each is one atomic step.  A thread runs a      *)
(* program of allocate/deallocate calls; "held" is what its caller holds.  *)
(***************************************************************************)
EXTENDS Naturals, Sequences, FiniteSets

CONSTANTS
  Threads,              \* compute threads sharing the memory node
  NumIndexBlocks,       \* blocks occupied by the loaded index
  TotalBlocks,          \* index blocks plus additional free blocks
  FREELIST_PARTITIONS,  \* number of head words
  TOMBSTONE,            \* the u32 -1 end-of-list marker (a model value)
  Program               \* Program[t]: the calls thread t makes, in order

Parts == 0 .. FREELIST_PARTITIONS - 1
BlockIdx == 0 .. TotalBlocks - 1
Ptr == BlockIdx \cup {TOMBSTONE}

ASSUME /\ FREELIST_PARTITIONS >= 1
       \* initialize_freelist sets every head to a block index unconditionally
       /\ NumIndexBlocks + FREELIST_PARTITIONS <= TotalBlocks
       /\ Program \in [Threads -> Seq({"alloc", "dealloc"})]

VARIABLES
  head,        \* head[p]: remote head word p
  next,        \* next[b]: remote next word of block b
  pc,          \* control point of each thread
  prog,        \* calls still to make
  part,        \* the head word the current call works on
  flb,         \* the thread's FreeListBuffers: [head, head_next]
  local_head,  \* allocate's `head` / deallocate's `current_head`
  new_head,    \* deallocate's argument
  held         \* blocks handed to the caller and not returned

vars == <<head, next, pc, prog, part, flb, local_head, new_head, held>>

(* Variants of initialize_freelist's link: bounded with <= instead of <, *)
(* and linking each block to its neighbour instead of to i + P.           *)
InitNext_bound_inclusive(i) ==
  IF i < NumIndexBlocks THEN TOMBSTONE
  ELSE IF i + FREELIST_PARTITIONS <= TotalBlocks
       THEN i + FREELIST_PARTITIONS ELSE TOMBSTONE
InitNext_neighbour(i) ==
  IF i < NumIndexBlocks THEN TOMBSTONE
  ELSE IF i + 1 < TotalBlocks THEN i + 1 ELSE TOMBSTONE

(* initialize_freelist: head p starts at the p-th free block, and free     *)
(* block i links to i + FREELIST_PARTITIONS, so the partitions are         *)
(* interleaved chains over the blocks behind the index.                    *)
InitNext(i) ==
  IF i < NumIndexBlocks THEN TOMBSTONE
  ELSE IF i + FREELIST_PARTITIONS < TotalBlocks
       THEN i + FREELIST_PARTITIONS ELSE TOMBSTONE

Init ==
  /\ head = [p \in Parts |-> NumIndexBlocks + p]
  /\ next = [i \in BlockIdx |-> InitNext(i)]
  /\ pc = [t \in Threads |-> "idle"]
  /\ prog = Program
  /\ part = [t \in Threads |-> 0]
  /\ flb = [t \in Threads |-> [head |-> 0, head_next |-> 0]]
  /\ local_head = [t \in Threads |-> 0]
  /\ new_head = [t \in Threads |-> 0]
  /\ held = [t \in Threads |-> {}]

(* The caller starts its next call.  deallocate draws its random head once *)
(* before its retry loop; allocate draws a new one in every iteration.     *)
call(t) ==
  /\ pc[t] = "idle" /\ prog[t] /= <<>>
  /\ prog' = [prog EXCEPT ![t] = Tail(@)]
  /\ \/ /\ Head(prog[t]) = "alloc"
        /\ pc' = [pc EXCEPT ![t] = "alloc"]
        /\ UNCHANGED <<part, new_head>>
     \/ /\ Head(prog[t]) = "dealloc"
        /\ \E b \in held[t], p \in Parts :
             /\ new_head' = [new_head EXCEPT ![t] = b]
             /\ part' = [part EXCEPT ![t] = p]
        /\ pc' = [pc EXCEPT ![t] = "dealloc"]
  /\ UNCHANGED <<head, next, flb, local_head, held>>

(* allocate: READ a random head; a TOMBSTONE fails lib_assert ("memory     *)
(* node out of memory") and the process stops.                             *)
allocate_READ_head(t) ==
  /\ pc[t] = "alloc"
  /\ \E p \in Parts :
       /\ part' = [part EXCEPT ![t] = p]
       /\ flb' = [flb EXCEPT ![t].head = head[p]]
       /\ local_head' = [local_head EXCEPT ![t] = head[p]]
       /\ pc' = [pc EXCEPT ![t] = IF head[p] = TOMBSTONE THEN "oom"
                                                         ELSE "allocNext"]
  /\ UNCHANGED <<head, next, prog, new_head, held>>

allocate_READ_next(t) ==
  /\ pc[t] = "allocNext"
  /\ flb' = [flb EXCEPT ![t].head_next = next[local_head[t]]]
  /\ pc' = [pc EXCEPT ![t] = "allocCAS"]
  /\ UNCHANGED <<head, next, prog, part, local_head, new_head, held>>

(* Variants of allocate's CAS step: one that takes the block whatever the *)
(* CAS returned, one that retries the CAS with the stale head.            *)
allocate_CAS_unchecked(t) ==
  /\ pc[t] = "allocCAS"
  /\ head' = [head EXCEPT ![part[t]] = flb[t].head_next]
  /\ flb' = [flb EXCEPT ![t].head = head[part[t]]]
  /\ pc' = [pc EXCEPT ![t] = "idle"]
  /\ held' = [held EXCEPT ![t] = @ \cup {local_head[t]}]
  /\ UNCHANGED <<next, prog, part, local_head, new_head>>
allocate_CAS_stale_retry(t) ==
  LET ok == head[part[t]] = local_head[t]
  IN /\ pc[t] = "allocCAS"
     /\ head' = IF ok THEN [head EXCEPT ![part[t]] = flb[t].head_next]
                      ELSE head
     /\ flb' = [flb EXCEPT ![t].head = head[part[t]]]
     /\ pc' = [pc EXCEPT ![t] = IF ok THEN "idle" ELSE "allocCAS"]
     /\ held' = IF ok THEN [held EXCEPT ![t] = @ \cup {local_head[t]}]
                      ELSE held
     /\ UNCHANGED <<next, prog, part, local_head, new_head>>

(* CAS head from `head` to head->next; the old value lands in flb.head and *)
(* the loop repeats while it differs from `head`.                          *)
allocate_CAS(t) ==
  LET old == head[part[t]]
      ok  == old = local_head[t]
  IN /\ pc[t] = "allocCAS"
     /\ head' = IF ok THEN [head EXCEPT ![part[t]] = flb[t].head_next]
                      ELSE head
     /\ flb' = [flb EXCEPT ![t].head = old]
     /\ pc' = [pc EXCEPT ![t] = IF ok THEN "idle" ELSE "alloc"]
     /\ held' = IF ok THEN [held EXCEPT ![t] = @ \cup {local_head[t]}]
                      ELSE held
     /\ UNCHANGED <<next, prog, part, local_head, new_head>>

deallocate_READ_head(t) ==
  /\ pc[t] = "dealloc"
  /\ flb' = [flb EXCEPT ![t].head = head[part[t]]]
  /\ local_head' = [local_head EXCEPT ![t] = head[part[t]]]
  /\ pc' = [pc EXCEPT ![t] = "deallocWrite"]
  /\ UNCHANGED <<head, next, prog, part, new_head, held>>

(* The unsignaled inlined WRITE of current_head into new_head's next word; *)
(* the QP executes it before the CAS posted after it.                      *)
deallocate_WRITE_next(t) ==
  /\ pc[t] = "deallocWrite"
  /\ next' = [next EXCEPT ![new_head[t]] = local_head[t]]
  /\ pc' = [pc EXCEPT ![t] = "deallocCAS"]
  /\ UNCHANGED <<head, prog, part, flb, local_head, new_head, held>>

deallocate_CAS(t) ==
  LET old == head[part[t]]
      ok  == old = local_head[t]
  IN /\ pc[t] = "deallocCAS"
     /\ head' = IF ok THEN [head EXCEPT ![part[t]] = new_head[t]] ELSE head
     /\ flb' = [flb EXCEPT ![t].head = old]
     /\ pc' = [pc EXCEPT ![t] = IF ok THEN "idle" ELSE "dealloc"]
     /\ held' = IF ok THEN [held EXCEPT ![t] = @ \ {new_head[t]}] ELSE held
     /\ UNCHANGED <<next, prog, part, local_head, new_head>>

(* lib_assert calls std::exit: once one thread fails, the whole compute   *)
(* process, and every thread of it, stops.                                 *)
Exited == \E t \in Threads : pc[t] = "oom"

Step(t) ==
  /\ ~Exited
  /\ \/ call(t)
     \/ allocate_READ_head(t) \/ allocate_READ_next(t) \/ allocate_CAS(t)
     \/ deallocate_READ_head(t) \/ deallocate_WRITE_next(t)
     \/ deallocate_CAS(t)

Finished == Exited \/ \A t \in Threads : pc[t] = "idle" /\ prog[t] = <<>>

(* Every thread has made all its calls, or the process exited: it stops.  *)
Terminated == Finished /\ UNCHANGED vars

Next == (\E t \in Threads : Step(t)) \/ Terminated

(* Threads are OS threads and every remote operation completes. *)
Spec == Init /\ [][Next]_vars /\ \A t \in Threads : WF_vars(Step(t))

-----------------------------------------------------------------------------
(* The blocks reachable from head word p by following next words. *)
RECURSIVE ChainFrom(_, _)
ChainFrom(b, fuel) ==
  IF b = TOMBSTONE \/ fuel = 0 THEN {}
  ELSE {b} \cup ChainFrom(next[b], fuel - 1)

FreeBlocks == UNION {ChainFrom(head[p], TotalBlocks) : p \in Parts}

Pool == INSTANCE FreePool WITH
          Blocks <- BlockIdx,
          InitFree <- NumIndexBlocks .. TotalBlocks - 1,
          free <- FreeBlocks,
          owned <- held

TypeOK ==
  /\ head \in [Parts -> Ptr]
  /\ next \in [BlockIdx -> Ptr]
  /\ pc \in [Threads -> {"idle", "alloc", "allocNext", "allocCAS", "oom",
                         "dealloc", "deallocWrite", "deallocCAS"}]
  /\ part \in [Threads -> Parts]
  /\ flb \in [Threads -> [head : Ptr, head_next : Ptr]]
  /\ local_head \in [Threads -> Ptr]
  /\ new_head \in [Threads -> BlockIdx]
  /\ held \in [Threads -> SUBSET BlockIdx]

(* Spec section 8, property 7, about allocate's READ/READ/CAS loop racing  *)
(* other threads' loops: a block allocate returns is in no free chain and  *)
(* was not returned to another thread.                                     *)
NoDoubleAllocation == Pool!Exclusive

(* The READ/READ/CAS protocol implements an atomic pop from, and push to,  *)
(* a pool of free blocks: every successful CAS is one pool operation and   *)
(* every other step leaves the pool and the owners unchanged.              *)
FreePoolRefined == Pool!Spec

(* Lock freedom of allocate: a thread inside allocate's retry loop         *)
(* eventually leaves it with a block, or the process exits on the          *)
(* out-of-memory assertion.                                                *)
AllocationTerminates ==
  \A t \in Threads :
    pc[t] \in {"alloc", "allocNext", "allocCAS"} ~> (pc[t] = "idle" \/ Exited)

(* Spec section 8 ("free list with a single remaining block: one allocate  *)
(* succeeds, the next is fatal"), about allocate's lib_assert on a         *)
(* TOMBSTONE head: allocation fails only when no free block is left.       *)
OutOfMemoryOnlyWhenEmpty ==
  \A t \in Threads : pc[t] = "oom" => FreeBlocks = {}
=============================================================================
