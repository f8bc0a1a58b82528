--------------------------- MODULE BlockPartitioner ---------------------------
(***************************************************************************)
(* The block-based partitioner (data_processing/partitioner): main reads   *)
(* its options and, with -a, the keys of a key file; partition<> reads the *)
(* binary file's header and sets up one meta batch per memory node; and    *)
(* BlockBasedPartitioner::partition turns each list of the file, one per   *)
(* step, into chained blocks of block_size bytes spread round-robin over   *)
(* the memory nodes.  With updates (-u) each 64-byte cache line starts     *)
(* with a version word and the footer is a 64-bit remote pointer (two     *)
(* u32 words, high half first) and a 64-bit flags word; without, it is    *)
(* [node | offset].  The batches are what the meta and index files hold.  *)
(***************************************************************************)
EXTENDS Integers, Sequences, SequencesExt, FiniteSets, FiniteSetsExt

CONSTANTS
  NumNodes,    \* -n: memory nodes
  BlockSizes,  \* the -b values a run may use (bytes, at least 12)
  Updates,     \* the -u values a run may use
  KeyFile,     \* -a: the key file's lines, each a sequence of keys
  TOMBSTONE    \* static_cast<u32>(-1)

ASSUME /\ NumNodes \in Nat \ {0}
       /\ \A bs \in BlockSizes : bs >= 12   \* partitioner.cc:73

SIZEOF_U32 == 4
CACHE_LINE_SIZE == 64
INIT_CACHE_LINE_VERSION == 0
INIT_BLOCK_TAG == 0
Nodes == 0 .. NumNodes - 1

VARIABLES
  binary,      \* the deserializer's input file, as u32 words
  pphase,      \* "idle" | "run" | "done"
  block_size, updates,
  accessed,    \* the keys still in the heap
  next_list,   \* the accessed key the loop waits for
  j,           \* lists read so far
  pos,         \* the deserializer's next word
  node,        \* the node the current list's last block is on
  offsets,     \* offset_per_memory_node: blocks written per node
  meta,        \* meta_batches
  ibatch       \* index_batches

pvars == <<binary, pphase, block_size, updates, accessed, next_list, j, pos,
           node, offsets, meta, ibatch>>

(* partitioner.cc: the keys of every line go into a std::set. *)
AccessedKeys == UNION {ToSet(KeyFile[i]) : i \in DOMAIN KeyFile}
accessed_only == AccessedKeys /= {}

BlockEntries == block_size \div SIZEOF_U32
RemotePtrEntries == IF updates THEN 4 ELSE 2

(* encode_remote_ptr(tag, m_id, offset) = [tag(16) | m_id(10) | offset(38)], *)
(* split into its high and low u32 words; offset is a u32, so its top six  *)
(* bits are 0.  The partitioner only passes INIT_BLOCK_TAG = 0.            *)
EncodeHigh(tag, m_id) == tag * 2^16 + (m_id % 2^10) * 2^6

Footer(n, off) ==
  IF updates THEN <<EncodeHigh(INIT_BLOCK_TAG, n), off, INIT_CACHE_LINE_VERSION, 0>>
  ELSE <<n, off>>

(***************************************************************************)
(* The block being filled: the index batches, the offsets, its node and   *)
(* remaining_block_entries.                                                *)
(***************************************************************************)
CacheLineVersioning(b) ==
  IF updates /\ (block_size - b.rem * SIZEOF_U32) % CACHE_LINE_SIZE = 0
  THEN [b EXCEPT !.ib[b.node] = Append(@, INIT_CACHE_LINE_VERSION),
                 !.rem = @ - 1]
  ELSE b

(* A full block: its footer points at the next node's next block, where   *)
(* the list goes on.                                                       *)
\* Mutant: the next node's offset is not advanced past the new block.
NewBlock_offset_not_bumped(b) ==
  LET next_node == (b.node + 1) % NumNodes
  IN CacheLineVersioning(
       [b EXCEPT !.ib[b.node] = @ \o Footer(next_node, b.off[next_node]),
                 !.node = next_node,
                 !.rem = BlockEntries])

NewBlock(b) ==
  LET next_node == (b.node + 1) % NumNodes
  IN CacheLineVersioning(
       [b EXCEPT !.ib[b.node] = @ \o Footer(next_node, b.off[next_node]),
                 !.off[next_node] = @ + 1,
                 !.node = next_node,
                 !.rem = BlockEntries])

AddDocument(b, d) ==
  LET v == CacheLineVersioning(b)
      c == IF v.rem = RemotePtrEntries THEN NewBlock(v) ELSE v
  IN [c EXCEPT !.ib[c.node] = Append(@, d), !.rem = @ - 1]

\* Mutant: the padding stops one entry early.
RECURSIVE FillTombstones_stops_early(_)
FillTombstones_stops_early(b) ==
  IF b.rem > RemotePtrEntries + 1
  THEN FillTombstones_stops_early(LET v == CacheLineVersioning(b)
                                  IN [v EXCEPT !.ib[v.node] = Append(@, TOMBSTONE),
                                               !.rem = @ - 1])
  ELSE b

RECURSIVE FillTombstones(_)
FillTombstones(b) ==
  IF b.rem > RemotePtrEntries
  THEN FillTombstones(LET v == CacheLineVersioning(b)
                      IN [v EXCEPT !.ib[v.node] = Append(@, TOMBSTONE),
                                   !.rem = @ - 1])
  ELSE b

SetNullPointer(b) ==
  IF b.rem > 0 THEN [b EXCEPT !.ib[b.node] = @ \o Footer(0, 0),
                              !.rem = @ - RemotePtrEntries]
  ELSE b

(* The loop over the list's documents. *)
RECURSIVE AddDocuments(_, _, _)
AddDocuments(b, ids, i) ==
  IF i > Len(ids) THEN b ELSE AddDocuments(AddDocument(b, ids[i]), ids, i + 1)

BuildBlocks(b, ids) == SetNullPointer(FillTombstones(AddDocuments(b, ids, 1)))

(***************************************************************************)
(* partition<>: universe and num_lists from the header; each meta batch   *)
(* starts [node | universe | 0 | block_size].  With -a the key set is made *)
(* a min-heap and its smallest key popped.  The options are the run's.    *)
(***************************************************************************)
PStart ==
  /\ pphase = "idle" /\ binary /= <<>>
  /\ \E bs \in BlockSizes, u \in Updates :
       /\ block_size' = bs /\ updates' = u
       /\ meta' = [n \in Nodes |-> <<n, binary[1], 0, bs>>]
  /\ accessed' = IF accessed_only THEN AccessedKeys \ {Min(AccessedKeys)} ELSE {}
  /\ next_list' = IF accessed_only THEN Min(AccessedKeys) ELSE 0
  /\ ibatch' = [n \in Nodes |-> <<>>]
  /\ offsets' = [n \in Nodes |-> 0]
  /\ node' = 0 /\ j' = 0 /\ pos' = 3
  /\ pphase' = "run"
  /\ UNCHANGED binary

NumLists == binary[2]
BytesLeft == pos <= Len(binary)

(***************************************************************************)
(* One iteration of the loop over the lists: the list goes to the node    *)
(* after the one the previous list ended on.  With -a a list that is not  *)
(* next_list is jumped over; when next_list is found and the heap is      *)
(* empty the loop breaks; otherwise the next key is popped and the list   *)
(* gets an entry [term | offset] in its node's meta batch and its blocks.  *)
(***************************************************************************)
partition_list ==
  /\ pphase = "run" /\ j < NumLists /\ BytesLeft
  /\ LET n    == IF j > 0 THEN (node + 1) % NumNodes ELSE 0
         term == binary[pos]
         size == binary[pos + 1]
         ids  == SubSeq(binary, pos + 2, pos + 1 + size)
         skip == accessed_only /\ term /= next_list
         stop == accessed_only /\ ~skip /\ accessed = {}
         b    == BuildBlocks([ib |-> ibatch, off |-> [offsets EXCEPT ![n] = @ + 1],
                              node |-> n, rem |-> BlockEntries], ids)
     IN /\ j' = j + 1
        /\ pos' = pos + 2 + size
        /\ IF skip \/ stop
           THEN /\ node' = n
                /\ pphase' = IF stop THEN "done" ELSE pphase
                /\ UNCHANGED <<offsets, meta, ibatch, accessed, next_list>>
           ELSE /\ meta' = [meta EXCEPT ![n] = [@ EXCEPT ![3] = @ + 1]
                                               \o <<term, offsets[n]>>]
                /\ ibatch' = b.ib /\ offsets' = b.off /\ node' = b.node
                /\ accessed' = IF accessed_only THEN accessed \ {Min(accessed)}
                               ELSE accessed
                /\ next_list' = IF accessed_only THEN Min(accessed) ELSE next_list
                /\ UNCHANGED pphase
  /\ UNCHANGED <<binary, block_size, updates>>

(* The loop ends; partition<> writes each node's batches to its files. *)
PFinish ==
  /\ pphase = "run" /\ ~(j < NumLists /\ BytesLeft)
  /\ pphase' = "done"
  /\ UNCHANGED <<binary, block_size, updates, accessed, next_list, j, pos,
                 node, offsets, meta, ibatch>>

PInit ==
  /\ pphase = "idle"
  /\ block_size = 0 /\ updates = FALSE
  /\ accessed = {} /\ next_list = 0 /\ j = 0 /\ pos = 1 /\ node = 0
  /\ offsets = [n \in Nodes |-> 0]
  /\ meta = [n \in Nodes |-> <<>>]
  /\ ibatch = [n \in Nodes |-> <<>>]

PNext == PStart \/ partition_list \/ PFinish
=============================================================================
