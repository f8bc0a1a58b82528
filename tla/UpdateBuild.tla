----------------------------- MODULE UpdateBuild -----------------------------
(***************************************************************************)
(* The offline preparation of an update run, program after program:        *)
(*   - create_documents turns the binary index into a documents file, one  *)
(*     line "doc: terms" per document id in order;                         *)
(*   - draw_documents_and_create_index draws num_samples documents at      *)
(*     random (std::sample keeps them in id order), writes them to the     *)
(*     insert-documents file, and writes a text index of the others' lists *)
(*     with the header "num_lists / num_lists" and the non-empty lists;    *)
(*   - serialize turns that text index into a binary file;                 *)
(*   - the block-based partitioner (BlockPartitioner) lays it out.         *)
(* The drawn documents are what the update run inserts again.              *)
(***************************************************************************)
EXTENDS BlockPartitioner

CONSTANTS
  OriginalFile,  \* the serialized original index (u32 words)
  NumDocuments   \* num_documents of the dataset

Build == INSTANCE Partitioner

NumOriginalLists == OriginalFile[2]
Terms == 0 .. NumOriginalLists - 1

(* The position of every list of a serialized file, in file order. *)
RECURSIVE ListPositions(_, _, _)
ListPositions(f, p, i) ==
  IF i = f[2] THEN <<>>
  ELSE <<p>> \o ListPositions(f, p + 2 + f[p + 1], i + 1)

OriginalLists == LET ps == ListPositions(OriginalFile, 3, 0)
                 IN [i \in DOMAIN ps |-> [term |-> OriginalFile[ps[i]],
                                          ids |-> Build!ListAt(OriginalFile, ps[i])]]

(* create_documents: documents[doc_id] gets the term of each list that    *)
(* holds doc_id, in list order; then one line per document id.             *)
RECURSIVE AddPostings(_, _, _)
AddPostings(documents, term, ids) ==
  IF ids = <<>> THEN documents
  ELSE AddPostings([documents EXCEPT ![Head(ids)] = Append(@, term)], term, Tail(ids))

CreateDocuments ==
  LET documents == FoldLeft(LAMBDA ds, l : AddPostings(ds, l.term, l.ids),
                            [d \in 0 .. NumDocuments - 1 |-> <<>>], OriginalLists)
  IN [i \in 1 .. NumDocuments |-> [doc |-> i - 1, terms |-> documents[i - 1]]]

DocumentsFile == CreateDocuments

(* static_cast<u32>(0.05 * num_documents). *)
NumSamples == (NumDocuments * 5) \div 100

ASSUME NumSamples > 0   \* else popleft() reads an empty deque

VARIABLES
  dphase,            \* "draw" | "write" | "serialize" | "done"
  insert_documents,  \* the drawn ids not yet met, in order
  next_doc,
  line,              \* the documents file's next line
  dof,               \* the insert-documents file: its lines
  index,             \* index[term]: the kept documents, in file order
  text,              \* the text index file written
  sample             \* the drawn ids (history)

dvars == <<dphase, insert_documents, next_doc, line, dof, index, text, sample>>
vars == <<dvars, pvars>>

\* Mutant: the ids drawn from run one past the last document.
Samples_past_end ==
  {s \in {ToSet(f) : f \in [1 .. NumSamples -> 0 .. NumDocuments]} :
     Cardinality(s) = NumSamples}

(* std::sample of num_samples ids of 0 .. num_documents - 1; the first    *)
(* one is popped at once.                                                  *)
Samples == {s \in {ToSet(f) : f \in [1 .. NumSamples -> 0 .. NumDocuments - 1]} :
              Cardinality(s) = NumSamples}

Init ==
  /\ \E s \in Samples :
       LET drawn == SetToSortSeq(s, LAMBDA a, b : a < b)
       IN /\ sample = s
          /\ next_doc = Head(drawn)
          /\ insert_documents = Tail(drawn)
  /\ dphase = "draw" /\ line = 1 /\ dof = <<>> /\ text = <<>>
  /\ index = [t \in Terms |-> <<>>]
  /\ binary = <<>>
  /\ PInit

(* One line of the documents file: the drawn document is copied to the   *)
(* insert-documents file and the next drawn id popped (if any is left);    *)
(* any other document is appended to the list of each of its terms.       *)
\* Mutant: the drawn document is written but the next drawn id not popped.
draw_line_no_pop ==
  /\ dphase = "draw" /\ line <= Len(DocumentsFile)
  /\ LET rec == DocumentsFile[line]
     IN IF rec.doc = next_doc
        THEN /\ dof' = Append(dof, rec)
             /\ UNCHANGED <<index, next_doc, insert_documents>>
        ELSE /\ index' = FoldLeft(LAMBDA ix, t : [ix EXCEPT ![t] = Append(@, rec.doc)],
                                  index, rec.terms)
             /\ UNCHANGED <<dof, next_doc, insert_documents>>
  /\ line' = line + 1
  /\ UNCHANGED <<dphase, text, sample, pvars>>

draw_line ==
  /\ dphase = "draw" /\ line <= Len(DocumentsFile)
  /\ LET rec == DocumentsFile[line]
     IN IF rec.doc = next_doc
        THEN /\ dof' = Append(dof, rec)
             /\ IF insert_documents /= <<>>
                THEN /\ next_doc' = Head(insert_documents)
                     /\ insert_documents' = Tail(insert_documents)
                ELSE UNCHANGED <<next_doc, insert_documents>>
             /\ UNCHANGED index
        ELSE /\ index' = FoldLeft(LAMBDA ix, t : [ix EXCEPT ![t] = Append(@, rec.doc)],
                                  index, rec.terms)
             /\ UNCHANGED <<dof, next_doc, insert_documents>>
  /\ line' = line + 1
  /\ UNCHANGED <<dphase, text, sample, pvars>>

(* The text index: num_lists twice, then "term: ids" for each non-empty   *)
(* list in term order.                                                     *)
write_index ==
  /\ dphase = "draw" /\ line > Len(DocumentsFile)
  /\ text' = [universe |-> NumOriginalLists, num_lists |-> NumOriginalLists,
              lines |-> SelectSeq([t \in 1 .. NumOriginalLists |->
                                     [term |-> t - 1, docs |-> index[t - 1]]],
                                  LAMBDA l : l.docs /= <<>>)]
  /\ dphase' = "serialize"
  /\ UNCHANGED <<insert_documents, next_doc, line, dof, index, sample, pvars>>

(* serialize writes the header it reads and every list it reads. *)
serialize ==
  /\ dphase = "serialize"
  /\ binary' = Build!Serialize(text.universe, text.num_lists, text.lines)
  /\ dphase' = "done"
  /\ UNCHANGED <<insert_documents, next_doc, line, dof, index, text, sample,
                 pphase, block_size, updates, accessed, next_list, j, pos,
                 node, offsets, meta, ibatch>>

Partition == PNext /\ UNCHANGED dvars

BuildDone == pphase = "done" /\ UNCHANGED vars

Next == draw_line \/ write_index \/ serialize \/ Partition \/ BuildDone

Spec == Init /\ [][Next]_vars
-----------------------------------------------------------------------------
TypeOK ==
  /\ dphase \in {"draw", "write", "serialize", "done"}
  /\ pphase \in {"idle", "run", "done"}
  /\ sample \subseteq 0 .. NumDocuments - 1
  /\ index \in [Terms -> Seq(0 .. NumDocuments - 1)]
  /\ offsets \in [Nodes -> Nat] /\ node \in Nodes
  /\ meta \in [Nodes -> Seq(Nat)] /\ ibatch \in [Nodes -> Seq(Nat)]

(* Reading the layout back as block_intersection walks a list: the entry  *)
(* [term | offset] of the term's meta file, each block's payload words     *)
(* (not line versions, not TOMBSTONE), and the footer's pointer until it  *)
(* is (0, 0).  A walk that leaves the index file yields -1.               *)
MetaEntries ==
  UNION {{<<n, meta[n][k], meta[n][k + 1]>> :
            k \in {5 + 2 * i : i \in 0 .. (Len(meta[n]) - 6) \div 2}} : n \in Nodes}
IsVersionWord(p) == updates /\ ((p - 1) * SIZEOF_U32) % CACHE_LINE_SIZE = 0
Payload(blk) ==
  LET ps == SelectSeq([p \in 1 .. BlockEntries - RemotePtrEntries |-> p],
                      LAMBDA p : ~IsVersionWord(p) /\ blk[p] /= TOMBSTONE)
  IN [i \in DOMAIN ps |-> blk[ps[i]]]
NextOf(blk) ==
  IF updates THEN <<(blk[BlockEntries - 3] \div 2^6) % 2^10, blk[BlockEntries - 2]>>
  ELSE <<blk[BlockEntries - 1], blk[BlockEntries]>>
RECURSIVE WalkBlocks(_, _, _)
WalkBlocks(n, off, fuel) ==
  IF fuel = 0 \/ n \notin Nodes \/ (off + 1) * BlockEntries > Len(ibatch[n])
  THEN <<-1>>
  ELSE LET blk == SubSeq(ibatch[n], off * BlockEntries + 1, (off + 1) * BlockEntries)
           nx  == NextOf(blk)
       IN Payload(blk) \o (IF nx = <<0, 0>> THEN <<>>
                           ELSE WalkBlocks(nx[1], nx[2], fuel - 1))
LaidOut(t) ==
  IF \E e \in MetaEntries : e[2] = t
  THEN LET e == CHOOSE e \in MetaEntries : e[2] = t
       IN WalkBlocks(e[1], e[3], 1 + FoldFunction(+, 0, offsets))
  ELSE <<>>

OriginalIds(t) == UNION {ToSet(OriginalLists[i].ids) :
                           i \in {i \in DOMAIN OriginalLists : OriginalLists[i].term = t}}
DrawnWith(t) == {dof[i].doc : i \in {i \in DOMAIN dof : t \in ToSet(dof[i].terms)}}

(* The insert-documents file holds exactly the documents std::sample drew, *)
(* each with all its terms, in id order.  draw_documents relies on the     *)
(* documents file listing every id in order and on the sample being       *)
(* sorted: a drawn id it steps past is never written, and that document   *)
(* stays in the index.                                                     *)
DrawnAreSample ==
  dphase /= "draw" =>
    /\ {dof[i].doc : i \in DOMAIN dof} = sample
    /\ \A i \in DOMAIN dof : dof[i] = DocumentsFile[dof[i].doc + 1]

(* Once the partitioner is done, every list it was asked for (all, or the *)
(* -a keys) reads back from the blocks, across memory nodes and cache      *)
(* lines, as the ids of the original list that were not drawn, ascending   *)
(* and once each: drawing, rewriting, serializing and partitioning lose,   *)
(* invent and duplicate nothing, although the rebuilt file's num_lists     *)
(* counts the lists that became empty.                                     *)
LayoutHoldsRemainder ==
  pphase = "done" =>
    \A t \in (IF accessed_only THEN AccessedKeys ELSE Terms) \cap Terms :
      LET got == LaidOut(t)
      IN /\ \A i \in 1 .. Len(got) - 1 : got[i] < got[i + 1]
         /\ ToSet(got) \cap DrawnWith(t) = {}
         /\ ToSet(got) \cup DrawnWith(t) = OriginalIds(t)

(* The memory node loads each index file verbatim and takes every block   *)
(* beyond it as free: each node's index batch is a whole number of blocks, *)
(* exactly the blocks its offset counter handed out, and every meta entry *)
(* (counted in the header's third word) names one of them.                 *)
IndexFilesWholeBlocks ==
  pphase /= "idle" =>
    \A n \in Nodes :
      /\ Len(ibatch[n]) = offsets[n] * BlockEntries
      /\ Len(meta[n]) = 4 + 2 * meta[n][3]
      /\ \A e \in MetaEntries : e[1] = n => e[3] < offsets[n]
=============================================================================
