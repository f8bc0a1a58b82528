---------------------------- MODULE SetOperations ----------------------------
(***************************************************************************)
(* The two list operations of src/src/index/operations.hh, used by the     *)
(* term- and document-based query handlers on posting lists that were     *)
(* READ into local buffers:                                                *)
(*                                                                         *)
(*  compute_intersection  walks the lists round-robin with one candidate   *)
(*                        value (curr_value) and the number of lists that  *)
(*                        hold it (count);                                 *)
(*  compute_union         merges the lists through a min-heap of           *)
(*                        (list entry, list index) pairs and drops          *)
(*                        duplicates by comparing with the last emitted    *)
(*                        entry, which starts as u32(-1).                  *)
(*                                                                         *)
(* A list is a sorted sequence of document ids; an iterator is a position  *)
(* in it, End(l) being the end iterator. Each loop iteration of the code   *)
(* is one step operator on a record holding the loop's locals, so that     *)
(* MC_SetOperations can take the steps one by one (and check every        *)
(* interleaving of the heap's ties) while the query handlers apply the     *)
(* whole loop at once through compute_intersection and compute_union.      *)
(***************************************************************************)
EXTENDS Integers, Sequences, SequencesExt, FiniteSets

\* Document ids are u32; IdBits scales that width down (TLC's integers are
\* 32-bit signed), and `u32 last_element = -1` is the largest such id.
CONSTANT IdBits

U32Max == 2^IdBits - 1

End(l) == Len(l) + 1

(***************************************************************************)
(* compute_intersection                                                   *)
(***************************************************************************)

\* reset_value: take the value under list i's iterator as the new candidate.
reset_value_keeps_count(s, i) ==
    [s EXCEPT !.curr = s.ls[i][s.it[i]], !.it[i] = @ + 1]
reset_value(s, i) ==
    [s EXCEPT !.curr = s.ls[i][s.it[i]], !.count = 1, !.it[i] = @ + 1]

\* Before the loop: an empty first list ends the operation, a single list
\* is emitted as it is, otherwise the first list's head is the candidate.
InterBegin(ls) ==
    LET s0 == [ls |-> ls, it |-> [i \in DOMAIN ls |-> 1], idx |-> 2,
               curr |-> 0, count |-> 0, out |-> <<>>, done |-> FALSE]
    IN  CASE ls[1] = <<>> -> [s0 EXCEPT !.done = TRUE]
          [] Len(ls) = 1  -> [s0 EXCEPT !.out = ls[1], !.it[1] = End(ls[1]),
                                        !.done = TRUE]
          [] OTHER        -> reset_value(s0, 1)

\* The inner while: the first position at or after `from` whose entry is
\* not below v, or the end.
SkipNone(l, from, v) == from
SkipPast(l, from, v) ==
    Min({p \in from .. End(l) : p = End(l) \/ l[p] > v})
Skip(l, from, v) ==
    Min({p \in from .. End(l) : p = End(l) \/ l[p] >= v})

Seek(s) == [s EXCEPT !.it[s.idx] = Skip(s.ls[s.idx], @, s.curr)]

\* `*iter` of the current list and whether it is the end iterator.
Cur(s) == s.ls[s.idx][s.it[s.idx]]
AtEndIter(s) == s.it[s.idx] = End(s.ls[s.idx])

Cycle(s) == [s EXCEPT !.idx = (@ % Len(s.ls)) + 1]

\* The guards of one loop iteration, on the state after the inner while.
BreakG(s)   == AtEndIter(Seek(s))
EqualG(s)   == ~BreakG(s) /\ Cur(Seek(s)) = s.curr
FullG(s)    == EqualG(s) /\ s.count + 1 = Len(s.ls)
LastG(s)    == FullG(s) /\ Seek(s).it[s.idx] + 1 = End(s.ls[s.idx])
GreaterG(s) == ~BreakG(s) /\ Cur(Seek(s)) > s.curr

\* The steps of one iteration.
inter_break(s) == [Seek(s) EXCEPT !.done = TRUE]

inter_match(s) ==
    LET m == Seek(s) IN Cycle([m EXCEPT !.count = @ + 1, !.it[m.idx] = @ + 1])

Emit(s) ==
    LET m == Seek(s)
    IN  [m EXCEPT !.count = @ + 1, !.it[m.idx] = @ + 1, !.out = Append(@, s.curr)]

inter_result_last(s) == [Emit(s) EXCEPT !.done = TRUE]

inter_result(s) == LET e == Emit(s) IN Cycle(reset_value(e, e.idx))

inter_reset(s) == LET m == Seek(s) IN Cycle(reset_value(m, m.idx))

InterStep(s) ==
    CASE BreakG(s)    -> inter_break(s)
      [] LastG(s)     -> inter_result_last(s)
      [] FullG(s)     -> inter_result(s)
      [] EqualG(s)    -> inter_match(s)
      [] GreaterG(s)  -> inter_reset(s)

RECURSIVE InterLoop(_)
InterLoop(s) == IF s.done THEN s ELSE InterLoop(InterStep(s))

compute_intersection(ls) == InterLoop(InterBegin(ls)).out

(***************************************************************************)
(* compute_union                                                          *)
(***************************************************************************)

\* Initialising the heap with each nonempty list's head; the code advances
\* a copy of the iterator, so it[i] still points at the entry in the heap.
UnionBegin(ls) ==
    [ls |-> ls, it |-> [i \in DOMAIN ls |-> 1], last |-> U32Max, out |-> <<>>,
     heap |-> {<<ls[i][1], i>> : i \in {j \in DOMAIN ls : ls[j] /= <<>>}}]

UnionDone(s) == s.heap = {}

\* min_heap.top(): HeapCompare orders by the entry only, so of equal
\* entries of different lists any one may be on top.
Tops(s) == {e \in s.heap : \A f \in s.heap : e[1] <= f[1]}

\* Pop e, advance its list and push the list's next entry.
Advance(s, e) ==
    LET i == e[2]  nit == s.it[i] + 1  rest == s.heap \ {e}
    IN  [s EXCEPT !.it[i] = nit,
                  !.heap = IF nit /= End(s.ls[i]) THEN rest \cup {<<s.ls[i][nit], i>>}
                                                  ELSE rest]

union_emit_keeps_last(s, e) == [Advance(s, e) EXCEPT !.out = Append(@, e[1])]
union_emit(s, e) == [Advance(s, e) EXCEPT !.out = Append(@, e[1]), !.last = e[1]]

union_skip_duplicate(s, e) == Advance(s, e)

UnionStep(s, e) ==
    IF s.last /= e[1] THEN union_emit(s, e) ELSE union_skip_duplicate(s, e)

RECURSIVE UnionLoop(_)
UnionLoop(s) ==
    IF UnionDone(s) THEN s ELSE UnionLoop(UnionStep(s, CHOOSE e \in Tops(s) : TRUE))

compute_union(ls) == UnionLoop(UnionBegin(ls)).out

(***************************************************************************)
(* Reference definitions the operations are checked against.              *)
(***************************************************************************)

SortedLists(Ids) == {SetToSortSeq(S, <) : S \in SUBSET Ids}

Intersect(ls) == {x \in UNION {ToSet(ls[i]) : i \in DOMAIN ls} :
                    \A i \in DOMAIN ls : x \in ToSet(ls[i])}

Unite(ls) == UNION {ToSet(ls[i]) : i \in DOMAIN ls}

=============================================================================
