-------------------------- MODULE MC_SetOperations --------------------------
(***************************************************************************)
(* Runs compute_intersection and compute_union of SetOperations one loop  *)
(* iteration per step, from every tuple of 1 to MaxLists sorted lists      *)
(* over Ids, and checks the results against the set operations.            *)
(***************************************************************************)
EXTENDS SetOperations

CONSTANTS Ids, MaxLists

VARIABLES op, st

vars == <<op, st>>

Inputs == UNION {[1 .. n -> SortedLists(Ids)] : n \in 1 .. MaxLists}

Init ==
    \E ls \in Inputs :
        \/ op = "intersection" /\ st = InterBegin(ls)
        \/ op = "union" /\ st = UnionBegin(ls)

Done == IF op = "intersection" THEN st.done ELSE UnionDone(st)

\* One iteration of compute_intersection's while (true), per branch.
InterBreak      == op = "intersection" /\ ~st.done /\ BreakG(st)
                   /\ st' = inter_break(st) /\ UNCHANGED op
InterResultLast == op = "intersection" /\ ~st.done /\ LastG(st)
                   /\ st' = inter_result_last(st) /\ UNCHANGED op
InterResult     == op = "intersection" /\ ~st.done /\ FullG(st) /\ ~LastG(st)
                   /\ st' = inter_result(st) /\ UNCHANGED op
InterMatch      == op = "intersection" /\ ~st.done /\ EqualG(st) /\ ~FullG(st)
                   /\ st' = inter_match(st) /\ UNCHANGED op
InterReset      == op = "intersection" /\ ~st.done /\ GreaterG(st)
                   /\ st' = inter_reset(st) /\ UNCHANGED op

\* One iteration of compute_union's while (!min_heap.empty()), for every
\* entry that may be on top of the heap.
UnionEmit ==
    /\ op = "union" /\ ~UnionDone(st)
    /\ \E e \in Tops(st) : st.last /= e[1] /\ st' = union_emit(st, e)
    /\ UNCHANGED op
UnionSkipDuplicate ==
    /\ op = "union" /\ ~UnionDone(st)
    /\ \E e \in Tops(st) : st.last = e[1] /\ st' = union_skip_duplicate(st, e)
    /\ UNCHANGED op

Finished == Done /\ UNCHANGED vars

Next ==
    \/ InterBreak \/ InterResultLast \/ InterResult \/ InterMatch \/ InterReset
    \/ UnionEmit \/ UnionSkipDuplicate
    \/ Finished

Spec == Init /\ [][Next]_vars /\ WF_vars(Next)

-----------------------------------------------------------------------------

\* Type of the loop state: iterators stay within begin .. end of their list
\* and count never exceeds the number of lists.
TypeOK ==
    /\ op \in {"intersection", "union"}
    /\ \A i \in DOMAIN st.ls : st.it[i] \in 1 .. End(st.ls[i])
    /\ op = "intersection" => st.count \in 0 .. Len(st.ls)

\* When compute_intersection returns, it has passed to result_handler
\* exactly the ids in all lists, ascending and each once: the round-robin
\* with curr_value and count neither misses a common id nor emits one
\* that some list lacks.
IntersectionCorrect ==
    op = "intersection" /\ st.done => st.out = SetToSortSeq(Intersect(st.ls), <)

\* When compute_union's heap is empty, it has passed to result_handler
\* every id of any list, ascending and each once, whichever of equal heap
\* entries was on top.
UnionCorrect ==
    op = "union" /\ UnionDone(st) => st.out = SetToSortSeq(Unite(st.ls), <)

\* Both loops end: every iteration of compute_intersection's while (true)
\* advances an iterator and every one of compute_union pops the heap.
OperationsTerminate == <>Done

=============================================================================
