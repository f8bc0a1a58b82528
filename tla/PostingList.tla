----------------------------- MODULE PostingList -----------------------------
(***************************************************************************)
(* What find_block_and_insert promises: each term's posting list is a      *)
(* strictly ascending sequence of document ids, and each insert call adds  *)
(* its id to its term's list atomically, exactly once, keeping it          *)
(* ascending.  DynamicIndex, the block protocol over remote memory,        *)
(* refines this.                                                           *)
(***************************************************************************)
EXTENDS Naturals, Sequences, FiniteSets, SequencesExt

CONSTANTS Threads, Terms, InitPostings, Inserts

VARIABLES postings,  \* postings[k]: term k's ids in list order
          pending    \* pending[t]: the [term, id] inserts t has still to do

vars == <<postings, pending>>

Ascending(s) == \A i \in 1 .. Len(s) - 1 : s[i] < s[i + 1]

Init == /\ postings = InitPostings
        /\ \A k \in Terms : Ascending(postings[k])
        /\ pending = Inserts

(* The id goes in front of the first larger one of its term's list.      *)
(* (The LET names the lists once, so a refinement mapping for them is     *)
(* evaluated once per step.)                                              *)
Insert(t) ==
  LET lists == postings
      x     == Head(pending[t])
      p     == lists[x.term]
  IN /\ pending[t] /= <<>>
     /\ x.id \notin ToSet(p)
     /\ postings' = [lists EXCEPT ![x.term] =
                       InsertAt(p, Cardinality({i \in DOMAIN p : p[i] < x.id}) + 1,
                                x.id)]
     /\ pending' = [pending EXCEPT ![t] = Tail(@)]

Next == \E t \in Threads : Insert(t)

Spec == Init /\ [][Next]_vars
=============================================================================
