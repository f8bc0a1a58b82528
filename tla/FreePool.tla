------------------------------ MODULE FreePool ------------------------------
(***************************************************************************)
(* What the remote block allocator promises its callers: a pool of free    *)
(* blocks from which an allocation removes one block atomically and to     *)
(* which a deallocation returns one block atomically.  A block is either   *)
(* free or owned by exactly one compute thread.  FreeList refines this.    *)
(***************************************************************************)
EXTENDS FiniteSets

CONSTANTS Threads, Blocks, InitFree

VARIABLES free,   \* blocks the allocator may hand out
          owned   \* owned[t]: blocks thread t obtained and still holds

vars == <<free, owned>>

Init == /\ free = InitFree
        /\ owned = [t \in Threads |-> {}]

Alloc(t) == \E b \in free :
              /\ free' = free \ {b}
              /\ owned' = [owned EXCEPT ![t] = @ \cup {b}]

Dealloc(t) == \E b \in owned[t] :
                /\ free' = free \cup {b}
                /\ owned' = [owned EXCEPT ![t] = @ \ {b}]

Next == \E t \in Threads : Alloc(t) \/ Dealloc(t)

Spec == Init /\ [][Next]_vars

\* A block is free or owned by one thread, never both and never by two.
Exclusive == \A t, u \in Threads :
               /\ owned[t] \cap free = {}
               /\ t /= u => owned[t] \cap owned[u] = {}
=============================================================================
