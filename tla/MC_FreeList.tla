----------------------------- MODULE MC_FreeList -----------------------------
(* Instances of the free list for TLC. *)
EXTENDS FreeList, TLC

CONSTANTS t1, t2

MC_Threads == {t1, t2}

(* Both threads split twice, the only use the index makes of the list,    *)
(* and t1 returns one block in between: a single free racing allocations. *)
MC_AllocOnly == (t1 :> <<"alloc", "dealloc", "alloc">>) @@
                (t2 :> <<"alloc", "alloc">>)

(* deallocate is part of the allocator's interface though no caller uses   *)
(* it yet: t2 returns a block while t1 allocates.                          *)
MC_WithDealloc == (t1 :> <<"alloc">>) @@ (t2 :> <<"alloc", "alloc", "dealloc">>)

(* One thread allocating until the node runs out. *)
MC_Exhaust == (t1 :> <<"alloc", "alloc", "alloc", "alloc">>) @@ (t2 :> <<>>)
=============================================================================
