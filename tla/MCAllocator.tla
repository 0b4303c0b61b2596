---------------------------- MODULE MCAllocator -----------------------------
(***************************************************************************)
(* An instance of Allocator for TLC: the whole address space as a pool,    *)
(* and one that starts in the middle of it.                                *)
(***************************************************************************)
EXTENDS Allocator

MCPools ==
    {[addr |-> [i \in 1 .. W |-> 0], bits |-> 0],
     [addr |-> [i \in 1 .. W |-> IF i = 1 THEN 1 ELSE 0], bits |-> 1]}

=============================================================================
