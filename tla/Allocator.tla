----------------------------- MODULE Allocator ------------------------------
(***************************************************************************)
(* allocator.go: the recursive count of the free blocks of a pool and the  *)
(* recursive choice of the n-th of them, used by one pool over time.       *)
(*                                                                         *)
(* The reference is FreeBlocks of module Prefixes, which enumerates the    *)
(* address space; the code cannot, and descends the binary tree of the     *)
(* pool's blocks instead.                                                  *)
(***************************************************************************)
EXTENDS Prefixes, FiniteSets, FiniteSetsExt

CONSTANTS
    Pools,        \* the delegated prefixes to allocate from
    Unit,         \* the block PoolStats counts in, and the width of its count: 64
    MaxUsed       \* bound: blocks in use

ASSUME AllocatorAssumption ==
    /\ Pools \subseteq Prefix
    /\ Unit \in 1 .. W
    /\ MaxUsed \in Nat

VARIABLES
    pool,         \* the delegated prefix of the upstream
    used          \* UsedPrefixes and the server reservation

vars == <<pool, used>>

-----------------------------------------------------------------------------
\* Mistake: the upper half is the lower one.
SplitTwice(p) ==
    LET lower == Masked([addr |-> p.addr, bits |-> p.bits + 1])
    IN  <<lower, lower>>

\* The two halves of a prefix.
Split(p) ==
    LET n == p.bits + 1
    IN  <<Masked([addr |-> p.addr, bits |-> n]),
          Masked([addr |-> [p.addr EXCEPT ![n] = 1], bits |-> n])>>

\* overlappingDescendants: the blocks in use below the candidate, and whether
\* one of them covers all of it.
Descendants(candidate, blocks) ==
    {b \in blocks : Overlaps(candidate, b) /\ b.bits > candidate.bits}

\* Mistake: a block of the candidate's own size does not cover it.
BlockedByLarger(candidate, blocks) ==
    \E b \in blocks : Overlaps(candidate, b) /\ b.bits < candidate.bits

Blocked(candidate, blocks) ==
    \E b \in blocks : Overlaps(candidate, b) /\ b.bits <= candidate.bits

\* Mistake: the index is added at the last bit of the address.
PrefixAtLastBit(parent, bits, index) ==
    Masked([addr |-> AddressOf(Value(Masked(parent).addr) + index), bits |-> bits])

\* prefixAtIndex
PrefixAtIndex(parent, bits, index) ==
    Masked([addr |-> AddressOf(Value(Masked(parent).addr) + index * 2^(W - bits)),
            bits |-> bits])

\* What freePrefixCount is asked: a candidate, the blocks in use, and a size
\* that the candidate has.
Question == {q \in Prefix \X (SUBSET Prefix) \X (0 .. W) : q[1].bits <= q[3]}

FreePrefixCount[q \in Question] ==
    LET candidate == q[1]
        bits   == q[3]
        below  == Descendants(candidate, q[2])
        halves == Split(candidate)
    IN  IF Blocked(candidate, q[2]) \/ (candidate.bits = bits /\ below # {})
          THEN 0
        ELSE IF below = {}
          THEN 2^(bits - candidate.bits)
        ELSE FreePrefixCount[<<halves[1], below, bits>>]
               + FreePrefixCount[<<halves[2], below, bits>>]

\* What freePrefixAt is asked, after the check of the index.
Choice == {q \in Question \X Nat : q[2] < FreePrefixCount[q[1]]}

FreePrefixAt[q \in Choice] ==
    LET candidate == q[1][1]
        bits   == q[1][3]
        below  == Descendants(candidate, q[1][2])
        halves == Split(candidate)
        left   == FreePrefixCount[<<halves[1], below, bits>>]
    IN  IF below = {} THEN PrefixAtIndex(candidate, bits, q[2])
        ELSE IF q[2] < left THEN FreePrefixAt[<<<<halves[1], below, bits>>, q[2]>>]
        ELSE FreePrefixAt[<<<<halves[2], below, bits>>, q[2] - left>>]

\* PoolStats: the largest block that is free (-1 if none is), and the space in
\* use in units of Unit bits, saturating at the largest number of Unit bits.
Largest(maxBits) ==
    LET free == {n \in pool.bits .. maxBits : FreePrefixCount[<<pool, used, n>>] > 0}
    IN  IF free = {} THEN -1 ELSE Min(free)

Saturated == 2^Unit - 1

\* Mistake: the sum wraps around.
AddUnitsModulo(block, allocated) ==
    IF block.bits > Unit THEN allocated
    ELSE (allocated + 2^(Unit - block.bits)) % 2^Unit

AddUnits(block, allocated) ==
    LET shift == Unit - block.bits
    IN  IF allocated = Saturated \/ block.bits > Unit THEN allocated
        ELSE IF shift >= Unit \/ Saturated - allocated < 2^shift THEN Saturated
        ELSE allocated + 2^shift

Allocated == FoldSet(AddUnits, 0, used)

-----------------------------------------------------------------------------
\* A pool that nothing is allocated from.
Init ==
    /\ pool \in {Masked(p) : p \in Pools}
    /\ used = {}

\* Allocate refuses sizes that the pool does not have and blocks that it does
\* not contain, and returns the block of a random index.
Allocate(bits) ==
    /\ bits >= pool.bits
    /\ \A u \in used : Inside(u, pool)
    /\ Cardinality(used) < MaxUsed
    /\ \E index \in 0 .. FreePrefixCount[<<pool, used, bits>>] - 1 :
          used' = used \cup {FreePrefixAt[<<<<pool, used, bits>>, index>>]}
    /\ UNCHANGED pool

\* The row of a tunnel is deleted, or the server address of the upstream is
\* cleared.
Release(block) ==
    /\ used' = used \ {block}
    /\ UNCHANGED pool

Next ==
    \/ \E bits \in 0 .. W : Allocate(bits)
    \/ \E block \in used : Release(block)

Spec == Init /\ [][Next]_vars

-----------------------------------------------------------------------------
\* The blocks in use never overlap, whatever was allocated and released before
\* in whichever sizes.
UsedAreDisjoint ==
    \A a, b \in used : Inside(a, pool) /\ (a # b => ~Overlaps(a, b))

\* freePrefixCount counts exactly the free blocks of every size: an allocation
\* fails with ErrPoolExhausted only when no block of that size is free.
CountIsExact ==
    \A bits \in pool.bits .. W :
        FreePrefixCount[<<pool, used, bits>>] = Cardinality(FreeBlocks(pool, used, bits))

\* freePrefixAt maps the indices one to one onto the free blocks, so that a
\* uniform index is a uniform choice and every free block can be chosen.
ChoiceIsExact ==
    \A bits \in pool.bits .. W :
        {FreePrefixAt[<<<<pool, used, bits>>, i>>] :
            i \in 0 .. FreePrefixCount[<<pool, used, bits>>] - 1}
        = FreeBlocks(pool, used, bits)

\* PoolStats reports the space in use exactly until it saturates, and as the
\* largest free block one that can be had, when no larger one can.
StatsAreExact ==
    LET total == FoldSet(LAMBDA b, n : n + 2^(Unit - b.bits), 0,
                         {b \in used : b.bits <= Unit})
    IN  /\ Allocated = Min({total, Saturated})
        /\ \A maxBits \in pool.bits .. W :
              LET n == Largest(maxBits)
              IN  /\ n # -1 => FreeBlocks(pool, used, n) # {}
                  /\ \A b \in pool.bits .. (IF n = -1 THEN maxBits ELSE n - 1) :
                        FreeBlocks(pool, used, b) = {}

=============================================================================
