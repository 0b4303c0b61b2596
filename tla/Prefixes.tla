------------------------------ MODULE Prefixes ------------------------------
(***************************************************************************)
(* IPv6 addresses and prefixes, as package net/netip has them.  An address *)
(* is a string of W bits; a prefix is an address and a number of bits, and *)
(* its host bits are kept until it is masked.                              *)
(***************************************************************************)
EXTENDS Integers

CONSTANT W    \* bits of an address: 128 in the code

ASSUME WidthAssumption == W \in Nat \ {0}

Bit     == {0, 1}
Address == [1 .. W -> Bit]
Prefix  == [addr : Address, bits : 0 .. W]

\* An address as a number, and back.
AddressOf(n) == [i \in 1 .. W |-> (n \div 2^(W - i)) % 2]

Value(a) == CHOOSE n \in 0 .. 2^W - 1 : AddressOf(n) = a

\* Prefix.Contains
Contains(p, a) == \A i \in 1 .. p.bits : p.addr[i] = a[i]

\* Prefix.Masked
Masked(p) ==
    [addr |-> [i \in 1 .. W |-> IF i <= p.bits THEN p.addr[i] ELSE 0],
     bits |-> p.bits]

\* overlaps
Overlaps(a, b) == Contains(a, b.addr) \/ Contains(b, a.addr)

\* The test that a block is part of a prefix, as validateUpstreamAgainstTunnels
\* and Allocate make it.
Inside(block, p) == Contains(p, block.addr) /\ block.bits >= p.bits

\* What Allocate chooses from: the blocks of the pool, of the given size, that
\* overlap nothing in use.
FreeBlocks(pool, used, bits) ==
    {b \in {Masked([addr |-> a, bits |-> bits]) : a \in Address} :
        Inside(b, pool) /\ \A u \in used : ~Overlaps(b, u)}

=============================================================================
