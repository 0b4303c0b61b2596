-------------------------- MODULE Prefixes_proofs ---------------------------
(***************************************************************************)
(* Facts about addresses and prefixes, for any width W: what masking and   *)
(* overlap mean bit by bit, and how the bits of an address are those of a  *)
(* number.                                                                 *)
(***************************************************************************)
EXTENDS Prefixes, FiniteSetTheorems, FunctionTheorems, TLAPS

-----------------------------------------------------------------------------
(***************************************************************************)
(* Numbers.                                                                *)
(***************************************************************************)

\* Induction over a set of numbers.
LEMMA SetInduction ==
  ASSUME NEW S, 0 \in S, \A n \in Nat : n \in S => n + 1 \in S
  PROVE  \A n \in Nat : n \in S
<1> SUFFICES ASSUME NEW m \in Nat, m \notin S PROVE FALSE OBVIOUS
<1> DEFINE T == {n \in Nat : n \notin S}
<1>1. T \subseteq Nat /\ T # {} BY Zenon
<1> HIDE DEF T
<1>2. \E n \in T : \A k \in T : ~(<<k, n>> \in OpToRel(<, Nat))
  BY <1>1, NatLessThanWellFounded, WFMin, Zenon
<1>3. PICK n \in T : \A k \in T : ~(<<k, n>> \in OpToRel(<, Nat)) BY <1>2, Zenon
<1>4. \A k, l \in Nat : k < l => <<k, l>> \in OpToRel(<, Nat)
  BY Zenon DEF OpToRel
<1>5. n \in Nat /\ n \notin S BY Zenon DEF T
<1>6. n # 0 BY <1>5, Zenon
<1>7. n - 1 \in Nat /\ n - 1 < n /\ (n - 1) + 1 = n BY <1>5, <1>6, SMTT(30)
<1>8. n - 1 \in S
  <2> SUFFICES ASSUME n - 1 \notin S PROVE FALSE OBVIOUS
  <2>1. n - 1 \in T BY <1>7, Zenon DEF T
  <2> QED BY <1>3, <1>4, <1>5, <1>7, <2>1, Zenon
<1> QED BY <1>5, <1>7, <1>8, Zenon

\* Powers of two.
LEMMA PowerStep ==
  ASSUME NEW n \in Nat
  PROVE  2^n \in Nat \ {0} /\ 2^(n + 1) = 2 * 2^n
<1> DEFINE A == SUBSET (1 .. n)
           B == {x \cup {n + 1} : x \in A}
           f == [x \in A |-> x \cup {n + 1}]
<1>1. /\ IsFiniteSet(1 .. n) /\ Cardinality(1 .. n) = n
      /\ IsFiniteSet(1 .. (n + 1)) /\ Cardinality(1 .. (n + 1)) = n + 1
  <2>1. 1 \in Int /\ n \in Int /\ n + 1 \in Int BY SMTT(30)
  <2>2. /\ IsFiniteSet(1 .. n) /\ Cardinality(1 .. n) = IF 1 > n THEN 0 ELSE n - 1 + 1
        /\ IsFiniteSet(1 .. (n + 1)) /\ Cardinality(1 .. (n + 1)) = IF 1 > n + 1 THEN 0 ELSE (n + 1) - 1 + 1
    BY <2>1, FS_Interval, Zenon
  <2> QED BY <2>2, SMTT(30)
<1>2. IsFiniteSet(A) /\ Cardinality(A) = 2^n
  BY <1>1, FS_SUBSET, Zenon
<1>3. Cardinality(SUBSET (1 .. (n + 1))) = 2^(n + 1)
  BY <1>1, FS_SUBSET, Zenon
<1>4. f \in Bijection(A, B)
  <2>1. f \in [A -> B] BY SMTT(30)
  <2>2. \A a, b \in A : f[a] = f[b] => a = b BY SMTT(30)
  <2>3. \A b \in B : \E a \in A : f[a] = b BY SMTT(30)
  <2> HIDE DEF f, A, B
  <2> QED BY <2>1, <2>2, <2>3, Fun_IsBij, Zenon
<1>5. IsFiniteSet(B) /\ Cardinality(B) = 2^n
  <2>1. ExistsBijection(A, B) BY <1>4, Fun_ExistsBij, Zenon
  <2> QED BY <1>2, <2>1, FS_Bijection, Zenon
<1>6. A \cap B = {} BY SMTT(30)
<1>7. SUBSET (1 .. (n + 1)) = A \cup B
  <2>1. ASSUME NEW s \in SUBSET (1 .. (n + 1)) PROVE s \in A \cup B
    <3>1. CASE n + 1 \in s
      <4>1. s \ {n + 1} \in A BY SMTT(30)
      <4>2. s = (s \ {n + 1}) \cup {n + 1} BY <3>1, Zenon
      <4> QED BY <4>1, <4>2, Zenon
    <3>2. CASE n + 1 \notin s
      BY <3>2, SMTT(30)
    <3> QED BY <3>1, <3>2
  <2>2. 1 .. n \subseteq 1 .. (n + 1) /\ n + 1 \in 1 .. (n + 1) BY SMTT(30)
  <2>3. A \cup B \subseteq SUBSET (1 .. (n + 1)) BY <2>2, Zenon
  <2> QED BY <2>1, <2>3, Zenon
<1> HIDE DEF A, B
<1>8. 2^n \in Nat BY <1>2, FS_CardinalityType, Zenon
<1>9. Cardinality(A \cup B) = Cardinality(A) + Cardinality(B) - 0
  <2>1. Cardinality(A \cup B) = Cardinality(A) + Cardinality(B) - Cardinality(A \cap B)
    BY <1>2, <1>5, FS_Union, Zenon
  <2>2. Cardinality(A \cap B) = 0 BY <1>6, FS_EmptySet, Zenon
  <2> QED BY <2>1, <2>2, Zenon
<1>10. 2^(n + 1) = 2 * 2^n
  <2>1. 2^(n + 1) = 2^n + 2^n - 0 BY <1>2, <1>3, <1>5, <1>7, <1>9, Zenon
  <2> QED BY <1>8, <2>1, SMTT(30)
<1>11. 2^n # 0
  <2>1. {} \in A BY Zenon DEF A
  <2> QED BY <1>2, <2>1, FS_EmptySet, Zenon
<1> QED BY <1>8, <1>10, <1>11, Zenon

\* The power of a sum.
LEMMA PowerSum ==
  ASSUME NEW a \in Nat, NEW b \in Nat
  PROVE  2^(a + b) = 2^a * 2^b
<1> DEFINE S == {n \in Nat : 2^(a + n) = 2^a * 2^n}
<1>1. 0 \in S BY PowerStep, SMTT(30)
<1>2. ASSUME NEW n \in Nat, n \in S PROVE n + 1 \in S
  <2>1. 2^(a + n) = 2^a * 2^n BY <1>2, Zenon
  <2>2. a + n \in Nat /\ (a + n) + 1 = a + (n + 1) /\ n + 1 \in Nat BY SMTT(30)
  <2>3. 2^((a + n) + 1) = 2 * 2^(a + n) /\ 2^(n + 1) = 2 * 2^n
    BY <2>2, PowerStep, Zenon
  <2>4. 2^a \in Nat /\ 2^n \in Nat BY PowerStep, Zenon
  <2>5. \A x, y \in Nat : 2 * (x * y) = x * (2 * y) BY SMTT(30)
  <2>6. 2^(a + (n + 1)) = 2 * (2^a * 2^n) BY <2>1, <2>2, <2>3, Zenon
  <2>7. 2^a * 2^(n + 1) = 2^a * (2 * 2^n) BY <2>3, Zenon
  <2>8. 2 * (2^a * 2^n) = 2^a * (2 * 2^n) BY <2>4, <2>5, Zenon
  <2>9. 2^(a + (n + 1)) = 2^a * 2^(n + 1) BY <2>6, <2>7, <2>8, Zenon
  <2> QED BY <2>2, <2>9, Zenon
<1> HIDE DEF S
<1>3. b \in S BY <1>1, <1>2, SetInduction, Zenon
<1> QED BY <1>3, Zenon DEF S

\* Quotients, with the divisors in a set that is not expanded.
Positive == Nat \ {0}

\* A quotient and its remainder.
LEMMA Quotient ==
  ASSUME NEW n \in Nat, NEW d \in Positive
  PROVE  n \div d \in Nat /\ \E r \in 0 .. (d - 1) : n = d * (n \div d) + r
<1>1. n \div d \in Nat /\ n % d \in 0 .. (d - 1) /\ n = d * (n \div d) + (n % d)
  BY SMTT(30) DEF Positive
<1> QED BY <1>1, Zenon

\* The quotient of a number given with its remainder.
LEMMA QuotientIs ==
  ASSUME NEW d \in Positive, NEW k \in Nat, NEW r \in 0 .. (d - 1)
  PROVE  (k * d + r) \div d = k
  BY SMTT(30) DEF Positive

\* To divide by a product is to divide twice.
LEMMA DivisionTwice ==
  ASSUME NEW n \in Nat, NEW d \in Positive, NEW e \in Positive
  PROVE  n \div (d * e) = (n \div d) \div e
<1>k. PICK k \in Nat : k = n \div d BY Quotient, Zenon
<1>m. PICK m \in Nat : m = k \div e BY Quotient, Zenon
<1>1. PICK r \in 0 .. (d - 1) : n = d * k + r
  <2>1. \E r \in 0 .. (d - 1) : n = d * (n \div d) + r BY Quotient, Zenon
  <2> QED BY <1>k, <2>1, Zenon
<1>2. PICK s \in 0 .. (e - 1) : k = e * m + s
  <2>1. \E s \in 0 .. (e - 1) : k = e * (k \div e) + s BY Quotient, Zenon
  <2> QED BY <1>m, <2>1, Zenon
<1>3. n = m * (d * e) + (d * s + r)
  BY <1>1, <1>2, SMTT(30) DEF Positive
<1>4. d * e \in Positive /\ d * s + r \in 0 .. (d * e - 1)
  <2>1. d * e \in Positive BY SMTT(30) DEF Positive
  <2>2. d * s \in Nat /\ d * s <= d * (e - 1) /\ d * (e - 1) = d * e - d
    BY <1>2, SMTT(30) DEF Positive
  <2>3. d \in Nat /\ d * e \in Nat BY <2>1, SMTT(30) DEF Positive
  <2> QED BY <1>1, <2>1, <2>2, <2>3, SMTT(30)
<1>5. (m * (d * e) + (d * s + r)) \div (d * e) = m
  BY <1>4, QuotientIs, ZenonT(60)
<1> QED BY <1>k, <1>m, <1>3, <1>5, Zenon

-----------------------------------------------------------------------------
(***************************************************************************)
(* Prefixes.                                                               *)
(***************************************************************************)

\* A prefix is its address and its bits.
LEMMA PrefixIs ==
  \A p \in Prefix : /\ p.addr \in Address /\ p.bits \in 0 .. W
                    /\ p = [addr |-> p.addr, bits |-> p.bits]
  BY SMTT(30) DEF Prefix

\* An address is its bits.
LEMMA AddressIs ==
  /\ \A a \in Address : a = [i \in 1 .. W |-> a[i]] /\ \A i \in 1 .. W : a[i] \in Bit
  /\ \A a, b \in Address : (\A i \in 1 .. W : a[i] = b[i]) => a = b
<1>1. \A a \in Address : a = [i \in 1 .. W |-> a[i]] /\ \A i \in 1 .. W : a[i] \in Bit
  BY SMTT(30) DEF Address
<1>2. ASSUME NEW a \in Address, NEW b \in Address, \A i \in 1 .. W : a[i] = b[i]
      PROVE  a = b
  <2>1. a = [i \in 1 .. W |-> a[i]] /\ b = [i \in 1 .. W |-> b[i]] BY <1>1, Zenon
  <2>2. [i \in 1 .. W |-> a[i]] = [i \in 1 .. W |-> b[i]] BY <1>2, Zenon
  <2> QED BY <2>1, <2>2, Zenon
<1> QED BY <1>1, <1>2, Zenon

\* Masking keeps the bits of the prefix and clears the others.
LEMMA MaskedIs ==
  ASSUME NEW a \in Address, NEW n \in 0 .. W
  PROVE  /\ Masked([addr |-> a, bits |-> n]) \in Prefix
         /\ Masked([addr |-> a, bits |-> n]).bits = n
         /\ \A i \in 1 .. W : Masked([addr |-> a, bits |-> n]).addr[i] = IF i <= n THEN a[i] ELSE 0
<1> DEFINE m == Masked([addr |-> a, bits |-> n])
           b == [i \in 1 .. W |-> IF i <= n THEN a[i] ELSE 0]
<1>1. m = [addr |-> b, bits |-> n] BY SMTT(30) DEF Masked
<1>2. b \in Address BY SMTT(30) DEF Address, Bit
<1>3. \A i \in 1 .. W : b[i] = IF i <= n THEN a[i] ELSE 0 BY Zenon
<1> HIDE DEF m, b
<1>4. m.addr = b /\ m.bits = n /\ m \in Prefix BY <1>1, <1>2, SMTT(30) DEF Prefix
<1>5. \A i \in 1 .. W : m.addr[i] = IF i <= n THEN a[i] ELSE 0 BY <1>3, <1>4, Zenon
<1> QED BY <1>4, <1>5, Zenon DEF m

\* A prefix whose host bits are zero.
Clean(p) == p \in Prefix /\ \A i \in 1 .. W : i <= p.bits \/ p.addr[i] = 0

\* A prefix without host bits is not changed by masking.
LEMMA MaskedClean ==
  ASSUME NEW c, Clean(c)
  PROVE  Masked(c) = c
<1>1. c \in Prefix BY Zenon DEF Clean
<1>2. c.addr \in Address /\ c.bits \in 0 .. W /\ c = [addr |-> c.addr, bits |-> c.bits]
  BY <1>1, PrefixIs, Zenon
<1>m. PICK m : m = Masked([addr |-> c.addr, bits |-> c.bits]) BY Zenon
<1>3. m \in Prefix /\ m.bits = c.bits
      /\ \A i \in 1 .. W : m.addr[i] = IF i <= c.bits THEN c.addr[i] ELSE 0
  BY <1>m, <1>2, MaskedIs, Zenon
<1>4. \A i \in 1 .. W : m.addr[i] = c.addr[i]
  <2>1. \A i \in 1 .. W : i <= c.bits \/ c.addr[i] = 0 BY ZenonT(60) DEF Clean
  <2> QED BY <1>3, <2>1, SMTT(30)
<1>5. m.addr \in Address /\ m = [addr |-> m.addr, bits |-> m.bits] BY <1>3, PrefixIs, Zenon
<1>6. m.addr = c.addr BY <1>2, <1>4, <1>5, AddressIs, Zenon
<1>7. m = c BY <1>2, <1>3, <1>5, <1>6, Zenon
<1> QED BY <1>m, <1>2, <1>7, Zenon

\* The blocks of a size are the prefixes of that size whose host bits are zero.
LEMMA BlocksAreClean ==
  ASSUME NEW n \in 0 .. W, NEW b
  PROVE  b \in {Masked([addr |-> a, bits |-> n]) : a \in Address} <=> Clean(b) /\ b.bits = n
<1>1. ASSUME NEW a \in Address, b = Masked([addr |-> a, bits |-> n])
      PROVE  Clean(b) /\ b.bits = n
  BY <1>1, MaskedIs, ZenonT(60) DEF Clean
<1>2. ASSUME Clean(b), b.bits = n PROVE \E a \in Address : b = Masked([addr |-> a, bits |-> n])
  <2> DEFINE m == Masked([addr |-> b.addr, bits |-> n])
  <2>1. b \in Prefix /\ b.addr \in Address BY <1>2, PrefixIs, Zenon DEF Clean
  <2>2. m \in Prefix /\ m.bits = n /\ \A i \in 1 .. W : m.addr[i] = IF i <= n THEN b.addr[i] ELSE 0
    BY <2>1, MaskedIs, Zenon
  <2> HIDE DEF m
  <2>3. \A i \in 1 .. W : m.addr[i] = b.addr[i] BY <1>2, <2>2, Zenon DEF Clean
  <2>4. m.addr = b.addr BY <2>1, <2>2, <2>3, AddressIs, PrefixIs, Zenon
  <2>5. m = b BY <1>2, <2>1, <2>2, <2>4, PrefixIs, Zenon
  <2> QED BY <2>1, <2>5, Zenon DEF m
<1> QED BY <1>1, <1>2, Zenon

\* The free blocks, without the enumeration of the addresses.
LEMMA FreeBlocksAre ==
  ASSUME NEW p, NEW U, NEW n \in 0 .. W, NEW b
  PROVE  b \in FreeBlocks(p, U, n) <=>
            Clean(b) /\ b.bits = n /\ Inside(b, p) /\ \A u \in U : ~Overlaps(b, u)
  BY BlocksAreClean, Zenon DEF FreeBlocks

\* Prefixes that overlap: the longer one is inside the shorter one.
LEMMA OverlapMeans ==
  ASSUME NEW a \in Prefix, NEW b \in Prefix, a.bits <= b.bits
  PROVE  /\ Overlaps(a, b) <=> Contains(a, b.addr)
         /\ Overlaps(b, a) <=> Contains(a, b.addr)
<1>1. a.bits \in 0 .. W /\ b.bits \in 0 .. W /\ W \in Nat BY PrefixIs, WidthAssumption, Zenon
<1>2. \A i \in 1 .. a.bits : i \in 1 .. b.bits BY <1>1, SMTT(30)
<1>3. Contains(b, a.addr) => Contains(a, b.addr) BY <1>2, Zenon DEF Contains
<1> QED BY <1>3, Zenon DEF Overlaps

\* What overlaps a part of a prefix overlaps the prefix.
LEMMA OverlapOfPart ==
  ASSUME NEW b \in Prefix, NEW c \in Prefix, NEW u \in Prefix, Inside(b, c), Overlaps(b, u)
  PROVE  Overlaps(c, u)
<1>1. /\ b.bits \in 0 .. W /\ c.bits \in 0 .. W /\ u.bits \in 0 .. W /\ W \in Nat
      /\ c.bits <= b.bits /\ Contains(c, b.addr)
  BY PrefixIs, WidthAssumption, SMTT(30) DEF Inside
<1>2. CASE u.bits <= c.bits
  <2>1. u.bits <= b.bits BY <1>1, <1>2, SMTT(30)
  <2>2. Contains(u, b.addr) BY <2>1, OverlapMeans, Zenon
  <2>3. \A i \in 1 .. u.bits : i \in 1 .. c.bits BY <1>1, <1>2, SMTT(30)
  <2>4. Contains(u, c.addr) BY <1>1, <2>2, <2>3, Zenon DEF Contains
  <2> QED BY <2>4, Zenon DEF Overlaps
<1>3. CASE c.bits <= u.bits
  <2>1. \A i \in 1 .. c.bits : i \in 1 .. b.bits /\ i \in 1 .. u.bits
    BY <1>1, <1>3, SMTT(30)
  <2>2. \A i \in 1 .. c.bits : b.addr[i] = u.addr[i]
    BY <2>1, Zenon DEF Overlaps, Contains
  <2>3. Contains(c, u.addr) BY <1>1, <2>2, Zenon DEF Contains
  <2> QED BY <2>3, Zenon DEF Overlaps
<1>4. u.bits <= c.bits \/ c.bits <= u.bits BY <1>1, SMTT(30)
<1> QED BY <1>2, <1>3, <1>4, Zenon

\* What covers a prefix overlaps its parts.
LEMMA CoverOverlaps ==
  ASSUME NEW b \in Prefix, NEW c \in Prefix, NEW u \in Prefix, Inside(b, c),
         Overlaps(c, u), u.bits <= c.bits
  PROVE  Overlaps(b, u)
<1>1. /\ b.bits \in 0 .. W /\ c.bits \in 0 .. W /\ u.bits \in 0 .. W /\ W \in Nat
      /\ c.bits <= b.bits /\ Contains(c, b.addr)
  BY PrefixIs, WidthAssumption, SMTT(30) DEF Inside
<1>2. Contains(u, c.addr) BY OverlapMeans, Zenon
<1>3. \A i \in 1 .. u.bits : i \in 1 .. c.bits BY <1>1, SMTT(30)
<1>4. Contains(u, b.addr) BY <1>1, <1>2, <1>3, Zenon DEF Contains
<1> QED BY <1>4, Zenon DEF Overlaps

\* A candidate of the size that is asked for is the only block.
LEMMA OnlyItself ==
  ASSUME NEW c, Clean(c), NEW b, Clean(b), b.bits = c.bits, Inside(b, c)
  PROVE  b = c
<1>1. b \in Prefix /\ c \in Prefix /\ b.addr \in Address /\ c.addr \in Address /\ c.bits \in 0 .. W
  BY PrefixIs, Zenon DEF Clean
<1>2. \A i \in 1 .. W : i <= c.bits => i \in 1 .. c.bits BY <1>1, WidthAssumption, SMTT(30)
<1>3. \A i \in 1 .. W : b.addr[i] = c.addr[i]
  BY <1>2, Zenon DEF Clean, Inside, Contains
<1>4. b.addr = c.addr BY <1>1, <1>3, AddressIs, Zenon
<1> QED BY <1>1, <1>4, PrefixIs, Zenon

\* A prefix contains itself.
LEMMA InsideItself ==
  ASSUME NEW c \in Prefix PROVE Inside(c, c)
<1>1. c.bits >= c.bits BY PrefixIs, WidthAssumption, SMTT(30)
<1> QED BY <1>1, Zenon DEF Inside, Contains

-----------------------------------------------------------------------------
(***************************************************************************)
(* Addresses as numbers.                                                   *)
(***************************************************************************)

\* The weights of the bits are positive.
LEMMA Powers ==
  ASSUME NEW m \in 0 .. W
  PROVE  W - m \in Nat /\ 2^(W - m) \in Positive
<1>1. W - m \in Nat BY WidthAssumption, SMTT(30)
<1> QED BY <1>1, PowerStep, Zenon DEF Positive

\* The bits of a number.
LEMMA AddressOfIs ==
  ASSUME NEW v \in Nat
  PROVE  /\ AddressOf(v) \in Address
         /\ \A i \in 1 .. W : AddressOf(v)[i] = (v \div 2^(W - i)) % 2
<1>1. \A i \in 1 .. W : AddressOf(v)[i] = (v \div 2^(W - i)) % 2 BY Zenon DEF AddressOf
<1>2. \A i \in 1 .. W : i \in 0 .. W BY WidthAssumption, SMTT(30)
<1>3. \A i \in 1 .. W : v \div 2^(W - i) \in Nat BY <1>2, Powers, Quotient, Zenon
<1>4. \A x \in Nat : x % 2 \in {0, 1} BY SMTT(30)
<1>5. \A i \in 1 .. W : (v \div 2^(W - i)) % 2 \in Bit BY <1>3, <1>4, Zenon DEF Bit
<1> QED BY <1>1, <1>5, Zenon DEF AddressOf, Address

\* To set a bit that is 0 is to add its weight.
LEMMA SetBit ==
  ASSUME NEW v \in Nat, NEW m \in 1 .. W, AddressOf(v)[m] = 0
  PROVE  \A j \in 1 .. W :
            AddressOf(v + 2^(W - m))[j] = IF j = m THEN 1 ELSE AddressOf(v)[j]
<1>0. W \in Nat /\ m \in 0 .. W BY WidthAssumption, SMTT(30)
<1>k. PICK k \in Nat : k = W - m BY <1>0, Powers, Zenon
<1>x. PICK x \in Positive : x = 2^k BY <1>0, <1>k, Powers, Zenon
<1>u. PICK u \in Nat : u = v \div x BY Quotient, Zenon
<1>1. u % 2 = 0 BY <1>k, <1>x, <1>u, AddressOfIs, Zenon
<1>2. v + x \in Nat BY SMTT(30) DEF Positive
<1>3. (v + x) \div x = u + 1
  <2>1. PICK r \in 0 .. (x - 1) : v = x * u + r
    <3>1. \E r \in 0 .. (x - 1) : v = x * (v \div x) + r BY Quotient, Zenon
    <3> QED BY <1>u, <3>1, Zenon
  <2>2. v + x = (u + 1) * x + r /\ u + 1 \in Nat BY <2>1, SMTT(30) DEF Positive
  <2>3. ((u + 1) * x + r) \div x = u + 1 BY <2>2, QuotientIs, Zenon
  <2> QED BY <2>2, <2>3, Zenon
<1>4. ASSUME NEW j \in 1 .. W
      PROVE  ((v + x) \div 2^(W - j)) % 2 = IF j = m THEN 1 ELSE (v \div 2^(W - j)) % 2
  <2>0. j \in 0 .. W BY <1>0, SMTT(30)
  <2>p. PICK p \in Nat : p = W - j BY <2>0, Powers, Zenon
  <2>y. PICK y \in Positive : y = 2^p BY <2>0, <2>p, Powers, Zenon
  <2>1. CASE j = m
    <3>1. y = x BY <1>k, <1>x, <2>p, <2>y, <2>1, ZenonT(60)
    <3>2. (u + 1) % 2 = 1 BY <1>1, SMTT(30)
    <3> QED BY <1>3, <2>p, <2>y, <2>1, <3>1, <3>2, ZenonT(60)
  <2>2. CASE j < m
    <3>1. PICK e \in Nat : p = (k + 1) + e
      <4>1. p - k - 1 \in Nat /\ p = (k + 1) + (p - k - 1) BY <1>0, <1>k, <2>p, <2>2, SMTT(30)
      <4> QED BY <4>1, Zenon
    <3>2. PICK z \in Positive : z = 2^e BY PowerStep, Zenon DEF Positive
    <3>3. y = (2 * x) * z
      <4>1. k + 1 \in Nat BY SMTT(30)
      <4>2. 2^p = 2^(k + 1) * 2^e BY <3>1, <4>1, PowerSum, Zenon
      <4>3. 2^(k + 1) = 2 * 2^k BY PowerStep, Zenon
      <4> QED BY <1>x, <2>y, <3>2, <4>2, <4>3, ZenonT(60)
    <3>4. y = x * (2 * z) /\ 2 * z \in Positive /\ 2 \in Positive
      BY <3>3, SMTT(30) DEF Positive
    <3>z. PICK zz \in Positive : zz = 2 * z BY <3>4, Zenon
    <3>5. v \div y = u \div zz /\ (v + x) \div y = (u + 1) \div zz
      <4>1. v \div (x * zz) = (v \div x) \div zz BY DivisionTwice, SMTT(30)
      <4>2. (v + x) \div (x * zz) = ((v + x) \div x) \div zz BY <1>2, DivisionTwice, SMTT(30)
      <4> QED BY <1>u, <1>3, <3>4, <3>z, <4>1, <4>2, ZenonT(60)
    <3>6. u + 1 \in Nat /\ (u + 1) \div 2 = u \div 2 BY <1>1, SMTT(30)
    <3>7. u \div zz = (u \div 2) \div z /\ (u + 1) \div zz = ((u + 1) \div 2) \div z
      <4>d. PICK d \in Positive : d = 2 BY <3>4, Zenon
      <4>1. u \div (d * z) = (u \div d) \div z BY DivisionTwice, SMTT(30)
      <4>2. (u + 1) \div (d * z) = ((u + 1) \div d) \div z BY <3>6, DivisionTwice, SMTT(30)
      <4> QED BY <3>z, <4>d, <4>1, <4>2, Zenon
    <3>8. (v + x) \div y = v \div y BY <3>5, <3>6, <3>7, Zenon
    <3>9. j # m BY <1>0, <2>2, SMTT(30)
    <3> QED BY <2>p, <2>y, <3>8, <3>9, ZenonT(60)
  <2>3. CASE m < j
    <3>1. PICK e \in Nat : k = p + (e + 1)
      <4>1. k - p - 1 \in Nat /\ k = p + ((k - p - 1) + 1) BY <1>0, <1>k, <2>p, <2>3, SMTT(30)
      <4> QED BY <4>1, Zenon
    <3>2. PICK z \in Positive : z = 2^e BY PowerStep, Zenon DEF Positive
    <3>3. x = y * (2 * z)
      <4>1. e + 1 \in Nat BY SMTT(30)
      <4>2. 2^k = 2^p * 2^(e + 1) BY <3>1, <4>1, PowerSum, Zenon
      <4>3. 2^(e + 1) = 2 * 2^e BY PowerStep, Zenon
      <4> QED BY <1>x, <2>y, <3>2, <4>2, <4>3, ZenonT(60)
    <3>4. PICK w \in Nat : w = v \div y BY Quotient, Zenon
    <3>5. PICK s \in 0 .. (y - 1) : v = y * w + s
      <4>1. \E s \in 0 .. (y - 1) : v = y * (v \div y) + s BY Quotient, SMTT(30)
      <4> QED BY <3>4, <4>1, Zenon
    <3>6. v + x = (w + 2 * z) * y + s /\ w + 2 * z \in Nat
      BY <3>3, <3>5, SMTT(30) DEF Positive
    <3>7. (v + x) \div y = w + 2 * z
      <4>1. ((w + 2 * z) * y + s) \div y = w + 2 * z BY <3>6, QuotientIs, Zenon
      <4> QED BY <3>6, <4>1, Zenon
    <3>8. (w + 2 * z) % 2 = w % 2 BY SMTT(30) DEF Positive
    <3>9. j # m BY <1>0, <2>3, SMTT(30)
    <3> QED BY <2>p, <2>y, <3>4, <3>7, <3>8, <3>9, SMTT(30)
  <2>4. j = m \/ j < m \/ m < j BY <1>0, SMTT(30)
  <2> QED BY <2>1, <2>2, <2>3, <2>4, ZenonT(60)
<1>5. \A j \in 1 .. W : /\ AddressOf(v + x)[j] = ((v + x) \div 2^(W - j)) % 2
                        /\ AddressOf(v)[j] = (v \div 2^(W - j)) % 2
  BY <1>2, AddressOfIs, Zenon
<1>6. \A j \in 1 .. W : AddressOf(v + x)[j] = IF j = m THEN 1 ELSE AddressOf(v)[j]
  <2> SUFFICES ASSUME NEW j \in 1 .. W
               PROVE  AddressOf(v + x)[j] = IF j = m THEN 1 ELSE AddressOf(v)[j]
    OBVIOUS
  <2>1. /\ AddressOf(v + x)[j] = ((v + x) \div 2^(W - j)) % 2
        /\ AddressOf(v)[j] = (v \div 2^(W - j)) % 2
    BY <1>5, Zenon
  <2>2. ((v + x) \div 2^(W - j)) % 2 = IF j = m THEN 1 ELSE (v \div 2^(W - j)) % 2
    BY <1>4, ZenonT(60)
  <2> QED BY <2>1, <2>2, Zenon
<1> QED BY <1>k, <1>x, <1>6, Zenon

\* Every address is a number.
LEMMA ValueIs ==
  ASSUME NEW a \in Address
  PROVE  Value(a) \in Nat /\ AddressOf(Value(a)) = a
<1>0. W \in Nat BY WidthAssumption, Zenon
<1>a. \A i \in 1 .. W : a[i] = 0 \/ a[i] = 1 BY AddressIs, Zenon DEF Bit
<1> DEFINE Starts(v, j) == \A i \in 1 .. W : AddressOf(v)[i] = IF i <= j THEN a[i] ELSE 0
           S == {j \in Nat : j <= W => \E v \in Nat : v + 2^(W - j) <= 2^W /\ Starts(v, j)}
<1>1. 0 \in S
  <2>1. 0 + 2^(W - 0) <= 2^W
    <3>1. W - 0 = W BY <1>0, SMTT(30)
    <3>2. 2^W \in Nat BY <1>0, PowerStep, Zenon
    <3>3. 0 + 2^W <= 2^W BY <3>2, SMTT(30)
    <3> QED BY <3>1, <3>3, Zenon
  <2>2. ASSUME NEW i \in 1 .. W PROVE AddressOf(0)[i] = 0 /\ ~(i <= 0)
    <3>1. i \in 0 .. W /\ ~(i <= 0) BY <1>0, SMTT(30)
    <3>2. PICK d \in Positive : d = 2^(W - i) BY <3>1, Powers, Zenon
    <3>3. (0 \div d) % 2 = 0 BY SMTT(30) DEF Positive
    <3>4. 0 \in Nat BY SMTT(30)
    <3> QED BY <3>1, <3>2, <3>3, <3>4, AddressOfIs, Zenon
  <2>3. Starts(0, 0) BY <2>2, Zenon
  <2>4. 0 \in Nat BY SMTT(30)
  <2> HIDE DEF Starts
  <2> QED BY <2>1, <2>3, <2>4, Zenon
<1>2. ASSUME NEW j \in Nat, j \in S PROVE j + 1 \in S
  <2>1. ASSUME j + 1 <= W PROVE \E v \in Nat : v + 2^(W - (j + 1)) <= 2^W /\ Starts(v, j + 1)
    <3>1. j <= W /\ j + 1 \in 1 .. W /\ ~(j + 1 <= j) BY <1>0, <2>1, SMTT(30)
    <3>2. PICK v \in Nat : v + 2^(W - j) <= 2^W /\ Starts(v, j)
      <4> HIDE DEF Starts
      <4> QED BY <1>2, <3>1, Zenon
    <3>x. PICK x \in Positive : x = 2^(W - (j + 1))
      <4>1. j + 1 \in 0 .. W BY <1>0, <3>1, SMTT(30)
      <4> QED BY <4>1, Powers, Zenon
    <3>3. 2^(W - j) = 2 * x
      <4>1. W - (j + 1) \in Nat /\ (W - (j + 1)) + 1 = W - j BY <1>0, <3>1, SMTT(30)
      <4> QED BY <3>x, <4>1, PowerStep, Zenon
    <3>4. 2^W \in Nat BY <1>0, PowerStep, Zenon
    <3>5. v + x <= 2^W /\ (v + x) + x <= 2^W /\ v + x \in Nat
      <4>1. PICK t \in Nat : t = 2^W BY <3>4, Zenon
      <4>2. v + 2 * x <= t BY <3>2, <3>3, <4>1, Zenon
      <4>3. v + x <= t /\ (v + x) + x <= t /\ v + x \in Nat BY <4>2, SMTT(30) DEF Positive
      <4> QED BY <4>1, <4>3, Zenon
    <3>6. \A i \in 1 .. W : (i <= j + 1 <=> i <= j \/ i = j + 1) BY <1>0, SMTT(30)
    <3>7. AddressOf(v)[j + 1] = 0 BY <3>1, <3>2, Zenon
    <3>8. CASE a[j + 1] = 0
      <4>1. Starts(v, j + 1) BY <3>2, <3>6, <3>7, <3>8, Zenon
      <4> HIDE DEF Starts
      <4> QED BY <3>x, <3>5, <4>1, Zenon
    <3>9. CASE a[j + 1] = 1
      <4>1. \A i \in 1 .. W : AddressOf(v + x)[i] = IF i = j + 1 THEN 1 ELSE AddressOf(v)[i]
        BY <3>x, <3>1, <3>7, SetBit, Zenon
      <4>2. Starts(v + x, j + 1) BY <3>2, <3>6, <3>9, <4>1, ZenonT(60)
      <4> HIDE DEF Starts
      <4> QED BY <3>x, <3>5, <4>2, Zenon
    <3> QED BY <1>a, <3>1, <3>8, <3>9, Zenon
  <2>2. j + 1 \in Nat BY SMTT(30)
  <2> HIDE DEF Starts
  <2> QED BY <2>1, <2>2, Zenon
<1>3. W \in S
  <2> HIDE DEF S
  <2> QED BY <1>0, <1>1, <1>2, SetInduction, Zenon
<1>4. W <= W BY <1>0, SMTT(30)
<1>5. PICK v \in Nat : v + 2^(W - W) <= 2^W /\ Starts(v, W)
  <2> HIDE DEF Starts
  <2> QED BY <1>3, <1>4, Zenon
<1>6. AddressOf(v) = a
  <2>1. \A i \in 1 .. W : i <= W BY <1>0, SMTT(30)
  <2>2. \A i \in 1 .. W : AddressOf(v)[i] = a[i] BY <1>5, <2>1, Zenon
  <2> QED BY <2>2, AddressOfIs, AddressIs, Zenon
<1>7. v \in 0 .. 2^W - 1
  <2>1. PICK t \in Nat : t = 2^W BY <1>0, PowerStep, Zenon
  <2>2. W - W = 0 /\ 2^0 = 1 BY <1>0, SMTT(30)
  <2>3. v + 1 <= t BY <1>5, <2>1, <2>2, Zenon
  <2>4. v \in 0 .. t - 1 BY <2>3, SMTT(30)
  <2> QED BY <2>1, <2>4, Zenon
<1>8. Value(a) \in 0 .. 2^W - 1 /\ AddressOf(Value(a)) = a BY <1>6, <1>7, Zenon DEF Value
<1>9. \A t \in Nat : \A n \in 0 .. t - 1 : n \in Nat BY SMTT(30)
<1>10. 2^W \in Nat BY <1>0, PowerStep, Zenon
<1> QED BY <1>8, <1>9, <1>10, Zenon

=============================================================================
