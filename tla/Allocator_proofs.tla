-------------------------- MODULE Allocator_proofs --------------------------
(***************************************************************************)
(* Proofs about the allocator, for any width of an address, any blocks and *)
(* any unit of counting: what freePrefixCount counts and freePrefixAt      *)
(* chooses is every free block once, and PoolStats reports what is free.   *)
(***************************************************************************)
EXTENDS Allocator, Prefixes_proofs

-----------------------------------------------------------------------------
(***************************************************************************)
(* The recursive functions satisfy their equations.                        *)
(***************************************************************************)

CountOf(g, q) ==
    LET candidate == q[1]
        bits   == q[3]
        below  == Descendants(candidate, q[2])
        halves == Split(candidate)
    IN  IF Blocked(candidate, q[2]) \/ (candidate.bits = bits /\ below # {})
          THEN 0
        ELSE IF below = {}
          THEN 2^(bits - candidate.bits)
        ELSE g[<<halves[1], below, bits>>] + g[<<halves[2], below, bits>>]

\* The halves of a prefix.
LEMMA Halves ==
  ASSUME NEW p \in Prefix, p.bits # W
  PROVE  /\ Split(p)[1] \in Prefix /\ Split(p)[2] \in Prefix
         /\ Split(p)[1].bits = p.bits + 1 /\ Split(p)[2].bits = p.bits + 1
         /\ \A i \in 1 .. W : Split(p)[1].addr[i] = IF i <= p.bits + 1 THEN p.addr[i] ELSE 0
         /\ \A i \in 1 .. W : Split(p)[2].addr[i] = IF i <= p.bits THEN p.addr[i]
                                                   ELSE IF i = p.bits + 1 THEN 1 ELSE 0
<1> DEFINE n == p.bits + 1
           a == p.addr
           b == [a EXCEPT ![n] = 1]
           l == Masked([addr |-> a, bits |-> n])
           r == Masked([addr |-> b, bits |-> n])
<1>0. W \in Nat BY WidthAssumption, Zenon
<1>1. a \in Address /\ p.bits \in 0 .. W BY SMTT(30) DEF Prefix
<1>2. n \in 0 .. W /\ n \in 1 .. W BY <1>0, <1>1, SMTT(30)
<1>3. Split(p)[1] = l /\ Split(p)[2] = r BY SMTT(30) DEF Split
<1> HIDE DEF n, a
<1>4. b \in Address /\ \A i \in 1 .. W : b[i] = IF i = n THEN 1 ELSE a[i]
  BY <1>1, <1>2, SMTT(30) DEF Address, Bit
<1> HIDE DEF b
<1>5. /\ l \in Prefix /\ l.bits = n /\ r \in Prefix /\ r.bits = n
      /\ \A i \in 1 .. W : l.addr[i] = IF i <= n THEN a[i] ELSE 0
      /\ \A i \in 1 .. W : r.addr[i] = IF i <= n THEN b[i] ELSE 0
  BY <1>1, <1>2, <1>4, MaskedIs, ZenonT(60)
<1> HIDE DEF l, r
<1>6. \A i \in 1 .. W : (i < n <=> i <= p.bits) /\ (i <= n <=> i < n \/ i = n) /\ (i < n => i # n)
  BY <1>0, <1>1, SMTT(30) DEF n
<1>7. \A i \in 1 .. W : r.addr[i] = IF i <= p.bits THEN a[i] ELSE IF i = n THEN 1 ELSE 0
  BY <1>4, <1>5, <1>6, Zenon
<1> QED BY <1>3, <1>5, <1>7, Zenon DEF n, a

\* The questions that a question leads to are about smaller candidates.
LEMMA Smaller ==
  ASSUME NEW q \in Question, Descendants(q[1], q[2]) # {}, q[1].bits # q[3]
  PROVE  /\ q[1] \in Prefix /\ q[1].bits \in 0 .. W /\ q[1].bits # W
         /\ \A h \in {Split(q[1])[1], Split(q[1])[2]} :
               /\ <<h, Descendants(q[1], q[2]), q[3]>> \in Question
               /\ h.bits = q[1].bits + 1
<1>0. W \in Nat BY WidthAssumption, Zenon
<1>1. q[1] \in Prefix /\ q[2] \in SUBSET Prefix /\ q[3] \in 0 .. W /\ q[1].bits <= q[3]
  BY SMTT(30) DEF Question
<1>2. \A p \in Prefix : p.bits \in 0 .. W BY SMTT(30) DEF Prefix
<1>3. Descendants(q[1], q[2]) \subseteq Prefix
  BY <1>1, Zenon DEF Descendants
<1>4. PICK b \in Prefix : b.bits > q[1].bits
  BY <1>3, Zenon DEF Descendants
<1>5. q[1].bits # W BY <1>0, <1>1, <1>2, <1>4, SMTT(30)
<1>6. \A h \in {Split(q[1])[1], Split(q[1])[2]} : h \in Prefix /\ h.bits = q[1].bits + 1
  BY <1>1, <1>5, Halves, Zenon
<1>7. q[1].bits + 1 <= q[3] BY <1>0, <1>1, <1>2, SMTT(30)
<1>8. \A h \in Prefix : h.bits = q[1].bits + 1 =>
                          <<h, Descendants(q[1], q[2]), q[3]>> \in Question
  <2>1. PICK D \in SUBSET Prefix : D = Descendants(q[1], q[2]) BY <1>3, Zenon
  <2>2. \A h \in Prefix : h.bits = q[1].bits + 1 => <<h, D, q[3]>> \in Question
    BY <1>1, <1>7, SMTT(30) DEF Question
  <2> QED BY <2>1, <2>2, Zenon
<1> QED BY <1>1, <1>2, <1>5, <1>6, <1>8, ZenonT(60)

\* The equation of the count asks only for candidates with one bit more.
LEMMA CountLocal ==
  ASSUME NEW g, NEW h, NEW q \in Question,
         \A r \in Question : r[1].bits = q[1].bits + 1 => g[r] = h[r]
  PROVE  CountOf(g, q) = CountOf(h, q)
<1> DEFINE below == Descendants(q[1], q[2])
           l == <<Split(q[1])[1], below, q[3]>>
           r == <<Split(q[1])[2], below, q[3]>>
<1>1. below # {} /\ q[1].bits # q[3] => g[l] = h[l] /\ g[r] = h[r]
  <2> SUFFICES ASSUME below # {}, q[1].bits # q[3] PROVE g[l] = h[l] /\ g[r] = h[r] OBVIOUS
  <2>1. l \in Question /\ r \in Question
        /\ Split(q[1])[1].bits = q[1].bits + 1 /\ Split(q[1])[2].bits = q[1].bits + 1
    BY Smaller, Zenon
  <2>2. l[1] = Split(q[1])[1] /\ r[1] = Split(q[1])[2] BY SMTT(30)
  <2> HIDE DEF l, r
  <2> QED BY <2>1, <2>2, Zenon
<1>2. CountOf(g, q) = IF Blocked(q[1], q[2]) \/ (q[1].bits = q[3] /\ below # {}) THEN 0
                      ELSE IF below = {} THEN 2^(q[3] - q[1].bits)
                      ELSE g[l] + g[r]
  BY Zenon DEF CountOf
<1>3. CountOf(h, q) = IF Blocked(q[1], q[2]) \/ (q[1].bits = q[3] /\ below # {}) THEN 0
                      ELSE IF below = {} THEN 2^(q[3] - q[1].bits)
                      ELSE h[l] + h[r]
  BY Zenon DEF CountOf
<1> HIDE DEF below, l, r
<1> QED BY <1>1, <1>2, <1>3, SMTT(30)

\* freePrefixCount is what its body says.
LEMMA CountEquation ==
  ASSUME NEW q \in Question
  PROVE  FreePrefixCount[q] = CountOf(FreePrefixCount, q)
<1>0. W \in Nat BY WidthAssumption, Zenon
<1>bits. \A r \in Question : r[1].bits \in 0 .. W BY SMTT(30) DEF Question, Prefix
<1> DEFINE Solves(g, n) == \A r \in Question : r[1].bits + n > W => g[r] = CountOf(g, r)
           S == {n \in Nat : \E g : g = [r \in Question |-> g[r]] /\ Solves(g, n)}
<1>1. 0 \in S
  <2> DEFINE g == [r \in Question |-> 0]
  <2>1. g = [r \in Question |-> g[r]] BY Zenon
  <2>2. \A r \in Question : ~(r[1].bits + 0 > W) BY <1>0, <1>bits, SMTT(30)
  <2>3. Solves(g, 0) BY <2>2, Zenon
  <2> HIDE DEF g, Solves
  <2> QED BY <2>1, <2>3, Zenon
<1>2. ASSUME NEW n \in Nat, n \in S PROVE n + 1 \in S
  <2>1. PICK g : g = [r \in Question |-> g[r]] /\ Solves(g, n) BY <1>2, Zenon
  <2> DEFINE h == [r \in Question |-> IF r[1].bits + n > W THEN g[r] ELSE CountOf(g, r)]
  <2>2. \A r \in Question : h[r] = IF r[1].bits + n > W THEN g[r] ELSE CountOf(g, r) BY Zenon
  <2>3. h = [r \in Question |-> h[r]] BY Zenon
  <2> HIDE DEF h
  <2>4. ASSUME NEW r \in Question, r[1].bits + (n + 1) > W PROVE h[r] = CountOf(h, r)
    <3>1. \A s \in Question : s[1].bits = r[1].bits + 1 => s[1].bits + n > W
      BY <1>0, <1>bits, <2>4, SMTT(30)
    <3>2. \A s \in Question : s[1].bits = r[1].bits + 1 => g[s] = h[s]
      BY <2>2, <3>1, Zenon
    <3>3. CountOf(g, r) = CountOf(h, r) BY <3>2, CountLocal, Zenon
    <3>4. h[r] = CountOf(g, r) BY <2>1, <2>2, Zenon
    <3> QED BY <3>3, <3>4, Zenon
  <2>5. Solves(h, n + 1) BY <2>4, Zenon
  <2>6. n + 1 \in Nat BY SMTT(30)
  <2> HIDE DEF Solves
  <2> QED BY <2>3, <2>5, <2>6, Zenon
<1>3. W + 1 \in S
  <2>1. W + 1 \in Nat BY <1>0, SMTT(30)
  <2> HIDE DEF S
  <2> QED BY <1>1, <1>2, <2>1, SetInduction, ZenonT(60)
<1>4. PICK g : g = [r \in Question |-> g[r]] /\ Solves(g, W + 1) BY <1>3, Zenon
<1>5. \A r \in Question : g[r] = CountOf(g, r)
  <2>1. \A r \in Question : r[1].bits + (W + 1) > W BY <1>0, <1>bits, SMTT(30)
  <2> QED BY <1>4, <2>1, ZenonT(60)
<1>6. g = [r \in Question |-> CountOf(g, r)] BY <1>4, <1>5, Zenon
<1>7. FreePrefixCount = CHOOSE f : f = [r \in Question |-> CountOf(f, r)]
  BY Zenon DEF FreePrefixCount, CountOf
<1>8. FreePrefixCount = [r \in Question |-> CountOf(FreePrefixCount, r)]
  BY <1>6, <1>7, Zenon
<1> HIDE DEF Solves, S
<1> QED BY <1>8, Zenon

-----------------------------------------------------------------------------
(***************************************************************************)
(* Free blocks.                                                            *)
(***************************************************************************)

\* A candidate that is covered has no free block.
LEMMA BlockedIsFull ==
  ASSUME NEW c \in Prefix, NEW U \in SUBSET Prefix, NEW n \in 0 .. W, Blocked(c, U)
  PROVE  FreeBlocks(c, U, n) = {}
<1>1. PICK u \in U : Overlaps(c, u) /\ u.bits <= c.bits BY Zenon DEF Blocked
<1> SUFFICES ASSUME NEW b \in FreeBlocks(c, U, n) PROVE FALSE OBVIOUS
<1>2. b \in Prefix /\ Inside(b, c) /\ ~Overlaps(b, u) BY <1>1, FreeBlocksAre, ZenonT(60) DEF Clean
<1> QED BY <1>1, <1>2, CoverOverlaps, ZenonT(60)

\* Of the blocks in use only the candidate's descendants matter.
LEMMA OnlyDescendants ==
  ASSUME NEW c \in Prefix, NEW U \in SUBSET Prefix, NEW n \in 0 .. W, ~Blocked(c, U)
  PROVE  FreeBlocks(c, U, n) = FreeBlocks(c, Descendants(c, U), n)
<1>1. ASSUME NEW b, b \in Prefix, Inside(b, c), NEW u \in U, Overlaps(b, u)
      PROVE  u \in Descendants(c, U)
  <2>1. Overlaps(c, u) BY <1>1, OverlapOfPart, Zenon
  <2>2. ~(u.bits <= c.bits) BY <2>1, Zenon DEF Blocked
  <2>3. u.bits \in Int /\ c.bits \in Int BY PrefixIs, WidthAssumption, SMTT(30)
  <2>4. u.bits > c.bits BY <2>2, <2>3, SMTT(30)
  <2> QED BY <2>1, <2>4, Zenon DEF Descendants
<1>2. \A u \in Descendants(c, U) : u \in U BY Zenon DEF Descendants
<1>3. ASSUME NEW b \in FreeBlocks(c, U, n) PROVE b \in FreeBlocks(c, Descendants(c, U), n)
  <2>1. Clean(b) /\ b.bits = n /\ Inside(b, c) /\ \A u \in U : ~Overlaps(b, u)
    BY FreeBlocksAre, Zenon
  <2>2. \A u \in Descendants(c, U) : ~Overlaps(b, u) BY <1>2, <2>1, Zenon
  <2> QED BY <2>1, <2>2, FreeBlocksAre, Zenon
<1>4. ASSUME NEW b \in FreeBlocks(c, Descendants(c, U), n) PROVE b \in FreeBlocks(c, U, n)
  <2>d. PICK D : D = Descendants(c, U) OBVIOUS
  <2>0. b \in FreeBlocks(c, D, n) BY <2>d, Zenon
  <2>1. Clean(b) /\ b.bits = n /\ Inside(b, c) /\ \A u \in D : ~Overlaps(b, u)
    BY <2>0, FreeBlocksAre, Zenon
  <2>2. b \in Prefix BY <2>1, Zenon DEF Clean
  <2>3. \A u \in U : ~Overlaps(b, u) BY <1>1, <2>d, <2>1, <2>2, ZenonT(60)
  <2> QED BY <2>1, <2>3, FreeBlocksAre, Zenon
<1> QED BY <1>3, <1>4, Zenon

\* The halves of a clean prefix are clean.
LEMMA CleanHalves ==
  ASSUME NEW c, Clean(c), c.bits < W
  PROVE  /\ Clean(Split(c)[1]) /\ Clean(Split(c)[2])
         /\ Split(c)[1].bits = c.bits + 1 /\ Split(c)[2].bits = c.bits + 1
         /\ \A i \in 1 .. c.bits : /\ Split(c)[1].addr[i] = c.addr[i]
                                 /\ Split(c)[2].addr[i] = c.addr[i]
         /\ Split(c)[1].addr[c.bits + 1] = 0 /\ Split(c)[2].addr[c.bits + 1] = 1
<1> DEFINE l == Split(c)[1]
           r == Split(c)[2]
<1>0. W \in Nat BY WidthAssumption, Zenon
<1>1. c \in Prefix /\ c.bits \in 0 .. W BY PrefixIs, Zenon DEF Clean
<1>2. c.bits # W /\ c.bits + 1 \in 1 .. W /\ ~(c.bits + 1 <= c.bits)
  BY <1>0, <1>1, SMTT(30)
<1>3. /\ l \in Prefix /\ r \in Prefix /\ l.bits = c.bits + 1 /\ r.bits = c.bits + 1
      /\ \A i \in 1 .. W : l.addr[i] = IF i <= c.bits + 1 THEN c.addr[i] ELSE 0
      /\ \A i \in 1 .. W : r.addr[i] = IF i <= c.bits THEN c.addr[i]
                                       ELSE IF i = c.bits + 1 THEN 1 ELSE 0
  BY <1>1, <1>2, Halves, Zenon
<1> HIDE DEF l, r
<1>4. c.addr[c.bits + 1] = 0 BY <1>2, Zenon DEF Clean
<1>5. \A i \in 1 .. W : (i <= c.bits + 1 <=> i <= c.bits \/ i = c.bits + 1)
  BY <1>0, <1>1, SMTT(30)
<1>6. Clean(l) /\ Clean(r)
  <2>1. \A i \in 1 .. W : i <= l.bits \/ l.addr[i] = 0 BY <1>3, Zenon
  <2>2. \A i \in 1 .. W : i <= r.bits \/ r.addr[i] = 0 BY <1>3, <1>5, Zenon
  <2> QED BY <1>3, <2>1, <2>2, Zenon DEF Clean
<1>7. \A i \in 1 .. c.bits : i \in 1 .. W /\ i <= c.bits /\ i <= c.bits + 1
  BY <1>0, <1>1, <1>2, SMTT(30)
<1>8. \A i \in 1 .. c.bits : l.addr[i] = c.addr[i] /\ r.addr[i] = c.addr[i]
  BY <1>3, <1>7, Zenon
<1>9. l.addr[c.bits + 1] = 0 BY <1>2, <1>3, <1>4, Zenon
<1>10. r.addr[c.bits + 1] = 1 BY <1>2, <1>3, Zenon
<1> QED BY <1>3, <1>6, <1>8, <1>9, <1>10, ZenonT(60) DEF l, r

\* A block of a clean prefix that is smaller is in one of its halves.
LEMMA InAHalf ==
  ASSUME NEW c, Clean(c), NEW b \in Prefix, c.bits < b.bits
  PROVE  /\ Inside(b, c) <=> Inside(b, Split(c)[1]) \/ Inside(b, Split(c)[2])
         /\ ~(Inside(b, Split(c)[1]) /\ Inside(b, Split(c)[2]))
<1>l. PICK l : l = Split(c)[1] OBVIOUS
<1>r. PICK r : r = Split(c)[2] OBVIOUS
<1>0. W \in Nat BY WidthAssumption, Zenon
<1>1. c \in Prefix /\ c.bits \in 0 .. W /\ b.bits \in 0 .. W /\ b.addr \in Address
  BY PrefixIs, Zenon DEF Clean
<1>2. c.bits < W /\ c.bits + 1 \in 1 .. W BY <1>0, <1>1, SMTT(30)
<1>3. /\ l.bits = c.bits + 1 /\ r.bits = c.bits + 1
      /\ \A i \in 1 .. c.bits : l.addr[i] = c.addr[i] /\ r.addr[i] = c.addr[i]
      /\ l.addr[c.bits + 1] = 0 /\ r.addr[c.bits + 1] = 1
  BY <1>l, <1>r, <1>2, CleanHalves, ZenonT(60)
<1>7. /\ \A i \in 1 .. c.bits : i \in 1 .. c.bits + 1
      /\ \A i \in 1 .. c.bits + 1 : i \in 1 .. c.bits \/ i = c.bits + 1
      /\ c.bits + 1 \in 1 .. c.bits + 1
  BY <1>0, <1>1, <1>2, SMTT(30)
<1>9. /\ Contains(l, b.addr) <=> Contains(c, b.addr) /\ b.addr[c.bits + 1] = 0
      /\ Contains(r, b.addr) <=> Contains(c, b.addr) /\ b.addr[c.bits + 1] = 1
  <2>1. Contains(l, b.addr) <=> \A i \in 1 .. c.bits + 1 : l.addr[i] = b.addr[i]
    BY <1>3, Zenon DEF Contains
  <2>2. Contains(r, b.addr) <=> \A i \in 1 .. c.bits + 1 : r.addr[i] = b.addr[i]
    BY <1>3, Zenon DEF Contains
  <2>3. Contains(c, b.addr) <=> \A i \in 1 .. c.bits : c.addr[i] = b.addr[i]
    BY Zenon DEF Contains
  <2>4. Contains(l, b.addr) <=> Contains(c, b.addr) /\ b.addr[c.bits + 1] = 0
    BY <1>3, <1>7, <2>1, <2>3, ZenonT(60)
  <2>5. Contains(r, b.addr) <=> Contains(c, b.addr) /\ b.addr[c.bits + 1] = 1
    BY <1>3, <1>7, <2>2, <2>3, ZenonT(60)
  <2> QED BY <2>4, <2>5, Zenon
<1>10. b.addr[c.bits + 1] = 0 \/ b.addr[c.bits + 1] = 1
  BY <1>1, <1>2, AddressIs, ZenonT(60) DEF Bit
<1>11. 0 # 1 BY SMTT(30)
<1>12. b.bits >= c.bits /\ b.bits >= l.bits /\ b.bits >= r.bits
  BY <1>0, <1>1, <1>2, <1>3, SMTT(30)
<1>13. /\ Inside(b, c) <=> Inside(b, l) \/ Inside(b, r)
       /\ ~(Inside(b, l) /\ Inside(b, r))
  BY <1>9, <1>10, <1>11, <1>12, ZenonT(60) DEF Inside
<1> QED BY <1>l, <1>r, <1>13, Zenon

\* So the free blocks of a candidate are those of its halves.
LEMMA FreeInHalves ==
  ASSUME NEW c, Clean(c), NEW U, NEW n \in 0 .. W, c.bits < n
  PROVE  /\ FreeBlocks(c, U, n) =
              FreeBlocks(Split(c)[1], U, n) \cup FreeBlocks(Split(c)[2], U, n)
         /\ FreeBlocks(Split(c)[1], U, n) \cap FreeBlocks(Split(c)[2], U, n) = {}
<1>l. PICK l : l = Split(c)[1] OBVIOUS
<1>r. PICK r : r = Split(c)[2] OBVIOUS
<1>1. \A b : Clean(b) /\ b.bits = n => /\ Inside(b, c) <=> Inside(b, l) \/ Inside(b, r)
                                       /\ ~(Inside(b, l) /\ Inside(b, r))
  BY <1>l, <1>r, InAHalf, SMTT(30) DEF Clean
<1>2. FreeBlocks(c, U, n) = FreeBlocks(l, U, n) \cup FreeBlocks(r, U, n)
  <2>1. ASSUME NEW b \in FreeBlocks(c, U, n)
        PROVE  b \in FreeBlocks(l, U, n) \/ b \in FreeBlocks(r, U, n)
    <3>1. Clean(b) /\ b.bits = n /\ Inside(b, c) /\ \A u \in U : ~Overlaps(b, u)
      BY FreeBlocksAre, Zenon
    <3> QED BY <1>1, <3>1, FreeBlocksAre, Zenon
  <2>2. ASSUME NEW b, b \in FreeBlocks(l, U, n) \/ b \in FreeBlocks(r, U, n)
        PROVE  b \in FreeBlocks(c, U, n)
    <3>1. /\ Clean(b) /\ b.bits = n /\ (Inside(b, l) \/ Inside(b, r))
          /\ \A u \in U : ~Overlaps(b, u)
      BY <2>2, FreeBlocksAre, ZenonT(60)
    <3> QED BY <1>1, <3>1, FreeBlocksAre, ZenonT(60)
  <2> QED BY <2>1, <2>2, Zenon
<1>3. FreeBlocks(l, U, n) \cap FreeBlocks(r, U, n) = {}
  BY <1>1, FreeBlocksAre, ZenonT(60)
<1> QED BY <1>l, <1>r, <1>2, <1>3, ZenonT(60)

\* A candidate with nothing in use has a power of two of free blocks.
LEMMA AllFree ==
  ASSUME NEW n \in 0 .. W, NEW c, Clean(c), c.bits <= n
  PROVE  /\ IsFiniteSet(FreeBlocks(c, {}, n))
         /\ Cardinality(FreeBlocks(c, {}, n)) = 2^(n - c.bits)
<1> DEFINE S == {k \in Nat : \A p \in Prefix : Clean(p) /\ p.bits + k = n =>
                    /\ IsFiniteSet(FreeBlocks(p, {}, n))
                    /\ Cardinality(FreeBlocks(p, {}, n)) = 2^k}
<1>0. W \in Nat BY WidthAssumption, Zenon
<1>1. 0 \in S
  <2>1. ASSUME NEW p \in Prefix, Clean(p), p.bits + 0 = n
        PROVE  IsFiniteSet(FreeBlocks(p, {}, n)) /\ Cardinality(FreeBlocks(p, {}, n)) = 2^0
    <3>1. p.bits = n BY <1>0, <2>1, PrefixIs, SMTT(30)
    <3>2. p \in FreeBlocks(p, {}, n)
      <4>1. Inside(p, p) BY InsideItself, Zenon
      <4> QED BY <2>1, <3>1, <4>1, FreeBlocksAre, ZenonT(60)
    <3>3. FreeBlocks(p, {}, n) = {p}
      <4>1. ASSUME NEW b \in FreeBlocks(p, {}, n) PROVE b = p
        <5>1. Clean(b) /\ b.bits = n /\ Inside(b, p) BY FreeBlocksAre, Zenon
        <5> QED BY <2>1, <3>1, <5>1, OnlyItself, ZenonT(60)
      <4> QED BY <3>2, <4>1, Zenon
    <3>4. 2^0 = 1 BY SMTT(30)
    <3> QED BY <3>3, <3>4, FS_Singleton, ZenonT(60)
  <2> QED BY <2>1, Zenon
<1>2. ASSUME NEW k \in Nat, k \in S PROVE k + 1 \in S
  <2>1. ASSUME NEW p \in Prefix, Clean(p), p.bits + (k + 1) = n
        PROVE  /\ IsFiniteSet(FreeBlocks(p, {}, n))
               /\ Cardinality(FreeBlocks(p, {}, n)) = 2^(k + 1)
    <3>1. p.bits \in 0 .. W /\ p.bits < n /\ (p.bits + 1) + k = n
      <4>1. p.bits \in 0 .. W BY PrefixIs, Zenon
      <4> QED BY <1>0, <2>1, <4>1, SMTT(30)
    <3>l. PICK l : l = FreeBlocks(Split(p)[1], {}, n) OBVIOUS
    <3>r. PICK r : r = FreeBlocks(Split(p)[2], {}, n) OBVIOUS
    <3>2. /\ Clean(Split(p)[1]) /\ Clean(Split(p)[2])
          /\ Split(p)[1].bits + k = n /\ Split(p)[2].bits + k = n
      <4>1. p.bits < W /\ p.bits + 1 + k = n BY <1>0, <3>1, SMTT(30)
      <4> QED BY <2>1, <3>1, <4>1, CleanHalves, ZenonT(60)
    <3>3. /\ IsFiniteSet(l) /\ Cardinality(l) = 2^k
          /\ IsFiniteSet(r) /\ Cardinality(r) = 2^k
      BY <1>2, <3>l, <3>r, <3>2, ZenonT(60) DEF Clean
    <3>4. FreeBlocks(p, {}, n) = l \cup r /\ l \cap r = {}
      BY <2>1, <3>l, <3>r, <3>1, FreeInHalves, ZenonT(60)
    <3>5. IsFiniteSet(l \cup r) /\ Cardinality(l \cup r) = 2^k + 2^k - 0
      <4>1. Cardinality({}) = 0 BY FS_EmptySet, Zenon
      <4>2. /\ IsFiniteSet(l \cup r)
            /\ Cardinality(l \cup r) = Cardinality(l) + Cardinality(r) - Cardinality(l \cap r)
        BY <3>3, FS_Union, Zenon
      <4> QED BY <3>3, <3>4, <4>1, <4>2, Zenon
    <3>6. 2^k + 2^k - 0 = 2^(k + 1) BY PowerStep, SMTT(30)
    <3> QED BY <3>4, <3>5, <3>6, ZenonT(60)
  <2>2. k + 1 \in Nat BY SMTT(30)
  <2> QED BY <2>1, <2>2, ZenonT(60)
<1>3. n - c.bits \in Nat /\ c.bits + (n - c.bits) = n
  BY <1>0, PrefixIs, SMTT(30) DEF Clean
<1>4. n - c.bits \in S
  <2> HIDE DEF S
  <2> QED BY <1>1, <1>2, <1>3, SetInduction, ZenonT(60)
<1> QED BY <1>3, <1>4, Zenon DEF Clean

\* The cases of the count, for a candidate and the blocks in use.
LEMMA CountCases ==
  ASSUME NEW c \in Prefix, NEW U \in SUBSET Prefix, NEW n \in 0 .. W, c.bits <= n,
         NEW D, D = Descendants(c, U)
  PROVE  /\ Blocked(c, U) \/ (c.bits = n /\ D # {}) => FreePrefixCount[<<c, U, n>>] = 0
         /\ ~Blocked(c, U) /\ D = {} => FreePrefixCount[<<c, U, n>>] = 2^(n - c.bits)
         /\ ~Blocked(c, U) /\ D # {} /\ c.bits # n =>
              FreePrefixCount[<<c, U, n>>] = FreePrefixCount[<<Split(c)[1], D, n>>]
                                               + FreePrefixCount[<<Split(c)[2], D, n>>]
<1>q. PICK q : q = <<c, U, n>> BY Zenon
<1>1. q \in Question /\ q[1] = c /\ q[2] = U /\ q[3] = n BY <1>q, SMTT(30) DEF Question
<1>2. FreePrefixCount[q] = CountOf(FreePrefixCount, q) BY <1>1, CountEquation, Zenon
<1>3. CountOf(FreePrefixCount, q) =
        IF Blocked(c, U) \/ (c.bits = n /\ D # {}) THEN 0
        ELSE IF D = {} THEN 2^(n - c.bits)
        ELSE FreePrefixCount[<<Split(c)[1], D, n>>] + FreePrefixCount[<<Split(c)[2], D, n>>]
  BY <1>1, Zenon DEF CountOf
<1>4. CASE Blocked(c, U) \/ (c.bits = n /\ D # {})
  BY <1>q, <1>2, <1>3, <1>4, ZenonT(60)
<1>5. CASE ~(Blocked(c, U) \/ (c.bits = n /\ D # {}))
  BY <1>q, <1>2, <1>3, <1>5, ZenonT(60)
<1> QED BY <1>4, <1>5, ZenonT(60)

\* A candidate of the size that is asked for has no free block if it is blocked,
\* or if there are blocks in use below it.
LEMMA NoneFree ==
  ASSUME NEW c, Clean(c), NEW U \in SUBSET Prefix, NEW n \in 0 .. W,
         Blocked(c, U) \/ (c.bits = n /\ Descendants(c, U) # {})
  PROVE  FreeBlocks(c, U, n) = {}
<1>1. c \in Prefix BY Zenon DEF Clean
<1>2. ASSUME c.bits = n, Descendants(c, U) # {} PROVE FreeBlocks(c, U, n) = {}
  <2> SUFFICES ASSUME NEW b \in FreeBlocks(c, U, n) PROVE FALSE OBVIOUS
  <2>1. Clean(b) /\ b.bits = n /\ Inside(b, c) /\ \A u \in U : ~Overlaps(b, u)
    BY FreeBlocksAre, Zenon
  <2>2. b = c BY <1>2, <2>1, OnlyItself, ZenonT(60)
  <2>3. PICK d \in U : Overlaps(c, d) BY <1>2, Zenon DEF Descendants
  <2> QED BY <2>1, <2>2, <2>3, ZenonT(60)
<1> QED BY <1>1, <1>2, BlockedIsFull, ZenonT(60)

\* freePrefixCount is the number of free blocks.
LEMMA CountExact ==
  ASSUME NEW n \in 0 .. W, NEW c, Clean(c), c.bits <= n, NEW U \in SUBSET Prefix
  PROVE  /\ IsFiniteSet(FreeBlocks(c, U, n))
         /\ FreePrefixCount[<<c, U, n>>] = Cardinality(FreeBlocks(c, U, n))
<1> DEFINE Right(p, V) == /\ IsFiniteSet(FreeBlocks(p, V, n))
                          /\ FreePrefixCount[<<p, V, n>>] = Cardinality(FreeBlocks(p, V, n))
           S == {k \in Nat : \A p \in Prefix : Clean(p) /\ p.bits + k = n =>
                               \A V \in SUBSET Prefix : Right(p, V)}
<1>0. W \in Nat BY WidthAssumption, Zenon
\* Where the count does not descend.
<1>1. ASSUME NEW p, Clean(p), p.bits <= n, NEW V \in SUBSET Prefix,
             Blocked(p, V) \/ p.bits = n \/ Descendants(p, V) = {}
      PROVE  Right(p, V)
  <2>d. PICK D : D = Descendants(p, V) OBVIOUS
  <2>0. p \in Prefix BY <1>1, Zenon DEF Clean
  <2>1. CASE Blocked(p, V) \/ (p.bits = n /\ D # {})
    <3>1. FreePrefixCount[<<p, V, n>>] = 0 BY <1>1, <2>d, <2>0, <2>1, CountCases, ZenonT(60)
    <3>2. FreeBlocks(p, V, n) = {} BY <1>1, <2>d, <2>1, NoneFree, ZenonT(60)
    <3> QED BY <3>1, <3>2, FS_EmptySet, ZenonT(60)
  <2>2. CASE ~Blocked(p, V) /\ D = {}
    <3>1. FreePrefixCount[<<p, V, n>>] = 2^(n - p.bits) BY <1>1, <2>d, <2>0, <2>2, CountCases, ZenonT(60)
    <3>2. FreeBlocks(p, V, n) = FreeBlocks(p, D, n)
      BY <1>1, <2>d, <2>0, <2>2, OnlyDescendants, ZenonT(60)
    <3> QED BY <1>1, <2>2, <3>1, <3>2, AllFree, ZenonT(60)
  <2> QED BY <1>1, <2>d, <2>1, <2>2, ZenonT(60)
<1>2. 0 \in S
  <2>1. ASSUME NEW p \in Prefix, Clean(p), p.bits + 0 = n PROVE p.bits = n /\ p.bits <= n
    <3>1. p.bits \in 0 .. W BY PrefixIs, Zenon
    <3> QED BY <1>0, <2>1, <3>1, SMTT(30)
  <2> HIDE DEF Right
  <2> QED BY <1>1, <2>1, ZenonT(60)
<1>3. ASSUME NEW k \in Nat, k \in S PROVE k + 1 \in S
  <2>1. ASSUME NEW p \in Prefix, Clean(p), p.bits + (k + 1) = n, NEW V \in SUBSET Prefix
        PROVE  Right(p, V)
    <3>d. PICK D : D = Descendants(p, V) OBVIOUS
    <3>1. p.bits \in 0 .. W BY PrefixIs, Zenon
    <3>2. p.bits <= n /\ (p.bits + 1) + k = n BY <1>0, <2>1, <3>1, SMTT(30)
    <3>3. CASE Blocked(p, V) \/ p.bits = n \/ D = {}
      <4> HIDE DEF Right
      <4> QED BY <1>1, <2>1, <3>d, <3>2, <3>3, ZenonT(60)
    <3>4. CASE ~(Blocked(p, V) \/ p.bits = n \/ D = {})
      <4>l. PICK l : l = Split(p)[1] OBVIOUS
      <4>r. PICK r : r = Split(p)[2] OBVIOUS
      <4>1. /\ D \in SUBSET Prefix /\ p.bits < W
            /\ FreeBlocks(p, V, n) = FreeBlocks(l, D, n) \cup FreeBlocks(r, D, n)
            /\ FreeBlocks(l, D, n) \cap FreeBlocks(r, D, n) = {}
        <5>1. FreeBlocks(p, V, n) = FreeBlocks(p, D, n)
          BY <3>d, <3>4, OnlyDescendants, ZenonT(60)
        <5>2. /\ D \in SUBSET Prefix /\ p.bits < W
              /\ FreeBlocks(p, D, n) =
                   FreeBlocks(Split(p)[1], D, n) \cup FreeBlocks(Split(p)[2], D, n)
              /\ FreeBlocks(Split(p)[1], D, n) \cap FreeBlocks(Split(p)[2], D, n) = {}
          <6>1. D # {} /\ p.bits # n BY <3>4, Zenon
          <6>2. p.bits < n /\ p.bits < W BY <1>0, <3>1, <3>2, <6>1, SMTT(30)
          <6>3. D \in SUBSET Prefix BY <3>d, Zenon DEF Descendants
          <6> QED BY <2>1, <6>2, <6>3, FreeInHalves, SMTT(30)
        <5> QED BY <4>l, <4>r, <5>1, <5>2, ZenonT(60)
      <4>2. FreePrefixCount[<<p, V, n>>] =
               FreePrefixCount[<<l, D, n>>] + FreePrefixCount[<<r, D, n>>]
        BY <3>d, <3>2, <3>4, <4>l, <4>r, CountCases, ZenonT(60)
      <4>3. Clean(l) /\ Clean(r) /\ l.bits + k = n /\ r.bits + k = n
        BY <2>1, <3>2, <4>l, <4>r, <4>1, CleanHalves, Zenon
      <4>4. l \in Prefix /\ r \in Prefix BY <4>3, Zenon DEF Clean
      <4>5. Right(l, D) /\ Right(r, D)
        <5> HIDE DEF Right
        <5> QED BY <1>3, <4>1, <4>3, <4>4, ZenonT(60)
      <4>6. PICK L : L = FreeBlocks(l, D, n) OBVIOUS
      <4>7. PICK R : R = FreeBlocks(r, D, n) OBVIOUS
      <4>8. IsFiniteSet(L) /\ IsFiniteSet(R) BY <4>5, <4>6, <4>7, ZenonT(60)
      <4>9. /\ IsFiniteSet(L \cup R)
            /\ Cardinality(L \cup R) = Cardinality(L) + Cardinality(R) - Cardinality(L \cap R)
        BY <4>8, FS_Union, Zenon
      <4>10. Cardinality(L) \in Nat /\ Cardinality(R) \in Nat /\ Cardinality({}) = 0
        BY <4>8, FS_CardinalityType, FS_EmptySet, ZenonT(60)
      <4>11. L \cap R = {} BY <4>1, <4>6, <4>7, ZenonT(60)
      <4>12. Cardinality(L) + Cardinality(R) - Cardinality({}) = Cardinality(L) + Cardinality(R)
        BY <4>10, SMTT(30)
      <4>13. Cardinality(L \cup R) = Cardinality(L) + Cardinality(R)
        BY <4>9, <4>11, <4>12, ZenonT(60)
      <4>14. FreePrefixCount[<<p, V, n>>] = Cardinality(L) + Cardinality(R)
        BY <4>2, <4>5, <4>6, <4>7, ZenonT(60)
      <4> QED BY <4>1, <4>6, <4>7, <4>9, <4>13, <4>14, ZenonT(60)
    <3> QED BY <3>3, <3>4, ZenonT(60)
  <2>2. k + 1 \in Nat BY SMTT(30)
  <2> HIDE DEF Right
  <2> QED BY <2>1, <2>2, ZenonT(60)
<1>4. n - c.bits \in Nat /\ c.bits + (n - c.bits) = n
  BY <1>0, PrefixIs, SMTT(30) DEF Clean
<1>5. n - c.bits \in S
  <2> HIDE DEF S
  <2> QED BY <1>2, <1>3, <1>4, SetInduction, ZenonT(60)
<1> QED BY <1>4, <1>5, Zenon DEF Clean

-----------------------------------------------------------------------------
(***************************************************************************)
(* Addresses as numbers.                                                   *)
(***************************************************************************)

\* The halves as numbers: the lower one has the address of the prefix, and the
\* upper one has the weight of one bit more.
LEMMA HalvesAsNumbers ==
  ASSUME NEW c, Clean(c), c.bits < W, NEW v \in Nat, AddressOf(v) = c.addr
  PROVE  /\ AddressOf(v) = Split(c)[1].addr
         /\ v + 2^(W - (c.bits + 1)) \in Nat
         /\ AddressOf(v + 2^(W - (c.bits + 1))) = Split(c)[2].addr
<1>l. PICK l : l = Split(c)[1] BY Zenon
<1>r. PICK r : r = Split(c)[2] BY Zenon
<1>0. W \in Nat BY WidthAssumption, Zenon
<1>1. c \in Prefix /\ c.addr \in Address /\ c.bits \in 0 .. W BY PrefixIs, Zenon DEF Clean
<1>m. PICK m \in 1 .. W : m = c.bits + 1
  <2>1. c.bits + 1 \in 1 .. W BY <1>0, <1>1, SMTT(30)
  <2> QED BY <2>1, Zenon
<1>2. /\ Clean(l) /\ Clean(r) /\ l.bits = m /\ r.bits = m
      /\ \A i \in 1 .. c.bits : l.addr[i] = c.addr[i] /\ r.addr[i] = c.addr[i]
      /\ l.addr[m] = 0 /\ r.addr[m] = 1
  BY <1>l, <1>r, <1>m, CleanHalves, ZenonT(60)
<1>3. l.addr \in Address /\ r.addr \in Address BY <1>2, PrefixIs, Zenon DEF Clean
<1>4. \A i \in 1 .. W : i <= m => i \in 1 .. c.bits \/ i = m BY <1>0, <1>1, <1>m, SMTT(30)
<1>5. \A i \in 1 .. W : i \in 1 .. c.bits \/ i = m => i <= m BY <1>0, <1>1, <1>m, SMTT(30)
<1>6. m \notin 1 .. c.bits /\ ~(m <= c.bits) BY <1>0, <1>1, <1>m, SMTT(30)
<1>7. c.addr[m] = 0 BY <1>6, Zenon DEF Clean
<1>8. \A i \in 1 .. W : i \in 1 .. c.bits \/ i = m \/ (c.addr[i] = 0 /\ l.addr[i] = 0 /\ r.addr[i] = 0)
  <2>1. \A i \in 1 .. W : i <= c.bits => i \in 1 .. c.bits BY <1>0, <1>1, SMTT(30)
  <2>2. \A i \in 1 .. W : i \in 1 .. c.bits \/ c.addr[i] = 0 BY <2>1, Zenon DEF Clean
  <2>3. \A i \in 1 .. W : i <= m \/ (l.addr[i] = 0 /\ r.addr[i] = 0) BY <1>2, SMTT(30) DEF Clean
  <2> QED BY <1>4, <2>2, <2>3, ZenonT(60)
<1>9. \A i \in 1 .. W : l.addr[i] = c.addr[i] BY <1>2, <1>7, <1>8, ZenonT(60)
<1>10. l.addr = c.addr BY <1>1, <1>3, <1>9, AddressIs, ZenonT(60)
<1>11. AddressOf(v)[m] = 0 BY <1>7, Zenon
<1>12. \A i \in 1 .. W : AddressOf(v + 2^(W - m))[i] = IF i = m THEN 1 ELSE AddressOf(v)[i]
  BY <1>11, SetBit, Zenon
<1>13. \A i \in 1 .. W : r.addr[i] = IF i = m THEN 1 ELSE c.addr[i]
  BY <1>2, <1>6, <1>8, ZenonT(60)
<1>14. v + 2^(W - m) \in Nat
  <2>1. m \in 0 .. W BY <1>0, SMTT(30)
  <2>2. PICK x \in Positive : x = 2^(W - m) BY <2>1, Powers, Zenon
  <2>3. v + x \in Nat BY SMTT(30) DEF Positive
  <2> QED BY <2>2, <2>3, ZenonT(60)
<1>a. PICK a : a = AddressOf(v + 2^(W - m)) BY Zenon
<1>15. \A i \in 1 .. W : a[i] = r.addr[i] BY <1>a, <1>12, <1>13, SMTT(30)
<1>16. a \in Address BY <1>a, <1>14, AddressOfIs, ZenonT(60)
<1>17. a = r.addr BY <1>3, <1>15, <1>16, AddressIs, SMTT(30)
<1> QED BY <1>l, <1>r, <1>m, <1>a, <1>10, <1>14, <1>17, ZenonT(60)

\* The blocks that prefixAtIndex returns are all blocks of the candidate.
LEMMA AtIndex ==
  ASSUME NEW n \in 0 .. W, NEW c, Clean(c), c.bits <= n, NEW v \in Nat, AddressOf(v) = c.addr
  PROVE  {Masked([addr |-> AddressOf(v + i * 2^(W - n)), bits |-> n]) :
             i \in 0 .. 2^(n - c.bits) - 1} = FreeBlocks(c, {}, n)
<1>0. W \in Nat BY WidthAssumption, Zenon
<1>z. PICK z \in Positive : z = 2^(W - n) BY Powers, Zenon
<1> DEFINE Block(w, i) == Masked([addr |-> AddressOf(w + i * z), bits |-> n])
           Blocks(w, x) == {Block(w, i) : i \in 0 .. x - 1}
           S == {k \in Nat : \A p \in Prefix, w \in Nat :
                    Clean(p) /\ p.bits + k = n /\ AddressOf(w) = p.addr =>
                        Blocks(w, 2^k) = FreeBlocks(p, {}, n)}
<1>1. 0 \in S
  <2>1. ASSUME NEW p \in Prefix, NEW w \in Nat, Clean(p), p.bits + 0 = n, AddressOf(w) = p.addr
        PROVE  Blocks(w, 2^0) = FreeBlocks(p, {}, n)
    <3>1. p.bits \in 0 .. W BY PrefixIs, Zenon
    <3>2. p.bits = n BY <1>0, <2>1, <3>1, SMTT(30)
    <3>3. 2^0 - 1 = 0 /\ w + 0 * z = w BY SMTT(30) DEF Positive
    <3>4. Block(w, 0) = p
      <4>1. p = [addr |-> p.addr, bits |-> p.bits] BY PrefixIs, Zenon
      <4>2. Block(w, 0) = Masked([addr |-> p.addr, bits |-> p.bits]) BY <2>1, <3>2, <3>3, ZenonT(60)
      <4>3. Masked(p) = p BY <2>1, MaskedClean, Zenon
      <4> QED BY <4>1, <4>2, <4>3, ZenonT(60)
    <3>5. \A i : i \in 0 .. 0 <=> i = 0 BY SMTT(30)
    <3>6. Blocks(w, 2^0) = {p}
      <4> HIDE DEF Block
      <4>1. \A i : i \in 0 .. 2^0 - 1 <=> i = 0 BY <3>3, <3>5, Zenon
      <4> QED BY <3>4, <4>1, Zenon
    <3>7. FreeBlocks(p, {}, n) = {p}
      <4>1. ASSUME NEW b \in FreeBlocks(p, {}, n) PROVE b = p
        <5>1. Clean(b) /\ b.bits = n /\ Inside(b, p) BY FreeBlocksAre, SMTT(30)
        <5> QED BY <2>1, <3>2, <5>1, OnlyItself, ZenonT(60)
      <4>2. Inside(p, p) BY InsideItself, Zenon
      <4>3. p \in FreeBlocks(p, {}, n) BY <2>1, <3>2, <4>2, FreeBlocksAre, ZenonT(60)
      <4> QED BY <4>1, <4>3, Zenon
    <3> QED BY <3>6, <3>7, Zenon
  <2>2. 0 \in Nat BY SMTT(30)
  <2> HIDE DEF Blocks
  <2> QED BY <2>1, <2>2, Zenon
<1>2. ASSUME NEW k \in Nat, k \in S PROVE k + 1 \in S
  <2>1. ASSUME NEW p \in Prefix, NEW w \in Nat, Clean(p), p.bits + (k + 1) = n,
               AddressOf(w) = p.addr
        PROVE  Blocks(w, 2^(k + 1)) = FreeBlocks(p, {}, n)
    <3>1. p.bits \in 0 .. W BY PrefixIs, ZenonT(60)
    <3>2. p.bits < W /\ p.bits < n /\ (p.bits + 1) + k = n BY <1>0, <2>1, <3>1, SMTT(30)
    <3>l. PICK l : l = Split(p)[1] BY Zenon
    <3>r. PICK r : r = Split(p)[2] BY Zenon
    <3>x. PICK x \in Positive : x = 2^k BY PowerStep, Zenon DEF Positive
    <3>y. PICK y : y = 2^(W - (p.bits + 1)) BY Zenon
    <3>3. y = x * z
      <4>1. W - n \in Nat BY <1>0, SMTT(30)
      <4>2. k + (W - n) = W - (p.bits + 1) BY <1>0, <3>1, <3>2, SMTT(30)
      <4>3. 2^(k + (W - n)) = 2^k * 2^(W - n) BY <4>1, PowerSum, ZenonT(60)
      <4> QED BY <1>z, <3>x, <3>y, <4>2, <4>3, ZenonT(60)
    <3>4. w + y \in Nat /\ AddressOf(w) = l.addr /\ AddressOf(w + y) = r.addr
      BY <2>1, <3>2, <3>l, <3>r, <3>y, HalvesAsNumbers, ZenonT(60)
    <3>5. Clean(l) /\ Clean(r) /\ l.bits + k = n /\ r.bits + k = n
      BY <2>1, <3>2, <3>l, <3>r, CleanHalves, ZenonT(60)
    <3>6. l \in Prefix /\ r \in Prefix BY <3>5, Zenon DEF Clean
    <3>7. Blocks(w, x) = FreeBlocks(l, {}, n) /\ Blocks(w + y, x) = FreeBlocks(r, {}, n)
      <4> HIDE DEF Blocks
      <4> QED BY <1>2, <3>x, <3>4, <3>5, <3>6, ZenonT(60)
    <3>8. \A i \in 0 .. x - 1 : Block(w + y, i) = Block(w, x + i)
      <4>1. \A i \in 0 .. x - 1 : (w + y) + i * z = w + (x + i) * z
        BY <3>3, SMTT(30) DEF Positive
      <4> QED BY <4>1, Zenon
    <3>9. Blocks(w, 2 * x) = Blocks(w, x) \cup Blocks(w + y, x)
      <4>1. /\ \A i \in 0 .. x - 1 : i \in 0 .. 2 * x - 1 /\ x + i \in 0 .. 2 * x - 1
            /\ \A i \in 0 .. 2 * x - 1 :
                  i \in 0 .. x - 1 \/ (i - x \in 0 .. x - 1 /\ x + (i - x) = i)
        BY SMTT(30) DEF Positive
      <4> HIDE DEF Block
      <4>2. ASSUME NEW b \in Blocks(w, 2 * x) PROVE b \in Blocks(w, x) \/ b \in Blocks(w + y, x)
        <5>1. PICK i \in 0 .. 2 * x - 1 : b = Block(w, i) BY <4>2, Zenon
        <5>2. CASE i \in 0 .. x - 1 BY <5>1, <5>2, ZenonT(60)
        <5>3. CASE i - x \in 0 .. x - 1 /\ x + (i - x) = i
          <6>1. Block(w + y, i - x) = Block(w, x + (i - x)) BY <3>8, <5>3, ZenonT(60)
          <6>2. b = Block(w + y, i - x) BY <5>1, <5>3, <6>1, ZenonT(60)
          <6> QED BY <5>3, <6>2, ZenonT(60)
        <5> QED BY <4>1, <5>2, <5>3, SMTT(30)
      <4>3. Blocks(w, x) \subseteq Blocks(w, 2 * x) BY <4>1, Zenon
      <4>4. ASSUME NEW b \in Blocks(w + y, x) PROVE b \in Blocks(w, 2 * x)
        <5>1. PICK i \in 0 .. x - 1 : b = Block(w + y, i) BY <4>4, Zenon
        <5>2. b = Block(w, x + i) BY <3>8, <5>1, ZenonT(60)
        <5>3. x + i \in 0 .. 2 * x - 1 BY <4>1, ZenonT(60)
        <5> QED BY <5>2, <5>3, ZenonT(60)
      <4> HIDE DEF Blocks
      <4> QED BY <4>2, <4>3, <4>4, ZenonT(60)
    <3>10. 2^(k + 1) = 2 * x BY <3>x, PowerStep, ZenonT(60)
    <3>11. FreeBlocks(p, {}, n) = FreeBlocks(l, {}, n) \cup FreeBlocks(r, {}, n)
      BY <2>1, <3>2, <3>l, <3>r, FreeInHalves, SMTT(30)
    <3> HIDE DEF Blocks
    <3> QED BY <3>7, <3>9, <3>10, <3>11, ZenonT(60)
  <2>2. k + 1 \in Nat BY SMTT(30)
  <2> HIDE DEF Blocks
  <2> QED BY <2>1, <2>2, Zenon
<1>3. n - c.bits \in Nat /\ c.bits + (n - c.bits) = n
  BY <1>0, PrefixIs, SMTT(30) DEF Clean
<1>4. n - c.bits \in S
  <2> HIDE DEF S
  <2> QED BY <1>1, <1>2, <1>3, SetInduction, ZenonT(60)
<1>5. Blocks(v, 2^(n - c.bits)) = FreeBlocks(c, {}, n)
  <2>1. c \in Prefix BY Zenon DEF Clean
  <2> HIDE DEF Blocks
  <2> QED BY <1>3, <1>4, <2>1, ZenonT(60)
<1> QED BY <1>z, <1>5, Zenon

\* prefixAtIndex maps the indices within range onto the blocks of the parent.
LEMMA PrefixAtIndexIs ==
  ASSUME NEW n \in 0 .. W, NEW c, Clean(c), c.bits <= n
  PROVE  {PrefixAtIndex(c, n, i) : i \in 0 .. 2^(n - c.bits) - 1} = FreeBlocks(c, {}, n)
<1>1. c.addr \in Address BY PrefixIs, Zenon DEF Clean
<1>2. PICK v \in Nat : v = Value(c.addr) /\ AddressOf(v) = c.addr BY <1>1, ValueIs, ZenonT(60)
<1>3. Masked(c) = c BY MaskedClean, Zenon
<1>4. \A i : PrefixAtIndex(c, n, i) =
               Masked([addr |-> AddressOf(v + i * 2^(W - n)), bits |-> n])
  BY <1>2, <1>3, ZenonT(60) DEF PrefixAtIndex
<1>5. {Masked([addr |-> AddressOf(v + i * 2^(W - n)), bits |-> n]) :
          i \in 0 .. 2^(n - c.bits) - 1} = FreeBlocks(c, {}, n)
  BY <1>2, AtIndex, ZenonT(60)
<1> QED BY <1>4, <1>5, Zenon

-----------------------------------------------------------------------------
(***************************************************************************)
(* The choice: freePrefixAt descends like freePrefixCount, so that the     *)
(* indices below the count of the lower half are choices in that half, and *)
(* the others choices in the upper half.                                   *)
(***************************************************************************)

\* A step of freePrefixAt, with g for the recursive calls.
ChoiceOf(g, q) ==
    LET candidate == q[1][1]
        bits   == q[1][3]
        below  == Descendants(candidate, q[1][2])
        halves == Split(candidate)
        left   == FreePrefixCount[<<halves[1], below, bits>>]
    IN  IF below = {} THEN PrefixAtIndex(candidate, bits, q[2])
        ELSE IF q[2] < left THEN g[<<<<halves[1], below, bits>>, q[2]>>]
        ELSE g[<<<<halves[2], below, bits>>, q[2] - left>>]

\* The counts are natural numbers, for candidates with host bits too.
LEMMA CountType ==
  ASSUME NEW q \in Question
  PROVE  FreePrefixCount[q] \in Nat
<1>0. W \in Nat BY WidthAssumption, Zenon
<1>bits. \A r \in Question : r[1].bits \in 0 .. W BY SMTT(30) DEF Question, Prefix
<1> DEFINE S == {k \in Nat : \A r \in Question : r[1].bits + k >= W => FreePrefixCount[r] \in Nat}
<1>1. ASSUME NEW r \in Question, Descendants(r[1], r[2]) = {} \/ r[1].bits = r[3]
      PROVE  FreePrefixCount[r] \in Nat
  <2>1. r[3] - r[1].bits \in Nat BY <1>0, SMTT(30) DEF Question, Prefix
  <2>2. 2^(r[3] - r[1].bits) \in Nat BY <2>1, PowerStep, ZenonT(60)
  <2>3. 0 \in Nat BY SMTT(30)
  <2>4. CountOf(FreePrefixCount, r) \in Nat BY <1>1, <2>2, <2>3, ZenonT(60) DEF CountOf
  <2> QED BY <2>4, CountEquation, ZenonT(60)
<1>2. 0 \in S
  <2>1. ASSUME NEW r \in Question, r[1].bits + 0 >= W PROVE FreePrefixCount[r] \in Nat
    <3>1. r[1].bits = r[3] BY <1>0, <2>1, SMTT(30) DEF Question, Prefix
    <3> QED BY <1>1, <3>1, ZenonT(60)
  <2>2. 0 \in Nat BY SMTT(30)
  <2> QED BY <2>1, <2>2, ZenonT(60)
<1>3. ASSUME NEW k \in Nat, k \in S PROVE k + 1 \in S
  <2>1. ASSUME NEW r \in Question, r[1].bits + (k + 1) >= W PROVE FreePrefixCount[r] \in Nat
    <3>d. PICK D : D = Descendants(r[1], r[2]) BY Zenon
    <3>1. CASE D = {} \/ r[1].bits = r[3] BY <1>1, <3>d, <3>1, ZenonT(60)
    <3>2. CASE ~(D = {} \/ r[1].bits = r[3])
      <4>l. PICK l \in Question : l = <<Split(r[1])[1], D, r[3]>> /\ Split(r[1])[1].bits = r[1].bits + 1
        BY <3>d, <3>2, Smaller, ZenonT(60)
      <4>r. PICK s \in Question : s = <<Split(r[1])[2], D, r[3]>> /\ Split(r[1])[2].bits = r[1].bits + 1
        BY <3>d, <3>2, Smaller, ZenonT(60)
      <4>1. l[1].bits = r[1].bits + 1 /\ s[1].bits = r[1].bits + 1 BY <4>l, <4>r, SMTT(30)
      <4>2. l[1].bits + k >= W /\ s[1].bits + k >= W BY <1>0, <1>bits, <2>1, <4>1, SMTT(30)
      <4>3. FreePrefixCount[l] \in Nat /\ FreePrefixCount[s] \in Nat BY <1>3, <4>2, ZenonT(60)
      <4>4. FreePrefixCount[l] + FreePrefixCount[s] \in Nat /\ 0 \in Nat BY <4>3, SMTT(30)
      <4>5. \/ CountOf(FreePrefixCount, r) = 0
            \/ CountOf(FreePrefixCount, r) = FreePrefixCount[l] + FreePrefixCount[s]
        BY <3>d, <3>2, <4>l, <4>r, SMTT(30) DEF CountOf
      <4> QED BY <4>4, <4>5, CountEquation, ZenonT(60)
    <3> QED BY <3>1, <3>2, ZenonT(60)
  <2>2. k + 1 \in Nat BY SMTT(30)
  <2> QED BY <2>1, <2>2, ZenonT(60)
<1>4. W \in S
  <2> HIDE DEF S
  <2> QED BY <1>0, <1>2, <1>3, SetInduction, ZenonT(60)
<1>5. q[1].bits + W >= W BY <1>0, <1>bits, SMTT(30)
<1> QED BY <1>4, <1>5, ZenonT(60)

\* A choice that descends is a choice in one of the halves.
LEMMA SmallerChoice ==
  ASSUME NEW q \in Choice, NEW D, D = Descendants(q[1][1], q[1][2]), D # {}
  PROVE  LET l == <<Split(q[1][1])[1], D, q[1][3]>>
             r == <<Split(q[1][1])[2], D, q[1][3]>>
         IN  /\ l \in Question /\ r \in Question
             /\ l[1].bits = q[1][1].bits + 1 /\ r[1].bits = q[1][1].bits + 1
             /\ FreePrefixCount[q[1]] = FreePrefixCount[l] + FreePrefixCount[r]
             /\ FreePrefixCount[l] \in Nat /\ FreePrefixCount[r] \in Nat
             /\ q[2] < FreePrefixCount[l] => <<l, q[2]>> \in Choice
             /\ ~(q[2] < FreePrefixCount[l]) => <<r, q[2] - FreePrefixCount[l]>> \in Choice
<1>1. q[1] \in Question /\ q[2] \in Nat /\ q[2] < FreePrefixCount[q[1]] BY SMTT(30) DEF Choice
<1>2. FreePrefixCount[q[1]] = CountOf(FreePrefixCount, q[1]) BY <1>1, CountEquation, SMTT(30)
<1>3. ~(q[2] < 0) BY <1>1, SMTT(30)
<1>4. CountOf(FreePrefixCount, q[1]) # 0 BY <1>1, <1>2, <1>3, ZenonT(60)
<1>5. /\ q[1][1].bits # q[1][3]
      /\ CountOf(FreePrefixCount, q[1]) = FreePrefixCount[<<Split(q[1][1])[1], D, q[1][3]>>]
                                            + FreePrefixCount[<<Split(q[1][1])[2], D, q[1][3]>>]
  BY <1>4, Zenon DEF CountOf
<1>l. PICK l : l = <<Split(q[1][1])[1], D, q[1][3]>> BY Zenon
<1>r. PICK r : r = <<Split(q[1][1])[2], D, q[1][3]>> BY Zenon
<1>6. /\ l \in Question /\ r \in Question
      /\ Split(q[1][1])[1].bits = q[1][1].bits + 1 /\ Split(q[1][1])[2].bits = q[1][1].bits + 1
  BY <1>l, <1>r, <1>1, <1>5, Smaller, ZenonT(60)
<1>7. l[1] = Split(q[1][1])[1] /\ r[1] = Split(q[1][1])[2] BY <1>l, <1>r, SMTT(30)
<1>8. FreePrefixCount[l] \in Nat /\ FreePrefixCount[r] \in Nat BY <1>6, CountType, ZenonT(60)
<1>9. FreePrefixCount[q[1]] = FreePrefixCount[l] + FreePrefixCount[r]
  BY <1>2, <1>5, <1>l, <1>r, ZenonT(60)
<1>10. q[2] < FreePrefixCount[l] => <<l, q[2]>> \in Choice BY <1>1, <1>6, SMTT(30) DEF Choice
<1>11. ~(q[2] < FreePrefixCount[l]) => <<r, q[2] - FreePrefixCount[l]>> \in Choice
  <2> SUFFICES ASSUME ~(q[2] < FreePrefixCount[l])
               PROVE  <<r, q[2] - FreePrefixCount[l]>> \in Choice
    OBVIOUS
  <2>1. /\ q[2] - FreePrefixCount[l] \in Nat
        /\ q[2] - FreePrefixCount[l] < FreePrefixCount[r]
    BY <1>1, <1>8, <1>9, SMTT(30)
  <2> QED BY <1>6, <2>1, SMTT(30) DEF Choice
<1> QED BY <1>l, <1>r, <1>6, <1>7, <1>8, <1>9, <1>10, <1>11, SMTT(30)

\* The equation of the choice asks only for candidates with one bit more.
LEMMA ChoiceLocal ==
  ASSUME NEW g, NEW h, NEW q \in Choice,
         \A r \in Choice : r[1][1].bits = q[1][1].bits + 1 => g[r] = h[r]
  PROVE  ChoiceOf(g, q) = ChoiceOf(h, q)
<1>d. PICK D : D = Descendants(q[1][1], q[1][2]) BY Zenon
<1>l. PICK l : l = <<Split(q[1][1])[1], D, q[1][3]>> BY Zenon
<1>r. PICK r : r = <<Split(q[1][1])[2], D, q[1][3]>> BY Zenon
<1>n. PICK n : n = FreePrefixCount[l] BY Zenon
<1>1. \A f : ChoiceOf(f, q) = IF D = {} THEN PrefixAtIndex(q[1][1], q[1][3], q[2])
                              ELSE IF q[2] < n THEN f[<<l, q[2]>>] ELSE f[<<r, q[2] - n>>]
  BY <1>d, <1>l, <1>r, <1>n, ZenonT(60) DEF ChoiceOf
<1>2. CASE D = {} BY <1>1, <1>2, ZenonT(60)
<1>3. CASE D # {}
  <2>1. /\ l[1].bits = q[1][1].bits + 1 /\ r[1].bits = q[1][1].bits + 1
        /\ q[2] < n => <<l, q[2]>> \in Choice
        /\ ~(q[2] < n) => <<r, q[2] - n>> \in Choice
    BY <1>d, <1>l, <1>r, <1>n, <1>3, SmallerChoice, ZenonT(60)
  <2>2. <<l, q[2]>>[1] = l /\ <<r, q[2] - n>>[1] = r BY SMTT(30)
  <2>3. CASE q[2] < n
    <3>1. g[<<l, q[2]>>] = h[<<l, q[2]>>] BY <2>1, <2>2, <2>3, ZenonT(60)
    <3> QED BY <1>1, <1>3, <2>3, <3>1, ZenonT(60)
  <2>4. CASE ~(q[2] < n)
    <3>1. g[<<r, q[2] - n>>] = h[<<r, q[2] - n>>] BY <2>1, <2>2, <2>4, ZenonT(60)
    <3> QED BY <1>1, <1>3, <2>4, <3>1, ZenonT(60)
  <2> QED BY <2>3, <2>4, ZenonT(60)
<1> QED BY <1>2, <1>3, Zenon

\* freePrefixAt is what its body says, on every index below the count.
LEMMA ChoiceEquation ==
  ASSUME NEW q \in Choice
  PROVE  FreePrefixAt[q] = ChoiceOf(FreePrefixAt, q)
<1>0. W \in Nat BY WidthAssumption, Zenon
<1>bits. \A r \in Choice : r[1][1].bits \in 0 .. W
  <2>1. \A r \in Question : r[1].bits \in 0 .. W BY SMTT(30) DEF Question, Prefix
  <2>2. \A r \in Choice : r[1] \in Question BY SMTT(30) DEF Choice
  <2> QED BY <2>1, <2>2, ZenonT(60)
<1> DEFINE Solves(g, n) == \A r \in Choice : r[1][1].bits + n > W => g[r] = ChoiceOf(g, r)
           S == {n \in Nat : \E g : g = [r \in Choice |-> g[r]] /\ Solves(g, n)}
<1>1. 0 \in S
  <2> DEFINE g == [r \in Choice |-> 0]
  <2>1. g = [r \in Choice |-> g[r]] BY Zenon
  <2>2. \A r \in Choice : ~(r[1][1].bits + 0 > W) BY <1>0, <1>bits, SMTT(30)
  <2>3. Solves(g, 0) BY <2>2, ZenonT(60)
  <2>4. 0 \in Nat BY SMTT(30)
  <2> HIDE DEF g, Solves
  <2> QED BY <2>1, <2>3, <2>4, ZenonT(60)
<1>2. ASSUME NEW n \in Nat, n \in S PROVE n + 1 \in S
  <2>1. PICK g : g = [r \in Choice |-> g[r]] /\ Solves(g, n) BY <1>2, Zenon
  <2> DEFINE h == [r \in Choice |-> IF r[1][1].bits + n > W THEN g[r] ELSE ChoiceOf(g, r)]
  <2>2. \A r \in Choice : h[r] = IF r[1][1].bits + n > W THEN g[r] ELSE ChoiceOf(g, r) BY Zenon
  <2>3. h = [r \in Choice |-> h[r]] BY ZenonT(60)
  <2> HIDE DEF h
  <2>4. ASSUME NEW r \in Choice, r[1][1].bits + (n + 1) > W PROVE h[r] = ChoiceOf(h, r)
    <3>1. \A s \in Choice : s[1][1].bits = r[1][1].bits + 1 => s[1][1].bits + n > W
      BY <1>0, <1>bits, <2>4, SMTT(30)
    <3>2. \A s \in Choice : s[1][1].bits = r[1][1].bits + 1 => g[s] = h[s]
      BY <2>2, <3>1, ZenonT(60)
    <3>3. ChoiceOf(g, r) = ChoiceOf(h, r) BY <3>2, ChoiceLocal, ZenonT(60)
    <3>4. h[r] = ChoiceOf(g, r) BY <2>1, <2>2, ZenonT(60)
    <3> QED BY <3>3, <3>4, Zenon
  <2>5. Solves(h, n + 1) BY <2>4, ZenonT(60)
  <2>6. n + 1 \in Nat BY SMTT(30)
  <2> HIDE DEF Solves
  <2> QED BY <2>3, <2>5, <2>6, Zenon
<1>3. W + 1 \in S
  <2>1. W + 1 \in Nat BY <1>0, SMTT(30)
  <2> HIDE DEF S
  <2> QED BY <1>1, <1>2, <2>1, SetInduction, Zenon
<1>4. PICK g : g = [r \in Choice |-> g[r]] /\ Solves(g, W + 1) BY <1>3, ZenonT(60)
<1>5. \A r \in Choice : g[r] = ChoiceOf(g, r)
  <2>1. \A r \in Choice : r[1][1].bits + (W + 1) > W BY <1>0, <1>bits, SMTT(30)
  <2> QED BY <1>4, <2>1, ZenonT(60)
<1>6. g = [r \in Choice |-> ChoiceOf(g, r)] BY <1>4, <1>5, ZenonT(60)
<1>7. FreePrefixAt = CHOOSE f : f = [r \in Choice |-> ChoiceOf(f, r)]
  BY ZenonT(60) DEF FreePrefixAt, ChoiceOf
<1>8. FreePrefixAt = [r \in Choice |-> ChoiceOf(FreePrefixAt, r)]
  BY <1>6, <1>7, Zenon
<1> HIDE DEF Solves, S
<1> QED BY <1>8, Zenon

\* The cases of the choice.
LEMMA ChoiceCases ==
  ASSUME NEW c \in Prefix, NEW U \in SUBSET Prefix, NEW n \in 0 .. W, c.bits <= n,
         NEW i \in 0 .. FreePrefixCount[<<c, U, n>>] - 1
  PROVE  FreePrefixAt[<<<<c, U, n>>, i>>] =
           IF Descendants(c, U) = {} THEN PrefixAtIndex(c, n, i)
           ELSE IF i < FreePrefixCount[<<Split(c)[1], Descendants(c, U), n>>]
             THEN FreePrefixAt[<<<<Split(c)[1], Descendants(c, U), n>>, i>>]
           ELSE FreePrefixAt[<<<<Split(c)[2], Descendants(c, U), n>>,
                               i - FreePrefixCount[<<Split(c)[1], Descendants(c, U), n>>]>>]
<1>q. PICK q \in Question : q = <<c, U, n>> /\ q[1] = c /\ q[2] = U /\ q[3] = n
  <2>1. <<c, U, n>> \in Question /\ <<c, U, n>>[1] = c /\ <<c, U, n>>[2] = U /\ <<c, U, n>>[3] = n
    BY SMTT(30) DEF Question
  <2> QED BY <2>1, Zenon
<1>p. PICK p : p = <<q, i>> /\ p[1] = q /\ p[2] = i
  <2>1. <<q, i>>[1] = q /\ <<q, i>>[2] = i BY SMTT(30)
  <2> QED BY <2>1, Zenon
<1>1. p \in Choice
  <2>n. PICK N \in Nat : N = FreePrefixCount[q] BY CountType, ZenonT(60)
  <2>1. i \in 0 .. N - 1 BY <1>q, <2>n, ZenonT(60)
  <2>2. i \in Nat /\ i < N BY <2>1, SMTT(30)
  <2> QED BY <1>p, <2>n, <2>2, SMTT(30) DEF Choice
<1>2. FreePrefixAt[p] = ChoiceOf(FreePrefixAt, p) BY <1>1, ChoiceEquation, ZenonT(60)
<1>3. ChoiceOf(FreePrefixAt, p) =
        IF Descendants(c, U) = {} THEN PrefixAtIndex(c, n, i)
        ELSE IF i < FreePrefixCount[<<Split(c)[1], Descendants(c, U), n>>]
          THEN FreePrefixAt[<<<<Split(c)[1], Descendants(c, U), n>>, i>>]
        ELSE FreePrefixAt[<<<<Split(c)[2], Descendants(c, U), n>>,
                            i - FreePrefixCount[<<Split(c)[1], Descendants(c, U), n>>]>>]
  BY <1>q, <1>p, ZenonT(60) DEF ChoiceOf
<1> QED BY <1>q, <1>p, <1>2, <1>3, ZenonT(60)

\* The choice in a candidate with nothing in use below it.
LEMMA ChoiceInAll ==
  ASSUME NEW c \in Prefix, NEW U \in SUBSET Prefix, NEW n \in 0 .. W, c.bits <= n,
         Descendants(c, U) = {}, NEW i \in 0 .. FreePrefixCount[<<c, U, n>>] - 1
  PROVE  FreePrefixAt[<<<<c, U, n>>, i>>] = PrefixAtIndex(c, n, i)
  BY ChoiceCases, Zenon

\* The choice in a candidate with blocks in use below it.
LEMMA ChoiceInHalf ==
  ASSUME NEW c \in Prefix, NEW U \in SUBSET Prefix, NEW n \in 0 .. W, c.bits <= n,
         Descendants(c, U) # {}, NEW i \in 0 .. FreePrefixCount[<<c, U, n>>] - 1
  PROVE  /\ i < FreePrefixCount[<<Split(c)[1], Descendants(c, U), n>>] =>
              FreePrefixAt[<<<<c, U, n>>, i>>] =
                FreePrefixAt[<<<<Split(c)[1], Descendants(c, U), n>>, i>>]
         /\ ~(i < FreePrefixCount[<<Split(c)[1], Descendants(c, U), n>>]) =>
              FreePrefixAt[<<<<c, U, n>>, i>>] =
                FreePrefixAt[<<<<Split(c)[2], Descendants(c, U), n>>,
                               i - FreePrefixCount[<<Split(c)[1], Descendants(c, U), n>>]>>]
  BY ChoiceCases, ZenonT(60)

\* freePrefixAt returns all of the free blocks and nothing else.
LEMMA ChoiceExact ==
  ASSUME NEW n \in 0 .. W, NEW c, Clean(c), c.bits <= n, NEW U \in SUBSET Prefix
  PROVE  {FreePrefixAt[<<<<c, U, n>>, i>>] : i \in 0 .. FreePrefixCount[<<c, U, n>>] - 1}
           = FreeBlocks(c, U, n)
<1> DEFINE At(q, i) == FreePrefixAt[<<q, i>>]
           All(q) == {At(q, i) : i \in 0 .. FreePrefixCount[q] - 1}
           S == {k \in Nat : \A p \in Prefix : Clean(p) /\ p.bits + k = n =>
                               \A V \in SUBSET Prefix : All(<<p, V, n>>) = FreeBlocks(p, V, n)}
<1>0. W \in Nat BY WidthAssumption, Zenon
<1>1. ASSUME NEW p, Clean(p), p.bits <= n, NEW V \in SUBSET Prefix,
             Blocked(p, V) \/ p.bits = n \/ Descendants(p, V) = {}
      PROVE  All(<<p, V, n>>) = FreeBlocks(p, V, n)
  <2>d. PICK D : D = Descendants(p, V) BY Zenon
  <2>q. PICK q : q = <<p, V, n>> BY ZenonT(60)
  <2>0. p \in Prefix BY <1>1, Zenon DEF Clean
  <2>1. CASE Blocked(p, V) \/ (p.bits = n /\ D # {})
    <3>1. FreePrefixCount[q] = 0 BY <1>1, <2>d, <2>q, <2>0, <2>1, CountCases, ZenonT(60)
    <3>2. FreeBlocks(p, V, n) = {} BY <1>1, <2>d, <2>1, NoneFree, Zenon
    <3>3. 0 .. 0 - 1 = {} BY SMTT(30)
    <3>4. 0 .. FreePrefixCount[q] - 1 = {} BY <3>1, <3>3, ZenonT(60)
    <3>5. All(q) = {} BY <3>4, ZenonT(60)
    <3> HIDE DEF All
    <3> QED BY <2>q, <3>2, <3>5, ZenonT(60)
  <2>2. CASE ~Blocked(p, V) /\ D = {}
    <3>1. FreePrefixCount[q] = 2^(n - p.bits)
      BY <1>1, <2>d, <2>q, <2>0, <2>2, CountCases, ZenonT(60)
    <3>2. FreeBlocks(p, V, n) = FreeBlocks(p, D, n)
      BY <1>1, <2>d, <2>0, <2>2, OnlyDescendants, Zenon
    <3>3. ASSUME NEW i \in 0 .. FreePrefixCount[q] - 1 PROVE At(q, i) = PrefixAtIndex(p, n, i)
      <4>1. i \in 0 .. FreePrefixCount[<<p, V, n>>] - 1 BY <2>q, ZenonT(60)
      <4>2. FreePrefixAt[<<<<p, V, n>>, i>>] = PrefixAtIndex(p, n, i)
        BY <1>1, <2>d, <2>0, <2>2, <4>1, ChoiceInAll, ZenonT(60)
      <4> QED BY <2>q, <4>2, ZenonT(60)
    <3>4. {PrefixAtIndex(p, n, i) : i \in 0 .. 2^(n - p.bits) - 1} = FreeBlocks(p, {}, n)
      BY <1>1, PrefixAtIndexIs, ZenonT(60)
    <3>5. All(q) = FreeBlocks(p, {}, n)
      <4> HIDE DEF At
      <4> QED BY <3>1, <3>3, <3>4, SMTT(30)
    <3> HIDE DEF All
    <3> QED BY <2>q, <2>2, <3>2, <3>5, SMTT(30)
  <2> QED BY <1>1, <2>d, <2>1, <2>2, ZenonT(60)
<1>2. 0 \in S
  <2>1. ASSUME NEW p \in Prefix, Clean(p), p.bits + 0 = n PROVE p.bits = n /\ p.bits <= n
    <3>1. p.bits \in 0 .. W BY PrefixIs, Zenon
    <3> QED BY <1>0, <2>1, <3>1, SMTT(30)
  <2>2. 0 \in Nat BY SMTT(30)
  <2> HIDE DEF All
  <2> QED BY <1>1, <2>1, <2>2, SMTT(30)
<1>3. ASSUME NEW k \in Nat, k \in S PROVE k + 1 \in S
  <2>1. ASSUME NEW p \in Prefix, Clean(p), p.bits + (k + 1) = n, NEW V \in SUBSET Prefix
        PROVE  All(<<p, V, n>>) = FreeBlocks(p, V, n)
    <3>d. PICK D : D = Descendants(p, V) BY ZenonT(60)
    <3>1. p.bits \in 0 .. W BY PrefixIs, Zenon
    <3>2. p.bits <= n /\ (p.bits + 1) + k = n BY <1>0, <2>1, <3>1, SMTT(30)
    <3>3. CASE Blocked(p, V) \/ p.bits = n \/ D = {}
      <4> HIDE DEF All
      <4> QED BY <1>1, <2>1, <3>d, <3>2, <3>3, ZenonT(60)
    <3>4. CASE ~(Blocked(p, V) \/ p.bits = n \/ D = {})
      <4>l. PICK l : l = Split(p)[1] BY Zenon
      <4>r. PICK r : r = Split(p)[2] BY Zenon
      <4>q. PICK q : q = <<p, V, n>> BY Zenon
      <4>ql. PICK ql : ql = <<l, D, n>> BY Zenon
      <4>qr. PICK qr : qr = <<r, D, n>> BY ZenonT(60)
      <4>1. D # {} /\ p.bits # n BY <3>4, Zenon
      <4>2. p.bits < n /\ p.bits < W BY <1>0, <3>1, <3>2, <4>1, SMTT(30)
      <4>3. D \in SUBSET Prefix BY <3>d, Zenon DEF Descendants
      <4>4. FreeBlocks(p, V, n) = FreeBlocks(l, D, n) \cup FreeBlocks(r, D, n)
        <5>1. FreeBlocks(p, V, n) = FreeBlocks(p, D, n)
          BY <3>d, <3>4, OnlyDescendants, Zenon
        <5>2. FreeBlocks(p, D, n) =
                FreeBlocks(Split(p)[1], D, n) \cup FreeBlocks(Split(p)[2], D, n)
          BY <2>1, <4>2, <4>3, FreeInHalves, SMTT(30)
        <5> QED BY <4>l, <4>r, <5>1, <5>2, SMTT(30)
      <4>5. FreePrefixCount[q] = FreePrefixCount[ql] + FreePrefixCount[qr]
        BY <3>d, <3>2, <3>4, <4>l, <4>r, <4>q, <4>ql, <4>qr, CountCases, SMTT(30)
      <4>6. Clean(l) /\ Clean(r) /\ l.bits + k = n /\ r.bits + k = n
        BY <2>1, <3>2, <4>l, <4>r, <4>2, CleanHalves, ZenonT(60)
      <4>7. l \in Prefix /\ r \in Prefix BY <4>6, Zenon DEF Clean
      <4>8. All(ql) = FreeBlocks(l, D, n) /\ All(qr) = FreeBlocks(r, D, n)
        <5> HIDE DEF All
        <5> QED BY <1>3, <4>ql, <4>qr, <4>3, <4>6, <4>7, ZenonT(60)
      <4>9. ql \in Question /\ qr \in Question
        <5>1. l.bits \in 0 .. W /\ r.bits \in 0 .. W BY <4>7, PrefixIs, ZenonT(60)
        <5>2. l.bits <= n /\ r.bits <= n BY <1>0, <4>6, <5>1, SMTT(30)
        <5> QED BY <4>ql, <4>qr, <4>3, <4>7, <5>2, SMTT(30) DEF Question
      <4>x. PICK x \in Nat : x = FreePrefixCount[ql] BY <4>9, CountType, ZenonT(60)
      <4>y. PICK y \in Nat : y = FreePrefixCount[qr] BY <4>9, CountType, ZenonT(60)
      <4>10. ASSUME NEW i \in 0 .. FreePrefixCount[q] - 1
             PROVE  /\ i < x => At(q, i) = At(ql, i)
                    /\ ~(i < x) => At(q, i) = At(qr, i - x)
        <5>1. i \in 0 .. FreePrefixCount[<<p, V, n>>] - 1 BY <4>q, ZenonT(60)
        <5>2. ql = <<Split(p)[1], Descendants(p, V), n>> /\ qr = <<Split(p)[2], Descendants(p, V), n>>
          BY <3>d, <4>l, <4>r, <4>ql, <4>qr, ZenonT(60)
        <5>3. Descendants(p, V) # {} BY <3>d, <4>1, ZenonT(60)
        <5>4. /\ i < FreePrefixCount[<<Split(p)[1], Descendants(p, V), n>>] =>
                   FreePrefixAt[<<<<p, V, n>>, i>>] =
                     FreePrefixAt[<<<<Split(p)[1], Descendants(p, V), n>>, i>>]
              /\ ~(i < FreePrefixCount[<<Split(p)[1], Descendants(p, V), n>>]) =>
                   FreePrefixAt[<<<<p, V, n>>, i>>] =
                     FreePrefixAt[<<<<Split(p)[2], Descendants(p, V), n>>,
                                    i - FreePrefixCount[<<Split(p)[1], Descendants(p, V), n>>]>>]
          BY <3>2, <5>1, <5>3, ChoiceInHalf, ZenonT(60)
        <5> QED BY <4>q, <4>x, <5>2, <5>4, ZenonT(60)
      <4>11. All(q) = {At(q, i) : i \in 0 .. (x + y) - 1} BY <4>5, <4>x, <4>y, SMTT(30)
      <4>12. All(ql) = {At(ql, i) : i \in 0 .. x - 1} /\ All(qr) = {At(qr, i) : i \in 0 .. y - 1}
        BY <4>x, <4>y, ZenonT(60)
      <4>13. /\ \A i \in 0 .. (x + y) - 1 : i < x => At(q, i) = At(ql, i)
             /\ \A i \in 0 .. (x + y) - 1 : ~(i < x) => At(q, i) = At(qr, i - x)
        <5> HIDE DEF At
        <5> QED BY <4>5, <4>x, <4>y, <4>10, ZenonT(60)
      <4>14. /\ \A i \in 0 .. (x + y) - 1 : (i < x /\ i \in 0 .. x - 1)
                                            \/ (~(i < x) /\ i - x \in 0 .. y - 1)
             /\ \A i \in 0 .. x - 1 : i \in 0 .. (x + y) - 1 /\ i < x
             /\ \A i \in 0 .. y - 1 : /\ i + x \in 0 .. (x + y) - 1 /\ ~(i + x < x)
                                      /\ (i + x) - x = i
        BY SMTT(30)
      <4> HIDE DEF At, All
      <4>15. ASSUME NEW b \in All(q) PROVE b \in All(ql) \/ b \in All(qr)
        <5>1. PICK i \in 0 .. (x + y) - 1 : b = At(q, i) BY <4>11, <4>15, ZenonT(60)
        <5>2. CASE i < x /\ i \in 0 .. x - 1
          <6>1. b = At(ql, i) BY <4>13, <5>1, <5>2, ZenonT(60)
          <6> QED BY <4>12, <5>2, <6>1, ZenonT(60)
        <5>3. CASE ~(i < x) /\ i - x \in 0 .. y - 1
          <6>1. b = At(qr, i - x) BY <4>13, <5>1, <5>3, ZenonT(60)
          <6> QED BY <4>12, <5>3, <6>1, ZenonT(60)
        <5> QED BY <4>14, <5>2, <5>3, ZenonT(60)
      <4>16. ASSUME NEW b \in All(ql) PROVE b \in All(q)
        <5>1. PICK i \in 0 .. x - 1 : b = At(ql, i) BY <4>12, <4>16, ZenonT(60)
        <5>2. i \in 0 .. (x + y) - 1 /\ b = At(q, i) BY <4>13, <4>14, <5>1, ZenonT(60)
        <5> QED BY <4>11, <5>2, ZenonT(60)
      <4>17. ASSUME NEW b \in All(qr) PROVE b \in All(q)
        <5>1. PICK i \in 0 .. y - 1 : b = At(qr, i) BY <4>12, <4>17, ZenonT(60)
        <5>2. /\ i + x \in 0 .. (x + y) - 1 /\ ~(i + x < x) /\ (i + x) - x = i BY <4>14, ZenonT(60)
        <5>3. At(q, i + x) = At(qr, (i + x) - x) BY <4>13, <5>2, ZenonT(60)
        <5>4. b = At(q, i + x) BY <5>1, <5>2, <5>3, ZenonT(60)
        <5> QED BY <4>11, <5>2, <5>4, ZenonT(60)
      <4>18. All(q) = All(ql) \cup All(qr) BY <4>15, <4>16, <4>17, ZenonT(60)
      <4> QED BY <4>q, <4>4, <4>8, <4>18, ZenonT(60)
    <3> QED BY <3>3, <3>4, ZenonT(60)
  <2>2. k + 1 \in Nat BY SMTT(30)
  <2> HIDE DEF All
  <2> QED BY <2>1, <2>2, ZenonT(60)
<1>4. n - c.bits \in Nat /\ c.bits + (n - c.bits) = n
  BY <1>0, PrefixIs, SMTT(30) DEF Clean
<1>5. n - c.bits \in S
  <2> HIDE DEF S
  <2> QED BY <1>2, <1>3, <1>4, SetInduction, Zenon
<1>6. All(<<c, U, n>>) = FreeBlocks(c, U, n)
  <2>1. c \in Prefix BY Zenon DEF Clean
  <2> HIDE DEF All
  <2> QED BY <1>4, <1>5, <2>1, ZenonT(60)
<1> QED BY <1>6, ZenonT(60)

-----------------------------------------------------------------------------
(***************************************************************************)
(* The allocator over time.                                                *)
(***************************************************************************)

\* The pool is masked, and the blocks in use are disjoint blocks of it.
Sound ==
    Clean(pool) /\ used \in SUBSET Prefix /\ IsFiniteSet(used) /\ UsedAreDisjoint

\* The sizes that can be asked of a pool are sizes of a prefix.
LEMMA SizesOfPool ==
  ASSUME Clean(pool), NEW n \in pool.bits .. W
  PROVE  n \in 0 .. W /\ pool.bits <= n
<1>1. pool.bits \in 0 .. W BY PrefixIs, ZenonT(60) DEF Clean
<1> QED BY <1>1, WidthAssumption, SMTT(30)

\* The empty pool is sound.
LEMMA SoundInit == Init => Sound
<1> SUFFICES ASSUME Init PROVE Sound OBVIOUS
<1>1. PICK p \in Prefix : pool = Masked(p) BY AllocatorAssumption, ZenonT(60) DEF Init
<1>2. p.addr \in Address /\ p.bits \in 0 .. W /\ p = [addr |-> p.addr, bits |-> p.bits]
  BY PrefixIs, ZenonT(60)
<1>3. pool = Masked([addr |-> p.addr, bits |-> p.bits]) BY <1>1, <1>2, ZenonT(60)
<1>4. pool \in Prefix /\ pool.bits = p.bits
      /\ \A i \in 1 .. W : pool.addr[i] = IF i <= p.bits THEN p.addr[i] ELSE 0
  BY <1>2, <1>3, MaskedIs, ZenonT(60)
<1>5. Clean(pool) BY <1>4, SMTT(30) DEF Clean
<1>6. used = {} BY Zenon DEF Init
<1>7. IsFiniteSet(used) BY <1>6, FS_EmptySet, ZenonT(60)
<1> QED BY <1>5, <1>6, <1>7, ZenonT(60) DEF Sound, UsedAreDisjoint

\* An allocation adds a free block, and a release only removes one.
LEMMA SoundStep == Sound /\ [Next]_vars => Sound'
<1> SUFFICES ASSUME Sound, [Next]_vars PROVE Sound' OBVIOUS
<1>0. Clean(pool) /\ used \in SUBSET Prefix /\ IsFiniteSet(used) /\ UsedAreDisjoint
  BY Zenon DEF Sound
<1>1. ASSUME NEW bits \in 0 .. W, Allocate(bits) PROVE Sound'
  <2>1. PICK index \in 0 .. FreePrefixCount[<<pool, used, bits>>] - 1 :
           used' = used \cup {FreePrefixAt[<<<<pool, used, bits>>, index>>]}
    BY <1>1, Zenon DEF Allocate
  <2>2. bits >= pool.bits /\ pool' = pool BY <1>1, ZenonT(60) DEF Allocate
  <2>3. pool.bits <= bits
    <3>1. pool.bits \in 0 .. W BY <1>0, PrefixIs, ZenonT(60) DEF Clean
    <3> QED BY <2>2, <3>1, WidthAssumption, SMTT(30)
  <2>b. PICK b : b = FreePrefixAt[<<<<pool, used, bits>>, index>>] BY Zenon
  <2>4. b \in FreeBlocks(pool, used, bits)
    <3>1. {FreePrefixAt[<<<<pool, used, bits>>, i>>] :
              i \in 0 .. FreePrefixCount[<<pool, used, bits>>] - 1}
            = FreeBlocks(pool, used, bits)
      BY <1>0, <2>3, ChoiceExact, ZenonT(60)
    <3> QED BY <2>b, <3>1, ZenonT(60)
  <2>5. Clean(b) /\ Inside(b, pool) /\ \A u \in used : ~Overlaps(b, u)
    BY <2>4, FreeBlocksAre, ZenonT(60)
  <2>6. b \in Prefix BY <2>5, Zenon DEF Clean
  <2>7. \A u \in used : ~Overlaps(u, b) BY <2>5, ZenonT(60) DEF Overlaps
  <2>8. used' = used \cup {b} BY <2>1, <2>b, ZenonT(60)
  <2>9. \A x, y \in used' : Inside(x, pool) /\ (x # y => ~Overlaps(x, y))
    <3>1. \A x, y \in used : Inside(x, pool) /\ (x # y => ~Overlaps(x, y))
      BY <1>0, ZenonT(60) DEF UsedAreDisjoint
    <3>2. \A x \in used' : x \in used \/ x = b BY <2>8, ZenonT(60)
    <3>3. \A x \in used' : Inside(x, pool) BY <2>5, <3>1, <3>2, ZenonT(60)
    <3>4. \A x, y \in used' : x # y => ~Overlaps(x, y) BY <2>5, <2>7, <3>1, <3>2, ZenonT(60)
    <3> QED BY <3>3, <3>4, ZenonT(60)
  <2>10. UsedAreDisjoint' BY <2>2, <2>9, ZenonT(60) DEF UsedAreDisjoint
  <2>11. used' \in SUBSET Prefix BY <1>0, <2>6, <2>8, ZenonT(60)
  <2>12. Clean(pool)' BY <1>0, <2>2, ZenonT(60) DEF Clean
  <2>13. IsFiniteSet(used') BY <1>0, <2>8, FS_AddElement, ZenonT(60)
  <2> QED BY <2>10, <2>11, <2>12, <2>13, ZenonT(60) DEF Sound
<1>2. ASSUME NEW block \in used, Release(block) PROVE Sound'
  <2>1. used' = used \ {block} /\ pool' = pool BY <1>2, ZenonT(60) DEF Release
  <2>2. UsedAreDisjoint' BY <1>0, <2>1, ZenonT(60) DEF UsedAreDisjoint
  <2>3. Clean(pool)' BY <1>0, <2>1, ZenonT(60) DEF Clean
  <2>4. IsFiniteSet(used') BY <1>0, <2>1, FS_RemoveElement, ZenonT(60)
  <2> QED BY <1>0, <2>1, <2>2, <2>3, <2>4, ZenonT(60) DEF Sound
<1>3. CASE UNCHANGED vars
  <2>1. used' = used /\ pool' = pool BY <1>3, ZenonT(60) DEF vars
  <2>2. UsedAreDisjoint' BY <1>0, <2>1, ZenonT(60) DEF UsedAreDisjoint
  <2>3. Clean(pool)' BY <1>0, <2>1, ZenonT(60) DEF Clean
  <2> QED BY <1>0, <2>1, <2>2, <2>3, ZenonT(60) DEF Sound
<1> QED BY <1>1, <1>2, <1>3, ZenonT(60) DEF Next

\* The inductive invariant.
LEMMA AlwaysSound == Spec => []Sound
  BY SoundInit, SoundStep, PTL DEF Spec

\* Whatever is allocated and released, in whichever sizes, no two blocks in use
\* overlap and all are parts of the pool: the index that Allocate draws is one
\* of a free block.
THEOREM NoOverlap == Spec => []UsedAreDisjoint
<1>1. Sound => UsedAreDisjoint BY ZenonT(60) DEF Sound
<1> QED BY <1>1, AlwaysSound, PTL

\* freePrefixCount counts the free blocks of every size in every reachable
\* state, for pools and addresses of any width.
THEOREM CountsFreeBlocks == Spec => []CountIsExact
<1>1. Sound => CountIsExact
  <2> SUFFICES ASSUME Sound, NEW bits \in pool.bits .. W
               PROVE  FreePrefixCount[<<pool, used, bits>>] =
                        Cardinality(FreeBlocks(pool, used, bits))
    BY Zenon DEF CountIsExact
  <2>1. Clean(pool) /\ used \in SUBSET Prefix BY Zenon DEF Sound
  <2>2. bits \in 0 .. W /\ pool.bits <= bits BY <2>1, SizesOfPool, ZenonT(60)
  <2> QED BY <2>1, <2>2, CountExact, ZenonT(60)
<1> QED BY <1>1, AlwaysSound, PTL

\* freePrefixAt maps the indices below the count onto the free blocks, so that
\* Allocate returns only free blocks and can return each of them.
THEOREM ChoosesFreeBlocks == Spec => []ChoiceIsExact
<1>1. Sound => ChoiceIsExact
  <2> SUFFICES ASSUME Sound, NEW bits \in pool.bits .. W
               PROVE  {FreePrefixAt[<<<<pool, used, bits>>, i>>] :
                          i \in 0 .. FreePrefixCount[<<pool, used, bits>>] - 1}
                        = FreeBlocks(pool, used, bits)
    BY ZenonT(60) DEF ChoiceIsExact
  <2>1. Clean(pool) /\ used \in SUBSET Prefix BY ZenonT(60) DEF Sound
  <2>2. bits \in 0 .. W /\ pool.bits <= bits BY <2>1, SizesOfPool, Zenon
  <2> QED BY <2>1, <2>2, ChoiceExact, ZenonT(60)
<1> QED BY <1>1, AlwaysSound, PTL

-----------------------------------------------------------------------------
(***************************************************************************)
(* PoolStats.  The space in use is a fold over the blocks, and so is the   *)
(* sum it is compared with; Weigh tells the two apart, so that one lemma   *)
(* gives the equation of both.                                             *)
(***************************************************************************)

Weigh(kind, b, n) == IF kind = "units" THEN AddUnits(b, n) ELSE n + 2^(Unit - b.bits)

Pick(s) == CHOOSE x \in s : TRUE

FoldOf(kind, f, s) ==
    IF s = {} THEN 0 ELSE Weigh(kind, Pick(s), f[s \ {Pick(s)}])

Folded(kind, S) == CHOOSE f : f = [s \in SUBSET S |-> FoldOf(kind, f, s)]

\* The folds of the model are those of Folded.
LEMMA FoldsAre ==
  ASSUME NEW S
  PROVE  /\ FoldSet(AddUnits, 0, S) = Folded("units", S)[S]
         /\ FoldSet(LAMBDA b, n : n + 2^(Unit - b.bits), 0, S) = Folded("sum", S)[S]
<1>1. FoldSet(AddUnits, 0, S) = Folded("units", S)[S]
  BY Zenon DEF FoldSet, MapThenFoldSet, Folded, FoldOf, Weigh, Pick
<1>2. FoldSet(LAMBDA b, n : n + 2^(Unit - b.bits), 0, S) = Folded("sum", S)[S]
  BY Zenon DEF FoldSet, MapThenFoldSet, Folded, FoldOf, Weigh, Pick
<1> QED BY <1>1, <1>2, ZenonT(60)

\* The member that a fold takes next, and the rest.
LEMMA Picked ==
  ASSUME NEW S, IsFiniteSet(S), NEW s \in SUBSET S, s # {}
  PROVE  /\ Pick(s) \in s /\ s \ {Pick(s)} \in SUBSET S
         /\ Cardinality(s) \in Nat /\ Cardinality(s \ {Pick(s)}) + 1 = Cardinality(s)
<1>x. PICK x : x = Pick(s) BY Zenon
<1>1. x \in s BY <1>x, Zenon DEF Pick
<1>2. IsFiniteSet(s) /\ Cardinality(s) \in Nat BY FS_Subset, FS_CardinalityType, ZenonT(60)
<1>3. /\ IsFiniteSet(s \ {x})
      /\ Cardinality(s \ {x}) = IF x \in s THEN Cardinality(s) - 1 ELSE Cardinality(s)
  BY <1>2, FS_RemoveElement, ZenonT(60)
<1>4. Cardinality(s \ {x}) = Cardinality(s) - 1 BY <1>1, <1>3, ZenonT(60)
<1>5. Cardinality(s \ {x}) + 1 = Cardinality(s) BY <1>2, <1>4, SMTT(30)
<1>6. s \ {x} \in SUBSET S BY Zenon
<1> QED BY <1>x, <1>1, <1>2, <1>5, <1>6, SMTT(30)

\* A fold over a set is the fold over the rest, and one member more.
LEMMA FoldEquation ==
  ASSUME NEW kind, NEW S, IsFiniteSet(S), NEW t \in SUBSET S
  PROVE  Folded(kind, S)[t] = FoldOf(kind, Folded(kind, S), t)
<1> DEFINE Solves(g, n) == \A s \in SUBSET S : Cardinality(s) < n => g[s] = FoldOf(kind, g, s)
           N == {n \in Nat : \E g : g = [s \in SUBSET S |-> g[s]] /\ Solves(g, n)}
<1>c. \A s \in SUBSET S : Cardinality(s) \in Nat BY FS_Subset, FS_CardinalityType, ZenonT(60)
<1>1. 0 \in N
  <2> DEFINE g == [s \in SUBSET S |-> 0]
  <2>1. g = [s \in SUBSET S |-> g[s]] BY ZenonT(60)
  <2>2. \A s \in SUBSET S : ~(Cardinality(s) < 0) BY <1>c, SMTT(30)
  <2>3. Solves(g, 0) BY <2>2, ZenonT(60)
  <2>4. 0 \in Nat BY SMTT(30)
  <2> HIDE DEF g, Solves
  <2> QED BY <2>1, <2>3, <2>4, ZenonT(60)
<1>2. ASSUME NEW n \in Nat, n \in N PROVE n + 1 \in N
  <2>1. PICK g : g = [s \in SUBSET S |-> g[s]] /\ Solves(g, n) BY <1>2, ZenonT(60)
  <2> DEFINE h == [s \in SUBSET S |-> IF Cardinality(s) < n THEN g[s] ELSE FoldOf(kind, g, s)]
  <2>2. \A s \in SUBSET S : h[s] = IF Cardinality(s) < n THEN g[s] ELSE FoldOf(kind, g, s)
    BY Zenon
  <2>3. h = [s \in SUBSET S |-> h[s]] BY Zenon
  <2> HIDE DEF h
  <2>4. ASSUME NEW s \in SUBSET S, Cardinality(s) < n + 1 PROVE h[s] = FoldOf(kind, h, s)
    <3>1. h[s] = FoldOf(kind, g, s) BY <2>1, <2>2, ZenonT(60)
    <3>2. CASE s = {} BY <3>1, <3>2, ZenonT(60) DEF FoldOf
    <3>3. CASE s # {}
      <4>x. PICK x : x = Pick(s) BY Zenon
      <4>1. /\ s \ {x} \in SUBSET S /\ Cardinality(s) \in Nat
            /\ Cardinality(s \ {x}) + 1 = Cardinality(s)
        BY <3>3, <4>x, Picked, ZenonT(60)
      <4>2. Cardinality(s \ {x}) \in Nat BY <1>c, <4>1, ZenonT(60)
      <4>3. Cardinality(s \ {x}) < n BY <2>4, <4>1, <4>2, SMTT(30)
      <4>4. g[s \ {x}] = h[s \ {x}] BY <2>2, <4>1, <4>3, ZenonT(60)
      <4>5. FoldOf(kind, g, s) = FoldOf(kind, h, s) BY <3>3, <4>x, <4>4, ZenonT(60) DEF FoldOf
      <4> QED BY <3>1, <4>5, ZenonT(60)
    <3> QED BY <3>2, <3>3, ZenonT(60)
  <2>5. Solves(h, n + 1) BY <2>4, ZenonT(60)
  <2>6. n + 1 \in Nat BY SMTT(30)
  <2> HIDE DEF Solves
  <2> QED BY <2>3, <2>5, <2>6, ZenonT(60)
<1>3. Cardinality(S) + 1 \in N
  <2>1. Cardinality(S) \in Nat BY FS_CardinalityType, ZenonT(60)
  <2>2. Cardinality(S) + 1 \in Nat BY <2>1, SMTT(30)
  <2> HIDE DEF N
  <2> QED BY <1>1, <1>2, <2>2, SetInduction, ZenonT(60)
<1>4. PICK g : g = [s \in SUBSET S |-> g[s]] /\ Solves(g, Cardinality(S) + 1) BY <1>3, ZenonT(60)
<1>5. \A s \in SUBSET S : g[s] = FoldOf(kind, g, s)
  <2>1. \A s \in SUBSET S : Cardinality(s) <= Cardinality(S) BY FS_Subset, SMTT(30)
  <2>2. Cardinality(S) \in Nat BY FS_CardinalityType, Zenon
  <2>3. \A s \in SUBSET S : Cardinality(s) < Cardinality(S) + 1 BY <1>c, <2>1, <2>2, SMTT(30)
  <2> QED BY <1>4, <2>3, ZenonT(60)
<1>6. g = [s \in SUBSET S |-> FoldOf(kind, g, s)] BY <1>4, <1>5, ZenonT(60)
<1>7. Folded(kind, S) = [s \in SUBSET S |-> FoldOf(kind, Folded(kind, S), s)]
  BY <1>6, ZenonT(60) DEF Folded
<1> HIDE DEF Solves, N
<1> QED BY <1>7, ZenonT(60)

\* The blocks that PoolStats counts, and what it counts for one.
Counted(s) == {b \in s : b.bits <= Unit}
Weight(b)  == 2^(Unit - b.bits)

\* The units of a block are a positive number.
LEMMA WeightIs ==
  ASSUME NEW b \in Prefix, b.bits <= Unit
  PROVE  Unit - b.bits \in Nat /\ Weight(b) \in Nat \ {0}
<1>1. b.bits \in 0 .. W BY PrefixIs, ZenonT(60)
<1>2. Unit - b.bits \in Nat BY <1>1, AllocatorAssumption, WidthAssumption, SMTT(30)
<1> QED BY <1>2, PowerStep, SMTT(30) DEF Weight

\* The sum does not depend on the order in which the blocks are added.
LEMMA SumOfBlocks ==
  ASSUME NEW S \in SUBSET Prefix, IsFiniteSet(S), \A b \in S : b.bits <= Unit,
         NEW f, f = Folded("sum", S)
  PROVE  \A s \in SUBSET S : /\ f[s] \in Nat
                             /\ s = {} => f[s] = 0
                             /\ \A x \in s : f[s] = f[s \ {x}] + Weight(x)
<1>w. \A b \in S : Weight(b) \in Nat BY WeightIs, ZenonT(60)
<1>c. \A s \in SUBSET S : IsFiniteSet(s) /\ Cardinality(s) \in Nat
  BY FS_Subset, FS_CardinalityType, SMTT(30)
<1>1. \A s \in SUBSET S : s = {} => f[s] = 0 BY FoldEquation, ZenonT(60) DEF FoldOf
<1>2. \A s \in SUBSET S : s # {} => f[s] = f[s \ {Pick(s)}] + Weight(Pick(s))
  <2>1. ASSUME NEW s \in SUBSET S, s # {} PROVE f[s] = Weigh("sum", Pick(s), f[s \ {Pick(s)}])
    <3>1. f[s] = FoldOf("sum", f, s) BY FoldEquation, ZenonT(60)
    <3> QED BY <2>1, <3>1, ZenonT(60) DEF FoldOf
  <2>2. \A b, n : Weigh("sum", b, n) = n + Weight(b) BY SMTT(30) DEF Weigh, Weight
  <2> QED BY <2>1, <2>2, ZenonT(60)
<1>3. \A s \in SUBSET S : s # {} => /\ Pick(s) \in s /\ s \ {Pick(s)} \in SUBSET S
                                    /\ Cardinality(s \ {Pick(s)}) + 1 = Cardinality(s)
  BY Picked, ZenonT(60)
<1>4. \A s \in SUBSET S : Cardinality(s) = 0 => s = {} BY <1>c, FS_EmptySet, ZenonT(60)
<1>t. ASSUME NEW s \in SUBSET S PROVE f[s] \in Nat
  <2> DEFINE T == {n \in Nat : \A r \in SUBSET S : Cardinality(r) = n => f[r] \in Nat}
  <2>0. 0 \in Nat BY SMTT(30)
  <2>1. 0 \in T BY <1>1, <1>4, <2>0, ZenonT(60)
  <2>2. ASSUME NEW n \in Nat, n \in T PROVE n + 1 \in T
    <3>1. ASSUME NEW r \in SUBSET S, Cardinality(r) = n + 1 PROVE f[r] \in Nat
      <4>1. CASE r = {} BY <1>1, <2>0, <4>1, ZenonT(60)
      <4>2. CASE r # {}
        <5>p. PICK p \in S : p = Pick(r) BY <1>3, <4>2, ZenonT(60)
        <5>1. r \ {p} \in SUBSET S /\ Cardinality(r \ {p}) + 1 = n + 1
          BY <1>3, <3>1, <4>2, <5>p, SMTT(30)
        <5>2. Cardinality(r \ {p}) \in Nat BY <1>c, <5>1, SMTT(30)
        <5>3. Cardinality(r \ {p}) = n BY <5>1, <5>2, SMTT(30)
        <5>4. f[r \ {p}] \in Nat /\ Weight(p) \in Nat BY <1>w, <2>2, <5>1, <5>3, SMTT(30)
        <5>5. f[r \ {p}] + Weight(p) \in Nat BY <5>4, SMTT(30)
        <5> QED BY <1>2, <4>2, <5>p, <5>5, ZenonT(60)
      <4> QED BY <4>1, <4>2, ZenonT(60)
    <3>2. n + 1 \in Nat BY SMTT(30)
    <3> QED BY <3>1, <3>2, ZenonT(60)
  <2>3. Cardinality(s) \in T
    <3> HIDE DEF T
    <3> QED BY <1>c, <2>1, <2>2, SetInduction, SMTT(30)
  <2> QED BY <2>3, ZenonT(60)
<1> DEFINE Right(s) == \A x \in s : f[s] = f[s \ {x}] + Weight(x)
           N == {n \in Nat : \A s \in SUBSET S : Cardinality(s) = n => Right(s)}
<1>5. 0 \in N
  <2>1. 0 \in Nat BY SMTT(30)
  <2>2. ASSUME NEW s \in SUBSET S, Cardinality(s) = 0 PROVE Right(s)
    BY <1>1, <1>4, <2>1, <2>2, SMTT(30)
  <2> HIDE DEF Right
  <2> QED BY <2>1, <2>2, SMTT(30)
<1>6. ASSUME NEW n \in Nat, n \in N PROVE n + 1 \in N
  <2>1. ASSUME NEW s \in SUBSET S, Cardinality(s) = n + 1 PROVE Right(s)
    <3>0. s # {}
      <4>1. Cardinality({}) = 0 BY FS_EmptySet, ZenonT(60)
      <4>2. n + 1 # 0 BY SMTT(30)
      <4> QED BY <2>1, <4>1, <4>2, SMTT(30)
    <3>p. PICK p \in s : p = Pick(s) BY <1>3, <3>0, SMTT(30)
    <3>1. ASSUME NEW x \in s PROVE s \ {x} \in SUBSET S /\ Right(s \ {x})
      <4>1. Cardinality(s \ {x}) = IF x \in s THEN Cardinality(s) - 1 ELSE Cardinality(s)
        BY <1>c, FS_RemoveElement, SMTT(30)
      <4>2. Cardinality(s \ {x}) = Cardinality(s) - 1 BY <4>1, SMTT(30)
      <4>3. Cardinality(s \ {x}) = n BY <2>1, <4>2, SMTT(30)
      <4>4. s \ {x} \in SUBSET S BY ZenonT(60)
      <4> HIDE DEF Right
      <4> QED BY <1>6, <4>3, <4>4, SMTT(30)
    <3>2. f[s] = f[s \ {p}] + Weight(p) BY <1>2, <3>0, <3>p, SMTT(30)
    <3>3. f[s \ {p}] \in Nat /\ Weight(p) \in Nat BY <1>t, <1>w, <3>1, SMTT(30)
    <3>5. ASSUME NEW x \in s, x # p PROVE f[s] = f[s \ {x}] + Weight(x)
      <4>t. PICK t : t = (s \ {p}) \ {x} BY Zenon
      <4>1. t = (s \ {x}) \ {p} BY <4>t, ZenonT(60)
      <4>2. f[s \ {p}] = f[t] + Weight(x) BY <3>1, <3>5, <4>t, ZenonT(60)
      <4>3. f[s \ {x}] = f[t] + Weight(p) BY <3>1, <3>5, <4>1, ZenonT(60)
      <4>4. f[t] \in Nat
        <5>1. t \in SUBSET S BY <4>t, ZenonT(60)
        <5> QED BY <1>t, <5>1, ZenonT(60)
      <4>5. Weight(x) \in Nat BY <1>w, ZenonT(60)
      <4> QED BY <3>2, <3>3, <4>2, <4>3, <4>4, <4>5, SMTT(30)
    <3> QED BY <3>2, <3>5, ZenonT(60)
  <2>2. n + 1 \in Nat BY SMTT(30)
  <2> HIDE DEF Right
  <2> QED BY <2>1, <2>2, ZenonT(60)
<1>7. ASSUME NEW s \in SUBSET S PROVE Right(s)
  <2> HIDE DEF Right
  <2>1. Cardinality(s) \in N
    <3> HIDE DEF N
    <3> QED BY <1>c, <1>5, <1>6, SetInduction, ZenonT(60)
  <2> QED BY <2>1, ZenonT(60)
<1> QED BY <1>1, <1>t, <1>7, SMTT(30)

\* The largest number of Unit bits at most.
Capped(n) == IF n < Saturated THEN n ELSE Saturated

\* The largest number of Unit bits.
LEMMA SaturatedIs == Saturated \in Nat /\ Saturated + 1 = 2^Unit
<1>1. Unit \in Nat BY AllocatorAssumption, WidthAssumption, SMTT(30)
<1>2. PICK x \in Positive : x = 2^Unit BY <1>1, PowerStep, ZenonT(60) DEF Positive
<1>3. x - 1 \in Nat /\ (x - 1) + 1 = x BY SMTT(30) DEF Positive
<1> QED BY <1>2, <1>3, ZenonT(60) DEF Saturated

\* Capped is the smaller one of a number and the largest.
LEMMA CappedIs ==
  ASSUME NEW n \in Nat
  PROVE  Min({n, Saturated}) = Capped(n)
<1>m. PICK m \in Nat : m = Saturated BY SaturatedIs, ZenonT(60)
<1>1. PICK x \in {n, m} : \A y \in {n, m} : x <= y
  BY SMTT(30)
<1>2. (CHOOSE z \in {n, m} : \A y \in {n, m} : z <= y) \in {n, m}
      /\ \A y \in {n, m} : (CHOOSE z \in {n, m} : \A y1 \in {n, m} : z <= y1) <= y
  BY <1>1, ZenonT(60)
<1>c. PICK c : c = CHOOSE z \in {n, m} : \A y \in {n, m} : z <= y BY ZenonT(60)
<1>3. c \in {n, m} /\ \A y \in {n, m} : c <= y BY <1>c, <1>2, ZenonT(60)
<1>4. c = IF n < m THEN n ELSE m BY <1>3, SMTT(30)
<1>5. Min({n, m}) = c BY <1>c, ZenonT(60) DEF Min
<1> QED BY <1>m, <1>4, <1>5, ZenonT(60) DEF Capped

\* One step of the sum that saturates.
LEMMA AddUnitsCapped ==
  ASSUME NEW b \in Prefix, NEW n \in Nat
  PROVE  /\ b.bits <= Unit => AddUnits(b, Capped(n)) = Capped(n + Weight(b))
         /\ ~(b.bits <= Unit) => AddUnits(b, Capped(n)) = Capped(n)
<1>u. PICK u \in Nat : u = Unit BY AllocatorAssumption, WidthAssumption, SMTT(30)
<1>b. PICK k \in Nat : k = b.bits
  <2>1. b.bits \in 0 .. W BY PrefixIs, ZenonT(60)
  <2>2. b.bits \in Nat BY <2>1, WidthAssumption, SMTT(30)
  <2> QED BY <2>2, ZenonT(60)
<1>m. PICK m \in Nat : m = Saturated /\ m + 1 = 2^u BY <1>u, SaturatedIs, SMTT(30)
<1>c. PICK c \in Nat : c = Capped(n) /\ c = IF n < m THEN n ELSE m
  <2>1. Capped(n) = IF n < m THEN n ELSE m BY <1>m, ZenonT(60) DEF Capped
  <2>2. (IF n < m THEN n ELSE m) \in Nat BY Zenon
  <2> QED BY <2>1, <2>2, ZenonT(60)
<1>1. AddUnits(b, c) = IF c = m \/ k > u THEN c
                       ELSE IF u - k >= u \/ m - c < 2^(u - k) THEN m
                       ELSE c + 2^(u - k)
  BY <1>u, <1>b, <1>m, ZenonT(60) DEF AddUnits
<1>2. ASSUME b.bits <= Unit PROVE AddUnits(b, c) = Capped(n + Weight(b))
  <2>1. k <= u BY <1>2, <1>u, <1>b, ZenonT(60)
  <2>w. PICK w \in Positive : w = 2^(u - k) /\ w = Weight(b)
    BY <1>2, <1>u, <1>b, WeightIs, ZenonT(60) DEF Positive, Weight
  <2>2. u - k >= u => w = m + 1
    <3> SUFFICES ASSUME u - k >= u PROVE w = m + 1 OBVIOUS
    <3>1. u - k = u BY SMTT(30)
    <3> QED BY <1>m, <2>w, <3>1, ZenonT(60)
  <2>3. AddUnits(b, c) = IF c = m \/ k > u THEN c
                         ELSE IF u - k >= u \/ m - c < w THEN m ELSE c + w
    BY <1>1, <2>w, ZenonT(60)
  <2>4. Capped(n + w) = IF n + w < m THEN n + w ELSE m BY <1>m, ZenonT(60) DEF Capped
  <2>5. (IF c = m \/ k > u THEN c ELSE IF u - k >= u \/ m - c < w THEN m ELSE c + w)
          = (IF n + w < m THEN n + w ELSE m)
    BY <1>c, <2>1, <2>2, SMTT(30) DEF Positive
  <2> QED BY <2>w, <2>3, <2>4, <2>5, ZenonT(60)
<1>3. ASSUME ~(b.bits <= Unit) PROVE AddUnits(b, c) = c
  <2>1. k > u
    <3>1. ~(k <= u) BY <1>3, <1>u, <1>b, ZenonT(60)
    <3> QED BY <3>1, SMTT(30)
  <2> QED BY <1>1, <2>1, ZenonT(60)
<1> QED BY <1>c, <1>2, <1>3, ZenonT(60)

\* PoolStats adds up what the counted blocks weigh, until it saturates.
LEMMA UnitsOfBlocks ==
  ASSUME NEW S \in SUBSET Prefix, IsFiniteSet(S),
         NEW f, f = Folded("units", S), NEW g, g = Folded("sum", Counted(S))
  PROVE  f[S] = Capped(g[Counted(S)]) /\ g[Counted(S)] \in Nat
<1>0. /\ Counted(S) \in SUBSET Prefix /\ IsFiniteSet(Counted(S))
      /\ \A b \in Counted(S) : b.bits <= Unit
  <2>1. Counted(S) \in SUBSET S BY Zenon DEF Counted
  <2>2. IsFiniteSet(Counted(S)) BY <2>1, FS_Subset, ZenonT(60)
  <2>3. \A b \in Counted(S) : b.bits <= Unit BY Zenon DEF Counted
  <2> QED BY <2>1, <2>2, <2>3, ZenonT(60)
<1>1. \A s \in SUBSET Counted(S) : /\ g[s] \in Nat
                                   /\ s = {} => g[s] = 0
                                   /\ \A x \in s : g[s] = g[s \ {x}] + Weight(x)
  <2>t. PICK t : t = Counted(S) BY ZenonT(60)
  <2>1. \A s \in SUBSET t : /\ g[s] \in Nat
                            /\ s = {} => g[s] = 0
                            /\ \A x \in s : g[s] = g[s \ {x}] + Weight(x)
    <3>1. t \in SUBSET Prefix /\ IsFiniteSet(t) /\ (\A b \in t : b.bits <= Unit) BY <1>0, <2>t, ZenonT(60)
    <3>2. g = Folded("sum", t) BY <2>t, ZenonT(60)
    <3> QED BY <3>1, <3>2, SumOfBlocks, ZenonT(60)
  <2> QED BY <2>t, <2>1, ZenonT(60)
<1>c. \A s \in SUBSET S : IsFiniteSet(s) /\ Cardinality(s) \in Nat
  BY FS_Subset, FS_CardinalityType, SMTT(30)
<1>2. \A s \in SUBSET S : Counted(s) \in SUBSET Counted(S) BY ZenonT(60) DEF Counted
<1>3. ASSUME NEW s \in SUBSET S, s = {} PROVE f[s] = Capped(g[Counted(s)])
  <2>1. f[s] = FoldOf("units", f, s) BY FoldEquation, ZenonT(60)
  <2>2. f[s] = 0 BY <1>3, <2>1, ZenonT(60) DEF FoldOf
  <2>3. Counted(s) = {} BY <1>3, ZenonT(60) DEF Counted
  <2>4. g[Counted(s)] = 0 BY <1>1, <1>2, <2>3, ZenonT(60)
  <2>5. Capped(0) = 0 BY SaturatedIs, SMTT(30) DEF Capped
  <2> QED BY <2>2, <2>4, <2>5, ZenonT(60)
<1> DEFINE N == {n \in Nat : \A s \in SUBSET S : Cardinality(s) = n => f[s] = Capped(g[Counted(s)])}
<1>4. 0 \in N
  <2>1. 0 \in Nat BY SMTT(30)
  <2>2. \A s \in SUBSET S : Cardinality(s) = 0 => s = {} BY <1>c, FS_EmptySet, ZenonT(60)
  <2> QED BY <1>3, <2>1, <2>2, ZenonT(60)
<1>5. ASSUME NEW n \in Nat, n \in N PROVE n + 1 \in N
  <2>1. ASSUME NEW s \in SUBSET S, Cardinality(s) = n + 1 PROVE f[s] = Capped(g[Counted(s)])
    <3>1. CASE s = {} BY <1>3, <3>1, ZenonT(60)
    <3>2. CASE s # {}
      <4>p. PICK p : p = Pick(s) BY Zenon
      <4>r. PICK r : r = s \ {p} BY ZenonT(60)
      <4>1. p \in s /\ r \in SUBSET S /\ Cardinality(r) + 1 = n + 1
        BY <2>1, <3>2, <4>p, <4>r, Picked, ZenonT(60)
      <4>2. Cardinality(r) \in Nat BY <1>c, <4>1, ZenonT(60)
      <4>3. Cardinality(r) = n BY <4>1, <4>2, SMTT(30)
      <4>4. f[r] = Capped(g[Counted(r)]) BY <1>5, <4>1, <4>3, ZenonT(60)
      <4>5. f[s] = AddUnits(p, f[r])
        <5>1. f[s] = FoldOf("units", f, s) BY FoldEquation, ZenonT(60)
        <5>2. f[s] = Weigh("units", p, f[r]) BY <3>2, <4>p, <4>r, <5>1, ZenonT(60) DEF FoldOf
        <5>3. \A b, k : Weigh("units", b, k) = AddUnits(b, k) BY SMTT(30) DEF Weigh
        <5> QED BY <5>2, <5>3, ZenonT(60)
      <4>6. p \in Prefix /\ g[Counted(r)] \in Nat BY <1>1, <1>2, <4>1, ZenonT(60)
      <4>7. CASE p.bits <= Unit
        <5>1. p \in Counted(s) /\ Counted(s) \ {p} = Counted(r)
          BY <4>r, <4>1, <4>7, ZenonT(60) DEF Counted
        <5>2. Counted(s) \in SUBSET Counted(S) BY <1>2, ZenonT(60)
        <5>3. g[Counted(s)] = g[Counted(s) \ {p}] + Weight(p) BY <1>1, <5>1, <5>2, ZenonT(60)
        <5>4. g[Counted(s)] = g[Counted(r)] + Weight(p) BY <5>1, <5>3, ZenonT(60)
        <5>5. AddUnits(p, Capped(g[Counted(r)])) = Capped(g[Counted(r)] + Weight(p))
          BY <4>6, <4>7, AddUnitsCapped, ZenonT(60)
        <5> QED BY <4>4, <4>5, <5>4, <5>5, ZenonT(60)
      <4>8. CASE ~(p.bits <= Unit)
        <5>1. Counted(s) = Counted(r) BY <4>r, <4>1, <4>8, ZenonT(60) DEF Counted
        <5>2. AddUnits(p, Capped(g[Counted(r)])) = Capped(g[Counted(r)])
          BY <4>6, <4>8, AddUnitsCapped, ZenonT(60)
        <5> QED BY <4>4, <4>5, <5>1, <5>2, ZenonT(60)
      <4> QED BY <4>7, <4>8, ZenonT(60)
    <3> QED BY <3>1, <3>2, ZenonT(60)
  <2>2. n + 1 \in Nat BY SMTT(30)
  <2> QED BY <2>1, <2>2, ZenonT(60)
<1>6. S \in SUBSET S BY Zenon
<1>7. Cardinality(S) \in N
  <2> HIDE DEF N
  <2> QED BY <1>c, <1>4, <1>5, <1>6, SetInduction, ZenonT(60)
<1>8. f[S] = Capped(g[Counted(S)]) BY <1>6, <1>7, ZenonT(60)
<1>9. g[Counted(S)] \in Nat BY <1>1, ZenonT(60)
<1> QED BY <1>8, <1>9, ZenonT(60)

\* The least element of a set of numbers.
LEMMA MinOfSet ==
  ASSUME NEW S \in SUBSET Nat, S # {}
  PROVE  Min(S) \in S /\ \A n \in S : Min(S) <= n
<1>1. IsWellFoundedOn(OpToRel(<, Nat), Nat) BY NatLessThanWellFounded, ZenonT(60)
<1>2. PICK m \in S : \A n \in S : ~(<<n, m>> \in OpToRel(<, Nat)) BY <1>1, WFMin, ZenonT(60)
<1>3. \A k, l \in Nat : k < l => <<k, l>> \in OpToRel(<, Nat) BY Zenon DEF OpToRel
<1>4. \A n \in S : ~(n < m) BY <1>2, <1>3, ZenonT(60)
<1>5. \A n \in S : m <= n BY <1>4, SMTT(30)
<1> QED BY <1>5, ZenonT(60) DEF Min

\* Largest is a size of which a block is free, and no larger block is.
LEMMA LargestIs ==
  ASSUME Clean(pool), used \in SUBSET Prefix, NEW maxBits \in pool.bits .. W,
         NEW n, n = Largest(maxBits)
  PROVE  /\ n # -1 => FreeBlocks(pool, used, n) # {}
         /\ \A b \in pool.bits .. (IF n = -1 THEN maxBits ELSE n - 1) :
               FreeBlocks(pool, used, b) = {}
<1> DEFINE free == {k \in pool.bits .. maxBits : FreePrefixCount[<<pool, used, k>>] > 0}
<1>0. pool.bits \in 0 .. W /\ W \in Nat BY PrefixIs, WidthAssumption, SMTT(30) DEF Clean
<1>1. \A k \in pool.bits .. maxBits : k \in 0 .. W /\ pool.bits <= k /\ k \in Nat
  BY <1>0, SMTT(30)
<1>2. ASSUME NEW k \in pool.bits .. maxBits
      PROVE  FreePrefixCount[<<pool, used, k>>] > 0 <=> FreeBlocks(pool, used, k) # {}
  <2>1. k \in 0 .. W /\ pool.bits <= k BY <1>1, ZenonT(60)
  <2>f. PICK f : f = FreeBlocks(pool, used, k) BY Zenon
  <2>2. IsFiniteSet(f) /\ FreePrefixCount[<<pool, used, k>>] = Cardinality(f)
    BY <2>1, <2>f, CountExact, ZenonT(60)
  <2>3. Cardinality(f) \in Nat /\ (Cardinality(f) = 0 <=> f = {})
    BY <2>2, FS_CardinalityType, FS_EmptySet, ZenonT(60)
  <2>4. Cardinality(f) > 0 <=> f # {} BY <2>3, SMTT(30)
  <2> QED BY <2>f, <2>2, <2>4, SMTT(30)
<1>3. n = IF free = {} THEN -1 ELSE Min(free) BY Zenon DEF Largest
<1>4. free \in SUBSET Nat /\ \A k : k \in free <=> k \in pool.bits .. maxBits
                                                   /\ FreeBlocks(pool, used, k) # {}
  BY <1>1, <1>2, ZenonT(60)
<1> HIDE DEF free
<1>5. CASE free = {}
  <2>1. n = -1 BY <1>3, <1>5, ZenonT(60)
  <2>2. \A b \in pool.bits .. maxBits : FreeBlocks(pool, used, b) = {} BY <1>4, <1>5, ZenonT(60)
  <2> QED BY <2>1, <2>2, ZenonT(60)
<1>6. CASE free # {}
  <2>1. n \in free /\ \A k \in free : n <= k
    <3>1. free \in SUBSET Nat BY <1>4, ZenonT(60)
    <3>2. Min(free) \in free /\ \A k \in free : Min(free) <= k BY <1>6, <3>1, MinOfSet, ZenonT(60)
    <3>3. n = Min(free) BY <1>3, <1>6, ZenonT(60)
    <3> QED BY <3>2, <3>3, ZenonT(60)
  <2>2. n \in Nat /\ n \in pool.bits .. maxBits /\ FreeBlocks(pool, used, n) # {}
    BY <1>4, <2>1, ZenonT(60)
  <2>3. n # -1 BY <2>2, SMTT(30)
  <2>4. ASSUME NEW b \in pool.bits .. (n - 1) PROVE FreeBlocks(pool, used, b) = {}
    <3>1. b \in pool.bits .. maxBits /\ ~(n <= b) BY <1>0, <2>2, SMTT(30)
    <3> QED BY <1>4, <2>1, <3>1, ZenonT(60)
  <2> QED BY <2>2, <2>3, <2>4, ZenonT(60)
<1> QED BY <1>5, <1>6, SMTT(30)

\* PoolStats reports the space in use, saturating, and the largest free block,
\* in every reachable state.
THEOREM ReportsExactly == Spec => []StatsAreExact
<1>1. Sound => StatsAreExact
  <2> SUFFICES ASSUME Sound PROVE StatsAreExact OBVIOUS
  <2>0. Clean(pool) /\ used \in SUBSET Prefix /\ IsFiniteSet(used) BY Zenon DEF Sound
  <2>f. PICK f : f = Folded("units", used) BY Zenon
  <2>g. PICK g : g = Folded("sum", Counted(used)) BY ZenonT(60)
  <2>t. PICK total : total = FoldSet(LAMBDA b, n : n + 2^(Unit - b.bits), 0,
                                     {b \in used : b.bits <= Unit})
    BY ZenonT(60)
  <2>1. total = g[Counted(used)] BY <2>g, <2>t, FoldsAre, ZenonT(60) DEF Counted
  <2>2. Allocated = f[used] BY <2>f, FoldsAre, ZenonT(60) DEF Allocated
  <2>3. f[used] = Capped(g[Counted(used)]) /\ g[Counted(used)] \in Nat
    BY <2>0, <2>f, <2>g, UnitsOfBlocks, ZenonT(60)
  <2>4. Allocated = Min({total, Saturated}) BY <2>1, <2>2, <2>3, CappedIs, ZenonT(60)
  <2>5. ASSUME NEW maxBits \in pool.bits .. W
        PROVE  LET n == Largest(maxBits)
               IN  /\ n # -1 => FreeBlocks(pool, used, n) # {}
                   /\ \A b \in pool.bits .. (IF n = -1 THEN maxBits ELSE n - 1) :
                         FreeBlocks(pool, used, b) = {}
    BY <2>0, LargestIs, ZenonT(60)
  <2> QED BY <2>t, <2>4, <2>5, ZenonT(60) DEF StatsAreExact
<1> QED BY <1>1, AlwaysSound, PTL

=============================================================================
