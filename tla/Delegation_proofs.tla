------------------------- MODULE Delegation_proofs -------------------------
(***************************************************************************)
(* What holds of Delegation for every address width, every set of forms    *)
(* and every number of upstreams, tunnels and faults: the types, that no   *)
(* address is delegated twice, that every block stays inside the prefix of *)
(* its upstream, that the server keeps its address, and that devices and   *)
(* peers go with their rows.                                               *)
(*                                                                         *)
(* CreateTunnel compares a block only with the blocks of its own upstream. *)
(* That none of another upstream overlaps it follows from the upstreams    *)
(* being disjoint and from every block being inside its upstream's prefix, *)
(* so the three are one induction, with what is reserved for the server    *)
(* and what a half-finished deletion has established.                      *)
(***************************************************************************)
EXTENDS Delegation, WellFoundedInduction, TLAPS

\* Rows satisfy validateUpstream, as they did when they were saved.
RowsValid == \A u \in DOMAIN upstreams : Valid(upstreams[u])

\* No block overlaps what is reserved for the server of its upstream.
Reserved ==
    \A t \in DOMAIN tunnels : tunnels[t].upstream \in DOMAIN upstreams =>
        \A r \in Reservation(upstreams[tunnels[t].upstream]) :
            ~Overlaps(r, tunnels[t].cidr)

\* A tunnel without an upstream is one of the single-upstream release.
Origin ==
    \A t \in DOMAIN tunnels : tunnels[t].upstream = 0 =>
        t \in DOMAIN LegacyTunnels /\ tunnels[t].cidr = LegacyTunnels[t]

\* Apply visits upstreams that exist; the one that is being deleted has no
\* tunnels.
Pending ==
    /\ todo \subseteq DOMAIN upstreams
    /\ pc = "deleteUpstream" => \A t \in DOMAIN tunnels : tunnels[t].upstream # gone

Inv ==
    /\ TypeOK
    /\ RowsValid
    /\ UpstreamsIndependent
    /\ AllocationsInside
    /\ NoOverlap
    /\ Reserved
    /\ Origin
    /\ Pending

-----------------------------------------------------------------------------
\* Prefix.Masked gives a prefix.
LEMMA MaskedType ==
    ASSUME NEW p \in Prefix
    PROVE  Masked(p) \in Prefix /\ Masked(p).bits = p.bits
BY WidthAssumption DEF Masked, Prefix, Address, Bit

\* Masking keeps the network bits.
LEMMA MaskedAgrees ==
    ASSUME NEW a \in Address, NEW k \in 0 .. W
    PROVE  LET r == Masked([addr |-> a, bits |-> k])
           IN  r.bits = k /\ \A i \in Int : 1 <= i /\ i <= k => r.addr[i] = a[i]
<1>1. \A i \in Int : 1 <= i /\ i <= k => i \in 1 .. W
  BY WidthAssumption
<1> QED BY <1>1, ZenonT(60) DEF Masked

\* Blocks that overlap are parts of prefixes that overlap.
LEMMA OverlapUp ==
    ASSUME NEW a \in Prefix, NEW b \in Prefix, NEW p \in Prefix, NEW q \in Prefix,
           Inside(a, p), Inside(b, q), Overlaps(a, b)
    PROVE  Overlaps(p, q)
<1>0. a.bits \in Int /\ b.bits \in Int /\ p.bits \in Int /\ q.bits \in Int
  BY WidthAssumption DEF Prefix
<1>1. \A i \in Int : 1 <= i /\ i <= p.bits => p.addr[i] = a.addr[i] /\ i <= a.bits
  BY <1>0 DEF Inside, Contains
<1>2. \A i \in Int : 1 <= i /\ i <= q.bits => q.addr[i] = b.addr[i] /\ i <= b.bits
  BY <1>0 DEF Inside, Contains
<1>3. \/ \A i \in Int : 1 <= i /\ i <= a.bits => a.addr[i] = b.addr[i]
      \/ \A i \in Int : 1 <= i /\ i <= b.bits => b.addr[i] = a.addr[i]
  BY <1>0 DEF Overlaps, Contains
<1>4. \A i \in Int : 1 <= i /\ i <= p.bits /\ i <= q.bits => p.addr[i] = q.addr[i]
  BY <1>0, <1>1, <1>2, <1>3
<1>5. CASE p.bits <= q.bits
  BY <1>0, <1>4, <1>5 DEF Overlaps, Contains
<1>6. CASE q.bits <= p.bits
  BY <1>0, <1>4, <1>6 DEF Overlaps, Contains
<1> QED BY <1>0, <1>5, <1>6

\* Overlapping is symmetric.
LEMMA OverlapSym ==
    ASSUME NEW a, NEW b PROVE Overlaps(a, b) <=> Overlaps(b, a)
BY DEF Overlaps

\* A block with the server's address overlaps what is reserved for it.
LEMMA ReservationCovers ==
    ASSUME NEW row \in Row, NEW b \in Prefix, Valid(row), row.mode = "routed",
           NEW s \in row.server, Contains(b, s.addr)
    PROVE  \E r \in Reservation(row) : Overlaps(r, b)
<1> DEFINE n == IF s.bits < row.max THEN row.max ELSE s.bits
           h == [addr |-> s.addr, bits |-> n]
           r == Masked(h)
<1>1. s \in Prefix /\ n \in 0 .. W
  BY DEF Row, Prefix
<1>2. r \in Reservation(row)
  BY DEF Reservation, Valid
<1>3. /\ r.bits = n
      /\ \A i \in Int : 1 <= i /\ i <= n => r.addr[i] = s.addr[i]
  <2> HIDE DEF n
  <2> QED BY <1>1, MaskedAgrees DEF Prefix
<1>4. b.bits \in 0 .. W /\ \A i \in Int : 1 <= i /\ i <= b.bits => b.addr[i] = s.addr[i]
  BY WidthAssumption DEF Prefix, Contains
<1> HIDE DEF n, h, r
<1>5. CASE n <= b.bits
  <2>1. \A i \in 1 .. r.bits : r.addr[i] = b.addr[i]
    BY <1>1, <1>3, <1>4, <1>5, WidthAssumption
  <2> QED BY <1>2, <2>1 DEF Overlaps, Contains
<1>6. CASE b.bits <= n
  <2>1. \A i \in 1 .. b.bits : b.addr[i] = r.addr[i]
    BY <1>1, <1>3, <1>4, <1>6, WidthAssumption
  <2> QED BY <1>2, <2>1 DEF Overlaps, Contains
<1> QED BY <1>1, <1>4, <1>5, <1>6, WidthAssumption

\* defaultTransportAddress returns an address of the pool.
LEMMA DefaultTransportType ==
    ASSUME NEW others PROVE DefaultTransport(others) \in Prefix
<1> DEFINE taken == {Masked(x) : x \in UNION {upstreams[v].transport : v \in others}}
           free  == {i \in DOMAIN TransportPool : Masked(TransportPool[i]) \notin taken}
           least == CHOOSE i \in free : \A j \in free : i <= j
<1>1. DOMAIN TransportPool = 1 .. Len(TransportPool) /\ Len(TransportPool) \in Nat \ {0}
      /\ \A i \in 1 .. Len(TransportPool) : TransportPool[i] \in Prefix
  BY FormAssumption
<1>2. CASE free = {}
  BY <1>1, <1>2, SMTT(30) DEF DefaultTransport
<1>3. CASE free # {}
  <2>1. free \subseteq Nat
    BY <1>1
  <2> HIDE DEF free
  <2>2. \E i \in free : \A j \in free : ~(<<j, i>> \in OpToRel(<, Nat))
    BY <1>3, <2>1, NatLessThanWellFounded, WFMin, Zenon
  <2>3. \A i, j \in Nat : j < i => <<j, i>> \in OpToRel(<, Nat)
    BY Zenon DEF OpToRel
  <2>5. \E i \in free : \A j \in free : ~(j < i)
    BY <2>1, <2>2, <2>3, Zenon
  <2>6. \E i \in free : \A j \in free : i <= j
    BY <2>1, <2>5
  <2>4. least \in free
    BY <2>6
  <2> USE DEF free
  <2> QED BY <1>1, <1>3, <2>4 DEF DefaultTransport
<1> QED BY <1>2, <1>3

\* normalizeUpstream turns a form into a row.
LEMMA NormalizeType ==
    ASSUME NEW f \in Form, NEW others PROVE Normalize(f, others) \in Row
<1>1. f \in FormType
  BY FormAssumption
<1>2. Masked(f.cidr) \in Prefix
  BY <1>1, MaskedType DEF FormType
<1>3. f.min \in Nat /\ f.max \in Nat /\ f.dflt \in Nat
  BY <1>1 DEF FormType
<1> DEFINE c == Masked(f.cidr)
           min == IF c.bits >= Slaac THEN c.bits ELSE Clamp(f.min, c.bits, W)
           max == IF c.bits >= Slaac THEN c.bits ELSE Clamp(f.max, min, W)
           dflt == IF c.bits >= Slaac THEN c.bits ELSE Clamp(f.dflt, min, max)
           tr == IF f.mode = "onlink" /\ f.transport = {}
                 THEN {DefaultTransport(others)} ELSE f.transport
<1>4. c \in Prefix /\ c.bits \in 0 .. W
  BY <1>2 DEF Prefix
<1>5. min \in 0 .. W
  <2> HIDE DEF c
  <2> QED BY <1>3, <1>4, WidthAssumption, BoundsAssumption DEF Clamp
<1>6. max \in 0 .. W /\ (c.bits >= Slaac \/ min <= max)
  <2> HIDE DEF c, min
  <2> QED BY <1>3, <1>4, <1>5, WidthAssumption, BoundsAssumption DEF Clamp
<1>7. dflt \in 0 .. W
  <2> HIDE DEF c, min, max
  <2> QED BY <1>3, <1>4, <1>5, <1>6, WidthAssumption, BoundsAssumption DEF Clamp
<1>8. tr \in SUBSET Prefix
  BY <1>1, DefaultTransportType DEF FormType
<1>9. Normalize(f, others) = [f EXCEPT !.cidr = c, !.min = min, !.max = max,
                                       !.dflt = dflt, !.transport = tr]
  BY Zenon DEF Normalize
<1> HIDE DEF c, min, max, dflt, tr
<1> QED BY <1>1, <1>4, <1>5, <1>6, <1>7, <1>8, <1>9, ZenonT(60) DEF Row, FormType

\* What Allocate chooses is a free block of the pool.
LEMMA FreeBlocksAre ==
    ASSUME NEW pool, NEW used, NEW bits \in 0 .. W, NEW b \in FreeBlocks(pool, used, bits)
    PROVE  b \in Prefix /\ Inside(b, pool) /\ \A u \in used : ~Overlaps(b, u)
<1>1. PICK a \in Address : b = Masked([addr |-> a, bits |-> bits])
  BY DEF FreeBlocks
<1>2. [addr |-> a, bits |-> bits] \in Prefix
  BY DEF Prefix
<1> QED BY <1>1, <1>2, MaskedType DEF FreeBlocks

-----------------------------------------------------------------------------
\* The inductive invariant holds of a new database and of one that the
\* single-upstream release has left.
LEMMA InvInit == Init => Inv
<1> SUFFICES ASSUME Init PROVE Inv
  OBVIOUS
<1>1. DOMAIN upstreams = {} /\ DOMAIN tunnels = DOMAIN LegacyTunnels
      /\ \A t \in DOMAIN tunnels :
            tunnels[t] = [upstream |-> 0, cidr |-> LegacyTunnels[t]]
  BY DEF Init, Empty
<1>2. TypeOK
  <2>1. tunnels \in [DOMAIN tunnels -> Tunnel]
    BY <1>1, LegacyAssumption, BoundsAssumption DEF Init, Tunnel
  <2>2. deleted \in BOOLEAN
    BY ZenonT(60) DEF Init
  <2>3. upstreams \in [DOMAIN upstreams -> Row] /\ DOMAIN device \subseteq STRING
    BY DEF Init, Empty
  <2> QED BY <1>1, <2>1, <2>2, <2>3, LegacyAssumption, BoundsAssumption
          DEF Init, TypeOK
<1>3. NoOverlap
  BY <1>1, LegacyAssumption DEF NoOverlap
<1>4. RowsValid /\ UpstreamsIndependent /\ Reserved
  BY <1>1 DEF RowsValid, UpstreamsIndependent, Reserved
<1>5. AllocationsInside /\ Origin /\ Pending
  BY <1>1 DEF Init, AllocationsInside, Origin, Pending
<1> QED BY <1>2, <1>3, <1>4, <1>5 DEF Inv

\* Steps that change neither table.
LEMMA Frame ==
    ASSUME Inv, UNCHANGED <<upstreams, tunnels>>, TypeOK', Pending',
           pc = "down" => pc' = "down"
    PROVE  Inv'
<1>1. (RowsValid /\ UpstreamsIndependent /\ NoOverlap)'
  BY DEF Inv, RowsValid, UpstreamsIndependent, NoOverlap
<1>2. (Reserved /\ Origin)'
  BY DEF Inv, Reserved, Origin
<1>3. AllocationsInside'
  BY DEF Inv, AllocationsInside
<1> QED BY <1>1, <1>2, <1>3 DEF Inv

\* A row that satisfies the rules may be added, or may replace the row of u, if
\* it keeps the blocks of u.
LEMMA RowSaved ==
    ASSUME Inv, pc # "down", NEW u \in UpstreamId, NEW row \in Row, Valid(row),
           Unique(row, DOMAIN upstreams \ {u}), Keeps(row, Blocks(u)),
           upstreams' = Put(upstreams, u, row), UNCHANGED tunnels
    PROVE  /\ (DOMAIN upstreams \subseteq UpstreamId)'
           /\ (upstreams \in [DOMAIN upstreams -> Row])'
           /\ RowsValid' /\ UpstreamsIndependent' /\ AllocationsInside'
           /\ NoOverlap' /\ Reserved' /\ Origin'
<1>1. /\ DOMAIN upstreams' = DOMAIN upstreams \cup {u}
      /\ upstreams'[u] = row
      /\ \A v \in DOMAIN upstreams : v # u => upstreams'[v] = upstreams[v]
  BY DEF Put
<1>2. (DOMAIN upstreams \subseteq UpstreamId)'
  BY <1>1 DEF Inv, TypeOK
<1>3. (upstreams \in [DOMAIN upstreams -> Row])'
  BY <1>1 DEF Inv, TypeOK, Put
<1>4. RowsValid'
  BY <1>1, SMTT(30) DEF Inv, RowsValid
<1>5. UpstreamsIndependent'
  BY <1>1, OverlapSym DEF Inv, UpstreamsIndependent, Unique, Compatible
<1>6. ASSUME NEW t \in DOMAIN tunnels, tunnels[t].upstream = u
      PROVE  /\ Inside(tunnels[t].cidr, row.cidr)
             /\ \A r \in Reservation(row) : ~Overlaps(r, tunnels[t].cidr)
  BY <1>6, SMTT(30) DEF Keeps, Blocks, Of
<1>7. AllocationsInside'
  BY <1>1, <1>6, SMTT(30) DEF Inv, AllocationsInside
<1>8. Reserved'
  BY <1>1, <1>6, SMTT(30) DEF Inv, Reserved
<1>9. NoOverlap' /\ Origin'
  BY DEF Inv, NoOverlap, Origin
<1> QED BY <1>2, <1>3, <1>4, <1>5, <1>7, <1>8, <1>9, SMTT(30)

\* CreateUpstream: no tunnel has the id of the new row.
LEMMA CreateUpstreamStep ==
    ASSUME Inv, NEW f \in Form, NEW id \in UpstreamId, CreateUpstream(f, id)
    PROVE  Inv'
<1> DEFINE row == Normalize(f, DOMAIN upstreams)
<1>1. row \in Row
  BY NormalizeType
<1> HIDE DEF row
<1>2. /\ pc = "idle" /\ Valid(row) /\ Unique(row, DOMAIN upstreams)
      /\ NextId(upstreams, id) /\ upstreams' = Put(upstreams, id, row)
      /\ UNCHANGED <<tunnels, device, faults, deleted>> /\ Reconciling
  BY DEF CreateUpstream, row
<1>3. id \notin DOMAIN upstreams
  BY <1>2, SMTT(30) DEF NextId, Inv, TypeOK, UpstreamId
<1>4. Keeps(row, Blocks(id))
  BY <1>2, <1>3 DEF Inv, AllocationsInside, Keeps, Blocks, Of
<1>5. Unique(row, DOMAIN upstreams \ {id})
  BY <1>2 DEF Unique
<1>6. /\ (DOMAIN upstreams \subseteq UpstreamId)'
      /\ (upstreams \in [DOMAIN upstreams -> Row])'
      /\ RowsValid' /\ UpstreamsIndependent' /\ AllocationsInside'
      /\ NoOverlap' /\ Reserved' /\ Origin'
  BY <1>1, <1>2, <1>4, <1>5, RowSaved, ZenonT(60)
<1>7. TypeOK' /\ Pending'
  BY <1>2, <1>6 DEF Inv, TypeOK, Pending, Reconciling
<1> QED BY <1>6, <1>7 DEF Inv

\* UpdateUpstream: the edited row keeps the blocks.
LEMMA UpdateUpstreamStep ==
    ASSUME Inv, NEW u \in UpstreamId, NEW f \in Form, UpdateUpstream(u, f)
    PROVE  Inv'
<1> DEFINE row == Normalize(f, DOMAIN upstreams \ {u})
           old == upstreams[u].iface
<1>1. row \in Row
  BY NormalizeType
<1> HIDE DEF row
<1>2. /\ pc = "idle" /\ u \in DOMAIN upstreams
      /\ Valid(row) /\ Unique(row, DOMAIN upstreams \ {u})
      /\ Keeps(row, Blocks(u)) /\ upstreams' = Put(upstreams, u, row)
      /\ UNCHANGED <<tunnels, device, faults, deleted>>
      /\ \/ Reconciling
         \/ pc' = "rename" /\ stale' = {old} /\ UNCHANGED <<todo, gone>>
  BY DEF UpdateUpstream, row
<1>3. old \in STRING
  BY <1>2 DEF Inv, TypeOK, Row
<1> HIDE DEF old
<1>4. /\ (DOMAIN upstreams \subseteq UpstreamId)'
      /\ (upstreams \in [DOMAIN upstreams -> Row])'
      /\ RowsValid' /\ UpstreamsIndependent' /\ AllocationsInside'
      /\ NoOverlap' /\ Reserved' /\ Origin'
  BY <1>1, <1>2, RowSaved, ZenonT(60)
<1>5. TypeOK' /\ Pending'
  <2>1. CASE Reconciling
    BY <1>2, <1>4, <2>1 DEF Inv, TypeOK, Pending, Reconciling
  <2>2. CASE pc' = "rename" /\ stale' = {old} /\ UNCHANGED <<todo, gone>>
    <3>1. DOMAIN upstreams \subseteq DOMAIN upstreams'
      BY <1>2, SMTT(30) DEF Put
    <3>2. TypeOK'
      BY <1>2, <1>3, <1>4, <2>2, SMTT(30) DEF Inv, TypeOK
    <3>3. Pending'
      BY <2>2, <3>1 DEF Inv, Pending
    <3> QED BY <3>2, <3>3
  <2> QED BY <1>2, <2>1, <2>2, SMTT(30)
<1> QED BY <1>4, <1>5 DEF Inv

\* DeleteUpstream: the row that is dropped has no tunnels.
LEMMA DeleteUpstreamRowStep ==
    ASSUME Inv, DeleteUpstreamRow
    PROVE  Inv'
<1>1. /\ DOMAIN upstreams' = DOMAIN upstreams \ {gone}
      /\ \A v \in DOMAIN upstreams' : upstreams'[v] = upstreams[v]
      /\ upstreams' \in [DOMAIN upstreams' -> Row]
      /\ pc = "deleteUpstream" /\ deleted' = TRUE
      /\ UNCHANGED <<tunnels, device, faults>> /\ Reconciling
  BY DEF DeleteUpstreamRow, Drop, Inv, TypeOK
<1>2. \A t \in DOMAIN tunnels : tunnels[t].upstream # gone
  BY <1>1, SMTT(30) DEF Inv, Pending
<1>3. TypeOK' /\ Pending'
  BY <1>1 DEF Inv, TypeOK, Pending, Reconciling
<1>4. RowsValid' /\ UpstreamsIndependent'
  BY <1>1 DEF Inv, RowsValid, UpstreamsIndependent
<1>5. AllocationsInside'
  BY <1>1, <1>2, SMTT(30) DEF Inv, AllocationsInside
<1>6. NoOverlap' /\ Reserved' /\ Origin'
  BY <1>1 DEF Inv, NoOverlap, Reserved, Origin
<1> QED BY <1>3, <1>4, <1>5, <1>6, SMTT(30) DEF Inv

\* CreateTunnel: the new block is free in its own upstream by Allocate, and in
\* the others because the upstreams are disjoint.
LEMMA CreateTunnelStep ==
    ASSUME Inv, NEW u \in UpstreamId, NEW bits \in 0 .. W, NEW id \in TunnelId,
           CreateTunnel(u, bits, id)
    PROVE  Inv'
<1> DEFINE row == upstreams[u]
           used == Blocks(u) \cup Reservation(row)
<1>1. PICK block \in FreeBlocks(row.cidr, used, bits) :
          tunnels' = Put(tunnels, id, [upstream |-> u, cidr |-> block])
  BY SMTT(30) DEF CreateTunnel
<1>2. /\ pc = "idle" /\ u \in DOMAIN upstreams /\ NextId(tunnels, id)
      /\ UNCHANGED <<upstreams, device, faults, deleted>> /\ Reconciling
  BY DEF CreateTunnel
<1>3. block \in Prefix /\ Inside(block, row.cidr) /\ \A x \in used : ~Overlaps(block, x)
  BY FreeBlocksAre, SMTT(30)
<1>4. /\ DOMAIN tunnels' = DOMAIN tunnels \cup {id}
      /\ tunnels'[id].upstream = u /\ tunnels'[id].cidr = block
      /\ \A t \in DOMAIN tunnels : t # id => tunnels'[t] = tunnels[t]
      /\ id \notin DOMAIN tunnels
  BY <1>1, <1>2, SMTT(30) DEF Put, NextId, Inv, TypeOK, TunnelId
<1>5. ASSUME NEW t \in DOMAIN tunnels
      PROVE  ~Overlaps(block, tunnels[t].cidr)
  <2> DEFINE v == tunnels[t].upstream
  <2>1. /\ v \in DOMAIN upstreams /\ Inside(tunnels[t].cidr, upstreams[v].cidr)
        /\ tunnels[t].cidr \in Prefix
    BY <1>2, SMTT(30) DEF Inv, AllocationsInside, TypeOK, Tunnel
  <2>2. CASE v = u
    BY <1>3, <2>2, SMTT(30) DEF Blocks, Of
  <2>3. CASE v # u
    <3>1. ~Overlaps(row.cidr, upstreams[v].cidr)
      BY <1>2, <2>1, <2>3, SMTT(30) DEF Inv, UpstreamsIndependent
    <3>2. row.cidr \in Prefix /\ upstreams[v].cidr \in Prefix
      BY <1>2, <2>1, SMTT(30) DEF Inv, TypeOK, Row
    <3> QED BY <1>3, <2>1, <3>1, <3>2, OverlapUp, SMTT(30)
  <2> QED BY <2>2, <2>3, SMTT(30)
<1>6. NoOverlap'
  BY <1>4, <1>5, OverlapSym, SMTT(30) DEF Inv, NoOverlap
<1>7. AllocationsInside'
  BY <1>2, <1>3, <1>4, SMTT(30) DEF Inv, AllocationsInside, Reconciling
<1>8. Reserved'
  BY <1>2, <1>3, <1>4, OverlapSym, SMTT(30) DEF Inv, Reserved
<1>9. TypeOK'
  <2>1. [upstream |-> u, cidr |-> block] \in Tunnel
    BY <1>3, BoundsAssumption, SMTT(30) DEF Tunnel, UpstreamId
  <2>2. (DOMAIN tunnels \subseteq TunnelId /\ tunnels \in [DOMAIN tunnels -> Tunnel])'
    BY <1>1, <1>4, <2>1, SMTT(30) DEF Inv, TypeOK, Put
  <2> QED BY <1>2, <2>2, SMTT(30) DEF Inv, TypeOK, Reconciling
<1>10. RowsValid' /\ UpstreamsIndependent' /\ Pending'
  BY <1>2, SMTT(30) DEF Inv, RowsValid, UpstreamsIndependent, Pending, Reconciling
<1>11. Origin'
  BY <1>4, SMTT(30) DEF Inv, Origin, UpstreamId
<1> QED BY <1>6, <1>7, <1>8, <1>9, <1>10, <1>11, SMTT(30) DEF Inv

\* DeleteTunnel frees a block and touches no other.
LEMMA DeleteTunnelRowStep ==
    ASSUME Inv, DeleteTunnelRow
    PROVE  Inv'
<1>1. /\ DOMAIN tunnels' = DOMAIN tunnels \ {gone}
      /\ \A t \in DOMAIN tunnels' : tunnels'[t] = tunnels[t]
      /\ tunnels' \in [DOMAIN tunnels' -> Tunnel]
      /\ pc = "deleteTunnel" /\ Return
      /\ UNCHANGED <<upstreams, device, faults, deleted>>
  BY DEF DeleteTunnelRow, Drop, Inv, TypeOK
<1>2. TypeOK' /\ Pending'
  BY <1>1 DEF Inv, TypeOK, Pending, Return
<1>3. RowsValid' /\ UpstreamsIndependent'
  BY <1>1, SMTT(30) DEF Inv, RowsValid, UpstreamsIndependent
<1>4. AllocationsInside'
  BY <1>1, SMTT(30) DEF Inv, AllocationsInside
<1>5. NoOverlap'
  BY <1>1, SMTT(30) DEF Inv, NoOverlap
<1>6. Reserved' /\ Origin'
  BY <1>1, SMTT(30) DEF Inv, Reserved, Origin
<1> QED BY <1>2, <1>3, <1>4, <1>5, <1>6 DEF Inv

\* The daemon starts: the tunnels without an upstream get the converted one,
\* whose prefix they are inside of.
LEMMA BootStep ==
    ASSUME Inv, Boot
    PROVE  Inv'
<1>1. pc = "down" /\ Migrate /\ Reconciling /\ UNCHANGED <<device, faults, deleted>>
  BY DEF Boot
<1>2. CASE DOMAIN upstreams = {} /\ Legacy # {}
  <2>1. PICK row \in Legacy : upstreams' = Put(upstreams, 1, row)
    BY <1>1, <1>2 DEF Migrate
  <2>2. row \in Row /\ Valid(row)
        /\ \A t \in DOMAIN LegacyTunnels : Keeps(row, {LegacyTunnels[t]})
    BY LegacyAssumption
  <2>3. DOMAIN upstreams' = {1} /\ upstreams'[1] = row
    BY <1>2, <2>1 DEF Put
  <2>4. ASSUME NEW t \in DOMAIN tunnels
        PROVE  tunnels[t].upstream = 0 /\ tunnels[t].cidr = LegacyTunnels[t]
               /\ t \in DOMAIN LegacyTunnels
    BY <1>2 DEF Inv, AllocationsInside, Origin
  <2>5. tunnels' = [t \in DOMAIN tunnels |-> [tunnels[t] EXCEPT !.upstream = 1]]
    BY <1>1, <1>2, <2>4 DEF Migrate
  <2>6. DOMAIN tunnels' = DOMAIN tunnels
        /\ \A t \in DOMAIN tunnels : /\ tunnels[t] \in Tunnel
                                     /\ tunnels'[t] = [tunnels[t] EXCEPT !.upstream = 1]
    BY <2>5 DEF Inv, TypeOK
  <2>7. \A t \in DOMAIN tunnels : /\ tunnels'[t] \in Tunnel /\ tunnels'[t].upstream = 1
                                  /\ tunnels'[t].cidr = tunnels[t].cidr
    BY <2>6, BoundsAssumption DEF Tunnel
  <2>8. TypeOK'
    <3>1. (tunnels \in [DOMAIN tunnels -> Tunnel] /\ DOMAIN tunnels \subseteq TunnelId)'
      BY <2>5, <2>6, <2>7 DEF Inv, TypeOK
    <3>2. (upstreams \in [DOMAIN upstreams -> Row] /\ DOMAIN upstreams \subseteq UpstreamId)'
      BY <2>1, <2>2, <2>3, BoundsAssumption, SMTT(30) DEF Put, UpstreamId
    <3> QED BY <1>1, <3>1, <3>2 DEF Inv, TypeOK, Reconciling
  <2>9. RowsValid' /\ UpstreamsIndependent' /\ Pending'
    BY <1>1, <2>2, <2>3 DEF RowsValid, UpstreamsIndependent, Pending, Reconciling
  <2>10. AllocationsInside'
    BY <2>2, <2>3, <2>4, <2>6, <2>7 DEF AllocationsInside, Keeps
  <2>11. Reserved'
    BY <2>2, <2>3, <2>4, <2>6, <2>7 DEF Reserved, Keeps
  <2>12. NoOverlap' /\ Origin'
    BY <2>6, <2>7 DEF Inv, NoOverlap, Origin
  <2> QED BY <2>8, <2>9, <2>10, <2>11, <2>12 DEF Inv
<1>3. CASE DOMAIN upstreams # {} \/ Legacy = {}
  <2>1. UNCHANGED <<upstreams, tunnels>>
    BY <1>1, <1>3 DEF Migrate
  <2>2. \A t \in DOMAIN tunnels : tunnels[t].upstream \in DOMAIN upstreams
    BY <1>3, LegacyAssumption, SMTT(30) DEF Inv, AllocationsInside, Origin
  <2>3. TypeOK' /\ Pending'
    BY <1>1, <2>1, SMTT(30) DEF Inv, TypeOK, Pending, Reconciling
  <2>4. AllocationsInside'
    BY <2>1, <2>2, SMTT(30) DEF Inv, AllocationsInside, TypeOK, UpstreamId
  <2>5. (RowsValid /\ UpstreamsIndependent /\ NoOverlap)'
    BY <2>1, SMTT(30) DEF Inv, RowsValid, UpstreamsIndependent, NoOverlap
  <2>6. (Reserved /\ Origin)'
    BY <2>1, SMTT(30) DEF Inv, Reserved, Origin
  <2> QED BY <2>3, <2>4, <2>5, <2>6 DEF Inv
<1> QED BY <1>2, <1>3, ZenonT(60)

\* The steps of the kernel and the failures change neither table.
LEMMA FrameSteps ==
    ASSUME Inv,
           \/ \E u \in UpstreamId : \/ ApplyUpstream(u) \/ PortTaken(u)
                                    \/ ApplyUpstreamFails(u) \/ DeleteUpstream(u)
           \/ \E t \in TunnelId : DeleteTunnel(t)
           \/ Reconcile \/ ApplyDone \/ ReconcileAborts
           \/ RemoveRenamed \/ RemoveRenamedFails
           \/ DeleteUpstreamRowFails \/ DeleteTunnelRowFails
           \/ Crash \/ Reboot \/ UNCHANGED vars
    PROVE  Inv'
<1> USE DEF Inv
<1>1. CASE Reconcile
  BY <1>1, Frame, SMTT(30) DEF Reconcile, Reconciling, TypeOK, Pending
<1>2. CASE ApplyDone \/ ReconcileAborts \/ RemoveRenamedFails
           \/ DeleteUpstreamRowFails \/ DeleteTunnelRowFails
  BY <1>2, Frame, BoundsAssumption, SMTT(30) DEF ApplyDone, ReconcileAborts, RemoveRenamedFails,
     DeleteUpstreamRowFails, DeleteTunnelRowFails, Return, Fault, TypeOK, Pending
<1>3. CASE RemoveRenamed
  BY <1>3, Frame, SMTT(30) DEF RemoveRenamed, Reconciling, TypeOK, Pending
<1>4. CASE Crash \/ Reboot
  BY <1>4, Frame, BoundsAssumption, SMTT(30) DEF Crash, Reboot, Fault, Empty, TypeOK, Pending
<1>5. CASE UNCHANGED vars
  BY <1>5, Frame, SMTT(30) DEF vars, TypeOK, Pending
<1>6. CASE \E u \in UpstreamId : DeleteUpstream(u)
  BY <1>6, Frame, SMTT(30) DEF DeleteUpstream, Drop, Of, TypeOK, Pending, UpstreamId
<1>7. CASE \E t \in TunnelId : DeleteTunnel(t)
  <2>1. PICK t \in TunnelId : DeleteTunnel(t)
    BY <1>7
  <2>2. DOMAIN device' = DOMAIN device
    BY <2>1, Zenon DEF DeleteTunnel
  <2>3. /\ pc = "idle" /\ pc' = "deleteTunnel" /\ gone' = t
        /\ UNCHANGED <<upstreams, tunnels, todo, stale, faults, deleted>>
    BY <2>1, ZenonT(60) DEF DeleteTunnel
  <2> QED BY <2>2, <2>3, Frame, SMTT(30) DEF TypeOK, Pending, TunnelId
<1>8. CASE \E u \in UpstreamId : ApplyUpstream(u) \/ PortTaken(u) \/ ApplyUpstreamFails(u)
  <2>1. PICK u \in UpstreamId : ApplyUpstream(u) \/ PortTaken(u) \/ ApplyUpstreamFails(u)
    BY <1>8, SMTT(30)
  <2>2. /\ u \in todo /\ todo' = todo \ {u} /\ pc = "apply"
        /\ UNCHANGED <<upstreams, tunnels, pc, stale, gone, deleted>>
        /\ UNCHANGED faults \/ Fault
        /\ device' \in {device, Created(u), Configured(u)}
    BY <2>1, SMTT(30) DEF ApplyUpstream, PortTaken, ApplyUpstreamFails
  <2>3. upstreams[u].iface \in STRING
    BY <2>2, SMTT(30) DEF TypeOK, Pending, Row
  <2>4. DOMAIN device' \subseteq STRING
    BY <2>2, <2>3 DEF TypeOK, Created, Configured, Put
  <2> QED BY <2>2, <2>4, Frame, BoundsAssumption, SMTT(30) DEF TypeOK, Pending, Fault
<1> QED BY <1>1, <1>2, <1>3, <1>4, <1>5, <1>6, <1>7, <1>8, SMTT(30)

\* Every step preserves the inductive invariant.
LEMMA InvStep == Inv /\ [Next]_vars => Inv'
<1> SUFFICES ASSUME Inv, [Next]_vars PROVE Inv'
  OBVIOUS
<1>1. CASE \E f \in Form, id \in UpstreamId : CreateUpstream(f, id)
  BY <1>1, CreateUpstreamStep
<1>2. CASE \E u \in UpstreamId, f \in Form : UpdateUpstream(u, f)
  BY <1>2, UpdateUpstreamStep
<1>3. CASE \E u \in UpstreamId, bits \in 0 .. W, id \in TunnelId : CreateTunnel(u, bits, id)
  BY <1>3, CreateTunnelStep
<1>4. CASE DeleteUpstreamRow
  BY <1>4, DeleteUpstreamRowStep
<1>5. CASE DeleteTunnelRow
  BY <1>5, DeleteTunnelRowStep, SMTT(30)
<1>6. CASE Boot
  BY <1>6, BootStep
<1>7. CASE \/ \E u \in UpstreamId : \/ ApplyUpstream(u) \/ PortTaken(u)
                                    \/ ApplyUpstreamFails(u) \/ DeleteUpstream(u)
           \/ \E t \in TunnelId : DeleteTunnel(t)
           \/ Reconcile \/ ApplyDone \/ ReconcileAborts
           \/ RemoveRenamed \/ RemoveRenamedFails
           \/ DeleteUpstreamRowFails \/ DeleteTunnelRowFails
           \/ Crash \/ Reboot \/ UNCHANGED vars
  BY <1>7, FrameSteps
<1> QED BY <1>1, <1>2, <1>3, <1>4, <1>5, <1>6, <1>7, ZenonT(60)
        DEF Next, Progress, Faulty, Operation

\* The inductive invariant holds in every reachable state.
THEOREM Invariance == Spec => []Inv
<1>1. Init => Inv
  BY InvInit
<1>2. Inv /\ [Next]_vars => Inv'
  BY InvStep
<1> QED BY <1>1, <1>2, PTL DEF Spec

\* The tables keep their types, the limits of a row among them.
THEOREM TypeCorrect == Spec => []TypeOK
<1>1. Inv => TypeOK
  BY DEF Inv
<1> QED BY <1>1, Invariance, PTL

\* No address is ever delegated twice, in any deployment.
THEOREM DelegatedOnce == Spec => []NoOverlap
<1>1. Inv => NoOverlap
  BY DEF Inv
<1> QED BY <1>1, Invariance, PTL

\* No edit or deletion of an upstream strands an allocation.
THEOREM NeverStranded == Spec => []AllocationsInside
<1>1. Inv => AllocationsInside
  BY DEF Inv
<1> QED BY <1>1, Invariance, PTL

\* Upstreams never share a device or space, nor leave through one another.
THEOREM Independence == Spec => []UpstreamsIndependent
<1>1. Inv => UpstreamsIndependent
  BY SMTT(30) DEF Inv
<1> QED BY <1>1, Invariance, PTL

\* The host's own address is never part of an allocation.
THEOREM ServerAddressKept == Spec => []ServerKeepsAddress
<1>1. Inv => ServerKeepsAddress
  <2> SUFFICES ASSUME Inv, NEW t \in DOMAIN tunnels,
                      tunnels[t].upstream \in DOMAIN upstreams,
                      NEW s \in upstreams[tunnels[t].upstream].server,
                      upstreams[tunnels[t].upstream].mode = "routed",
                      Contains(tunnels[t].cidr, s.addr)
               PROVE  FALSE
    BY SMTT(30) DEF ServerKeepsAddress
  <2>1. /\ upstreams[tunnels[t].upstream] \in Row
        /\ Valid(upstreams[tunnels[t].upstream])
        /\ tunnels[t].cidr \in Prefix
    BY SMTT(30) DEF Inv, TypeOK, RowsValid, Tunnel
  <2>2. \E r \in Reservation(upstreams[tunnels[t].upstream]) : Overlaps(r, tunnels[t].cidr)
    BY <2>1, ReservationCovers, SMTT(30)
  <2> QED BY <2>2, SMTT(30) DEF Inv, Reserved
<1> QED BY <1>1, Invariance, PTL

-----------------------------------------------------------------------------
(***************************************************************************)
(* The devices.                                                            *)
(***************************************************************************)

\* The device names of the upstreams.
Names == {upstreams[u].iface : u \in DOMAIN upstreams}

\* Without a fault, a device that is no upstream's is the one that a rename has
\* still to remove, and an upstream that is being deleted has none.
Devices ==
    faults = 0 =>
        /\ pc # "rename" => DOMAIN device \subseteq Names
        /\ pc = "rename" => DOMAIN device \subseteq Names \cup stale
        /\ pc = "deleteUpstream" => gone \in DOMAIN upstreams
        /\ pc = "deleteUpstream" => upstreams[gone].iface \notin DOMAIN device

\* A failing call is counted.
LEMMA FaultCounts ==
    ASSUME TypeOK, Fault PROVE Devices'
BY BoundsAssumption, SMTT(30) DEF TypeOK, Fault, Devices

\* A row that is added or replaced takes away at most the name that it had.
LEMMA NamesPut ==
    ASSUME NEW k, NEW row, upstreams' = Put(upstreams, k, row)
    PROVE  /\ row.iface \in Names'
           /\ \A u \in DOMAIN upstreams \ {k} : upstreams[u].iface \in Names'
BY SMTT(30) DEF Put, Names

\* Every step keeps the devices to the names, or counts a fault.
LEMMA DevicesStep ==
    ASSUME Inv, Devices, [Next]_vars PROVE Devices'
<1>0. TypeOK /\ todo \subseteq DOMAIN upstreams
  BY SMTT(30) DEF Inv, Pending
<1>1. ASSUME NEW f \in Form, NEW id \in UpstreamId, CreateUpstream(f, id) PROVE Devices'
  <2> DEFINE row == Normalize(f, DOMAIN upstreams)
  <2>1. /\ upstreams' = Put(upstreams, id, row) /\ NextId(upstreams, id)
        /\ pc = "idle" /\ pc' = "apply" /\ UNCHANGED <<device, faults>>
    BY <1>1, ZenonT(60) DEF CreateUpstream, Reconciling
  <2>2. DOMAIN upstreams \subseteq UpstreamId
    BY <1>0, SMTT(30) DEF TypeOK
  <2>3. id \notin DOMAIN upstreams
    BY <2>1, <2>2, BoundsAssumption, SMTT(30) DEF NextId, UpstreamId
  <2> HIDE DEF row
  <2>4. Names \subseteq Names'
    BY <2>1, <2>3, NamesPut, SMTT(30) DEF Names
  <2> QED BY <2>1, <2>4 DEF Devices
<1>2. ASSUME NEW u \in UpstreamId, NEW f \in Form, UpdateUpstream(u, f) PROVE Devices'
  <2> DEFINE row == Normalize(f, DOMAIN upstreams \ {u})
             old == upstreams[u].iface
  <2>1. /\ upstreams' = Put(upstreams, u, row) /\ u \in DOMAIN upstreams
        /\ pc = "idle" /\ UNCHANGED <<device, faults>>
        /\ \/ row.iface = old /\ pc' = "apply"
           \/ pc' = "rename" /\ stale' = {old}
    BY <1>2, ZenonT(60) DEF UpdateUpstream, Reconciling
  <2> HIDE DEF row
  <2>2. Names \subseteq Names' \cup {old} /\ row.iface \in Names'
    BY <2>1, NamesPut, SMTT(30) DEF Names
  <2> QED BY <2>1, <2>2 DEF Devices
<1>3. ASSUME NEW u \in UpstreamId, NEW bits \in 0 .. W, NEW id \in TunnelId,
             CreateTunnel(u, bits, id)
      PROVE  Devices'
  BY <1>3, SMTT(30) DEF CreateTunnel, Reconciling, Devices, Names
<1>4. CASE DeleteUpstreamRow
  <2>1. \A u \in DOMAIN upstreams \ {gone} : upstreams[u].iface \in Names'
    BY <1>4, SMTT(30) DEF DeleteUpstreamRow, Drop, Names
  <2> QED BY <1>4, <2>1, SMTT(30) DEF DeleteUpstreamRow, Reconciling, Devices, Names
<1>5. CASE DeleteTunnelRow
  BY <1>5, SMTT(30) DEF DeleteTunnelRow, Return, Devices, Names
<1>6. CASE Boot
  <2>1. Names \subseteq Names'
    BY <1>6, SMTT(30) DEF Boot, Migrate, Names
  <2> QED BY <1>6, <2>1 DEF Boot, Reconciling, Devices
<1>7. CASE Reconcile \/ ApplyDone
  BY <1>7, SMTT(30) DEF Reconcile, Reconciling, ApplyDone, Return, Devices, Names
<1>8. CASE RemoveRenamed
  BY <1>8, SMTT(30) DEF RemoveRenamed, Reconciling, Devices, Names
<1>9. ASSUME NEW u \in UpstreamId, ApplyUpstream(u) \/ PortTaken(u) PROVE Devices'
  <2>1. /\ u \in DOMAIN upstreams /\ device' \in {Created(u), Configured(u)}
        /\ pc = "apply" /\ UNCHANGED <<upstreams, pc, faults>>
    BY <1>0, <1>9, SMTT(30) DEF ApplyUpstream, PortTaken
  <2>2. DOMAIN device' \subseteq DOMAIN device \cup {upstreams[u].iface}
    BY <2>1, SMTT(30) DEF Created, Configured, Put
  <2> QED BY <2>1, <2>2, SMTT(30) DEF Devices, Names
<1>10. ASSUME NEW u \in UpstreamId, DeleteUpstream(u) PROVE Devices'
  BY <1>10, SMTT(30) DEF DeleteUpstream, Drop, Devices, Names
<1>11. ASSUME NEW t \in TunnelId, DeleteTunnel(t) PROVE Devices'
  <2>1. /\ DOMAIN device' = DOMAIN device /\ pc = "idle" /\ pc' = "deleteTunnel"
        /\ UNCHANGED <<upstreams, faults>>
    BY <1>11, Zenon DEF DeleteTunnel
  <2> QED BY <2>1 DEF Devices, Names
<1>12. CASE Faulty
  BY <1>0, <1>12, FaultCounts, ZenonT(60) DEF Faulty, ApplyUpstreamFails, ReconcileAborts,
     RemoveRenamedFails, DeleteUpstreamRowFails, DeleteTunnelRowFails, Crash, Reboot
<1>13. CASE UNCHANGED vars
  BY <1>13 DEF vars, Devices, Names
<1> QED BY <1>1, <1>2, <1>3, <1>4, <1>5, <1>6, <1>7, <1>8, <1>9, <1>10, <1>11, <1>12,
           <1>13, Zenon DEF Next, Progress, Operation

\* Renames and deletions of upstreams leave no device behind, as long as nothing
\* fails.
THEOREM DevicesGoWithRows == Spec => []NoDeviceLeft
<1>1. Init => Devices
  BY DEF Init, Empty, Devices, Names
<1>2. Inv /\ Devices /\ [Next]_vars => Devices'
  BY DevicesStep, SMTT(30)
<1>3. Devices => NoDeviceLeft
  BY SMTT(30) DEF Devices, NoDeviceLeft, Names
<1> QED BY <1>1, <1>2, <1>3, Invariance, PTL DEF Spec

-----------------------------------------------------------------------------
(***************************************************************************)
(* The peers.  A tunnel's peer is on the device of its upstream, so that   *)
(* DeleteTunnel, which looks there only, removes it; a rename breaks that. *)
(***************************************************************************)

\* Peer p of device d belongs to a row, and d to the upstream of that row.
Rightly(d, p) ==
    /\ p.tunnel \in DOMAIN tunnels
    /\ tunnels[p.tunnel].cidr \in p.allowed
    /\ tunnels[p.tunnel].upstream \in DOMAIN upstreams
    /\ d = upstreams[tunnels[p.tunnel].upstream].iface

\* A tunnel that is being deleted has no peer any more.
Peers ==
    /\ pc # "rename"
    /\ \A d \in DOMAIN device : \A p \in device[d].peers :
          Rightly(d, p) /\ (pc = "deleteTunnel" => p.tunnel # gone)

\* A step that removes no row and changes neither devices nor blocks.
LEMMA PeersFrame ==
    ASSUME Peers, UNCHANGED device, pc' \notin {"rename", "deleteTunnel"},
           \A d, p : Rightly(d, p) => Rightly(d, p)'
    PROVE  Peers'
BY DEF Peers

\* Every step but a rename keeps the peers with their rows.
LEMMA PeersStep ==
    ASSUME Inv, Peers, [Next]_vars, pc' # "rename" \/ UNCHANGED vars PROVE Peers'
<1>0. TypeOK /\ Pending
  BY SMTT(30) DEF Inv
<1>1. ASSUME NEW f \in Form, NEW id \in UpstreamId, CreateUpstream(f, id) PROVE Peers'
  <2> DEFINE row == Normalize(f, DOMAIN upstreams)
  <2>1. /\ upstreams' = Put(upstreams, id, row) /\ NextId(upstreams, id)
        /\ pc' = "apply" /\ UNCHANGED <<device, tunnels>>
    BY <1>1, ZenonT(60) DEF CreateUpstream, Reconciling
  <2>2. id \notin DOMAIN upstreams
    BY <1>0, <2>1, BoundsAssumption, SMTT(30) DEF NextId, UpstreamId, TypeOK
  <2> HIDE DEF row
  <2>3. \A d, p : Rightly(d, p) => Rightly(d, p)'
    BY <2>1, <2>2, SMTT(30) DEF Rightly, Put
  <2> QED BY <2>1, <2>3, PeersFrame
<1>2. ASSUME NEW u \in UpstreamId, NEW f \in Form, UpdateUpstream(u, f), pc' # "rename"
      PROVE  Peers'
  <2> DEFINE row == Normalize(f, DOMAIN upstreams \ {u})
  <2>1. /\ upstreams' = Put(upstreams, u, row) /\ u \in DOMAIN upstreams
        /\ row.iface = upstreams[u].iface /\ pc' = "apply"
        /\ UNCHANGED <<device, tunnels>>
    BY <1>2, ZenonT(60) DEF UpdateUpstream, Reconciling
  <2> HIDE DEF row
  <2>2. \A d, p : Rightly(d, p) => Rightly(d, p)'
    BY <2>1, SMTT(30) DEF Rightly, Put
  <2> QED BY <2>1, <2>2, PeersFrame
<1>3. ASSUME NEW u \in UpstreamId, NEW bits \in 0 .. W, NEW id \in TunnelId,
             CreateTunnel(u, bits, id)
      PROVE  Peers'
  <2>1. PICK b : tunnels' = Put(tunnels, id, [upstream |-> u, cidr |-> b])
    BY <1>3, Zenon DEF CreateTunnel
  <2>2. NextId(tunnels, id) /\ pc' = "apply" /\ UNCHANGED <<device, upstreams>>
    BY <1>3, ZenonT(60) DEF CreateTunnel, Reconciling
  <2>3. id \notin DOMAIN tunnels
    BY <1>0, <2>2, BoundsAssumption, SMTT(30) DEF NextId, TunnelId, TypeOK
  <2>4. \A d, p : Rightly(d, p) => Rightly(d, p)'
    BY <2>1, <2>2, <2>3, SMTT(30) DEF Rightly, Put
  <2> QED BY <2>2, <2>4, PeersFrame
<1>4. CASE DeleteUpstreamRow
  <2>1. /\ upstreams' = Drop(upstreams, gone) /\ pc = "deleteUpstream" /\ pc' = "apply"
        /\ UNCHANGED <<device, tunnels>>
    BY <1>4, ZenonT(60) DEF DeleteUpstreamRow, Reconciling
  <2>2. \A d, p : Rightly(d, p) => Rightly(d, p)'
    BY <1>0, <2>1, SMTT(30) DEF Rightly, Drop, Pending
  <2> QED BY <2>1, <2>2, PeersFrame
<1>5. CASE DeleteTunnelRow
  <2>1. /\ tunnels' = Drop(tunnels, gone) /\ pc = "deleteTunnel" /\ pc' = "idle"
        /\ UNCHANGED <<device, upstreams>>
    BY <1>5, ZenonT(60) DEF DeleteTunnelRow, Return
  <2>2. \A d, p : Rightly(d, p) /\ p.tunnel # gone => Rightly(d, p)'
    BY <2>1, SMTT(30) DEF Rightly, Drop
  <2> QED BY <2>1, <2>2 DEF Peers
<1>6. CASE Boot
  <2>1. /\ Migrate /\ pc' = "apply" /\ UNCHANGED device
    BY <1>6, ZenonT(60) DEF Boot, Reconciling
  <2>2. \A d, p : Rightly(d, p) => Rightly(d, p)'
    BY <2>1, SMTT(30) DEF Rightly, Migrate
  <2> QED BY <2>1, <2>2, PeersFrame
<1>7. ASSUME UNCHANGED <<upstreams, tunnels, device>>, pc' \notin {"rename", "deleteTunnel"}
      PROVE  Peers'
  <2>1. \A d, p : Rightly(d, p) => Rightly(d, p)'
    BY <1>7, SMTT(30) DEF Rightly
  <2> QED BY <1>7, <2>1, PeersFrame, SMTT(30)
<1>8. CASE Reconcile \/ ApplyDone \/ ReconcileAborts \/ RemoveRenamedFails
           \/ DeleteUpstreamRowFails \/ DeleteTunnelRowFails \/ Crash
  BY <1>7, <1>8, SMTT(30) DEF Reconcile, Reconciling, ApplyDone, ReconcileAborts,
     RemoveRenamedFails, DeleteUpstreamRowFails, DeleteTunnelRowFails, Crash, Return
<1>9. ASSUME NEW u \in UpstreamId,
             ApplyUpstream(u) \/ PortTaken(u) \/ ApplyUpstreamFails(u)
      PROVE  Peers'
  <2>1. /\ u \in DOMAIN upstreams /\ device' \in {device, Created(u), Configured(u)}
        /\ pc = "apply" /\ UNCHANGED <<upstreams, tunnels, pc>>
    BY <1>0, <1>9, SMTT(30) DEF ApplyUpstream, PortTaken, ApplyUpstreamFails, Pending
  <2>2. \A d, p : Rightly(d, p) => Rightly(d, p)'
    BY <2>1, SMTT(30) DEF Rightly
  <2>3. CASE device' = device
    BY <2>1, <2>2, <2>3, SMTT(30) DEF Peers
  <2>4. CASE device' = Created(u)
    <3>1. \A d \in DOMAIN device' : \A p \in device'[d].peers :
             d \in DOMAIN device /\ p \in device[d].peers
      BY <2>4, SMTT(30) DEF Created, Put
    <3> QED BY <2>1, <2>2, <3>1, SMTT(30) DEF Peers
  <2>5. CASE device' = Configured(u)
    <3>1. \A d \in DOMAIN device' : \A p \in device'[d].peers :
             \/ d \in DOMAIN device /\ p \in device[d].peers
             \/ /\ d = upstreams[u].iface
                /\ \E t \in Of(u) : p = [tunnel |-> t, allowed |-> AllowedIPs(upstreams[u], t)]
      BY <2>5, ZenonT(60) DEF Configured, Put
    <3>2. \A t \in Of(u) :
             Rightly(upstreams[u].iface,
                     [tunnel |-> t, allowed |-> AllowedIPs(upstreams[u], t)])
      BY <2>1, SMTT(30) DEF Rightly, Of, AllowedIPs
    <3> QED BY <2>1, <2>2, <3>1, <3>2, SMTT(30) DEF Peers
  <2> QED BY <2>1, <2>3, <2>4, <2>5, SMTT(30)
<1>10. ASSUME NEW u \in UpstreamId, DeleteUpstream(u) PROVE Peers'
  <2>1. /\ pc' = "deleteUpstream" /\ device' = Drop(device, upstreams[u].iface)
        /\ UNCHANGED <<upstreams, tunnels>>
    BY <1>10, ZenonT(60) DEF DeleteUpstream
  <2>2. \A d, p : Rightly(d, p) => Rightly(d, p)'
    BY <2>1 DEF Rightly
  <2> QED BY <2>1, <2>2 DEF Drop, Peers
<1>11. ASSUME NEW t \in TunnelId, DeleteTunnel(t) PROVE Peers'
  <2> DEFINE e == upstreams[tunnels[t].upstream].iface
  <2>1. /\ pc' = "deleteTunnel" /\ gone' = t /\ UNCHANGED <<upstreams, tunnels>>
        /\ device' = [device EXCEPT ![e].peers = {p \in @ : p.tunnel # t}]
    BY <1>11, ZenonT(60) DEF DeleteTunnel
  <2>2. \A d, p : Rightly(d, p) => Rightly(d, p)'
    BY <2>1, ZenonT(60) DEF Rightly
  <2>3. \A d \in DOMAIN device' : \A p \in device'[d].peers :
           d \in DOMAIN device /\ p \in device[d].peers /\ (d = e => p.tunnel # t)
    BY <2>1, SMTT(30)
  <2>4. \A d \in DOMAIN device : \A p \in device[d].peers : Rightly(d, p)
    BY SMTT(30) DEF Peers
  <2>5. \A d, p : Rightly(d, p) /\ p.tunnel = t => d = e
    BY SMTT(30) DEF Rightly
  <2> HIDE DEF e
  <2> QED BY <2>1, <2>2, <2>3, <2>4, <2>5, SMTT(30) DEF Peers
<1>12. CASE RemoveRenamed
  BY <1>12, SMTT(30) DEF RemoveRenamed, Peers
<1>13. CASE Reboot
  BY <1>13, SMTT(30) DEF Reboot, Empty, Peers
<1>14. CASE UNCHANGED vars
  BY <1>14 DEF vars, Peers, Rightly
<1> QED BY <1>1, <1>2, <1>3, <1>4, <1>5, <1>6, <1>8, <1>9, <1>10, <1>11, <1>12, <1>13,
           <1>14, ZenonT(60) DEF Next, Progress, Faulty, Operation

\* While no upstream renames its device, no order of deletions, failures and
\* restarts frees a block that the kernel still routes to a peer.
THEOREM PeersKeepTheirRows == Spec /\ [][pc' # "rename"]_vars => []PeersAreRecorded
<1>1. Init => Peers
  BY DEF Init, Empty, Peers
<1>2. Inv /\ Peers /\ [Next]_vars /\ [pc' # "rename"]_vars => Peers'
  BY PeersStep, SMTT(30)
<1>3. Peers => PeersAreRecorded
  BY DEF Peers, PeersAreRecorded, Rightly
<1> QED BY <1>1, <1>2, <1>3, Invariance, PTL DEF Spec

=============================================================================
