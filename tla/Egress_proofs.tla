---------------------------- MODULE Egress_proofs ----------------------------
(***************************************************************************)
(* The internal addresses are unique, in the table and in the kernel, and  *)
(* kept, a reconcile that nothing overtakes serves the tables, and a WARP  *)
(* test that began after one is of the stored account: for any tunnels,    *)
(* pools, goroutines and number of requests and faults.                    *)
(***************************************************************************)
EXTENDS Egress, TLAPS

-----------------------------------------------------------------------------
(***************************************************************************)
(* The locks.                                                              *)
(***************************************************************************)
Labels == {"idle", "lock", "insert", "register", "registered", "mu", "test",
           "start", "prepare", "load", "apply"}

\* What the locks are, and where App.mu and App.warpMu are held.
Locked ==
    /\ pc \in [Proc -> Labels]
    /\ holder \in [Lock -> Proc \cup {Free}]
    /\ \A p \in Proc :
         /\ pc[p] \in {"insert", "start", "prepare", "load", "apply", "test"}
              => holder["mu"] = p
         /\ pc[p] \in {"register", "registered", "mu", "test"}
              => holder["warpMu"] = p

LEMMA LockedInit == Init => Locked
  BY EgressAssumption, SMTT(30) DEF Init, Locked, Labels, Lock, Proc

\* Every step keeps to the locks.
LEMMA LockedStep ==
  ASSUME Locked, [Next]_vars
  PROVE  Locked'
<1> USE EgressAssumption DEF Locked, Labels, Lock
<1>1. ASSUME NEW p \in Handler, NEW v \in Form,
             SaveSettings(p, v)
      PROVE  Locked'
  BY <1>1, SMTT(30) DEF SaveSettings, Goto, Begin, Proc
<1>2. ASSUME NEW p \in Handler, ResetGeneralSettings(p) PROVE Locked'
  BY <1>2, SMTT(30) DEF ResetGeneralSettings, Goto, Begin, Proc, Take
<1>3. ASSUME NEW p \in Handler, NEW t \in Tunnel, NEW m \in ModeInput,
             SetTunnelV4Mode(p, t, m)
      PROVE  Locked'
  BY <1>3, SMTT(30) DEF SetTunnelV4Mode, Goto, Begin, Proc, Take
<1>4. ASSUME NEW p \in Handler, NEW u \in Upstream, NEW m \in ModeInput,
             UpdateUpstream(p, u, m)
      PROVE  Locked'
  BY <1>4, SMTT(30) DEF UpdateUpstream, Goto, Begin, Proc, Take
<1>5. ASSUME NEW p \in Handler, NEW t \in Tunnel, NEW m \in ModeInput,
             CreateTunnel(p, t, m)
      PROVE  Locked'
  BY <1>5, SMTT(30) DEF CreateTunnel, Goto, Begin, Proc, Take
<1>6. ASSUME NEW p \in Handler, NEW t \in Tunnel,
             DeleteTunnel(p, t)
      PROVE  Locked'
  BY <1>6, SMTT(30) DEF DeleteTunnel, Goto, Begin, Proc
<1>7. ASSUME NEW p \in Handler, RegisterWarp(p) PROVE Locked'
  BY <1>7, SMTT(30) DEF RegisterWarp, Goto, Begin, Proc, Take
<1>8. ASSUME NEW p \in Handler, TestWarp(p) PROVE Locked'
  BY <1>8, SMTT(30) DEF TestWarp, Goto, Begin, Proc, Take
<1>9. ASSUME NEW p \in Proc, Reconcile(p) PROVE Locked'
  BY <1>9, SMTT(30) DEF Reconcile, Goto, Take
<1>10. ASSUME NEW p \in Proc, TestWarpLocks(p) PROVE Locked'
  BY <1>10, SMTT(30) DEF TestWarpLocks, Goto, Return, Take
<1>11. ASSUME NEW p \in Proc, InsertTunnel(p) PROVE Locked'
  BY <1>11, SMTT(30) DEF InsertTunnel, Goto, Return
<1>12. ASSUME NEW p \in Proc, SaveWarpAccount(p) PROVE Locked'
  BY <1>12, SMTT(30) DEF SaveWarpAccount, Goto
<1>13. ASSUME NEW p \in Proc, RegisterWarpApplies(p) PROVE Locked'
  BY <1>13, SMTT(30) DEF RegisterWarpApplies, Goto, Return
<1>14. ASSUME NEW p \in Proc, SaveWarpTest(p) PROVE Locked'
  BY <1>14, SMTT(30) DEF SaveWarpTest, Goto, Return
<1>15. ASSUME NEW p \in Proc, TestWarpFails(p) PROVE Locked'
  BY <1>15, SMTT(30) DEF TestWarpFails, Goto, Return
<1>16. ASSUME NEW p \in Proc, ReadSettings(p) PROVE Locked'
  BY <1>16, SMTT(30) DEF ReadSettings, Goto
<1>17. ASSUME NEW p \in Proc, Prepare(p) PROVE Locked'
  BY <1>17, SMTT(30) DEF Prepare, Goto
<1>18. ASSUME NEW p \in Proc, ReconcileAborts(p) PROVE Locked'
  BY <1>18, SMTT(30) DEF ReconcileAborts, Goto, Returns, Return
<1>19. ASSUME NEW p \in Proc, Load(p) PROVE Locked'
  BY <1>19, SMTT(30) DEF Load, Goto
<1>20. ASSUME NEW p \in Proc, Apply(p) PROVE Locked'
  BY <1>20, SMTT(30) DEF Apply, Goto, Returns, Return
<1>21. ASSUME NEW p \in Proc, RegisterWarpFails(p) PROVE Locked'
  BY <1>21, SMTT(30) DEF RegisterWarpFails, Goto, Return
<1>22. ASSUME NEW p \in Proc, ApplyFails(p) PROVE Locked'
  BY <1>22, SMTT(30) DEF ApplyFails, Returns, Return, Goto
<1>23. ASSUME NEW p \in Proc, ApplyRejected(p) PROVE Locked'
  BY <1>23, SMTT(30) DEF ApplyRejected, Returns, Return, Goto
<1>24. CASE Tick
  BY <1>24, SMTT(30) DEF Tick, Goto, Proc
<1>25. CASE Crash
  BY <1>25, SMTT(30) DEF Crash
<1>26. CASE UNCHANGED vars
  BY <1>26, SMTT(30) DEF vars
<1> QED
  BY <1>1, <1>2, <1>3, <1>4, <1>5, <1>6, <1>7, <1>8, <1>9, <1>10, <1>11,
     <1>12, <1>13, <1>14, <1>15, <1>16, <1>17, <1>18, <1>19, <1>20, <1>21,
     <1>22, <1>23, <1>24, <1>25, <1>26, ZenonT(60)
     DEF Next, Request, Locks, Works

-----------------------------------------------------------------------------
(***************************************************************************)
(* The allocation, and the types.                                          *)
(***************************************************************************)
PoolAddress == UNION {AddressesOf[p] : p \in Pool}

\* Addresses that no two tunnels share.
Distinct(a) == \A s, t \in Tunnel : s # t /\ a[s] # 0 => a[s] # a[t]

\* ensureIPv4AllocationsTx gives addresses of a pool to tunnels that have none,
\* and to no two of them the same.
LEMMA AllocationsExtend ==
  ASSUME NEW v \in Settings, v.pool \in Pool, NEW a \in Allocations(v),
         tunnels \subseteq Tunnel,
         address \in [Tunnel -> PoolAddress \cup {0}],
         \A t \in Tunnel \ tunnels : address[t] = 0
  PROVE  /\ a \in [Tunnel -> PoolAddress \cup {0}]
         /\ \A t \in Tunnel : address[t] # 0 => a[t] = address[t]
         /\ \A t \in Tunnel \ tunnels : a[t] = 0
         /\ Distinct(address) => Distinct(a)
<1>1. PICK g \in [Needy(v) -> Tried(v.pool)] :
         /\ a = [t \in Tunnel |-> IF t \in Needy(v) THEN g[t] ELSE address[t]]
         /\ \A t \in Needy(v) :
              IsNextFree(g[t], v.pool,
                         Used \cup {g[s] : s \in {x \in Needy(v) : x < t}})
  BY Zenon DEF Allocations
<1>2. \A t \in Needy(v) : t \in tunnels /\ t \in Tunnel /\ address[t] = 0
  BY Zenon DEF Needy
<1>3. \A t \in Needy(v) : g[t] \in AddressesOf[v.pool]
  BY <1>1, SMTT(30) DEF Tried
<1>3a. \A t \in Needy(v) : g[t] \in PoolAddress
  BY <1>3, Zenon DEF PoolAddress
<1>4. \A s, t \in Needy(v) : s < t => g[s] # g[t]
  BY <1>1, SMTT(30) DEF IsNextFree
<1>5. \A t \in Needy(v), s \in tunnels : address[s] # 0 => g[t] # address[s]
  BY <1>1, SMTT(30) DEF IsNextFree, Used
<1>6. a \in [Tunnel -> PoolAddress \cup {0}]
  BY <1>1, <1>3a, SMTT(30)
<1>7. \A t \in Tunnel : address[t] # 0 => a[t] = address[t]
  BY <1>1, <1>2, SMTT(30)
<1>8. \A t \in Tunnel \ tunnels : a[t] = 0
  BY <1>1, <1>2, SMTT(30)
<1>9. ASSUME Distinct(address), NEW s \in Tunnel, NEW t \in Tunnel, s # t, a[s] # 0
      PROVE  a[s] # a[t]
  <2>1. CASE s \in Needy(v) /\ t \in Needy(v)
    <3>1. s < t \/ t < s BY <1>9, EgressAssumption, SMTT(30)
    <3> QED BY <3>1, <2>1, <1>1, <1>4, SMTT(30)
  <2>2. CASE s \in Needy(v) /\ t \notin Needy(v)
    BY <2>2, <1>9, <1>1, <1>5, SMTT(30)
  <2>3. CASE s \notin Needy(v) /\ t \in Needy(v)
    BY <2>3, <1>9, <1>1, <1>5, SMTT(30)
  <2>4. CASE s \notin Needy(v) /\ t \notin Needy(v)
    BY <2>4, <1>9, <1>1, SMTT(30) DEF Distinct
  <2> QED BY <2>1, <2>2, <2>3, <2>4, Zenon
<1>10. Distinct(address) => Distinct(a) BY <1>9, Zenon DEF Distinct
<1> QED BY <1>6, <1>7, <1>8, <1>10, Zenon

\* The rows and the addresses.
Rows ==
    /\ tunnels \subseteq Tunnel
    /\ address \in [Tunnel -> PoolAddress \cup {0}]
    /\ \A t \in Tunnel \ tunnels : address[t] = 0
    /\ settings \in Settings /\ cfg \in Settings
    /\ \A p \in Proc : pc[p] = "insert" =>
         /\ row.id \in Tunnel \ tunnels
         /\ row.address \in PoolAddress \cup {0}
    /\ Distinct(address)

LEMMA RowsInit == Init => Rows
  BY EgressAssumption, SMTT(30)
     DEF Init, Rows, Distinct, Default, NoAddress, Settings, Mode, Proc

\* Every step keeps the addresses distinct, and those that there are: a tunnel
\* loses its address with its row only.
LEMMA RowsStep ==
  ASSUME Rows, Locked, [Next]_vars
  PROVE  Rows' /\ \A t \in tunnels \cap tunnels' :
                    address[t] # 0 => address'[t] = address[t]
<1> DEFINE Goal == Rows' /\ \A t \in tunnels \cap tunnels' :
                              address[t] # 0 => address'[t] = address[t]
<1> USE EgressAssumption DEF table, locals
<1> SUFFICES Goal OBVIOUS
<1>default. Default \in Settings BY SMTT(30) DEF Default, Settings, Mode
<1>mutex. \A p, q \in Proc : pc[p] = "insert" /\ pc[q] = "insert" => p = q
  BY SMTT(30) DEF Locked
<1>free. holder["mu"] = Free => \A p \in Proc : pc[p] # "insert"
  BY SMTT(30) DEF Locked
<1> HIDE EgressAssumption
<1>1. ASSUME NEW p \in Handler, NEW v \in Form, SaveSettings(p, v) PROVE Goal
  <2>1. /\ settings' = v /\ UNCHANGED <<tunnels, cfg, row>>
        /\ pc[p] = "idle" /\ pc' = [pc EXCEPT ![p] = "lock"]
        /\ v.mode # "off" => v.pool \in IPv4Pool
        /\ IF v.mode # "off" THEN address' \in Allocations(v) ELSE UNCHANGED address
    BY <1>1, Zenon DEF SaveSettings, Begin, Goto
  <2>2. v \in Settings BY EgressAssumption, SMTT(30)
  <2>3. \A q \in Proc : pc'[q] = "insert" => pc[q] = "insert"
    BY <2>1, SMTT(30) DEF Locked
  <2>4. CASE v.mode # "off"
    <3>1. address' \in Allocations(v) /\ v.pool \in Pool
      BY <2>1, <2>4, EgressAssumption, Zenon
    <3>2. /\ address' \in [Tunnel -> PoolAddress \cup {0}]
          /\ \A t \in Tunnel : address[t] # 0 => address'[t] = address[t]
          /\ \A t \in Tunnel \ tunnels : address'[t] = 0
          /\ Distinct(address')
      BY <3>1, <2>2, AllocationsExtend, Zenon DEF Rows
    <3> QED BY <3>2, <2>1, <2>2, <2>3, Zenon DEF Rows, Distinct
  <2>5. CASE v.mode = "off"
    BY <2>1, <2>2, <2>3, <2>5, Zenon DEF Rows, Distinct
  <2> QED BY <2>4, <2>5, Zenon
<1>2. ASSUME NEW p \in Handler, ResetGeneralSettings(p) PROVE Goal
  <2>1. /\ UNCHANGED <<tunnels, address>> /\ settings' = Default /\ cfg' = cfg
    BY <1>2, Zenon DEF ResetGeneralSettings, Begin, Take, Goto
  <2>2. \A q \in Proc : pc'[q] = "insert" => pc[q] = "insert" /\ row' = row
    BY <1>2, SMTT(30) DEF Locked, ResetGeneralSettings, Begin, Take, Goto
  <2> QED BY <2>1, <2>2, <1>default, Zenon DEF Rows, Distinct
<1>3. ASSUME NEW p \in Handler, NEW t \in Tunnel, NEW m \in ModeInput,
             SetTunnelV4Mode(p, t, m)
      PROVE  Goal
  <2>1. /\ UNCHANGED <<tunnels, address>> /\ settings' = settings /\ cfg' = cfg
    BY <1>3, Zenon DEF SetTunnelV4Mode, Begin, Take, Goto
  <2>2. \A q \in Proc : pc'[q] = "insert" => pc[q] = "insert" /\ row' = row
    BY <1>3, SMTT(30) DEF Locked, SetTunnelV4Mode, Begin, Take, Goto
  <2> QED BY <2>1, <2>2, <1>default, Zenon DEF Rows, Distinct
<1>4. ASSUME NEW p \in Handler, NEW u \in Upstream, NEW m \in ModeInput,
             UpdateUpstream(p, u, m)
      PROVE  Goal
  <2>1. /\ UNCHANGED <<tunnels, address>> /\ settings' = settings /\ cfg' = cfg
    BY <1>4, Zenon DEF UpdateUpstream, Begin, Take, Goto
  <2>2. \A q \in Proc : pc'[q] = "insert" => pc[q] = "insert" /\ row' = row
    BY <1>4, SMTT(30) DEF Locked, UpdateUpstream, Begin, Take, Goto
  <2> QED BY <2>1, <2>2, <1>default, Zenon DEF Rows, Distinct
<1>5. ASSUME NEW p \in Handler, NEW t \in Tunnel, NEW m \in ModeInput,
             CreateTunnel(p, t, m)
      PROVE  Goal
  <2>1. /\ UNCHANGED <<settings, cfg, tunnels, address>>
        /\ holder["mu"] = Free /\ pc' = [pc EXCEPT ![p] = "insert"]
        /\ t \notin tunnels
    BY <1>5, Zenon DEF CreateTunnel, Take, Goto
  <2>2. row'.id = t /\ row'.address \in PoolAddress \cup {0}
    BY <1>5, SMTT(30) DEF CreateTunnel, PoolAddress, Tried
  <2> QED BY <2>1, <2>2, Zenon DEF Rows, Distinct
<1>6. ASSUME NEW p \in Handler, NEW t \in Tunnel, DeleteTunnel(p, t) PROVE Goal
  <2>1. /\ UNCHANGED <<settings, cfg, row, pc>>
        /\ tunnels' = tunnels \ {t}
        /\ address' = [address EXCEPT ![t] = 0] /\ holder["mu"] = Free
    BY <1>6, Zenon DEF DeleteTunnel
  <2>2. /\ address' \in [Tunnel -> PoolAddress \cup {0}]
        /\ \A s \in Tunnel \cap tunnels' : address[s] # 0 => address'[s] = address[s]
        /\ \A s \in Tunnel \ tunnels' : address'[s] = 0
        /\ tunnels' \subseteq Tunnel
    BY <2>1, SMTT(30) DEF Rows
  <2>3. Distinct(address') BY <2>1, SMTT(30) DEF Rows, Distinct
  <2> QED BY <2>1, <2>2, <2>3, <1>free, Zenon DEF Rows, Distinct
<1>7. ASSUME NEW p \in Handler, RegisterWarp(p) PROVE Goal
  <2>1. /\ UNCHANGED <<tunnels, address>> /\ settings' = settings /\ cfg' = cfg
    BY <1>7, Zenon DEF RegisterWarp, Begin, Goto
  <2>2. \A q \in Proc : pc'[q] = "insert" => pc[q] = "insert" /\ row' = row
    BY <1>7, SMTT(30) DEF Locked, RegisterWarp, Begin, Goto
  <2> QED BY <2>1, <2>2, <1>default, Zenon DEF Rows, Distinct
<1>8. ASSUME NEW p \in Handler, TestWarp(p) PROVE Goal
  <2>1. /\ UNCHANGED <<tunnels, address>> /\ settings' = settings /\ cfg' = cfg
    BY <1>8, Zenon DEF TestWarp, Begin, Goto
  <2>2. \A q \in Proc : pc'[q] = "insert" => pc[q] = "insert" /\ row' = row
    BY <1>8, SMTT(30) DEF Locked, TestWarp, Begin, Goto
  <2> QED BY <2>1, <2>2, <1>default, Zenon DEF Rows, Distinct
<1>9. ASSUME NEW p \in Proc, Reconcile(p) PROVE Goal
  <2>1. /\ UNCHANGED <<tunnels, address>> /\ settings' = settings /\ cfg' = cfg
    BY <1>9, Zenon DEF Reconcile, Goto
  <2>2. \A q \in Proc : pc'[q] = "insert" => pc[q] = "insert" /\ row' = row
    BY <1>9, SMTT(30) DEF Locked, Reconcile, Goto
  <2> QED BY <2>1, <2>2, <1>default, Zenon DEF Rows, Distinct
<1>10. ASSUME NEW p \in Proc, TestWarpLocks(p) PROVE Goal
  <2>1. /\ UNCHANGED <<tunnels, address>> /\ settings' = settings /\ cfg' \in {cfg, Default}
    BY <1>10, Zenon DEF TestWarpLocks, Goto, Return
  <2>2. \A q \in Proc : pc'[q] = "insert" => pc[q] = "insert" /\ row' = row
    BY <1>10, SMTT(30) DEF Locked, TestWarpLocks, Goto, Return, Lock
  <2> QED BY <2>1, <2>2, <1>default, Zenon DEF Rows, Distinct
<1>11. ASSUME NEW p \in Proc, InsertTunnel(p) PROVE Goal
  <2>1. CASE row.address \in Used
    <3>1. UNCHANGED <<settings, tunnels, address>> /\ pc' = [pc EXCEPT ![p] = "idle"]
          /\ cfg' = (IF holder["mu"] = p THEN Default ELSE cfg)
      BY <1>11, <2>1, Zenon DEF InsertTunnel, Return, Goto
    <3>2. \A q \in Proc : pc'[q] # "insert"
      BY <3>1, <1>11, <1>mutex, SMTT(30) DEF InsertTunnel, Locked
    <3> QED BY <3>1, <3>2, <1>default, Zenon DEF Rows, Distinct
  <2>2. CASE row.address \notin Used
    <3>1. /\ UNCHANGED <<settings, cfg>> /\ pc' = [pc EXCEPT ![p] = "start"]
          /\ tunnels' = tunnels \cup {row.id}
          /\ address' = [address EXCEPT ![row.id] = row.address]
      BY <1>11, <2>2, Zenon DEF InsertTunnel, Goto
    <3>2. \A q \in Proc : pc'[q] # "insert"
      BY <3>1, <1>11, <1>mutex, SMTT(30) DEF InsertTunnel, Locked
    <3>3. /\ row.id \in Tunnel /\ row.id \notin tunnels /\ address[row.id] = 0
          /\ row.address \in PoolAddress \cup {0}
      BY <1>11, Zenon DEF InsertTunnel, Rows
    <3>4. \A s \in Tunnel : address[s] # 0 => address[s] # row.address
      BY <2>2, SMTT(30) DEF Rows, Used
    <3>5. Distinct(address') BY <3>1, <3>3, <3>4, SMTT(30) DEF Rows, Distinct
    <3>6. /\ address' \in [Tunnel -> PoolAddress \cup {0}]
          /\ \A t \in Tunnel : address[t] # 0 => address'[t] = address[t]
          /\ \A t \in Tunnel \ tunnels' : address'[t] = 0
          /\ tunnels' \subseteq Tunnel
      BY <3>1, <3>3, SMTT(30) DEF Rows
    <3> QED BY <3>1, <3>2, <3>5, <3>6, Zenon DEF Rows, Distinct
  <2> QED BY <2>1, <2>2, Zenon
<1>12. ASSUME NEW p \in Proc, SaveWarpAccount(p) PROVE Goal
  <2>1. /\ UNCHANGED <<tunnels, address>> /\ settings' = settings /\ cfg' = cfg
    BY <1>12, Zenon DEF SaveWarpAccount, Goto
  <2>2. \A q \in Proc : pc'[q] = "insert" => pc[q] = "insert" /\ row' = row
    BY <1>12, SMTT(30) DEF Locked, SaveWarpAccount, Goto
  <2> QED BY <2>1, <2>2, <1>default, Zenon DEF Rows, Distinct
<1>13. ASSUME NEW p \in Proc, RegisterWarpApplies(p) PROVE Goal
  <2>1. /\ UNCHANGED <<tunnels, address>> /\ settings' = settings /\ cfg' \in {cfg, Default}
    BY <1>13, Zenon DEF RegisterWarpApplies, Goto, Return
  <2>2. \A q \in Proc : pc'[q] = "insert" => pc[q] = "insert" /\ row' = row
    BY <1>13, SMTT(30) DEF Locked, RegisterWarpApplies, Goto, Return, Lock
  <2> QED BY <2>1, <2>2, <1>default, Zenon DEF Rows, Distinct
<1>14. ASSUME NEW p \in Proc, SaveWarpTest(p) PROVE Goal
  <2>1. /\ UNCHANGED <<tunnels, address>> /\ settings' = settings /\ cfg' \in {cfg, Default}
    BY <1>14, Zenon DEF SaveWarpTest, Goto, Return
  <2>2. \A q \in Proc : pc'[q] = "insert" => pc[q] = "insert" /\ row' = row
    BY <1>14, SMTT(30) DEF Locked, SaveWarpTest, Goto, Return, Lock
  <2> QED BY <2>1, <2>2, <1>default, Zenon DEF Rows, Distinct
<1>15. ASSUME NEW p \in Proc, TestWarpFails(p) PROVE Goal
  <2>1. /\ UNCHANGED <<tunnels, address>> /\ settings' = settings /\ cfg' \in {cfg, Default}
    BY <1>15, Zenon DEF TestWarpFails, Goto, Return
  <2>2. \A q \in Proc : pc'[q] = "insert" => pc[q] = "insert" /\ row' = row
    BY <1>15, SMTT(30) DEF Locked, TestWarpFails, Goto, Return, Lock
  <2> QED BY <2>1, <2>2, <1>default, Zenon DEF Rows, Distinct
<1>16. ASSUME NEW p \in Proc, ReadSettings(p) PROVE Goal
  <2>1. /\ UNCHANGED <<tunnels, address>> /\ settings' = settings /\ cfg' = settings
    BY <1>16, Zenon DEF ReadSettings, Goto
  <2>2. \A q \in Proc : pc'[q] = "insert" => pc[q] = "insert" /\ row' = row
    BY <1>16, SMTT(30) DEF Locked, ReadSettings, Goto
  <2> QED BY <2>1, <2>2, <1>default, Zenon DEF Rows, Distinct
<1>17. ASSUME NEW p \in Proc, Prepare(p) PROVE Goal
  <2>1. /\ UNCHANGED <<settings, tunnels, cfg, row>>
        /\ pc' = [pc EXCEPT ![p] = "load"] /\ ~Refused(cfg)
        /\ IF NeedsIPv4(cfg) THEN address' \in Allocations(cfg) ELSE UNCHANGED address
    BY <1>17, Zenon DEF Prepare, Goto
  <2>2. cfg \in Settings BY Zenon DEF Rows
  <2>3. \A q \in Proc : pc'[q] = "insert" => pc[q] = "insert"
    BY <2>1, SMTT(30) DEF Locked
  <2>4. CASE NeedsIPv4(cfg)
    <3>1. address' \in Allocations(cfg) /\ cfg.pool \in Pool
      BY <2>1, <2>4, EgressAssumption, Zenon DEF Refused
    <3>2. /\ address' \in [Tunnel -> PoolAddress \cup {0}]
          /\ \A t \in Tunnel : address[t] # 0 => address'[t] = address[t]
          /\ \A t \in Tunnel \ tunnels : address'[t] = 0
          /\ Distinct(address')
      BY <3>1, <2>2, AllocationsExtend, Zenon DEF Rows
    <3> QED BY <3>2, <2>1, <2>2, <2>3, Zenon DEF Rows, Distinct
  <2>5. CASE ~NeedsIPv4(cfg)
    BY <2>1, <2>2, <2>3, <2>5, Zenon DEF Rows, Distinct
  <2> QED BY <2>4, <2>5, Zenon
<1>18. ASSUME NEW p \in Proc, ReconcileAborts(p) PROVE Goal
  <2>1. /\ UNCHANGED <<tunnels, address>> /\ settings' = settings /\ cfg' \in {cfg, Default}
    BY <1>18, Zenon DEF ReconcileAborts, Returns, Goto, Return
  <2>2. \A q \in Proc : pc'[q] = "insert" => pc[q] = "insert" /\ row' = row
    BY <1>18, SMTT(30) DEF Locked, ReconcileAborts, Returns, Goto, Return, Lock
  <2> QED BY <2>1, <2>2, <1>default, Zenon DEF Rows, Distinct
<1>19. ASSUME NEW p \in Proc, Load(p) PROVE Goal
  <2>1. /\ UNCHANGED <<tunnels, address>> /\ settings' = settings /\ cfg' = cfg
    BY <1>19, Zenon DEF Load, Goto
  <2>2. \A q \in Proc : pc'[q] = "insert" => pc[q] = "insert" /\ row' = row
    BY <1>19, SMTT(30) DEF Locked, Load, Goto
  <2> QED BY <2>1, <2>2, <1>default, Zenon DEF Rows, Distinct
<1>20. ASSUME NEW p \in Proc, Apply(p) PROVE Goal
  <2>1. /\ UNCHANGED <<tunnels, address>> /\ settings' = settings /\ cfg' \in {cfg, Default}
    BY <1>20, Zenon DEF Apply, Returns, Goto, Return
  <2>2. \A q \in Proc : pc'[q] = "insert" => pc[q] = "insert" /\ row' = row
    BY <1>20, SMTT(30) DEF Locked, Apply, Returns, Goto, Return, Lock
  <2> QED BY <2>1, <2>2, <1>default, Zenon DEF Rows, Distinct
<1>21. ASSUME NEW p \in Proc, RegisterWarpFails(p) PROVE Goal
  <2>1. /\ UNCHANGED <<tunnels, address>> /\ settings' = settings /\ cfg' \in {cfg, Default}
    BY <1>21, Zenon DEF RegisterWarpFails, Goto, Return
  <2>2. \A q \in Proc : pc'[q] = "insert" => pc[q] = "insert" /\ row' = row
    BY <1>21, SMTT(30) DEF Locked, RegisterWarpFails, Goto, Return, Lock
  <2> QED BY <2>1, <2>2, <1>default, Zenon DEF Rows, Distinct
<1>22. ASSUME NEW p \in Proc, ApplyFails(p) PROVE Goal
  <2>1. /\ UNCHANGED <<tunnels, address>> /\ settings' = settings /\ cfg' \in {cfg, Default}
    BY <1>22, ZenonT(60) DEF ApplyFails, Returns, Goto, Return
  <2>2. \A q \in Proc : pc'[q] = "insert" => pc[q] = "insert" /\ row' = row
    BY <1>22, SMTT(30) DEF Locked, ApplyFails, Returns, Goto, Return, Lock
  <2> QED BY <2>1, <2>2, <1>default, Zenon DEF Rows, Distinct
<1>23. ASSUME NEW p \in Proc, ApplyRejected(p) PROVE Goal
  <2>1. /\ UNCHANGED <<tunnels, address>> /\ settings' = settings /\ cfg' \in {cfg, Default}
    BY <1>23, Zenon DEF ApplyRejected, Returns, Goto, Return
  <2>2. \A q \in Proc : pc'[q] = "insert" => pc[q] = "insert" /\ row' = row
    BY <1>23, SMTT(30) DEF Locked, ApplyRejected, Returns, Goto, Return, Lock
  <2> QED BY <2>1, <2>2, <1>default, Zenon DEF Rows, Distinct
<1>24. CASE Tick
  <2>1. /\ UNCHANGED <<tunnels, address>> /\ settings' = settings /\ cfg' = cfg
    BY <1>24, Zenon DEF Tick, Goto, Proc
  <2>2. \A q \in Proc : pc'[q] = "insert" => pc[q] = "insert" /\ row' = row
    BY <1>24, SMTT(30) DEF Locked, Tick, Goto, Proc
  <2> QED BY <2>1, <2>2, <1>default, Zenon DEF Rows, Distinct
<1>25. CASE Crash
  <2>1. UNCHANGED <<settings, tunnels, address>> /\ cfg' = Default
        /\ \A q \in Proc : pc'[q] # "insert"
    BY <1>25, SMTT(30) DEF Crash
  <2> QED BY <2>1, <1>default, Zenon DEF Rows, Distinct
<1>26. CASE UNCHANGED vars
  BY <1>26, Zenon DEF vars, Rows, Distinct
<1> QED
  BY <1>1, <1>2, <1>3, <1>4, <1>5, <1>6, <1>7, <1>8, <1>9, <1>10, <1>11,
     <1>12, <1>13, <1>14, <1>15, <1>16, <1>17, <1>18, <1>19, <1>20, <1>21,
     <1>22, <1>23, <1>24, <1>25, <1>26, ZenonT(60)
     DEF Next, Request, Locks, Works

\* The other variables.
Typed ==
    /\ upMode \in [Upstream -> Mode \cup {"inherit"}]
    /\ tunMode \in [Tunnel -> Mode \cup {"inherit"}]
    /\ account \in Nat /\ tested \in Nat
    /\ kernel \in [allowed : [Tunnel -> Nat], egress : [Tunnel -> Mode], warp : Nat]
    /\ row \in [id : Tunnel \cup {0}, mode : Mode \cup {"inherit"}, address : Nat]
    /\ ts \in [Tunnel -> Nat] /\ warp \in Nat
    /\ changes \in 0 .. MaxChanges

LEMMA FunctionInto ==
  ASSUME NEW S, NEW T, NEW U, NEW f \in [S -> T], T \subseteq U
  PROVE  f \in [S -> U]
  OBVIOUS

LEMMA PoolAddresses == PoolAddress \subseteq Nat \ {0}
  BY EgressAssumption, SMTT(30) DEF PoolAddress

LEMMA TypedInit == Init => Typed
  BY EgressAssumption, SMTT(30)
     DEF Init, Typed, NoAddress, NoRow, Mode

\* What an Apply programs is of the kernel's type.
LEMMA ProgrammedType ==
  ASSUME Typed, Rows
  PROVE  Programmed(cfg, ts, warp)
           \in [allowed : [Tunnel -> Nat], egress : [Tunnel -> Mode], warp : Nat]
<1>1. \A t \in Tunnel : TunnelV4Mode(cfg, t) \in Mode
  <2>1. \A t \in Tunnel : UpstreamOf[t] \in Upstream BY EgressAssumption, Zenon
  <2>2. cfg.mode \in Mode BY SMTT(30) DEF Rows, Settings
  <2>3. \A u \in Upstream : UpstreamV4Mode(cfg, u) \in Mode
    BY <2>2, SMTT(30) DEF Typed, UpstreamV4Mode, Mode
  <2> QED BY <2>1, <2>3, SMTT(30) DEF Typed, TunnelV4Mode, V4Mode, Mode
<1>2. "off" \in Mode BY Zenon DEF Mode
<1> QED BY <1>1, <1>2, SMTT(30) DEF Programmed, Typed

LEMMA TypedStep ==
  ASSUME Typed, Rows, Rows', [Next]_vars
  PROVE  Typed'
<1> USE EgressAssumption, PoolAddresses DEF table, locals, Count
<1>address. address \in [Tunnel -> Nat]
  <2>1. address \in [Tunnel -> PoolAddress \cup {0}] BY Zenon DEF Rows
  <2>2. PoolAddress \cup {0} \subseteq Nat BY SMTT(30)
  <2> QED BY <2>1, <2>2, FunctionInto, Zenon
<1>1. ASSUME NEW p \in Handler, NEW v \in Form, SaveSettings(p, v) PROVE Typed'
  BY <1>1, SMTT(30) DEF Typed, SaveSettings, Begin, Goto, Changed
<1>2. ASSUME NEW p \in Handler, ResetGeneralSettings(p) PROVE Typed'
  BY <1>2, SMTT(30) DEF Typed, ResetGeneralSettings, Begin, Take, Goto, Changed
<1>3. ASSUME NEW p \in Handler, NEW t \in Tunnel, NEW m \in ModeInput,
             SetTunnelV4Mode(p, t, m)
      PROVE  Typed'
  BY <1>3, SMTT(30) DEF Typed, SetTunnelV4Mode, Begin, Take, Goto, Changed
<1>4. ASSUME NEW p \in Handler, NEW u \in Upstream, NEW m \in ModeInput,
             UpdateUpstream(p, u, m)
      PROVE  Typed'
  BY <1>4, SMTT(30) DEF Typed, UpdateUpstream, Begin, Take, Goto, Changed
<1>5. ASSUME NEW p \in Handler, NEW t \in Tunnel, NEW m \in ModeInput,
             CreateTunnel(p, t, m)
      PROVE  Typed'
  BY <1>5, SMTT(30) DEF Typed, CreateTunnel, Begin, Take, Goto, Tried
<1>6. ASSUME NEW p \in Handler, NEW t \in Tunnel,
             DeleteTunnel(p, t)
      PROVE  Typed'
  BY <1>6, SMTT(30) DEF Typed, DeleteTunnel, Begin, Changed
<1>7. ASSUME NEW p \in Handler, RegisterWarp(p) PROVE Typed'
  BY <1>7, SMTT(30) DEF Typed, RegisterWarp, Begin, Take, Goto
<1>8. ASSUME NEW p \in Handler, TestWarp(p) PROVE Typed'
  BY <1>8, SMTT(30) DEF Typed, TestWarp, Begin, Take, Goto
<1>9. ASSUME NEW p \in Proc, Reconcile(p) PROVE Typed'
  BY <1>9, SMTT(30) DEF Typed, Reconcile, Take, Goto
<1>10. ASSUME NEW p \in Proc, TestWarpLocks(p) PROVE Typed'
  BY <1>10, SMTT(30) DEF Typed, TestWarpLocks, Take, Goto, Return, NoRow, NoAddress
<1>11. ASSUME NEW p \in Proc, InsertTunnel(p) PROVE Typed'
  BY <1>11, SMTT(30) DEF Typed, InsertTunnel, Goto, Return, Changed, NoRow, NoAddress
<1>12. ASSUME NEW p \in Proc, SaveWarpAccount(p) PROVE Typed'
  BY <1>12, SMTT(30) DEF Typed, SaveWarpAccount, Goto, Changed
<1>13. ASSUME NEW p \in Proc, RegisterWarpApplies(p) PROVE Typed'
  BY <1>13, SMTT(30) DEF Typed, RegisterWarpApplies, Goto, Return, NoRow, NoAddress
<1>14. ASSUME NEW p \in Proc, SaveWarpTest(p) PROVE Typed'
  BY <1>14, SMTT(30) DEF Typed, SaveWarpTest, Goto, Return, NoRow, NoAddress
<1>15. ASSUME NEW p \in Proc, TestWarpFails(p) PROVE Typed'
  BY <1>15, SMTT(30) DEF Typed, TestWarpFails, Goto, Return, NoRow, NoAddress
<1>16. ASSUME NEW p \in Proc, ReadSettings(p) PROVE Typed'
  BY <1>16, SMTT(30) DEF Typed, ReadSettings, Goto
<1>17. ASSUME NEW p \in Proc, Prepare(p) PROVE Typed'
  BY <1>17, SMTT(30) DEF Typed, Prepare, Goto
<1>18. ASSUME NEW p \in Proc, ReconcileAborts(p) PROVE Typed'
  BY <1>18, SMTT(30) DEF Typed, ReconcileAborts, Returns, Return, Goto, NoRow, NoAddress
<1>19. ASSUME NEW p \in Proc, Load(p) PROVE Typed'
  BY <1>19, <1>address, SMTT(30) DEF Typed, Load, Goto
<1>20. ASSUME NEW p \in Proc, Apply(p) PROVE Typed'
  BY <1>20, ProgrammedType, SMTT(30) DEF Typed, Apply, Returns, Return, Goto, NoRow, NoAddress
<1>21. ASSUME NEW p \in Proc, RegisterWarpFails(p) PROVE Typed'
  <2>1. Return(p) /\ UNCHANGED <<table, kernel>>
        /\ Count
    BY <1>21, ZenonT(60) DEF RegisterWarpFails
  <2> QED BY <2>1, SMTT(30) DEF Typed, Return, Goto, NoRow, NoAddress, Count
<1>22. ASSUME NEW p \in Proc, ApplyFails(p) PROVE Typed'
  <2> DEFINE all == Programmed(cfg, ts, warp)
  <2>1. PICK S \in SUBSET Upstream, w \in {kernel.warp, all.warp},
            e \in {kernel.egress, all.egress} :
          kernel' = [allowed |-> [t \in Tunnel |->
                                   IF UpstreamOf[t] \in S THEN all.allowed[t]
                                   ELSE kernel.allowed[t]],
                     egress |-> e, warp |-> w]
    BY <1>22, ZenonT(60) DEF ApplyFails
  <2>2. all \in [allowed : [Tunnel -> Nat], egress : [Tunnel -> Mode], warp : Nat]
    BY ProgrammedType, SMTT(30)
  <2>3. kernel' \in [allowed : [Tunnel -> Nat], egress : [Tunnel -> Mode], warp : Nat]
    <3> HIDE DEF all
    <3> QED BY <2>1, <2>2, SMTT(30) DEF Typed
  <2> QED BY <1>22, <2>3, SMTT(30) DEF Typed, ApplyFails, Returns, Return, Goto, NoRow, NoAddress
<1>23. ASSUME NEW p \in Proc, ApplyRejected(p) PROVE Typed'
  <2> DEFINE all == Programmed(cfg, ts, warp)
  <2>1. kernel' = [all EXCEPT !.egress = kernel.egress]
    BY <1>23, Zenon DEF ApplyRejected
  <2>2. all \in [allowed : [Tunnel -> Nat], egress : [Tunnel -> Mode], warp : Nat]
    BY ProgrammedType, Zenon
  <2>3. kernel' \in [allowed : [Tunnel -> Nat], egress : [Tunnel -> Mode], warp : Nat]
    <3> HIDE DEF all
    <3> QED BY <2>1, <2>2, SMTT(30) DEF Typed
  <2>4. /\ Return(p)
        /\ UNCHANGED <<settings, upMode, tunnels, tunMode, address, account, tested, changes>>
    BY <1>23, Zenon DEF ApplyRejected, Returns
  <2> QED BY <2>3, <2>4, SMTT(30) DEF Typed, Return, Goto, NoRow, NoAddress
<1>24. CASE Tick
  BY <1>24, SMTT(30) DEF Typed, Tick, Goto
<1>25. CASE Crash
  BY <1>25, SMTT(30) DEF Typed, Crash, NoRow, NoAddress
<1>26. CASE UNCHANGED vars
  BY <1>26, Zenon DEF vars, Typed
<1> QED
  BY <1>1, <1>2, <1>3, <1>4, <1>5, <1>6, <1>7, <1>8, <1>9, <1>10, <1>11,
     <1>12, <1>13, <1>14, <1>15, <1>16, <1>17, <1>18, <1>19, <1>20, <1>21,
     <1>22, <1>23, <1>24, <1>25, <1>26, ZenonT(60)
     DEF Next, Request, Locks, Works

\* The flags, of the daemon and of the observer.
Flags ==
    /\ serving \in BOOLEAN /\ fresh \in BOOLEAN /\ settled \in BOOLEAN
    /\ began \in BOOLEAN /\ sure \in BOOLEAN
    /\ health \in {"ok", "error"} /\ outcome \in {"ok", "failed", "refused"}

LEMMA FlagsStep ==
  ASSUME Flags, [Next]_vars
  PROVE  Flags'
<1> USE DEF Flags, seen
<1>1. ASSUME NEW p \in Handler, NEW v \in Form, SaveSettings(p, v) PROVE Flags'
  BY <1>1, Zenon DEF SaveSettings, Begin, Goto, Changed
<1>2. ASSUME NEW p \in Handler, ResetGeneralSettings(p) PROVE Flags'
  BY <1>2, Zenon DEF ResetGeneralSettings, Begin, Take, Goto, Changed
<1>3. ASSUME NEW p \in Handler, NEW t \in Tunnel, NEW m \in ModeInput,
             SetTunnelV4Mode(p, t, m)
      PROVE  Flags'
  BY <1>3, Zenon DEF SetTunnelV4Mode, Begin, Take, Goto, Changed
<1>4. ASSUME NEW p \in Handler, NEW u \in Upstream, NEW m \in ModeInput,
             UpdateUpstream(p, u, m)
      PROVE  Flags'
  BY <1>4, Zenon DEF UpdateUpstream, Begin, Take, Goto, Changed
<1>5. ASSUME NEW p \in Handler, NEW t \in Tunnel, NEW m \in ModeInput,
             CreateTunnel(p, t, m)
      PROVE  Flags'
  BY <1>5, ZenonT(60) DEF CreateTunnel, Begin
<1>6. ASSUME NEW p \in Handler, NEW t \in Tunnel,
             DeleteTunnel(p, t)
      PROVE  Flags'
  BY <1>6, Zenon DEF DeleteTunnel, Begin, Changed
<1>7. ASSUME NEW p \in Handler, RegisterWarp(p) PROVE Flags'
  BY <1>7, Zenon DEF RegisterWarp, Begin, Take, Goto
<1>8. ASSUME NEW p \in Handler, TestWarp(p) PROVE Flags'
  BY <1>8, Zenon DEF TestWarp, Begin, Take, Goto
<1>9. ASSUME NEW p \in Proc, Reconcile(p) PROVE Flags'
  BY <1>9, Zenon DEF Reconcile, Take, Goto
<1>10. ASSUME NEW p \in Proc, TestWarpLocks(p) PROVE Flags'
  BY <1>10, Zenon DEF TestWarpLocks, Take, Goto, Return
<1>11. ASSUME NEW p \in Proc, InsertTunnel(p) PROVE Flags'
  BY <1>11, Zenon DEF InsertTunnel, Goto, Return, Changed
<1>12. ASSUME NEW p \in Proc, SaveWarpAccount(p) PROVE Flags'
  BY <1>12, Zenon DEF SaveWarpAccount, Goto, Changed
<1>13. ASSUME NEW p \in Proc, RegisterWarpApplies(p) PROVE Flags'
  BY <1>13, Zenon DEF RegisterWarpApplies, Goto, Return
<1>14. ASSUME NEW p \in Proc, SaveWarpTest(p) PROVE Flags'
  BY <1>14, Zenon DEF SaveWarpTest, Goto, Return
<1>15. ASSUME NEW p \in Proc, TestWarpFails(p) PROVE Flags'
  BY <1>15, Zenon DEF TestWarpFails, Goto, Return
<1>16. ASSUME NEW p \in Proc, ReadSettings(p) PROVE Flags'
  BY <1>16, Zenon DEF ReadSettings, Goto
<1>17. ASSUME NEW p \in Proc, Prepare(p) PROVE Flags'
  BY <1>17, Zenon DEF Prepare, Goto
<1>18. ASSUME NEW p \in Proc, ReconcileAborts(p) PROVE Flags'
  BY <1>18, Zenon DEF ReconcileAborts, Returns, Return, Goto
<1>19. ASSUME NEW p \in Proc, Load(p) PROVE Flags'
  BY <1>19, Zenon DEF Load, Goto
<1>20. ASSUME NEW p \in Proc, Apply(p) PROVE Flags'
  BY <1>20, Zenon DEF Apply, Returns, Return, Goto
<1>21. ASSUME NEW p \in Proc, RegisterWarpFails(p) PROVE Flags'
  BY <1>21, Zenon DEF RegisterWarpFails, Return, Goto
<1>22. ASSUME NEW p \in Proc, ApplyFails(p) PROVE Flags'
  BY <1>22, Zenon DEF ApplyFails, Returns, Return, Goto
<1>23. ASSUME NEW p \in Proc, ApplyRejected(p) PROVE Flags'
  BY <1>23, Zenon DEF ApplyRejected, Returns, Return, Goto
<1>24. CASE Tick
  BY <1>24, Zenon DEF Tick, Goto
<1>25. CASE Crash
  BY <1>25, Zenon DEF Crash
<1>26. CASE UNCHANGED vars
  BY <1>26, ZenonT(60) DEF vars
<1> QED
  BY <1>1, <1>2, <1>3, <1>4, <1>5, <1>6, <1>7, <1>8, <1>9, <1>10, <1>11,
     <1>12, <1>13, <1>14, <1>15, <1>16, <1>17, <1>18, <1>19, <1>20, <1>21,
     <1>22, <1>23, <1>24, <1>25, <1>26, ZenonT(60)
     DEF Next, Request, Locks, Works

-----------------------------------------------------------------------------
(***************************************************************************)
(* The kernel follows the table.                                           *)
(***************************************************************************)

\* A peer is allowed no address but its tunnel's, what a reconcile is about to
\* apply included.
Follows ==
    /\ \A t \in Tunnel : kernel.allowed[t] # 0 => kernel.allowed[t] = address[t]
    /\ \A p \in Proc : pc[p] = "apply" =>
         \A t \in Tunnel : ts[t] # 0 => ts[t] = address[t]

LEMMA FollowsInit == Init => Follows
  BY EgressAssumption, SMTT(30) DEF Init, Follows, NoAddress, Proc

\* A step of the code of a goroutine, short of an Apply.
LEMMA FollowsGoto ==
  ASSUME Follows, Locked, NEW p \in Proc, NEW l, l # "apply",
         Goto(p, l), UNCHANGED <<address, kernel, ts>>
  PROVE  Follows'
<1>1. \A q \in Proc : pc'[q] = "apply" => pc'[q] = pc[q]
  BY ZenonT(60) DEF Locked, Goto
<1> QED BY <1>1, ZenonT(60) DEF Follows

\* A return: what the goroutine had read is gone, and no other goroutine's.
LEMMA FollowsReturn ==
  ASSUME Follows, Locked, NEW p \in Proc, Return(p),
         UNCHANGED <<address, kernel>>
  PROVE  Follows'
<1>1. /\ pc' = [pc EXCEPT ![p] = "idle"]
      /\ ts' = IF holder["mu"] = p THEN NoAddress ELSE ts
  BY Zenon DEF Return, Goto
<1>2. \A q \in Proc : pc'[q] = "apply" => pc'[q] = pc[q] /\ q # p
  BY <1>1, ZenonT(60) DEF Locked
<1>3. \A q \in Proc : pc'[q] = "apply" => holder["mu"] # p
  BY <1>2, ZenonT(60) DEF Locked
<1> QED BY <1>1, <1>2, <1>3, ZenonT(60) DEF Follows

LEMMA FollowsStep ==
  ASSUME Follows, Typed, Rows, Locked, [Next]_vars,
         \A t \in tunnels \cap tunnels' : address[t] # 0 => address'[t] = address[t],
         Rows'
  PROVE  Follows'
<1> USE EgressAssumption DEF table, locals
<1>kept. ASSUME tunnels \subseteq tunnels', NEW t \in Tunnel, address[t] # 0
         PROVE  address'[t] = address[t]
  BY <1>kept, Zenon DEF Rows
<1>mu. \A p, q \in Proc :
         /\ pc[p] \in {"insert", "start", "prepare", "load", "apply", "test"}
         /\ pc[q] \in {"insert", "start", "prepare", "load", "apply", "test"}
         => p = q
  BY SMTT(30) DEF Locked
<1>free. holder["mu"] = Free => \A p \in Proc : pc[p] # "apply"
  BY SMTT(30) DEF Locked
<1>programmed. \A t \in Tunnel :
     Programmed(cfg, ts, warp).allowed[t] \in {0, ts[t]}
  BY SMTT(30) DEF Programmed
<1>1. ASSUME NEW p \in Handler, NEW v \in Form,
             SaveSettings(p, v)
      PROVE  Follows'
  <2>1. /\ UNCHANGED kernel /\ tunnels \subseteq tunnels'
    BY <1>1, Zenon DEF SaveSettings, Begin, Goto, Changed
  <2>2. \A t \in Tunnel : kernel.allowed[t] # 0 => kernel.allowed[t] = address'[t]
    BY <2>1, <1>kept, ZenonT(60) DEF Follows
  <2>3. \A q \in Proc : pc'[q] = "apply" =>
          \A t \in Tunnel : ts'[t] # 0 => ts'[t] = address'[t]
    BY <2>1, <1>1, <1>kept, <1>mu, SMTT(30) DEF Follows, Locked, SaveSettings, Begin, Goto, Changed
  <2> QED BY <2>1, <2>2, <2>3, Zenon DEF Follows
<1>2. ASSUME NEW p \in Handler, ResetGeneralSettings(p) PROVE Follows'
  <2>1. Goto(p, "start") /\ UNCHANGED <<address, kernel, ts>>
    BY <1>2, ZenonT(60) DEF ResetGeneralSettings
  <2> QED BY <2>1, FollowsGoto, ZenonT(60) DEF Proc
<1>3. ASSUME NEW p \in Handler, NEW t \in Tunnel, NEW m \in ModeInput,
             SetTunnelV4Mode(p, t, m)
      PROVE  Follows'
  <2>1. Goto(p, "start") /\ UNCHANGED <<address, kernel, ts>>
    BY <1>3, ZenonT(60) DEF SetTunnelV4Mode
  <2> QED BY <2>1, FollowsGoto, ZenonT(60) DEF Proc
<1>4. ASSUME NEW p \in Handler, NEW u \in Upstream, NEW m \in ModeInput,
             UpdateUpstream(p, u, m)
      PROVE  Follows'
  <2>1. Goto(p, "start") /\ UNCHANGED <<address, kernel, ts>>
    BY <1>4, ZenonT(60) DEF UpdateUpstream
  <2> QED BY <2>1, FollowsGoto, ZenonT(60) DEF Proc
<1>5. ASSUME NEW p \in Handler, NEW t \in Tunnel, NEW m \in ModeInput,
             CreateTunnel(p, t, m)
      PROVE  Follows'
  <2>1. Goto(p, "insert") /\ UNCHANGED <<address, kernel, ts>>
    BY <1>5, ZenonT(60) DEF CreateTunnel
  <2> QED BY <2>1, FollowsGoto, ZenonT(60) DEF Proc
<1>6. ASSUME NEW p \in Handler, NEW t \in Tunnel,
             DeleteTunnel(p, t)
      PROVE  Follows'
  <2>1. /\ UNCHANGED pc /\ holder["mu"] = Free
        /\ kernel' = [kernel EXCEPT !.allowed[t] = 0]
        /\ address' = [address EXCEPT ![t] = 0]
    BY <1>6, Zenon DEF DeleteTunnel
  <2>2. \A s \in Tunnel : kernel'.allowed[s] # 0 => kernel'.allowed[s] = address'[s]
    BY <2>1, SMTT(30) DEF Follows, Typed, Rows
  <2> QED BY <2>1, <2>2, <1>free, Zenon DEF Follows
<1>7. ASSUME NEW p \in Handler, RegisterWarp(p) PROVE Follows'
  <2>1. Goto(p, "register") /\ UNCHANGED <<address, kernel, ts>>
    BY <1>7, ZenonT(60) DEF RegisterWarp
  <2> QED BY <2>1, FollowsGoto, ZenonT(60) DEF Proc
<1>8. ASSUME NEW p \in Handler, TestWarp(p) PROVE Follows'
  <2>1. Goto(p, "mu") /\ UNCHANGED <<address, kernel, ts>>
    BY <1>8, ZenonT(60) DEF TestWarp
  <2> QED BY <2>1, FollowsGoto, ZenonT(60) DEF Proc
<1>9. ASSUME NEW p \in Proc, Reconcile(p) PROVE Follows'
  <2>1. Goto(p, "start") /\ UNCHANGED <<address, kernel, ts>>
    BY <1>9, ZenonT(60) DEF Reconcile
  <2> QED BY <2>1, FollowsGoto, ZenonT(60) DEF Proc
<1>10. ASSUME NEW p \in Proc, TestWarpLocks(p) PROVE Follows'
  <2>1. UNCHANGED <<address, kernel>>
    BY <1>10, ZenonT(60) DEF TestWarpLocks
  <2>2. CASE Goto(p, "test") /\ UNCHANGED ts
    BY <2>1, <2>2, FollowsGoto, ZenonT(60)
  <2>3. CASE Return(p)
    BY <2>1, <2>3, FollowsReturn, Zenon
  <2> QED BY <1>10, <2>2, <2>3, ZenonT(60) DEF TestWarpLocks, Take
<1>11. ASSUME NEW p \in Proc, InsertTunnel(p) PROVE Follows'
  <2>1. UNCHANGED kernel
    BY <1>11, ZenonT(60) DEF InsertTunnel
  <2>2. ASSUME tunnels' = tunnels \cup {row.id}, Goto(p, "start"), UNCHANGED ts
        PROVE  Follows'
    <3>1. \A t \in Tunnel : address[t] # 0 => address'[t] = address[t]
      BY <2>2, <1>kept, Zenon
    <3>2. \A q \in Proc : pc'[q] = "apply" => pc'[q] = pc[q]
      BY <2>2, ZenonT(60) DEF Goto, Locked
    <3> QED BY <2>1, <2>2, <3>1, <3>2, ZenonT(60) DEF Follows
  <2>3. CASE Return(p) /\ UNCHANGED address
    BY <2>1, <2>3, FollowsReturn, Zenon
  <2> QED BY <1>11, <2>2, <2>3, ZenonT(60) DEF InsertTunnel
<1>12. ASSUME NEW p \in Proc, SaveWarpAccount(p) PROVE Follows'
  <2>1. /\ UNCHANGED kernel /\ tunnels \subseteq tunnels'
    BY <1>12, ZenonT(60) DEF SaveWarpAccount, Goto, Changed
  <2>2. \A t \in Tunnel : kernel.allowed[t] # 0 => kernel.allowed[t] = address'[t]
    BY <2>1, <1>kept, Zenon DEF Follows
  <2>3. \A q \in Proc : pc'[q] = "apply" =>
          \A t \in Tunnel : ts'[t] # 0 => ts'[t] = address'[t]
    BY <2>1, <1>12, <1>kept, <1>mu, SMTT(30) DEF Follows, Locked, SaveWarpAccount, Goto, Changed
  <2> QED BY <2>1, <2>2, <2>3, Zenon DEF Follows
<1>13. ASSUME NEW p \in Proc, RegisterWarpApplies(p) PROVE Follows'
  <2>1. UNCHANGED <<address, kernel>>
    BY <1>13, ZenonT(60) DEF RegisterWarpApplies
  <2>2. CASE Goto(p, "lock") /\ UNCHANGED ts
    BY <2>1, <2>2, FollowsGoto, ZenonT(60)
  <2>3. CASE Return(p)
    BY <2>1, <2>3, FollowsReturn, Zenon
  <2> QED BY <1>13, <2>2, <2>3, ZenonT(60) DEF RegisterWarpApplies
<1>14. ASSUME NEW p \in Proc, SaveWarpTest(p) PROVE Follows'
  <2>1. Return(p) /\ UNCHANGED <<address, kernel>>
    BY <1>14, ZenonT(60) DEF SaveWarpTest
  <2> QED BY <2>1, FollowsReturn, Zenon
<1>15. ASSUME NEW p \in Proc, TestWarpFails(p) PROVE Follows'
  <2>1. Return(p) /\ UNCHANGED <<address, kernel>>
    BY <1>15, ZenonT(60) DEF TestWarpFails
  <2> QED BY <2>1, FollowsReturn, Zenon
<1>16. ASSUME NEW p \in Proc, ReadSettings(p) PROVE Follows'
  <2>1. Goto(p, "prepare") /\ UNCHANGED <<address, kernel, ts>>
    BY <1>16, ZenonT(60) DEF ReadSettings
  <2> QED BY <2>1, FollowsGoto, ZenonT(60) DEF Proc
<1>17. ASSUME NEW p \in Proc, Prepare(p) PROVE Follows'
  <2>1. /\ UNCHANGED kernel /\ tunnels \subseteq tunnels'
    BY <1>17, ZenonT(60) DEF Prepare, Goto
  <2>2. \A t \in Tunnel : kernel.allowed[t] # 0 => kernel.allowed[t] = address'[t]
    BY <2>1, <1>kept, Zenon DEF Follows
  <2>3. \A q \in Proc : pc'[q] = "apply" =>
          \A t \in Tunnel : ts'[t] # 0 => ts'[t] = address'[t]
    BY <2>1, <1>17, <1>kept, <1>mu, SMTT(30) DEF Follows, Locked, Prepare, Goto
  <2> QED BY <2>1, <2>2, <2>3, Zenon DEF Follows
<1>18. ASSUME NEW p \in Proc, ReconcileAborts(p) PROVE Follows'
  <2>1. Return(p) /\ UNCHANGED <<address, kernel>>
    BY <1>18, ZenonT(60) DEF ReconcileAborts, Returns
  <2> QED BY <2>1, FollowsReturn, Zenon
<1>19. ASSUME NEW p \in Proc, Load(p) PROVE Follows'
  <2>1. /\ UNCHANGED kernel /\ tunnels \subseteq tunnels'
    BY <1>19, ZenonT(60) DEF Load, Goto
  <2>2. \A t \in Tunnel : kernel.allowed[t] # 0 => kernel.allowed[t] = address'[t]
    BY <2>1, <1>kept, Zenon DEF Follows
  <2>3. \A q \in Proc : pc'[q] = "apply" =>
          \A t \in Tunnel : ts'[t] # 0 => ts'[t] = address'[t]
    BY <2>1, <1>19, <1>kept, <1>mu, SMTT(30) DEF Follows, Locked, Load, Goto
  <2> QED BY <2>1, <2>2, <2>3, Zenon DEF Follows
<1>20. ASSUME NEW p \in Proc, Apply(p) PROVE Follows'
  <2>1. /\ UNCHANGED address /\ pc[p] = "apply"
        /\ pc' = [pc EXCEPT ![p] = "idle"]
    BY <1>20, Zenon DEF Apply, Returns, Return, Goto
  <2>2. \A t \in Tunnel : kernel'.allowed[t] \in {0, ts[t]}
    BY <1>20, <1>programmed, ZenonT(60) DEF Apply
  <2>3. \A q \in Proc : pc'[q] # "apply"
    BY <2>1, <1>mu, SMTT(30) DEF Locked
  <2> QED BY <2>1, <2>2, <2>3, Zenon DEF Follows
<1>21. ASSUME NEW p \in Proc, RegisterWarpFails(p) PROVE Follows'
  <2>1. Return(p) /\ UNCHANGED <<address, kernel>>
    BY <1>21, ZenonT(60) DEF RegisterWarpFails
  <2> QED BY <2>1, FollowsReturn, Zenon
<1>22. ASSUME NEW p \in Proc, ApplyFails(p) PROVE Follows'
  <2>1. /\ UNCHANGED address /\ pc[p] = "apply"
        /\ pc' = [pc EXCEPT ![p] = "idle"]
    BY <1>22, Zenon DEF ApplyFails, Returns, Return, Goto
  <2>2. \A t \in Tunnel : kernel'.allowed[t] \in {0, ts[t], kernel.allowed[t]}
    <3> DEFINE all == Programmed(cfg, ts, warp)
    <3>1. PICK S \in SUBSET Upstream, w \in {kernel.warp, all.warp},
              e \in {kernel.egress, all.egress} :
            kernel' = [allowed |-> [t \in Tunnel |->
                                     IF UpstreamOf[t] \in S THEN all.allowed[t]
                                     ELSE kernel.allowed[t]],
                       egress |-> e, warp |-> w]
      BY <1>22, ZenonT(60) DEF ApplyFails
    <3>2. \A t \in Tunnel : kernel'.allowed[t] =
             IF UpstreamOf[t] \in S THEN all.allowed[t] ELSE kernel.allowed[t]
      BY <3>1, ZenonT(60)
    <3> QED BY <3>2, <1>programmed, Zenon
  <2>3. \A q \in Proc : pc'[q] # "apply"
    BY <2>1, <1>mu, SMTT(30) DEF Locked
  <2> QED BY <2>1, <2>2, <2>3, Zenon DEF Follows
<1>23. ASSUME NEW p \in Proc, ApplyRejected(p) PROVE Follows'
  <2>1. /\ UNCHANGED address /\ pc[p] = "apply"
        /\ pc' = [pc EXCEPT ![p] = "idle"]
    BY <1>23, Zenon DEF ApplyRejected, Returns, Return, Goto
  <2>2. \A t \in Tunnel : kernel'.allowed[t] \in {0, ts[t]}
    <3> DEFINE all == Programmed(cfg, ts, warp)
    <3>1. kernel' = [all EXCEPT !.egress = kernel.egress]
      BY <1>23, Zenon DEF ApplyRejected
    <3>2. kernel'.allowed = all.allowed
      BY <3>1, SMTT(30) DEF Programmed
    <3> QED BY <3>2, <1>programmed, Zenon
  <2>3. \A q \in Proc : pc'[q] # "apply"
    BY <2>1, <1>mu, SMTT(30) DEF Locked
  <2> QED BY <2>1, <2>2, <2>3, Zenon DEF Follows
<1>24. CASE Tick
  <2>1. Goto(Ticker, "lock") /\ UNCHANGED <<address, kernel, ts>>
    BY <1>24, ZenonT(60) DEF Tick
  <2> QED BY <2>1, FollowsGoto, ZenonT(60) DEF Proc
<1>25. CASE Crash
  <2>1. UNCHANGED <<address, kernel>>
    BY <1>25, ZenonT(60) DEF Crash
  <2>2. \A p \in Proc : pc'[p] # "apply"
    BY <1>25, ZenonT(60) DEF Crash
  <2> QED BY <2>1, <2>2, ZenonT(60) DEF Follows
<1>26. CASE UNCHANGED vars
  BY <1>26, Zenon DEF vars, Follows
<1> QED
  BY <1>1, <1>2, <1>3, <1>4, <1>5, <1>6, <1>7, <1>8, <1>9, <1>10, <1>11,
     <1>12, <1>13, <1>14, <1>15, <1>16, <1>17, <1>18, <1>19, <1>20, <1>21,
     <1>22, <1>23, <1>24, <1>25, <1>26, ZenonT(60)
     DEF Next, Request, Locks, Works

-----------------------------------------------------------------------------
(***************************************************************************)
(* The theorems.                                                           *)
(***************************************************************************)
IInv == Locked /\ Rows /\ Typed /\ Flags /\ Follows

LEMMA Invariance == Spec => []IInv
<1>1. Init => IInv
  <2>1. Init => Flags BY Zenon DEF Init, Flags
  <2> QED BY <2>1, LockedInit, RowsInit, TypedInit, FollowsInit, Zenon DEF IInv
<1>2. IInv /\ [Next]_vars => IInv'
  <2> SUFFICES ASSUME IInv, [Next]_vars PROVE IInv' OBVIOUS
  <2>1. Locked /\ Rows /\ Typed /\ Flags /\ Follows BY Zenon DEF IInv
  <2>2. Locked' BY <2>1, LockedStep, Zenon
  <2>3. Rows' /\ \A t \in tunnels \cap tunnels' :
                   address[t] # 0 => address'[t] = address[t]
    BY <2>1, RowsStep, Zenon
  <2>4. Typed' BY <2>1, <2>3, TypedStep, Zenon
  <2>5. Follows' BY <2>1, <2>3, FollowsStep, Zenon
  <2>6. Flags' BY <2>1, FlagsStep, Zenon
  <2> QED BY <2>2, <2>3, <2>4, <2>5, <2>6, Zenon DEF IInv
<1> QED BY <1>1, <1>2, PTL DEF Spec

\* The types: a stored or a programmed address is one of a pool, or none.
THEOREM TypeCorrect == Spec => []TypeOK
<1>1. IInv => TypeOK
  <2> SUFFICES ASSUME IInv PROVE TypeOK OBVIOUS
  <2>1. Locked /\ Rows /\ Typed /\ Flags BY Zenon DEF IInv
  <2>2. address \in [Tunnel -> (UNION {AddressesOf[p] : p \in Pool}) \cup {0}]
    BY <2>1, Zenon DEF Rows, PoolAddress
  <2>3. settings \in Settings /\ cfg \in Settings /\ tunnels \subseteq Tunnel
    BY <2>1, Zenon DEF Rows
  <2>4. /\ holder \in [Lock -> Proc \cup {Free}]
        /\ pc \in [Proc -> {"idle", "lock", "insert", "register", "registered",
                            "mu", "test", "start", "prepare", "load", "apply"}]
    BY <2>1, Zenon DEF Locked, Labels
  <2> QED BY <2>1, <2>2, <2>3, <2>4, Zenon DEF Typed, Flags, TypeOK
<1> QED BY <1>1, Invariance, PTL

\* No two tunnels have the same internal address, in the table or as peers,
\* although App.SaveSettings allocates addresses without App.mu.
THEOREM AddressesAreUnique == Spec => []AddressesUnique
<1>1. IInv => AddressesUnique
  <2> SUFFICES ASSUME IInv, NEW s \in Tunnel, NEW t \in Tunnel, s # t
               PROVE  /\ address[s] # 0 => address[s] # address[t]
                      /\ kernel.allowed[s] # 0 => kernel.allowed[s] # kernel.allowed[t]
    BY Zenon DEF AddressesUnique
  <2>1. Distinct(address) BY Zenon DEF IInv, Rows
  <2>2. /\ kernel.allowed[s] # 0 => kernel.allowed[s] = address[s]
        /\ kernel.allowed[t] # 0 => kernel.allowed[t] = address[t]
    BY Zenon DEF IInv, Follows
  <2> QED BY <2>1, <2>2, Zenon DEF Distinct
<1> QED BY <1>1, Invariance, PTL

\* A tunnel keeps its internal address as long as it has a row: neither saved
\* settings nor a reconcile move it.
THEOREM AddressesAreKept == Spec => AddressIsKept
<1> DEFINE Kept == \A t \in tunnels \cap tunnels' :
                      address[t] # 0 => address'[t] = address[t]
<1>1. IInv /\ [Next]_vars => [Kept]_vars
  BY RowsStep, Zenon DEF IInv
<1>2. Spec => [][Next]_vars BY PTL DEF Spec
<1>3. Spec => [][Kept]_vars BY <1>1, <1>2, Invariance, PTL
<1> QED BY <1>3 DEF AddressIsKept

-----------------------------------------------------------------------------
(***************************************************************************)
(* A reconcile that nothing has overtaken.                                 *)
(***************************************************************************)

\* What it has established so far, for the tables as they are.
Current ==
    /\ settled => fresh
    /\ fresh => \A p \in Proc :
         /\ pc[p] \in {"prepare", "load", "apply"} => cfg = settings
         /\ pc[p] \in {"load", "apply"} => Needy(settings) = {}
         /\ pc[p] = "apply" => ts = address /\ warp = account
    /\ settled => Served

\* ensureIPv4AllocationsTx leaves no tunnel without an address that it needs, and
\* changes nothing if there is none.
LEMMA AllocationsServe ==
  ASSUME NEW v, v.pool \in Pool, NEW a \in Allocations(v), tunnels \subseteq Tunnel,
         address \in [Tunnel -> PoolAddress \cup {0}]
  PROVE  /\ \A t \in tunnels : TunnelV4Mode(v, t) # "off" => a[t] # 0
         /\ Needy(v) = {} => a = address
<1>1. PICK g \in [Needy(v) -> Tried(v.pool)] :
         a = [t \in Tunnel |-> IF t \in Needy(v) THEN g[t] ELSE address[t]]
  BY ZenonT(60) DEF Allocations
<1>2. \A t \in Needy(v) : g[t] # 0
  BY <1>1, EgressAssumption, SMTT(30) DEF Tried
<1>3. \A t \in tunnels : TunnelV4Mode(v, t) # "off" => t \in Needy(v) \/ address[t] # 0
  BY Zenon DEF Needy
<1>4. \A t \in tunnels : TunnelV4Mode(v, t) # "off" => a[t] # 0
  BY <1>1, <1>2, <1>3, SMTT(30)
<1>5. Needy(v) = {} => a = address
  BY <1>1, SMTT(30)
<1> QED BY <1>4, <1>5, Zenon

LEMMA CurrentStep ==
  ASSUME Current, Rows, Locked, Typed, [Next]_vars
  PROVE  Current'
<1> DEFINE Same == \A q \in Proc : pc'[q] \in {"prepare", "load", "apply"} =>
                     pc'[q] = pc[q] /\ cfg' = cfg /\ ts' = ts /\ warp' = warp
<1> USE EgressAssumption DEF table, locals
<1>mu. \A p, q \in Proc :
         /\ holder["mu"] = Free => pc[p] \notin {"prepare", "load", "apply"}
         /\ holder["mu"] = p /\ pc[q] \in {"prepare", "load", "apply"} => q = p
         /\ pc[q] \in {"insert", "start", "prepare", "load", "apply", "test"}
              => holder["mu"] = q
  BY SMTT(30) DEF Locked
<1> HIDE EgressAssumption
<1>changed. fresh' = FALSE /\ settled' = FALSE => Current'
  BY Zenon DEF Current
<1>quiet. ASSUME UNCHANGED <<settings, upMode, tunnels, tunMode, address, account, kernel,
                             fresh, settled>>,
                 Same
          PROVE  Current'
  <2>1. Needy(settings)' = Needy(settings)
    BY <1>quiet, Zenon DEF Needy, TunnelV4Mode, V4Mode, UpstreamV4Mode
  <2>2. Served => Served'
    BY <1>quiet, ZenonT(60) DEF Served, Programmed, Needs, TunnelV4Mode, V4Mode, UpstreamV4Mode
  <2> QED BY <1>quiet, <2>1, <2>2, Zenon DEF Current
\* A goroutine that goes to another place than the three, or returns.
<1>goes. ASSUME NEW p \in Proc, NEW l, l \notin {"prepare", "load", "apply"}, Goto(p, l),
                UNCHANGED <<cfg, ts, warp>>
         PROVE  Same
  <2>1. \A q \in Proc : pc'[q] = IF q = p THEN l ELSE pc[q]
    BY <1>goes, SMTT(30) DEF Goto, Locked
  <2> QED BY <1>goes, <2>1, Zenon DEF Same
<1>returns. ASSUME NEW p \in Proc, Return(p) PROVE Same
  <2>1. \A q \in Proc : pc'[q] = IF q = p THEN "idle" ELSE pc[q]
    BY <1>returns, SMTT(30) DEF Return, Goto, Locked
  <2>2. "idle" \notin {"prepare", "load", "apply"} OBVIOUS
  <2>3. CASE holder["mu"] = p
    BY <2>1, <2>2, <2>3, <1>mu, Zenon DEF Same
  <2>4. CASE holder["mu"] # p
    <3>1. UNCHANGED <<cfg, ts, warp>> BY <1>returns, <2>4, Zenon DEF Return
    <3> QED BY <2>1, <2>2, <3>1, Zenon DEF Same
  <2> QED BY <2>3, <2>4, ZenonT(60)
<1>places. /\ \A l \in {"insert", "register", "mu", "start", "lock", "test"} :
                 l \notin {"prepare", "load", "apply"}
           /\ Handler \subseteq Proc /\ Ticker \in Proc
  BY Zenon DEF Proc
<1>modes. ~NeedsIPv4(settings) => \A t \in tunnels : TunnelV4Mode(settings, t) = "off"
  <2>1. settings.mode \in Mode /\ tunnels \subseteq Tunnel
    BY SMTT(30) DEF Rows, Settings
  <2>2. \A t \in tunnels : TunnelV4Mode(settings, t) \in Mode
    BY <2>1, EgressAssumption, SMTT(30) DEF Typed, TunnelV4Mode, V4Mode, UpstreamV4Mode
  <2> QED BY <2>2, Zenon DEF NeedsIPv4, Needs, Mode
<1>programmed. \A t \in Tunnel :
     Programmed(settings, address, account).allowed[t] =
       IF t \in tunnels /\ TunnelV4Mode(settings, t) # "off" /\ address[t] # 0
       THEN address[t] ELSE 0
  BY SMTT(30) DEF Programmed
<1> HIDE DEF Same
<1>1. ASSUME NEW p \in Handler, NEW v \in Form, SaveSettings(p, v) PROVE Current'
  BY <1>1, <1>changed, Zenon DEF SaveSettings, Changed
<1>2. ASSUME NEW p \in Handler, ResetGeneralSettings(p) PROVE Current'
  BY <1>2, <1>changed, Zenon DEF ResetGeneralSettings, Changed
<1>3. ASSUME NEW p \in Handler, NEW t \in Tunnel, NEW m \in ModeInput, SetTunnelV4Mode(p, t, m) PROVE Current'
  BY <1>3, <1>changed, Zenon DEF SetTunnelV4Mode, Changed
<1>4. ASSUME NEW p \in Handler, NEW u \in Upstream, NEW m \in ModeInput, UpdateUpstream(p, u, m) PROVE Current'
  BY <1>4, <1>changed, Zenon DEF UpdateUpstream, Changed
<1>5. ASSUME NEW p \in Handler, NEW t \in Tunnel, NEW m \in ModeInput, CreateTunnel(p, t, m)
      PROVE  Current'
  <2>1. UNCHANGED <<settings, upMode, tunnels, tunMode, address, account, kernel, fresh, settled>>
    BY <1>5, ZenonT(60) DEF CreateTunnel
  <2>2. Same
    BY <1>5, <1>goes, <1>places, Zenon DEF CreateTunnel
  <2> QED BY <2>1, <2>2, <1>quiet, Zenon
<1>6. ASSUME NEW p \in Handler, NEW t \in Tunnel, DeleteTunnel(p, t) PROVE Current'
  BY <1>6, <1>changed, Zenon DEF DeleteTunnel, Changed
<1>7. ASSUME NEW p \in Handler, RegisterWarp(p)
      PROVE  Current'
  <2>1. UNCHANGED <<settings, upMode, tunnels, tunMode, address, account, kernel, fresh, settled>>
    BY <1>7, Zenon DEF RegisterWarp
  <2>2. Same
    BY <1>7, <1>goes, <1>places, Zenon DEF RegisterWarp
  <2> QED BY <2>1, <2>2, <1>quiet, Zenon
<1>8. ASSUME NEW p \in Handler, TestWarp(p)
      PROVE  Current'
  <2>1. UNCHANGED <<settings, upMode, tunnels, tunMode, address, account, kernel, fresh, settled>>
    BY <1>8, Zenon DEF TestWarp
  <2>2. Same
    BY <1>8, <1>goes, <1>places, Zenon DEF TestWarp
  <2> QED BY <2>1, <2>2, <1>quiet, Zenon
<1>9. ASSUME NEW p \in Proc, Reconcile(p)
      PROVE  Current'
  <2>1. UNCHANGED <<settings, upMode, tunnels, tunMode, address, account, kernel, fresh, settled>>
    BY <1>9, Zenon DEF Reconcile
  <2>2. Same
    BY <1>9, <1>goes, <1>places, Zenon DEF Reconcile
  <2> QED BY <2>1, <2>2, <1>quiet, Zenon
<1>10. ASSUME NEW p \in Proc, TestWarpLocks(p)
      PROVE  Current'
  <2>1. UNCHANGED <<settings, upMode, tunnels, tunMode, address, account, kernel, fresh, settled>>
    BY <1>10, Zenon DEF TestWarpLocks
  <2>2. Same
    BY <1>10, <1>returns, <1>goes, <1>places, Zenon DEF TestWarpLocks
  <2> QED BY <2>1, <2>2, <1>quiet, Zenon
<1>11. ASSUME NEW p \in Proc, InsertTunnel(p) PROVE Current'
  <2>1. CASE row.address \notin Used
    BY <1>11, <2>1, <1>changed, Zenon DEF InsertTunnel, Changed
  <2>2. CASE row.address \in Used
    <3>1. UNCHANGED <<settings, upMode, tunnels, tunMode, address, account, kernel, fresh, settled>>
      BY <1>11, <2>2, Zenon DEF InsertTunnel
    <3>2. Same
      BY <1>11, <2>2, <1>returns, Zenon DEF InsertTunnel
    <3> QED BY <3>1, <3>2, <1>quiet, Zenon
  <2> QED BY <2>1, <2>2, Zenon
<1>12. ASSUME NEW p \in Proc, SaveWarpAccount(p) PROVE Current'
  BY <1>12, <1>changed, Zenon DEF SaveWarpAccount, Changed
<1>13. ASSUME NEW p \in Proc, RegisterWarpApplies(p)
      PROVE  Current'
  <2>1. UNCHANGED <<settings, upMode, tunnels, tunMode, address, account, kernel, fresh, settled>>
    BY <1>13, Zenon DEF RegisterWarpApplies
  <2>2. Same
    BY <1>13, <1>returns, <1>goes, <1>places, Zenon DEF RegisterWarpApplies
  <2> QED BY <2>1, <2>2, <1>quiet, Zenon
<1>14. ASSUME NEW p \in Proc, SaveWarpTest(p)
      PROVE  Current'
  <2>1. UNCHANGED <<settings, upMode, tunnels, tunMode, address, account, kernel, fresh, settled>>
    BY <1>14, Zenon DEF SaveWarpTest
  <2>2. Same
    BY <1>14, <1>returns, Zenon DEF SaveWarpTest
  <2> QED BY <2>1, <2>2, <1>quiet, Zenon
<1>15. ASSUME NEW p \in Proc, TestWarpFails(p)
      PROVE  Current'
  <2>1. UNCHANGED <<settings, upMode, tunnels, tunMode, address, account, kernel, fresh, settled>>
    BY <1>15, Zenon DEF TestWarpFails
  <2>2. Same
    BY <1>15, <1>returns, Zenon DEF TestWarpFails
  <2> QED BY <2>1, <2>2, <1>quiet, Zenon
<1>16. ASSUME NEW p \in Proc, ReadSettings(p) PROVE Current'
  <2>1. /\ pc[p] = "start" /\ pc' = [pc EXCEPT ![p] = "prepare"] /\ cfg' = settings
        /\ UNCHANGED <<settings, upMode, tunnels, tunMode, address, account, kernel, settled>>
        /\ fresh' = TRUE
    BY <1>16, ZenonT(60) DEF ReadSettings, Goto
  <2>2. \A q \in Proc : pc'[q] \notin {"load", "apply"}
    BY <2>1, <1>mu, SMTT(30) DEF Locked
  <2>3. settled => Served'
    BY <2>1, ZenonT(60) DEF Current, Served, Programmed, Needs, TunnelV4Mode, V4Mode, UpstreamV4Mode
  <2> QED BY <2>1, <2>2, <2>3, Zenon DEF Current
<1>17. ASSUME NEW p \in Proc, Prepare(p) PROVE Current'
  <2>1. /\ pc[p] = "prepare" /\ ~Refused(cfg) /\ pc' = [pc EXCEPT ![p] = "load"]
        /\ IF NeedsIPv4(cfg) THEN address' \in Allocations(cfg) ELSE UNCHANGED address
        /\ UNCHANGED <<settings, upMode, tunnels, tunMode, account, kernel, cfg, fresh, settled>>
    BY <1>17, Zenon DEF Prepare, Goto
  <2>2. \A q \in Proc : pc'[q] \in {"prepare", "load", "apply"} => q = p /\ pc'[q] = "load"
    BY <2>1, <1>mu, SMTT(30) DEF Locked
  <2>3. CASE ~fresh
    BY <2>1, <2>3, Zenon DEF Current
  <2>4. CASE fresh
    <3>1. cfg = settings BY <2>1, <2>4, Zenon DEF Current
    <3>2. /\ \A t \in tunnels : TunnelV4Mode(settings, t) # "off" => address'[t] # 0
          /\ Needy(settings) = {} => address' = address
      <4>1. CASE NeedsIPv4(settings)
        <5>1. address' \in Allocations(settings) /\ settings.pool \in Pool
          BY <2>1, <3>1, <4>1, EgressAssumption, Zenon DEF Refused
        <5> QED BY <5>1, AllocationsServe, Zenon DEF Rows
      <4>2. CASE ~NeedsIPv4(settings)
        BY <2>1, <3>1, <4>2, <1>modes, Zenon
      <4> QED BY <4>1, <4>2, Zenon
    <3>3. (Needy(settings) = {})'
      BY <2>1, <3>2, Zenon DEF Needy, TunnelV4Mode, V4Mode, UpstreamV4Mode
    <3>4. settled => Served'
      <4> SUFFICES ASSUME settled PROVE Served' OBVIOUS
      <4>1. Served BY Zenon DEF Current
      <4>2. \A t \in tunnels : TunnelV4Mode(settings, t) # "off" => address[t] # 0
        BY <4>1, <1>programmed, Zenon DEF Served, Rows
      <4>3. Needy(settings) = {} BY <4>2, Zenon DEF Needy
      <4>4. address' = address BY <3>2, <4>3, Zenon
      <4> QED BY <2>1, <4>1, <4>4, ZenonT(60) DEF Served, Programmed, Needs, TunnelV4Mode,
              V4Mode, UpstreamV4Mode
    <3> QED BY <2>1, <2>2, <2>4, <3>1, <3>3, <3>4, Zenon DEF Current
  <2> QED BY <2>3, <2>4, Zenon
<1>18. ASSUME NEW p \in Proc, ReconcileAborts(p)
      PROVE  Current'
  <2>1. UNCHANGED <<settings, upMode, tunnels, tunMode, address, account, kernel, fresh, settled>>
    BY <1>18, Zenon DEF ReconcileAborts
  <2>2. Same
    BY <1>18, <1>returns, Zenon DEF ReconcileAborts, Returns
  <2> QED BY <2>1, <2>2, <1>quiet, Zenon
<1>19. ASSUME NEW p \in Proc, Load(p) PROVE Current'
  <2>1. /\ pc[p] = "load" /\ pc' = [pc EXCEPT ![p] = "apply"]
        /\ ts' = address /\ warp' = account
        /\ UNCHANGED <<settings, upMode, tunnels, tunMode, address, account, kernel, cfg, fresh, settled>>
    BY <1>19, ZenonT(60) DEF Load, Goto, table
  <2>2. \A q \in Proc : pc'[q] \in {"prepare", "load", "apply"} => q = p
    BY <2>1, <1>mu, SMTT(30) DEF Locked
  <2>3. Needy(settings)' = Needy(settings)
    BY <2>1, Zenon DEF Needy, TunnelV4Mode, V4Mode, UpstreamV4Mode
  <2>4. Served => Served'
    BY <2>1, ZenonT(60) DEF Served, Programmed, Needs, TunnelV4Mode, V4Mode, UpstreamV4Mode
  <2> QED BY <2>1, <2>2, <2>3, <2>4, Zenon DEF Current
<1>20. ASSUME NEW p \in Proc, Apply(p) PROVE Current'
  <2>1. /\ pc[p] = "apply" /\ kernel' = Programmed(cfg, ts, warp)
        /\ settled' = fresh /\ fresh' = fresh
        /\ UNCHANGED <<settings, upMode, tunnels, tunMode, address, account>>
    BY <1>20, Zenon DEF Apply, table
  <2>2. \A q \in Proc : pc'[q] \notin {"prepare", "load", "apply"}
    BY <1>20, <2>1, <1>mu, SMTT(30) DEF Locked, Apply, Returns, Return, Goto
  <2>3. fresh => Served'
    <3> SUFFICES ASSUME fresh PROVE Served' OBVIOUS
    <3>1. /\ cfg = settings /\ ts = address /\ warp = account
          /\ Needy(settings) = {}
      BY <2>1, Zenon DEF Current
    <3>2. \A t \in tunnels : TunnelV4Mode(settings, t) # "off" => address[t] # 0
      BY <3>1, Zenon DEF Needy
    <3>3. \A t \in tunnels : TunnelV4Mode(settings, t) # "off" =>
             Programmed(settings, address, account).allowed[t] # 0
      BY <3>2, <1>programmed, Zenon DEF Rows
    <3>4. kernel' = Programmed(settings, address, account)
      BY <2>1, <3>1, Zenon
    <3>5. /\ Programmed(settings, address, account)' = Programmed(settings, address, account)
          /\ \A t : TunnelV4Mode(settings, t)' = TunnelV4Mode(settings, t)
      BY <2>1, ZenonT(60) DEF Programmed, Needs, TunnelV4Mode, V4Mode, UpstreamV4Mode
    <3> QED BY <2>1, <3>3, <3>4, <3>5, Zenon DEF Served
  <2> QED BY <2>1, <2>2, <2>3, Zenon DEF Current
<1>21. ASSUME NEW p \in Proc, RegisterWarpFails(p)
      PROVE  Current'
  <2>1. UNCHANGED <<settings, upMode, tunnels, tunMode, address, account, kernel, fresh, settled>>
    BY <1>21, Zenon DEF RegisterWarpFails
  <2>2. Same
    BY <1>21, <1>returns, Zenon DEF RegisterWarpFails
  <2> QED BY <2>1, <2>2, <1>quiet, Zenon
<1>22. ASSUME NEW p \in Proc, ApplyFails(p) PROVE Current'
  <2>1. settled' = FALSE BY <1>22, ZenonT(60) DEF ApplyFails
  <2>2. \A q \in Proc : pc'[q] \notin {"prepare", "load", "apply"}
    BY <1>22, <1>mu, SMTT(30) DEF Locked, ApplyFails, Returns, Return, Goto
  <2> QED BY <2>1, <2>2, Zenon DEF Current
<1>23. ASSUME NEW p \in Proc, ApplyRejected(p) PROVE Current'
  <2>1. settled' = FALSE BY <1>23, ZenonT(60) DEF ApplyRejected
  <2>2. \A q \in Proc : pc'[q] \notin {"prepare", "load", "apply"}
    BY <1>23, <1>mu, SMTT(30) DEF Locked, ApplyRejected, Returns, Return, Goto
  <2> QED BY <2>1, <2>2, Zenon DEF Current
<1>24. CASE Tick
  <2>1. UNCHANGED <<settings, upMode, tunnels, tunMode, address, account, kernel, fresh, settled>>
    BY <1>24, Zenon DEF Tick
  <2>2. Same
    BY <1>24, <1>goes, <1>places, Zenon DEF Tick
  <2> QED BY <2>1, <2>2, <1>quiet, Zenon
<1>25. CASE Crash
  <2>1. UNCHANGED <<settings, upMode, tunnels, tunMode, address, account, kernel, fresh, settled>>
    BY <1>25, ZenonT(60) DEF Crash
  <2>2. Same
    BY <1>25, SMTT(30) DEF Same, Crash
  <2> QED BY <2>1, <2>2, <1>quiet, Zenon
<1>26. CASE UNCHANGED vars
  BY <1>26, <1>quiet, Zenon DEF vars, Same
<1> QED
  BY <1>1, <1>2, <1>3, <1>4, <1>5, <1>6, <1>7, <1>8, <1>9, <1>10, <1>11,
     <1>12, <1>13, <1>14, <1>15, <1>16, <1>17, <1>18, <1>19, <1>20, <1>21,
     <1>22, <1>23, <1>24, <1>25, <1>26, ZenonT(60)
     DEF Next, Request, Locks, Works

LEMMA AlwaysCurrent == Spec => []Current
<1>1. Init => Current
  BY EgressAssumption, SMTT(30) DEF Init, Current, Proc
<1>2. IInv /\ Current /\ [Next]_vars => Current'
  BY CurrentStep, Zenon DEF IInv
<1> QED BY <1>1, <1>2, Invariance, PTL DEF Spec

\* A reconcile that succeeds, and that no request has overtaken, has programmed what
\* the tables ask for, an address for each tunnel that needs one included.
THEOREM ReconcileServes == Spec => []SettledIsServed
<1>1. Current => SettledIsServed
  BY Zenon DEF Current, SettledIsServed
<1> QED BY <1>1, AlwaysCurrent, PTL

-----------------------------------------------------------------------------
(***************************************************************************)
(* The WARP test.                                                          *)
(***************************************************************************)

\* The device has no account but the stored one while a test runs that began with
\* the kernel settled.
Tests ==
    /\ TestIsOfAccount
    /\ \A p \in Proc : pc[p] = "test" /\ began => kernel.warp \in {0, account}

LEMMA TestsStep ==
  ASSUME Tests, Current, Locked, Typed, [Next]_vars
  PROVE  Tests'
<1> USE DEF table, locals, seen, TestIsOfAccount
<1>quiet. ASSUME UNCHANGED <<tested, account, began, sure>>, kernel'.warp = kernel.warp,
                 \A q \in Proc : pc'[q] = "test" => pc[q] = "test"
          PROVE  Tests'
  BY <1>quiet, Zenon DEF Tests
<1>goes. ASSUME NEW p \in Proc, NEW l, l # "test", Goto(p, l)
         PROVE  \A q \in Proc : pc'[q] = "test" => pc[q] = "test"
  <2>1. \A q \in Proc : pc'[q] = IF q = p THEN l ELSE pc[q]
    BY <1>goes, SMTT(30) DEF Goto, Locked
  <2> QED BY <1>goes, <2>1, Zenon
<1>returns. ASSUME NEW p \in Proc, Return(p)
            PROVE  \A q \in Proc : pc'[q] = "test" => pc[q] = "test" /\ q # p
  <2>1. \A q \in Proc : pc'[q] = IF q = p THEN "idle" ELSE pc[q]
    BY <1>returns, SMTT(30) DEF Return, Goto, Locked
  <2> QED BY <2>1, Zenon
\* An Apply, during which App.mu keeps a test from running.
<1>applied. ASSUME NEW p \in Proc, pc[p] = "apply", Return(p), UNCHANGED <<tested, account, sure>>
            PROVE  Tests'
  <2>1. \A q \in Proc : pc[q] = "test" => q = p
    BY <1>applied, SMTT(30) DEF Locked
  <2>2. \A q \in Proc : pc'[q] # "test" BY <2>1, <1>applied, <1>returns, Zenon
  <2> QED BY <1>applied, <2>2, Zenon DEF Tests
<1>places. /\ \A l \in {"insert", "register", "registered", "mu", "start", "lock", "prepare",
                      "load", "apply"} : l # "test"
           /\ Handler \subseteq Proc /\ Ticker \in Proc
  BY Zenon DEF Proc
<1>device. Programmed(settings, address, account).warp \in {0, account}
  BY SMTT(30) DEF Programmed
<1>1. ASSUME NEW p \in Handler, NEW v \in Form, SaveSettings(p, v) PROVE Tests'
  BY <1>1, <1>quiet, <1>goes, <1>places, Zenon DEF SaveSettings
<1>2. ASSUME NEW p \in Handler, ResetGeneralSettings(p) PROVE Tests'
  BY <1>2, <1>quiet, <1>goes, <1>places, Zenon DEF ResetGeneralSettings
<1>3. ASSUME NEW p \in Handler, NEW t \in Tunnel, NEW m \in ModeInput, SetTunnelV4Mode(p, t, m) PROVE Tests'
  BY <1>3, <1>quiet, <1>goes, <1>places, Zenon DEF SetTunnelV4Mode
<1>4. ASSUME NEW p \in Handler, NEW u \in Upstream, NEW m \in ModeInput, UpdateUpstream(p, u, m) PROVE Tests'
  BY <1>4, <1>quiet, <1>goes, <1>places, Zenon DEF UpdateUpstream
<1>5. ASSUME NEW p \in Handler, NEW t \in Tunnel, NEW m \in ModeInput, CreateTunnel(p, t, m) PROVE Tests'
  BY <1>5, <1>quiet, <1>goes, <1>places, Zenon DEF CreateTunnel
<1>6. ASSUME NEW p \in Handler, NEW t \in Tunnel, DeleteTunnel(p, t) PROVE Tests'
  <2>1. /\ UNCHANGED <<tested, account, began, sure, pc>>
        /\ kernel' = [kernel EXCEPT !.allowed[t] = 0]
    BY <1>6, Zenon DEF DeleteTunnel
  <2>2. kernel'.warp = kernel.warp BY <2>1, SMTT(30) DEF Typed
  <2> QED BY <2>1, <2>2, <1>quiet, Zenon
<1>7. ASSUME NEW p \in Handler, RegisterWarp(p) PROVE Tests'
  BY <1>7, <1>quiet, <1>goes, <1>places, Zenon DEF RegisterWarp
<1>8. ASSUME NEW p \in Handler, TestWarp(p) PROVE Tests'
  BY <1>8, <1>quiet, <1>goes, <1>places, Zenon DEF TestWarp
<1>9. ASSUME NEW p \in Proc, Reconcile(p) PROVE Tests'
  BY <1>9, <1>quiet, <1>goes, <1>places, Zenon DEF Reconcile
<1>10. ASSUME NEW p \in Proc, TestWarpLocks(p) PROVE Tests'
  <2>1. /\ UNCHANGED <<tested, account, sure, kernel>>
        /\ \/ began' = settled
           \/ Return(p) /\ UNCHANGED began
    BY <1>10, Zenon DEF TestWarpLocks
  <2>2. CASE Return(p) /\ UNCHANGED began
    BY <2>1, <2>2, <1>quiet, <1>returns, Zenon
  <2>3. CASE began' = settled
    <3>1. settled => kernel.warp \in {0, account}
      BY <1>device, Zenon DEF Current, Served
    <3> QED BY <2>1, <2>3, <3>1, Zenon DEF Tests
  <2> QED BY <2>1, <2>2, <2>3, Zenon
<1>11. ASSUME NEW p \in Proc, InsertTunnel(p) PROVE Tests'
  BY <1>11, <1>quiet, <1>goes, <1>places, <1>returns, Zenon DEF InsertTunnel
<1>12. ASSUME NEW p \in Proc, SaveWarpAccount(p) PROVE Tests'
  <2>1. sure' = FALSE /\ pc[p] = "register" /\ pc' = [pc EXCEPT ![p] = "registered"]
    BY <1>12, Zenon DEF SaveWarpAccount, Goto
  <2>2. \A q \in Proc : pc[q] # "test" BY <2>1, SMTT(30) DEF Locked
  <2>3. \A q \in Proc : pc'[q] # "test" BY <2>1, <2>2, SMTT(30) DEF Locked
  <2> QED BY <2>1, <2>3, Zenon DEF Tests
<1>13. ASSUME NEW p \in Proc, RegisterWarpApplies(p) PROVE Tests'
  BY <1>13, <1>quiet, <1>goes, <1>places, <1>returns, Zenon DEF RegisterWarpApplies
<1>14. ASSUME NEW p \in Proc, SaveWarpTest(p) PROVE Tests'
  <2>1. /\ pc[p] = "test" /\ kernel.warp # 0 /\ tested' = kernel.warp
        /\ sure' = began /\ began' = FALSE /\ UNCHANGED account
    BY <1>14, Zenon DEF SaveWarpTest
  <2>2. began => kernel.warp = account BY <2>1, Zenon DEF Tests
  <2> QED BY <2>1, <2>2, Zenon DEF Tests
<1>15. ASSUME NEW p \in Proc, TestWarpFails(p) PROVE Tests'
  BY <1>15, Zenon DEF TestWarpFails, Tests
<1>16. ASSUME NEW p \in Proc, ReadSettings(p) PROVE Tests'
  BY <1>16, <1>quiet, <1>goes, <1>places, Zenon DEF ReadSettings
<1>17. ASSUME NEW p \in Proc, Prepare(p) PROVE Tests'
  BY <1>17, <1>quiet, <1>goes, <1>places, Zenon DEF Prepare
<1>18. ASSUME NEW p \in Proc, ReconcileAborts(p) PROVE Tests'
  BY <1>18, <1>quiet, <1>returns, Zenon DEF ReconcileAborts, Returns
<1>19. ASSUME NEW p \in Proc, Load(p) PROVE Tests'
  BY <1>19, <1>quiet, <1>goes, <1>places, Zenon DEF Load
<1>20. ASSUME NEW p \in Proc, Apply(p) PROVE Tests'
  <2>1. /\ UNCHANGED <<tested, account, sure>> /\ pc[p] = "apply" /\ Return(p)
    BY <1>20, Zenon DEF Apply, Returns
  <2> QED BY <2>1, <1>applied, Zenon
<1>21. ASSUME NEW p \in Proc, RegisterWarpFails(p) PROVE Tests'
  BY <1>21, <1>quiet, <1>returns, Zenon DEF RegisterWarpFails
<1>22. ASSUME NEW p \in Proc, ApplyFails(p) PROVE Tests'
  <2>1. /\ UNCHANGED <<tested, account, sure>> /\ pc[p] = "apply" /\ Return(p)
    BY <1>22, Zenon DEF ApplyFails, Returns
  <2> QED BY <2>1, <1>applied, Zenon
<1>23. ASSUME NEW p \in Proc, ApplyRejected(p) PROVE Tests'
  <2>1. /\ UNCHANGED <<tested, account, sure>> /\ pc[p] = "apply" /\ Return(p)
    BY <1>23, Zenon DEF ApplyRejected, Returns
  <2> QED BY <2>1, <1>applied, Zenon
<1>24. CASE Tick
  BY <1>24, <1>quiet, <1>goes, <1>places, Zenon DEF Tick
<1>25. CASE Crash
  BY <1>25, Zenon DEF Crash, Tests
<1>26. CASE UNCHANGED vars
  BY <1>26, Zenon DEF vars, Tests
<1> QED
  BY <1>1, <1>2, <1>3, <1>4, <1>5, <1>6, <1>7, <1>8, <1>9, <1>10, <1>11,
     <1>12, <1>13, <1>14, <1>15, <1>16, <1>17, <1>18, <1>19, <1>20, <1>21,
     <1>22, <1>23, <1>24, <1>25, <1>26, ZenonT(60)
     DEF Next, Request, Locks, Works

\* A stored WARP test that began after a successful reconcile which nothing had
\* overtaken is of the stored account: the device had no other, App.mu keeps it
\* from being programmed during the test, and App.warpMu keeps a registration out.
THEOREM TestsAreOfTheAccount == Spec => []TestIsOfAccount
<1>1. Init => Tests
  BY Zenon DEF Init, Tests, TestIsOfAccount
<1>2. IInv /\ Current /\ Tests /\ [Next]_vars => Tests'
  BY TestsStep, Zenon DEF IInv
<1>3. Tests => TestIsOfAccount
  BY Zenon DEF Tests
<1> QED BY <1>1, <1>2, <1>3, Invariance, AlwaysCurrent, PTL DEF Spec

=============================================================================
