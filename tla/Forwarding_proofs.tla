-------------------------- MODULE Forwarding_proofs --------------------------
(***************************************************************************)
(* A tunnel's packets leave by its own upstream, at every step of every    *)
(* reconcile; a reconcile that succeeded finds no drift but that of shared *)
(* transport addresses, and after one without an error ignored all packets *)
(* go where the tables say: for any tunnels, groups, edits and faults.     *)
(***************************************************************************)
EXTENDS Forwarding, FiniteSetTheorems, TLAPS

-----------------------------------------------------------------------------
(***************************************************************************)
(* The forward chain.                                                      *)
(***************************************************************************)

\* The chain lets the tunnels of an upstream out by no egress interface but its
\* own.  That is inductive: no other step touches it.
OwnPairs == \A u, w : <<Wg(u), Egress(w)>> \in nft.pairs => u = w

LEMMA ScriptPairs ==
  ASSUME NEW v, NEW U, NEW u, NEW w, <<Wg(u), Egress(w)>> \in NFTScript(v, U).pairs
  PROVE  u = w
<1>1. CASE U = {}
  BY <1>1, SMTT(30) DEF NFTScript, NoTable
<1>2. CASE U # {}
  <2>1. <<Wg(u), Egress(w)>> \in {<<Wg(x), Egress(x)>> : x \in U}
           \cup (IF v.policy = "any" THEN {<<Wg(x), Wg(y)>> : x \in U, y \in U} ELSE {})
           \cup {<<Wg(UpstreamOf[t]), Warp>> : t \in Resolved(v, U, "warp")}
    BY <1>2, SMTT(30) DEF NFTScript
  <2>2. Egress(w) # Warp /\ \A y : Egress(w) # Wg(y)
    BY SMTT(30) DEF Egress, Warp, Wg
  <2>3. PICK x \in U : <<Wg(u), Egress(w)>> = <<Wg(x), Egress(x)>>
    <3>1. \A x, y : <<Wg(u), Egress(w)>> = <<x, y>> => y = Egress(w)
      BY SMTT(30)
    <3>2. <<Wg(u), Egress(w)>> \notin {<<Wg(x), Wg(y)>> : x \in U, y \in U}
      BY <2>2, <3>1, SMTT(30)
    <3>3. <<Wg(u), Egress(w)>> \notin {<<Wg(UpstreamOf[t]), Warp>> : t \in Resolved(v, U, "warp")}
      BY <2>2, <3>1, ZenonT(60)
    <3>4. <<Wg(u), Egress(w)>> \in {<<Wg(x), Egress(x)>> : x \in U}
      BY <2>1, <3>2, <3>3, SMTT(30)
    <3>5. QED BY <3>4, Zenon
  <2>4. QED
    BY <2>3, SMTT(30) DEF Wg, Egress
<1>3. QED
  BY <1>1, <1>2

LEMMA OwnPairsInvariant == Spec => []OwnPairs
<1>1. Init => OwnPairs
  BY SMTT(30) DEF Init, OwnPairs, NoTable
<1>2. ASSUME OwnPairs, [Next]_vars PROVE OwnPairs'
  <2>1. CASE ApplyNAT
    BY <2>1, ScriptPairs, Zenon DEF ApplyNAT, OwnPairs
  <2>2. CASE Reboot
    <3>1. nft'.pairs = {} BY <2>2, SMTT(30) DEF Reboot, NoTable
    <3>2. QED BY <3>1, Zenon DEF OwnPairs
  <2>3. CASE ~ApplyNAT /\ ~Reboot
    <3>1. UNCHANGED nft
      BY <1>2, <2>3, ZenonT(60)
         DEF Next, Request, Apply, vars, kernel, Edit, Fault, SaveSettings, SetEnabled,
             SetTunnelV4Mode, SetTunnelRoutingGroups, DeleteRoutingGroup, CreateTunnel,
             DeleteTunnel, DeleteTunnelFails, CreateUpstream, DeleteUpstream, DeleteUpstreamFails,
         Reconcile,
             ConfigureDevice, ProgramRoutes, StartWarp, DeleteWarpRule, WarpRulesDeleted,
             AddWarpRule, FinishWarp, EnsureUpstreamTable, TablesEnsured, AddPolicyRule,
             DeletePolicyRule, PolicyRulesDone, Inspect, ReportUpstream,
             ConfigureDeviceFails, ProgramRoutesFails, ApplyFails, Overlook,
         ProgramRoutesKeeps, WarpRulesKept, EnsureUpstreamTable6, Crash
    <3>2. QED BY <1>2, <3>1, ZenonT(60) DEF OwnPairs
  <2>4. QED
    BY <2>1, <2>2, <2>3
<1>3. QED
  BY <1>1, <1>2, PTL DEF Spec

\* While there is a forward chain, no packet of a tunnel leaves by another
\* upstream's egress interface, wherever the routing tables would lead it.
THEOREM NeverByAnotherProvider == Spec => []OwnProvider
<1>1. ASSUME OwnPairs, nft.chain, NEW p \in Packet, Fate(p)[1] = "egress"
      PROVE  Fate(p) = Egress(UpstreamOf[p.src])
  <2> DEFINE out == Lookup(p)
  <2>1. <<"tunnel", p.dst>>[1] # "egress" /\ <<"dropped", 0>>[1] # "egress"
    BY SMTT(30)
  <2>2. Fate(p) = out /\ Accepts(p, out) /\ out[1] # "wg"
    <3> HIDE DEF out
    <3>1. Fate(p) = IF p.src \in peer[p.family] /\ Accepts(p, out)
                    THEN IF out[1] = "wg"
                         THEN IF p.dst \in peer[p.family] THEN <<"tunnel", p.dst>>
                              ELSE <<"dropped", 0>>
                         ELSE out
                    ELSE <<"dropped", 0>>
      BY Zenon DEF Fate, out
    <3>2. QED BY <1>1, <2>1, <3>1, ZenonT(60)
  <2>3. \E w : out = Wg(w) \/ out = Egress(w) \/ out = Warp
    BY Zenon DEF Lookup, MainTable
  <2>4. PICK w : out = Egress(w)
    <3>1. Warp[1] # "egress" /\ \A w : Wg(w)[1] # "egress"
      BY SMTT(30) DEF Warp, Wg
    <3>2. QED BY <1>1, <2>2, <2>3, <3>1, ZenonT(60)
  <2>5. <<Wg(UpstreamOf[p.src]), Egress(w)>> \in nft.pairs
    BY <1>1, <2>2, <2>4, ZenonT(60) DEF Accepts
  <2>6. QED
    BY <1>1, <2>2, <2>4, <2>5, ZenonT(60) DEF OwnPairs
<1>2. OwnPairs => OwnProvider
  BY <1>1, ZenonT(60) DEF OwnProvider
<1>3. QED
  BY <1>2, OwnPairsInvariant, PTL

-----------------------------------------------------------------------------
(***************************************************************************)
(* The tables.                                                             *)
(***************************************************************************)
Rows(v) == v \in Database /\ \A t \in v.rows : UpstreamOf[t] \in v.ups

Tables == Rows(db) /\ Rows(want)

\* No tunnel lacks the IPv4 address that it needs.
Complete(v) == \A t \in v.rows : v.mode[t] # "off" => v.from[t] # 0

\* What the allocation of IPv4 addresses does to the tables.
LEMMA AllocatedRows ==
  ASSUME NEW v, Rows(v)
  PROVE  /\ Rows(Allocated(v)) /\ Allocated(v).ups = v.ups
         /\ Complete(Allocated(v))
         /\ Complete(v) => Allocated(v) = v
<1> DEFINE F == [t \in Tunnel |->
                   IF t \in v.rows /\ v.mode[t] # "off" /\ v.from[t] = 0
                   THEN v.pool ELSE v.from[t]]
           w == [v EXCEPT !.from = F]
<1>v. /\ v \in [ups : SUBSET Upstream, rows : SUBSET Tunnel,
                enabled : SUBSET Tunnel, mode : [Tunnel -> Mode],
                from : [Tunnel -> PoolInput \cup {0}], pool : PoolInput,
                policy : Policy, groups : [Tunnel -> SUBSET Group]]
      /\ \A t \in v.rows : UpstreamOf[t] \in v.ups
  BY Zenon DEF Rows, Database
<1>1. v.from \in [Tunnel -> PoolInput \cup {0}] /\ v.pool \in PoolInput /\ v.rows \subseteq Tunnel
  BY <1>v, SMTT(30)
<1>2. F \in [Tunnel -> PoolInput \cup {0}]
  BY <1>1, SMTT(30)
<1>3. \A t \in v.rows : v.mode[t] # "off" => F[t] # 0
  BY <1>1, ForwardingAssumption, SMTT(30)
<1>4. Complete(v) => F = v.from
  BY <1>1, SMTT(30) DEF Complete
<1>5. Allocated(v) = w
  BY <1>v, SMTT(30) DEF Allocated
<1> HIDE DEF F
<1>6. /\ w \in Database
      /\ w.ups = v.ups /\ w.rows = v.rows /\ w.mode = v.mode /\ w.from = F
  BY <1>v, <1>2, SMTT(30) DEF Database
<1>7. F = v.from => w = v
  BY <1>v, SMTT(30)
<1> HIDE DEF w
<1>8. Rows(w) BY <1>v, <1>6, Zenon DEF Rows
<1>9. Complete(w) BY <1>3, <1>6, Zenon DEF Complete
<1> QED BY <1>4, <1>5, <1>6, <1>7, <1>8, <1>9, Zenon

\* What new settings do.
LEMMA SettingsRows ==
  ASSUME NEW v, Rows(v), NEW y \in PolicyInput, NEW q \in PoolInput
  PROVE  /\ Rows([v EXCEPT !.policy = y, !.pool = q])
         /\ [v EXCEPT !.policy = y, !.pool = q].ups = v.ups
<1> DEFINE v1 == [v EXCEPT !.policy = y]
           v2 == [v1 EXCEPT !.pool = q]
<1>v. /\ v \in [ups : SUBSET Upstream, rows : SUBSET Tunnel,
                enabled : SUBSET Tunnel, mode : [Tunnel -> Mode],
                from : [Tunnel -> PoolInput \cup {0}], pool : PoolInput,
                policy : Policy, groups : [Tunnel -> SUBSET Group]]
      /\ \A t \in v.rows : UpstreamOf[t] \in v.ups
  BY Zenon DEF Rows, Database
<1>1. [v EXCEPT !.policy = y, !.pool = q] = v2
  BY <1>v, SMTT(30)
<1>2. v1 \in Database /\ v1.ups = v.ups /\ v1.rows = v.rows
  <2>1. y \in Policy BY ForwardingAssumption, Zenon
  <2> QED BY <1>v, <2>1, SMTT(30) DEF Database
<1> HIDE DEF v1
<1>3. v2 \in Database /\ v2.ups = v1.ups /\ v2.rows = v1.rows
  BY <1>2, SMTT(30) DEF Database
<1> HIDE DEF v2
<1>4. Rows(v2) BY <1>v, <1>2, <1>3, Zenon DEF Rows
<1> QED BY <1>1, <1>2, <1>3, <1>4, Zenon

LEMMA TablesTyped ==
  ASSUME NEW v, Rows(v)
  PROVE  /\ v.ups \subseteq Upstream /\ v.rows \subseteq Tunnel
         /\ v.mode \in [Tunnel -> Mode] /\ v.groups \in [Tunnel -> SUBSET Group]
         /\ \A t \in v.rows : UpstreamOf[t] \in v.ups
  BY SMTT(30) DEF Rows, Database

LEMMA TablesInit == Init => Tables
  BY ForwardingAssumption, SMTT(30) DEF Init, Tables, Rows

LEMMA TablesStep ==
  ASSUME Tables, [Next]_vars
  PROVE  Tables'
<1>types. db \in [ups : SUBSET Upstream, rows : SUBSET Tunnel,
              enabled : SUBSET Tunnel, mode : [Tunnel -> Mode],
              from : [Tunnel -> PoolInput \cup {0}], pool : PoolInput,
              policy : Policy, groups : [Tunnel -> SUBSET Group]]
  BY Zenon DEF Tables, Rows, Database
<1> USE ForwardingAssumption
<1>1. ASSUME NEW y \in PolicyInput, NEW q \in PoolInput, SaveSettings(y, q) PROVE Tables'
  <2> DEFINE v == [db EXCEPT !.policy = y, !.pool = q]
  <2>1. (db' = v \/ db' = Allocated(v)) /\ want' = want
    BY <1>1, ZenonT(60) DEF SaveSettings, Edit, local
  <2>2. Rows(v) BY <1>1, SettingsRows, Zenon DEF Tables
  <2> HIDE DEF v
  <2>3. Rows(Allocated(v)) BY <2>2, AllocatedRows, Zenon
  <2> QED BY <2>1, <2>2, <2>3, Zenon DEF Tables
<1>2. ASSUME NEW t \in Tunnel, SetEnabled(t) PROVE Tables'
  <2>1. /\ db' = [db EXCEPT !.enabled = IF t \in @ THEN @ \ {t} ELSE @ \cup {t}]
        /\ want' = want
    BY <1>2, Zenon DEF SetEnabled, Edit, local
  <2>2. Rows(db')
    BY <1>types, <1>2, <2>1, SMTT(30) DEF Tables, Rows, Database, Mode
  <2> QED BY <2>1, <2>2, Zenon DEF Tables
<1>3. ASSUME NEW t \in Tunnel, NEW m \in ModeInput,
             SetTunnelV4Mode(t, m)
      PROVE  Tables'
  <2>1. /\ db' = [db EXCEPT !.mode[t] = m]
        /\ want' = want
    BY <1>3, ZenonT(60) DEF SetTunnelV4Mode, Edit, local
  <2>2. Rows(db')
    BY <1>types, <1>3, <2>1, SMTT(30) DEF Tables, Rows, Database, Mode
  <2> QED BY <2>1, <2>2, Zenon DEF Tables
<1>4. ASSUME NEW t \in Tunnel, NEW G \in SUBSET Group,
             SetTunnelRoutingGroups(t, G)
      PROVE  Tables'
  <2>1. /\ db' = [db EXCEPT !.groups[t] = G]
        /\ want' = want
    BY <1>4, Zenon DEF SetTunnelRoutingGroups, Edit, local
  <2>2. Rows(db')
    BY <1>types, <1>4, <2>1, SMTT(30) DEF Tables, Rows, Database, Mode
  <2> QED BY <2>1, <2>2, Zenon DEF Tables
<1>5. ASSUME NEW g \in Group, DeleteRoutingGroup(g) PROVE Tables'
  <2>1. /\ db' = [db EXCEPT !.groups = [t \in Tunnel |-> @[t] \ {g}]]
        /\ want' = want
    BY <1>5, ZenonT(60) DEF DeleteRoutingGroup, Edit, local
  <2>2. Rows(db')
    BY <1>types, <1>5, <2>1, SMTT(30) DEF Tables, Rows, Database, Mode
  <2> QED BY <2>1, <2>2, Zenon DEF Tables
<1>6. ASSUME NEW t \in Tunnel, NEW m \in ModeInput, NEW G \in SUBSET Group,
             CreateTunnel(t, m, G)
      PROVE  Tables'
  <2> DEFINE v1 == [db EXCEPT !.rows = @ \cup {t}]
             v2 == [v1 EXCEPT !.enabled = @ \cup {t}]
             v3 == [v2 EXCEPT !.mode[t] = m]
             v4 == [v3 EXCEPT !.groups[t] = G]
             v5 == [v4 EXCEPT !.from[t] = IF m = "off" THEN 0 ELSE db.pool]
  <2>1. /\ db' = [db EXCEPT !.rows = @ \cup {t}, !.enabled = @ \cup {t},
                            !.mode[t] = m, !.groups[t] = G,
                            !.from[t] = IF m = "off" THEN 0 ELSE db.pool]
        /\ want' = want /\ UpstreamOf[t] \in db.ups
    BY <1>6, ZenonT(60) DEF CreateTunnel, Edit, local
  <2>2. db' = v5
    BY <1>types, <2>1, SMTT(30)
  <2>3. v5 \in Database
    <3>1. v1 \in Database BY <1>types, <1>6, SMTT(30) DEF Database
    <3> HIDE DEF v1
    <3>2. v2 \in Database BY <3>1, <1>6, SMTT(30) DEF Database
    <3> HIDE DEF v2
    <3>3. v3 \in Database BY <3>2, <1>6, SMTT(30) DEF Database, Mode
    <3> HIDE DEF v3
    <3>4. v4 \in Database BY <3>3, <1>6, SMTT(30) DEF Database
    <3> HIDE DEF v4
    <3>5. db.pool \in PoolInput BY <1>types, SMTT(30)
    <3>6. QED BY <3>4, <3>5, <1>6, SMTT(30) DEF Database
  <2>4. db'.rows = db.rows \cup {t} /\ db'.ups = db.ups
    BY <1>types, <2>1, SMTT(30)
  <2>5. \A x \in db'.rows : UpstreamOf[x] \in db'.ups
    BY <2>1, <2>4, Zenon DEF Tables, Rows
  <2> HIDE DEF v5
  <2> QED BY <2>1, <2>2, <2>3, <2>5, Zenon DEF Tables, Rows
<1>7. ASSUME NEW t \in Tunnel, DeleteTunnel(t) PROVE Tables'
  <2> DEFINE v1 == [db EXCEPT !.rows = @ \ {t}]
             v2 == [v1 EXCEPT !.enabled = @ \ {t}]
             v3 == [v2 EXCEPT !.mode[t] = "off"]
             v4 == [v3 EXCEPT !.groups[t] = {}]
             v5 == [v4 EXCEPT !.from[t] = 0]
  <2>1. /\ db' = [db EXCEPT !.rows = @ \ {t}, !.enabled = @ \ {t},
                            !.mode[t] = "off", !.groups[t] = {}, !.from[t] = 0]
        /\ want' = want
    BY <1>7, Zenon DEF DeleteTunnel, Edit, local
  <2>2. db' = v5
    BY <1>types, <2>1, SMTT(30)
  <2>3. v5 \in Database
    <3>1. v1 \in Database BY <1>types, <1>7, SMTT(30) DEF Database
    <3> HIDE DEF v1
    <3>2. v2 \in Database BY <3>1, <1>7, SMTT(30) DEF Database
    <3> HIDE DEF v2
    <3>3. v3 \in Database BY <3>2, <1>7, SMTT(30) DEF Database, Mode
    <3> HIDE DEF v3
    <3>4. v4 \in Database BY <3>3, <1>7, SMTT(30) DEF Database
    <3> HIDE DEF v4
    <3>5. db.pool \in PoolInput BY <1>types, SMTT(30)
    <3>6. QED BY <3>4, <3>5, <1>7, SMTT(30) DEF Database
  <2>4. db'.rows = db.rows \ {t} /\ db'.ups = db.ups
    BY <1>types, <2>1, SMTT(30)
  <2>5. \A x \in db'.rows : UpstreamOf[x] \in db'.ups
    BY <2>1, <2>4, Zenon DEF Tables, Rows
  <2> HIDE DEF v5
  <2> QED BY <2>1, <2>2, <2>3, <2>5, ZenonT(60) DEF Tables, Rows
<1>8. ASSUME NEW t \in Tunnel, DeleteTunnelFails(t) PROVE Tables'
  <2>1. /\ db' = db
        /\ want' = want
    BY <1>8, ZenonT(60) DEF DeleteTunnelFails, Edit, local
  <2>2. Rows(db')
    BY <1>types, <1>8, <2>1, SMTT(30) DEF Tables, Rows, Database, Mode
  <2> QED BY <2>1, <2>2, Zenon DEF Tables
<1>9. ASSUME NEW u \in Upstream, CreateUpstream(u) PROVE Tables'
  <2>1. /\ db' = [db EXCEPT !.ups = @ \cup {u}]
        /\ want' = want
    BY <1>9, ZenonT(60) DEF CreateUpstream, Edit, local
  <2>2. Rows(db')
    BY <1>types, <1>9, <2>1, SMTT(30) DEF Tables, Rows, Database, Mode
  <2> QED BY <2>1, <2>2, Zenon DEF Tables
<1>10. ASSUME NEW u \in Upstream, DeleteUpstream(u) PROVE Tables'
  <2>1. /\ db' = [db EXCEPT !.ups = @ \ {u}]
        /\ want' = want /\ db.rows \cap Of(u) = {}
    BY <1>10, ZenonT(60) DEF DeleteUpstream, Edit, local
  <2>2. Rows(db')
    BY <1>types, <1>10, <2>1, SMTT(30) DEF Tables, Rows, Database, Mode, Of
  <2> QED BY <2>1, <2>2, Zenon DEF Tables
<1>fails. ASSUME NEW u \in Upstream, DeleteUpstreamFails(u) PROVE Tables'
  <2>1. db' = db /\ want' = want
    BY <1>fails, ZenonT(60) DEF DeleteUpstreamFails, Edit, local
  <2> QED BY <2>1, Zenon DEF Tables
<1>11. CASE Reconcile
  <2>1. db' = Allocated(db) /\ want' = Allocated(db)
    BY <1>11, ZenonT(60) DEF Reconcile
  <2>2. Rows(Allocated(db)) BY AllocatedRows, Zenon DEF Tables
  <2> QED BY <2>1, <2>2, Zenon DEF Tables
<1>12. CASE ConfigureDevice
  <2>1. db' = db /\ want' \in {want, db}
    BY <1>12, ZenonT(60) DEF ConfigureDevice, Step, local
  <2> QED BY <2>1, Zenon DEF Tables
<1>13. CASE ProgramRoutes
  <2>1. db' = db /\ want' \in {want, db}
    BY <1>13, Zenon DEF ProgramRoutes, Step, local
  <2> QED BY <2>1, Zenon DEF Tables
<1>14. CASE StartWarp
  <2>1. db' = db /\ want' \in {want, db}
    BY <1>14, ZenonT(60) DEF StartWarp, Step, local
  <2> QED BY <2>1, Zenon DEF Tables
<1>15. CASE DeleteWarpRule
  <2>1. db' = db /\ want' \in {want, db}
    BY <1>15, ZenonT(60) DEF DeleteWarpRule, Step, local
  <2> QED BY <2>1, Zenon DEF Tables
<1>16. CASE WarpRulesDeleted
  <2>1. db' = db /\ want' \in {want, db}
    BY <1>16, ZenonT(60) DEF WarpRulesDeleted, Step, local
  <2> QED BY <2>1, Zenon DEF Tables
<1>17. CASE AddWarpRule
  <2>1. db' = db /\ want' \in {want, db}
    BY <1>17, ZenonT(60) DEF AddWarpRule, Step, local
  <2> QED BY <2>1, Zenon DEF Tables
<1>18. CASE FinishWarp
  <2>1. db' = db /\ want' \in {want, db}
    BY <1>18, ZenonT(60) DEF FinishWarp, Step, local
  <2> QED BY <2>1, Zenon DEF Tables
<1>19. CASE EnsureUpstreamTable
  <2>1. db' = db /\ want' \in {want, db}
    BY <1>19, ZenonT(60) DEF EnsureUpstreamTable, Step, local
  <2> QED BY <2>1, Zenon DEF Tables
<1>20. CASE TablesEnsured
  <2>1. db' = db /\ want' \in {want, db}
    BY <1>20, ZenonT(60) DEF TablesEnsured, Step, local
  <2> QED BY <2>1, Zenon DEF Tables
<1>21. CASE AddPolicyRule
  <2>1. db' = db /\ want' \in {want, db}
    BY <1>21, ZenonT(60) DEF AddPolicyRule, Step, local
  <2> QED BY <2>1, Zenon DEF Tables
<1>22. CASE DeletePolicyRule
  <2>1. db' = db /\ want' \in {want, db}
    BY <1>22, ZenonT(60) DEF DeletePolicyRule, Step, local
  <2> QED BY <2>1, Zenon DEF Tables
<1>23. CASE PolicyRulesDone
  <2>1. db' = db /\ want' \in {want, db}
    BY <1>23, ZenonT(60) DEF PolicyRulesDone, Step, local
  <2> QED BY <2>1, Zenon DEF Tables
<1>24. CASE ApplyNAT
  <2>1. db' = db /\ want' \in {want, db}
    BY <1>24, ZenonT(60) DEF ApplyNAT, Step, local
  <2> QED BY <2>1, Zenon DEF Tables
<1>25. CASE Inspect
  <2>1. db' = db /\ want' \in {want, db}
    BY <1>25, ZenonT(60) DEF Inspect, local
  <2> QED BY <2>1, Zenon DEF Tables
<1>26. CASE ReportUpstream
  <2>1. db' = db /\ want' \in {want, db}
    BY <1>26, ZenonT(60) DEF ReportUpstream, local
  <2> QED BY <2>1, Zenon DEF Tables
<1>27. CASE ConfigureDeviceFails
  <2>1. db' = db /\ want' \in {want, db}
    BY <1>27, ZenonT(60) DEF ConfigureDeviceFails, Fault
  <2> QED BY <2>1, Zenon DEF Tables
<1>28. CASE ProgramRoutesFails
  <2>1. db' = db /\ want' \in {want, db}
    BY <1>28, ZenonT(60) DEF ProgramRoutesFails, Fault
  <2> QED BY <2>1, Zenon DEF Tables
<1>29. CASE ApplyFails
  <2>1. db' = db /\ want' \in {want, db}
    BY <1>29, ZenonT(60) DEF ApplyFails, Fault, local
  <2> QED BY <2>1, Zenon DEF Tables
<1>keeps. CASE ProgramRoutesKeeps
  <2>1. db' = db /\ want' \in {want, db}
    BY <1>keeps, ZenonT(60) DEF ProgramRoutesKeeps, Overlook
  <2> QED BY <2>1, Zenon DEF Tables
<1>kept. CASE WarpRulesKept
  <2>1. db' = db /\ want' \in {want, db}
    BY <1>kept, ZenonT(60) DEF WarpRulesKept, Overlook, local
  <2> QED BY <2>1, Zenon DEF Tables
<1>table6. CASE EnsureUpstreamTable6
  <2>1. db' = db /\ want' \in {want, db}
    BY <1>table6, ZenonT(60) DEF EnsureUpstreamTable6, Overlook
  <2> QED BY <2>1, Zenon DEF Tables
<1>30. CASE Crash
  <2>1. db' = db /\ want' \in {want, db}
    BY <1>30, ZenonT(60) DEF Crash, local
  <2> QED BY <2>1, Zenon DEF Tables
<1>31. CASE Reboot
  <2>1. db' = db /\ want' \in {want, db}
    BY <1>31, Zenon DEF Reboot, local
  <2> QED BY <2>1, Zenon DEF Tables
<1>32. CASE UNCHANGED vars
  BY <1>32, Zenon DEF vars, local, Tables, Rows
<1> QED
  BY <1>1, <1>2, <1>3, <1>4, <1>5, <1>6, <1>7, <1>8, <1>9, <1>10, <1>11,
     <1>12, <1>13, <1>14, <1>15, <1>16, <1>17, <1>18, <1>19, <1>20, <1>21,
     <1>22, <1>23, <1>24, <1>25, <1>26, <1>27, <1>28, <1>29, <1>30, <1>31,
     <1>32, <1>fails, <1>keeps, <1>kept, <1>table6, ZenonT(60)
     DEF Next, Request, Apply

-----------------------------------------------------------------------------
(***************************************************************************)
(* What Apply has programmed so far.                                       *)
(***************************************************************************)
Shared == {"unwarp", "warp", "tables", "rules", "nft", "ndp"}

Configured(u) ==
    /\ u \in device
    /\ \A k \in Kind : \A t \in Of(u) : t \in peer[k] <=> t \in AllowedIPs(want, k)

Served(u) == Configured(u) /\ \A f \in Family : On(want, f) \cap Of(u) \subseteq route[f]

\* The healthy upstreams are served, and those are all that were visited if none
\* failed; the WARP rules and route are there once ensureWarp is done.
Work ==
    /\ pc \in {"device", "routes"} /\ ~failed => want.ups \ todo \subseteq healthy
    /\ pc \in Shared /\ ~failed => want.ups \subseteq healthy
    /\ pc # "idle" => \A u \in healthy : Served(u)
    /\ pc = "routes" => Configured(First(todo))
    /\ pc \in {"tables", "rules", "nft", "ndp"} =>
          /\ \A t \in Warping : Warped(t) \in rule
          /\ Warping # {} => warp = "route"

\* Steps that leave peers, routes and arguments alone leave upstreams served.
LEMMA SameServed ==
  ASSUME UNCHANGED <<peer, route, want>>, device \subseteq device', NEW u
  PROVE  /\ Configured(u) => Configured(u)'
         /\ Served(u) => Served(u)'
<1>1. \A k : On(want, k)' = On(want, k) BY Zenon DEF On
<1>2. \A k : AllowedIPs(want, k)' = AllowedIPs(want, k)
  BY Zenon DEF AllowedIPs, Overtaken, On
<1> QED BY <1>1, <1>2, ZenonT(60) DEF Configured, Served

LEMMA SameWarping ==
  ASSUME UNCHANGED <<want, healthy>>
  PROVE  Warping' = Warping
  BY Zenon DEF Warping

LEMMA WorkStep ==
  ASSUME Work, Tables, Tables', [Next]_vars
  PROVE  Work'
<1> USE DEF Work, kernel, local, Goto, Shared
<1>1. ASSUME NEW y \in PolicyInput, NEW q \in PoolInput, SaveSettings(y, q) PROVE Work'
  <2>1. UNCHANGED <<kernel, pc, local>> BY <1>1, Zenon DEF SaveSettings, Edit
  <2>2. Warping' = Warping BY <2>1, SameWarping, ZenonT(60)
  <2>3. \A u : (Configured(u) => Configured(u)') /\ (Served(u) => Served(u)')
    BY <2>1, SameServed, Zenon
  <2> QED BY <2>1, <2>2, <2>3, Zenon
<1>2. ASSUME NEW t \in Tunnel, SetEnabled(t) PROVE Work'
  BY <1>2, Zenon DEF SetEnabled, Edit
<1>3. ASSUME NEW t \in Tunnel, NEW m \in ModeInput,
             SetTunnelV4Mode(t, m)
      PROVE  Work'
  BY <1>3, Zenon DEF SetTunnelV4Mode, Edit
<1>4. ASSUME NEW t \in Tunnel, NEW G \in SUBSET Group,
             SetTunnelRoutingGroups(t, G)
      PROVE  Work'
  BY <1>4, Zenon DEF SetTunnelRoutingGroups, Edit
<1>5. ASSUME NEW g \in Group, DeleteRoutingGroup(g) PROVE Work'
  BY <1>5, Zenon DEF DeleteRoutingGroup, Edit
<1>6. ASSUME NEW t \in Tunnel, NEW m \in ModeInput, NEW G \in SUBSET Group,
             CreateTunnel(t, m, G)
      PROVE  Work'
  BY <1>6, Zenon DEF CreateTunnel, Edit
<1>7. ASSUME NEW t \in Tunnel, DeleteTunnel(t) PROVE Work'
  BY <1>7, Zenon DEF DeleteTunnel, Edit
<1>8. ASSUME NEW t \in Tunnel, DeleteTunnelFails(t) PROVE Work'
  BY <1>8, Zenon DEF DeleteTunnelFails, Edit
<1>9. ASSUME NEW u \in Upstream, CreateUpstream(u) PROVE Work'
  BY <1>9, Zenon DEF CreateUpstream, Edit
<1>10. ASSUME NEW u \in Upstream, DeleteUpstream(u) PROVE Work'
  BY <1>10, Zenon DEF DeleteUpstream, Edit
<1>fails. ASSUME NEW u \in Upstream, DeleteUpstreamFails(u) PROVE Work'
  BY <1>fails, Zenon DEF DeleteUpstreamFails, Edit
<1>11. CASE Reconcile
  <2>1. pc' = "device" /\ healthy' = {} /\ want' = Allocated(db) /\ todo' = db.ups
    BY <1>11, Zenon DEF Reconcile
  <2>2. want'.ups = db.ups BY <2>1, AllocatedRows, Zenon DEF Tables
  <2> QED BY <2>1, <2>2, Zenon
<1>12. CASE ConfigureDevice
  <2>x. PICK x : x = First(todo) OBVIOUS
  <2>1. /\ pc = "device" /\ pc' = "routes"
        /\ device' = device \cup {x} /\ UNCHANGED <<route, local>>
        /\ peer' = [k \in Kind |-> (peer[k] \ Of(x)) \cup (AllowedIPs(want, k) \cap Of(x))]
    BY <1>12, <2>x, Zenon DEF ConfigureDevice
  <2>2. \A k \in Kind : peer'[k] = (peer[k] \ Of(x)) \cup (AllowedIPs(want, k) \cap Of(x))
    BY <2>1, Zenon
  <2>3. /\ \A f : On(want, f)' = On(want, f)
        /\ \A k : AllowedIPs(want, k)' = AllowedIPs(want, k)
    BY <2>1, Zenon DEF AllowedIPs, Overtaken, On
  <2>4. Configured(x)'
    BY <2>1, <2>2, <2>3, ZenonT(60) DEF Configured
  <2>5. ASSUME NEW u \in healthy, Served(u) PROVE Served(u)'
    <3>1. \A k \in Kind : \A t \in Of(u) : t \in peer'[k] <=> t \in AllowedIPs(want, k)
      <4>1. CASE u = x BY <2>2, <4>1, Zenon
      <4>2. CASE u # x
        <5>1. \A t \in Of(u) : t \notin Of(x) BY <4>2, Zenon DEF Of
        <5>2. QED BY <2>2, <2>5, <5>1, ZenonT(60) DEF Served, Configured
      <4>3. QED BY <4>1, <4>2
    <3>2. QED BY <2>1, <2>3, <2>5, <3>1, ZenonT(60) DEF Served, Configured
  <2>6. First(todo)' = x BY <2>1, <2>x, Zenon
  <2> QED BY <2>1, <2>4, <2>5, <2>6, ZenonT(60)
<1>13. CASE ProgramRoutes
  <2>x. PICK x : x = First(todo) OBVIOUS
  <2>1. /\ pc = "routes" /\ pc' = "device"
        /\ UNCHANGED <<device, peer, want>>
        /\ \E T \in SUBSET (want.rows \cap Of(x)) : route' = Routed(T)
        /\ todo' = todo \ {x} /\ healthy' = healthy \cup {x} /\ failed' = failed
        /\ route' = Routed(want.rows \cap Of(x))
    BY <1>13, <2>x, Zenon DEF ProgramRoutes
  <2>2. \A f : On(want, f)' = On(want, f) BY <2>1, Zenon DEF On
  <2>c. \A w : Configured(w) => Configured(w)'
    <3>1. \A k : AllowedIPs(want, k)' = AllowedIPs(want, k)
      BY <2>1, Zenon DEF AllowedIPs, Overtaken, On
    <3> QED BY <2>1, <3>1, ZenonT(60) DEF Configured
  <2>3. ASSUME NEW f \in Family, NEW t \in On(want, f), t \in route[f] PROVE t \in route'[f]
    <3>1. PICK T : route' = Routed(T) BY <2>1, Zenon
    <3>2. route'[f] = (route[f] \ T) \cup (On(want, f) \cap T) BY <3>1, Zenon DEF Routed
    <3>3. QED BY <2>3, <3>2, Zenon
  <2>4. \A u \in healthy : Served(u)'
    <3> SUFFICES ASSUME NEW u \in healthy PROVE Served(u)' OBVIOUS
    <3>1. Served(u) BY <2>1, Zenon
    <3>2. Configured(u)' BY <2>c, <3>1, ZenonT(60) DEF Served
    <3>3. \A f \in Family : On(want, f) \cap Of(u) \subseteq route'[f]
      BY <2>3, <3>1, ZenonT(60) DEF Served
    <3>4. QED BY <2>2, <3>2, <3>3, ZenonT(60) DEF Served
  <2>5. Served(x)'
    <3>1. Configured(x)' BY <2>1, <2>c, <2>x, ZenonT(60)
    <3>2. ASSUME NEW f \in Family, NEW t \in On(want, f) \cap Of(x) PROVE t \in route'[f]
      <4>1. t \in want.rows \cap Of(x) BY Zenon DEF On
      <4>2. route'[f] = (route[f] \ (want.rows \cap Of(x)))
                          \cup (On(want, f) \cap (want.rows \cap Of(x)))
        BY <2>1, Zenon DEF Routed
      <4>3. QED BY <4>1, <4>2, ZenonT(60)
    <3>3. QED BY <2>2, <3>1, <3>2, ZenonT(60) DEF Served
  <2> QED BY <2>1, <2>4, <2>5, ZenonT(60)
<1>keeps. CASE ProgramRoutesKeeps
  <2>x. PICK x : x = First(todo) OBVIOUS
  <2>1. /\ pc = "routes" /\ pc' = "device"
        /\ UNCHANGED <<device, peer, want>>
        /\ todo' = todo \ {x} /\ healthy' = healthy \cup {x} /\ failed' = failed
        /\ \E K : route' = [f \in Family |-> Routed(want.rows \cap Of(x))[f]
                                              \cup (route[f] \cap K)]
    BY <1>keeps, <2>x, Zenon DEF ProgramRoutesKeeps
  <2>2. \A f : On(want, f)' = On(want, f) BY <2>1, Zenon DEF On
  <2>c. \A w : Configured(w) => Configured(w)'
    <3>1. \A k : AllowedIPs(want, k)' = AllowedIPs(want, k)
      BY <2>1, Zenon DEF AllowedIPs, Overtaken, On
    <3> QED BY <2>1, <3>1, ZenonT(60) DEF Configured
  <2>3. ASSUME NEW f \in Family, NEW t \in On(want, f), t \in route[f] PROVE t \in route'[f]
    <3>1. Routed(want.rows \cap Of(x))[f] \subseteq route'[f]
      BY <2>1, Zenon
    <3>2. t \in Routed(want.rows \cap Of(x))[f] BY <2>3, Zenon DEF Routed
    <3>3. QED BY <3>1, <3>2, Zenon
  <2>4. \A u \in healthy : Served(u)'
    <3> SUFFICES ASSUME NEW u \in healthy PROVE Served(u)' OBVIOUS
    <3>1. Served(u) BY <2>1, Zenon
    <3>2. Configured(u)' BY <2>c, <3>1, ZenonT(60) DEF Served
    <3>3. \A f \in Family : On(want, f) \cap Of(u) \subseteq route'[f]
      BY <2>3, <3>1, ZenonT(60) DEF Served
    <3>4. QED BY <2>2, <3>2, <3>3, ZenonT(60) DEF Served
  <2>5. Served(x)'
    <3>1. Configured(x)' BY <2>1, <2>c, <2>x, ZenonT(60)
    <3>2. ASSUME NEW f \in Family, NEW t \in On(want, f) \cap Of(x) PROVE t \in route'[f]
      <4>1. t \in want.rows \cap Of(x) BY Zenon DEF On
      <4>2. t \in Routed(want.rows \cap Of(x))[f] BY <4>1, Zenon DEF Routed
      <4>3. QED BY <2>1, <4>2, ZenonT(60)
    <3>3. QED BY <2>2, <3>1, <3>2, ZenonT(60) DEF Served
  <2> QED BY <2>1, <2>4, <2>5, ZenonT(60)
<1>kept. CASE WarpRulesKept
  <2>1. /\ pc = "unwarp" /\ pc' \in {"warp", "idle"}
        /\ UNCHANGED <<device, peer, route, want, healthy, failed>>
    BY <1>kept, Zenon DEF WarpRulesKept
  <2>2. \A u : Served(u) => Served(u)' BY <2>1, SameServed, Zenon
  <2> QED BY <2>1, <2>2, ZenonT(60)
<1>table6. CASE EnsureUpstreamTable6
  <2>1. /\ pc = "tables" /\ pc' = "tables" /\ rule' = rule
        /\ UNCHANGED <<device, peer, route, warp, want, healthy, failed>>
    BY <1>table6, Zenon DEF EnsureUpstreamTable6
  <2>2. \A u : Served(u) => Served(u)' BY <2>1, SameServed, Zenon
  <2>3. Warping' = Warping BY <2>1, SameWarping, Zenon
  <2> QED BY <2>1, <2>2, <2>3, ZenonT(60)
<1>14. CASE StartWarp
  <2>1. /\ pc = "device" /\ pc' = "unwarp" /\ todo = {}
        /\ UNCHANGED <<device, peer, route, want, healthy, rule, todo, failed>>
    BY <1>14, Zenon DEF StartWarp
  <2>2. \A u : Served(u) => Served(u)' BY <2>1, SameServed, ZenonT(60)
  <2> QED BY <2>1, <2>2, Zenon
<1>15. CASE DeleteWarpRule
  <2>1. /\ pc = "unwarp" /\ pc' = "unwarp"
        /\ UNCHANGED <<device, peer, route, want, healthy, failed>>
    BY <1>15, Zenon DEF DeleteWarpRule
  <2>2. \A u : Served(u) => Served(u)' BY <2>1, SameServed, Zenon
  <2> QED BY <2>1, <2>2, Zenon
<1>16. CASE WarpRulesDeleted
  <2>1. /\ pc = "unwarp" /\ pc' = "warp"
        /\ UNCHANGED <<device, peer, route, want, healthy, rule, failed>>
    BY <1>16, Zenon DEF WarpRulesDeleted
  <2>2. \A u : Served(u) => Served(u)' BY <2>1, SameServed, Zenon
  <2> QED BY <2>1, <2>2, Zenon
<1>17. CASE AddWarpRule
  <2>1. /\ pc = "warp" /\ pc' = "warp"
        /\ UNCHANGED <<device, peer, route, want, healthy, failed>>
    BY <1>17, Zenon DEF AddWarpRule
  <2>2. \A u : Served(u) => Served(u)' BY <2>1, SameServed, Zenon
  <2> QED BY <2>1, <2>2, Zenon
<1>18. CASE FinishWarp
  <2>1. /\ pc = "warp" /\ pc' = "tables"
        /\ UNCHANGED <<device, peer, route, rule, want, healthy, failed>>
        /\ \A t \in Warping : Warped(t) \in rule
        /\ Warping # {} => warp' = "route"
    BY <1>18, Zenon DEF FinishWarp
  <2>2. \A u : Served(u) => Served(u)' BY <2>1, SameServed, Zenon
  <2>3. Warping' = Warping BY <2>1, SameWarping, ZenonT(60)
  <2> QED BY <2>1, <2>2, <2>3, ZenonT(60)
<1>19. CASE EnsureUpstreamTable
  <2>1. /\ pc = "tables" /\ pc' = "tables" /\ rule' = rule
        /\ UNCHANGED <<device, peer, route, warp, want, healthy, failed>>
    BY <1>19, Zenon DEF EnsureUpstreamTable
  <2>2. \A u : Served(u) => Served(u)' BY <2>1, SameServed, Zenon
  <2>3. Warping' = Warping BY <2>1, SameWarping, Zenon
  <2> QED BY <2>1, <2>2, <2>3, ZenonT(60)
<1>20. CASE TablesEnsured
  <2>1. /\ pc = "tables" /\ pc' = "rules" /\ rule' = rule
        /\ UNCHANGED <<device, peer, route, warp, want, healthy, failed>>
    BY <1>20, Zenon DEF TablesEnsured
  <2>2. \A u : Served(u) => Served(u)' BY <2>1, SameServed, Zenon
  <2>3. Warping' = Warping BY <2>1, SameWarping, Zenon
  <2> QED BY <2>1, <2>2, <2>3, ZenonT(60)
<1>21. CASE AddPolicyRule
  <2>1. /\ pc = "rules" /\ pc' = "rules" /\ rule \subseteq rule'
        /\ UNCHANGED <<device, peer, route, warp, want, healthy, failed>>
    BY <1>21, Zenon DEF AddPolicyRule
  <2>2. \A u : Served(u) => Served(u)' BY <2>1, SameServed, Zenon
  <2>3. Warping' = Warping BY <2>1, SameWarping, Zenon
  <2> QED BY <2>1, <2>2, <2>3, ZenonT(60)
<1>22. CASE DeletePolicyRule
  <2>1. /\ pc = "rules" /\ pc' = "rules" /\ rule \cap WarpRules \subseteq rule'
        /\ UNCHANGED <<device, peer, route, warp, want, healthy, failed>>
    BY <1>22, Zenon DEF DeletePolicyRule
  <2>2. \A u : Served(u) => Served(u)' BY <2>1, SameServed, Zenon
  <2>3. Warping' = Warping BY <2>1, SameWarping, Zenon
  <2>4. \A t \in Warping : Warped(t) \in WarpRules
    <3>1. want.rows \subseteq Tunnel BY SMTT(30) DEF Tables, Rows, Database
    <3>2. QED BY <3>1, ZenonT(60) DEF Warping, Resolved, WarpRules
  <2> QED BY <2>1, <2>2, <2>3, <2>4, ZenonT(60)
<1>23. CASE PolicyRulesDone
  <2>1. /\ pc = "rules" /\ pc' = "nft" /\ rule' = rule
        /\ UNCHANGED <<device, peer, route, warp, want, healthy, failed>>
    BY <1>23, ZenonT(60) DEF PolicyRulesDone
  <2>2. \A u : Served(u) => Served(u)' BY <2>1, SameServed, ZenonT(60)
  <2>3. Warping' = Warping BY <2>1, SameWarping, ZenonT(60)
  <2> QED BY <2>1, <2>2, <2>3, ZenonT(60)
<1>24. CASE ApplyNAT
  <2>1. /\ pc = "nft" /\ pc' = "ndp" /\ rule' = rule
        /\ UNCHANGED <<device, peer, route, warp, want, healthy, failed>>
    BY <1>24, Zenon DEF ApplyNAT
  <2>2. \A u : Served(u) => Served(u)' BY <2>1, SameServed, ZenonT(60)
  <2>3. Warping' = Warping BY <2>1, SameWarping, ZenonT(60)
  <2> QED BY <2>1, <2>2, <2>3, ZenonT(60)
<1>25. CASE Inspect
  BY <1>25, Zenon DEF Inspect
<1>26. CASE ReportUpstream
  BY <1>26, Zenon DEF ReportUpstream
<1>27. CASE ConfigureDeviceFails
  <2>1. /\ pc = "device" /\ pc' = "device" /\ failed'
        /\ device \subseteq device' /\ UNCHANGED <<peer, route, want, healthy>>
    BY <1>27, ZenonT(60) DEF ConfigureDeviceFails
  <2>2. \A u : Served(u) => Served(u)' BY <2>1, SameServed, ZenonT(60)
  <2> QED BY <2>1, <2>2, ZenonT(60)
<1>28. CASE ProgramRoutesFails
  <2>x. PICK x : x = First(todo) OBVIOUS
  <2>1. /\ pc = "routes" /\ pc' = "device"
        /\ UNCHANGED <<device, peer, want>>
        /\ \E T \in SUBSET (want.rows \cap Of(x)) : route' = Routed(T)
        /\ failed' /\ healthy' = healthy
    BY <1>28, <2>x, ZenonT(60) DEF ProgramRoutesFails
  <2>2. \A f : On(want, f)' = On(want, f) BY <2>1, ZenonT(60) DEF On
  <2>c. \A w : Configured(w) => Configured(w)'
    <3>1. \A k : AllowedIPs(want, k)' = AllowedIPs(want, k)
      BY <2>1, Zenon DEF AllowedIPs, Overtaken, On
    <3> QED BY <2>1, <3>1, ZenonT(60) DEF Configured
  <2>3. ASSUME NEW f \in Family, NEW t \in On(want, f), t \in route[f] PROVE t \in route'[f]
    <3>1. PICK T : route' = Routed(T) BY <2>1, ZenonT(60)
    <3>2. route'[f] = (route[f] \ T) \cup (On(want, f) \cap T) BY <3>1, Zenon DEF Routed
    <3>3. QED BY <2>3, <3>2, Zenon
  <2>4. \A u \in healthy : Served(u)'
    <3> SUFFICES ASSUME NEW u \in healthy PROVE Served(u)' OBVIOUS
    <3>1. Served(u) BY <2>1, ZenonT(60)
    <3>2. Configured(u)' BY <2>c, <3>1, ZenonT(60) DEF Served
    <3>3. \A f \in Family : On(want, f) \cap Of(u) \subseteq route'[f]
      BY <2>3, <3>1, ZenonT(60) DEF Served
    <3>4. QED BY <2>2, <3>2, <3>3, ZenonT(60) DEF Served
  <2> QED BY <2>1, <2>4, ZenonT(60)
<1>29. CASE ApplyFails
  BY <1>29, ZenonT(60) DEF ApplyFails
<1>30. CASE Crash
  BY <1>30, ZenonT(60) DEF Crash
<1>31. CASE Reboot
  BY <1>31, ZenonT(60) DEF Reboot
<1>32. CASE UNCHANGED vars
  <2>1. UNCHANGED <<kernel, pc, local>> BY <1>32, Zenon DEF vars
  <2>2. Warping' = Warping BY <2>1, SameWarping, ZenonT(60)
  <2>3. \A u : (Configured(u) => Configured(u)') /\ (Served(u) => Served(u)')
    BY <2>1, SameServed, Zenon
  <2> QED BY <2>1, <2>2, <2>3, ZenonT(60)
<1> HIDE DEF Work, kernel, local, Goto, Shared
<1> QED
  BY <1>1, <1>2, <1>3, <1>4, <1>5, <1>6, <1>7, <1>8, <1>9, <1>10, <1>11,
     <1>12, <1>13, <1>14, <1>15, <1>16, <1>17, <1>18, <1>19, <1>20, <1>21,
     <1>22, <1>23, <1>24, <1>25, <1>26, <1>27, <1>28, <1>29, <1>30, <1>31,
     <1>32, <1>fails, <1>keeps, <1>kept, <1>table6, ZenonT(60)
     DEF Next, Request, Apply

\* At the end of an Apply in which no upstream failed, Inspect finds nothing but
\* the transport addresses that later peers have taken over.
LEMMA OnlyOvertaken ==
  ASSUME Work, Tables, pc = "ndp", ~failed
  PROVE  Inspection(want) = {<<"allowed", t>> : t \in Overtaken(want)}
<1>1. want.ups \subseteq healthy /\ \A u \in want.ups : Served(u)
  BY Zenon DEF Work, Shared
<1>2. want.rows \subseteq Tunnel /\ \A t \in want.rows : UpstreamOf[t] \in want.ups
  BY SMTT(30) DEF Tables, Rows, Database
<1>3. /\ 4 \in Family /\ 6 \in Family /\ Family \subseteq Kind /\ Transport \in Kind
      /\ \A f \in Family : f # Transport
  BY SMTT(30) DEF Family, Kind, Transport
<1>4. \A f : \A t \in On(want, f) :
        t \in Tunnel /\ UpstreamOf[t] \in want.ups /\ t \in Of(UpstreamOf[t])
  BY <1>2, Zenon DEF On, Of
<1>5. want.ups \subseteq device
  BY <1>1, Zenon DEF Served, Configured
<1>6. \A k \in Kind : \A t \in Tunnel :
        UpstreamOf[t] \in want.ups => (t \in peer[k] <=> t \in AllowedIPs(want, k))
  <2> SUFFICES ASSUME NEW k \in Kind, NEW t \in Tunnel, UpstreamOf[t] \in want.ups
               PROVE  t \in peer[k] <=> t \in AllowedIPs(want, k)
    OBVIOUS
  <2>1. t \in Of(UpstreamOf[t]) BY Zenon DEF Of
  <2>2. Configured(UpstreamOf[t]) BY <1>1, Zenon DEF Served
  <2>3. QED BY <2>1, <2>2, ZenonT(60) DEF Configured
<1>7. \A f \in Family : On(want, f) \subseteq route[f]
  BY <1>1, <1>4, Zenon DEF Served
<1>8. \A t \in Resolved(want, want.ups, "warp") : t \in Warping
  BY <1>1, Zenon DEF Warping, Resolved
<1>9. /\ \A t \in Resolved(want, want.ups, "warp") : Warped(t) \in rule
      /\ Resolved(want, want.ups, "warp") # {} => warp = "route"
  BY <1>8, Zenon DEF Work
<1> DEFINE warped == Resolved(want, want.ups, "warp")
<1>ip. /\ \A f \in Family : AllowedIPs(want, f) = On(want, f)
       /\ \A t \in On(want, 6) :
             ClientAddress[t] # 0 /\ t \notin AllowedIPs(want, Transport) <=> t \in Overtaken(want)
       /\ Overtaken(want) \subseteq On(want, 6)
  <2>1. \A f \in Family : AllowedIPs(want, f) = On(want, f)
    BY <1>3, Zenon DEF AllowedIPs
  <2>2. AllowedIPs(want, Transport) = {t \in On(want, 6) : ClientAddress[t] # 0} \ Overtaken(want)
    BY Zenon DEF AllowedIPs
  <2>3. \A t \in Overtaken(want) : t \in On(want, 6) /\ ClientAddress[t] # 0
    BY Zenon DEF Overtaken
  <2> QED BY <2>1, <2>2, <2>3, ZenonT(60)
<1>peer. \A t \in Tunnel : UpstreamOf[t] \in want.ups =>
           /\ t \in peer[6] <=> t \in On(want, 6)
           /\ t \in peer[4] <=> t \in On(want, 4)
  BY <1>3, <1>6, <1>ip, ZenonT(60)
<1>10. {s \in Tunnel : UpstreamOf[s] \in want.ups \cap device
                       /\ (s \in peer[6]) # (s \in On(want, 6))} = {}
  BY <1>peer, SMTT(30)
<1>11. {s \in On(want, 6) \cap peer[6] :
          \/ (s \in peer[4]) # (s \in On(want, 4))
          \/ ClientAddress[s] # 0 /\ s \notin peer[Transport]} = Overtaken(want)
  <2>1. \A s \in On(want, 6) :
          /\ s \in peer[6] /\ (s \in peer[4] <=> s \in On(want, 4))
          /\ s \notin peer[Transport] <=> s \notin AllowedIPs(want, Transport)
    BY <1>3, <1>4, <1>6, <1>peer, ZenonT(60)
  <2>2. \A s \in On(want, 6) : (s \in peer[4]) = (s \in On(want, 4))
    BY <2>1, SMTT(30)
  <2> QED BY <1>ip, <2>1, <2>2, SMTT(30)
<1>12. On(want, 6) \ route[6] = {} /\ On(want, 4) \ route[4] = {} /\ want.ups \ device = {}
  BY <1>3, <1>5, <1>7, ZenonT(60)
<1>13. {s \in warped : Warped(s) \notin rule} = {}
  BY <1>9, Zenon
<1>14. (IF warped # {} /\ warp # "route" THEN {0} ELSE {}) = {}
  BY <1>9, Zenon
<1> HIDE DEF warped
<1>15. Inspection(want) =
         {<<"device", u>> : u \in {}} \cup {<<"peer", t>> : t \in {}}
         \cup {<<"allowed", t>> : t \in Overtaken(want)} \cup {<<"route6", t>> : t \in {}}
         \cup {<<"route4", t>> : t \in {}} \cup {<<"warp rule", t>> : t \in {}}
         \cup {<<"warp", u>> : u \in {}}
  BY <1>10, <1>11, <1>12, <1>13, <1>14, ZenonT(60) DEF Inspection, warped
<1>16. QED
  BY <1>15, Zenon

\* A reconcile that succeeded, whatever errors it ignored, shows no drift but of
\* the tunnels whose transport address a later tunnel of the upstream has too.
THEOREM SuccessShowsNoDrift == Spec => []NoFalseDrift
<1> DEFINE I == Tables /\ Work /\ NoFalseDrift
<1>1. Init => I
  <2> SUFFICES ASSUME Init PROVE I OBVIOUS
  <2>1. pc = "idle" /\ outcome = "failed" BY Zenon DEF Init
  <2>2. Work BY <2>1, Zenon DEF Work, Shared
  <2>3. QED BY <2>1, <2>2, TablesInit, ZenonT(60) DEF NoFalseDrift
<1>2. ASSUME I, [Next]_vars PROVE I'
  <2>1. Tables' BY <1>2, TablesStep
  <2>2. Work' BY <1>2, <2>1, WorkStep, SMTT(30)
  <2>3. NoFalseDrift'
    <3>o. want' = want => Overtaken(want)' = Overtaken(want)
      BY Zenon DEF Overtaken, On
    <3>1. CASE Inspect
      <4>1. pc = "ndp" /\ ~failed /\ drift' = Inspection(want) /\ want' = want
        BY <3>1, ZenonT(60) DEF Inspect, local
      <4> QED BY <1>2, <3>o, <4>1, OnlyOvertaken, ZenonT(60) DEF NoFalseDrift
    <3>2. CASE ~Inspect
      <4>1. outcome' = "ok" /\ pc' = "idle" =>
               outcome = "ok" /\ pc = "idle" /\ UNCHANGED <<drift, want>>
        BY <1>2, <3>2, ZenonT(60)
           DEF Next, Request, Apply, vars, local, Edit, Fault, Step, Goto, SaveSettings, SetEnabled,
               SetTunnelV4Mode, SetTunnelRoutingGroups, DeleteRoutingGroup, CreateTunnel,
               DeleteTunnel, DeleteTunnelFails, CreateUpstream, DeleteUpstream,
               DeleteUpstreamFails, Reconcile, ConfigureDevice, ProgramRoutes, StartWarp,
               DeleteWarpRule, WarpRulesDeleted, AddWarpRule, FinishWarp,
               EnsureUpstreamTable, TablesEnsured, AddPolicyRule, DeletePolicyRule,
               PolicyRulesDone, ApplyNAT, ReportUpstream, ConfigureDeviceFails,
               ProgramRoutesFails, ApplyFails, Overlook, ProgramRoutesKeeps, WarpRulesKept,
               EnsureUpstreamTable6, Crash, Reboot
      <4>2. QED BY <1>2, <3>o, <4>1, ZenonT(60) DEF NoFalseDrift
    <3>3. QED BY <3>1, <3>2
  <2>4. QED BY <2>1, <2>2, <2>3, SMTT(30)
<1>3. QED
  BY <1>1, <1>2, PTL DEF Spec
-----------------------------------------------------------------------------
(***************************************************************************)
(* The types.                                                              *)
(***************************************************************************)

LEMMA FirstIn ==
  ASSUME NEW S, S \subseteq Nat, S # {}
  PROVE  First(S) \in S
<1>1. \E u \in S : \A v \in S : ~(<<v, u>> \in OpToRel(<, Nat))
  BY NatLessThanWellFounded, WFMin, ZenonT(60)
<1>2. \A u, v \in Nat : v < u => <<v, u>> \in OpToRel(<, Nat)
  BY Zenon DEF OpToRel
<1>3. \E u \in S : \A v \in S : ~(v < u)
  BY <1>1, <1>2, ZenonT(60)
<1>4. \E u \in S : \A v \in S : u <= v
  BY <1>3, SMTT(30)
<1> QED BY <1>4, Zenon DEF First

\* What Apply works on are upstreams of the tables, and so are the devices.
Sets ==
    /\ device \subseteq db.ups
    /\ todo \subseteq want.ups /\ healthy \subseteq want.ups
    /\ pc = "routes" => todo # {}
    /\ pc # "idle" => want.ups = db.ups

LEMMA SetsFrame ==
  ASSUME [Next]_vars
  PROVE  \/ UNCHANGED <<device, todo, healthy, want, pc, db>>
         \/ Request \/ Reconcile \/ ConfigureDevice \/ ProgramRoutes \/ ProgramRoutesKeeps
         \/ ConfigureDeviceFails \/ ProgramRoutesFails \/ FinishWarp
         \/ EnsureUpstreamTable \/ EnsureUpstreamTable6 \/ Reboot
         \/ /\ UNCHANGED <<device, todo, healthy, want, db>>
            /\ pc # "idle" \/ pc' = "idle"
            /\ pc' # "routes"
  BY ZenonT(60)
     DEF Next, Request, Apply, vars, kernel, local, Edit, Changed, Fault, Step, Goto, SaveSettings,
         SetEnabled, SetTunnelV4Mode, SetTunnelRoutingGroups, DeleteRoutingGroup, CreateTunnel,
         DeleteTunnel, DeleteTunnelFails, CreateUpstream, DeleteUpstream, DeleteUpstreamFails,
         Reconcile,
         ConfigureDevice, ProgramRoutes, StartWarp, DeleteWarpRule, WarpRulesDeleted,
         AddWarpRule, FinishWarp, EnsureUpstreamTable, TablesEnsured, AddPolicyRule,
         DeletePolicyRule, PolicyRulesDone, ApplyNAT, Inspect, ReportUpstream,
         ConfigureDeviceFails, ProgramRoutesFails, ApplyFails, Overlook,
         ProgramRoutesKeeps, WarpRulesKept, EnsureUpstreamTable6, Crash, Reboot

\* What a request does to the upstreams and their devices.
LEMMA RequestUps ==
  ASSUME Tables, Request
  PROVE  /\ UNCHANGED <<pc, want, todo, healthy, failed>>
         /\ \/ db'.ups = db.ups /\ device' = device
            \/ /\ pc = "idle"
               /\ \E u \in Upstream :
                    \/ db'.ups = db.ups \cup {u} /\ device' = device
                    \/ db'.ups \in {db.ups, db.ups \ {u}} /\ device' = device \ {u}
<1> DEFINE Goal == /\ UNCHANGED <<pc, want, todo, healthy, failed>>
                   /\ db'.ups = db.ups /\ device' = device
<1>db. db \in [ups : SUBSET Upstream, rows : SUBSET Tunnel,
               enabled : SUBSET Tunnel, mode : [Tunnel -> Mode],
               from : [Tunnel -> PoolInput \cup {0}], pool : PoolInput,
               policy : Policy, groups : [Tunnel -> SUBSET Group]]
  BY Zenon DEF Tables, Rows, Database
<1> USE DEF Edit, kernel, local
<1>1. ASSUME NEW y \in PolicyInput, NEW q \in PoolInput, SaveSettings(y, q) PROVE Goal
  <2> DEFINE v == [db EXCEPT !.policy = y, !.pool = q]
  <2>1. /\ UNCHANGED <<pc, want, todo, healthy, failed>> /\ device' = device
        /\ db' = v \/ db' = Allocated(v)
    BY <1>1, ZenonT(60) DEF SaveSettings
  <2>2. Rows(v) /\ v.ups = db.ups BY <1>1, SettingsRows, Zenon DEF Tables
  <2> HIDE DEF v
  <2>3. db'.ups = db.ups BY <2>1, <2>2, AllocatedRows, Zenon
  <2> QED BY <2>1, <2>3, Zenon
<1>2. ASSUME NEW t \in Tunnel, SetEnabled(t) PROVE Goal
  BY <1>db, <1>2, SMTT(30) DEF SetEnabled
<1>3. ASSUME NEW t \in Tunnel, NEW m \in ModeInput, SetTunnelV4Mode(t, m) PROVE Goal
  BY <1>db, <1>3, SMTT(30) DEF SetTunnelV4Mode
<1>4. ASSUME NEW t \in Tunnel, NEW G \in SUBSET Group, SetTunnelRoutingGroups(t, G) PROVE Goal
  BY <1>db, <1>4, SMTT(30) DEF SetTunnelRoutingGroups
<1>5. ASSUME NEW g \in Group, DeleteRoutingGroup(g) PROVE Goal
  BY <1>db, <1>5, SMTT(30) DEF DeleteRoutingGroup
<1>6. ASSUME NEW t \in Tunnel, NEW m \in ModeInput, NEW G \in SUBSET Group,
             CreateTunnel(t, m, G)
      PROVE  Goal
  BY <1>db, <1>6, SMTT(30) DEF CreateTunnel
<1>7. ASSUME NEW t \in Tunnel, DeleteTunnel(t) PROVE Goal
  BY <1>db, <1>7, SMTT(30) DEF DeleteTunnel
<1>8. ASSUME NEW t \in Tunnel, DeleteTunnelFails(t) PROVE Goal
  BY <1>8, Zenon DEF DeleteTunnelFails
<1>9. ASSUME NEW u \in Upstream, CreateUpstream(u)
      PROVE  /\ UNCHANGED <<pc, want, todo, healthy, failed>> /\ pc = "idle"
             /\ db'.ups = db.ups \cup {u} /\ device' = device
  BY <1>db, <1>9, SMTT(30) DEF CreateUpstream
<1>10. ASSUME NEW u \in Upstream, DeleteUpstream(u)
       PROVE  /\ UNCHANGED <<pc, want, todo, healthy, failed>> /\ pc = "idle"
              /\ db'.ups = db.ups \ {u} /\ device' = device \ {u}
  BY <1>db, <1>10, SMTT(30) DEF DeleteUpstream, RemoveUpstream
<1>11. ASSUME NEW u \in Upstream, DeleteUpstreamFails(u)
       PROVE  /\ UNCHANGED <<pc, want, todo, healthy, failed>> /\ pc = "idle"
              /\ db'.ups = db.ups
              /\ device' = device \/ device' = device \ {u}
  BY <1>11, ZenonT(60) DEF DeleteUpstreamFails, RemoveUpstream
<1> HIDE DEF Edit, kernel, local
<1> QED BY <1>1, <1>2, <1>3, <1>4, <1>5, <1>6, <1>7, <1>8, <1>9, <1>10, <1>11,
           ZenonT(60) DEF Request

LEMMA SetsStep ==
  ASSUME Sets, Tables, [Next]_vars
  PROVE  Sets'
<1>ups. want.ups \subseteq Upstream /\ db.ups \subseteq Upstream /\ Upstream \subseteq Nat
  BY ForwardingAssumption, SMTT(30) DEF Tables, Rows, Database
<1>first. todo # {} => First(todo) \in todo
  BY <1>ups, FirstIn, Zenon DEF Sets
<1> USE DEF Sets, local, Goto
<1>1. CASE UNCHANGED <<device, todo, healthy, want, pc, db>>
  BY <1>1, Zenon
<1>2. CASE Request
  <2>1. UNCHANGED <<pc, want, todo, healthy>> BY <1>2, RequestUps, ZenonT(60)
  <2>2. CASE db'.ups = db.ups /\ device' = device
    BY <2>1, <2>2, ZenonT(60)
  <2>3. CASE db'.ups # db.ups \/ device' # device
    BY <1>2, <2>1, <2>3, RequestUps, ZenonT(60)
  <2> QED BY <2>2, <2>3, ZenonT(60)
<1>3. CASE Reconcile
  <2>1. /\ pc' = "device" /\ todo' = db.ups /\ healthy' = {} /\ device' = device
        /\ db' = Allocated(db) /\ want' = Allocated(db)
    BY <1>3, Zenon DEF Reconcile, kernel
  <2>2. db'.ups = db.ups /\ want'.ups = db.ups BY <2>1, AllocatedRows, Zenon DEF Tables
  <2> QED BY <2>1, <2>2, Zenon
<1>4. CASE ConfigureDevice
  <2>1. /\ pc = "device" /\ pc' = "routes" /\ todo # {}
        /\ device' = device \cup {First(todo)}
        /\ UNCHANGED <<db, want, todo, healthy>>
    BY <1>4, Zenon DEF ConfigureDevice, Step
  <2> QED BY <2>1, <1>first, ZenonT(60)
<1>5. CASE ProgramRoutes
  <2>1. /\ pc = "routes" /\ pc' = "device" /\ todo' = todo \ {First(todo)}
        /\ healthy' = healthy \cup {First(todo)} /\ UNCHANGED <<db, device, want>>
    BY <1>5, Zenon DEF ProgramRoutes, Step
  <2> QED BY <2>1, <1>first, ZenonT(60)
<1>13. CASE ProgramRoutesKeeps
  <2>1. /\ pc = "routes" /\ pc' = "device" /\ todo' = todo \ {First(todo)}
        /\ healthy' = healthy \cup {First(todo)} /\ UNCHANGED <<db, device, want>>
    BY <1>13, Zenon DEF ProgramRoutesKeeps, Overlook
  <2> QED BY <2>1, <1>first, ZenonT(60)
<1>6. CASE ConfigureDeviceFails
  <2>1. /\ pc = "device" /\ pc' = "device" /\ todo # {} /\ todo' = todo \ {First(todo)}
        /\ device' \in {device, device \cup {First(todo)}}
        /\ UNCHANGED <<db, want, healthy>>
    BY <1>6, Zenon DEF ConfigureDeviceFails, Fault
  <2> QED BY <2>1, <1>first, ZenonT(60)
<1>7. CASE ProgramRoutesFails
  <2>1. /\ pc = "routes" /\ pc' = "device" /\ todo' = todo \ {First(todo)}
        /\ UNCHANGED <<db, device, want, healthy>>
    BY <1>7, Zenon DEF ProgramRoutesFails, Fault
  <2> QED BY <2>1, Zenon
<1>8. CASE FinishWarp
  <2>1. /\ pc = "warp" /\ pc' = "tables" /\ todo' \in {healthy, {}}
        /\ UNCHANGED <<db, device, want, healthy>>
    BY <1>8, Zenon DEF FinishWarp, Step
  <2> QED BY <2>1, Zenon
<1>9. CASE EnsureUpstreamTable
  <2>1. /\ pc = "tables" /\ pc' = "tables" /\ todo # {} /\ todo' = todo \ {First(todo)}
        /\ UNCHANGED <<db, device, want, healthy>>
    BY <1>9, Zenon DEF EnsureUpstreamTable, Step
  <2> QED BY <2>1, <1>first, <1>ups, ZenonT(60)
<1>10. CASE EnsureUpstreamTable6
  <2>1. /\ pc = "tables" /\ pc' = "tables" /\ todo # {} /\ todo' = todo \ {First(todo)}
        /\ UNCHANGED <<db, device, want, healthy>>
    BY <1>10, Zenon DEF EnsureUpstreamTable6, Overlook
  <2> QED BY <2>1, <1>first, <1>ups, ZenonT(60)
<1>11. CASE Reboot
  <2>1. pc' = "idle" /\ device' = {} /\ UNCHANGED <<want, todo, healthy>>
    BY <1>11, Zenon DEF Reboot
  <2> QED BY <2>1, Zenon
<1>12. CASE /\ UNCHANGED <<device, todo, healthy, want, db>>
            /\ pc # "idle" \/ pc' = "idle"
            /\ pc' # "routes"
  BY <1>12, ZenonT(60)
<1> HIDE DEF Sets, local, Goto
<1> QED BY <1>1, <1>2, <1>3, <1>4, <1>5, <1>6, <1>7, <1>8, <1>9, <1>10, <1>11, <1>12, <1>13,
           SetsFrame, ZenonT(60)

\* The tables of the upstreams.
Tabled == tbl \in [Family -> SUBSET Upstream]

LEMMA TabledFrame ==
  ASSUME [Next]_vars
  PROVE  \/ tbl' = tbl \/ EnsureUpstreamTable \/ EnsureUpstreamTable6
         \/ \E U : tbl' = Without(tbl, U)
         \/ \E U, F : tbl' = [f \in Family |-> IF f \in F THEN tbl[f] \ U ELSE tbl[f]]
         \/ tbl' = [tbl EXCEPT ![4] = @ \ healthy]
         \/ tbl' = [f \in Family |-> {}]
<1> USE DEF kernel, Edit, Step
<1>1. ASSUME NEW u, DeleteUpstream(u) PROVE \E U : tbl' = Without(tbl, U)
  BY <1>1, Zenon DEF DeleteUpstream, RemoveUpstream
<1>2. ASSUME NEW u, DeleteUpstreamFails(u)
      PROVE  \/ \E U : tbl' = Without(tbl, U)
             \/ \E U, F : tbl' = [f \in Family |-> IF f \in F THEN tbl[f] \ U ELSE tbl[f]]
  <2> DEFINE G(U, F) == [f \in Family |-> IF f \in F THEN tbl[f] \ U ELSE tbl[f]]
  <2>1. tbl' = Without(tbl, {u}) \/ \E F \in {{}, {4}, {4, 6}} : tbl' = G({u}, F)
    BY <1>2, Zenon DEF DeleteUpstreamFails, RemoveUpstream
  <2> HIDE DEF G
  <2>2. (\E U : tbl' = Without(tbl, U)) \/ (\E U, F : tbl' = G(U, F)) BY <2>1, Zenon
  <2> QED BY <2>2, Zenon DEF G
<1>3. CASE Request
  BY <1>1, <1>2, <1>3, ZenonT(60)
     DEF Request, SaveSettings, SetEnabled, SetTunnelV4Mode, SetTunnelRoutingGroups,
         DeleteRoutingGroup, CreateTunnel, DeleteTunnel, DeleteTunnelFails, CreateUpstream
<1>4. CASE PolicyRulesDone
  <2>1. tbl' = tbl \/ tbl' = Without(tbl, healthy) BY <1>4, Zenon DEF PolicyRulesDone
  <2> QED BY <2>1, Zenon
<1>5. CASE ~Request /\ ~PolicyRulesDone
  BY <1>5, ZenonT(60)
     DEF Next, Apply, vars, Reconcile,
         ConfigureDevice, ProgramRoutes, StartWarp, DeleteWarpRule, WarpRulesDeleted,
         AddWarpRule, FinishWarp, TablesEnsured, AddPolicyRule,
         DeletePolicyRule, ApplyNAT, Inspect, ReportUpstream,
         ConfigureDeviceFails, ProgramRoutesFails, ApplyFails,
         ProgramRoutesKeeps, WarpRulesKept, Crash, Reboot
<1> QED BY <1>3, <1>4, <1>5, ZenonT(60)

LEMMA TabledStep ==
  ASSUME Tabled, Sets, Tables, [Next]_vars
  PROVE  Tabled'
<1>first. todo # {} => First(todo) \in Upstream
  <2>1. todo \subseteq Upstream /\ Upstream \subseteq Nat
    BY TablesTyped, ForwardingAssumption, ZenonT(60) DEF Tables, Sets
  <2> QED BY <2>1, FirstIn, Zenon
<1> USE DEF Tabled
<1>f. 4 \in Family /\ 6 \in Family BY DEF Family
<1>1. CASE EnsureUpstreamTable
  <2>1. todo # {} /\ tbl' = [f \in Family |-> tbl[f] \cup {First(todo)}]
    BY <1>1, Zenon DEF EnsureUpstreamTable
  <2> QED BY <2>1, <1>first, SMTT(30)
<1>2. CASE EnsureUpstreamTable6
  <2>1. todo # {} /\ tbl' = [tbl EXCEPT ![6] = @ \cup {First(todo)}]
    BY <1>2, Zenon DEF EnsureUpstreamTable6
  <2>2. tbl[6] \cup {First(todo)} \in SUBSET Upstream BY <2>1, <1>f, <1>first, SMTT(30)
  <2> QED BY <2>1, <2>2, <1>f, SMTT(30)
<1>3. ASSUME NEW U, tbl' = Without(tbl, U) PROVE Tabled'
  BY <1>3, SMTT(30) DEF Without
<1>4. ASSUME NEW U, NEW F, tbl' = [f \in Family |-> IF f \in F THEN tbl[f] \ U ELSE tbl[f]]
      PROVE  Tabled'
  BY <1>4, SMTT(30)
<1>5. CASE tbl' = [tbl EXCEPT ![4] = @ \ healthy]
  <2>1. tbl[4] \ healthy \in SUBSET Upstream BY <1>f, SMTT(30)
  <2> QED BY <1>5, <2>1, <1>f, SMTT(30)
<1>6. CASE tbl' = [f \in Family |-> {}]
  BY <1>6, SMTT(30)
<1>7. CASE tbl' = tbl
  BY <1>7, Zenon
<1> QED BY <1>1, <1>2, <1>3, <1>4, <1>5, <1>6, <1>7, TabledFrame, ZenonT(60)

Peers ==
    /\ peer \in [Kind -> SUBSET Tunnel] /\ route \in [Family -> SUBSET Tunnel]
    /\ peer[4] \cup peer[Transport] \subseteq peer[6]
    /\ \A t \in peer[6] \cup route[6] : UpstreamOf[t] \in device

LEMMA PeersFrame ==
  ASSUME [Next]_vars
  PROVE  \/ UNCHANGED <<device, peer, route>>
         \/ \E t \in Tunnel : DeleteTunnel(t) \/ DeleteTunnelFails(t)
         \/ \E u \in Upstream : DeleteUpstream(u) \/ DeleteUpstreamFails(u)
         \/ ConfigureDevice \/ ProgramRoutes \/ ConfigureDeviceFails
         \/ ProgramRoutesFails \/ ProgramRoutesKeeps \/ Reboot
  BY ZenonT(60)
     DEF Next, Request, Apply, vars, kernel, local, Edit, Changed, Fault, Step, Goto, SaveSettings,
         SetEnabled, SetTunnelV4Mode, SetTunnelRoutingGroups, DeleteRoutingGroup, CreateTunnel,
         DeleteTunnel, DeleteTunnelFails, CreateUpstream, DeleteUpstream, DeleteUpstreamFails,
         Reconcile,
         ConfigureDevice, ProgramRoutes, StartWarp, DeleteWarpRule, WarpRulesDeleted,
         AddWarpRule, FinishWarp, EnsureUpstreamTable, TablesEnsured, AddPolicyRule,
         DeletePolicyRule, PolicyRulesDone, ApplyNAT, Inspect, ReportUpstream,
         ConfigureDeviceFails, ProgramRoutesFails, ApplyFails, Overlook,
         ProgramRoutesKeeps, WarpRulesKept, EnsureUpstreamTable6, Crash, Reboot

\* The routes of some tunnels of an upstream that has a device are set.
LEMMA RoutedPeers ==
  ASSUME Peers, Tables, NEW u \in device, NEW T, T \subseteq Of(u),
         UNCHANGED <<device, peer>>, route' \in [Family -> SUBSET Tunnel],
         \A f \in Family : route'[f] \subseteq route[f] \cup Routed(T)[f]
  PROVE  Peers'
<1>1. 6 \in Family BY DEF Family
<1>2. \A t \in route'[6] : t \in route[6] \/ t \in Of(u)
  <2>1. Routed(T)[6] = (route[6] \ T) \cup (On(want, 6) \cap T) BY <1>1, Zenon DEF Routed
  <2> QED BY <1>1, <2>1, Zenon
<1> QED BY <1>2, Zenon DEF Peers, Of

LEMMA RoutedType ==
  ASSUME Peers, Tables, NEW T
  PROVE  Routed(T) \in [Family -> SUBSET Tunnel]
<1>1. \A f : On(want, f) \subseteq Tunnel
  BY TablesTyped, Zenon DEF On, Tables
<1> QED BY <1>1, SMTT(30) DEF Routed, Peers

\* Peers and routes are taken away.
LEMMA FewerPeers ==
  ASSUME Peers, NEW T, device' = device,
         peer' = peer \/ peer' = Without(peer, T),
         route' \in [Family -> SUBSET Tunnel], \A f \in Family : route'[f] \subseteq route[f]
  PROVE  Peers'
<1>k. 4 \in Kind /\ 6 \in Kind /\ Transport \in Kind /\ 6 \in Family
  BY SMTT(30) DEF Kind, Family, Transport
<1>1. /\ peer' \in [Kind -> SUBSET Tunnel]
      /\ peer'[4] \cup peer'[Transport] \subseteq peer'[6] /\ peer'[6] \subseteq peer[6]
  <2>1. CASE peer' = peer BY <2>1, Zenon DEF Peers
  <2>2. CASE peer' = Without(peer, T)
    <3>1. /\ peer' \in [Kind -> SUBSET Tunnel]
          /\ \A k \in Kind : peer'[k] = peer[k] \ T
      BY <2>2, SMTT(30) DEF Peers, Without
    <3>2. peer[4] \subseteq peer[6] /\ peer[Transport] \subseteq peer[6] BY Zenon DEF Peers
    <3>q. /\ peer'[4] = peer[4] \ T /\ peer'[6] = peer[6] \ T
          /\ peer'[Transport] = peer[Transport] \ T
      BY <1>k, <3>1, Zenon
    <3>3. peer'[4] \subseteq peer'[6] /\ peer'[Transport] \subseteq peer'[6]
      BY <3>2, <3>q, SMTT(30)
    <3>4. peer'[6] \subseteq peer[6] BY <3>q, SMTT(30)
    <3> QED BY <3>1, <3>3, <3>4, Zenon
  <2> QED BY <2>1, <2>2
<1> QED BY <1>k, <1>1, ZenonT(60) DEF Peers

\* An upstream's device is deleted.
LEMMA RemovedPeers ==
  ASSUME Peers, NEW u \in Upstream, RemoveUpstream(u)
  PROVE  Peers'
<1>k. 4 \in Kind /\ 6 \in Kind /\ Transport \in Kind /\ 6 \in Family
  BY SMTT(30) DEF Kind, Family, Transport
<1>1. /\ peer' = Without(peer, Of(u)) /\ route' = Without(route, Of(u))
      /\ device' = device \ {u}
  BY Zenon DEF RemoveUpstream
<1>2. /\ peer' \in [Kind -> SUBSET Tunnel] /\ \A k \in Kind : peer'[k] = peer[k] \ Of(u)
  BY <1>1, SMTT(30) DEF Peers, Without
<1>3. /\ route' \in [Family -> SUBSET Tunnel] /\ \A f \in Family : route'[f] = route[f] \ Of(u)
  BY <1>1, SMTT(30) DEF Peers, Without
<1>4. \A t \in Tunnel \ Of(u) : UpstreamOf[t] # u
  BY Zenon DEF Of
<1>5. peer[6] \subseteq Tunnel /\ route[6] \subseteq Tunnel
  BY <1>k, Zenon DEF Peers
<1>6. peer'[4] \cup peer'[Transport] \subseteq peer'[6]
  BY <1>k, <1>2, ZenonT(60) DEF Peers
<1>7. \A t \in peer'[6] \cup route'[6] : UpstreamOf[t] \in device'
  BY <1>k, <1>1, <1>2, <1>3, <1>4, <1>5, ZenonT(60) DEF Peers
<1> QED BY <1>2, <1>3, <1>6, <1>7, Zenon DEF Peers

LEMMA PeersStep ==
  ASSUME Peers, Sets, Work, Tables, [Next]_vars
  PROVE  Peers'
<1>k. 4 \in Kind /\ 6 \in Kind /\ Transport \in Kind /\ 4 # Transport /\ 6 # Transport
      /\ 6 \in Family
  BY SMTT(30) DEF Kind, Family, Transport
<1>removed. ASSUME NEW t, RemoveRoutes(t)
            PROVE  /\ route' \in [Family -> SUBSET Tunnel]
                   /\ \A f \in Family : route'[f] \subseteq route[f]
  <2>1. PICK K : route' = [f \in Family |-> IF f \in K THEN route[f] ELSE route[f] \ {t}]
    BY <1>removed, Zenon DEF RemoveRoutes
  <2> QED BY <2>1, SMTT(30) DEF Peers
<1>1. CASE UNCHANGED <<device, peer, route>>
  BY <1>1, ZenonT(60) DEF Peers
<1>2. ASSUME NEW t \in Tunnel, DeleteTunnel(t) PROVE Peers'
  <2>1. peer' = Without(peer, {t}) /\ RemoveRoutes(t) /\ device' = device
    BY <1>2, ZenonT(60) DEF DeleteTunnel
  <2> QED BY <2>1, <1>removed, FewerPeers, Zenon
<1>3. ASSUME NEW t \in Tunnel, DeleteTunnelFails(t) PROVE Peers'
  <2>1. peer' = peer /\ RemoveRoutes(t) /\ device' = device
    BY <1>3, Zenon DEF DeleteTunnelFails
  <2> QED BY <2>1, <1>removed, FewerPeers, Zenon
<1>4. ASSUME NEW u \in Upstream, DeleteUpstream(u) \/ DeleteUpstreamFails(u) PROVE Peers'
  <2>1. RemoveUpstream(u) \/ UNCHANGED <<device, peer, route>>
    BY <1>4, Zenon DEF DeleteUpstream, DeleteUpstreamFails
  <2> QED BY <1>1, <2>1, RemovedPeers, Zenon
<1>5. CASE ConfigureDevice
  <2>x. PICK x : x = First(todo) OBVIOUS
  <2>1. /\ device' = device \cup {x} /\ route' = route
        /\ peer' = [k \in Kind |-> (peer[k] \ Of(x)) \cup (AllowedIPs(want, k) \cap Of(x))]
    BY <1>5, <2>x, Zenon DEF ConfigureDevice
  <2>2. /\ \A k : AllowedIPs(want, k) \subseteq Tunnel
        /\ AllowedIPs(want, 6) = On(want, 6)
        /\ AllowedIPs(want, 4) \subseteq On(want, 6)
        /\ AllowedIPs(want, Transport) \subseteq On(want, 6)
    <3>1. \A f : On(want, f) \subseteq Tunnel
      BY TablesTyped, Zenon DEF On, Tables
    <3>2. \A f : On(want, f) \subseteq On(want, 6)
      BY Zenon DEF On
    <3>3. \A k : k # Transport => AllowedIPs(want, k) = On(want, k)
      BY Zenon DEF AllowedIPs
    <3>4. AllowedIPs(want, Transport) \subseteq On(want, 6)
      BY Zenon DEF AllowedIPs
    <3> QED BY <1>k, <3>1, <3>2, <3>3, <3>4, ZenonT(60)
  <2>3. /\ peer' \in [Kind -> SUBSET Tunnel]
        /\ \A k \in Kind : peer'[k] = (peer[k] \ Of(x)) \cup (AllowedIPs(want, k) \cap Of(x))
    BY <2>1, <2>2, SMTT(30) DEF Peers
  <2>4. peer'[4] \cup peer'[Transport] \subseteq peer'[6]
    <3>1. peer[4] \subseteq peer[6] /\ peer[Transport] \subseteq peer[6] BY Zenon DEF Peers
    <3>q. /\ peer'[4] = (peer[4] \ Of(x)) \cup (AllowedIPs(want, 4) \cap Of(x))
          /\ peer'[6] = (peer[6] \ Of(x)) \cup (AllowedIPs(want, 6) \cap Of(x))
          /\ peer'[Transport] = (peer[Transport] \ Of(x))
                                   \cup (AllowedIPs(want, Transport) \cap Of(x))
      BY <2>3, <1>k, Zenon
    <3>2. peer'[4] \subseteq peer'[6] BY <2>2, <3>1, <3>q, SMTT(30)
    <3>3. peer'[Transport] \subseteq peer'[6] BY <2>2, <3>1, <3>q, SMTT(30)
    <3> QED BY <3>2, <3>3, Zenon
  <2>5. \A t \in peer'[6] \cup route'[6] : UpstreamOf[t] \in device'
    BY <2>1, <2>3, <1>k, ZenonT(60) DEF Peers, Of
  <2> QED BY <2>1, <2>3, <2>4, <2>5, Zenon DEF Peers
<1>6. CASE ProgramRoutes
  <2>x. PICK x : x = First(todo) OBVIOUS
  <2>1. /\ UNCHANGED <<device, peer>> /\ pc = "routes"
        /\ route' = Routed(want.rows \cap Of(x))
    BY <1>6, <2>x, ZenonT(60) DEF ProgramRoutes
  <2>2. x \in device BY <2>1, <2>x, ZenonT(60) DEF Work, Configured
  <2>3. want.rows \cap Of(x) \subseteq Of(x) OBVIOUS
  <2>4. /\ route' \in [Family -> SUBSET Tunnel]
        /\ \A f \in Family : route'[f] \subseteq route[f] \cup Routed(want.rows \cap Of(x))[f]
    BY <2>1, RoutedType, Zenon
  <2> QED BY <2>1, <2>2, <2>3, <2>4, RoutedPeers, ZenonT(60)
<1>7. CASE ConfigureDeviceFails
  <2>1. device \subseteq device' /\ UNCHANGED <<peer, route>>
    BY <1>7, ZenonT(60) DEF ConfigureDeviceFails
  <2> QED BY <2>1, Zenon DEF Peers
<1>8. CASE ProgramRoutesFails
  <2>x. PICK x : x = First(todo) OBVIOUS
  <2>1. /\ UNCHANGED <<device, peer>> /\ pc = "routes"
        /\ \E T \in SUBSET (want.rows \cap Of(x)) : route' = Routed(T)
    BY <1>8, <2>x, ZenonT(60) DEF ProgramRoutesFails
  <2>2. x \in device BY <2>1, <2>x, ZenonT(60) DEF Work, Configured
  <2>3. PICK T : T \subseteq Of(x) /\ route' = Routed(T) BY <2>1, ZenonT(60)
  <2>4. /\ route' \in [Family -> SUBSET Tunnel]
        /\ \A f \in Family : route'[f] \subseteq route[f] \cup Routed(T)[f]
    BY <2>3, RoutedType, Zenon
  <2> QED BY <2>1, <2>2, <2>3, <2>4, RoutedPeers, ZenonT(60)
<1>9. CASE ProgramRoutesKeeps
  <2>x. PICK x : x = First(todo) OBVIOUS
  <2> DEFINE T == want.rows \cap Of(x)
  <2>1. /\ UNCHANGED <<device, peer>> /\ pc = "routes"
        /\ \E K : route' = [f \in Family |-> Routed(T)[f] \cup (route[f] \cap K)]
    BY <1>9, <2>x, ZenonT(60) DEF ProgramRoutesKeeps
  <2>2. x \in device BY <2>1, <2>x, ZenonT(60) DEF Work, Configured
  <2>3. T \subseteq Of(x) OBVIOUS
  <2> HIDE DEF T
  <2>4. Routed(T) \in [Family -> SUBSET Tunnel] BY RoutedType, Zenon
  <2>5. /\ route' \in [Family -> SUBSET Tunnel]
        /\ \A f \in Family : route'[f] \subseteq route[f] \cup Routed(T)[f]
    BY <2>1, <2>4, SMTT(30) DEF Peers
  <2> QED BY <2>1, <2>2, <2>3, <2>5, RoutedPeers, ZenonT(60)
<1>10. CASE Reboot
  <2>1. /\ peer' = [k \in Kind |-> {}] /\ route' = [f \in Family |-> {}]
    BY <1>10, ZenonT(60) DEF Reboot
  <2> QED BY <2>1, <1>k, SMTT(30) DEF Peers
<1> QED BY <1>1, <1>2, <1>3, <1>4, <1>5, <1>6, <1>7, <1>8, <1>9, <1>10, PeersFrame, ZenonT(60)

\* The policy rules, the flags and the counter.
Rules == rule \subseteq {80, 90, 110} \X {"prefix", "pool", "address"} \X Nat

LEMMA RulesFrame ==
  ASSUME [Next]_vars
  PROVE  rule' \subseteq rule \/ AddWarpRule \/ AddPolicyRule \/ WarpRulesKept
  BY ZenonT(60)
     DEF Next, Request, Apply, vars, kernel, local, Edit, Changed, Fault, Step, Goto, SaveSettings,
         SetEnabled, SetTunnelV4Mode, SetTunnelRoutingGroups, DeleteRoutingGroup, CreateTunnel,
         DeleteTunnel, DeleteTunnelFails, CreateUpstream, DeleteUpstream, DeleteUpstreamFails,
         Reconcile,
         ConfigureDevice, ProgramRoutes, StartWarp, DeleteWarpRule, WarpRulesDeleted,
         AddWarpRule, FinishWarp, EnsureUpstreamTable, TablesEnsured, AddPolicyRule,
         DeletePolicyRule, PolicyRulesDone, ApplyNAT, Inspect, ReportUpstream,
         ConfigureDeviceFails, ProgramRoutesFails, ApplyFails, Overlook,
         ProgramRoutesKeeps, WarpRulesKept, EnsureUpstreamTable6, Crash, Reboot

LEMMA RulesStep ==
  ASSUME Rules, Sets, Tables, [Next]_vars
  PROVE  Rules'
<1> DEFINE R == {80, 90, 110} \X {"prefix", "pool", "address"} \X Nat
<1>ids. /\ want.rows \subseteq Nat /\ want.ups \subseteq Nat /\ healthy \subseteq Nat
        /\ want.pool \in Nat
  <2>1. want.rows \subseteq Tunnel /\ want.ups \subseteq Upstream /\ want.pool \in PoolInput
    BY SMTT(30) DEF Tables, Rows, Database
  <2>2. Tunnel \subseteq Nat /\ Upstream \subseteq Nat /\ PoolInput \subseteq Nat
    BY ForwardingAssumption, ZenonT(60)
  <2> QED BY <2>1, <2>2, ZenonT(60) DEF Sets
<1>rules. \A n \in Nat :
            /\ Local(n) \in R /\ Source(n) \in R /\ Warped(n) \in R /\ Native(n) \in R
            /\ Pool(n) \in R
  <2>1. \A A, B, C : \A a \in A, b \in B, c \in C : <<a, b, c>> \in A \X B \X C
    BY SMTT(30)
  <2>2. \A a \in {80, 90, 110}, b \in {"prefix", "pool", "address"}, c \in Nat :
           <<a, b, c>> \in R
    BY <2>1, ZenonT(60)
  <2>3. /\ 0 \in Nat /\ 80 \in {80, 90, 110} /\ 90 \in {80, 90, 110} /\ 110 \in {80, 90, 110}
        /\ "prefix" \in {"prefix", "pool", "address"}
        /\ "pool" \in {"prefix", "pool", "address"}
        /\ "address" \in {"prefix", "pool", "address"}
    BY SMTT(30)
  <2> HIDE DEF R
  <2> QED BY <2>2, <2>3, ZenonT(60) DEF Local, Source, Warped, Native, Pool
<1> HIDE DEF R
<1>1. CASE rule' \subseteq rule
  BY <1>1, ZenonT(60) DEF Rules
<1>2. CASE AddWarpRule
  <2>1. \A t \in Warping : t \in want.rows BY Zenon DEF Warping, Resolved
  <2>2. \E t \in Warping : rule' = rule \cup {Warped(t)} BY <1>2, Zenon DEF AddWarpRule
  <2>3. \A t \in Warping : t \in Nat BY <2>1, <1>ids, Zenon
  <2>4. \A n \in Nat : Warped(n) \in R BY <1>rules, Zenon
  <2>5. \A t \in Warping : Warped(t) \in R BY <2>3, <2>4, Zenon
  <2>6. rule \subseteq R BY Zenon DEF Rules, R
  <2>7. rule' \subseteq R BY <2>2, <2>5, <2>6, Zenon
  <2> QED BY <2>7, Zenon DEF Rules, R
<1>3. CASE AddPolicyRule
  <2>1. Desired \subseteq R
    <3>1. \A t \in Resolved(want, healthy, "native") : t \in want.rows BY Zenon DEF Resolved
    <3>2. DesiredPolicyRules(want, healthy) \subseteq R
      BY <3>1, <1>ids, <1>rules, FS_EmptySet, ZenonT(60) DEF DesiredPolicyRules
    <3> QED BY <3>2, Zenon DEF Desired
  <2>2. \E r \in Desired : rule' = rule \cup {r} BY <1>3, ZenonT(60) DEF AddPolicyRule
  <2> QED BY <2>1, <2>2, ZenonT(60) DEF Rules, R
<1>4. CASE WarpRulesKept
  <2>1. \A t \in Warping : t \in want.rows BY Zenon DEF Warping, Resolved
  <2>2. rule' = rule \/ \E T \in SUBSET Warping : rule' = rule \cup {Warped(t) : t \in T}
    BY <1>4, Zenon DEF WarpRulesKept
  <2>3. \A r \in rule' : r \in rule \/ \E t \in Warping : r = Warped(t)
    BY <2>2, ZenonT(60)
  <2>4. \A t \in Warping : t \in Nat BY <2>1, <1>ids, Zenon
  <2>5. \A n \in Nat : Warped(n) \in R BY <1>rules, Zenon
  <2>6. \A t \in Warping : Warped(t) \in R BY <2>4, <2>5, Zenon
  <2>7. \A r \in rule' : r \in rule \/ r \in R BY <2>3, <2>6, Zenon
  <2>8. rule \subseteq R BY Zenon DEF Rules, R
  <2>9. rule' \subseteq R BY <2>7, <2>8, Zenon
  <2> QED BY <2>9, Zenon DEF Rules, R
<1> QED BY <1>1, <1>2, <1>3, <1>4, RulesFrame, ZenonT(60)

Labels == {"idle", "device", "routes", "unwarp", "warp", "tables", "rules", "nft", "ndp"}

Flags ==
    /\ warp \in {"none", "link", "route"} /\ pc \in Labels
    /\ failed \in BOOLEAN /\ fresh \in BOOLEAN /\ settled \in BOOLEAN
    /\ outcome \in {"ok", "upstream", "failed"} /\ changes \in 0 .. MaxChanges

LEMMA FlagsFrame ==
  ASSUME [Next]_vars
  PROVE  /\ warp' = warp \/ warp' \in {"none", "link", "route"}
         /\ pc' = pc \/ pc' \in Labels
         /\ failed' = failed \/ failed' \in BOOLEAN
         /\ outcome' = outcome \/ outcome' \in {"ok", "upstream", "failed"}
         /\ changes' = changes \/ Count
<1> USE DEF Next, Request, Apply, vars, kernel, local, Edit, Changed, Fault, Step, Goto, SaveSettings,
         SetEnabled, SetTunnelV4Mode, SetTunnelRoutingGroups, DeleteRoutingGroup, CreateTunnel,
         DeleteTunnel, DeleteTunnelFails, CreateUpstream, DeleteUpstream, DeleteUpstreamFails,
         Reconcile,
         ConfigureDevice, ProgramRoutes, StartWarp, DeleteWarpRule, WarpRulesDeleted,
         AddWarpRule, FinishWarp, EnsureUpstreamTable, TablesEnsured, AddPolicyRule,
         DeletePolicyRule, PolicyRulesDone, ApplyNAT, Inspect, ReportUpstream,
         ConfigureDeviceFails, ProgramRoutesFails, ApplyFails, Overlook,
         ProgramRoutesKeeps, WarpRulesKept, EnsureUpstreamTable6, Crash, Reboot
<1>1. warp' = warp \/ warp' \in {"none", "link", "route"} BY ZenonT(60)
<1>2. pc' = pc \/ pc' \in Labels BY ZenonT(60) DEF Labels
<1>3. failed' = failed \/ failed' \in BOOLEAN BY ZenonT(60)
<1>4. outcome' = outcome \/ outcome' \in {"ok", "upstream", "failed"} BY ZenonT(60)
<1>5. changes' = changes \/ Count BY ZenonT(60)
<1> QED BY <1>1, <1>2, <1>3, <1>4, <1>5, ZenonT(60)

LEMMA GhostFrame ==
  ASSUME [Next]_vars
  PROVE  /\ fresh' = fresh \/ fresh' = FALSE \/ fresh' = TRUE
         /\ settled' = settled \/ settled' = FALSE \/ settled' = fresh
            \/ settled' = (settled /\ pc = "idle")
<1> USE DEF Next, Request, Apply, vars, kernel, local, Edit, Changed, Fault, Step, Goto, SaveSettings,
         SetEnabled, SetTunnelV4Mode, SetTunnelRoutingGroups, DeleteRoutingGroup, CreateTunnel,
         DeleteTunnel, DeleteTunnelFails, CreateUpstream, DeleteUpstream, DeleteUpstreamFails,
         Reconcile,
         ConfigureDevice, ProgramRoutes, StartWarp, DeleteWarpRule, WarpRulesDeleted,
         AddWarpRule, FinishWarp, EnsureUpstreamTable, TablesEnsured, AddPolicyRule,
         DeletePolicyRule, PolicyRulesDone, ApplyNAT, Inspect, ReportUpstream,
         ConfigureDeviceFails, ProgramRoutesFails, ApplyFails, Overlook,
         ProgramRoutesKeeps, WarpRulesKept, EnsureUpstreamTable6, Crash, Reboot
<1>1. fresh' = fresh \/ fresh' = FALSE \/ fresh' = TRUE BY ZenonT(60)
<1>2. settled' = settled \/ settled' = FALSE \/ settled' = fresh
      \/ settled' = (settled /\ pc = "idle")
  BY ZenonT(60)
<1> QED BY <1>1, <1>2, ZenonT(60)

LEMMA FlagsStep ==
  ASSUME Flags, [Next]_vars
  PROVE  Flags'
<1>1. changes' \in 0 .. MaxChanges
  BY FlagsFrame, ForwardingAssumption, SMTT(30) DEF Flags, Count
<1>2. fresh' \in BOOLEAN /\ settled' \in BOOLEAN
  BY GhostFrame, Zenon DEF Flags
<1> QED BY <1>1, <1>2, FlagsFrame, ZenonT(60) DEF Flags

IInv == Tables /\ Work /\ Sets /\ Tabled /\ Peers /\ Rules /\ Flags

LEMMA Invariance == Spec => []IInv
<1>1. Init => IInv
  <2> SUFFICES ASSUME Init PROVE IInv OBVIOUS
  <2>1. pc = "idle" BY Zenon DEF Init
  <2>2. Work BY <2>1, ZenonT(60) DEF Work, Shared
  <2>3. Sets BY <2>1, ZenonT(60) DEF Init, Sets
  <2>4. Peers
    <3>1. 4 \in Kind /\ 6 \in Kind /\ Transport \in Kind /\ 6 \in Family
      BY SMTT(30) DEF Family, Kind, Transport
    <3>2. peer = [k \in Kind |-> {}] /\ route = [f \in Family |-> {}] BY Zenon DEF Init
    <3> QED BY <3>1, <3>2, SMTT(30) DEF Peers
  <2>5. Rules BY Zenon DEF Init, Rules
  <2>6. Flags
    <3>1. changes \in 0 .. MaxChanges BY ForwardingAssumption, SMTT(30) DEF Init
    <3> QED BY <3>1, ZenonT(60) DEF Init, Flags, Labels
  <2>7. Tabled
    <3>1. tbl = [f \in Family |-> {}] BY Zenon DEF Init
    <3> QED BY <3>1, SMTT(30) DEF Tabled
  <2> QED BY <2>2, <2>3, <2>4, <2>5, <2>6, <2>7, TablesInit, ZenonT(60) DEF IInv
<1>2. IInv /\ [Next]_vars => IInv'
  <2> SUFFICES ASSUME IInv, [Next]_vars PROVE IInv' OBVIOUS
  <2>1. Tables /\ Work /\ Sets /\ Tabled /\ Peers /\ Rules /\ Flags BY Zenon DEF IInv
  <2>2. Tables' BY <2>1, TablesStep, ZenonT(60)
  <2>3. Work' BY <2>1, <2>2, WorkStep, ZenonT(60)
  <2>4. Sets' BY <2>1, SetsStep, ZenonT(60)
  <2>5. Peers' BY <2>1, PeersStep, ZenonT(60)
  <2>6. Rules' BY <2>1, RulesStep, ZenonT(60)
  <2>7. Flags' BY <2>1, FlagsStep, ZenonT(60)
  <2>8. Tabled' BY <2>1, TabledStep, ZenonT(60)
  <2> QED BY <2>2, <2>3, <2>4, <2>5, <2>6, <2>7, <2>8, ZenonT(60) DEF IInv
<1> QED BY <1>1, <1>2, PTL DEF Spec

\* Every reachable state is type-correct: no device, table or rule of anything but
\* an upstream or a tunnel, and no peer or route without its device.
THEOREM TypeCorrect == Spec => []TypeOK
<1>1. IInv => TypeOK
  <2> SUFFICES ASSUME IInv PROVE TypeOK OBVIOUS
  <2>1. Tables /\ Work /\ Sets /\ Tabled /\ Peers /\ Rules /\ Flags BY ZenonT(60) DEF IInv
  <2>2. db.ups \subseteq Upstream BY <2>1, SMTT(30) DEF Tables, Rows, Database
  <2>3. device \subseteq Upstream BY <2>1, <2>2, ZenonT(60) DEF Sets
  <2> QED BY <2>1, <2>3, ZenonT(60) DEF TypeOK, Tables, Rows, Sets, Tabled, Peers, Rules, Flags, Labels
<1> QED BY <1>1, Invariance, PTL

-----------------------------------------------------------------------------
(***************************************************************************)
(* What the kernel does with packets when it is programmed for the tables. *)
(***************************************************************************)
Several(U) == Cardinality(U) >= 2

\* The peers, routes, rules, tables, WARP and chain are those of the tables.  A
\* reconcile takes the rules of WARP away, and adds them again.
Programmed ==
    /\ \A f \in Family : peer[f] = On(db, f) /\ On(db, f) \subseteq route[f]
    /\ rule \ WarpRules = IF Several(db.ups) THEN DesiredPolicyRules(db, db.ups) ELSE {}
    /\ Several(db.ups) => \A f \in Family : db.ups \subseteq tbl[f]
    /\ nft = NFTScript(db, db.ups)
    /\ \A t \in Tunnel : Warped(t) \in rule => t \in Resolved(db, db.ups, "warp")
    /\ pc \notin {"unwarp", "warp"} =>
          \A t \in Resolved(db, db.ups, "warp") : Warped(t) \in rule
    /\ Resolved(db, db.ups, "warp") # {} => warp = "route"

\* A set that has not several elements.
LEMMA SeveralElements ==
  ASSUME NEW U, U \subseteq Upstream \/ U \subseteq Tunnel
  PROVE  /\ Several(U) <=> ~(Cardinality(U) < 2)
         /\ ~Several(U) => \A u, w \in U : u = w
<1>1. IsFiniteSet(U) /\ Cardinality(U) \in Nat
  BY ForwardingAssumption, FS_Subset, FS_CardinalityType, ZenonT(60)
<1>2. Several(U) <=> ~(Cardinality(U) < 2)
  BY <1>1, SMTT(30) DEF Several
<1>3. ASSUME ~Several(U), NEW u \in U, NEW w \in U PROVE u = w
  <2>1. Cardinality(U) = 0 \/ Cardinality(U) = 1
    BY <1>1, <1>3, SMTT(30) DEF Several
  <2>2. CASE Cardinality(U) = 0
    BY <1>1, <1>3, <2>2, FS_EmptySet, ZenonT(60)
  <2>3. CASE Cardinality(U) = 1
    <3>1. PICK x : U = {x} BY <1>1, <2>3, FS_Singleton, ZenonT(60)
    <3> QED BY <1>3, <3>1, ZenonT(60)
  <2> QED BY <2>1, <2>2, <2>3, ZenonT(60)
<1> QED BY <1>2, <1>3, ZenonT(60)

\* The rules of WARP are not policy rules.
LEMMA RulesApart ==
  /\ \A u, t : /\ Local(u) # Warped(t) /\ Pool(u) # Warped(t)
               /\ Source(u) # Warped(t) /\ Native(u) # Warped(t)
  /\ \A u : /\ Local(u) \notin WarpRules /\ Source(u) \notin WarpRules
            /\ Native(u) \notin WarpRules /\ Pool(u) \notin WarpRules
  /\ \A v, U : DesiredPolicyRules(v, U) \cap WarpRules = {}
<1>1. \A u, t : /\ Local(u) # Warped(t) /\ Pool(u) # Warped(t)
                /\ Source(u) # Warped(t) /\ Native(u) # Warped(t)
  BY SMTT(30) DEF Local, Pool, Source, Native, Warped
<1>2. \A u : /\ Local(u) \notin WarpRules /\ Source(u) \notin WarpRules
             /\ Native(u) \notin WarpRules /\ Pool(u) \notin WarpRules
  BY <1>1, Zenon DEF WarpRules
<1>3. ASSUME NEW v, NEW U PROVE DesiredPolicyRules(v, U) \cap WarpRules = {}
  BY <1>2, Zenon DEF DesiredPolicyRules
<1> QED BY <1>1, <1>2, <1>3, ZenonT(60)

\* One pool is kept inside.
LEMMA OnePool ==
  ASSUME NEW v, NEW U, NEW q, Pool(q) \in DesiredPolicyRules(v, U)
  PROVE  q = v.pool
<1>1. \A u : Pool(q) # Local(u) /\ Pool(q) # Source(u) /\ Pool(q) # Native(u)
  BY SMTT(30) DEF Pool, Local, Source, Native
<1>2. Pool(q) = Pool(v.pool)
  BY <1>1, ZenonT(60) DEF DesiredPolicyRules
<1> QED BY <1>2, SMTT(30) DEF Pool

\* Which policy rules there are.
LEMMA ProgrammedRules ==
  ASSUME Programmed, Tables
  PROVE  /\ Several(db.ups) =>
              /\ \A u \in db.ups : Local(u) \in rule /\ Source(u) \in rule
              /\ \A q : Pool(q) \in rule <=> q = db.pool
              /\ \A t \in Resolved(db, db.ups, "native") : Native(t) \in rule
         /\ ~Several(db.ups) =>
              \A u : /\ Local(u) \notin rule /\ Source(u) \notin rule /\ Native(u) \notin rule
                     /\ Pool(u) \notin rule
<1>1. CASE Several(db.ups)
  <2>1. rule \ WarpRules = DesiredPolicyRules(db, db.ups)
    BY <1>1, Zenon DEF Programmed
  <2>2. /\ \A u \in db.ups : Local(u) \in rule /\ Source(u) \in rule
        /\ Pool(db.pool) \in rule
        /\ \A t \in Resolved(db, db.ups, "native") : Native(t) \in rule
    BY <2>1, ZenonT(60) DEF DesiredPolicyRules
  <2>3. \A q : Pool(q) \in rule => Pool(q) \in DesiredPolicyRules(db, db.ups)
    BY <2>1, RulesApart, ZenonT(60)
  <2>4. \A q : Pool(q) \in rule <=> q = db.pool
    BY <2>2, <2>3, OnePool, ZenonT(60)
  <2> QED BY <1>1, <2>2, <2>4, ZenonT(60)
<1>2. CASE ~Several(db.ups)
  <2>1. \A r \in rule : r \in WarpRules
    BY <1>2, Zenon DEF Programmed
  <2> QED BY <1>2, <2>1, RulesApart, ZenonT(60)
<1> QED BY <1>1, <1>2, ZenonT(60)

\* The forward chain.
LEMMA ProgrammedChain ==
  ASSUME Programmed, db.ups # {}
  PROVE  /\ nft.chain
         /\ \A u \in db.ups : <<Wg(u), Egress(u)>> \in nft.pairs
         /\ \A t \in Resolved(db, db.ups, "native") : <<t, Egress(UpstreamOf[t])>> \in nft.nat
         /\ \A t \in Resolved(db, db.ups, "warp") :
               <<Wg(UpstreamOf[t]), Warp>> \in nft.pairs /\ <<t, Warp>> \in nft.nat
<1> DEFINE N == {<<t, Egress(UpstreamOf[t])>> : t \in Resolved(db, db.ups, "native")}
           W == {<<t, Warp>> : t \in Resolved(db, db.ups, "warp")}
           E == {<<Wg(u), Egress(u)>> : u \in db.ups}
           P == {<<Wg(UpstreamOf[t]), Warp>> : t \in Resolved(db, db.ups, "warp")}
<1>1. nft = NFTScript(db, db.ups) BY ZenonT(60) DEF Programmed
<1>2. nft.chain /\ N \subseteq nft.nat /\ W \subseteq nft.nat
  BY <1>1, SMTT(30) DEF NFTScript
<1>3. E \subseteq nft.pairs /\ P \subseteq nft.pairs
  BY <1>1, SMTT(30) DEF NFTScript
<1> QED BY <1>2, <1>3, ZenonT(60)

LEMMA Interfaces ==
  /\ \A u : Wg(u)[1] = "wg" /\ Egress(u)[1] # "wg"
  /\ Warp[1] # "wg"
  /\ \A u, w : Wg(u) # Egress(w) /\ Wg(u) # Warp /\ Egress(u) # Warp
  /\ \A a, b, c, d : <<a, b>> = <<c, d>> => a = c /\ b = d
<1>1. \A u : Wg(u)[1] = "wg" /\ Egress(u)[1] # "wg" BY SMTT(30) DEF Wg, Egress
<1>2. Warp[1] # "wg" BY SMTT(30) DEF Warp
<1>3. \A u, w : Wg(u) # Egress(w) /\ Wg(u) # Warp /\ Egress(u) # Warp
  BY SMTT(30) DEF Wg, Egress, Warp
<1>4. \A a, b, c, d : <<a, b>> = <<c, d>> => a = c /\ b = d BY SMTT(30)
<1> QED BY <1>1, <1>2, <1>3, <1>4, ZenonT(60)

\* What becomes of a packet that is led to the interface out.
LEMMA Forwarded ==
  ASSUME NEW p, NEW out, Lookup(p) = out
  PROVE  /\ p.src \notin peer[p.family] \/ ~Accepts(p, out) => Fate(p) = <<"dropped", 0>>
         /\ p.src \in peer[p.family] /\ Accepts(p, out) /\ out[1] # "wg" => Fate(p) = out
         /\ p.src \in peer[p.family] /\ Accepts(p, out) /\ out[1] = "wg" =>
               Fate(p) = IF p.dst \in peer[p.family] THEN <<"tunnel", p.dst>>
                         ELSE <<"dropped", 0>>
<1>1. Fate(p) = IF p.src \in peer[p.family] /\ Accepts(p, out)
                THEN IF out[1] = "wg"
                     THEN IF p.dst \in peer[p.family] THEN <<"tunnel", p.dst>>
                          ELSE <<"dropped", 0>>
                     ELSE out
                ELSE <<"dropped", 0>>
  BY Zenon DEF Fate
<1> QED BY <1>1, Zenon

\* The chain lets two tunnels reach each other if the policy permits it.
LEMMA PolicyForwards ==
  ASSUME Tables, Programmed, NEW f \in Family, NEW s \in On(db, f), NEW d \in On(db, f),
         s # d, NEW p, p.src = s, p.dst = d, p.family = f
  PROVE  Accepts(p, Wg(UpstreamOf[d])) <=> Permitted(db, s, d)
<1>1. /\ s \in db.rows /\ d \in db.rows /\ UpstreamOf[s] \in db.ups /\ UpstreamOf[d] \in db.ups
      /\ On(db, f) \subseteq Tunnel /\ db.ups # {} /\ s \in Tunnel /\ d \in Tunnel
  BY TablesTyped, ZenonT(60) DEF On, Tables
<1>2. /\ nft.chain
      /\ nft.pairs = {<<Wg(u), Egress(u)>> : u \in db.ups}
            \cup (IF db.policy = "any" THEN {<<Wg(u), Wg(w)>> : u \in db.ups, w \in db.ups}
                  ELSE {})
            \cup {<<Wg(UpstreamOf[t]), Warp>> : t \in Resolved(db, db.ups, "warp")}
      /\ nft.sets[f] = IF db.policy = "groups" THEN RoutingGroupSets(db, db.ups, f) ELSE {}
  <2>1. nft = NFTScript(db, db.ups) BY Zenon DEF Programmed
  <2> QED BY <1>1, <2>1, SMTT(30) DEF NFTScript
<1>3. <<Wg(UpstreamOf[s]), Wg(UpstreamOf[d])>> \in nft.pairs <=> db.policy = "any"
  <2>1. CASE db.policy = "any"
    <3>1. <<Wg(UpstreamOf[s]), Wg(UpstreamOf[d])>> \in
             {<<Wg(u), Wg(w)>> : u \in db.ups, w \in db.ups}
      BY <1>1, SMTT(30)
    <3> QED BY <1>2, <2>1, <3>1, SMTT(30)
  <2>2. CASE db.policy # "any"
    <3>1. <<Wg(UpstreamOf[s]), Wg(UpstreamOf[d])>> \notin {<<Wg(u), Egress(u)>> : u \in db.ups}
      BY Interfaces, ZenonT(60)
    <3>2. <<Wg(UpstreamOf[s]), Wg(UpstreamOf[d])>> \notin
             {<<Wg(UpstreamOf[t]), Warp>> : t \in Resolved(db, db.ups, "warp")}
      BY Interfaces, Zenon
    <3> QED BY <1>2, <2>2, <3>1, <3>2, SMTT(30)
  <2> QED BY <2>1, <2>2, ZenonT(60)
<1>4. (\E S \in nft.sets[f] : {s, d} \subseteq S) <=>
         db.policy = "groups" /\ db.groups[s] \cap db.groups[d] # {}
  <2> DEFINE Members(g) == {t \in On(db, f) : UpstreamOf[t] \in db.ups /\ g \in db.groups[t]}
  <2>1. RoutingGroupSets(db, db.ups, f) = {S \in {Members(g) : g \in Group} : Several(S)}
    BY Zenon DEF RoutingGroupSets, Several
  <2>2. \A g : Members(g) \subseteq Tunnel BY <1>1, ZenonT(60)
  <2>3. \A g : s \in Members(g) /\ d \in Members(g) => Several(Members(g))
    <3> HIDE DEF Members
    <3> QED BY <2>2, SeveralElements, ZenonT(60)
  <2>4. \A g : s \in Members(g) /\ d \in Members(g) <=> g \in db.groups[s] /\ g \in db.groups[d]
    BY <1>1, ZenonT(60)
  <2>5. \A g \in db.groups[s] : g \in Group
    <3>1. db.groups \in [Tunnel -> SUBSET Group] BY TablesTyped, ZenonT(60) DEF Tables
    <3> QED BY <1>1, <3>1, SMTT(30)
  <2> HIDE DEF Members
  <2>6. (\E S \in RoutingGroupSets(db, db.ups, f) : {s, d} \subseteq S) <=>
           \E g : g \in db.groups[s] /\ g \in db.groups[d]
    <3>1. ASSUME NEW S \in RoutingGroupSets(db, db.ups, f), {s, d} \subseteq S
          PROVE  \E g : g \in db.groups[s] /\ g \in db.groups[d]
      <4>1. PICK g : S = Members(g) BY <2>1, ZenonT(60)
      <4> QED BY <2>4, <3>1, <4>1, ZenonT(60)
    <3>2. ASSUME NEW g, g \in db.groups[s], g \in db.groups[d]
          PROVE  \E S \in RoutingGroupSets(db, db.ups, f) : {s, d} \subseteq S
      <4>1. s \in Members(g) /\ d \in Members(g) BY <2>4, <3>2, Zenon
      <4>2. Members(g) \in RoutingGroupSets(db, db.ups, f)
        BY <2>1, <2>3, <2>5, <3>2, <4>1, Zenon
      <4> QED BY <4>1, <4>2, ZenonT(60)
    <3> QED BY <3>1, <3>2, ZenonT(60)
  <2>7. db.groups[s] \cap db.groups[d] # {} <=> \E g : g \in db.groups[s] /\ g \in db.groups[d]
    BY Zenon
  <2>8. CASE db.policy = "groups"
    <3>1. nft.sets[f] = RoutingGroupSets(db, db.ups, f) BY <1>2, <2>8, Zenon
    <3>2. (\E S \in nft.sets[f] : {s, d} \subseteq S) <=>
             \E S \in RoutingGroupSets(db, db.ups, f) : {s, d} \subseteq S
      BY <3>1, SMTT(30)
    <3> QED BY <2>6, <2>7, <2>8, <3>2, Zenon
  <2>9. CASE db.policy # "groups"
    <3>1. nft.sets[f] = {} BY <1>2, <2>9, ZenonT(60)
    <3> QED BY <2>9, <3>1, ZenonT(60)
  <2> QED BY <2>8, <2>9, ZenonT(60)
<1> QED BY <1>2, <1>3, <1>4, Interfaces, ZenonT(60) DEF Accepts, Permitted

\* Every packet goes where the tables say.
LEMMA ProgrammedRoutes ==
  ASSUME Tables, Peers, Programmed, NEW p \in Packet, p.src # p.dst, Supported(p),
         ~(p.family = 4 /\ db.mode[p.src] = "warp" /\ pc \in {"unwarp", "warp"})
  PROVE  Right(db, p)
<1> DEFINE s == p.src
           f == p.family
           d == p.dst
           u == UpstreamOf[p.src]
           own == IF p.family = 6 THEN Source(UpstreamOf[p.src]) ELSE Native(p.src)
<1>p. s \in Tunnel /\ f \in Family /\ (d \in Tunnel \/ d = Internet)
  BY SMTT(30) DEF Packet
<1>f. (f = 4 \/ f = 6) /\ 4 # 6
  BY <1>p, SMTT(30) DEF Family
<1>k. /\ peer[f] = On(db, f) /\ On(db, f) \subseteq route[f] /\ On(db, f) \subseteq db.rows
  BY <1>p, ZenonT(60) DEF Programmed, On
<1>look. Lookup(p) = IF StaysInside(p) THEN MainTable(p)
                     ELSE IF f = 4 /\ Warped(s) \in rule /\ warp = "route" THEN Warp
                     ELSE IF own \in rule /\ u \in tbl[f] THEN Egress(u)
                     ELSE MainTable(p)
  BY ZenonT(60) DEF Lookup
<1>main. MainTable(p) = IF d \in route[f] THEN Wg(UpstreamOf[d]) ELSE Egress(Preferred)
  BY ZenonT(60) DEF MainTable
<1>fate. \A out : Lookup(p) = out =>
           /\ s \notin peer[f] \/ ~Accepts(p, out) => Fate(p) = <<"dropped", 0>>
           /\ s \in peer[f] /\ Accepts(p, out) /\ out[1] # "wg" => Fate(p) = out
           /\ s \in peer[f] /\ Accepts(p, out) /\ out[1] = "wg" =>
                 Fate(p) = IF d \in peer[f] THEN <<"tunnel", d>> ELSE <<"dropped", 0>>
  BY Forwarded, ZenonT(60)
<1>sup. \/ Several(db.ups)
        \/ Preferred \in db.ups /\ ~(f = 4 /\ db.mode[s] = "warp" /\ d # Internet)
  BY ZenonT(60) DEF Supported, Several
<1>right. Right(db, p) <=>
    IF s \notin On(db, f) THEN Fate(p) = <<"dropped", 0>>
    ELSE IF d = Internet
    THEN LET out == IF f = 4 /\ db.mode[s] = "warp" THEN Warp ELSE Egress(u)
         IN  Fate(p) = out /\ (f = 4 => <<s, out>> \in nft.nat)
    ELSE IF d \in On(db, f) /\ Covered(db, p)
    THEN Fate(p) = IF Permitted(db, s, d) THEN <<"tunnel", d>> ELSE <<"dropped", 0>>
    ELSE Fate(p) \in {<<"dropped", 0>>, Egress(u), Warp}
  BY ZenonT(60) DEF Right
<1>1. CASE s \notin On(db, f)
  BY <1>1, <1>k, <1>fate, <1>right, ZenonT(60)
<1>2. CASE s \in On(db, f)
  <2>row. s \in db.rows /\ u \in db.ups /\ db.ups # {} /\ db.ups \subseteq Upstream
    BY <1>2, <1>k, TablesTyped, ZenonT(60) DEF Tables
  <2>chain. nft.chain
    BY <2>row, ProgrammedChain, ZenonT(60)
  <2>mode. /\ f = 4 => db.mode[s] = "native" \/ db.mode[s] = "warp"
    <3>1. f = 4 => db.mode[s] # "off" BY <1>2, <1>f, ZenonT(60) DEF On
    <3>2. db.mode \in [Tunnel -> Mode] BY TablesTyped, ZenonT(60) DEF Tables
    <3>3. db.mode[s] \in Mode BY <1>p, <3>2, SMTT(30)
    <3> QED BY <3>1, <3>3, ZenonT(60) DEF Mode
  <2>warp. f = 4 /\ db.mode[s] = "warp" =>
             Warped(s) \in rule /\ warp = "route" /\ s \in Resolved(db, db.ups, "warp")
    <3>1. db.mode[s] = "warp" => s \in Resolved(db, db.ups, "warp")
      BY <2>row, ZenonT(60) DEF Resolved
    <3> QED BY <3>1, ZenonT(60) DEF Programmed
  <2>nowarp. db.mode[s] # "warp" => Warped(s) \notin rule
    BY <1>p, ZenonT(60) DEF Programmed, Resolved
  <2>rules. /\ Several(db.ups) => own \in rule \/ (f = 4 /\ db.mode[s] = "warp")
            /\ ~Several(db.ups) => own \notin rule /\ ~StaysInside(p)
            /\ Several(db.ups) => u \in tbl[f]
    <3>1. db.mode[s] = "native" => s \in Resolved(db, db.ups, "native")
      BY <2>row, ZenonT(60) DEF Resolved
    <3>2. Several(db.ups) => own \in rule \/ (f = 4 /\ db.mode[s] = "warp")
      BY <1>f, <2>row, <2>mode, <3>1, ProgrammedRules, ZenonT(60)
    <3>3. ~Several(db.ups) => own \notin rule /\ ~StaysInside(p)
      BY ProgrammedRules, ZenonT(60) DEF StaysInside
    <3>4. Several(db.ups) => u \in tbl[f]
      BY <1>p, <2>row, ZenonT(60) DEF Programmed
    <3> QED BY <3>2, <3>3, <3>4, ZenonT(60)
  <2>no4. ~(f = 4 /\ db.mode[s] = "warp") => ~(f = 4 /\ Warped(s) \in rule)
    BY <2>nowarp, ZenonT(60)
  <2>own. \A w : <<Wg(u), Egress(w)>> \in nft.pairs => w = u
    BY ScriptPairs, ZenonT(60) DEF Programmed
  <2>cov. Covered(db, p) <=> f = 6 \/ ~Several(db.ups) \/ db.from[d] = db.pool
    BY <2>row, SeveralElements, ZenonT(60) DEF Covered
  <2>egress. \A w : Accepts(p, Egress(w)) => w = u
    BY <2>chain, <2>own, Interfaces, ZenonT(60) DEF Accepts
  <2> HIDE DEF s, f, d, u, own
  <2>1. CASE d = Internet
    <3>1. ~StaysInside(p) /\ d \notin route[f]
      <4>1. ~StaysInside(p) BY <2>1, ZenonT(60) DEF StaysInside, d
      <4>2. route[f] \subseteq Tunnel BY <1>p, SMTT(30) DEF Peers
      <4>3. Internet \notin Tunnel BY ForwardingAssumption, ZenonT(60) DEF Internet
      <4> QED BY <2>1, <4>1, <4>2, <4>3, ZenonT(60)
    <3>2. CASE f = 4 /\ db.mode[s] = "warp"
      <4>1. Lookup(p) = Warp BY <1>look, <2>warp, <3>1, <3>2, ZenonT(60)
      <4>2. <<Wg(u), Warp>> \in nft.pairs /\ <<s, Warp>> \in nft.nat
        BY <2>row, <2>warp, <3>2, ProgrammedChain, ZenonT(60) DEF u, s
      <4>3. Accepts(p, Warp) BY <4>2, ZenonT(60) DEF Accepts, u
      <4>4. Fate(p) = Warp BY <1>2, <1>k, <1>fate, <4>1, <4>3, Interfaces, ZenonT(60)
      <4> QED BY <1>2, <1>right, <2>1, <3>2, <4>2, <4>4, ZenonT(60)
    <3>3. CASE ~(f = 4 /\ db.mode[s] = "warp")
      <4>1. Lookup(p) = Egress(u)
        <5>1. CASE Several(db.ups)
          BY <1>look, <2>rules, <2>no4, <3>1, <3>3, <5>1, ZenonT(60)
        <5>2. CASE ~Several(db.ups)
          <6>1. Preferred = u BY <1>sup, <2>row, <5>2, SeveralElements, ZenonT(60)
          <6> QED BY <1>look, <1>main, <2>rules, <2>no4, <3>1, <3>3, <5>2, <6>1, ZenonT(60)
        <5> QED BY <5>1, <5>2, ZenonT(60)
      <4>2. <<Wg(u), Egress(u)>> \in nft.pairs
        BY <2>row, ProgrammedChain, ZenonT(60)
      <4>3. f = 4 => <<s, Egress(u)>> \in nft.nat
        <5>1. f = 4 => s \in Resolved(db, db.ups, "native")
          BY <2>row, <2>mode, <3>3, ZenonT(60) DEF Resolved, u, s
        <5> QED BY <2>row, <5>1, ProgrammedChain, ZenonT(60) DEF u, s
      <4>4. Accepts(p, Egress(u)) BY <4>2, ZenonT(60) DEF Accepts, u
      <4>5. Fate(p) = Egress(u) BY <1>2, <1>k, <1>fate, <4>1, <4>4, Interfaces, ZenonT(60)
      <4> QED BY <1>2, <1>right, <2>1, <3>3, <4>3, <4>5, ZenonT(60)
    <3> QED BY <3>2, <3>3, ZenonT(60)
  <2>2. CASE d # Internet /\ d \in On(db, f) /\ Covered(db, p)
    <3>1. d \in route[f] /\ d \in peer[f] /\ UpstreamOf[d] \in db.ups
      BY <1>k, <2>2, TablesTyped, ZenonT(60) DEF Tables
    <3>2. Lookup(p) = Wg(UpstreamOf[d])
      <4>1. CASE Several(db.ups)
        <5>1. StaysInside(p)
          <6>1. CASE f = 6
            BY <2>2, <3>1, <4>1, <6>1, ProgrammedRules, ZenonT(60) DEF StaysInside, d, f
          <6>2. CASE f # 6
            <7>1. Pool(db.from[d]) \in rule
              BY <2>2, <2>cov, <4>1, <6>2, ProgrammedRules, ZenonT(60)
            <7> QED BY <2>2, <6>2, <7>1, ZenonT(60) DEF StaysInside, d, f
          <6> QED BY <6>1, <6>2
        <5> QED BY <1>look, <1>main, <3>1, <5>1, ZenonT(60)
      <4>2. CASE ~Several(db.ups)
        BY <1>look, <1>main, <1>sup, <2>2, <2>rules, <2>no4, <3>1, <4>2, ZenonT(60)
      <4> QED BY <4>1, <4>2, ZenonT(60)
    <3>3. Accepts(p, Wg(UpstreamOf[d])) <=> Permitted(db, s, d)
      BY <1>p, <1>2, <2>2, PolicyForwards, ZenonT(60) DEF s, d, f
    <3>4. Fate(p) = IF Permitted(db, s, d) THEN <<"tunnel", d>> ELSE <<"dropped", 0>>
      BY <1>2, <1>k, <1>fate, <3>1, <3>2, <3>3, Interfaces, ZenonT(60)
    <3> QED BY <1>2, <1>right, <2>2, <3>4, ZenonT(60)
  <2>3. CASE d # Internet /\ d \notin On(db, f)
    <3>1. \/ \E w : Lookup(p) = Wg(w) \/ Lookup(p) = Egress(w)
          \/ Lookup(p) = Warp
      BY <1>look, <1>main, ZenonT(60)
    <3>3. Fate(p) \in {<<"dropped", 0>>, Egress(u), Warp}
      <4>1. ASSUME NEW w, Lookup(p) = Wg(w) PROVE Fate(p) = <<"dropped", 0>>
        BY <1>2, <1>k, <1>fate, <2>3, <4>1, Interfaces, ZenonT(60)
      <4>2. ASSUME NEW w, Lookup(p) = Egress(w) PROVE Fate(p) \in {<<"dropped", 0>>, Egress(u)}
        BY <1>2, <1>k, <1>fate, <2>egress, <4>2, Interfaces, ZenonT(60)
      <4>3. ASSUME Lookup(p) = Warp PROVE Fate(p) \in {<<"dropped", 0>>, Warp}
        BY <1>2, <1>k, <1>fate, <4>3, Interfaces, Zenon
      <4> QED BY <3>1, <4>1, <4>2, <4>3, ZenonT(60)
    <3> QED BY <1>2, <1>right, <2>3, <3>3, Zenon
  <2>4. CASE d # Internet /\ d \in On(db, f) /\ ~Covered(db, p)
    <3>1. f # 6 /\ f = 4 /\ Several(db.ups) /\ db.from[d] # db.pool
      BY <1>f, <2>4, <2>cov, ZenonT(60)
    <3>2. Pool(db.from[d]) \notin rule BY <3>1, ProgrammedRules, ZenonT(60)
    <3>3. ~StaysInside(p) BY <3>1, <3>2, ZenonT(60) DEF StaysInside, d, f
    <3>4. Lookup(p) = Warp \/ Lookup(p) = Egress(u)
      BY <1>look, <2>rules, <2>warp, <3>1, <3>3, ZenonT(60)
    <3>5. Fate(p) \in {<<"dropped", 0>>, Egress(u), Warp}
      BY <1>2, <1>k, <1>fate, <3>4, Interfaces, ZenonT(60)
    <3> QED BY <1>2, <1>right, <2>4, <3>5, Zenon
  <2> QED BY <2>1, <2>2, <2>3, <2>4, ZenonT(60)
<1> QED BY <1>1, <1>2, ZenonT(60)

-----------------------------------------------------------------------------
(***************************************************************************)
(* Where packets go after a reconcile that succeeded.                      *)
(***************************************************************************)

\* What the passes that are shared by the upstreams have programmed so far, unless
\* something was changed, or an error ignored.
Passed ==
    /\ fresh /\ pc \in {"warp", "tables", "rules", "nft", "ndp"} =>
          \A t \in Tunnel : Warped(t) \in rule => t \in Warping
    /\ fresh /\ pc = "tables" /\ Several(healthy) =>
          \A f \in Family : healthy \ todo \subseteq tbl[f]
    /\ fresh /\ pc \in {"rules", "nft", "ndp"} /\ Several(healthy) =>
          \A f \in Family : healthy \subseteq tbl[f]
    /\ pc \in {"nft", "ndp"} => rule \ WarpRules = Desired
    /\ pc = "ndp" => nft = NFTScript(want, healthy)

LEMMA PassedFrame ==
  ASSUME [Next]_vars
  PROVE  \/ pc' \notin {"warp", "tables", "rules", "nft", "ndp"}
         \/ UNCHANGED <<rule, tbl, nft, pc, want, healthy, todo>> /\ (fresh' => fresh)
         \/ WarpRulesKept \/ EnsureUpstreamTable6
         \/ WarpRulesDeleted \/ AddWarpRule \/ FinishWarp \/ EnsureUpstreamTable
         \/ TablesEnsured \/ AddPolicyRule \/ DeletePolicyRule \/ PolicyRulesDone \/ ApplyNAT
  BY ZenonT(60)
     DEF Next, Request, Apply, vars, kernel, local, Edit, Changed, Fault, Step, Goto, SaveSettings,
         SetEnabled, SetTunnelV4Mode, SetTunnelRoutingGroups, DeleteRoutingGroup, CreateTunnel,
         DeleteTunnel, DeleteTunnelFails, CreateUpstream, DeleteUpstream, DeleteUpstreamFails,
         Reconcile,
         ConfigureDevice, ProgramRoutes, StartWarp, DeleteWarpRule, WarpRulesDeleted,
         AddWarpRule, FinishWarp, EnsureUpstreamTable, TablesEnsured, AddPolicyRule,
         DeletePolicyRule, PolicyRulesDone, ApplyNAT, Inspect, ReportUpstream,
         ConfigureDeviceFails, ProgramRoutesFails, ApplyFails, Overlook,
         ProgramRoutesKeeps, WarpRulesKept, EnsureUpstreamTable6, Crash, Reboot

LEMMA PassedStep ==
  ASSUME Passed, Tables, Sets, [Next]_vars
  PROVE  Passed'
<1>w. \A x, y : Warped(x) = Warped(y) => x = y
  BY SMTT(30) DEF Warped
<1>h. healthy \subseteq Upstream
  BY TablesTyped, Zenon DEF Tables, Sets
<1>d. Desired \cap WarpRules = {}
  BY RulesApart, Zenon DEF Desired
<1>s. UNCHANGED <<want, healthy>> => Desired' = Desired /\ Warping' = Warping
  BY Zenon DEF Desired, Warping
<1>1. CASE pc' \notin {"warp", "tables", "rules", "nft", "ndp"}
  BY <1>1, Zenon DEF Passed
<1>2. CASE UNCHANGED <<rule, tbl, nft, pc, want, healthy, todo>> /\ (fresh' => fresh)
  BY <1>2, <1>s, ZenonT(60) DEF Passed, Several
<1>3. CASE WarpRulesDeleted
  <2>1. pc' = "warp" /\ rule' = rule /\ rule \cap WarpRules = {}
    BY <1>3, ZenonT(60) DEF WarpRulesDeleted, Goto, kernel
  <2>2. \A t \in Tunnel : Warped(t) \notin rule'
    BY <2>1, ZenonT(60) DEF WarpRules
  <2> QED BY <2>1, <2>2, ZenonT(60) DEF Passed
<1>4. CASE AddWarpRule
  <2>1. /\ pc = "warp" /\ pc' = "warp" /\ UNCHANGED <<want, healthy, fresh>>
        /\ \E t \in Warping : rule' = rule \cup {Warped(t)}
    BY <1>4, ZenonT(60) DEF AddWarpRule, Step, local
  <2>2. fresh => \A t \in Tunnel : Warped(t) \in rule' => t \in Warping
    BY <1>w, <2>1, ZenonT(60) DEF Passed
  <2> QED BY <1>s, <2>1, <2>2, ZenonT(60) DEF Passed
<1>5. CASE FinishWarp
  <2>1. /\ pc = "warp" /\ pc' = "tables" /\ UNCHANGED <<rule, want, healthy, fresh>>
        /\ Several(healthy) => todo' = healthy
    BY <1>5, ZenonT(60) DEF FinishWarp, Step, Goto, Several
  <2> QED BY <1>s, <2>1, ZenonT(60) DEF Passed, Several
<1>6. CASE EnsureUpstreamTable
  <2>1. /\ pc = "tables" /\ pc' = "tables" /\ UNCHANGED <<rule, want, healthy>>
        /\ fresh' = fresh /\ todo' = todo \ {First(todo)}
        /\ \A f \in Family : tbl'[f] = tbl[f] \cup {First(todo)}
    BY <1>6, ZenonT(60) DEF EnsureUpstreamTable, Step
  <2>2. fresh /\ Several(healthy) => \A f \in Family : healthy \ todo' \subseteq tbl'[f]
    BY <2>1, ZenonT(60) DEF Passed
  <2> QED BY <1>s, <2>1, <2>2, ZenonT(60) DEF Passed, Several
<1>7. CASE TablesEnsured
  <2>1. /\ pc = "tables" /\ pc' = "rules" /\ UNCHANGED <<rule, tbl, want, healthy, fresh>>
        /\ todo = {}
    BY <1>7, ZenonT(60) DEF TablesEnsured, Step, Goto, kernel, local
  <2> QED BY <1>s, <2>1, ZenonT(60) DEF Passed, Several
<1>8. CASE AddPolicyRule
  <2>1. /\ pc = "rules" /\ pc' = "rules" /\ UNCHANGED <<tbl, want, healthy, fresh>>
        /\ \E r \in Desired : rule' = rule \cup {r}
    BY <1>8, ZenonT(60) DEF AddPolicyRule, Step, local
  <2>2. \A t \in Tunnel : Warped(t) \in rule' => Warped(t) \in rule
    BY <1>d, <2>1, ZenonT(60) DEF WarpRules
  <2> QED BY <1>s, <2>1, <2>2, ZenonT(60) DEF Passed, Several
<1>9. CASE DeletePolicyRule
  <2>1. /\ pc = "rules" /\ pc' = "rules" /\ UNCHANGED <<tbl, want, healthy, fresh>>
        /\ rule' \subseteq rule
    BY <1>9, ZenonT(60) DEF DeletePolicyRule, Step, local
  <2> QED BY <1>s, <2>1, ZenonT(60) DEF Passed, Several
<1>10. CASE PolicyRulesDone
  <2>1. /\ pc = "rules" /\ pc' = "nft" /\ UNCHANGED <<rule, want, healthy, fresh>>
        /\ rule \ WarpRules = Desired
        /\ ~(Cardinality(healthy) < 2) => tbl' = tbl
    BY <1>10, ZenonT(60) DEF PolicyRulesDone, Step, Goto, local
  <2>2. Several(healthy) => tbl' = tbl
    BY <1>h, <2>1, SeveralElements, ZenonT(60)
  <2> QED BY <1>s, <2>1, <2>2, ZenonT(60) DEF Passed, Several
<1>11. CASE ApplyNAT
  <2>1. /\ pc = "nft" /\ pc' = "ndp" /\ UNCHANGED <<rule, tbl, want, healthy, fresh>>
        /\ nft' = NFTScript(want, healthy)
    BY <1>11, ZenonT(60) DEF ApplyNAT, Step, Goto, local
  <2> QED BY <1>s, <2>1, ZenonT(60) DEF Passed, Several
<1>12. CASE WarpRulesKept
  <2>1. ~fresh' /\ pc' \in {"warp", "idle"}
    BY <1>12, ZenonT(60) DEF WarpRulesKept, Overlook, Changed, Goto
  <2> QED BY <2>1, ZenonT(60) DEF Passed
<1>13. CASE EnsureUpstreamTable6
  <2>1. ~fresh' /\ pc' = "tables"
    BY <1>13, ZenonT(60) DEF EnsureUpstreamTable6, Overlook, Changed
  <2> QED BY <2>1, ZenonT(60) DEF Passed
<1> QED
  BY <1>1, <1>2, <1>3, <1>4, <1>5, <1>6, <1>7, <1>8, <1>9, <1>10, <1>11,
     <1>12, <1>13, PassedFrame, ZenonT(60)

\* While nothing was changed since a reconcile that succeeded, the kernel is
\* programmed for the tables, and a reconcile that runs works on those.
Agreed ==
    /\ settled => fresh
    /\ fresh => Complete(db)
    /\ fresh /\ pc # "idle" => want = db
    /\ settled /\ pc # "idle" => ~failed
    /\ settled => Programmed

\* Steps that change nothing of what is programmed, and the others.
LEMMA AgreedFrame ==
  ASSUME [Next]_vars
  PROVE  /\ \/ ~settled'
            \/ fresh' = TRUE
            \/ fresh' = fresh /\ (settled' = settled \/ settled' = fresh \/ (settled /\ settled'))
         /\ \/ ~fresh'
            \/ Reconcile
            \/ UNCHANGED <<fresh, db>>
         /\ \/ ~fresh' \/ pc' = "idle"
            \/ want' = db'
            \/ UNCHANGED <<fresh, want, db>> /\ pc # "idle"
         /\ \/ ~settled' \/ pc' = "idle" \/ ~failed'
            \/ UNCHANGED <<settled, failed>> /\ pc # "idle"
         /\ \/ ~settled'
            \/ Inspect \/ Reconcile
            \/ /\ settled /\ UNCHANGED <<db, peer, route, rule, tbl, warp, nft>>
               /\ pc \in {"unwarp", "warp"} => pc' \in {"unwarp", "warp"}
            \/ /\ settled = settled' /\ db' = db
               /\ \/ ConfigureDevice \/ ProgramRoutes \/ StartWarp \/ DeleteWarpRule
                  \/ AddWarpRule \/ FinishWarp \/ EnsureUpstreamTable \/ AddPolicyRule
                  \/ DeletePolicyRule \/ PolicyRulesDone \/ ApplyNAT
<1> USE DEF Next, Request, Apply, vars, kernel, local, Edit, Changed, Fault, Step, Goto, SaveSettings,
         SetEnabled, SetTunnelV4Mode, SetTunnelRoutingGroups, DeleteRoutingGroup, CreateTunnel,
         DeleteTunnel, DeleteTunnelFails, CreateUpstream, DeleteUpstream, DeleteUpstreamFails,
         Reconcile,
         ConfigureDevice, ProgramRoutes, StartWarp, DeleteWarpRule, WarpRulesDeleted,
         AddWarpRule, FinishWarp, EnsureUpstreamTable, TablesEnsured, AddPolicyRule,
         DeletePolicyRule, PolicyRulesDone, ApplyNAT, Inspect, ReportUpstream,
         ConfigureDeviceFails, ProgramRoutesFails, ApplyFails, Overlook,
         ProgramRoutesKeeps, WarpRulesKept, EnsureUpstreamTable6, Crash, Reboot
<1>1. \/ ~settled'
      \/ fresh' = TRUE
      \/ fresh' = fresh /\ (settled' = settled \/ settled' = fresh \/ (settled /\ settled'))
  BY ZenonT(60)
<1>2. \/ ~fresh' \/ pc' = "idle"
      \/ want' = db'
      \/ UNCHANGED <<fresh, want, db>> /\ pc # "idle"
  BY ZenonT(60)
<1>3. \/ ~settled' \/ pc' = "idle" \/ ~failed'
      \/ UNCHANGED <<settled, failed>> /\ pc # "idle"
  BY ZenonT(60)
<1>4. \/ ~settled'
      \/ Inspect \/ Reconcile
      \/ /\ settled /\ UNCHANGED <<db, peer, route, rule, tbl, warp, nft>>
         /\ pc \in {"unwarp", "warp"} => pc' \in {"unwarp", "warp"}
      \/ /\ settled = settled' /\ db' = db
         /\ \/ ConfigureDevice \/ ProgramRoutes \/ StartWarp \/ DeleteWarpRule
            \/ AddWarpRule \/ FinishWarp \/ EnsureUpstreamTable \/ AddPolicyRule
            \/ DeletePolicyRule \/ PolicyRulesDone \/ ApplyNAT
  BY ZenonT(60)
<1>5. ~fresh' \/ Reconcile \/ UNCHANGED <<fresh, db>>
  BY ZenonT(60)
<1> QED BY <1>1, <1>2, <1>3, <1>4, <1>5, ZenonT(60)

\* The end of a reconcile that succeeded.
LEMMA InspectProgrammed ==
  ASSUME Tables, Work, Sets, Peers, Passed, want = db, pc = "ndp", ~failed, fresh
  PROVE  Programmed
<1>1. healthy = db.ups /\ want.ups = db.ups
  BY ZenonT(60) DEF Work, Sets, Shared
<1>2. \A u \in db.ups : Served(u)
  BY <1>1, ZenonT(60) DEF Work
<1>3. \A f \in Family : On(db, f) \subseteq route[f] /\ On(db, f) = peer[f]
  <2> SUFFICES ASSUME NEW f \in Family PROVE On(db, f) \subseteq route[f] /\ On(db, f) = peer[f]
    BY ZenonT(60)
  <2>0. (f = 4 \/ f = 6) /\ f \in Kind /\ AllowedIPs(want, f) = On(db, f)
    <3>1. (f = 4 \/ f = 6) /\ f \in Kind /\ f # Transport
      BY SMTT(30) DEF Family, Kind, Transport
    <3> QED BY <3>1, Zenon DEF AllowedIPs
  <2>1. \A t \in On(db, f) : t \in Tunnel /\ UpstreamOf[t] \in db.ups
    BY TablesTyped, ZenonT(60) DEF Tables, On
  <2>2. \A t \in peer[f] : t \in Tunnel /\ UpstreamOf[t] \in db.ups
    <3>1. peer[f] \subseteq Tunnel BY <2>0, SMTT(30) DEF Peers
    <3>2. peer[f] \subseteq peer[6] BY <2>0, ZenonT(60) DEF Peers
    <3>3. \A t \in peer[6] : UpstreamOf[t] \in db.ups BY ZenonT(60) DEF Peers, Sets
    <3> QED BY <3>1, <3>2, <3>3, ZenonT(60)
  <2>3. \A t \in Tunnel : t \in Of(UpstreamOf[t]) BY ZenonT(60) DEF Of
  <2>4. \A t \in Tunnel : UpstreamOf[t] \in db.ups =>
           (t \in peer[f] <=> t \in On(db, f)) /\ (t \in On(db, f) => t \in route[f])
    BY <1>2, <2>0, <2>3, ZenonT(60) DEF Served, Configured
  <2> QED BY <2>1, <2>2, <2>4, ZenonT(60)
<1>4. rule \ WarpRules = IF Several(db.ups) THEN DesiredPolicyRules(db, db.ups) ELSE {}
  <2>1. rule \ WarpRules = Desired BY ZenonT(60) DEF Passed
  <2>2. Several(db.ups) <=> ~(Cardinality(db.ups) < 2)
    BY TablesTyped, SeveralElements, ZenonT(60) DEF Tables
  <2> QED BY <1>1, <2>1, <2>2, ZenonT(60) DEF Desired
<1>5. Several(db.ups) => \A f \in Family : db.ups \subseteq tbl[f]
  BY <1>1, ZenonT(60) DEF Passed
<1>6. nft = NFTScript(db, db.ups)
  BY <1>1, ZenonT(60) DEF Passed
<1>7. Warping = Resolved(db, db.ups, "warp")
  BY <1>1, ZenonT(60) DEF Warping
<1>8. \A t \in Tunnel : Warped(t) \in rule => t \in Resolved(db, db.ups, "warp")
  BY <1>7, ZenonT(60) DEF Passed
<1>9. /\ \A t \in Resolved(db, db.ups, "warp") : Warped(t) \in rule
      /\ Resolved(db, db.ups, "warp") # {} => warp = "route"
  BY <1>7, ZenonT(60) DEF Work
<1> QED BY <1>3, <1>4, <1>5, <1>6, <1>8, <1>9, Zenon DEF Programmed

\* A later reconcile finds nothing to change but the rules of WARP.
LEMMA StaysProgrammed ==
  ASSUME Programmed, Tables, Work, Sets, Peers, want = db, ~failed, db' = db,
         \/ ConfigureDevice \/ ProgramRoutes \/ StartWarp \/ DeleteWarpRule
         \/ AddWarpRule \/ FinishWarp \/ EnsureUpstreamTable \/ AddPolicyRule
         \/ DeletePolicyRule \/ PolicyRulesDone \/ ApplyNAT
  PROVE  Programmed'
<1> DEFINE Warpers == Resolved(db, db.ups, "warp")
           PolicyRules == IF Several(db.ups) THEN DesiredPolicyRules(db, db.ups) ELSE {}
           Peering(q, r) == \A f \in Family : q[f] = On(db, f) /\ On(db, f) \subseteq r[f]
           WarpIn(r) == \A t \in Tunnel : Warped(t) \in r => t \in Warpers
           WarpAll(l, r) == l \notin {"unwarp", "warp"} => \A t \in Warpers : Warped(t) \in r
<1>goal. ASSUME Peering(peer', route'), rule' \ WarpRules = PolicyRules,
                Several(db.ups) => \A f \in Family : db.ups \subseteq tbl'[f], nft' = NFTScript(db, db.ups),
                WarpIn(rule'), WarpAll(pc', rule'), Warpers # {} => warp' = "route"
         PROVE  Programmed'
  BY <1>goal, ZenonT(60) DEF Programmed, Several
<1>now. /\ Peering(peer, route) /\ rule \ WarpRules = PolicyRules
        /\ Several(db.ups) => \A f \in Family : db.ups \subseteq tbl[f]
        /\ nft = NFTScript(db, db.ups)
        /\ WarpIn(rule) /\ WarpAll(pc, rule)
        /\ Warpers # {} => warp = "route"
  BY ZenonT(60) DEF Programmed
<1>healthy. pc \in Shared => healthy = db.ups /\ Warping = Warpers /\ Desired = PolicyRules
  <2>1. pc \in Shared => healthy = db.ups
    BY ZenonT(60) DEF Work, Sets, Shared
  <2>2. Several(db.ups) <=> ~(Cardinality(db.ups) < 2)
    BY TablesTyped, SeveralElements, ZenonT(60) DEF Tables
  <2> QED BY <2>1, <2>2, ZenonT(60) DEF Warping, Desired
<1>labels. "unwarp" \in Shared /\ "warp" \in Shared /\ "rules" \in Shared /\ "nft" \in Shared
  BY ZenonT(60) DEF Shared
<1> HIDE DEF Warpers, PolicyRules
<1>1. CASE ConfigureDevice
  <2>1. /\ UNCHANGED <<route, rule, tbl, warp, nft>> /\ pc = "device" /\ pc' = "routes"
        /\ peer' = [k \in Kind |-> (peer[k] \ Of(First(todo)))
                                    \cup (AllowedIPs(want, k) \cap Of(First(todo)))]
    BY <1>1, ZenonT(60) DEF ConfigureDevice, Goto
  <2>k. \A f \in Family : f \in Kind /\ AllowedIPs(want, f) = On(db, f)
    <3>1. \A f \in Family : f \in Kind /\ f # Transport
      BY SMTT(30) DEF Family, Kind, Transport
    <3> QED BY <3>1, Zenon DEF AllowedIPs
  <2>2. \A f \in Family : peer'[f] = peer[f]
    <3> SUFFICES ASSUME NEW f \in Family PROVE peer'[f] = peer[f] OBVIOUS
    <3>1. peer'[f] = (peer[f] \ Of(First(todo))) \cup (On(db, f) \cap Of(First(todo)))
      BY <2>1, <2>k, ZenonT(60)
    <3>2. peer[f] = On(db, f) BY <1>now, Zenon
    <3> QED BY <3>1, <3>2, SMTT(30)
  <2>3. Peering(peer', route') BY <1>now, <2>1, <2>2, ZenonT(60)
  <2> HIDE DEF Peering
  <2> QED BY <1>goal, <1>now, <2>1, <2>3, ZenonT(60)
<1>2. CASE ProgramRoutes
  <2>1. /\ UNCHANGED <<peer, rule, tbl, warp, nft>> /\ pc = "routes" /\ pc' = "device"
        /\ route' = Routed(want.rows \cap Of(First(todo)))
    BY <1>2, ZenonT(60) DEF ProgramRoutes, Goto
  <2>2. \A f \in Family : On(db, f) \subseteq route'[f]
    BY <1>now, <2>1, SMTT(30) DEF Routed
  <2>3. Peering(peer', route') BY <1>now, <2>1, <2>2, ZenonT(60)
  <2> HIDE DEF Peering
  <2> QED BY <1>goal, <1>now, <2>1, <2>3, ZenonT(60)
<1> HIDE DEF Peering
<1>3. CASE StartWarp
  <2>1. /\ UNCHANGED <<peer, route, rule, tbl, nft>> /\ pc' = "unwarp"
        /\ warp' = IF Warping # {} /\ warp = "none" THEN "link" ELSE warp
    BY <1>3, ZenonT(60) DEF StartWarp, Goto
  <2>2. Warpers # {} => warp' = "route" BY <1>now, <2>1, ZenonT(60)
  <2> QED BY <1>goal, <1>now, <2>1, <2>2, ZenonT(60)
<1>4. CASE DeleteWarpRule
  <2>1. /\ UNCHANGED <<peer, route, tbl, warp, nft>> /\ pc' = "unwarp"
        /\ \E r \in WarpRules : rule' = rule \ {r}
    BY <1>4, ZenonT(60) DEF DeleteWarpRule
  <2>2. rule' \ WarpRules = rule \ WarpRules /\ rule' \subseteq rule BY <2>1, ZenonT(60)
  <2> QED BY <1>goal, <1>now, <2>1, <2>2, ZenonT(60)
<1>5. CASE AddWarpRule
  <2>1. /\ UNCHANGED <<peer, route, tbl, warp, nft>> /\ pc = "warp" /\ pc' = "warp"
        /\ \E t \in Warping : rule' = rule \cup {Warped(t)}
    BY <1>5, ZenonT(60) DEF AddWarpRule
  <2>2. PICK t \in Warpers : rule' = rule \cup {Warped(t)}
    BY <1>healthy, <1>labels, <2>1, ZenonT(60)
  <2>3. t \in Tunnel
    BY TablesTyped, ZenonT(60) DEF Tables, Warpers, Resolved
  <2>4. rule' \ WarpRules = rule \ WarpRules BY <2>2, <2>3, ZenonT(60) DEF WarpRules
  <2>5. \A x, y : Warped(x) = Warped(y) => x = y BY SMTT(30) DEF Warped
  <2>6. WarpIn(rule') BY <1>now, <2>2, <2>5, ZenonT(60)
  <2> QED BY <1>goal, <1>now, <2>1, <2>4, <2>6, ZenonT(60)
<1>6. CASE FinishWarp
  <2>1. /\ UNCHANGED <<peer, route, rule, tbl, nft>> /\ pc = "warp"
        /\ \A t \in Warping : Warped(t) \in rule
        /\ warp' = IF Warping # {} THEN "route" ELSE "none"
    BY <1>6, ZenonT(60) DEF FinishWarp
  <2>2. /\ \A t \in Warpers : Warped(t) \in rule
        /\ Warpers # {} => warp' = "route"
    BY <1>healthy, <1>labels, <2>1, ZenonT(60)
  <2> QED BY <1>goal, <1>now, <2>1, <2>2, ZenonT(60)
<1>7. CASE EnsureUpstreamTable
  <2>1. /\ UNCHANGED <<peer, route, rule, warp, nft, pc>>
        /\ \A f \in Family : tbl[f] \subseteq tbl'[f]
    BY <1>7, ZenonT(60) DEF EnsureUpstreamTable
  <2> QED BY <1>goal, <1>now, <2>1, ZenonT(60)
<1>8. CASE AddPolicyRule
  <2>1. pc = "rules" /\ \E r \in Desired : r \notin rule
    BY <1>8, ZenonT(60) DEF AddPolicyRule
  <2> QED BY <1>healthy, <1>labels, <1>now, <2>1, ZenonT(60)
<1>9. CASE DeletePolicyRule
  <2>1. pc = "rules" /\ \E r \in rule : r \notin Desired /\ r \notin WarpRules
    BY <1>9, ZenonT(60) DEF DeletePolicyRule
  <2> QED BY <1>healthy, <1>labels, <1>now, <2>1, ZenonT(60)
<1>10. CASE PolicyRulesDone
  <2>1. /\ UNCHANGED <<peer, route, rule, warp, nft>> /\ pc = "rules" /\ pc' = "nft"
        /\ ~(Cardinality(healthy) < 2) => tbl' = tbl
    BY <1>10, ZenonT(60) DEF PolicyRulesDone, Goto
  <2>2. Several(db.ups) => tbl' = tbl
    <3>1. Several(db.ups) <=> ~(Cardinality(db.ups) < 2)
      BY TablesTyped, SeveralElements, ZenonT(60) DEF Tables
    <3> QED BY <1>healthy, <1>labels, <2>1, <3>1, ZenonT(60)
  <2> QED BY <1>goal, <1>now, <2>1, <2>2, ZenonT(60)
<1>11. CASE ApplyNAT
  <2>1. /\ UNCHANGED <<peer, route, rule, tbl, warp>> /\ pc = "nft" /\ pc' = "ndp"
        /\ nft' = NFTScript(want, healthy)
    BY <1>11, ZenonT(60) DEF ApplyNAT, Goto
  <2>2. nft' = NFTScript(db, db.ups) BY <1>healthy, <1>labels, <2>1, ZenonT(60)
  <2> QED BY <1>goal, <1>now, <2>1, <2>2, ZenonT(60)
<1> QED BY <1>1, <1>2, <1>3, <1>4, <1>5, <1>6, <1>7, <1>8, <1>9, <1>10, <1>11, ZenonT(60)

LEMMA AgreedStep ==
  ASSUME Agreed, IInv, Passed, [Next]_vars
  PROVE  Agreed'
<1>i. Tables /\ Work /\ Sets /\ Peers /\ Flags
  BY ZenonT(60) DEF IInv
<1>1. settled' => fresh'
  BY AgreedFrame, ZenonT(60) DEF Agreed
<1>2. fresh' /\ pc' # "idle" => want' = db'
  BY AgreedFrame, ZenonT(60) DEF Agreed
<1>5. fresh' => Complete(db')
  <2>1. CASE Reconcile
    <3>1. db' = Allocated(db) BY <2>1, Zenon DEF Reconcile
    <3> QED BY <1>i, <3>1, AllocatedRows, Zenon DEF Tables
  <2>2. CASE ~Reconcile
    BY <2>2, AgreedFrame, ZenonT(60) DEF Agreed
  <2> QED BY <2>1, <2>2
<1>3. settled' /\ pc' # "idle" => ~failed'
  BY AgreedFrame, ZenonT(60) DEF Agreed
<1>4. ASSUME settled' PROVE Programmed'
  <2>1. CASE Inspect
    <3>1. /\ pc = "ndp" /\ ~failed /\ pc' = "idle" /\ fresh
          /\ UNCHANGED <<db, peer, route, rule, tbl, warp, nft>>
      BY <1>4, <2>1, ZenonT(60) DEF Inspect, Goto, kernel
    <3>2. want = db BY <3>1, ZenonT(60) DEF Agreed
    <3>3. Programmed BY <1>i, <3>1, <3>2, InspectProgrammed, ZenonT(60)
    <3> QED BY <3>1, <3>3, ZenonT(60) DEF Programmed, Several
  <2>2. CASE /\ settled /\ UNCHANGED <<db, peer, route, rule, tbl, warp, nft>>
             /\ pc \in {"unwarp", "warp"} => pc' \in {"unwarp", "warp"}
    BY <2>2, ZenonT(60) DEF Agreed, Programmed, Several
  <2>3. CASE /\ settled = settled' /\ db' = db
             /\ \/ ConfigureDevice \/ ProgramRoutes \/ StartWarp \/ DeleteWarpRule
                \/ AddWarpRule \/ FinishWarp \/ EnsureUpstreamTable \/ AddPolicyRule
                \/ DeletePolicyRule \/ PolicyRulesDone \/ ApplyNAT
    <3>1. pc # "idle"
      BY <2>3, ZenonT(60)
         DEF ConfigureDevice, ProgramRoutes, StartWarp, DeleteWarpRule, AddWarpRule, FinishWarp,
             EnsureUpstreamTable, AddPolicyRule, DeletePolicyRule, PolicyRulesDone, ApplyNAT
    <3>2. settled BY <1>4, <2>3, ZenonT(60)
    <3>3. want = db /\ ~failed /\ Programmed BY <3>1, <3>2, ZenonT(60) DEF Agreed
    <3> QED BY <1>i, <2>3, <3>3, StaysProgrammed, ZenonT(60)
  <2>4. CASE Reconcile
    <3>1. /\ settled /\ db' = Allocated(db) /\ pc = "idle" /\ pc' = "device"
          /\ UNCHANGED <<peer, route, rule, tbl, warp, nft>>
      BY <1>4, <2>4, ZenonT(60) DEF Reconcile, Goto, kernel
    <3>2. db' = db BY <1>i, <3>1, AllocatedRows, ZenonT(60) DEF Agreed, Tables
    <3> QED BY <3>1, <3>2, ZenonT(60) DEF Agreed, Programmed, Several
  <2> QED BY <1>4, <2>1, <2>2, <2>3, <2>4, AgreedFrame, ZenonT(60)
<1>6. Complete(db') <=> Complete(db)' BY Zenon DEF Complete
<1> QED BY <1>1, <1>2, <1>3, <1>4, <1>5, <1>6, ZenonT(60) DEF Agreed

\* After a reconcile that succeeded without an error ignored, and while nothing was
\* changed since, every packet goes where the tables say, at every step of the
\* reconciles that follow, and whatever routes to tunnels that are off are left.
THEOREM SettledGoesRight == Spec => []SettledRoutes
<1>1. Init => Passed /\ Agreed
  <2>1. Init => pc = "idle" /\ settled = FALSE /\ fresh = FALSE BY ZenonT(60) DEF Init
  <2> QED BY <2>1, ZenonT(60) DEF Passed, Agreed
<1>2. IInv /\ Passed /\ Agreed /\ [Next]_vars => (Passed /\ Agreed)'
  <2> SUFFICES ASSUME IInv, Passed, Agreed, [Next]_vars PROVE (Passed /\ Agreed)' OBVIOUS
  <2>1. Passed' BY PassedStep, ZenonT(60) DEF IInv
  <2>2. Agreed' BY AgreedStep, ZenonT(60)
  <2> QED BY <2>1, <2>2, ZenonT(60)
<1>3. IInv /\ Agreed => SettledRoutes
  <2> SUFFICES ASSUME IInv, Agreed, settled, NEW p \in Packet, p.src # p.dst, Supported(p),
                      ~(p.family = 4 /\ db.mode[p.src] = "warp" /\ pc \in {"unwarp", "warp"})
               PROVE  Right(db, p)
    BY ZenonT(60) DEF SettledRoutes
  <2>1. Tables /\ Peers /\ Programmed BY Zenon DEF IInv, Agreed
  <2> QED BY <2>1, ProgrammedRoutes, ZenonT(60)
<1> QED BY <1>1, <1>2, <1>3, Invariance, PTL DEF Spec
=============================================================================
