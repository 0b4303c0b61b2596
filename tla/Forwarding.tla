----------------------------- MODULE Forwarding -----------------------------
(***************************************************************************)
(* How packets are forwarded while LinuxKernel.Apply programs the host:    *)
(* the peers and routes of each upstream, the policy rules and the tables  *)
(* they lead to, the WARP device, and the nftables table, one kernel call  *)
(* at a time.                                                              *)
(*                                                                         *)
(* A reconcile holds App.mu; only the settings are saved without it.  The  *)
(* IPv4 mode of a tunnel is the resolved one, every pool is an IPv4 one    *)
(* with an address left, and no two of them overlap: Egress has the rest.  *)
(* A tunnel that is created again has the addresses it had.  A packet has  *)
(* one of a tunnel's addresses as its source and goes to another tunnel or *)
(* to the Internet; replies on established connections, and packets with a *)
(* transport address, are left out.                                        *)
(***************************************************************************)
EXTENDS Integers, FiniteSets

CONSTANTS
    Tunnel,
    Upstream,
    UpstreamOf,     \* the upstream of a tunnel
    ClientAddress,  \* the transport address of a tunnel, 0 for none
    Group,          \* the routing groups
    Preferred,      \* the upstream that the default route of the main table leads to
    ModeInput,      \* the IPv4 modes that may be entered
    PolicyInput,    \* the inter-tunnel policies that may be entered
    PoolInput,      \* the IPv4 pools that may be entered
    Start,          \* the databases that the daemon may find
    MaxChanges      \* bound: edits, failing calls, crashes and reboots

Mode == {"off", "native", "warp"}
Policy == {"isolated", "groups", "any"}
Family == {4, 6}
Database == [ups : SUBSET Upstream, rows : SUBSET Tunnel,
             enabled : SUBSET Tunnel, mode : [Tunnel -> Mode],
             from : [Tunnel -> PoolInput \cup {0}], pool : PoolInput,
             policy : Policy, groups : [Tunnel -> SUBSET Group]]

ASSUME ForwardingAssumption ==
    /\ UpstreamOf \in [Tunnel -> Upstream] /\ ClientAddress \in [Tunnel -> Nat]
    /\ Upstream \subseteq Nat /\ Tunnel \subseteq Nat \ {0}
    /\ IsFiniteSet(Upstream) /\ IsFiniteSet(Tunnel)
    /\ Preferred \in Upstream
    /\ ModeInput \subseteq Mode /\ PolicyInput \subseteq Policy
    /\ PoolInput \subseteq Nat \ {0}
    /\ Start \subseteq Database
    /\ \A v \in Start : \A t \in v.rows : UpstreamOf[t] \in v.ups
    /\ MaxChanges \in Nat

VARIABLES
    db,         \* upstreams, tunnels (from: the pool that its address is of,
                \* 0 if it has none), settings and groups
    \* the kernel
    device,     \* the upstreams whose WireGuard interface exists
    peer,       \* per kind of address: the tunnels that may send from theirs
    route,      \* per family: the tunnels that the main table has a route to
    rule,       \* the policy rules
    tbl,        \* per family: the upstreams whose table has a default route
    warp,       \* "none", "link", or "route": with the default route of its table
    nft,        \* the nftables table
    \* Apply
    pc,
    want,       \* its arguments
    todo,       \* the upstreams that a loop has still to visit
    healthy,
    failed,     \* upstreamErr
    drift,      \* what Inspect found
    changes,    \* edits and faults so far
    \* observation only, read by no action
    outcome,    \* how the last Apply ended: "ok", "upstream", "failed"
    fresh,      \* since the running or last reconcile began nothing was changed,
                \* and no error ignored
    settled     \* nor since one that succeeded

kernel == <<device, peer, route, rule, tbl, warp, nft>>
local  == <<want, todo, healthy, failed>>
vars   == <<db, kernel, pc, local, drift, changes, outcome, fresh, settled>>

First(S) == CHOOSE u \in S : \A v \in S : u <= v

Of(u) == {t \in Tunnel : UpstreamOf[t] = u}

\* Interfaces.
Wg(u)     == <<"wg", u>>
Egress(u) == <<"egress", u>>
Warp      == <<"warp", 0>>

\* tunnelIPv4Enabled, for an enabled tunnel: what it may use.
On(v, f) == {t \in v.rows \cap v.enabled : f = 6 \/ (v.mode[t] # "off" /\ v.from[t] # 0)}

\* The addresses that a peer may send from: its IPv4 address, its prefix, and its
\* address in the transport range of an on-link upstream.
Transport == 128
Kind == Family \cup {Transport}

\* The tunnels whose transport address a later peer of the device has too.
\* Tunnels are numbered in the order of their prefixes, which is that of the peers.
Overtaken(v) ==
    {t \in On(v, 6) : \E s \in On(v, 6) : /\ s > t /\ UpstreamOf[s] = UpstreamOf[t]
                                          /\ ClientAddress[s] = ClientAddress[t]
                                          /\ ClientAddress[t] # 0}

\* tunnelAllowedIPs, as far as the peers have them in the end: WireGuard gives an
\* address to the last peer that asks for it.
AllowedIPs(v, k) ==
    IF k = Transport THEN {t \in On(v, 6) : ClientAddress[t] # 0} \ Overtaken(v)
    ELSE On(v, k)

-----------------------------------------------------------------------------
(***************************************************************************)
(* What is programmed.                                                     *)
(***************************************************************************)

\* Policy rules: a priority, and what is matched.
Local(u)  == <<80, "prefix", u>>
Pool(q)   == <<80, "pool", q>>
Warped(t) == <<90, "address", t>>
Source(u) == <<110, "prefix", u>>
Native(t) == <<110, "address", t>>

WarpRules == {Warped(t) : t \in Tunnel}

\* resolvedV4Mode: the tunnels of the upstreams U that have the mode m.
Resolved(v, U, m) == {t \in v.rows : UpstreamOf[t] \in U /\ v.mode[t] = m}

\* Mistake: nothing keeps the delegated prefixes in the main table.
SourceRules(v, U) ==
    {Pool(v.pool)} \cup {Source(u) : u \in U} \cup {Native(t) : t \in Resolved(v, U, "native")}

\* desiredPolicyRules
DesiredPolicyRules(v, U) ==
    {Local(u) : u \in U} \cup {Pool(v.pool)} \cup {Source(u) : u \in U}
    \cup {Native(t) : t \in Resolved(v, U, "native")}

NoTable == [chain |-> FALSE, pairs |-> {}, sets |-> [f \in Family |-> {}],
            nat |-> {}]

\* routingGroupRules: the sets whose members may reach each other.
RoutingGroupSets(v, U, f) ==
    {S \in {{t \in On(v, f) : UpstreamOf[t] \in U /\ g \in v.groups[t]} : g \in Group} :
       Cardinality(S) >= 2}

\* Mistake: an upstream's tunnels may leave by any upstream.
NFTScriptMixed(v, U) ==
    IF U = {} THEN NoTable
    ELSE [chain |-> TRUE,
          pairs |-> {<<Wg(u), Egress(w)>> : u \in U, w \in U}
                    \cup {<<Wg(UpstreamOf[t]), Warp>> : t \in Resolved(v, U, "warp")},
          sets  |-> [f \in Family |-> {}],
          nat   |-> {<<t, Egress(UpstreamOf[t])>> : t \in Resolved(v, U, "native")}]

\* buildNFTScript and interTunnelRules.
NFTScript(v, U) ==
    IF U = {} THEN NoTable
    ELSE [chain |-> TRUE,
          pairs |-> {<<Wg(u), Egress(u)>> : u \in U}
                    \cup (IF v.policy = "any" THEN {<<Wg(u), Wg(w)>> : u \in U, w \in U}
                          ELSE {})
                    \cup {<<Wg(UpstreamOf[t]), Warp>> : t \in Resolved(v, U, "warp")},
          sets  |-> [f \in Family |-> IF v.policy = "groups"
                                      THEN RoutingGroupSets(v, U, f) ELSE {}],
          nat   |-> {<<t, Egress(UpstreamOf[t])>> : t \in Resolved(v, U, "native")}
                    \cup {<<t, Warp>> : t \in Resolved(v, U, "warp")}]

\* Inspect: the peers, the allowed addresses and routes of enabled tunnels, and
\* WARP.  It looks at neither the policy rules nor the nftables table.
Inspection(v) ==
    LET warped == Resolved(v, v.ups, "warp")
    IN  {<<"device", u>> : u \in v.ups \ device}
        \cup {<<"peer", t>> : t \in {s \in Tunnel : /\ UpstreamOf[s] \in v.ups \cap device
                                                    /\ (s \in peer[6]) # (s \in On(v, 6))}}
        \cup {<<"allowed", t>> : t \in {s \in On(v, 6) \cap peer[6] :
                                          \/ (s \in peer[4]) # (s \in On(v, 4))
                                          \/ ClientAddress[s] # 0 /\ s \notin peer[Transport]}}
        \cup {<<"route6", t>> : t \in On(v, 6) \ route[6]}
        \cup {<<"route4", t>> : t \in On(v, 4) \ route[4]}
        \cup {<<"warp rule", t>> : t \in {s \in warped : Warped(s) \notin rule}}
        \cup {<<"warp", u>> : u \in IF warped # {} /\ warp # "route" THEN {0} ELSE {}}

-----------------------------------------------------------------------------
(***************************************************************************)
(* What the host does with a packet (external: the Linux kernel).          *)
(***************************************************************************)
Internet == 0

Packet == [src : Tunnel, family : Family, dst : Tunnel \cup {Internet}]

\* The main table: the routes to the tunnels, and the host's default route.
MainTable(p) ==
    IF p.dst \in route[p.family] THEN Wg(UpstreamOf[p.dst]) ELSE Egress(Preferred)

\* Whether a rule of priority 80 keeps the packet in the main table.
StaysInside(p) ==
    /\ p.dst # Internet
    /\ IF p.family = 6 THEN Local(UpstreamOf[p.dst]) \in rule
       ELSE Pool(db.from[p.dst]) \in rule

\* The routing decision: the interface that the packet leaves by.
Lookup(p) ==
    LET u == UpstreamOf[p.src]
        own == IF p.family = 6 THEN Source(u) ELSE Native(p.src)
    IN  IF StaysInside(p) THEN MainTable(p)
        ELSE IF p.family = 4 /\ Warped(p.src) \in rule /\ warp = "route" THEN Warp
        ELSE IF own \in rule /\ u \in tbl[p.family] THEN Egress(u)
        ELSE MainTable(p)

\* The forward chain; without one, everything is forwarded.
Accepts(p, out) ==
    \/ ~nft.chain
    \/ <<Wg(UpstreamOf[p.src]), out>> \in nft.pairs
    \/ out[1] = "wg" /\ \E S \in nft.sets[p.family] : {p.src, p.dst} \subseteq S

\* Where the packet goes.  WireGuard takes it from a peer that may send it, and
\* hands it to one that may receive it.
Fate(p) ==
    LET out == Lookup(p)
    IN  IF p.src \in peer[p.family] /\ Accepts(p, out)
        THEN IF out[1] = "wg"
             THEN IF p.dst \in peer[p.family] THEN <<"tunnel", p.dst>> ELSE <<"dropped", 0>>
             ELSE out
        ELSE <<"dropped", 0>>

\* The policy, for two tunnels.
Permitted(v, s, d) ==
    \/ v.policy = "any"
    \/ v.policy = "groups" /\ v.groups[s] \cap v.groups[d] # {}

\* With several upstreams, the rules keep one IPv4 pool inside, and the address of
\* a tunnel may be of an earlier one.
Covered(v, p) == p.family = 6 \/ Cardinality(v.ups) < 2 \/ v.from[p.dst] = v.pool

\* Where the tables say that it goes.  A packet to a tunnel that is disabled, or
\* not covered, may leave by its sender's upstream or WARP.
Right(v, p) ==
    IF p.src \notin On(v, p.family) THEN Fate(p) = <<"dropped", 0>>
    ELSE IF p.dst = Internet
    THEN LET out == IF p.family = 4 /\ v.mode[p.src] = "warp" THEN Warp
                    ELSE Egress(UpstreamOf[p.src])
         IN  Fate(p) = out /\ (p.family = 4 => <<p.src, out>> \in nft.nat)
    ELSE IF p.dst \in On(v, p.family) /\ Covered(v, p)
    THEN Fate(p) = IF Permitted(v, p.src, p.dst) THEN <<"tunnel", p.dst>>
                   ELSE <<"dropped", 0>>
    ELSE Fate(p) \in {<<"dropped", 0>>, Egress(UpstreamOf[p.src]), Warp}

-----------------------------------------------------------------------------
Init ==
    /\ db \in Start
    /\ device = {} /\ rule = {}
    /\ peer = [k \in Kind |-> {}]
    /\ route = [f \in Family |-> {}] /\ tbl = [f \in Family |-> {}]
    /\ warp = "none" /\ nft = NoTable
    /\ pc = "idle"
    /\ want = db /\ todo = {} /\ healthy = {} /\ failed = FALSE
    /\ drift = {} /\ changes = 0
    /\ outcome = "failed" /\ fresh = FALSE /\ settled = FALSE

Count == changes < MaxChanges /\ changes' = changes + 1

Changed == fresh' = FALSE /\ settled' = FALSE

-----------------------------------------------------------------------------
(***************************************************************************)
(* The requests.  Those that take App.mu wait for a running reconcile; the *)
(* reconcile that follows is Reconcile.                                    *)
(***************************************************************************)
Edit(v) ==
    /\ Count
    /\ db' = v
    /\ Changed
    /\ UNCHANGED <<pc, local, drift, outcome>>

\* ensureIPv4AllocationsTx: a tunnel that needs an address and has none gets one of
\* the pool.  The others keep theirs.
Allocated(v) ==
    [v EXCEPT !.from = [t \in Tunnel |->
        IF t \in v.rows /\ v.mode[t] # "off" /\ @[t] = 0 THEN v.pool ELSE @[t]]]

\* SaveSettings, without App.mu.  It allocates if the mode of the settings, which
\* the resolved ones do not show, is on.
SaveSettings(y, q) ==
    /\ \E v \in {[db EXCEPT !.policy = y, !.pool = q]} : Edit(v) \/ Edit(Allocated(v))
    /\ UNCHANGED kernel

SetEnabled(t) ==
    /\ pc = "idle" /\ t \in db.rows
    /\ Edit([db EXCEPT !.enabled = IF t \in @ THEN @ \ {t} ELSE @ \cup {t}])
    /\ UNCHANGED kernel

SetTunnelV4Mode(t, m) ==
    /\ pc = "idle" /\ t \in db.rows
    /\ Edit([db EXCEPT !.mode[t] = m])
    /\ UNCHANGED kernel

SetTunnelRoutingGroups(t, G) ==
    /\ pc = "idle" /\ t \in db.rows
    /\ Edit([db EXCEPT !.groups[t] = G])
    /\ UNCHANGED kernel

\* The memberships go with the group.
DeleteRoutingGroup(g) ==
    /\ pc = "idle"
    /\ Edit([db EXCEPT !.groups = [t \in Tunnel |-> @[t] \ {g}]])
    /\ UNCHANGED kernel

CreateTunnel(t, m, G) ==
    /\ pc = "idle" /\ t \notin db.rows /\ UpstreamOf[t] \in db.ups
    /\ Edit([db EXCEPT !.rows = @ \cup {t}, !.enabled = @ \cup {t},
                       !.mode[t] = m, !.groups[t] = G,
                       !.from[t] = IF m = "off" THEN 0 ELSE db.pool])
    /\ UNCHANGED kernel

Without(F, T) == [f \in DOMAIN F |-> F[f] \ T]

\* Remove deletes the routes of a tunnel.  For the families K that fails, which is
\* ignored.
RemoveRoutes(t) ==
    \E K \in SUBSET Family :
       route' = [f \in Family |-> IF f \in K THEN route[f] ELSE route[f] \ {t}]

\* DeleteTunnel: Remove takes the routes and the peer, and no reconcile follows.
DeleteTunnel(t) ==
    /\ pc = "idle" /\ t \in db.rows
    /\ Edit([db EXCEPT !.rows = @ \ {t}, !.enabled = @ \ {t},
                       !.mode[t] = "off", !.groups[t] = {}, !.from[t] = 0])
    /\ peer' = Without(peer, {t}) /\ RemoveRoutes(t)
    /\ UNCHANGED <<device, rule, tbl, warp, nft>>

\* Remove fails at the peer: the routes are gone, the row stays.
DeleteTunnelFails(t) ==
    /\ pc = "idle" /\ t \in db.rows
    /\ Edit(db)
    /\ RemoveRoutes(t)
    /\ UNCHANGED <<device, peer, rule, tbl, warp, nft>>

CreateUpstream(u) ==
    /\ pc = "idle" /\ u \notin db.ups
    /\ Edit([db EXCEPT !.ups = @ \cup {u}])
    /\ UNCHANGED kernel

\* RemoveUpstream flushes the table and deletes the device, and with it its peers
\* and routes.
RemoveUpstream(u) ==
    /\ tbl' = Without(tbl, {u}) /\ device' = device \ {u}
    /\ peer' = Without(peer, Of(u)) /\ route' = Without(route, Of(u))

\* Mistake: an upstream is deleted under its tunnels.
DeleteUpstreamInUse(u) ==
    /\ pc = "idle" /\ u \in db.ups
    /\ Edit([db EXCEPT !.ups = @ \ {u}])
    /\ RemoveUpstream(u)
    /\ UNCHANGED <<rule, warp, nft>>

\* DeleteUpstream: RemoveUpstream, and then the row.
DeleteUpstream(u) ==
    /\ pc = "idle" /\ u \in db.ups /\ db.rows \cap Of(u) = {}
    /\ Edit([db EXCEPT !.ups = @ \ {u}])
    /\ RemoveUpstream(u)
    /\ UNCHANGED <<rule, warp, nft>>

\* It fails: at the table, of which the routes of the families F are gone, at the
\* device, or at the row.
DeleteUpstreamFails(u) ==
    /\ pc = "idle" /\ u \in db.ups /\ db.rows \cap Of(u) = {}
    /\ Edit(db)
    /\ \/ /\ \E F \in {{}, {4}, {4, 6}} :
               tbl' = [f \in Family |-> IF f \in F THEN tbl[f] \ {u} ELSE tbl[f]]
          /\ UNCHANGED <<device, peer, route>>
       \/ RemoveUpstream(u)
    /\ UNCHANGED <<rule, warp, nft>>

Request ==
    \/ \E y \in PolicyInput, q \in PoolInput : SaveSettings(y, q)
    \/ \E t \in Tunnel : SetEnabled(t) \/ DeleteTunnel(t) \/ DeleteTunnelFails(t)
    \/ \E t \in Tunnel, m \in ModeInput : SetTunnelV4Mode(t, m)
    \/ \E t \in Tunnel, G \in SUBSET Group :
          \/ SetTunnelRoutingGroups(t, G)
          \/ \E m \in ModeInput : CreateTunnel(t, m, G)
    \/ \E g \in Group : DeleteRoutingGroup(g)
    \/ \E u \in Upstream : CreateUpstream(u) \/ DeleteUpstream(u) \/ DeleteUpstreamFails(u)

-----------------------------------------------------------------------------
(***************************************************************************)
(* Apply.                                                                  *)
(***************************************************************************)
Goto(l) == pc' = l

\* A step of Apply leaves the tables alone, and has nothing to observe.
Step == UNCHANGED <<db, drift, changes, outcome, fresh, settled>>

\* A call fails, once in a while.
Fault ==
    /\ Count
    /\ settled' = FALSE
    /\ UNCHANGED <<db, drift, fresh>>

\* A call fails, and the error is ignored.
Overlook ==
    /\ Count
    /\ Changed
    /\ UNCHANGED <<db, drift>>

\* reconcileLocked, for a request or for the ticker: it allocates the IPv4 addresses
\* that are missing, and reads the tables.
Reconcile ==
    /\ pc = "idle"
    /\ Goto("device")
    /\ db' = Allocated(db)
    /\ want' = Allocated(db) /\ todo' = db.ups /\ healthy' = {} /\ failed' = FALSE
    /\ fresh' = TRUE
    /\ UNCHANGED <<kernel, drift, changes, outcome, settled>>

\* applyUpstream for the next upstream, as far as ConfigureDevice: the peers are
\* those of the enabled tunnels, with the addresses that they may use.
ConfigureDevice ==
    LET u == First(todo)
    IN  /\ pc = "device" /\ todo # {}
        /\ device' = device \cup {u}
        /\ peer' = [k \in Kind |-> (peer[k] \ Of(u)) \cup (AllowedIPs(want, k) \cap Of(u))]
        /\ Goto("routes")
        /\ Step
        /\ UNCHANGED <<route, rule, tbl, warp, nft, local>>

\* It fails before that, with or without the device.
ConfigureDeviceFails ==
    LET u == First(todo)
    IN  /\ pc = "device" /\ todo # {}
        /\ Fault
        /\ device' \in {device, device \cup {u}}
        /\ todo' = todo \ {u} /\ failed' = TRUE
        /\ UNCHANGED <<peer, route, rule, tbl, warp, nft, pc, want, healthy, outcome>>

\* Mistake: the IPv4 routes are left as they are.
RoutedWithoutIPv4(T) ==
    [route EXCEPT ![6] = (@ \ T) \cup (On(want, 6) \cap T)]

\* The routes of the tunnels T: set for those that are on, else deleted.
Routed(T) == [f \in Family |-> (route[f] \ T) \cup (On(want, f) \cap T)]

\* The rest of applyUpstream: the routes of the upstream's tunnels.
ProgramRoutes ==
    LET u == First(todo)
    IN  /\ pc = "routes"
        /\ route' = Routed(want.rows \cap Of(u))
        /\ todo' = todo \ {u} /\ healthy' = healthy \cup {u}
        /\ Goto("device")
        /\ Step
        /\ UNCHANGED <<device, peer, rule, tbl, warp, nft, want, failed>>

\* Routes of tunnels that are off cannot be deleted, which is ignored: for the
\* tunnels K.
ProgramRoutesKeeps ==
    LET u == First(todo)
    IN  /\ pc = "routes"
        /\ Overlook
        /\ \E K \in SUBSET (want.rows \cap Of(u)) :
              route' = [f \in Family |-> Routed(want.rows \cap Of(u))[f] \cup (route[f] \cap K)]
        /\ todo' = todo \ {u} /\ healthy' = healthy \cup {u}
        /\ Goto("device")
        /\ UNCHANGED <<device, peer, rule, tbl, warp, nft, want, failed, outcome>>

\* It fails after the tunnels T: at the pinned neighbours, or at a route.
ProgramRoutesFails ==
    LET u == First(todo)
    IN  /\ pc = "routes"
        /\ Fault
        /\ \E T \in SUBSET (want.rows \cap Of(u)) : route' = Routed(T)
        /\ todo' = todo \ {u} /\ failed' = TRUE
        /\ Goto("device")
        /\ UNCHANGED <<device, peer, rule, tbl, warp, nft, want, healthy, outcome>>

\* The tunnels that use WARP, of the upstreams that are healthy.
Warping == Resolved(want, healthy, "warp")

\* ensureWarp sets up the device; disableWarp has nothing to do before the rules.
StartWarp ==
    /\ pc = "device" /\ todo = {}
    /\ warp' = IF Warping # {} /\ warp = "none" THEN "link" ELSE warp
    /\ Goto("unwarp")
    /\ Step
    /\ UNCHANGED <<device, peer, route, rule, tbl, nft, local>>

\* Both delete every rule of WARP first.
DeleteWarpRule ==
    /\ pc = "unwarp"
    /\ \E r \in rule \cap WarpRules : rule' = rule \ {r}
    /\ Step
    /\ UNCHANGED <<device, peer, route, tbl, warp, nft, pc, local>>

WarpRulesDeleted ==
    /\ pc = "unwarp" /\ rule \cap WarpRules = {}
    /\ Goto("warp")
    /\ Step
    /\ UNCHANGED <<kernel, local>>

\* Some cannot be deleted, which is ignored.  A rule that is still there cannot be
\* added again: then ensureWarp fails, after it has added those of the tunnels T.
WarpRulesKept ==
    /\ pc = "unwarp" /\ rule \cap WarpRules # {}
    /\ Overlook
    /\ \/ /\ \A t \in Warping : Warped(t) \notin rule
          /\ Goto("warp")
          /\ UNCHANGED <<rule, outcome>>
       \/ /\ \E t \in Warping : Warped(t) \in rule
          /\ \E T \in SUBSET Warping : rule' = rule \cup {Warped(t) : t \in T}
          /\ Goto("idle")
          /\ outcome' = "failed"
    /\ UNCHANGED <<device, peer, route, tbl, warp, nft, local>>

\* ensureWarp adds them again.
AddWarpRule ==
    /\ pc = "warp"
    /\ \E t \in Warping : Warped(t) \notin rule /\ rule' = rule \cup {Warped(t)}
    /\ Step
    /\ UNCHANGED <<device, peer, route, tbl, warp, nft, pc, local>>

\* The last call: the default route of WARP, or the end of the device.
FinishWarp ==
    /\ pc = "warp"
    /\ \A t \in Warping : Warped(t) \in rule
    /\ warp' = IF Warping # {} THEN "route" ELSE "none"
    /\ todo' = IF Cardinality(healthy) >= 2 THEN healthy ELSE {}
    /\ Goto("tables")
    /\ Step
    /\ UNCHANGED <<device, peer, route, rule, tbl, nft, want, healthy, failed>>

\* Mistake: the table is left as it is.
EnsureNoTable ==
    /\ pc = "tables" /\ todo # {}
    /\ todo' = todo \ {First(todo)}
    /\ Step
    /\ UNCHANGED <<kernel, pc, want, healthy, failed>>

\* ensureUpstreamTable, if there are several upstreams.
EnsureUpstreamTable ==
    /\ pc = "tables" /\ todo # {}
    /\ tbl' = [f \in Family |-> tbl[f] \cup {First(todo)}]
    /\ todo' = todo \ {First(todo)}
    /\ Step
    /\ UNCHANGED <<device, peer, route, rule, warp, nft, pc, want, healthy, failed>>

\* The IPv4 route cannot be set, which is ignored ("A provider without IPv4 [...] is
\* normal").
EnsureUpstreamTable6 ==
    /\ pc = "tables" /\ todo # {}
    /\ Overlook
    /\ tbl' = [tbl EXCEPT ![6] = @ \cup {First(todo)}]
    /\ todo' = todo \ {First(todo)}
    /\ UNCHANGED <<device, peer, route, rule, warp, nft, pc, want, healthy, failed, outcome>>

TablesEnsured ==
    /\ pc = "tables" /\ todo = {}
    /\ Goto("rules")
    /\ Step
    /\ UNCHANGED <<kernel, local>>

\* applyPolicyRouting: no rules unless there are several upstreams.
Desired == IF Cardinality(healthy) < 2 THEN {} ELSE DesiredPolicyRules(want, healthy)

\* reconcilePolicyRules adds what is missing,
AddPolicyRule ==
    /\ pc = "rules"
    /\ \E r \in Desired \ rule : rule' = rule \cup {r}
    /\ Step
    /\ UNCHANGED <<device, peer, route, tbl, warp, nft, pc, local>>

\* then removes what is stale.
DeletePolicyRule ==
    /\ pc = "rules" /\ Desired \subseteq rule
    /\ \E r \in rule \ (Desired \cup WarpRules) : rule' = rule \ {r}
    /\ Step
    /\ UNCHANGED <<device, peer, route, tbl, warp, nft, pc, local>>

\* clearPolicyTables, unless there are several upstreams.
PolicyRulesDone ==
    /\ pc = "rules" /\ rule \ WarpRules = Desired
    /\ tbl' = IF Cardinality(healthy) < 2 THEN Without(tbl, healthy) ELSE tbl
    /\ Goto("nft")
    /\ Step
    /\ UNCHANGED <<device, peer, route, rule, warp, nft, local>>

\* applyNAT: nft replaces the table in one transaction.
ApplyNAT ==
    /\ pc = "nft"
    /\ nft' = NFTScript(want, healthy)
    /\ Goto("ndp")
    /\ Step
    /\ UNCHANGED <<device, peer, route, rule, tbl, warp, local>>

\* applyNDPProxy, the telemetry and Inspect: Apply has succeeded.
Inspect ==
    /\ pc = "ndp" /\ ~failed
    /\ drift' = Inspection(want)
    /\ outcome' = "ok" /\ settled' = fresh
    /\ Goto("idle")
    /\ UNCHANGED <<db, kernel, local, changes, fresh>>

\* It returns the error of an upstream.
ReportUpstream ==
    /\ pc = "ndp" /\ failed
    /\ outcome' = "upstream" /\ settled' = FALSE
    /\ Goto("idle")
    /\ UNCHANGED <<db, kernel, local, drift, changes, fresh>>

\* A shared pass fails, and the rest is not programmed.  clearPolicyTables may have
\* flushed a table for IPv4.
ApplyFails ==
    /\ pc \in {"unwarp", "warp", "tables", "rules", "nft", "ndp"}
    /\ Fault
    /\ outcome' = "failed"
    /\ Goto("idle")
    /\ \/ UNCHANGED tbl
       \/ /\ pc = "rules" /\ rule \ WarpRules = Desired /\ Cardinality(healthy) < 2
          /\ tbl' = [tbl EXCEPT ![4] = @ \ healthy]
    /\ UNCHANGED <<device, peer, route, rule, warp, nft, local>>

-----------------------------------------------------------------------------
\* The daemon is killed and started again; the kernel keeps what it has.
Crash ==
    /\ Count
    /\ Goto("idle")
    /\ outcome' = "failed" /\ drift' = {}
    /\ settled' = (settled /\ pc = "idle")
    /\ UNCHANGED <<db, kernel, local, fresh>>

\* The host is: the kernel has nothing.
Reboot ==
    /\ Count
    /\ device' = {} /\ rule' = {}
    /\ peer' = [k \in Kind |-> {}]
    /\ route' = [f \in Family |-> {}] /\ tbl' = [f \in Family |-> {}]
    /\ warp' = "none" /\ nft' = NoTable
    /\ Goto("idle")
    /\ outcome' = "failed" /\ drift' = {}
    /\ Changed
    /\ UNCHANGED <<db, local>>

Apply ==
    \/ ConfigureDevice \/ ProgramRoutes
    \/ StartWarp \/ DeleteWarpRule \/ WarpRulesDeleted \/ AddWarpRule \/ FinishWarp
    \/ EnsureUpstreamTable \/ TablesEnsured
    \/ AddPolicyRule \/ DeletePolicyRule \/ PolicyRulesDone
    \/ ApplyNAT \/ Inspect \/ ReportUpstream

Next ==
    \/ Request
    \/ Reconcile
    \/ Apply
    \/ ConfigureDeviceFails \/ ProgramRoutesFails \/ ApplyFails
    \/ ProgramRoutesKeeps \/ WarpRulesKept \/ EnsureUpstreamTable6
    \/ Crash \/ Reboot

Spec == Init /\ [][Next]_vars

\* The ticker fires, and the kernel calls of a reconcile return.
Fairness == WF_vars(Reconcile) /\ WF_vars(Apply)

FairSpec == Spec /\ Fairness

-----------------------------------------------------------------------------
TypeOK ==
    /\ db \in Database /\ want \in Database
    /\ \A t \in db.rows : UpstreamOf[t] \in db.ups
    /\ device \subseteq Upstream /\ tbl \in [Family -> SUBSET Upstream]
    /\ peer \in [Kind -> SUBSET Tunnel] /\ route \in [Family -> SUBSET Tunnel]
    /\ peer[4] \cup peer[Transport] \subseteq peer[6]
    /\ \A t \in peer[6] \cup route[6] : UpstreamOf[t] \in device
    /\ rule \subseteq {80, 90, 110} \X {"prefix", "pool", "address"} \X Nat
    /\ warp \in {"none", "link", "route"}
    /\ pc \in {"idle", "device", "routes", "unwarp", "warp", "tables", "rules",
               "nft", "ndp"}
    /\ todo \subseteq want.ups /\ healthy \subseteq want.ups
    /\ failed \in BOOLEAN /\ fresh \in BOOLEAN /\ settled \in BOOLEAN
    /\ outcome \in {"ok", "upstream", "failed"} /\ changes \in 0 .. MaxChanges

\* While there is a forward chain, no packet from a tunnel leaves by another
\* upstream than its own, whatever step of whatever reconcile the kernel is at
\* ("a source address from one provider is never emitted through another").
OwnProvider ==
    nft.chain => \A p \in Packet : Fate(p)[1] = "egress" => Fate(p) = Egress(UpstreamOf[p.src])

\* The deployments that routing is for: the main table leads to an upstream, and
\* a single upstream has no tunnel that uses WARP to reach another.
Supported(p) ==
    \/ Cardinality(db.ups) >= 2
    \/ Preferred \in db.ups
       /\ ~(p.family = 4 /\ db.mode[p.src] = "warp" /\ p.dst # Internet)

\* After a reconcile that succeeded without an error ignored, and while others find
\* nothing to change, every packet goes where the tables say.  The rules of WARP
\* are the exception: a reconcile takes them away and adds them again.
SettledRoutes ==
    settled => \A p \in Packet :
        \/ Right(db, p)
        \/ p.src = p.dst
        \/ ~Supported(p)
        \/ p.family = 4 /\ db.mode[p.src] = "warp" /\ pc \in {"unwarp", "warp"}

\* A reconcile that succeeded, errors ignored or not, shows no drift but of the
\* tunnels whose transport address a later tunnel has too: theirs is moved away as
\* soon as it is set, in every reconcile.
NoFalseDrift ==
    outcome = "ok" /\ pc = "idle" => drift = {<<"allowed", t>> : t \in Overtaken(want)}

\* Packets go where the tables say again and again: what a failing call has left
\* undone, an error ignored included, a later reconcile makes up for.
RoutesConverge ==
    []<>(\A p \in Packet : Right(db, p) \/ p.src = p.dst \/ ~Supported(p))

\* Isolated tunnels do not reach each other ("Isolates tunnels from each other
\* by default") after an Apply in which every shared pass succeeded.
Isolated ==
    db.policy = "isolated" /\ fresh /\ pc = "idle" /\ outcome # "failed" =>
       \A p \in Packet : p.src # p.dst => Fate(p)[1] # "tunnel"

\* An upstream that fails does not stop the others: their tunnels reach the
\* Internet ("One unhealthy provider must not stop the others from being
\* programmed.").
HealthyForward ==
    outcome = "upstream" /\ fresh /\ pc = "idle" =>
       \A p \in Packet : p.dst = Internet /\ UpstreamOf[p.src] \in healthy => Right(db, p)

\* Two upstreams or more, and tunnels that may reach each other do, over IPv4 too.
\* They need not: a tunnel keeps its address when the pool is changed.
PermittedReach ==
    settled /\ pc = "idle" /\ Cardinality(db.ups) >= 2 =>
       \A p \in Packet :
          /\ {p.src, p.dst} \subseteq On(db, p.family) /\ p.src # p.dst
          /\ Permitted(db, p.src, p.dst)
          => Fate(p) = <<"tunnel", p.dst>>

\* "Any tunnel permits all active tunnels to communicate."
AnyTunnel ==
    settled /\ db.policy = "any" /\ pc = "idle" =>
       \A p \in Packet :
          {p.src, p.dst} \subseteq On(db, p.family) /\ p.src # p.dst
             => Fate(p) = <<"tunnel", p.dst>>

=============================================================================
