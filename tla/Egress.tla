------------------------------- MODULE Egress -------------------------------
(***************************************************************************)
(* The IPv4 egress of the tunnels: the three levels of the mode, the pool  *)
(* of internal addresses, the WARP account, and the reconcile that hands   *)
(* them to the kernel.                                                     *)
(*                                                                         *)
(* Web requests and the ticker run concurrently.  App.mu serialises        *)
(* reconciles and the edits of tunnels and upstreams, App.warpMu the WARP  *)
(* requests; the settings are saved, and the account is stored, without    *)
(* App.mu.  A request that is rejected changes nothing and is left out.    *)
(* Every tunnel is enabled, and an Apply is a single step that succeeds or *)
(* fails half-way: QuotaEnforcement and Forwarding have the rest.          *)
(***************************************************************************)
EXTENDS Integers, FiniteSets

CONSTANTS
    Tunnel,         \* the ids of tunnels
    Upstream,
    UpstreamOf,     \* the upstream of a tunnel
    Text,           \* what may be entered as the IPv4 pool
    AddressesOf,    \* for a text that is a CIDR: its addresses, less the first
    IPv4Pool,       \* those that are IPv4
    DefaultPool,
    Form,           \* the settings that may be entered
    ModeInput,      \* the modes that may be entered for a tunnel or an upstream
    Handler,        \* the goroutines that serve requests
    Ticker,         \* main before it serves requests, then the ticker
    Free,           \* no goroutine
    MaxChanges      \* bound: edits, registrations, failing calls and crashes

Proc == Handler \cup {Ticker}
Mode == {"off", "native", "warp"}
Pool == DOMAIN AddressesOf
Settings == [mode : Mode, pool : Text]

ASSUME EgressAssumption ==
    /\ Tunnel \subseteq Nat \ {0}
    /\ UpstreamOf \in [Tunnel -> Upstream]
    /\ Pool \subseteq Text /\ IPv4Pool \subseteq Pool /\ DefaultPool \in IPv4Pool
    /\ \A p \in Pool : AddressesOf[p] \subseteq Nat \ {0}
    /\ \A p \in IPv4Pool, q \in Pool \ IPv4Pool : AddressesOf[p] \cap AddressesOf[q] = {}
    /\ Form \subseteq Settings
    /\ ModeInput \subseteq Mode \cup {"inherit"}
    /\ Ticker \notin Handler /\ Free \notin Proc
    /\ MaxChanges \in Nat

VARIABLES
    \* the database
    settings,   \* the mode and the text of the pool
    upMode,     \* the mode of an upstream
    tunnels,    \* the rows of tunnels
    tunMode,    \* the mode of a tunnel
    address,    \* its internal address, 0 for NULL
    account,    \* the number of the WARP account, 0 if there is none
    tested,     \* the account that the trace of the stored test went through, 0 for none
    \* the kernel, as the last Apply left it
    kernel,
    \* the daemon
    health,     \* App.health: whether it shows an error
    holder,     \* who holds App.mu and App.warpMu
    pc,         \* what a goroutine does next
    row,        \* CreateTunnel: the row to insert
    cfg,        \* reconcileLocked: the settings it has read
    ts,         \* and the addresses
    warp,       \* and the account
    serving,    \* main serves requests
    changes,    \* edits, registrations and faults so far
    \* observation only, read by no action
    outcome,    \* what the last reconcile returned
    fresh,      \* nothing was changed since the running reconcile began
    settled,    \* nor since the last one, which succeeded, began
    began,      \* the running test began with the kernel settled
    sure        \* so did the stored one

table  == <<settings, upMode, tunnels, tunMode, address, account, tested>>
locals == <<row, cfg, ts, warp>>
seen   == <<outcome, began, sure>>
vars   == <<table, kernel, health, holder, pc, locals, serving, changes, seen, fresh, settled>>

Lock == {"mu", "warpMu"}
Default == [mode |-> "off", pool |-> DefaultPool]
NoAddress == [t \in Tunnel |-> 0]
NoRow == [id |-> 0, mode |-> "inherit", address |-> 0]

-----------------------------------------------------------------------------
(***************************************************************************)
(* The modes, and the addresses.                                           *)
(***************************************************************************)

\* upstreamV4Mode: an upstream overrides the settings.
UpstreamV4Mode(v, u) == IF upMode[u] # "inherit" THEN upMode[u] ELSE v.mode

\* tunnelV4Mode of a tunnel with mode m of its own.
V4Mode(v, t, m) == IF m # "inherit" THEN m ELSE UpstreamV4Mode(v, UpstreamOf[t])

TunnelV4Mode(v, t) == V4Mode(v, t, tunMode[t])

Needs(v, m) == \E t \in tunnels : TunnelV4Mode(v, t) = m

NeedsIPv4(v) == Needs(v, "native") \/ Needs(v, "warp")

\* warpConfigured
WarpConfigured(v) ==
    \/ v.mode = "warp"
    \/ \E u \in Upstream : UpstreamV4Mode(v, u) = "warp"
    \/ Needs(v, "warp")

Used == {address[t] : t \in tunnels} \ {0}

\* The addresses that nextFreeIPv4 tries.
Tried(pool) == AddressesOf[pool]

\* nextFreeIPv4 with the addresses S in use.
IsNextFree(a, pool, S) ==
    /\ a \in Tried(pool) \ S
    /\ \A b \in Tried(pool) \ S : a <= b

\* Mistake: the mode of the tunnel itself is left out.
NeedyInherited(v) ==
    {t \in tunnels : V4Mode(v, t, "inherit") # "off" /\ address[t] = 0}

\* The tunnels that need an address and have none.
Needy(v) == {t \in tunnels : TunnelV4Mode(v, t) # "off" /\ address[t] = 0}

\* Mistake: the addresses outside the pool are given up.
AllocationsMoved(v) ==
    LET kept  == Used \cap AddressesOf[v.pool]
        moved == {t \in tunnels : /\ TunnelV4Mode(v, t) # "off"
                                  /\ address[t] \notin kept}
    IN  {[t \in Tunnel |-> IF t \in moved THEN f[t] ELSE address[t]] :
         f \in {g \in [moved -> Tried(v.pool)] :
                  \A t \in moved :
                     IsNextFree(g[t], v.pool,
                                kept \cup {g[s] : s \in {x \in moved : x < t}})}}

\* ensureIPv4AllocationsTx: in the order of their ids, each of them takes the
\* next free address.  None if the pool is exhausted.
Allocations(v) ==
    {[t \in Tunnel |-> IF t \in Needy(v) THEN f[t] ELSE address[t]] :
     f \in {g \in [Needy(v) -> Tried(v.pool)] :
              \A t \in Needy(v) :
                 IsNextFree(g[t], v.pool,
                            Used \cup {g[s] : s \in {x \in Needy(v) : x < t}})}}

\* What a successful Apply programs.
Programmed(v, a, w) ==
    LET on(t) == t \in tunnels /\ TunnelV4Mode(v, t) # "off" /\ a[t] # 0
    IN  [allowed |-> [t \in Tunnel |-> IF on(t) THEN a[t] ELSE 0],
         egress  |-> [t \in Tunnel |-> IF on(t) THEN TunnelV4Mode(v, t) ELSE "off"],
         warp    |-> IF Needs(v, "warp") THEN w ELSE 0]

-----------------------------------------------------------------------------
Init ==
    /\ settings = Default
    /\ upMode = [u \in Upstream |-> "inherit"]
    /\ tunnels = {}
    /\ tunMode = [t \in Tunnel |-> "inherit"]
    /\ address = NoAddress
    /\ account = 0 /\ tested = 0
    /\ kernel = [allowed |-> NoAddress,
                 egress |-> [t \in Tunnel |-> "off"], warp |-> 0]
    /\ health = "ok"
    /\ holder = [l \in Lock |-> Free]
    /\ pc = [p \in Proc |-> IF p = Ticker THEN "lock" ELSE "idle"]
    /\ row = NoRow /\ cfg = settings /\ ts = address /\ warp = 0
    /\ serving = FALSE /\ changes = 0
    /\ outcome = "ok" /\ fresh = FALSE /\ settled = FALSE
    /\ began = FALSE /\ sure = FALSE

Count == changes < MaxChanges /\ changes' = changes + 1

\* A request arrives.
Begin(p) == p \in Handler /\ pc[p] = "idle" /\ serving /\ UNCHANGED serving

Goto(p, l) == pc' = [pc EXCEPT ![p] = l]

Take(p, l) == holder[l] = Free /\ holder' = [holder EXCEPT ![l] = p]

\* The function returns: the locks it holds are released, its variables gone.
Return(p) ==
    LET own == holder["mu"] = p
    IN  /\ Goto(p, "idle")
        /\ holder' = [l \in Lock |-> IF holder[l] = p THEN Free ELSE holder[l]]
        /\ row' = IF own THEN NoRow ELSE row
        /\ cfg' = IF own THEN Default ELSE cfg
        /\ ts' = IF own THEN NoAddress ELSE ts
        /\ warp' = IF own THEN 0 ELSE warp

\* What the kernel should hold is no longer what it holds.
Changed == fresh' = FALSE /\ settled' = FALSE

-----------------------------------------------------------------------------
(***************************************************************************)
(* The requests.                                                           *)
(***************************************************************************)

\* App.SaveSettings, without App.mu: one transaction allocates the addresses
\* that the new settings need and stores them.  A reconcile follows.
SaveSettings(p, v) ==
    /\ Begin(p) /\ Count
    /\ v.mode # "off" => v.pool \in IPv4Pool
    /\ v.mode = "warp" => account # 0
    /\ settings' = v
    /\ IF v.mode # "off" THEN address' \in Allocations(v) ELSE UNCHANGED address
    /\ Goto(p, "lock")
    /\ Changed
    /\ UNCHANGED <<upMode, tunnels, tunMode, account, tested, kernel, health,
                   holder, locals, seen>>

ResetGeneralSettings(p) ==
    /\ Begin(p) /\ Count
    /\ Take(p, "mu")
    /\ settings' = Default
    /\ Goto(p, "start")
    /\ Changed
    /\ UNCHANGED <<upMode, tunnels, tunMode, address, account, tested, kernel,
                   health, locals, seen>>

SetTunnelV4Mode(p, t, m) ==
    /\ Begin(p) /\ Count
    /\ Take(p, "mu")
    /\ t \in tunnels
    /\ V4Mode(settings, t, m) = "warp" => account # 0
    /\ tunMode' = [tunMode EXCEPT ![t] = m]
    /\ Goto(p, "start")
    /\ Changed
    /\ UNCHANGED <<settings, upMode, tunnels, address, account, tested, kernel,
                   health, locals, seen>>

\* UpdateUpstream, as far as the mode is concerned.  It asks for no account.
UpdateUpstream(p, u, m) ==
    /\ Begin(p) /\ Count
    /\ Take(p, "mu")
    /\ upMode' = [upMode EXCEPT ![u] = m]
    /\ Goto(p, "start")
    /\ Changed
    /\ UNCHANGED <<settings, tunnels, tunMode, address, account, tested,
                   kernel, health, locals, seen>>

\* CreateTunnel as far as NextV4.  It asks that the pool be a CIDR, and not that
\* it be IPv4, as the other operations do.
CreateTunnel(p, t, m) ==
    /\ Begin(p) /\ Count
    /\ Take(p, "mu")
    /\ t \notin tunnels /\ \A s \in tunnels : s < t
    /\ V4Mode(settings, t, m) = "warp" => account # 0
    /\ \/ /\ V4Mode(settings, t, m) = "off"
          /\ row' = [id |-> t, mode |-> m, address |-> 0]
       \/ /\ V4Mode(settings, t, m) # "off"
          /\ settings.pool \in Pool
          /\ \E a \in Tried(settings.pool) :
                /\ IsNextFree(a, settings.pool, Used)
                /\ row' = [id |-> t, mode |-> m, address |-> a]
    /\ Goto(p, "insert")
    /\ UNCHANGED <<table, kernel, health, cfg, ts, warp, seen,
                   fresh, settled>>

\* Mistake: there is no UNIQUE constraint.
InsertTunnelAnyway(p) ==
    /\ pc[p] = "insert"
    /\ tunnels' = tunnels \cup {row.id}
    /\ tunMode' = [tunMode EXCEPT ![row.id] = row.mode]
    /\ address' = [address EXCEPT ![row.id] = row.address]
    /\ Goto(p, "start")
    /\ row' = NoRow
    /\ Changed
    /\ UNCHANGED <<settings, upMode, account, tested, holder, cfg, ts,
                   warp, kernel, health, serving, changes, seen>>

\* InsertTunnel.  The address is UNIQUE: it may have been given to another
\* tunnel since NextV4, by a request that saves the settings.
InsertTunnel(p) ==
    /\ pc[p] = "insert"
    /\ \/ /\ row.address \notin Used
          /\ tunnels' = tunnels \cup {row.id}
          /\ tunMode' = [tunMode EXCEPT ![row.id] = row.mode]
          /\ address' = [address EXCEPT ![row.id] = row.address]
          /\ Goto(p, "start")
          /\ row' = NoRow
          /\ Changed
          /\ UNCHANGED <<settings, upMode, account, tested, holder, cfg,
                         ts, warp>>
       \/ /\ row.address \in Used
          /\ Return(p)
          /\ UNCHANGED <<table, fresh, settled>>
    /\ UNCHANGED <<kernel, health, serving, changes, seen>>

\* DeleteTunnel: the peer and then the row, and no reconcile.
DeleteTunnel(p, t) ==
    /\ Begin(p) /\ Count
    /\ holder["mu"] = Free
    /\ t \in tunnels
    /\ kernel' = [kernel EXCEPT !.allowed[t] = 0]
    /\ tunnels' = tunnels \ {t}
    /\ tunMode' = [tunMode EXCEPT ![t] = "inherit"]
    /\ address' = [address EXCEPT ![t] = 0]
    /\ Changed
    /\ UNCHANGED <<settings, upMode, account, tested, health, holder, pc,
                   locals, seen>>

\* Mistake: the registration does not take App.warpMu.
RegisterWarpUnlocked(p) ==
    /\ Begin(p) /\ Count
    /\ Goto(p, "register")
    /\ UNCHANGED <<table, kernel, health, holder, locals, seen, fresh,
                   settled>>

\* RegisterWarp, as far as the request to Cloudflare.
RegisterWarp(p) ==
    /\ Begin(p) /\ Count
    /\ Take(p, "warpMu")
    /\ Goto(p, "register")
    /\ UNCHANGED <<table, kernel, health, locals, seen, fresh, settled>>

\* The answer: the account replaces the stored one, and its test is cleared.
SaveWarpAccount(p) ==
    /\ pc[p] = "register"
    /\ account' = account + 1
    /\ tested' = 0 /\ sure' = FALSE
    /\ Goto(p, "registered")
    /\ Changed
    /\ UNCHANGED <<settings, upMode, tunnels, tunMode, address, kernel, health,
                   holder, locals, serving, changes, outcome, began>>

\* The request to Cloudflare fails, or its answer is unusable, or, with the account
\* stored, the settings or the modes cannot be read.
RegisterWarpFails(p) ==
    /\ pc[p] \in {"register", "registered"}
    /\ Count
    /\ Return(p)
    /\ UNCHANGED <<table, kernel, health, serving, seen, fresh,
                   settled>>

\* The rest of RegisterWarp: a reconcile, if anything uses WARP.
RegisterWarpApplies(p) ==
    /\ pc[p] = "registered"
    /\ \/ /\ WarpConfigured(settings)
          /\ Goto(p, "lock")
          /\ UNCHANGED <<holder, locals>>
       \/ /\ ~WarpConfigured(settings)
          /\ Return(p)
    /\ UNCHANGED <<table, kernel, health, serving, changes, seen,
                   fresh, settled>>

\* TestWarp takes App.warpMu.
TestWarp(p) ==
    /\ Begin(p)
    /\ Take(p, "warpMu")
    /\ Goto(p, "mu")
    /\ UNCHANGED <<table, kernel, health, locals, changes, seen, fresh,
                   settled>>

WarpIsReady == WarpConfigured(settings) /\ account # 0 /\ settings.pool \in IPv4Pool

\* Mistake: TestWarp waits for WARP to be in use.
TestWarpWaits(p) ==
    /\ pc[p] = "mu"
    /\ WarpIsReady
    /\ Take(p, "mu")
    /\ Goto(p, "test")
    /\ began' = settled
    /\ UNCHANGED <<table, kernel, health, locals, serving, changes, outcome,
                   sure, fresh, settled>>

\* Then App.mu, and goes on to the network if WARP is in use.  The account is
\* only asked for its existence.
TestWarpLocks(p) ==
    /\ pc[p] = "mu"
    /\ \/ /\ WarpIsReady
          /\ Take(p, "mu")
          /\ Goto(p, "test")
          /\ began' = settled
          /\ UNCHANGED locals
       \/ /\ ~WarpIsReady
          /\ holder["mu"] = Free
          /\ Return(p)
          /\ UNCHANGED began
    /\ UNCHANGED <<table, kernel, health, serving, changes, outcome, sure,
                   fresh, settled>>

\* The trace went through the WARP device, and so through the account that the
\* device was last programmed with.
SaveWarpTest(p) ==
    /\ pc[p] = "test"
    /\ kernel.warp # 0
    /\ tested' = kernel.warp
    /\ sure' = began /\ began' = FALSE
    /\ Return(p)
    /\ UNCHANGED <<settings, upMode, tunnels, tunMode, address, account, kernel,
                   health, serving, changes, outcome, fresh, settled>>

\* It did not, or there was no answer.
TestWarpFails(p) ==
    /\ pc[p] = "test"
    /\ \/ kernel.warp = 0 /\ UNCHANGED changes
       \/ Count
    /\ began' = FALSE
    /\ Return(p)
    /\ UNCHANGED <<table, kernel, health, serving, outcome, sure, fresh,
                   settled>>

-----------------------------------------------------------------------------
(***************************************************************************)
(* reconcileLocked                                                         *)
(***************************************************************************)

\* The ticker fires.
Tick ==
    /\ pc[Ticker] = "idle"
    /\ Goto(Ticker, "lock")
    /\ UNCHANGED <<table, kernel, health, holder, locals, serving, changes, seen, fresh, settled>>

\* Reconcile takes App.mu.
Reconcile(p) ==
    /\ pc[p] = "lock"
    /\ Take(p, "mu")
    /\ Goto(p, "start")
    /\ UNCHANGED <<table, kernel, health, locals, serving, changes,
                   seen, fresh, settled>>

\* The settings are read.
ReadSettings(p) ==
    /\ pc[p] = "start"
    /\ cfg' = settings
    /\ Goto(p, "prepare")
    /\ fresh' = TRUE
    /\ UNCHANGED <<table, kernel, health, holder, row, ts, warp, serving,
                   changes, seen, settled>>

\* What keeps a reconcile with settings v from Apply.
Refused(v) ==
    \/ Needs(v, "warp") /\ account = 0
    \/ NeedsIPv4(v) /\ (v.pool \in IPv4Pool => Allocations(v) = {})

\* reconcileLocked returns err; main serves requests after the first one.
Returns(p, err) ==
    /\ Return(p)
    /\ outcome' = err
    /\ serving' = TRUE
    /\ UNCHANGED <<began, sure>>

\* EnsureIPv4Allocations, in a transaction of its own.
Prepare(p) ==
    /\ pc[p] = "prepare"
    /\ ~Refused(cfg)
    /\ IF NeedsIPv4(cfg) THEN address' \in Allocations(cfg) ELSE UNCHANGED address
    /\ Goto(p, "load")
    /\ UNCHANGED <<settings, upMode, tunnels, tunMode, account, tested, kernel,
                   health, holder, locals, serving, changes, seen,
                   fresh, settled>>

\* The early returns: no account, no pool or no address left, or a store call
\* that fails.
ReconcileAborts(p) ==
    /\ \/ /\ pc[p] = "prepare" /\ Refused(cfg)
          /\ Returns(p, "refused")
          /\ UNCHANGED changes
       \/ /\ pc[p] \in {"start", "prepare", "load"}
          /\ Count
          /\ Returns(p, "failed")
    /\ UNCHANGED <<table, kernel, health, fresh, settled>>

\* Mistake: the addresses are those read before the allocation.
LoadBefore(p) ==
    /\ pc[p] = "load"
    /\ ts' = kernel.allowed
    /\ warp' = account
    /\ Goto(p, "apply")
    /\ UNCHANGED <<table, kernel, health, holder, row, cfg, serving, changes, seen, fresh, settled>>

\* The rows are read again, and the account.
Load(p) ==
    /\ pc[p] = "load"
    /\ ts' = address
    /\ warp' = account
    /\ Goto(p, "apply")
    /\ UNCHANGED <<table, kernel, health, holder, row, cfg, serving, changes, seen, fresh, settled>>

\* Among the addresses a of the tunnels is one that is not IPv4, in use: its rule
\* "ip saddr" in the nftables script, or its policy rule for WARP, is an error.
Rejected(v, a) ==
    \E t \in tunnels : /\ TunnelV4Mode(v, t) # "off"
                       /\ \E p \in Pool \ IPv4Pool : a[t] \in AddressesOf[p]

Apply(p) ==
    /\ pc[p] = "apply"
    /\ ~Rejected(cfg, ts)
    /\ kernel' = Programmed(cfg, ts, warp)
    /\ health' = "ok"
    /\ settled' = fresh
    /\ Returns(p, "ok")
    /\ UNCHANGED <<table, changes, fresh>>

\* Then the peers are configured, and WARP as far as its rules, but not NAT.
ApplyRejected(p) ==
    LET all == Programmed(cfg, ts, warp)
    IN  /\ pc[p] = "apply"
        /\ Rejected(cfg, ts)
        /\ kernel' = [all EXCEPT !.egress = kernel.egress]
        /\ health' = "error"
        /\ settled' = FALSE
        /\ Returns(p, "failed")
        /\ UNCHANGED <<table, changes, fresh>>

\* Apply fails: some of the upstreams S are configured, and of the shared
\* passes none, the one for WARP, or all.
ApplyFails(p) ==
    LET all == Programmed(cfg, ts, warp)
    IN  /\ pc[p] = "apply"
        /\ Count
        /\ \E S \in SUBSET Upstream, w \in {kernel.warp, all.warp},
              e \in {kernel.egress, all.egress} :
              /\ e # kernel.egress => w = all.warp
              /\ kernel' = [allowed |-> [t \in Tunnel |->
                                          IF UpstreamOf[t] \in S THEN all.allowed[t]
                                          ELSE kernel.allowed[t]],
                            egress |-> e, warp |-> w]
        /\ health' = "error"
        /\ settled' = FALSE
        /\ Returns(p, "failed")
        /\ UNCHANGED <<table, fresh>>

-----------------------------------------------------------------------------
\* The daemon is killed and started again.
Crash ==
    /\ Count
    /\ health' = "ok"
    /\ holder' = [l \in Lock |-> Free]
    /\ pc' = [p \in Proc |-> IF p = Ticker THEN "lock" ELSE "idle"]
    /\ row' = NoRow /\ cfg' = Default /\ ts' = NoAddress /\ warp' = 0
    /\ serving' = FALSE
    /\ outcome' = "ok" /\ began' = FALSE
    /\ UNCHANGED <<table, kernel, fresh, settled, sure>>

Request(p) ==
    \/ \E v \in Form : SaveSettings(p, v)
    \/ ResetGeneralSettings(p)
    \/ \E t \in Tunnel, m \in ModeInput : SetTunnelV4Mode(p, t, m)
    \/ \E u \in Upstream, m \in ModeInput : UpdateUpstream(p, u, m)
    \/ \E t \in Tunnel, m \in ModeInput : CreateTunnel(p, t, m)
    \/ \E t \in Tunnel : DeleteTunnel(p, t)
    \/ RegisterWarp(p)
    \/ TestWarp(p)

\* The steps that wait for a lock.
Locks(p) == Reconcile(p) \/ TestWarpLocks(p)

\* The other steps of a goroutine at work.
Works(p) ==
    \/ InsertTunnel(p)
    \/ SaveWarpAccount(p) \/ RegisterWarpApplies(p)
    \/ SaveWarpTest(p) \/ TestWarpFails(p)
    \/ ReadSettings(p) \/ Prepare(p) \/ ReconcileAborts(p)
    \/ Load(p) \/ Apply(p) \/ ApplyRejected(p)

Next ==
    \/ \E p \in Handler : Request(p)
    \/ \E p \in Proc : Locks(p) \/ Works(p) \/ RegisterWarpFails(p) \/ ApplyFails(p)
    \/ Tick
    \/ Crash

Spec == Init /\ [][Next]_vars

\* A goroutine that can run does, the ticker fires, calls to the network and to
\* the kernel return, and a sync.Mutex starves no one that waits for it.
Fairness ==
    /\ \A p \in Proc : WF_vars(Works(p)) /\ SF_vars(Locks(p))
    /\ WF_vars(Tick)

FairSpec == Spec /\ Fairness

-----------------------------------------------------------------------------
TypeOK ==
    /\ settings \in Settings
    /\ upMode \in [Upstream -> Mode \cup {"inherit"}]
    /\ tunnels \subseteq Tunnel
    /\ tunMode \in [Tunnel -> Mode \cup {"inherit"}]
    /\ address \in [Tunnel -> (UNION {AddressesOf[p] : p \in Pool}) \cup {0}]
    /\ account \in Nat /\ tested \in Nat
    /\ kernel \in [allowed : [Tunnel -> Nat], egress : [Tunnel -> Mode], warp : Nat]
    /\ health \in {"ok", "error"} /\ outcome \in {"ok", "failed", "refused"}
    /\ holder \in [Lock -> Proc \cup {Free}]
    /\ pc \in [Proc -> {"idle", "lock", "insert", "register", "registered",
                        "mu", "test", "start", "prepare", "load", "apply"}]
    /\ row \in [id : Tunnel \cup {0}, mode : Mode \cup {"inherit"}, address : Nat]
    /\ cfg \in Settings /\ ts \in [Tunnel -> Nat] /\ warp \in Nat
    /\ serving \in BOOLEAN /\ fresh \in BOOLEAN /\ settled \in BOOLEAN
    /\ began \in BOOLEAN /\ sure \in BOOLEAN
    /\ changes \in 0 .. MaxChanges

\* No two tunnels have the same internal address, neither in the table nor as
\* peers: NextV4 and the insertion of CreateTunnel are two transactions, and
\* App.SaveSettings allocates between them without App.mu.
AddressesUnique ==
    \A s, t \in Tunnel : s # t =>
       /\ address[s] # 0 => address[s] # address[t]
       /\ kernel.allowed[s] # 0 => kernel.allowed[s] # kernel.allowed[t]

\* A tunnel keeps its internal address as long as it exists, whatever the pool
\* and the modes become ("the internal assignments are retained for stable
\* reuse").
AddressIsKept ==
    [][\A t \in tunnels \cap tunnels' :
          address[t] # 0 => address'[t] = address[t]]_vars

\* The kernel has what the tables ask for, an address for each tunnel that needs
\* one included.
Served ==
    /\ kernel = Programmed(settings, address, account)
    /\ \A t \in tunnels : TunnelV4Mode(settings, t) # "off" => kernel.allowed[t] # 0

\* A successful reconcile that nothing has overtaken serves the tables.
SettledIsServed == settled => Served

\* A stored WARP test that began after a successful reconcile which nothing had
\* overtaken is of the stored account: TestWarp sends its trace through whatever
\* account the device has, and a registration and a test do not overlap.  A test
\* made between a registration and the reconcile that applies it, or after that
\* reconcile failed, is of the account before.
TestIsOfAccount == sure => tested = account

\* Whatever the device had, the stored test would be of the stored account.  It
\* need not be.
AnyTestIsOfAccount == tested \in {0, account}

\* The internal addresses are IPv4 ("v4 pool must be an IPv4 CIDR" is the error
\* of CreateTunnel).  They need not be: a tunnel created while the settings hold
\* an IPv6 pool keeps an address of it.
AddressesAreIPv4 ==
    \A t \in Tunnel : address[t] # 0 => \E p \in IPv4Pool : address[t] \in AddressesOf[p]

\* A reconcile that is refused shows on the dashboard ("Health and failed
\* reconciliation are visible on the dashboard").
HealthShowsRefusal == outcome = "refused" => health = "error"

\* Every request is answered: the two locks are never waited for in a circle.
RequestsFinish == \A p \in Handler : pc[p] # "idle" ~> pc[p] = "idle"

\* The kernel comes back to what the tables ask for again and again, unless they
\* ask for what there is not (an account, a pool, an address), or a tunnel that
\* was created under an IPv6 pool still has its address.
KernelConverges == []<>(Refused(settings) \/ Rejected(settings, address) \/ Served)

=============================================================================
