-------------------------- MODULE QuotaEnforcement --------------------------
(***************************************************************************)
(* The reconcile loop of the daemon and the quota it enforces.             *)
(*                                                                         *)
(* The tunnels table of the SQLite store says what should be in the        *)
(* kernel; reconcileLocked (service.go) brings the WireGuard peers in line *)
(* with it, samples the traffic counters, disables the tunnels that have   *)
(* used up their quota and applies again.  Every operation that writes a   *)
(* row holds App.mu until its own reconcile has returned, so pc = "idle"   *)
(* reads "App.mu is free".  What App.mu does not serialise is modelled as  *)
(* separate steps: traffic, the calendar, web handlers that read a row     *)
(* before they take the lock, and the death of the daemon between any two  *)
(* writes.                                                                 *)
(*                                                                         *)
(* The columns of the table are variables of their own: a set of tunnels   *)
(* for a boolean column, a function for the others.  A tunnel stands for   *)
(* its public key, and belongs to one upstream (one WireGuard device).     *)
(* The columns of a tunnel that has no row hold their defaults.            *)
(***************************************************************************)
EXTENDS Integers, FiniteSets

CONSTANTS
    Tunnel,        \* public keys that may be given a row
    Upstream,      \* upstreams, one WireGuard device each
    UpstreamOf,    \* the upstream that a tunnel is allocated from
    Quota,         \* the quotas an administrator may set, in GiB
    GiB,           \* bytes in a GiB
    MaxMonth,      \* bound: the last calendar month
    MaxCarried,    \* bound: bytes a tunnel carries per accounting period
    MaxFaults,     \* bound: failed calls, crashes and reboots
    MaxRequests    \* bound: toggle requests between their read and App.mu

ASSUME ConstantsAssumption ==
    /\ UpstreamOf \in [Tunnel -> Upstream]
    /\ Quota \subseteq Nat \ {0}
    /\ Quota # {}
    /\ GiB \in Nat \ {0}
    /\ MaxMonth \in Nat
    /\ MaxCarried \in Nat
    /\ MaxFaults \in Nat
    /\ MaxRequests \in Nat

VARIABLES
    \* the tunnels table
    tunnels,         \* the tunnels that have a row
    enabled,         \* column enabled
    quotaDisabled,   \* column quota_disabled
    quota,           \* column quota_gib
    used,            \* column quota_used_bytes
    period,          \* column quota_period
    seen,            \* columns rx_bytes and tx_bytes
    status,          \* column status
    \* the WireGuard devices
    peer,            \* the tunnels that are peers of their upstream's device
    counter,         \* the transfer counters of the peers
    \* the holder of App.mu
    pc,              \* where it is; "idle" when App.mu is free
    now,             \* the month reconcileLocked read from the clock
    todoUp,          \* upstreams the running Apply has still to visit
    todoTun,         \* tunnels left to sample; at "delete", the tunnel deleted
    failed,          \* an upstream of the running Apply has failed
    hit,             \* quotaHit
    sample,          \* the counters Apply returned
    \* the surroundings
    toggles,         \* toggle requests that have read their row
    month,           \* the calendar
    faults,          \* faults so far
    \* observation only, read by no action
    carried,         \* bytes that may be charged to the tunnel's period
    unsampled,       \* bytes carried since the counters were last sampled
    settled,         \* the last reconcile succeeded and nothing changed since
    manualOff        \* tunnels that an administrator disabled, not enabled since

columns == <<tunnels, enabled, quotaDisabled, quota, used, period, seen, status>>
kernel  == <<peer, counter>>
locals  == <<now, todoUp, todoTun, failed, hit, sample>>
ledger  == <<carried, unsampled>>
vars    == <<columns, kernel, pc, locals, toggles, month, faults, ledger,
             settled, manualOff>>

Month   == 0 .. MaxMonth
Status  == {"pending", "applied", "error", "quota-exceeded"}
Counter == [rx : Nat, tx : Nat]
Zero    == [rx |-> 0, tx |-> 0]

\* The tunnels allocated from upstream u.
Of(u) == {t \in Tunnel : UpstreamOf[t] = u}

\* A quota in bytes.
Limit(q) == q * GiB

\* Mistake: a counter that went backwards is charged by the distance.
CounterDeltaAbsolute(previous, current) ==
    IF current >= previous THEN current - previous ELSE previous - current

\* counterDelta: a counter that went backwards was reset, all of it is new.
CounterDelta(previous, current) ==
    IF current >= previous THEN current - previous ELSE current

\* The bytes that a sample adds to a tunnel's usage, in both directions.
Charge(previous, current) ==
    CounterDelta(previous.rx, current.rx) + CounterDelta(previous.tx, current.tx)

-----------------------------------------------------------------------------
Init ==
    /\ tunnels = {} /\ enabled = {} /\ quotaDisabled = {}
    /\ quota = [t \in Tunnel |-> CHOOSE q \in Quota : TRUE]
    /\ used = [t \in Tunnel |-> 0]
    /\ period = [t \in Tunnel |-> 0]
    /\ seen = [t \in Tunnel |-> Zero]
    /\ status = [t \in Tunnel |-> "pending"]
    /\ peer = {}
    /\ counter = [t \in Tunnel |-> Zero]
    /\ pc = "start"              \* main reconciles before it serves requests
    /\ now = 0 /\ todoUp = {} /\ todoTun = {}
    /\ failed = FALSE /\ hit = FALSE
    /\ sample = [t \in Tunnel |-> Zero]
    /\ toggles = {} /\ month = 0 /\ faults = 0
    /\ carried = [t \in Tunnel |-> 0]
    /\ unsampled = [t \in Tunnel |-> 0]
    /\ settled = FALSE
    /\ manualOff = {}

Fault == faults < MaxFaults /\ faults' = faults + 1

\* A function returns: its local variables are gone.
Forget ==
    /\ now' = 0 /\ todoUp' = {} /\ todoTun' = {}
    /\ failed' = FALSE /\ hit' = FALSE
    /\ sample' = [t \in Tunnel |-> Zero]

\* App.mu is released.
Return == pc' = "idle" /\ Forget

-----------------------------------------------------------------------------
(***************************************************************************)
(* reconcileLocked                                                         *)
(***************************************************************************)

\* Mistake: the reset leaves out the rows that are disabled.
ResetEnabledOnly(m) ==
    LET stale == {t \in enabled : period[t] # m}
    IN  /\ used' = [t \in Tunnel |-> IF t \in stale THEN 0 ELSE used[t]]
        /\ period' = [t \in Tunnel |-> IF t \in stale THEN m ELSE period[t]]
        /\ carried' = [t \in Tunnel |-> IF t \in stale THEN unsampled[t]
                                        ELSE carried[t]]
        /\ UNCHANGED <<tunnels, enabled, quotaDisabled, quota, seen, status,
                       unsampled, manualOff>>

\* ResetMonthlyQuotas(m): the rows of another month start over, and those
\* that the quota had disabled are enabled again.
ResetMonthlyQuotas(m) ==
    LET stale == {t \in tunnels : period[t] # m}
    IN  /\ used' = [t \in Tunnel |-> IF t \in stale THEN 0 ELSE used[t]]
        /\ period' = [t \in Tunnel |-> IF t \in stale THEN m ELSE period[t]]
        /\ enabled' = enabled \cup (stale \cap quotaDisabled)
        /\ status' = [t \in Tunnel |-> IF t \in stale \cap quotaDisabled
                                       THEN "pending" ELSE status[t]]
        /\ quotaDisabled' = quotaDisabled \ stale
        /\ carried' = [t \in Tunnel |-> IF t \in stale THEN unsampled[t]
                                        ELSE carried[t]]
        /\ manualOff' = manualOff \ enabled'
        /\ UNCHANGED <<tunnels, quota, seen, unsampled>>

\* Everything up to the first Apply: read the clock, reset the quotas, read
\* the upstreams and the tunnels.
ReconcileStart ==
    /\ pc = "start"
    /\ pc' = "apply"
    /\ now' = month
    /\ ResetMonthlyQuotas(month)
    /\ todoUp' = Upstream /\ todoTun' = {}
    /\ failed' = FALSE /\ hit' = FALSE
    /\ sample' = seen
    /\ UNCHANGED <<kernel, toggles, month, faults, settled>>

\* An early return before Apply: a store call fails, or the IPv4 or WARP
\* preconditions do not hold.  The reset may already have been committed.
ReconcileAborts ==
    /\ pc = "start"
    /\ Fault
    /\ Return
    /\ \/ ResetMonthlyQuotas(month)
       \/ UNCHANGED <<columns, ledger, manualOff>>
    /\ UNCHANGED <<kernel, toggles, month, settled>>

\* Mistake: peers are added, but those of disabled tunnels stay.
ConfigureAddsOnly(u) ==
    LET next == peer \cup (enabled \cap Of(u))
    IN  /\ peer' = next
        /\ counter' = [t \in Tunnel |-> IF t \in peer THEN counter[t] ELSE Zero]

\* ConfigureDevice on upstream u: the enabled tunnels become its peers, every
\* other peer is removed.  A peer that stays keeps its counters.
ConfigureDevice(u) ==
    LET next == (peer \ Of(u)) \cup (enabled \cap Of(u))
    IN  /\ peer' = next
        /\ counter' = [t \in Tunnel |-> IF t \in peer \cap next
                                        THEN counter[t] ELSE Zero]

\* applyUpstream(u) succeeds: the live peers' counters are merged into the
\* slice that Apply returns, the others keep the stored ones.  The slice of
\* the second Apply is discarded.
ApplyUpstream(u) ==
    /\ pc \in {"apply", "apply2"}
    /\ u \in todoUp
    /\ todoUp' = todoUp \ {u}
    /\ ConfigureDevice(u)
    /\ sample' = [t \in Tunnel |->
                     IF pc = "apply" /\ t \in Of(u) \cap enabled
                     THEN counter'[t] ELSE sample[t]]
    /\ UNCHANGED <<columns, pc, now, todoTun, failed, hit, toggles, month,
                   faults, ledger, settled, manualOff>>

\* applyUpstream(u) fails, before or after it has configured the device.
\* Apply goes on with the other upstreams.
ApplyUpstreamFails(u) ==
    /\ pc \in {"apply", "apply2"}
    /\ u \in todoUp
    /\ Fault
    /\ todoUp' = todoUp \ {u}
    /\ failed' = TRUE
    /\ \/ ConfigureDevice(u)
       \/ UNCHANGED kernel
    /\ UNCHANGED <<columns, pc, now, todoTun, hit, sample, toggles, month,
                   ledger, settled, manualOff>>

\* Apply returns an error.  The first one marks every tunnel (a SetStatus
\* that fails is ignored, hence the choice of S); the second one returns.
ApplyReturnsError ==
    /\ \/ /\ pc = "apply"
          /\ \E S \in SUBSET tunnels :
                status' = [t \in Tunnel |-> IF t \in S THEN "error"
                                            ELSE status[t]]
       \/ pc = "apply2" /\ UNCHANGED status
    /\ Return
    /\ UNCHANGED <<tunnels, enabled, quotaDisabled, quota, used, period, seen,
                   kernel, toggles, month, ledger, settled, manualOff>>

\* Mistake: the errors of single upstreams are dropped.
ApplyDoneIgnoresErrors ==
    /\ pc \in {"apply", "apply2"}
    /\ todoUp = {}
    /\ pc' = IF pc = "apply" THEN "telemetry" ELSE "mark"
    /\ todoTun' = IF pc = "apply" THEN tunnels ELSE {}
    /\ UNCHANGED <<columns, kernel, now, todoUp, failed, hit, sample, toggles,
                   month, faults, ledger, settled, manualOff>>

\* The passes that all upstreams share (WARP, policy routing, nftables,
\* Neighbor Discovery) succeed.
ApplyDone ==
    /\ pc \in {"apply", "apply2"}
    /\ todoUp = {}
    /\ UNCHANGED faults
    /\ \/ failed /\ ApplyReturnsError
       \/ /\ ~failed
          /\ pc' = IF pc = "apply" THEN "telemetry" ELSE "mark"
          /\ todoTun' = IF pc = "apply" THEN tunnels ELSE {}
          /\ UNCHANGED <<columns, kernel, now, todoUp, failed, hit, sample,
                         toggles, month, ledger, settled, manualOff>>

\* Apply fails before it visits an upstream, or in one of the shared passes.
SharedPassFails ==
    /\ pc \in {"apply", "apply2"}
    /\ todoUp \in {{}, Upstream}
    /\ Fault
    /\ ApplyReturnsError

\* The part of UpdateTelemetry that records the sample.
RecordSample(t, charged) ==
    LET since == IF t \in peer THEN Charge(sample[t], counter[t]) ELSE 0
    IN  /\ used' = [used EXCEPT ![t] = charged]
        /\ period' = [period EXCEPT ![t] = now]
        /\ seen' = [seen EXCEPT ![t] = sample[t]]
        /\ carried' = IF period[t] # now THEN [carried EXCEPT ![t] = unsampled[t]]
                      ELSE carried
        /\ unsampled' = [unsampled EXCEPT ![t] = since]
        /\ UNCHANGED <<tunnels, quota>>

\* The part of UpdateTelemetry that enforces the quota.
Enforce(t, exceeded) ==
    /\ quotaDisabled' = IF exceeded THEN quotaDisabled \cup {t}
                        ELSE quotaDisabled \ {t}
    /\ enabled' = IF exceeded THEN enabled \ {t} ELSE enabled
    /\ status' = IF exceeded THEN [status EXCEPT ![t] = "quota-exceeded"]
                 ELSE status

\* Mistakes: a quota may be used up to the last byte; the status of a tunnel over
\* its quota is kept.
UpdateTelemetryExclusive(t) ==
    LET fresh    == period[t] # now
        charged  == (IF fresh THEN 0 ELSE used[t]) + Charge(seen[t], sample[t])
        exceeded == charged > Limit(quota[t])
    IN  /\ RecordSample(t, charged)
        /\ Enforce(t, exceeded)
        /\ hit' = (hit \/ (exceeded /\ (fresh \/ t \notin quotaDisabled)))

UpdateTelemetryKeepsStatus(t) ==
    LET fresh    == period[t] # now
        charged  == (IF fresh THEN 0 ELSE used[t]) + Charge(seen[t], sample[t])
        exceeded == charged >= Limit(quota[t])
    IN  /\ RecordSample(t, charged)
        /\ quotaDisabled' = IF exceeded THEN quotaDisabled \cup {t}
                            ELSE quotaDisabled \ {t}
        /\ enabled' = IF exceeded THEN enabled \ {t} ELSE enabled
        /\ UNCHANGED status
        /\ hit' = (hit \/ (exceeded /\ (fresh \/ t \notin quotaDisabled)))

\* UpdateTelemetry(t, now): charge the sample, and disable the tunnel when
\* its usage has reached its quota.
UpdateTelemetry(t) ==
    LET fresh    == period[t] # now
        charged  == (IF fresh THEN 0 ELSE used[t]) + Charge(seen[t], sample[t])
        exceeded == charged >= Limit(quota[t])
    IN  /\ RecordSample(t, charged)
        /\ Enforce(t, exceeded)
        /\ hit' = (hit \/ (exceeded /\ (fresh \/ t \notin quotaDisabled)))

Telemetry(t) ==
    /\ pc = "telemetry"
    /\ t \in todoTun
    /\ todoTun' = todoTun \ {t}
    /\ UpdateTelemetry(t)
    /\ UNCHANGED <<kernel, pc, now, todoUp, failed, sample, toggles, month,
                   faults, settled, manualOff>>

\* Mistake: the second Apply is left to the next tick.
TelemetryDoneOnce ==
    /\ pc = "telemetry"
    /\ todoTun = {}
    /\ pc' = "mark"
    /\ todoUp' = {}
    /\ sample' = [t \in Tunnel |-> Zero]
    /\ UNCHANGED <<columns, kernel, now, todoTun, failed, hit, toggles, month,
                   faults, ledger, settled, manualOff>>

\* All rows are sampled: apply a second time if one of them hit its quota.
TelemetryDone ==
    /\ pc = "telemetry"
    /\ todoTun = {}
    /\ pc' = IF hit THEN "apply2" ELSE "mark"
    /\ todoUp' = IF hit THEN Upstream ELSE {}
    /\ sample' = [t \in Tunnel |-> Zero]
    /\ UNCHANGED <<columns, kernel, now, todoTun, failed, hit, toggles, month,
                   faults, ledger, settled, manualOff>>

\* A telemetry transaction or the reread of the rows fails.
TelemetryFails ==
    /\ pc = "telemetry"
    /\ Fault
    /\ Return
    /\ UNCHANGED <<columns, kernel, toggles, month, ledger, settled, manualOff>>

\* The rows the quota has not disabled are marked applied (a SetStatus that
\* fails is ignored), and reconcileLocked returns.  Inspect only reads.
MarkApplied ==
    /\ pc = "mark"
    /\ Return
    /\ \E S \in SUBSET (tunnels \ quotaDisabled) :
          status' = [t \in Tunnel |-> IF t \in S THEN "applied" ELSE status[t]]
    /\ settled' = TRUE
    /\ UNCHANGED <<tunnels, enabled, quotaDisabled, quota, used, period, seen,
                   kernel, toggles, month, faults, ledger, manualOff>>

-----------------------------------------------------------------------------
(***************************************************************************)
(* The operations that take App.mu.                                        *)
(***************************************************************************)

\* Take App.mu, change rows, go on to reconcileLocked.
Locked == pc = "idle" /\ pc' = "start" /\ settled' = FALSE

\* The 30 second ticker, or a resync by an administrator.
Reconcile ==
    /\ Locked
    /\ UNCHANGED <<columns, kernel, locals, toggles, month, faults, ledger,
                   manualOff>>

\* CreateTunnel, as far as the row is concerned.
CreateTunnel(t, q) ==
    /\ Locked
    /\ t \notin tunnels
    /\ tunnels' = tunnels \cup {t}
    /\ enabled' = enabled \cup {t}
    /\ quota' = [quota EXCEPT ![t] = q]
    /\ period' = [period EXCEPT ![t] = month]
    /\ UNCHANGED <<quotaDisabled, used, seen, status, kernel, locals, toggles,
                   month, faults, ledger, manualOff>>

\* SetTunnelQuota: below the usage of the stored period it disables the
\* tunnel, otherwise it enables one that the quota had disabled.
SetTunnelQuota(t, q) ==
    LET exceeded == used[t] >= Limit(q)
        restored == ~exceeded /\ t \in quotaDisabled
    IN  /\ Locked
        /\ t \in tunnels
        /\ quota' = [quota EXCEPT ![t] = q]
        /\ quotaDisabled' = IF exceeded THEN quotaDisabled \cup {t}
                            ELSE quotaDisabled \ {t}
        /\ enabled' = IF exceeded THEN enabled \ {t}
                      ELSE IF restored THEN enabled \cup {t} ELSE enabled
        /\ status' = IF exceeded THEN [status EXCEPT ![t] = "quota-exceeded"]
                     ELSE IF restored THEN [status EXCEPT ![t] = "pending"]
                     ELSE status
        /\ manualOff' = IF restored THEN manualOff \ {t} ELSE manualOff
        /\ UNCHANGED <<tunnels, used, period, seen, kernel, locals, toggles,
                       month, faults, ledger>>

\* SetTunnelV4Mode and SetTunnelRoutingGroups, as far as this table goes.
EditTunnel(t) ==
    /\ Locked
    /\ t \in tunnels
    /\ status' = [status EXCEPT ![t] = "pending"]
    /\ UNCHANGED <<tunnels, enabled, quotaDisabled, quota, used, period, seen,
                   kernel, locals, toggles, month, faults, ledger, manualOff>>

\* The web handler of a toggle reads the row before App.mu is taken.
ToggleRead(t) ==
    /\ pc # "down"
    /\ t \in tunnels
    /\ Cardinality(toggles) < MaxRequests
    /\ toggles' = toggles \cup {[tunnel |-> t, on |-> t \notin enabled]}
    /\ UNCHANGED <<columns, kernel, pc, locals, month, faults, ledger, settled,
                   manualOff>>

\* Mistake: quota_disabled is left alone.
SetEnabledKeepsFlag(r) ==
    LET t == {r.tunnel} \cap tunnels
    IN  /\ pc = "idle"
        /\ r \in toggles
        /\ toggles' = toggles \ {r}
        /\ enabled' = IF r.on THEN enabled \cup t ELSE enabled \ t
        /\ status' = [x \in Tunnel |-> IF x \in t THEN "pending" ELSE status[x]]
        /\ pc' = "start" /\ settled' = FALSE
        /\ UNCHANGED <<tunnels, quotaDisabled, quota, used, period, seen, kernel,
                       locals, month, faults, ledger, manualOff>>

\* SetEnabled with the opposite of what was read.  The row may be gone; the
\* UPDATE then changes nothing.  A failed audit insert returns with the row
\* changed and nothing applied.
SetEnabled(r) ==
    LET t == {r.tunnel} \cap tunnels
    IN  /\ pc = "idle"
        /\ r \in toggles
        /\ toggles' = toggles \ {r}
        /\ enabled' = IF r.on THEN enabled \cup t ELSE enabled \ t
        /\ quotaDisabled' = quotaDisabled \ t
        /\ status' = [x \in Tunnel |-> IF x \in t THEN "pending" ELSE status[x]]
        /\ manualOff' = IF r.on THEN manualOff \ t ELSE manualOff \cup t
        /\ settled' = FALSE
        /\ \/ pc' = "start" /\ UNCHANGED faults
           \/ pc' = "idle" /\ Fault
        /\ UNCHANGED <<tunnels, quota, used, period, seen, kernel, locals,
                       month, ledger>>

\* DeleteTunnel removes the peer first ...
DeleteTunnel(t) ==
    /\ pc = "idle"
    /\ t \in tunnels
    /\ pc' = "delete"
    /\ todoTun' = {t}
    /\ peer' = peer \ {t}
    /\ counter' = [counter EXCEPT ![t] = Zero]
    /\ settled' = FALSE
    /\ UNCHANGED <<columns, now, todoUp, failed, hit, sample, toggles, month,
                   faults, ledger, manualOff>>

\* Mistake: the row is dropped although the peer could not be removed.
DeleteTunnelGoesOn(t) ==
    /\ pc = "idle"
    /\ t \in tunnels
    /\ Fault
    /\ pc' = "delete"
    /\ todoTun' = {t}
    /\ settled' = FALSE
    /\ UNCHANGED <<columns, kernel, now, todoUp, failed, hit, sample, toggles,
                   month, ledger, manualOff>>

\* ... keeps the row when that fails ...
DeleteTunnelFails(t) ==
    /\ pc = "idle"
    /\ t \in tunnels
    /\ Fault
    /\ \/ status' = [status EXCEPT ![t] = "error"]
       \/ UNCHANGED status
    /\ settled' = FALSE
    /\ UNCHANGED <<tunnels, enabled, quotaDisabled, quota, used, period, seen,
                   kernel, pc, locals, toggles, month, ledger, manualOff>>

\* ... and then drops the row, without a reconcile.
DeleteRow ==
    /\ pc = "delete"
    /\ Return
    /\ tunnels' = tunnels \ todoTun
    /\ enabled' = enabled \ todoTun
    /\ quotaDisabled' = quotaDisabled \ todoTun
    /\ manualOff' = manualOff \ todoTun
    /\ quota' = [t \in Tunnel |-> IF t \in todoTun THEN CHOOSE q \in Quota : TRUE
                                  ELSE quota[t]]
    /\ used' = [t \in Tunnel |-> IF t \in todoTun THEN 0 ELSE used[t]]
    /\ period' = [t \in Tunnel |-> IF t \in todoTun THEN 0 ELSE period[t]]
    /\ seen' = [t \in Tunnel |-> IF t \in todoTun THEN Zero ELSE seen[t]]
    /\ status' = [t \in Tunnel |-> IF t \in todoTun THEN "pending" ELSE status[t]]
    /\ carried' = [t \in Tunnel |-> IF t \in todoTun THEN 0 ELSE carried[t]]
    /\ unsampled' = [t \in Tunnel |-> IF t \in todoTun THEN 0 ELSE unsampled[t]]
    /\ UNCHANGED <<kernel, toggles, month, faults, settled>>

\* The transaction that drops the row fails.
DeleteRowFails ==
    /\ pc = "delete"
    /\ Fault
    /\ Return
    /\ UNCHANGED <<columns, kernel, toggles, month, ledger, settled, manualOff>>

-----------------------------------------------------------------------------
(***************************************************************************)
(* The surroundings.                                                       *)
(***************************************************************************)

\* A peer carries a byte, in the direction d.
Traffic(t, d) ==
    /\ t \in peer
    /\ carried[t] < MaxCarried
    /\ counter' = [counter EXCEPT ![t][d] = @ + 1]
    /\ carried' = [carried EXCEPT ![t] = @ + 1]
    /\ unsampled' = [unsampled EXCEPT ![t] = @ + 1]
    /\ UNCHANGED <<columns, peer, pc, locals, toggles, month, faults, settled,
                   manualOff>>

\* A new UTC month.
NewMonth ==
    /\ month < MaxMonth
    /\ month' = month + 1
    /\ UNCHANGED <<columns, kernel, pc, locals, toggles, faults, ledger,
                   settled, manualOff>>

\* The daemon dies.  Devices and rows outlive it, requests do not.
Crash ==
    /\ pc # "down"
    /\ Fault
    /\ pc' = "down"
    /\ Forget
    /\ toggles' = {}
    /\ settled' = FALSE
    /\ UNCHANGED <<columns, kernel, month, ledger, manualOff>>

\* The host reboots, which takes the devices too.
Reboot ==
    /\ pc = "down"
    /\ Fault
    /\ peer' = {}
    /\ counter' = [t \in Tunnel |-> Zero]
    /\ UNCHANGED <<columns, pc, locals, toggles, month, ledger, settled,
                   manualOff>>

\* The daemon starts: main reconciles first.
Boot ==
    /\ pc = "down"
    /\ pc' = "start"
    /\ UNCHANGED <<columns, kernel, locals, toggles, month, faults, ledger,
                   settled, manualOff>>

-----------------------------------------------------------------------------
\* The steps of the holder of App.mu that only the scheduler can delay.
Progress ==
    \/ ReconcileStart
    \/ \E u \in Upstream : ApplyUpstream(u)
    \/ ApplyDone
    \/ \E t \in Tunnel : Telemetry(t)
    \/ TelemetryDone
    \/ MarkApplied
    \/ DeleteRow
    \/ Boot

Faulty ==
    \/ ReconcileAborts
    \/ \E u \in Upstream : ApplyUpstreamFails(u)
    \/ SharedPassFails
    \/ TelemetryFails
    \/ \E t \in Tunnel : DeleteTunnelFails(t)
    \/ DeleteRowFails
    \/ Crash
    \/ Reboot

Operation ==
    \/ Reconcile
    \/ \E t \in Tunnel, q \in Quota : CreateTunnel(t, q)
    \/ \E t \in Tunnel, q \in Quota : SetTunnelQuota(t, q)
    \/ \E t \in Tunnel : EditTunnel(t)
    \/ \E t \in Tunnel : ToggleRead(t)
    \/ \E r \in toggles : SetEnabled(r)
    \/ \E t \in Tunnel : DeleteTunnel(t)

Surroundings ==
    \/ \E t \in Tunnel, d \in {"rx", "tx"} : Traffic(t, d)
    \/ NewMonth

Next == Progress \/ Faulty \/ Operation \/ Surroundings

Spec == Init /\ [][Next]_vars

-----------------------------------------------------------------------------
(***************************************************************************)
(* Safety.                                                                 *)
(***************************************************************************)

\* The variables have their types; a column that is set is set on a row.
TypeOK ==
    /\ tunnels \subseteq Tunnel
    /\ enabled \subseteq tunnels
    /\ quotaDisabled \subseteq tunnels
    /\ quota \in [Tunnel -> Quota]
    /\ used \in [Tunnel -> Nat]
    /\ period \in [Tunnel -> Month]
    /\ seen \in [Tunnel -> Counter]
    /\ status \in [Tunnel -> Status]
    /\ peer \subseteq Tunnel
    /\ counter \in [Tunnel -> Counter]
    /\ pc \in {"idle", "start", "apply", "telemetry", "apply2", "mark",
               "delete", "down"}
    /\ now \in Month
    /\ todoUp \subseteq Upstream
    /\ todoTun \subseteq tunnels
    /\ failed \in BOOLEAN
    /\ hit \in BOOLEAN
    /\ sample \in [Tunnel -> Counter]
    /\ toggles \subseteq [tunnel : Tunnel, on : BOOLEAN]
    /\ month \in Month
    /\ faults \in Nat
    /\ carried \in [Tunnel -> Nat]
    /\ unsampled \in [Tunnel -> Nat]
    /\ settled \in BOOLEAN
    /\ manualOff \subseteq tunnels

\* A WireGuard peer always has a row: DeleteTunnel removes the peer before it
\* drops the row, so that neither a failure nor a crash in between can leave a
\* peer that no row accounts for.
NoOrphanPeer == peer \subseteq tunnels

\* A tunnel is never charged for more than it carried: whatever resets the
\* kernel's counters (a peer removed and added again, a reboot), whichever
\* samples are lost and whenever the month changes, the usage of the period is
\* at most the bytes carried since the last sample before the period began.
NeverOvercharged == \A t \in tunnels : used[t] <= carried[t]

\* quota_disabled is set only on a tunnel that is disabled and whose usage of
\* the stored period has reached its present quota.  The monthly reset and
\* SetTunnelQuota enable every row that has the flag, so a flag left behind by
\* any order of samples, quota changes, toggles and failures would enable a
\* tunnel that nobody asked for.
QuotaFlagIsEarned ==
    \A t \in quotaDisabled :
        t \notin enabled /\ used[t] >= Limit(quota[t])

\* A tunnel shown as applied is not up while it is disabled, whatever the
\* daemon failed at and wherever it died.
AppliedIsAuthorised ==
    \A t \in peer : status[t] = "applied" => t \in enabled

\* After a reconcile that returned no error, and until the next operation, the
\* peers are exactly the enabled tunnels and none of these has used up its
\* quota: the second Apply is made whenever the first one is out of date.
SettledIsEnforced ==
    settled => /\ peer = enabled
               /\ \A t \in enabled : used[t] < Limit(quota[t])

\* "Manually disabled tunnels remain disabled" when the monthly reset restores
\* those that the quota disabled.  Refuted: a quota lowered below the usage, or
\* a sample after a toggle that raced the enforcement, sets quota_disabled on a
\* tunnel that an administrator has disabled, and the reset then enables it.
ManualDisableSurvivesReset ==
    [][pc = "start" => manualOff \cap (enabled' \ enabled) = {}]_vars

(***************************************************************************)
(* Liveness.  The holder of App.mu is a goroutine that the scheduler runs; *)
(* the ticker asks for App.mu every 30 seconds, and a Go mutex passes to a *)
(* waiter that has been kept out, so Reconcile is taken if it is enabled   *)
(* again and again.  Nothing is assumed of administrators, of traffic or   *)
(* of the calendar; MaxFaults says that faults come to an end.             *)
(***************************************************************************)
Fairness == WF_vars(Progress) /\ SF_vars(Reconcile)

FairSpec == Spec /\ Fairness

\* A peer whose tunnel is disabled (by hand, or by the quota when the second
\* Apply failed) is removed, or its tunnel enabled again.
DisabledIsCut ==
    \A t \in Tunnel :
        (t \in peer /\ t \notin enabled) ~> (t \notin peer \/ t \in enabled)

\* The counters of t show that its quota is used up while it is still a peer.
OverQuota(t) ==
    /\ t \in peer
    /\ used[t] + Charge(seen[t], counter[t]) >= Limit(quota[t])

\* A peer over its quota does not stay one: it is sampled and removed, unless
\* its quota is raised or the month ends first.
OverQuotaIsCut == \A t \in Tunnel : OverQuota(t) ~> ~OverQuota(t)

\* A tunnel that the quota disabled in a month that has passed comes up again,
\* unless an administrator deletes it or had disabled it as well.
QuotaIsReleased ==
    \A t \in Tunnel :
        (t \in quotaDisabled /\ period[t] # month)
            ~> (t \in enabled \/ t \in manualOff \/ t \notin tunnels)

-----------------------------------------------------------------------------
\* What the daemon implements: rows are the record, enabled rows the authorised
\* tunnels, peers the connected ones.
Promise ==
    INSTANCE Provisioning WITH
        Device     <- Upstream,
        DeviceOf   <- UpstreamOf,
        recorded   <- tunnels,
        authorised <- enabled,
        connected  <- peer,
        agreed     <- settled

\* The reconciler, the operations on tunnels and every failure between two of
\* their steps implement Provisioning: a peer appears only where its row is
\* enabled at that moment, a row goes only after its peer, agreement is claimed
\* only when it is there and ends with the next change, and it is reached
\* again and again.
ImplementsPromise == Promise!FairSpec

=============================================================================
