---------------------- MODULE QuotaEnforcement_proofs -----------------------
(***************************************************************************)
(* Proofs about QuotaEnforcement, for any tunnels, upstreams and quotas,   *)
(* any number of faults and any bounds.                                    *)
(***************************************************************************)
EXTENDS QuotaEnforcement, TLAPS

(***************************************************************************)
(* Facts about the counters.  Charge stays closed elsewhere.               *)
(***************************************************************************)

\* What a sample charges is a number of bytes.
LEMMA ChargeType ==
  ASSUME NEW p \in Counter, NEW c \in Counter
  PROVE  Charge(p, c) \in Nat
BY SMTT(30) DEF Charge, CounterDelta, Counter

\* A counter that has just been reset charges nothing, whatever was stored.
LEMMA ChargeZero ==
  ASSUME NEW p \in Counter
  PROVE  Zero \in Counter /\ Charge(p, Zero) = 0
BY SMTT(30) DEF Charge, CounterDelta, Counter, Zero

\* Sampling twice charges once.
LEMMA ChargeSame ==
  ASSUME NEW p \in Counter
  PROVE  Charge(p, p) = 0
BY SMTT(30) DEF Charge, CounterDelta, Counter

\* A byte more on a counter charges at most a byte more.
LEMMA ChargeStep ==
  ASSUME NEW p \in Counter, NEW c \in Counter, NEW d \in {"rx", "tx"}
  PROVE  /\ [c EXCEPT ![d] = @ + 1] \in Counter
         /\ Charge(p, [c EXCEPT ![d] = @ + 1]) <= Charge(p, c) + 1
<1>1. CASE d = "rx"
  BY <1>1, SMTT(30) DEF Charge, CounterDelta, Counter
<1>2. CASE d = "tx"
  BY <1>2, SMTT(30) DEF Charge, CounterDelta, Counter
<1> QED BY <1>1, <1>2, Zenon

\* A quota in bytes is a number.
LEMMA LimitType ==
  ASSUME NEW q \in Quota
  PROVE  Limit(q) \in Nat
BY ConstantsAssumption, SMTT(30) DEF Limit

-----------------------------------------------------------------------------
(***************************************************************************)
(* Type correctness.                                                       *)
(***************************************************************************)

\* The initial state has its types.
LEMMA TypeInit == Init => TypeOK
<1> SUFFICES ASSUME Init PROVE TypeOK OBVIOUS
<1>1. failed \in BOOLEAN /\ hit \in BOOLEAN /\ settled \in BOOLEAN BY Zenon DEF Init
<1>2. quota \in [Tunnel -> Quota]
  <2>1. (CHOOSE q \in Quota : TRUE) \in Quota BY ConstantsAssumption, Zenon
  <2> QED BY <2>1, Zenon DEF Init
<1>3. /\ toggles \subseteq [tunnel : Tunnel, on : BOOLEAN]
      /\ tunnels = {} /\ enabled = {} /\ quotaDisabled = {} /\ manualOff = {}
      /\ peer = {} /\ todoUp = {} /\ todoTun = {}
  BY Zenon DEF Init
<1>4. Zero \in Counter BY Zenon DEF Zero, Counter
<1>5. /\ seen \in [Tunnel -> Counter] /\ counter \in [Tunnel -> Counter]
      /\ sample \in [Tunnel -> Counter]
  BY <1>4, Zenon DEF Init
<1> QED
  BY <1>1, <1>2, <1>3, <1>5, ConstantsAssumption, SMTT(30)
     DEF Init, TypeOK, Month, Status

\* What the monthly reset assigns has its type.
LEMMA TypeReset ==
  ASSUME TypeOK, NEW m \in Month, ResetMonthlyQuotas(m)
  PROVE  /\ tunnels' = tunnels /\ enabled' \subseteq tunnels
         /\ quotaDisabled' \subseteq tunnels
         /\ quota' = quota /\ used' \in [Tunnel -> Nat]
         /\ period' \in [Tunnel -> Month] /\ seen' = seen
         /\ status' \in [Tunnel -> Status]
         /\ carried' \in [Tunnel -> Nat] /\ unsampled' = unsampled
         /\ manualOff' \subseteq tunnels
BY Zenon DEF TypeOK, ResetMonthlyQuotas, Status

\* What the configuration of a device assigns has its type.
LEMMA TypeConfigure ==
  ASSUME TypeOK, NEW u \in Upstream, ConfigureDevice(u)
  PROVE  peer' \subseteq Tunnel /\ counter' \in [Tunnel -> Counter]
BY Zenon DEF TypeOK, ConfigureDevice, Of, Counter, Zero

\* What a return leaves in the local variables has its type.
LEMMA TypeForget ==
  ASSUME Forget
  PROVE  /\ now' \in Month /\ todoUp' = {} /\ todoTun' = {}
         /\ failed' \in BOOLEAN /\ hit' \in BOOLEAN
         /\ sample' \in [Tunnel -> Counter]
<1>1. failed' \in BOOLEAN /\ hit' \in BOOLEAN BY Zenon DEF Forget
<1> QED BY <1>1, ConstantsAssumption, SMTT(30) DEF Forget, Month, Counter, Zero

\* What a sample assigns has its type.
LEMMA TypeTelemetry ==
  ASSUME TypeOK, NEW t \in todoTun, UpdateTelemetry(t)
  PROVE  /\ tunnels' = tunnels /\ enabled' \subseteq tunnels
         /\ quotaDisabled' \subseteq tunnels
         /\ quota' = quota /\ used' \in [Tunnel -> Nat]
         /\ period' \in [Tunnel -> Month] /\ seen' \in [Tunnel -> Counter]
         /\ status' \in [Tunnel -> Status] /\ hit' \in BOOLEAN
         /\ carried' \in [Tunnel -> Nat] /\ unsampled' \in [Tunnel -> Nat]
<1>1. t \in Tunnel /\ t \in tunnels BY Zenon DEF TypeOK
<1>2. Charge(seen[t], sample[t]) \in Nat /\ Charge(sample[t], counter[t]) \in Nat
  BY <1>1, ChargeType, Zenon DEF TypeOK
<1>3. hit' \in BOOLEAN BY Zenon DEF UpdateTelemetry
<1> QED
  BY <1>1, <1>2, <1>3, SMTT(30)
     DEF TypeOK, UpdateTelemetry, RecordSample, Enforce, Status

\* Every step preserves the types.
LEMMA TypeStep == TypeOK /\ [Next]_vars => TypeOK'
<1> SUFFICES ASSUME TypeOK, [Next]_vars PROVE TypeOK' OBVIOUS
<1> USE DEF TypeOK, columns, kernel, locals, ledger
<1>month. month \in Month OBVIOUS
<1>1. CASE ReconcileStart
  BY <1>1, <1>month, TypeReset, ZenonT(60) DEF ReconcileStart
<1>2. CASE ReconcileAborts
  BY <1>2, <1>month, TypeReset, TypeForget, SMTT(30) DEF ReconcileAborts, Fault, Return
<1>3. ASSUME NEW u \in Upstream, ApplyUpstream(u) PROVE TypeOK'
  BY <1>3, TypeConfigure, ZenonT(60) DEF ApplyUpstream
<1>4. ASSUME NEW u \in Upstream, ApplyUpstreamFails(u) PROVE TypeOK'
  BY <1>4, TypeConfigure, SMTT(30) DEF ApplyUpstreamFails, Fault
<1>5. CASE ApplyDone
  BY <1>5, TypeForget, ZenonT(60) DEF ApplyDone, ApplyReturnsError, Return, Status
<1>6. CASE SharedPassFails
  BY <1>6, TypeForget, SMTT(30)
     DEF SharedPassFails, Fault, ApplyReturnsError, Return, Status
<1>7. ASSUME NEW t \in Tunnel, Telemetry(t) PROVE TypeOK'
  BY <1>7, TypeTelemetry, Zenon DEF Telemetry
<1>8. CASE TelemetryDone
  BY <1>8, ZenonT(60) DEF TelemetryDone, Counter, Zero
<1>9. CASE TelemetryFails
  BY <1>9, TypeForget, SMTT(30) DEF TelemetryFails, Fault, Return
<1>10. CASE MarkApplied
  BY <1>10, TypeForget, Zenon DEF MarkApplied, Return, Status
<1>11. CASE Reconcile
  BY <1>11, Zenon DEF Reconcile, Locked
<1>12. ASSUME NEW t \in Tunnel, NEW q \in Quota, CreateTunnel(t, q) PROVE TypeOK'
  BY <1>12, Zenon DEF CreateTunnel, Locked
<1>13. ASSUME NEW t \in Tunnel, NEW q \in Quota, SetTunnelQuota(t, q) PROVE TypeOK'
  BY <1>13, Zenon DEF SetTunnelQuota, Locked, Status
<1>14. ASSUME NEW t \in Tunnel, EditTunnel(t) PROVE TypeOK'
  BY <1>14, Zenon DEF EditTunnel, Locked, Status
<1>15. ASSUME NEW t \in Tunnel, ToggleRead(t) PROVE TypeOK'
  <2>1. (t \notin enabled) \in BOOLEAN OBVIOUS
  <2>2. \A b \in BOOLEAN : [tunnel |-> t, on |-> b] \in [tunnel : Tunnel, on : BOOLEAN]
    OBVIOUS
  <2>3. [tunnel |-> t, on |-> t \notin enabled] \in [tunnel : Tunnel, on : BOOLEAN]
    BY <2>1, <2>2, Zenon
  <2>4. toggles' \subseteq [tunnel : Tunnel, on : BOOLEAN]
    BY <1>15, <2>3, Zenon DEF ToggleRead
  <2> QED BY <1>15, <2>4, ZenonT(60) DEF ToggleRead
<1>16. ASSUME NEW r \in toggles, SetEnabled(r) PROVE TypeOK'
  <2>1. toggles' \subseteq [tunnel : Tunnel, on : BOOLEAN]
    BY <1>16, Zenon DEF SetEnabled
  <2>2. settled' \in BOOLEAN BY <1>16, ZenonT(60) DEF SetEnabled
  <2>3. pc' \in {"idle", "start"} /\ faults' \in Nat
    BY <1>16, SMTT(30) DEF SetEnabled, Fault
  <2>4. /\ enabled' \subseteq tunnels /\ quotaDisabled' \subseteq tunnels
        /\ manualOff' \subseteq tunnels
    BY <1>16, Zenon DEF SetEnabled
  <2>5. status' \in [Tunnel -> Status] BY <1>16, Zenon DEF SetEnabled, Status
  <2> QED BY <1>16, <2>1, <2>2, <2>3, <2>4, <2>5, ZenonT(60) DEF SetEnabled
<1>17. ASSUME NEW t \in Tunnel, DeleteTunnel(t) PROVE TypeOK'
  BY <1>17, ZenonT(60) DEF DeleteTunnel, Counter, Zero
<1>18. ASSUME NEW t \in Tunnel, DeleteTunnelFails(t) PROVE TypeOK'
  <2>1. settled' \in BOOLEAN BY <1>18, Zenon DEF DeleteTunnelFails
  <2>2. status' \in [Tunnel -> Status] BY <1>18, ZenonT(60) DEF DeleteTunnelFails, Status
  <2> QED BY <1>18, <2>1, <2>2, SMTT(30) DEF DeleteTunnelFails, Fault
<1>19. CASE DeleteRow
  BY <1>19, TypeForget, ConstantsAssumption, SMTT(30)
     DEF DeleteRow, Return, Status, Month, Counter, Zero
<1>20. CASE DeleteRowFails
  BY <1>20, TypeForget, SMTT(30) DEF DeleteRowFails, Fault, Return
<1>21. ASSUME NEW t \in Tunnel, NEW d \in {"rx", "tx"}, Traffic(t, d) PROVE TypeOK'
  BY <1>21, SMTT(30) DEF Traffic, Counter
<1>22. CASE NewMonth
  BY <1>22, ConstantsAssumption, SMTT(30) DEF NewMonth, Month
<1>23. CASE Crash
  <2>1. settled' \in BOOLEAN BY <1>23, Zenon DEF Crash
  <2>2. toggles' \subseteq [tunnel : Tunnel, on : BOOLEAN] BY <1>23, ZenonT(60) DEF Crash
  <2> QED BY <1>23, <2>1, <2>2, TypeForget, SMTT(30) DEF Crash, Fault
<1>24. CASE Reboot
  BY <1>24, SMTT(30) DEF Reboot, Fault, Counter, Zero
<1>25. CASE Boot
  BY <1>25, Zenon DEF Boot
<1>26. CASE UNCHANGED vars
  BY <1>26, ZenonT(60) DEF vars
<1> QED
  BY <1>1, <1>2, <1>3, <1>4, <1>5, <1>6, <1>7, <1>8, <1>9, <1>10, <1>11,
     <1>12, <1>13, <1>14, <1>15, <1>16, <1>17, <1>18, <1>19, <1>20, <1>21,
     <1>22, <1>23, <1>24, <1>25, <1>26, ZenonT(30)
     DEF Next, Progress, Faulty, Operation, Surroundings

\* Every reachable state has its types.
THEOREM TypeCorrect == Spec => []TypeOK
<1>1. Init => TypeOK BY TypeInit, Zenon
<1>2. TypeOK /\ [Next]_vars => TypeOK' BY TypeStep, ZenonT(60)
<1> QED BY <1>1, <1>2, PTL DEF Spec

-----------------------------------------------------------------------------
(***************************************************************************)
(* The inductive invariant.  SettledIsEnforced holds at the end of a       *)
(* reconcile of many steps; what these have established so far is said     *)
(* here.                                                                   *)
(***************************************************************************)

\* No tunnel of S has reached its quota without being disabled for it.
Enforced(S) == \A t \in S : used[t] >= Limit(quota[t]) => t \in quotaDisabled

\* How far a reconcile has got.
Converging ==
    /\ pc \in {"apply", "apply2"} /\ ~failed =>
         \A t \in Tunnel : UpstreamOf[t] \notin todoUp =>
                            (t \in peer <=> t \in enabled)
    /\ pc = "telemetry" /\ ~hit => peer = enabled
    /\ pc = "telemetry" => Enforced(tunnels \ todoTun)
    /\ pc \in {"apply2", "mark"} => Enforced(tunnels)
    /\ pc = "mark" => peer = enabled
    /\ settled => pc = "idle" /\ Enforced(tunnels) /\ peer = enabled

\* A tunnel being deleted is no longer a peer.
Removed == pc = "delete" => todoTun \cap peer = {}

Inv ==
    /\ TypeOK
    /\ NoOrphanPeer
    /\ Removed
    /\ QuotaFlagIsEarned
    /\ AppliedIsAuthorised
    /\ Converging

-----------------------------------------------------------------------------

\* Every step keeps the peers within the rows.
LEMMA PeersStep ==
  ASSUME TypeOK, NoOrphanPeer, Removed, [Next]_vars
  PROVE  NoOrphanPeer' /\ Removed'
<1> USE DEF TypeOK, NoOrphanPeer, Removed, columns, kernel, locals, ledger
<1>1. CASE ReconcileStart
  BY <1>1, Zenon DEF ReconcileStart, ResetMonthlyQuotas
<1>2. CASE ReconcileAborts
  BY <1>2, Zenon DEF ReconcileAborts, Fault, Return, Forget, ResetMonthlyQuotas
<1>3. ASSUME NEW u \in Upstream, ApplyUpstream(u) PROVE NoOrphanPeer' /\ Removed'
  BY <1>3, Zenon DEF ApplyUpstream, ConfigureDevice
<1>4. ASSUME NEW u \in Upstream, ApplyUpstreamFails(u) PROVE NoOrphanPeer' /\ Removed'
  BY <1>4, Zenon DEF ApplyUpstreamFails, Fault, ConfigureDevice
<1>5. CASE ApplyDone
  BY <1>5, Zenon DEF ApplyDone, ApplyReturnsError, Return, Forget
<1>6. CASE SharedPassFails
  BY <1>6, Zenon DEF SharedPassFails, ApplyReturnsError, Return, Forget
<1>7. ASSUME NEW t \in Tunnel, Telemetry(t) PROVE NoOrphanPeer' /\ Removed'
  BY <1>7, Zenon DEF Telemetry, UpdateTelemetry, RecordSample, Enforce
<1>8. CASE TelemetryDone
  BY <1>8, Zenon DEF TelemetryDone
<1>9. CASE TelemetryFails
  BY <1>9, Zenon DEF TelemetryFails, Return, Forget
<1>10. CASE MarkApplied
  BY <1>10, Zenon DEF MarkApplied, Return, Forget
<1>11. CASE Reconcile
  BY <1>11, Zenon DEF Reconcile, Locked
<1>12. ASSUME NEW t \in Tunnel, NEW q \in Quota, CreateTunnel(t, q) PROVE NoOrphanPeer' /\ Removed'
  BY <1>12, Zenon DEF CreateTunnel, Locked
<1>13. ASSUME NEW t \in Tunnel, NEW q \in Quota, SetTunnelQuota(t, q) PROVE NoOrphanPeer' /\ Removed'
  BY <1>13, Zenon DEF SetTunnelQuota, Locked
<1>14. ASSUME NEW t \in Tunnel, EditTunnel(t) PROVE NoOrphanPeer' /\ Removed'
  BY <1>14, Zenon DEF EditTunnel, Locked
<1>15. ASSUME NEW t \in Tunnel, ToggleRead(t) PROVE NoOrphanPeer' /\ Removed'
  BY <1>15, Zenon DEF ToggleRead
<1>16. ASSUME NEW r \in toggles, SetEnabled(r) PROVE NoOrphanPeer' /\ Removed'
  BY <1>16, Zenon DEF SetEnabled
<1>17. ASSUME NEW t \in Tunnel, DeleteTunnel(t) PROVE NoOrphanPeer' /\ Removed'
  BY <1>17, Zenon DEF DeleteTunnel
<1>18. ASSUME NEW t \in Tunnel, DeleteTunnelFails(t) PROVE NoOrphanPeer' /\ Removed'
  BY <1>18, Zenon DEF DeleteTunnelFails
<1>19. CASE DeleteRow
  BY <1>19, Zenon DEF DeleteRow, Return, Forget
<1>20. CASE DeleteRowFails
  BY <1>20, Zenon DEF DeleteRowFails, Return, Forget
<1>21. ASSUME NEW t \in Tunnel, NEW d \in {"rx", "tx"}, Traffic(t, d) PROVE NoOrphanPeer' /\ Removed'
  BY <1>21, Zenon DEF Traffic
<1>22. CASE NewMonth
  BY <1>22, Zenon DEF NewMonth
<1>23. CASE Crash
  BY <1>23, Zenon DEF Crash, Forget
<1>24. CASE Reboot
  BY <1>24, Zenon DEF Reboot
<1>25. CASE Boot
  BY <1>25, Zenon DEF Boot
<1>26. CASE UNCHANGED vars
  BY <1>26, ZenonT(60) DEF vars
<1> QED
  BY <1>1, <1>2, <1>3, <1>4, <1>5, <1>6, <1>7, <1>8, <1>9, <1>10, <1>11,
     <1>12, <1>13, <1>14, <1>15, <1>16, <1>17, <1>18, <1>19, <1>20, <1>21,
     <1>22, <1>23, <1>24, <1>25, <1>26, SMTT(30)
     DEF Next, Progress, Faulty, Operation, Surroundings

\* Every step keeps quota_disabled to the tunnels that earned it.
LEMMA FlagStep ==
  ASSUME TypeOK, QuotaFlagIsEarned, [Next]_vars
  PROVE  QuotaFlagIsEarned'
<1> USE DEF TypeOK, QuotaFlagIsEarned, columns, kernel, locals, ledger
<1>1. CASE ReconcileStart
  BY <1>1, Zenon DEF ReconcileStart, ResetMonthlyQuotas
<1>2. CASE ReconcileAborts
  BY <1>2, ZenonT(60) DEF ReconcileAborts, Fault, Return, Forget, ResetMonthlyQuotas
<1>3. ASSUME NEW u \in Upstream, ApplyUpstream(u) PROVE QuotaFlagIsEarned'
  BY <1>3, Zenon DEF ApplyUpstream
<1>4. ASSUME NEW u \in Upstream, ApplyUpstreamFails(u) PROVE QuotaFlagIsEarned'
  BY <1>4, Zenon DEF ApplyUpstreamFails, Fault
<1>5. CASE ApplyDone
  BY <1>5, Zenon DEF ApplyDone, ApplyReturnsError, Return, Forget
<1>6. CASE SharedPassFails
  BY <1>6, Zenon DEF SharedPassFails, ApplyReturnsError, Return, Forget
<1>7. ASSUME NEW t \in Tunnel, Telemetry(t) PROVE QuotaFlagIsEarned'
  BY <1>7, ZenonT(60) DEF Telemetry, UpdateTelemetry, RecordSample, Enforce
<1>8. CASE TelemetryDone
  BY <1>8, Zenon DEF TelemetryDone
<1>9. CASE TelemetryFails
  BY <1>9, Zenon DEF TelemetryFails, Return, Forget
<1>10. CASE MarkApplied
  BY <1>10, Zenon DEF MarkApplied, Return, Forget
<1>11. CASE Reconcile
  BY <1>11, Zenon DEF Reconcile, Locked
<1>12. ASSUME NEW t \in Tunnel, NEW q \in Quota, CreateTunnel(t, q) PROVE QuotaFlagIsEarned'
  BY <1>12, Zenon DEF CreateTunnel, Locked
<1>13. ASSUME NEW t \in Tunnel, NEW q \in Quota, SetTunnelQuota(t, q) PROVE QuotaFlagIsEarned'
  BY <1>13, ZenonT(60) DEF SetTunnelQuota, Locked
<1>14. ASSUME NEW t \in Tunnel, EditTunnel(t) PROVE QuotaFlagIsEarned'
  BY <1>14, Zenon DEF EditTunnel, Locked
<1>15. ASSUME NEW t \in Tunnel, ToggleRead(t) PROVE QuotaFlagIsEarned'
  BY <1>15, Zenon DEF ToggleRead
<1>16. ASSUME NEW r \in toggles, SetEnabled(r) PROVE QuotaFlagIsEarned'
  BY <1>16, Zenon DEF SetEnabled
<1>17. ASSUME NEW t \in Tunnel, DeleteTunnel(t) PROVE QuotaFlagIsEarned'
  BY <1>17, Zenon DEF DeleteTunnel
<1>18. ASSUME NEW t \in Tunnel, DeleteTunnelFails(t) PROVE QuotaFlagIsEarned'
  BY <1>18, Zenon DEF DeleteTunnelFails
<1>19. CASE DeleteRow
  BY <1>19, Zenon DEF DeleteRow, Return, Forget
<1>20. CASE DeleteRowFails
  BY <1>20, Zenon DEF DeleteRowFails, Return, Forget
<1>21. ASSUME NEW t \in Tunnel, NEW d \in {"rx", "tx"}, Traffic(t, d) PROVE QuotaFlagIsEarned'
  BY <1>21, Zenon DEF Traffic
<1>22. CASE NewMonth
  BY <1>22, Zenon DEF NewMonth
<1>23. CASE Crash
  BY <1>23, Zenon DEF Crash, Forget
<1>24. CASE Reboot
  BY <1>24, Zenon DEF Reboot
<1>25. CASE Boot
  BY <1>25, Zenon DEF Boot
<1>26. CASE UNCHANGED vars
  BY <1>26, ZenonT(60) DEF vars
<1> QED
  BY <1>1, <1>2, <1>3, <1>4, <1>5, <1>6, <1>7, <1>8, <1>9, <1>10, <1>11,
     <1>12, <1>13, <1>14, <1>15, <1>16, <1>17, <1>18, <1>19, <1>20, <1>21,
     <1>22, <1>23, <1>24, <1>25, <1>26, SMTT(30)
     DEF Next, Progress, Faulty, Operation, Surroundings

\* Every step keeps a disabled peer from reading applied.
LEMMA AppliedStep ==
  ASSUME TypeOK, AppliedIsAuthorised, NoOrphanPeer, Removed, Converging, [Next]_vars
  PROVE  AppliedIsAuthorised'
<1> USE DEF TypeOK, AppliedIsAuthorised, columns, kernel, locals, ledger
<1>1. CASE ReconcileStart
  BY <1>1, Zenon DEF ReconcileStart, ResetMonthlyQuotas
<1>2. CASE ReconcileAborts
  BY <1>2, Zenon DEF ReconcileAborts, Fault, Return, Forget, ResetMonthlyQuotas
<1>3. ASSUME NEW u \in Upstream, ApplyUpstream(u) PROVE AppliedIsAuthorised'
  BY <1>3, Zenon DEF ApplyUpstream, ConfigureDevice, Of
<1>4. ASSUME NEW u \in Upstream, ApplyUpstreamFails(u) PROVE AppliedIsAuthorised'
  BY <1>4, Zenon DEF ApplyUpstreamFails, Fault, ConfigureDevice, Of
<1>5. CASE ApplyDone
  BY <1>5, Zenon DEF ApplyDone, ApplyReturnsError, Return, Forget
<1>6. CASE SharedPassFails
  BY <1>6, Zenon DEF SharedPassFails, ApplyReturnsError, Return, Forget
<1>7. ASSUME NEW t \in Tunnel, Telemetry(t) PROVE AppliedIsAuthorised'
  BY <1>7, Zenon DEF Telemetry, UpdateTelemetry, RecordSample, Enforce
<1>8. CASE TelemetryDone
  BY <1>8, Zenon DEF TelemetryDone
<1>9. CASE TelemetryFails
  BY <1>9, Zenon DEF TelemetryFails, Return, Forget
<1>10. CASE MarkApplied
  BY <1>10, Zenon DEF MarkApplied, Return, Forget, Converging
<1>11. CASE Reconcile
  BY <1>11, Zenon DEF Reconcile, Locked
<1>12. ASSUME NEW t \in Tunnel, NEW q \in Quota, CreateTunnel(t, q) PROVE AppliedIsAuthorised'
  BY <1>12, Zenon DEF CreateTunnel, Locked, NoOrphanPeer
<1>13. ASSUME NEW t \in Tunnel, NEW q \in Quota, SetTunnelQuota(t, q) PROVE AppliedIsAuthorised'
  BY <1>13, Zenon DEF SetTunnelQuota, Locked
<1>14. ASSUME NEW t \in Tunnel, EditTunnel(t) PROVE AppliedIsAuthorised'
  BY <1>14, Zenon DEF EditTunnel, Locked
<1>15. ASSUME NEW t \in Tunnel, ToggleRead(t) PROVE AppliedIsAuthorised'
  BY <1>15, Zenon DEF ToggleRead
<1>16. ASSUME NEW r \in toggles, SetEnabled(r) PROVE AppliedIsAuthorised'
  BY <1>16, Zenon DEF SetEnabled
<1>17. ASSUME NEW t \in Tunnel, DeleteTunnel(t) PROVE AppliedIsAuthorised'
  BY <1>17, Zenon DEF DeleteTunnel
<1>18. ASSUME NEW t \in Tunnel, DeleteTunnelFails(t) PROVE AppliedIsAuthorised'
  BY <1>18, Zenon DEF DeleteTunnelFails
<1>19. CASE DeleteRow
  BY <1>19, Zenon DEF DeleteRow, Return, Forget, Removed
<1>20. CASE DeleteRowFails
  BY <1>20, Zenon DEF DeleteRowFails, Return, Forget
<1>21. ASSUME NEW t \in Tunnel, NEW d \in {"rx", "tx"}, Traffic(t, d) PROVE AppliedIsAuthorised'
  BY <1>21, Zenon DEF Traffic
<1>22. CASE NewMonth
  BY <1>22, Zenon DEF NewMonth
<1>23. CASE Crash
  BY <1>23, Zenon DEF Crash, Forget
<1>24. CASE Reboot
  BY <1>24, Zenon DEF Reboot
<1>25. CASE Boot
  BY <1>25, Zenon DEF Boot
<1>26. CASE UNCHANGED vars
  BY <1>26, ZenonT(60) DEF vars
<1> QED
  BY <1>1, <1>2, <1>3, <1>4, <1>5, <1>6, <1>7, <1>8, <1>9, <1>10, <1>11,
     <1>12, <1>13, <1>14, <1>15, <1>16, <1>17, <1>18, <1>19, <1>20, <1>21,
     <1>22, <1>23, <1>24, <1>25, <1>26, SMTT(30)
     DEF Next, Progress, Faulty, Operation, Surroundings

\* Every step of a reconcile brings it closer to the end.
LEMMA ConvergingStep ==
  ASSUME TypeOK, QuotaFlagIsEarned, Converging, [Next]_vars
  PROVE  Converging'
<1> USE DEF TypeOK, columns, kernel, locals, ledger
<1>1. CASE ReconcileStart
  BY <1>1, ConstantsAssumption, Zenon DEF ReconcileStart, Converging
<1>2. CASE ReconcileAborts
  BY <1>2, Zenon DEF ReconcileAborts, Fault, Return, Forget, Converging, Enforced
<1>3. ASSUME NEW u \in Upstream, ApplyUpstream(u) PROVE Converging'
  <2>1. \A t \in Of(u) : t \in peer' <=> t \in enabled'
    BY <1>3, Zenon DEF ApplyUpstream, ConfigureDevice
  <2>2. \A t \in Tunnel \ Of(u) : t \in peer' <=> t \in peer
    BY <1>3, Zenon DEF ApplyUpstream, ConfigureDevice
  <2>3. /\ todoUp' = todoUp \ {u} /\ pc' = pc /\ failed' = failed
        /\ pc \in {"apply", "apply2"}
        /\ UNCHANGED <<enabled, quotaDisabled, quota, used, tunnels, settled>>
    BY <1>3, Zenon DEF ApplyUpstream
  <2> QED BY <2>1, <2>2, <2>3, Zenon DEF Converging, Enforced, Of
<1>4. ASSUME NEW u \in Upstream, ApplyUpstreamFails(u) PROVE Converging'
  BY <1>4, Zenon DEF ApplyUpstreamFails, Fault, Converging, Enforced
<1>5. CASE ApplyDone
  <2>1. CASE failed
    <3>1. pc' = "idle" /\ pc # "idle" /\ settled' = settled
      BY <1>5, <2>1, Zenon DEF ApplyDone, ApplyReturnsError, Return
    <3> QED BY <3>1, Zenon DEF Converging
  <2>2. CASE ~failed
    <3>1. /\ pc' = IF pc = "apply" THEN "telemetry" ELSE "mark"
          /\ pc \in {"apply", "apply2"} /\ todoUp = {}
          /\ todoTun' = IF pc = "apply" THEN tunnels ELSE {}
          /\ UNCHANGED <<tunnels, enabled, quotaDisabled, quota, used, peer, settled>>
      BY <1>5, <2>2, Zenon DEF ApplyDone
    <3>2. peer = enabled BY <2>2, <3>1, Zenon DEF Converging
    <3> QED BY <3>1, <3>2, Zenon DEF Converging, Enforced
  <2> QED BY <2>1, <2>2, Zenon
<1>6. CASE SharedPassFails
  BY <1>6, Zenon
     DEF SharedPassFails, ApplyReturnsError, Return, Forget, Converging, Enforced
<1>7. ASSUME NEW t \in Tunnel, Telemetry(t) PROVE Converging'
  <2>1. t \in Tunnel /\ used'[t] \in Nat /\ Limit(quota[t]) \in Nat
    BY <1>7, TypeStep, LimitType, Zenon DEF TypeOK
  <2>2. pc = "telemetry" /\ pc' = pc /\ todoTun' = todoTun \ {t}
        /\ UNCHANGED <<peer, settled, tunnels, quota>>
    BY <1>7, Zenon DEF Telemetry, UpdateTelemetry, RecordSample, Enforce
  <2>3. Enforced(tunnels \ todoTun)'
    BY <1>7, <2>1, <2>2, ZenonT(60)
       DEF Telemetry, UpdateTelemetry, RecordSample, Enforce, Converging, Enforced
  <2>4. ASSUME ~hit' PROVE ~hit /\ enabled' = enabled
    BY <1>7, <2>4, ZenonT(30)
       DEF Telemetry, UpdateTelemetry, RecordSample, Enforce, QuotaFlagIsEarned
  <2> QED BY <2>2, <2>3, <2>4, Zenon DEF Converging
<1>8. CASE TelemetryDone
  BY <1>8, ConstantsAssumption, Zenon DEF TelemetryDone, Converging, Enforced
<1>9. CASE TelemetryFails
  BY <1>9, Zenon DEF TelemetryFails, Return, Forget, Converging, Enforced
<1>10. CASE MarkApplied
  BY <1>10, Zenon DEF MarkApplied, Return, Forget, Converging, Enforced
<1>11. CASE Reconcile
  BY <1>11, Zenon DEF Reconcile, Locked, Converging, Enforced
<1>12. ASSUME NEW t \in Tunnel, NEW q \in Quota, CreateTunnel(t, q) PROVE Converging'
  BY <1>12, Zenon DEF CreateTunnel, Locked, Converging, Enforced
<1>13. ASSUME NEW t \in Tunnel, NEW q \in Quota, SetTunnelQuota(t, q) PROVE Converging'
  BY <1>13, Zenon DEF SetTunnelQuota, Locked, Converging, Enforced
<1>14. ASSUME NEW t \in Tunnel, EditTunnel(t) PROVE Converging'
  BY <1>14, Zenon DEF EditTunnel, Locked, Converging, Enforced
<1>15. ASSUME NEW t \in Tunnel, ToggleRead(t) PROVE Converging'
  BY <1>15, Zenon DEF ToggleRead, Converging, Enforced
<1>16. ASSUME NEW r \in toggles, SetEnabled(r) PROVE Converging'
  BY <1>16, Zenon DEF SetEnabled, Converging, Enforced
<1>17. ASSUME NEW t \in Tunnel, DeleteTunnel(t) PROVE Converging'
  BY <1>17, Zenon DEF DeleteTunnel, Converging, Enforced
<1>18. ASSUME NEW t \in Tunnel, DeleteTunnelFails(t) PROVE Converging'
  BY <1>18, Zenon DEF DeleteTunnelFails, Converging, Enforced
<1>19. CASE DeleteRow
  BY <1>19, Zenon DEF DeleteRow, Return, Forget, Converging, Enforced
<1>20. CASE DeleteRowFails
  BY <1>20, Zenon DEF DeleteRowFails, Return, Forget, Converging, Enforced
<1>21. ASSUME NEW t \in Tunnel, NEW d \in {"rx", "tx"}, Traffic(t, d) PROVE Converging'
  BY <1>21, Zenon DEF Traffic, Converging, Enforced
<1>22. CASE NewMonth
  BY <1>22, Zenon DEF NewMonth, Converging, Enforced
<1>23. CASE Crash
  BY <1>23, Zenon DEF Crash, Forget, Converging, Enforced
<1>24. CASE Reboot
  BY <1>24, Zenon DEF Reboot, Converging, Enforced
<1>25. CASE Boot
  BY <1>25, Zenon DEF Boot, Converging, Enforced
<1>26. CASE UNCHANGED vars
  BY <1>26, Zenon DEF vars, Converging, Enforced
<1> QED
  BY <1>1, <1>2, <1>3, <1>4, <1>5, <1>6, <1>7, <1>8, <1>9, <1>10, <1>11,
     <1>12, <1>13, <1>14, <1>15, <1>16, <1>17, <1>18, <1>19, <1>20, <1>21,
     <1>22, <1>23, <1>24, <1>25, <1>26, SMTT(30)
     DEF Next, Progress, Faulty, Operation, Surroundings

-----------------------------------------------------------------------------
(***************************************************************************)
(* The theorems.                                                           *)
(***************************************************************************)

\* The inductive invariant holds at the start: no row and no peer.
LEMMA InvInit == Init => Inv
<1> SUFFICES ASSUME Init PROVE Inv OBVIOUS
<1>1. TypeOK BY TypeInit, Zenon
<1>2. NoOrphanPeer /\ Removed /\ QuotaFlagIsEarned /\ AppliedIsAuthorised
  BY Zenon DEF Init, NoOrphanPeer, Removed, QuotaFlagIsEarned, AppliedIsAuthorised
<1>3. Converging
  BY Zenon DEF Init, Converging
<1> QED BY <1>1, <1>2, <1>3, Zenon DEF Inv

\* Every step preserves the inductive invariant.
LEMMA InvStep == Inv /\ [Next]_vars => Inv'
<1> SUFFICES ASSUME Inv, [Next]_vars PROVE Inv' OBVIOUS
<1> USE DEF Inv
<1>1. TypeOK' BY TypeStep, Zenon
<1>2. NoOrphanPeer' /\ Removed' BY PeersStep, Zenon
<1>3. QuotaFlagIsEarned' BY FlagStep, Zenon
<1>4. AppliedIsAuthorised' BY AppliedStep, Zenon
<1>5. Converging' BY ConvergingStep, Zenon
<1> QED BY <1>1, <1>2, <1>3, <1>4, <1>5, Zenon

\* Every reachable state satisfies the inductive invariant.
THEOREM Invariance == Spec => []Inv
<1>1. Init => Inv BY InvInit, Zenon
<1>2. Inv /\ [Next]_vars => Inv' BY InvStep, Zenon
<1> QED BY <1>1, <1>2, PTL DEF Spec

\* DeleteTunnel's order (peer first, row second) never leaves a peer without a
\* row, for any number of tunnels, failures and crashes.
THEOREM PeersHaveRows == Spec => []NoOrphanPeer
<1>1. Inv => NoOrphanPeer BY Zenon DEF Inv
<1> QED BY <1>1, Invariance, PTL

\* quota_disabled is only ever set on a disabled tunnel whose stored usage has
\* reached its quota, so the writers that enable flagged rows enable no other.
THEOREM FlagIsSound == Spec => []QuotaFlagIsEarned
<1>1. Inv => QuotaFlagIsEarned BY Zenon DEF Inv
<1> QED BY <1>1, Invariance, PTL

\* A tunnel that is up while it is disabled never reads as applied.
THEOREM StatusIsSound == Spec => []AppliedIsAuthorised
<1>1. Inv => AppliedIsAuthorised BY Zenon DEF Inv
<1> QED BY <1>1, Invariance, PTL

\* A reconcileLocked that returned nil leaves exactly the enabled tunnels up,
\* each of them below its quota.
THEOREM ReconcileEnforces == Spec => []SettledIsEnforced
<1>1. Inv => SettledIsEnforced
  <2> SUFFICES ASSUME Inv, settled
               PROVE  /\ peer = enabled
                      /\ \A t \in enabled : used[t] < Limit(quota[t])
    BY Zenon DEF SettledIsEnforced
  <2>1. peer = enabled /\ Enforced(tunnels) BY Zenon DEF Inv, Converging
  <2>2. ASSUME NEW t \in enabled PROVE used[t] < Limit(quota[t])
    <3>1. t \in tunnels /\ used[t] \in Nat /\ Limit(quota[t]) \in Nat
      BY LimitType, Zenon DEF Inv, TypeOK
    <3>2. t \notin quotaDisabled BY Zenon DEF Inv, QuotaFlagIsEarned
    <3> QED BY <2>1, <3>1, <3>2, SMTT(30) DEF Enforced
  <2> QED BY <2>1, <2>2, Zenon
<1> QED BY <1>1, Invariance, PTL

-----------------------------------------------------------------------------
(***************************************************************************)
(* Usage: a tunnel is never charged for bytes that it did not carry.       *)
(*                                                                         *)
(* That usage is at most what was carried is not inductive: the next       *)
(* sample may add to the usage whatever the counters hold.  The accounts   *)
(* also bound what the stored counters still allow to be charged, from the *)
(* kernel's counters and from a sample under way.                          *)
(***************************************************************************)

\* sample[t] holds the counters of t as of the running Apply.
Sampled(t) ==
    \/ pc = "apply" /\ ~failed /\ UpstreamOf[t] \notin todoUp
    \/ pc = "telemetry" /\ t \in todoTun

\* The bytes already charged, the bytes of the sample under way and the bytes
\* still on the counters add up to no more than what was carried.
Accounted(t) ==
    /\ t \notin peer => counter[t] = Zero
    /\ used[t] + Charge(seen[t], counter[t]) <= carried[t]
    /\ Charge(seen[t], counter[t]) <= unsampled[t]
    /\ pc = "apply" /\ t \notin enabled => sample[t] = seen[t]
    /\ Sampled(t) =>
         LET due == Charge(seen[t], sample[t]) + Charge(sample[t], counter[t])
         IN  used[t] + due <= carried[t] /\ due <= unsampled[t]

Accounts == \A t \in Tunnel : Accounted(t)

-----------------------------------------------------------------------------
\* The sums of the accounts are sums of numbers.
LEMMA ChargesType ==
  ASSUME TypeOK, NEW t \in Tunnel
  PROVE  /\ used[t] \in Nat /\ carried[t] \in Nat /\ unsampled[t] \in Nat
         /\ seen[t] \in Counter /\ sample[t] \in Counter /\ counter[t] \in Counter
         /\ Charge(seen[t], counter[t]) \in Nat
         /\ Charge(seen[t], sample[t]) \in Nat
         /\ Charge(sample[t], counter[t]) \in Nat
BY ChargeType, Zenon DEF TypeOK

\* A step that touches neither counters nor usage, and ends outside the
\* sampling, keeps the accounts.
LEMMA AccountsKept ==
  ASSUME Accounts, UNCHANGED <<used, seen, carried, unsampled, peer, counter>>,
         pc' \notin {"apply", "telemetry"}
  PROVE  Accounts'
BY ZenonT(60) DEF Accounts, Accounted, Sampled

\* The monthly reset keeps the accounts of the counters: what is still on them
\* was carried since the last sample.
LEMMA AccountsReset ==
  ASSUME TypeOK, Accounts, NEW m \in Month, ResetMonthlyQuotas(m),
         UNCHANGED kernel, NEW t \in Tunnel
  PROVE  /\ t \notin peer' => counter'[t] = Zero
         /\ used'[t] + Charge(seen'[t], counter'[t]) <= carried'[t]
         /\ Charge(seen'[t], counter'[t]) <= unsampled'[t]
<1> USE ChargesType DEF kernel
<1>1. CASE t \in tunnels /\ period[t] # m
  BY <1>1, SMTT(30) DEF TypeOK, Accounts, Accounted, ResetMonthlyQuotas
<1>2. CASE ~(t \in tunnels /\ period[t] # m)
  BY <1>2, Zenon DEF TypeOK, Accounts, Accounted, ResetMonthlyQuotas
<1> QED BY <1>1, <1>2, Zenon

\* The configuration of a device keeps the accounts of the counters: it keeps
\* the counters of a peer or sets them to zero.
LEMMA AccountsConfigure ==
  ASSUME TypeOK, Accounts, NEW u \in Upstream, ConfigureDevice(u),
         UNCHANGED <<used, seen, carried, unsampled>>, NEW t \in Tunnel
  PROVE  /\ counter'[t] = Zero \/ counter'[t] = counter[t]
         /\ t \notin Of(u) => counter'[t] = counter[t]
         /\ t \notin peer' => counter'[t] = Zero
         /\ used'[t] + Charge(seen'[t], counter'[t]) <= carried'[t]
         /\ Charge(seen'[t], counter'[t]) <= unsampled'[t]
<1>1. /\ counter'[t] = Zero \/ counter'[t] = counter[t]
      /\ t \notin peer' => counter'[t] = Zero
      /\ t \notin Of(u) => counter'[t] = counter[t]
  BY ZenonT(60) DEF ConfigureDevice, Accounts, Accounted, TypeOK
<1> USE ChargesType, ChargeZero
<1>2. CASE counter'[t] = Zero
  BY <1>1, <1>2, SMTT(30) DEF Accounts, Accounted
<1>3. CASE counter'[t] = counter[t]
  BY <1>1, <1>3, ZenonT(60) DEF Accounts, Accounted
<1> QED BY <1>1, <1>2, <1>3, Zenon

\* Every step keeps the accounts.
LEMMA AccountsStep ==
  ASSUME TypeOK, Removed, Accounts, [Next]_vars
  PROVE  Accounts'
<1> USE DEF columns, kernel, locals, ledger
<1>1. CASE ReconcileStart
  <2> SUFFICES ASSUME NEW t \in Tunnel PROVE Accounted(t)' BY Zenon DEF Accounts
  <2>1. /\ t \notin peer' => counter'[t] = Zero
        /\ used'[t] + Charge(seen'[t], counter'[t]) <= carried'[t]
        /\ Charge(seen'[t], counter'[t]) <= unsampled'[t]
    BY <1>1, AccountsReset, Zenon DEF ReconcileStart, TypeOK
  <2>2. ~Sampled(t)'
    BY <1>1, ConstantsAssumption, Zenon DEF ReconcileStart, Sampled
  <2>3. sample'[t] = seen'[t]
    BY <1>1, Zenon DEF ReconcileStart, ResetMonthlyQuotas
  <2> QED BY <2>1, <2>2, <2>3, Zenon DEF Accounted
<1>2. CASE ReconcileAborts
  <2>1. CASE UNCHANGED <<columns, ledger>>
    BY <1>2, <2>1, AccountsKept, Zenon DEF ReconcileAborts, Return
  <2>2. CASE ResetMonthlyQuotas(month)
    <3> SUFFICES ASSUME NEW t \in Tunnel PROVE Accounted(t)' BY Zenon DEF Accounts
    <3>1. /\ t \notin peer' => counter'[t] = Zero
          /\ used'[t] + Charge(seen'[t], counter'[t]) <= carried'[t]
          /\ Charge(seen'[t], counter'[t]) <= unsampled'[t]
      BY <1>2, <2>2, AccountsReset, Zenon DEF ReconcileAborts, TypeOK
    <3> QED BY <1>2, <3>1, Zenon DEF ReconcileAborts, Return, Accounted, Sampled
  <2> QED BY <1>2, <2>1, <2>2, Zenon DEF ReconcileAborts
<1>3. ASSUME NEW u \in Upstream, ApplyUpstream(u) PROVE Accounts'
  <2> SUFFICES ASSUME NEW t \in Tunnel PROVE Accounted(t)' BY Zenon DEF Accounts
  <2>1. /\ t \notin Of(u) => counter'[t] = counter[t]
        /\ t \notin peer' => counter'[t] = Zero
        /\ used'[t] + Charge(seen'[t], counter'[t]) <= carried'[t]
        /\ Charge(seen'[t], counter'[t]) <= unsampled'[t]
    BY <1>3, AccountsConfigure, Zenon DEF ApplyUpstream
  <2>2. pc' = "apply" /\ t \notin enabled' => sample'[t] = seen'[t]
    BY <1>3, Zenon DEF ApplyUpstream, Accounts, Accounted
  <2>3. ASSUME Sampled(t)'
        PROVE  LET due == Charge(seen[t], sample[t])' + Charge(sample[t], counter[t])'
               IN  used'[t] + due <= carried'[t] /\ due <= unsampled'[t]
    <3>1. pc = "apply" /\ ~failed /\ UpstreamOf[t] \notin todoUp'
      BY <1>3, <2>3, Zenon DEF ApplyUpstream, Sampled
    <3>2. TypeOK' BY TypeStep, Zenon
    <3>3. CASE t \in Of(u) /\ t \in enabled
      <4>1. sample'[t] = counter'[t] BY <1>3, <3>1, <3>3, Zenon DEF ApplyUpstream
      <4>2. counter'[t] \in Counter /\ Charge(seen[t], sample[t])' \in Nat
        BY <3>2, ChargeType, Zenon DEF TypeOK
      <4>3. Charge(sample[t], counter[t])' = 0 BY <4>1, <4>2, ChargeSame, Zenon
      <4>4. Charge(seen[t], sample[t])' = Charge(seen[t], counter[t])'
        BY <4>1, ZenonT(60)
      <4>5. Charge(seen[t], sample[t])' + Charge(sample[t], counter[t])'
              = Charge(seen[t], counter[t])'
        BY ONLY <4>2, <4>3, <4>4, SMTT(30)
      <4> QED BY ONLY <2>1, <4>5, Zenon
    <3>4. CASE t \in Of(u) /\ t \notin enabled
      <4>1. sample'[t] = seen'[t]
        BY <1>3, <2>2, <3>1, <3>4, ZenonT(60) DEF ApplyUpstream
      <4>2. seen'[t] \in Counter BY <3>2, Zenon DEF TypeOK
      <4>3. Charge(seen[t], sample[t])' = 0 BY <4>1, <4>2, ChargeSame, Zenon
      <4>4. Charge(sample[t], counter[t])' = Charge(seen[t], counter[t])'
        BY <4>1, Zenon
      <4>5. Charge(seen[t], counter[t])' \in Nat
        BY <3>2, ChargeType, ZenonT(60) DEF TypeOK
      <4>6. Charge(seen[t], sample[t])' + Charge(sample[t], counter[t])'
              = Charge(seen[t], counter[t])'
        BY ONLY <4>3, <4>4, <4>5, SMTT(30)
      <4> QED BY ONLY <2>1, <4>6, Zenon
    <3>5. CASE t \notin Of(u)
      <4>1. Sampled(t)
        BY <1>3, <3>1, <3>5, Zenon DEF ApplyUpstream, Sampled, Of
      <4>2. sample'[t] = sample[t] /\ counter'[t] = counter[t]
        BY <1>3, <2>1, <3>5, Zenon DEF ApplyUpstream
      <4> QED BY <1>3, <4>1, <4>2, Zenon DEF ApplyUpstream, Accounts, Accounted
    <3> QED BY <3>3, <3>4, <3>5, Zenon
  <2> QED BY <2>1, <2>2, <2>3, Zenon DEF Accounted
<1>4. ASSUME NEW u \in Upstream, ApplyUpstreamFails(u) PROVE Accounts'
  <2> SUFFICES ASSUME NEW t \in Tunnel PROVE Accounted(t)' BY Zenon DEF Accounts
  <2>1. /\ t \notin peer' => counter'[t] = Zero
        /\ used'[t] + Charge(seen'[t], counter'[t]) <= carried'[t]
        /\ Charge(seen'[t], counter'[t]) <= unsampled'[t]
    <3>1. CASE ConfigureDevice(u)
      BY <1>4, <3>1, AccountsConfigure, Zenon DEF ApplyUpstreamFails
    <3>2. CASE UNCHANGED kernel
      BY <1>4, <3>2, Zenon DEF ApplyUpstreamFails, Accounts, Accounted
    <3> QED BY <1>4, <3>1, <3>2, Zenon DEF ApplyUpstreamFails
  <2>2. ~Sampled(t)' BY <1>4, Zenon DEF ApplyUpstreamFails, Sampled
  <2> QED BY <1>4, <2>1, <2>2, Zenon DEF ApplyUpstreamFails, Accounts, Accounted
<1>5. CASE ApplyDone
  <2>1. CASE failed
    BY <1>5, <2>1, AccountsKept, Zenon DEF ApplyDone, ApplyReturnsError, Return
  <2>2. CASE ~failed
    <3> SUFFICES ASSUME NEW t \in Tunnel PROVE Accounted(t)' BY Zenon DEF Accounts
    <3>1. UNCHANGED <<used, seen, carried, unsampled, peer, counter, sample>>
      BY <1>5, <2>2, Zenon DEF ApplyDone
    <3>2. pc' # "apply" /\ (Sampled(t)' => Sampled(t))
      BY <1>5, <2>2, Zenon DEF ApplyDone, Sampled
    <3> QED BY <3>1, <3>2, Zenon DEF Accounts, Accounted
  <2> QED BY <2>1, <2>2, Zenon
<1>6. CASE SharedPassFails
  BY <1>6, AccountsKept, Zenon DEF SharedPassFails, ApplyReturnsError, Return, Forget
<1>7. ASSUME NEW t \in Tunnel, Telemetry(t) PROVE Accounts'
  <2> SUFFICES ASSUME NEW x \in Tunnel PROVE Accounted(x)' BY Zenon DEF Accounts
  <2>1. pc' = "telemetry" /\ (Sampled(x)' => x # t /\ Sampled(x)) /\ Sampled(t)
    BY <1>7, Zenon DEF Telemetry, Sampled
  <2>2. CASE x # t
    <3>1. /\ used'[x] = used[x] /\ seen'[x] = seen[x] /\ sample'[x] = sample[x]
          /\ carried'[x] = carried[x] /\ unsampled'[x] = unsampled[x]
          /\ UNCHANGED kernel
      BY <1>7, <2>2, SMTT(30) DEF Telemetry, UpdateTelemetry, RecordSample, Enforce
    <3> QED BY <2>1, <3>1, ZenonT(60) DEF Accounts, Accounted
  <2>3. CASE x = t
    <3> DEFINE due == Charge(seen[t], sample[t]) + Charge(sample[t], counter[t])
    <3>1. /\ used[t] + due <= carried[t] /\ due <= unsampled[t]
          /\ t \notin peer => counter[t] = Zero
      BY <2>1, Zenon DEF Accounts, Accounted
    <3>2. /\ seen'[t] = sample[t] /\ UNCHANGED kernel
          /\ used'[t] = (IF period[t] # now THEN 0 ELSE used[t])
                        + Charge(seen[t], sample[t])
          /\ carried'[t] = IF period[t] # now THEN unsampled[t] ELSE carried[t]
          /\ unsampled'[t] = IF t \in peer THEN Charge(sample[t], counter[t]) ELSE 0
      BY <1>7, Zenon DEF Telemetry, UpdateTelemetry, RecordSample, Enforce, TypeOK
    <3>3. t \notin peer => Charge(sample[t], counter[t]) = 0
      BY <3>1, ChargeZero, ChargesType, ZenonT(60)
    <3>4. /\ used'[t] + Charge(sample[t], counter[t]) <= carried'[t]
          /\ Charge(sample[t], counter[t]) <= unsampled'[t]
      BY <3>1, <3>2, <3>3, ChargesType, SMTT(30)
    <3>5. Charge(seen[t], counter[t])' = Charge(sample[t], counter[t])
      BY <3>2, Zenon
    <3> QED BY <2>1, <2>3, <3>1, <3>2, <3>4, <3>5, ZenonT(60) DEF Accounted
  <2> QED BY <2>2, <2>3, Zenon
<1>8. CASE TelemetryDone
  BY <1>8, AccountsKept, Zenon DEF TelemetryDone
<1>9. CASE TelemetryFails
  BY <1>9, AccountsKept, Zenon DEF TelemetryFails, Return, Forget
<1>10. CASE MarkApplied
  BY <1>10, AccountsKept, Zenon DEF MarkApplied, Return, Forget
<1>11. CASE Reconcile
  BY <1>11, AccountsKept, Zenon DEF Reconcile, Locked
<1>12. ASSUME NEW t \in Tunnel, NEW q \in Quota, CreateTunnel(t, q) PROVE Accounts'
  BY <1>12, AccountsKept, Zenon DEF CreateTunnel, Locked
<1>13. ASSUME NEW t \in Tunnel, NEW q \in Quota, SetTunnelQuota(t, q) PROVE Accounts'
  BY <1>13, AccountsKept, Zenon DEF SetTunnelQuota, Locked
<1>14. ASSUME NEW t \in Tunnel, EditTunnel(t) PROVE Accounts'
  BY <1>14, AccountsKept, Zenon DEF EditTunnel, Locked
<1>15. ASSUME NEW t \in Tunnel, ToggleRead(t) PROVE Accounts'
  BY <1>15, ZenonT(60) DEF ToggleRead, Accounts, Accounted, Sampled
<1>16. ASSUME NEW r \in toggles, SetEnabled(r) PROVE Accounts'
  BY <1>16, AccountsKept, Zenon DEF SetEnabled
<1>17. ASSUME NEW t \in Tunnel, DeleteTunnel(t) PROVE Accounts'
  <2> SUFFICES ASSUME NEW x \in Tunnel PROVE Accounted(x)' BY Zenon DEF Accounts
  <2>1. /\ counter'[x] = Zero \/ counter'[x] = counter[x]
        /\ x \notin peer' => counter'[x] = Zero
        /\ UNCHANGED <<used, seen, carried, unsampled>> /\ pc' = "delete"
    BY <1>17, ZenonT(60) DEF DeleteTunnel, Accounts, Accounted, TypeOK
  <2>2. CASE counter'[x] = Zero
    <3>1. Charge(seen'[x], counter'[x]) = 0
      BY <2>1, <2>2, ChargesType, ChargeZero, Zenon
    <3> QED BY <2>1, <3>1, ChargesType, SMTT(30) DEF Accounts, Accounted, Sampled
  <2>3. CASE counter'[x] = counter[x]
    BY <2>1, <2>3, Zenon DEF Accounts, Accounted, Sampled
  <2> QED BY <2>1, <2>2, <2>3, Zenon
<1>18. ASSUME NEW t \in Tunnel, DeleteTunnelFails(t) PROVE Accounts'
  BY <1>18, AccountsKept, Zenon DEF DeleteTunnelFails
<1>19. CASE DeleteRow
  <2> SUFFICES ASSUME NEW x \in Tunnel PROVE Accounted(x)' BY Zenon DEF Accounts
  <2>1. pc' = "idle" /\ UNCHANGED kernel BY <1>19, Zenon DEF DeleteRow, Return
  <2>2. CASE x \in todoTun
    <3>1. counter'[x] = Zero
      BY <1>19, <2>1, <2>2, ZenonT(60) DEF DeleteRow, Removed, Accounts, Accounted
    <3>2. used'[x] = 0 /\ carried'[x] = 0 /\ unsampled'[x] = 0 /\ seen'[x] = Zero
      BY <1>19, <2>2, ZenonT(60) DEF DeleteRow
    <3>3. Charge(seen'[x], counter'[x]) = 0
      BY <3>1, <3>2, ChargeZero, SMTT(30) DEF Zero, Counter
    <3>4. /\ used'[x] + Charge(seen'[x], counter'[x]) <= carried'[x]
          /\ Charge(seen'[x], counter'[x]) <= unsampled'[x]
      BY ONLY <3>2, <3>3, SMTT(30)
    <3> QED BY <2>1, <3>1, <3>4, Zenon DEF Accounted, Sampled
  <2>3. CASE x \notin todoTun
    <3>1. /\ used'[x] = used[x] /\ seen'[x] = seen[x]
          /\ carried'[x] = carried[x] /\ unsampled'[x] = unsampled[x]
      BY <1>19, <2>3, Zenon DEF DeleteRow
    <3> QED BY <2>1, <3>1, Zenon DEF Accounts, Accounted, Sampled
  <2> QED BY <2>2, <2>3, Zenon
<1>20. CASE DeleteRowFails
  BY <1>20, AccountsKept, Zenon DEF DeleteRowFails, Return, Forget
<1>21. ASSUME NEW t \in Tunnel, NEW d \in {"rx", "tx"}, Traffic(t, d) PROVE Accounts'
  <2> SUFFICES ASSUME NEW x \in Tunnel PROVE Accounted(x)' BY Zenon DEF Accounts
  <2>1. /\ UNCHANGED <<used, seen, sample, enabled, peer, pc, todoUp, todoTun, failed>>
        /\ (Sampled(x)' <=> Sampled(x))
    BY <1>21, Zenon DEF Traffic, Sampled
  <2>2. CASE x # t
    <3>1. /\ counter'[x] = counter[x]
          /\ carried'[x] = carried[x] /\ unsampled'[x] = unsampled[x]
      BY <1>21, <2>2, SMTT(30) DEF Traffic
    <3> QED BY <2>1, <3>1, ZenonT(60) DEF Accounts, Accounted
  <2>3. CASE x = t
    <3>1. /\ counter'[t] = [counter[t] EXCEPT ![d] = counter[t][d] + 1]
          /\ carried'[t] = carried[t] + 1 /\ unsampled'[t] = unsampled[t] + 1
          /\ t \in peer'
      BY <1>21, Zenon DEF Traffic, TypeOK
    <3>2. /\ counter'[t] \in Counter
          /\ Charge(seen[t], counter'[t]) <= Charge(seen[t], counter[t]) + 1
          /\ Charge(sample[t], counter'[t]) <= Charge(sample[t], counter[t]) + 1
      BY <3>1, ChargeStep, ChargesType, ZenonT(60)
    <3>3. Charge(seen[t], counter'[t]) \in Nat /\ Charge(sample[t], counter'[t]) \in Nat
      BY <3>2, ChargeType, ChargesType, Zenon
    <3>4. /\ used[t] + Charge(seen[t], counter'[t]) <= carried'[t]
          /\ Charge(seen[t], counter'[t]) <= unsampled'[t]
      BY <3>1, <3>2, <3>3, ChargesType, SMTT(30) DEF Accounts, Accounted
    <3>5. ASSUME Sampled(t)
          PROVE  LET due == Charge(seen[t], sample[t]) + Charge(sample[t], counter'[t])
                 IN  used[t] + due <= carried'[t] /\ due <= unsampled'[t]
      BY <3>1, <3>2, <3>3, <3>5, ChargesType, SMTT(30) DEF Accounts, Accounted
    <3>6. pc' = "apply" /\ t \notin enabled' => sample'[t] = seen'[t]
      BY <2>1, Zenon DEF Accounts, Accounted
    <3> QED BY <2>1, <2>3, <3>1, <3>4, <3>5, <3>6, ZenonT(60) DEF Accounted
  <2> QED BY <2>2, <2>3, Zenon
<1>22. CASE NewMonth
  BY <1>22, ZenonT(60) DEF NewMonth, Accounts, Accounted, Sampled
<1>23. CASE Crash
  BY <1>23, AccountsKept, Zenon DEF Crash, Forget
<1>24. CASE Reboot
  <2> SUFFICES ASSUME NEW x \in Tunnel PROVE Accounted(x)' BY Zenon DEF Accounts
  <2>1. /\ counter'[x] = Zero /\ pc' = "down"
        /\ UNCHANGED <<used, seen, carried, unsampled>>
    BY <1>24, Zenon DEF Reboot
  <2>2. Charge(seen'[x], counter'[x]) = 0 BY <2>1, ChargesType, ChargeZero, Zenon
  <2> QED BY <2>1, <2>2, ChargesType, SMTT(30) DEF Accounts, Accounted, Sampled
<1>25. CASE Boot
  BY <1>25, AccountsKept, Zenon DEF Boot
<1>26. CASE UNCHANGED vars
  BY <1>26, ZenonT(60) DEF vars, Accounts, Accounted, Sampled
<1> QED
  BY <1>1, <1>2, <1>3, <1>4, <1>5, <1>6, <1>7, <1>8, <1>9, <1>10, <1>11,
     <1>12, <1>13, <1>14, <1>15, <1>16, <1>17, <1>18, <1>19, <1>20, <1>21,
     <1>22, <1>23, <1>24, <1>25, <1>26, SMTT(30)
     DEF Next, Progress, Faulty, Operation, Surroundings

-----------------------------------------------------------------------------
\* The accounts balance at the start: nothing is used and nothing carried.
LEMMA AccountsInit == Init => Accounts
<1> SUFFICES ASSUME Init, NEW t \in Tunnel PROVE Accounted(t) BY Zenon DEF Accounts
<1>1. Charge(seen[t], counter[t]) = 0
  BY ChargeZero, SMTT(30) DEF Init, Zero, Counter
<1> QED BY <1>1, SMTT(30) DEF Init, Accounted, Sampled

\* The accounts balance in every reachable state.
THEOREM AccountsBalance == Spec => [](TypeOK /\ Accounts)
<1>1. Init => Accounts BY AccountsInit, Zenon
<1>2. Inv /\ Accounts /\ [Next]_vars => Accounts' BY AccountsStep, Zenon DEF Inv
<1>3. Inv => TypeOK BY Zenon DEF Inv
<1> QED BY <1>1, <1>2, <1>3, Invariance, PTL DEF Spec

\* UpdateTelemetry and the monthly reset never charge a tunnel for bytes it did
\* not carry, however its counters are reset and its samples lost.
THEOREM UsageIsSound == Spec => []NeverOvercharged
<1>1. TypeOK /\ Accounts => NeverOvercharged
  <2> SUFFICES ASSUME TypeOK, Accounts, NEW t \in tunnels PROVE used[t] <= carried[t]
    BY Zenon DEF NeverOvercharged
  <2>1. t \in Tunnel BY Zenon DEF TypeOK
  <2> QED BY <2>1, ChargesType, SMTT(30) DEF Accounts, Accounted
<1> QED BY <1>1, AccountsBalance, PTL

-----------------------------------------------------------------------------
(***************************************************************************)
(* The promise: every step of QuotaEnforcement is a step of Provisioning,  *)
(* or none.                                                                *)
(***************************************************************************)

\* DeleteTunnel deletes one tunnel, which is still on record.
Deleting == pc = "delete" => \E t \in tunnels : todoTun = {t}

\* Every step keeps a deletion to one tunnel on record.
LEMMA DeletingStep ==
  ASSUME Deleting, [Next]_vars
  PROVE  Deleting'
<1> USE DEF Deleting, columns, kernel, locals, ledger
<1>1. CASE ReconcileStart
  BY <1>1, Zenon DEF ReconcileStart, ResetMonthlyQuotas
<1>2. CASE ReconcileAborts
  BY <1>2, Zenon DEF ReconcileAborts, Fault, Return, Forget, ResetMonthlyQuotas
<1>3. ASSUME NEW u \in Upstream, ApplyUpstream(u) PROVE Deleting'
  BY <1>3, Zenon DEF ApplyUpstream, ConfigureDevice, Of
<1>4. ASSUME NEW u \in Upstream, ApplyUpstreamFails(u) PROVE Deleting'
  BY <1>4, Zenon DEF ApplyUpstreamFails, Fault, ConfigureDevice, Of
<1>5. CASE ApplyDone
  BY <1>5, Zenon DEF ApplyDone, ApplyReturnsError, Return, Forget
<1>6. CASE SharedPassFails
  BY <1>6, Zenon DEF SharedPassFails, Fault, ApplyReturnsError, Return, Forget
<1>7. ASSUME NEW t \in Tunnel, Telemetry(t) PROVE Deleting'
  BY <1>7, Zenon DEF Telemetry, UpdateTelemetry, RecordSample, Enforce
<1>8. CASE TelemetryDone
  BY <1>8, Zenon DEF TelemetryDone
<1>9. CASE TelemetryFails
  BY <1>9, Zenon DEF TelemetryFails, Fault, Return, Forget
<1>10. CASE MarkApplied
  BY <1>10, Zenon DEF MarkApplied, Return, Forget
<1>11. CASE Reconcile
  BY <1>11, Zenon DEF Reconcile, Locked
<1>12. ASSUME NEW t \in Tunnel, NEW q \in Quota, CreateTunnel(t, q) PROVE Deleting'
  BY <1>12, Zenon DEF CreateTunnel, Locked
<1>13. ASSUME NEW t \in Tunnel, NEW q \in Quota, SetTunnelQuota(t, q) PROVE Deleting'
  BY <1>13, Zenon DEF SetTunnelQuota, Locked
<1>14. ASSUME NEW t \in Tunnel, EditTunnel(t) PROVE Deleting'
  BY <1>14, Zenon DEF EditTunnel, Locked
<1>15. ASSUME NEW t \in Tunnel, ToggleRead(t) PROVE Deleting'
  BY <1>15, Zenon DEF ToggleRead
<1>16. ASSUME NEW r \in toggles, SetEnabled(r) PROVE Deleting'
  BY <1>16, Zenon DEF SetEnabled, Fault
<1>17. ASSUME NEW t \in Tunnel, DeleteTunnel(t) PROVE Deleting'
  BY <1>17, Zenon DEF DeleteTunnel
<1>18. ASSUME NEW t \in Tunnel, DeleteTunnelFails(t) PROVE Deleting'
  BY <1>18, Zenon DEF DeleteTunnelFails, Fault
<1>19. CASE DeleteRow
  BY <1>19, Zenon DEF DeleteRow, Return, Forget
<1>20. CASE DeleteRowFails
  BY <1>20, Zenon DEF DeleteRowFails, Fault, Return, Forget
<1>21. ASSUME NEW t \in Tunnel, NEW d \in {"rx", "tx"}, Traffic(t, d) PROVE Deleting'
  BY <1>21, Zenon DEF Traffic
<1>22. CASE NewMonth
  BY <1>22, Zenon DEF NewMonth
<1>23. CASE Crash
  BY <1>23, Zenon DEF Crash, Fault, Forget
<1>24. CASE Reboot
  BY <1>24, Zenon DEF Reboot, Fault
<1>25. CASE Boot
  BY <1>25, Zenon DEF Boot
<1>26. CASE UNCHANGED vars
  BY <1>26, Zenon DEF vars
<1> QED
  BY <1>1, <1>2, <1>3, <1>4, <1>5, <1>6, <1>7, <1>8, <1>9, <1>10, <1>11,
     <1>12, <1>13, <1>14, <1>15, <1>16, <1>17, <1>18, <1>19, <1>20, <1>21,
     <1>22, <1>23, <1>24, <1>25, <1>26, ZenonT(30)
     DEF Next, Progress, Faulty, Operation, Surroundings

\* Every step of the daemon is a step of the promise or changes nothing of it.
LEMMA StepImplements ==
  ASSUME Inv, Inv', Deleting, [Next]_vars
  PROVE  [Promise!Next]_(Promise!vars)
<1> USE DEF columns, kernel, locals, ledger
<1>typed. /\ tunnels \subseteq Tunnel /\ enabled \subseteq tunnels
          /\ enabled' \subseteq tunnels' /\ settled \in BOOLEAN
  BY Zenon DEF Inv, TypeOK
<1>mark. pc = "mark" => peer = enabled
  BY Zenon DEF Inv, Converging
<1>delete. pc = "delete" => todoTun \cap peer = {}
  BY Zenon DEF Inv, Removed
<1>busy. pc # "idle" => settled = FALSE
  BY <1>typed, Zenon DEF Inv, Converging
<1>1. CASE ReconcileStart
  BY <1>1, <1>typed, <1>busy, Zenon DEF ReconcileStart, ResetMonthlyQuotas,
     Promise!Decide, Promise!Next
<1>2. CASE ReconcileAborts
  BY <1>2, <1>typed, <1>busy, Zenon DEF ReconcileAborts, Fault, Return, Forget, ResetMonthlyQuotas,
     Promise!Decide, Promise!Next
<1>3. ASSUME NEW u \in Upstream, ApplyUpstream(u)
      PROVE  [Promise!Next]_(Promise!vars)
  BY <1>3, <1>typed, <1>busy, Zenon DEF ApplyUpstream, ConfigureDevice, Of,
     Promise!Program, Promise!On, Promise!Next, Promise!vars
<1>4. ASSUME NEW u \in Upstream, ApplyUpstreamFails(u)
      PROVE  [Promise!Next]_(Promise!vars)
  BY <1>4, <1>typed, <1>busy, Zenon DEF ApplyUpstreamFails, Fault, ConfigureDevice, Of,
     Promise!Program, Promise!On, Promise!Next, Promise!vars
<1>5. CASE ApplyDone
  BY <1>5, Zenon DEF ApplyDone, ApplyReturnsError, Return, Forget,
     Promise!vars
<1>6. CASE SharedPassFails
  BY <1>6, Zenon DEF SharedPassFails, Fault, ApplyReturnsError, Return, Forget,
     Promise!vars
<1>7. ASSUME NEW t \in Tunnel, Telemetry(t)
      PROVE  [Promise!Next]_(Promise!vars)
  BY <1>7, <1>typed, <1>busy, Zenon DEF Telemetry, UpdateTelemetry, RecordSample, Enforce,
     Promise!Decide, Promise!Next
<1>8. CASE TelemetryDone
  BY <1>8, Zenon DEF TelemetryDone,
     Promise!vars
<1>9. CASE TelemetryFails
  BY <1>9, Zenon DEF TelemetryFails, Fault, Return, Forget,
     Promise!vars
<1>10. CASE MarkApplied
  BY <1>10, <1>mark, Zenon DEF MarkApplied, Return, Forget,
     Promise!Agree, Promise!Next
<1>11. CASE Reconcile
  BY <1>11, <1>typed, <1>busy, Zenon DEF Reconcile, Locked,
     Promise!Decide, Promise!Next
<1>12. ASSUME NEW t \in Tunnel, NEW q \in Quota, CreateTunnel(t, q)
      PROVE  [Promise!Next]_(Promise!vars)
  BY <1>12, <1>typed, <1>busy, Zenon DEF CreateTunnel, Locked,
     Promise!Record, Promise!Next
<1>13. ASSUME NEW t \in Tunnel, NEW q \in Quota, SetTunnelQuota(t, q)
      PROVE  [Promise!Next]_(Promise!vars)
  BY <1>13, <1>typed, <1>busy, Zenon DEF SetTunnelQuota, Locked,
     Promise!Decide, Promise!Next
<1>14. ASSUME NEW t \in Tunnel, EditTunnel(t)
      PROVE  [Promise!Next]_(Promise!vars)
  BY <1>14, <1>typed, <1>busy, Zenon DEF EditTunnel, Locked,
     Promise!Decide, Promise!Next
<1>15. ASSUME NEW t \in Tunnel, ToggleRead(t)
      PROVE  [Promise!Next]_(Promise!vars)
  BY <1>15, Zenon DEF ToggleRead,
     Promise!vars
<1>16. ASSUME NEW r \in toggles, SetEnabled(r)
      PROVE  [Promise!Next]_(Promise!vars)
  BY <1>16, <1>typed, <1>busy, Zenon DEF SetEnabled, Fault,
     Promise!Decide, Promise!Next
<1>17. ASSUME NEW t \in Tunnel, DeleteTunnel(t)
      PROVE  [Promise!Next]_(Promise!vars)
  BY <1>17, <1>typed, <1>busy, Zenon DEF DeleteTunnel,
     Promise!Disconnect, Promise!Next
<1>18. ASSUME NEW t \in Tunnel, DeleteTunnelFails(t)
      PROVE  [Promise!Next]_(Promise!vars)
  BY <1>18, <1>typed, <1>busy, ZenonT(60) DEF DeleteTunnelFails, Fault,
     Promise!Decide, Promise!Next
<1>19. CASE DeleteRow
  <2>1. pc = "delete" /\ tunnels' = tunnels \ todoTun
        /\ enabled' = enabled \ todoTun /\ UNCHANGED <<peer, settled>>
    BY <1>19, Zenon DEF DeleteRow, Return, Forget
  <2>2. PICK t \in tunnels : todoTun = {t} BY <2>1, Zenon DEF Deleting
  <2>3. t \in tunnels \ peer BY <2>1, <2>2, <1>delete, ZenonT(60)
  <2>4. Promise!Forget(t)
    BY <2>1, <2>2, <2>3, <1>busy, ZenonT(60) DEF Promise!Forget
  <2> QED BY <2>4, <2>2, <1>typed, ZenonT(60) DEF Promise!Next
<1>20. CASE DeleteRowFails
  BY <1>20, Zenon DEF DeleteRowFails, Fault, Return, Forget,
     Promise!vars
<1>21. ASSUME NEW t \in Tunnel, NEW d \in {"rx", "tx"}, Traffic(t, d)
      PROVE  [Promise!Next]_(Promise!vars)
  BY <1>21, Zenon DEF Traffic,
     Promise!vars
<1>22. CASE NewMonth
  BY <1>22, Zenon DEF NewMonth,
     Promise!vars
<1>23. CASE Crash
  BY <1>23, <1>typed, <1>busy, ZenonT(60) DEF Crash, Fault, Forget,
     Promise!Decide, Promise!Next
<1>24. CASE Reboot
  BY <1>24, <1>typed, <1>busy, ZenonT(60) DEF Reboot, Fault,
     Promise!Lose, Promise!Next
<1>25. CASE Boot
  BY <1>25, Zenon DEF Boot,
     Promise!vars
<1>26. CASE UNCHANGED vars
  BY <1>26, Zenon DEF vars,
     Promise!vars
<1> QED
  BY <1>1, <1>2, <1>3, <1>4, <1>5, <1>6, <1>7, <1>8, <1>9, <1>10, <1>11,
     <1>12, <1>13, <1>14, <1>15, <1>16, <1>17, <1>18, <1>19, <1>20, <1>21,
     <1>22, <1>23, <1>24, <1>25, <1>26, ZenonT(30)
     DEF Next, Progress, Faulty, Operation, Surroundings

\* The daemon implements what the broker promises about its peers: whatever is
\* true of every behaviour of Provisioning is true of the reconciler, the
\* operations on tunnels and all their failures.
THEOREM DaemonImplementsPromise == Spec => Promise!Spec
<1>1. Init => Promise!Init BY Zenon DEF Init, Promise!Init
<1>2. Init => Deleting BY Zenon DEF Init, Deleting
<1>3. Deleting /\ [Next]_vars => Deleting' BY DeletingStep, Zenon
<1>4. Inv /\ Inv' /\ Deleting /\ [Next]_vars => [Promise!Next]_(Promise!vars)
  BY StepImplements, Zenon
<1> QED BY <1>1, <1>2, <1>3, <1>4, Invariance, PTL DEF Spec, Promise!Spec

=============================================================================
