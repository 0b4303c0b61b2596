--------------------------- MODULE Upgrade_proofs ---------------------------
(***************************************************************************)
(* What the upgrade script keeps for every number of revisions and faults. *)
(*                                                                         *)
(* The properties are not inductive as they stand.  History says what the  *)
(* repository is: ancestors of ancestors are ancestors, and a new revision *)
(* is nobody's ancestor, so that a push changes no relation between the    *)
(* revisions in use.  Stage says what each command of the script may rely  *)
(* on: at the build the revision is tested, at the report it is installed, *)
(* and while the script works the status does not claim success.           *)
(***************************************************************************)
EXTENDS Upgrade, TLAPS

Typed ==
    /\ last \in Revision /\ past \in [Revision -> SUBSET Revision]
    /\ origin \in Revision /\ fetched \in Revision /\ head \in Revision
    /\ temporary \in Revision \cup {None}
    /\ target \in Revision /\ running \in Revision

\* The revisions that exist are those up to the last.
History ==
    /\ origin <= last /\ fetched <= last /\ head <= last
    /\ \A r \in Revision : \A a \in past[r] : a <= last /\ past[a] \subseteq past[r]
    /\ target \in past[head] \cup {head}

Stage ==
    /\ {target, running} \subseteq Good
    /\ pc \in {"build", "install"} => head \in Good
    /\ pc = "install" => temporary \in {head, None}
    /\ pc \in {"report", "restart"} => target = head
    /\ pc \in {"fetch", "merge", "test", "build", "install", "report"} =>
          status.state # "succeeded"
    /\ status.state = "succeeded" => status.revision = target

Inv == Typed /\ History /\ Stage

-----------------------------------------------------------------------------
LEMMA InitInv == ASSUME Init PROVE Inv
<1>1. /\ last = 0 /\ origin = 0 /\ fetched = 0 /\ head = 0 /\ target = 0 /\ running = 0
      /\ past = [r \in Revision |-> {}]
      /\ temporary = None /\ pc = "idle" /\ status.state = "never run"
  BY Zenon DEF Init
<1>2. 0 \in Revision /\ 0 \in Good /\ 0 <= 0
  BY UpgradeAssumption, SMT DEF Revision
<1>3. Typed
  BY <1>1, <1>2, Zenon DEF Typed
<1>4. History
  BY <1>1, <1>2, Zenon DEF History
<1>5. Stage
  BY <1>1, <1>2, Zenon DEF Stage
<1>6. QED
  BY <1>3, <1>4, <1>5 DEF Inv

\* A push adds a revision above all the others.
LEMMA PushInv == ASSUME Inv, Push PROVE Inv'
<1> DEFINE n == last + 1
<1>1. n \in Revision /\ last \in Int /\ last' = n /\ origin' = n
  BY UpgradeAssumption, SMT DEF Inv, Typed, Push, Revision
<1>2. /\ past'[n] = past[origin] \cup {origin}
      /\ \A r \in Revision : r # n => past'[r] = past[r]
      /\ past' \in [Revision -> SUBSET Revision]
  BY <1>1, SMT DEF Inv, Typed, Push
<1>3. UNCHANGED <<fetched, head, temporary, target, running, status, pc>>
  BY DEF Push
<1>4. Typed'
  BY <1>1, <1>2, <1>3, Zenon DEF Inv, Typed
<1>5. \A r \in Revision : r <= last => r # n /\ r <= n
  BY <1>1, SMT DEF Revision
<1>6. ASSUME NEW r \in Revision, NEW a \in past'[r]
      PROVE  a <= last' /\ past'[a] \subseteq past'[r]
  <2>1. a \in Revision
    BY <1>2
  <2>2. CASE r = n
    <3>1. a <= last /\ past[a] \subseteq past[origin]
      BY <1>2, <2>2, Zenon DEF Inv, Typed, History
    <3>2. QED
      BY <1>1, <1>2, <1>5, <2>1, <2>2, <3>1, Zenon
  <2>3. CASE r # n
    <3>1. a <= last /\ past[a] \subseteq past[r]
      BY <1>2, <2>3, Zenon DEF Inv, History
    <3>2. QED
      BY <1>1, <1>2, <1>5, <2>1, <2>3, <3>1, Zenon
  <2>4. QED
    BY <2>2, <2>3
<1>7. History'
  <2>1. origin' <= last' /\ fetched' <= last' /\ head' <= last'
    BY <1>1, <1>3, SMT DEF Inv, Typed, History, Revision
  <2>2. target' \in past'[head'] \cup {head'}
    BY <1>2, <1>3, <1>5, Zenon DEF Inv, Typed, History
  <2>3. QED
    BY <1>6, <2>1, <2>2 DEF History
<1>8. Stage'
  BY <1>3, Zenon DEF Inv, Stage
<1>9. QED
  BY <1>4, <1>7, <1>8 DEF Inv

\* The checkout moves to a revision that has the old one among its ancestors.
LEMMA MergeInv == ASSUME Inv, Merge PROVE Inv'
<1>1. UNCHANGED <<last, past, origin, fetched, target, running>>
  BY DEF Merge, repository
<1>2. CASE Fail /\ UNCHANGED head
  <2>1. Typed' /\ History'
    BY <1>1, <1>2, Zenon DEF Inv, Typed, History, Fail
  <2>2. Stage'
    BY <1>1, <1>2, SMT DEF Inv, Typed, Stage, Fail, WriteStatus
  <2>3. QED
    BY <2>1, <2>2 DEF Inv
<1>3. ASSUME NEW r \in {head, fetched}, head \in past[r] \cup {r},
             head' = r, WriteStatus("running", r), pc' = "test", UNCHANGED temporary
      PROVE  Inv'
  <2>1. Typed'
    BY <1>1, <1>3, Zenon DEF Inv, Typed
  <2>2. target \in past[r] \cup {r}
    BY <1>3, Zenon DEF Inv, Typed, History
  <2>3. History'
    BY <1>1, <1>3, <2>2, Zenon DEF Inv, History
  <2>4. Stage'
    BY <1>1, <1>3, SMT DEF Inv, Typed, Stage, WriteStatus
  <2>5. QED
    BY <2>1, <2>3, <2>4 DEF Inv
<1>4. QED
  BY <1>2, <1>3, Zenon DEF Merge

LEMMA StepInv == ASSUME Inv, [Next]_vars PROVE Inv'
<1>1. ASSUME SetBack PROVE Inv'
  <2>1. PICK r \in past[origin] : origin' = r
    BY <1>1 DEF SetBack
  <2>2. UNCHANGED <<last, past, fetched, head, temporary, target, running, status, pc>>
    BY <1>1 DEF SetBack
  <2>3. r \in Revision /\ r <= last
    BY Zenon DEF Inv, Typed, History
  <2>4. QED
    BY <2>1, <2>2, <2>3, Zenon DEF Inv, Typed, History, Stage
<1>2. ASSUME EditCheckout \/ Start \/ UNCHANGED vars PROVE Inv'
  <2>1. UNCHANGED <<last, past, origin, fetched, head, temporary, target, running, status>>
    BY <1>2, Zenon DEF EditCheckout, Start, vars, repository
  <2>2. pc' = pc \/ pc' = "check"
    BY <1>2, Zenon DEF EditCheckout, Start, vars
  <2>3. Typed' /\ History'
    BY <2>1, Zenon DEF Inv, Typed, History
  <2>4. Stage'
    BY <2>1, <2>2, SMT DEF Inv, Stage
  <2>5. QED
    BY <2>3, <2>4 DEF Inv
<1>3. ASSUME RestartDaemon \/ Restart \/ Kill PROVE Inv'
  <2>1. UNCHANGED <<last, past, origin, fetched, head, target, status>>
    BY <1>3, Zenon DEF RestartDaemon, Restart, Kill, repository
  <2>2. /\ running' \in {running, target}
        /\ pc' \in {pc, "idle"}
        /\ temporary' \in {temporary, None}
    BY <1>3, Zenon DEF RestartDaemon, Restart, Kill
  <2>3. Typed' /\ History'
    BY <2>1, <2>2, Zenon DEF Inv, Typed, History
  <2>4. Stage'
    BY <2>1, <2>2, SMT DEF Inv, Stage
  <2>5. QED
    BY <2>3, <2>4 DEF Inv
<1>4. ASSUME Check \/ Test \/ NothingToInstall \/ CommandFails \/ ScriptExits \/ Trapped
      PROVE  Inv'
  <2>1. UNCHANGED <<last, past, origin, fetched, head, target, running>>
    BY <1>4, Zenon DEF Check, Test, NothingToInstall, CommandFails, ScriptExits,
                       Trapped, repository
  <2>2. temporary' \in {temporary, None}
    BY <1>4, Zenon DEF Check, Test, NothingToInstall, CommandFails, ScriptExits,
                       Trapped, Fail
  <2>3. Typed' /\ History'
    BY <2>1, <2>2, Zenon DEF Inv, Typed, History
  <2>4. Stage'
    BY <1>4, <2>1, <2>2, SMT
       DEF Inv, Stage, Check, Test, NothingToInstall, CommandFails, ScriptExits,
           Trapped, Fail, WriteStatus
  <2>5. QED
    BY <2>3, <2>4 DEF Inv
<1>5. ASSUME Fetch PROVE Inv'
  <2>1. Typed' /\ History'
    BY <1>5, Zenon DEF Inv, Typed, History, Fetch, repository
  <2>2. Stage'
    BY <1>5, SMT DEF Inv, Stage, Fetch
  <2>3. QED
    BY <2>1, <2>2 DEF Inv
<1>6. ASSUME Build PROVE Inv'
  <2>1. Typed' /\ History'
    BY <1>6, Zenon DEF Inv, Typed, History, Build, repository
  <2>2. Stage'
    BY <1>6, SMT DEF Inv, Stage, Build
  <2>3. QED
    BY <2>1, <2>2 DEF Inv
<1>7. ASSUME Install PROVE Inv'
  <2>1. target' = head /\ head \in Good
    BY <1>7, Zenon DEF Inv, Stage, Install
  <2>2. Typed' /\ History'
    BY <1>7, <2>1, Zenon DEF Inv, Typed, History, Install, repository
  <2>3. Stage'
    BY <1>7, <2>1, SMT DEF Inv, Stage, Install
  <2>4. QED
    BY <2>2, <2>3 DEF Inv
<1>8. ASSUME Report PROVE Inv'
  <2>1. Typed' /\ History'
    BY <1>8, Zenon DEF Inv, Typed, History, Report, repository
  <2>2. Stage'
    BY <1>8, SMT DEF Inv, Stage, Report, WriteStatus
  <2>3. QED
    BY <2>1, <2>2 DEF Inv
<1>9. QED
  BY <1>1, <1>2, <1>3, <1>4, <1>5, <1>6, <1>7, <1>8, PushInv, MergeInv, Zenon
     DEF Next, Script

LEMMA Invariance == Spec => []Inv
<1>1. Init => Inv
  BY InitInv
<1>2. Inv /\ [Next]_vars => Inv'
  BY StepInv
<1>3. QED
  BY <1>1, <1>2, PTL DEF Spec

-----------------------------------------------------------------------------
\* The other variables have their types, independently of Inv.
LEMMA StatusType ==
  ASSUME TypeOK, [Next]_vars
  PROVE  status' \in [state : {"never run", "running", "failed", "succeeded"},
                      revision : Revision \cup {None}]
<1> DEFINE Statuses == [state : {"never run", "running", "failed", "succeeded"},
                        revision : Revision \cup {None}]
<1>1. head \in Revision \cup {None} /\ fetched \in Revision \cup {None} /\ status \in Statuses
  BY Zenon DEF TypeOK
<1>2. ASSUME NEW s \in {"running", "failed", "succeeded"},
             NEW r \in Revision \cup {None}, WriteStatus(s, r)
      PROVE  status' \in Statuses
  BY <1>2, Zenon DEF WriteStatus
<1>3. Fail => status' \in Statuses
  BY <1>2, Zenon DEF Fail
<1> HIDE DEF Statuses
<1>4. status' \in Statuses
  <2>1. ASSUME Merge PROVE status' \in Statuses
    BY <1>1, <1>2, <1>3, <2>1, Zenon DEF Merge
  <2>2. QED
    BY <1>1, <1>2, <1>3, <2>1, Zenon
       DEF Next, Script, vars, Push, SetBack, EditCheckout, Start, RestartDaemon, Check,
           Fetch, Test, Build, Install, NothingToInstall, Report, Restart,
           CommandFails, ScriptExits, Trapped, Kill
<1>5. QED
  BY <1>4, ZenonT(60) DEF Statuses

\* Every variable keeps its type.
THEOREM TypeCorrect == Spec => []TypeOK
<1> DEFINE Others == /\ dirty \in BOOLEAN
                     /\ pc \in {"idle", "check", "fetch", "merge", "test", "build",
                                "install", "report", "restart"}
<1>1. Init => TypeOK
  <2>1. ASSUME Init PROVE faults \in 0 .. MaxFaults
    <3>1. faults = 0
      BY <2>1, Zenon DEF Init
    <3>2. QED
      BY <3>1, UpgradeAssumption, SMT
  <2>2. ASSUME Init
        PROVE  status \in [state : {"never run", "running", "failed", "succeeded"},
                           revision : Revision \cup {None}]
    <3>1. status = [state |-> "never run", revision |-> None]
      BY <2>2, Zenon DEF Init
    <3>2. QED
      BY <3>1, Zenon
  <2>3. ASSUME Init PROVE Others
    BY <2>3, Zenon DEF Init
  <2>4. QED
    BY <2>1, <2>2, <2>3, InitInv, Zenon DEF TypeOK, Inv, Typed
<1>2. ASSUME TypeOK, Inv', [Next]_vars PROVE TypeOK'
  <2>1. Others'
    BY <1>2, ZenonT(60)
       DEF TypeOK, Next, Script, vars, Push, SetBack, EditCheckout, Start, RestartDaemon,
           Check, Fetch, Merge, Test, Build, Install, NothingToInstall, Report, Restart,
           CommandFails, ScriptExits, Trapped, Kill, Fail
  <2>2. faults' = faults \/ (faults < MaxFaults /\ faults' = faults + 1)
    BY <1>2, Zenon
       DEF Next, Script, vars, Push, SetBack, EditCheckout, Start, RestartDaemon, Check,
           Fetch, Merge, Test, Build, Install, NothingToInstall, Report, Restart,
           CommandFails, ScriptExits, Trapped, Kill, Count
  <2>3. faults' \in 0 .. MaxFaults
    <3>1. faults \in 0 .. MaxFaults
      BY <1>2, Zenon DEF TypeOK
    <3>2. QED
      BY <2>2, <3>1, UpgradeAssumption, SMT
  <2>4. QED
    BY <1>2, <2>1, <2>3, StatusType, Zenon DEF TypeOK, Inv, Typed
<1>3. QED
  BY <1>1, <1>2, Invariance, PTL DEF Spec

-----------------------------------------------------------------------------
\* The installed binary and the running daemon are of revisions whose tests
\* passed, wherever the script is cut short.
THEOREM DeployedAreTested == Spec => []DeployedIsTested
<1>1. Inv => DeployedIsTested
  BY DEF Inv, Stage, DeployedIsTested
<1>2. QED
  BY <1>1, Invariance, PTL

\* A status of success names the revision that is installed.
THEOREM SuccessIsInstalled == Spec => []SucceededIsInstalled
<1>1. Inv => SucceededIsInstalled
  BY DEF Inv, Stage, SucceededIsInstalled
<1>2. QED
  BY <1>1, Invariance, PTL

\* No upgrade installs a revision that the installed one is not an ancestor of,
\* however the branch is rewritten.
THEOREM UpgradesGoForward == Spec => OnlyForward
<1>1. ASSUME Inv, [Next]_vars
      PROVE  target' = target \/ target \in past'[target']
  <2>1. CASE Install
    <3>1. target' = head /\ past' = past
      BY <1>1, <2>1, Zenon DEF Inv, Stage, Install, repository
    <3>2. QED
      BY <1>1, <3>1, Zenon DEF Inv, History
  <2>2. CASE ~Install
    BY <1>1, <2>2, Zenon
       DEF Next, Script, vars, Push, SetBack, EditCheckout, Start, RestartDaemon, Check,
           Fetch, Merge, Test, Build, NothingToInstall, Report, Restart, CommandFails,
           ScriptExits, Trapped, Kill
  <2>3. QED
    BY <2>1, <2>2
<1>2. Inv /\ [Next]_vars => [target' = target \/ target \in past'[target']]_vars
  BY <1>1
<1>3. QED
  BY <1>2, Invariance, PTL DEF Spec, OnlyForward
=============================================================================
