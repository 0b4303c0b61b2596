------------------------------- MODULE Upgrade -------------------------------
(***************************************************************************)
(* The upgrade from the web: the daemon asks systemd for the one-shot      *)
(* unit, whose script fetches, tests, builds and installs a revision,      *)
(* keeps a status file that the daemon reads, and restarts the daemon.     *)
(*                                                                         *)
(* The script may be cut short at any point: by a command that fails, with *)
(* a status ("fail") or without one ("set -e"), or by a kill; a signal     *)
(* that it traps cleans up and lets it go on.  Meanwhile the branch is     *)
(* pushed to and set back.  Files of the checkout are edited by hand only  *)
(* while no upgrade runs; commits, resets and branch switches by hand are  *)
(* left out, so that HEAD is moved by the script alone.                    *)
(***************************************************************************)
EXTENDS Integers

CONSTANTS
    MaxRevision,    \* bound: revisions that are pushed, in the order of their numbers
    Good,           \* the revisions whose tests pass
    MaxFaults       \* bound: commands that fail, signals, edits by hand, branches set back

Revision == 0 .. MaxRevision
None == -1

ASSUME UpgradeAssumption ==
    /\ MaxRevision \in Nat /\ MaxFaults \in Nat
    /\ Good \subseteq Revision /\ 0 \in Good

VARIABLES
    last,       \* the last revision that was pushed
    past,       \* the ancestors of a revision
    origin,     \* the branch at the remote
    fetched,    \* origin/branch in the checkout
    head,       \* the revision of the checkout
    dirty,      \* the checkout has local changes
    temporary,  \* the revision of the binary that the script has built beside the
                \* target, None if $temporary is empty or its file is gone
    target,     \* the revision of the installed binary
    running,    \* the revision of the daemon
    status,     \* the status file: the state, and the revision of its detail
    pc,         \* the next command of the script, "idle" if the unit is inactive
    faults

repository == <<last, past, origin>>
vars == <<repository, fetched, head, dirty, temporary, target, running, status, pc, faults>>

Init ==
    /\ last = 0 /\ past = [r \in Revision |-> {}]
    /\ origin = 0 /\ fetched = 0 /\ head = 0 /\ dirty = FALSE
    /\ temporary = None /\ target = 0 /\ running = 0
    /\ status = [state |-> "never run", revision |-> None]
    /\ pc = "idle" /\ faults = 0

Count == faults < MaxFaults /\ faults' = faults + 1

-----------------------------------------------------------------------------
(***************************************************************************)
(* Around the script.                                                      *)
(***************************************************************************)
Push ==
    /\ last < MaxRevision
    /\ last' = last + 1 /\ origin' = last + 1
    /\ past' = [past EXCEPT ![last + 1] = past[origin] \cup {origin}]
    /\ UNCHANGED <<fetched, head, dirty, temporary, target, running, status, pc, faults>>

\* The branch is set back; what is pushed next diverges from what was there.
SetBack ==
    /\ Count
    /\ \E r \in past[origin] : origin' = r
    /\ UNCHANGED <<last, past, fetched, head, dirty, temporary, target, running, status, pc>>

\* Files of the checkout are edited by hand between two upgrades, or cleaned.  HEAD
\* stays where the last upgrade left it.
EditCheckout ==
    /\ Count
    /\ pc = "idle" /\ dirty' = ~dirty
    /\ UNCHANGED <<repository, fetched, head, temporary, target, running, status, pc>>

\* StartUpgrade: systemd starts the unit unless it is active.
Start ==
    /\ pc = "idle" /\ pc' = "check"
    /\ UNCHANGED <<repository, fetched, head, dirty, temporary, target, running, status, faults>>

\* The daemon ends, and systemd starts what is installed.
RestartDaemon ==
    /\ running # target /\ running' = target
    /\ UNCHANGED <<repository, fetched, head, dirty, temporary, target, status, pc, faults>>

-----------------------------------------------------------------------------
(***************************************************************************)
(* The script.                                                             *)
(***************************************************************************)
WriteStatus(s, r) == status' = [state |-> s, revision |-> r]

\* fail: the status is written and the temporary binary removed.
Fail ==
    /\ WriteStatus("failed", None)
    /\ temporary' = None
    /\ pc' = "idle"

\* The checkout must be clean.
Check ==
    /\ pc = "check"
    /\ \/ ~dirty /\ WriteStatus("running", head) /\ pc' = "fetch" /\ UNCHANGED temporary
       \/ dirty /\ Fail
    /\ UNCHANGED <<repository, fetched, head, dirty, target, running, faults>>

Fetch ==
    /\ pc = "fetch" /\ pc' = "merge"
    /\ fetched' = origin
    /\ UNCHANGED <<repository, head, dirty, temporary, target, running, status, faults>>

\* Mistake: the checkout is set to whatever was fetched.
MergeReset ==
    /\ pc = "merge"
    /\ head' = fetched /\ pc' = "test" /\ WriteStatus("running", fetched)
    /\ UNCHANGED <<repository, fetched, dirty, temporary, target, running, faults>>

\* git merge --ff-only: a checkout that is ahead stays, one that has diverged is
\* refused.
Merge ==
    /\ pc = "merge"
    /\ \/ \E r \in {head, fetched} :
             /\ head \in past[r] \cup {r} /\ fetched \in past[r] \cup {r}
             /\ head' = r /\ WriteStatus("running", r)
             /\ pc' = "test" /\ UNCHANGED temporary
       \/ /\ head \notin past[fetched] \cup {fetched}
          /\ fetched \notin past[head] \cup {head}
          /\ Fail /\ UNCHANGED head
    /\ UNCHANGED <<repository, fetched, dirty, target, running, faults>>

\* Mistake: the tests are run for the record.
TestIgnored ==
    /\ pc = "test" /\ pc' = "build"
    /\ UNCHANGED <<repository, fetched, head, dirty, temporary, target, running, status, faults>>

Test ==
    /\ pc = "test"
    /\ \/ head \in Good /\ pc' = "build" /\ UNCHANGED <<status, temporary>>
       \/ head \notin Good /\ Fail
    /\ UNCHANGED <<repository, fetched, head, dirty, target, running, faults>>

\* mktemp, go build, chmod and the version check.
Build ==
    /\ pc = "build" /\ pc' = "install"
    /\ temporary' = head
    /\ UNCHANGED <<repository, fetched, head, dirty, target, running, status, faults>>

Install ==
    /\ pc = "install" /\ pc' = "report"
    /\ temporary # None
    /\ target' = temporary /\ temporary' = None
    /\ UNCHANGED <<repository, fetched, head, dirty, running, status, faults>>

\* The trap has removed the binary: its version check or mv fails.
NothingToInstall ==
    /\ pc = "install" /\ temporary = None
    /\ \/ Fail
       \/ pc' = "idle" /\ UNCHANGED <<status, temporary>>
    /\ UNCHANGED <<repository, fetched, head, dirty, target, running, faults>>

\* Mistake: the revision that was fetched is reported.
ReportFetched ==
    /\ pc = "report" /\ pc' = "restart"
    /\ WriteStatus("succeeded", fetched)
    /\ UNCHANGED <<repository, fetched, head, dirty, temporary, target, running, faults>>

Report ==
    /\ pc = "report" /\ pc' = "restart"
    /\ WriteStatus("succeeded", head)
    /\ UNCHANGED <<repository, fetched, head, dirty, temporary, target, running, faults>>

Restart ==
    /\ pc = "restart" /\ pc' = "idle"
    /\ running' = target
    /\ UNCHANGED <<repository, fetched, head, dirty, temporary, target, status, faults>>

\* A command fails that has a "|| fail".
CommandFails ==
    /\ Count
    /\ pc \in {"check", "fetch", "merge", "test", "build", "install", "restart"}
    /\ Fail
    /\ UNCHANGED <<repository, fetched, head, dirty, target, running>>

\* A command fails that has none: the trap cleans up, the status stays.
ScriptExits ==
    /\ Count
    /\ pc # "idle" /\ pc' = "idle"
    /\ temporary' = None
    /\ UNCHANGED <<repository, fetched, head, dirty, target, running, status>>

\* A signal is trapped. The trap cleans up and does not exit.
Trapped ==
    /\ Count
    /\ temporary # None /\ temporary' = None
    /\ UNCHANGED <<repository, fetched, head, dirty, target, running, status, pc>>

\* The unit is killed, or the host goes down: the status stays, and so does the
\* binary, under a name that mktemp gives to no later script.
Kill ==
    /\ Count
    /\ pc # "idle" /\ pc' = "idle"
    /\ temporary' = None
    /\ running' \in {running, target}
    /\ UNCHANGED <<repository, fetched, head, dirty, target, status>>

Script ==
    \/ Check \/ Fetch \/ Merge \/ Test \/ Build \/ Install \/ NothingToInstall
    \/ Report \/ Restart

Next ==
    \/ Push \/ SetBack \/ EditCheckout \/ Start \/ RestartDaemon
    \/ Script \/ CommandFails \/ ScriptExits \/ Trapped \/ Kill

Spec == Init /\ [][Next]_vars

-----------------------------------------------------------------------------
TypeOK ==
    /\ last \in Revision /\ past \in [Revision -> SUBSET Revision]
    /\ origin \in Revision /\ fetched \in Revision /\ head \in Revision
    /\ temporary \in Revision \cup {None}
    /\ target \in Revision /\ running \in Revision
    /\ dirty \in BOOLEAN
    /\ status \in [state : {"never run", "running", "failed", "succeeded"},
                   revision : Revision \cup {None}]
    /\ pc \in {"idle", "check", "fetch", "merge", "test", "build", "install",
               "report", "restart"}
    /\ faults \in 0 .. MaxFaults

\* What is installed, and what runs, has passed its tests, however often the
\* script was cut short and started again and whatever was pushed meanwhile.
DeployedIsTested == {target, running} \subseteq Good

\* A status of success names the revision that is installed, until a later
\* upgrade has another status.
SucceededIsInstalled == status.state = "succeeded" => status.revision = target

\* An upgrade installs the same revision or a descendant of it, although the
\* branch may be set back and diverge ("It will refuse a dirty checkout,
\* detached HEAD, or non-fast-forward update"), as long as HEAD is moved by upgrades
\* only.
OnlyForward == [][target' = target \/ target \in past'[target']]_vars

=============================================================================
