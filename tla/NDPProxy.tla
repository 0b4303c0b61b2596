------------------------------ MODULE NDPProxy ------------------------------
(***************************************************************************)
(* ndp_linux.go and the proxy sets of ndp.go: one listener per egress      *)
(* interface answers Neighbor Discovery for the blocks of the tunnels of   *)
(* on-link upstreams.                                                      *)
(*                                                                         *)
(* Three kinds of goroutines interleave: the reconcile, which configures   *)
(* the listeners as the last of the shared passes; the shutdown, which     *)
(* closes them without App.mu; and a packet loop per listener, which takes *)
(* no lock and reads the address set through an atomic pointer.            *)
(*                                                                         *)
(* The lock is ndpProxyManager.mu; a responder's own mu is only ever taken *)
(* under it.                                                               *)
(***************************************************************************)
EXTENDS Integers, FiniteSets

CONSTANTS
    Interface,    \* names of egress interfaces
    Upstream,
    Tunnel,
    UpstreamOf,   \* the upstream of a tunnel
    Address,      \* the addresses of delegated prefixes
    PrefixOf,     \* the addresses of an upstream's prefix
    BlockOf,      \* the addresses of a tunnel's block
    LinkAtStart,  \* the indices of the interfaces at the start
    HostsAtStart, \* what the host's addresses may be at the start
    FirstIndex,   \* an index larger than those
    Fd,           \* descriptor numbers
    MaxFaults,    \* bound: failing calls and crashes
    MaxChanges    \* bound: changes to rows, links and host addresses, shutdowns

ASSUME NDPAssumption ==
    /\ UpstreamOf \in [Tunnel -> Upstream]
    /\ PrefixOf \in [Upstream -> SUBSET Address]
    /\ BlockOf \in [Tunnel -> SUBSET Address]
    /\ \A t \in Tunnel : BlockOf[t] \subseteq PrefixOf[UpstreamOf[t]]
    /\ \A u, v \in Upstream : u # v => PrefixOf[u] \cap PrefixOf[v] = {}
    /\ FirstIndex \in Nat
    /\ LinkAtStart \in [Interface -> 1 .. FirstIndex - 1]
    /\ \A i, j \in Interface : LinkAtStart[i] = LinkAtStart[j] => i = j
    /\ HostsAtStart \subseteq [Interface -> SUBSET Address]
    /\ Address # {}
    /\ Fd \subseteq Nat \ {0}
    /\ MaxFaults \in Nat /\ MaxChanges \in Nat

VARIABLES
    \* the database
    enabled,      \* the enabled tunnels
    onLink,       \* the upstreams in on-link mode
    egress,       \* the egress interface of an upstream
    \* the host
    link,         \* the index of the interface of a name, 0 if there is none
    nextIndex,    \* the index that the next interface gets
    host,         \* the host's addresses on an interface
    fd,           \* what a descriptor of the process is: 0 closed, -1 something
                  \* else, and a packet socket bound to the index otherwise
    \* ndpProxyManager
    holder,       \* who holds its lock
    sock,         \* the socket of the listener on an interface, 0 if there is none
    current,      \* its address set
    closing,      \* the listener whose packet loop the holder waits for
    todoClose,    \* the listeners it has yet to close
    todoSet,      \* the interfaces it has yet to configure
    \* the reconcile
    pc,
    healthy,      \* the upstreams whose device was configured
    sets,         \* the address sets to install
    failed,       \* an error is kept for the end of Apply
    second,       \* this is the Apply after a quota was reached
    drift,        \* Health shows drift of the proxies
    life,         \* of the process
    \* the packet loops
    loop,         \* where the loop of an interface is
    loopSock,     \* the socket that it was started with
    stopped,      \* its stop channel is closed
    frame,        \* the target of the solicitation that it handles
    \* observation
    faults,
    changes,
    steady,       \* nothing changed since the reconcile read the addresses
    fresh         \* loops whose solicitation came after the last reconcile

rows      == <<enabled, onLink, egress>>
links     == <<link, nextIndex, host>>
manager   == <<holder, sock, current, closing, todoClose, todoSet>>
reconcile == <<pc, healthy, sets, failed, second, drift>>
loops     == <<loop, loopSock, stopped, frame>>
ghosts    == <<faults, changes, steady, fresh>>
vars      == <<rows, links, fd, manager, reconcile, life, loops, ghosts>>

ProxySet == [delegated : SUBSET Tunnel, local : SUBSET Address]

NoSet == [delegated |-> {}, local |-> {}]

Running == {i \in Interface : sock[i] # 0}

-----------------------------------------------------------------------------
\* ndpProxySet.shouldAnswer: a delegated address, unless the host has it.
Answers(set) == (UNION {BlockOf[t] : t \in set.delegated}) \ set.local

\* ndpProxySetFor: the blocks of the enabled tunnels of an on-link upstream, and
\* the host's addresses in its prefix.
SetFor(u) ==
    [delegated |-> {t \in enabled : UpstreamOf[t] = u},
     local     |-> host[egress[u]] \cap PrefixOf[u]]

\* Mistake: of two upstreams on one interface the set of one is kept.
SetsForLast(upstreams) ==
    LET proxied == {u \in upstreams \cap onLink : SetFor(u).delegated # {}}
    IN  [i \in {egress[u] : u \in proxied} |->
            SetFor(CHOOSE u \in proxied : egress[u] = i)]

\* ndpProxySetsFor: the sets of the on-link upstreams, merged by interface;
\* interfaces with nothing to answer for have none.
SetsFor(upstreams) ==
    LET proxied == {u \in upstreams \cap onLink : SetFor(u).delegated # {}}
    IN  [i \in {egress[u] : u \in proxied} |->
            LET on == {u \in proxied : egress[u] = i}
            IN  [delegated |-> UNION {SetFor(u).delegated : u \in on},
                 local     |-> UNION {SetFor(u).local : u \in on}]]

\* upstreamLocalAddresses fails on an interface that does not exist.
Unreadable(upstreams) == \E u \in upstreams \cap onLink : link[egress[u]] = 0

\* Apply returns: its local variables are gone.
ApplyReturns == healthy' = {} /\ sets' = [i \in {} |-> NoSet]

\* What is in a frame buffer between two solicitations does not matter.
NoTarget == CHOOSE a \in Address : TRUE

Fault == faults < MaxFaults /\ faults' = faults + 1
NoFault == UNCHANGED faults

\* A row, a link or an address of the host changes.
Change == changes < MaxChanges /\ changes' = changes + 1 /\ steady' = FALSE

\* The last reconcile succeeded and everything is as it was when it read it.
Settled == steady /\ ~failed /\ pc \in {"idle", "telemetry"} /\ life = "up"

-----------------------------------------------------------------------------
\* The reconcile. Its callers hold App.mu, so there is one at a time.

\* Operations, and the monthly reset of quotas, change a row and reconcile.
SetEnabled(t) ==
    /\ pc = "idle" /\ life = "up"
    /\ Change
    /\ enabled' = IF t \in enabled THEN enabled \ {t} ELSE enabled \cup {t}
    /\ pc' = "apply" /\ second' = FALSE
    /\ UNCHANGED <<onLink, egress, links, fd, manager, healthy, sets, failed,
                   drift, life, loops, faults, fresh>>

UpdateUpstream(u, mode, i) ==
    /\ pc = "idle" /\ life = "up"
    /\ Change
    /\ onLink' = IF mode = "on-link" THEN onLink \cup {u} ELSE onLink \ {u}
    /\ egress' = [egress EXCEPT ![u] = i]
    /\ pc' = "apply" /\ second' = FALSE
    /\ UNCHANGED <<enabled, links, fd, manager, healthy, sets, failed,
                   drift, life, loops, faults, fresh>>

\* RunReconciler. Its select may take a tick although its context was cancelled.
Tick ==
    /\ pc = "idle" /\ life # "down"
    /\ pc' = "apply" /\ second' = FALSE
    /\ UNCHANGED <<rows, links, fd, manager, healthy, sets, failed, drift, life,
                   loops, ghosts>>

\* Early returns of reconcileLocked.
ReconcileAborts ==
    /\ pc = "apply" /\ ~second
    /\ Fault
    /\ pc' = "idle"
    /\ UNCHANGED <<rows, links, fd, manager, healthy, sets, failed, second, drift,
                   life, loops, changes, steady, fresh>>

\* Apply visits the upstreams. One that is on-link needs its egress interface
\* (pinUpstreamNeighbors); others may fail for their own reasons.
ApplyUpstreams(ok) ==
    /\ pc = "apply"
    /\ LET able == {u \in Upstream : u \in onLink => link[egress[u]] # 0}
       IN  IF ok = able THEN NoFault ELSE ok \subseteq able /\ Fault
    /\ healthy' = ok
    /\ failed' = (ok # Upstream)
    /\ pc' = "shared"
    /\ UNCHANGED <<rows, links, fd, manager, sets, second, drift, life, loops,
                   changes, steady, fresh>>

\* A shared pass before the proxies fails, or an address or a flag of an egress
\* interface cannot be read or written: the listeners stay as they are.
SharedPassFails ==
    /\ pc = "shared"
    /\ IF Unreadable(healthy) THEN NoFault ELSE Fault
    /\ failed' = TRUE
    /\ pc' = "idle"
    /\ ApplyReturns
    /\ UNCHANGED <<rows, links, fd, manager, second, drift, life, loops, changes,
                   steady, fresh>>

\* applyNDPProxy up to the call of Configure.
ApplyNDPProxy ==
    /\ pc = "shared"
    /\ ~Unreadable(healthy)
    /\ sets' = SetsFor(healthy)
    /\ steady' = TRUE
    /\ pc' = "configure"
    /\ UNCHANGED <<rows, links, fd, manager, healthy, failed, second, drift, life,
                   loops, faults, changes, fresh>>

\* Mistake: listeners are opened and updated, never closed.
ConfigureLockKeeps ==
    /\ pc = "configure" /\ holder = "none"
    /\ holder' = "reconcile"
    /\ todoClose' = {}
    /\ todoSet' = DOMAIN sets
    /\ UNCHANGED <<rows, links, fd, sock, current, closing, reconcile, life, loops,
                   ghosts>>

\* Configure takes the lock. It closes listeners with nothing to answer for
\* before it visits the sets.
ConfigureLock ==
    /\ pc = "configure" /\ holder = "none"
    /\ holder' = "reconcile"
    /\ todoClose' = {i \in Running : i \notin DOMAIN sets}
    /\ todoSet' = DOMAIN sets
    /\ UNCHANGED <<rows, links, fd, sock, current, closing, reconcile, life, loops,
                   ghosts>>

\* The responder has a socket: the packet loop finds the new set.
UpdateResponder(i) ==
    /\ holder = "reconcile" /\ todoClose = {} /\ i \in todoSet
    /\ sock[i] # 0
    /\ current' = [current EXCEPT ![i] = sets[i]]
    /\ todoSet' = todoSet \ {i}
    /\ UNCHANGED <<rows, links, fd, holder, sock, closing, todoClose, reconcile,
                   life, loops, ghosts>>

\* openNDPSocket: a packet socket that sees the solicitations of one interface.
OpenSocket(index, n) == fd[n] = 0 /\ fd' = [fd EXCEPT ![n] = index]

\* It has none: one is opened and bound to the interface, the set is stored, and
\* the packet loop starts.
StartResponder(i) ==
    /\ holder = "reconcile" /\ todoClose = {} /\ i \in todoSet
    /\ sock[i] = 0 /\ link[i] # 0
    /\ \E n \in Fd :
          /\ OpenSocket(link[i], n)
          /\ sock' = [sock EXCEPT ![i] = n]
          /\ loopSock' = [loopSock EXCEPT ![i] = n]
    /\ current' = [current EXCEPT ![i] = sets[i]]
    /\ loop' = [loop EXCEPT ![i] = "check"]
    /\ stopped' = [stopped EXCEPT ![i] = FALSE]
    /\ todoSet' = todoSet \ {i}
    /\ UNCHANGED <<rows, links, holder, closing, todoClose, reconcile, life, frame,
                   ghosts>>

\* Mistake: openNDPSocket returns without closing the descriptor.
StartFailsOpen(i) ==
    /\ holder = "reconcile" /\ todoClose = {} /\ i \in todoSet
    /\ sock[i] = 0 /\ link[i] # 0
    /\ Fault
    /\ \E n \in Fd : OpenSocket(link[i], n)
    /\ failed' = TRUE
    /\ todoSet' = todoSet \ {i}
    /\ UNCHANGED <<rows, links, holder, sock, current, closing, todoClose, pc,
                   healthy, sets, second, drift, life, loops, changes, steady, fresh>>

\* The interface is gone, has no Ethernet address, or gives no socket; what was
\* opened is closed again and the sweep goes on.
StartFails(i) ==
    /\ holder = "reconcile" /\ todoClose = {} /\ i \in todoSet
    /\ sock[i] = 0
    /\ IF link[i] = 0 \/ (\A n \in Fd : fd[n] # 0) THEN NoFault ELSE Fault
    /\ failed' = TRUE
    /\ todoSet' = todoSet \ {i}
    /\ UNCHANGED <<rows, links, fd, holder, sock, current, closing, todoClose, pc,
                   healthy, sets, second, drift, life, loops, changes, steady, fresh>>

\* Configure and Apply return. Telemetry and Inspect follow a success.
ConfigureDone ==
    /\ holder = "reconcile" /\ todoClose = {} /\ todoSet = {}
    /\ holder' = "none"
    /\ pc' = IF failed THEN "idle" ELSE "telemetry"
    /\ fresh' = {}
    /\ ApplyReturns
    /\ UNCHANGED <<rows, links, fd, sock, current, closing, todoClose, todoSet,
                   failed, second, drift, life, loops, faults, changes, steady>>

\* Samples reach the quotas of tunnels: Apply runs a second time.
QuotaHit(hit) ==
    /\ pc = "telemetry" /\ ~second
    /\ hit # {} /\ hit \subseteq enabled
    /\ Change
    /\ enabled' = enabled \ hit
    /\ pc' = "apply" /\ second' = TRUE
    /\ UNCHANGED <<onLink, egress, links, fd, manager, healthy, sets, failed,
                   drift, life, loops, faults, fresh>>

\* A sample cannot be stored: quotas that were reached before it stay reached
\* and nothing is applied.
TelemetryFails(hit) ==
    /\ pc = "telemetry" /\ ~second
    /\ hit \subseteq enabled
    /\ Fault
    /\ enabled' = enabled \ hit
    /\ steady' = (steady /\ hit = {})
    /\ pc' = "idle"
    /\ UNCHANGED <<onLink, egress, links, fd, manager, healthy, sets, failed,
                   second, drift, life, loops, changes, fresh>>

\* inspectNDPProxy compares the sets that should run with those that do.
Inspect ==
    /\ pc = "telemetry" /\ holder = "none"
    /\ drift' = \/ Unreadable(Upstream)
                \/ SetsFor(Upstream) # [i \in Running |-> current[i]]
    /\ pc' = "idle"
    /\ UNCHANGED <<rows, links, fd, manager, healthy, sets, failed, second, life,
                   loops, ghosts>>

\* Another part of Inspect fails: Health shows the error and no drift.
InspectFails ==
    /\ pc = "telemetry"
    /\ Fault
    /\ drift' = FALSE
    /\ pc' = "idle"
    /\ UNCHANGED <<rows, links, fd, manager, healthy, sets, failed, second, life,
                   loops, changes, steady, fresh>>

-----------------------------------------------------------------------------
\* Closing a listener, from Configure or from Close.

\* stopLocked closes the stop channel and waits.
CloseResponder(i) ==
    /\ holder # "none" /\ closing = {} /\ i \in todoClose
    /\ stopped' = [stopped EXCEPT ![i] = TRUE]
    /\ closing' = {i}
    /\ UNCHANGED <<rows, links, fd, holder, sock, current, todoClose, todoSet,
                   reconcile, life, loop, loopSock, frame, ghosts>>

\* Mistake: the descriptor is closed at once.
CloseSocketEarly(i) ==
    /\ closing = {i}
    /\ fd' = [fd EXCEPT ![sock[i]] = 0]
    /\ sock' = [sock EXCEPT ![i] = 0]
    /\ current' = [current EXCEPT ![i] = NoSet]
    /\ closing' = {} /\ todoClose' = todoClose \ {i}
    /\ UNCHANGED <<rows, links, holder, todoSet, reconcile, life, loops, ghosts>>

\* The loop is finished: the descriptor is closed and the responder deleted.
CloseSocket(i) ==
    /\ closing = {i} /\ loop[i] = "none"
    /\ fd' = [fd EXCEPT ![sock[i]] = 0]
    /\ sock' = [sock EXCEPT ![i] = 0]
    /\ current' = [current EXCEPT ![i] = NoSet]
    /\ closing' = {} /\ todoClose' = todoClose \ {i}
    /\ UNCHANGED <<rows, links, holder, todoSet, reconcile, life, loops, ghosts>>

-----------------------------------------------------------------------------
\* The process: App.Close takes the manager's lock but not App.mu, so a reconcile
\* may be under way and may open listeners again before the process exits.

Signal ==
    /\ life = "up"
    /\ changes < MaxChanges /\ changes' = changes + 1
    /\ life' = "closing"
    /\ UNCHANGED <<rows, links, fd, manager, reconcile, loops, faults, steady, fresh>>

CloseLock ==
    /\ life = "closing" /\ holder = "none"
    /\ holder' = "close"
    /\ todoClose' = Running
    /\ UNCHANGED <<rows, links, fd, sock, current, closing, todoSet, reconcile, life,
                   loops, ghosts>>

CloseDone ==
    /\ holder = "close" /\ todoClose = {}
    /\ holder' = "none"
    /\ life' = "closed"
    /\ UNCHANGED <<rows, links, fd, sock, current, closing, todoClose, todoSet,
                   reconcile, loops, ghosts>>

\* What the process had is gone: memory, goroutines and descriptors.
ProcessEnds ==
    /\ life' = "down"
    /\ fd' = [n \in Fd |-> 0]
    /\ holder' = "none" /\ closing' = {} /\ todoClose' = {} /\ todoSet' = {}
    /\ sock' = [i \in Interface |-> 0]
    /\ current' = [i \in Interface |-> NoSet]
    /\ pc' = "idle" /\ ApplyReturns
    /\ failed' = FALSE /\ second' = FALSE /\ drift' = FALSE
    /\ loop' = [i \in Interface |-> "none"]
    /\ loopSock' = [i \in Interface |-> 0]
    /\ stopped' = [i \in Interface |-> FALSE]
    /\ frame' = [i \in Interface |-> NoTarget]
    /\ steady' = FALSE /\ fresh' = {}
    /\ UNCHANGED <<rows, links, changes>>

Exit == life = "closed" /\ NoFault /\ ProcessEnds

Crash == life # "down" /\ Fault /\ ProcessEnds

\* main reconciles before it serves.
Boot ==
    /\ life = "down"
    /\ life' = "up" /\ pc' = "apply"
    /\ UNCHANGED <<rows, links, fd, manager, healthy, sets, failed, second, drift,
                   loops, ghosts>>

-----------------------------------------------------------------------------
\* The packet loop: serve.

LoopCheck(i) ==
    /\ loop[i] = "check"
    /\ loop' = [loop EXCEPT ![i] = IF stopped[i] THEN "none" ELSE "receive"]
    /\ UNCHANGED <<rows, links, fd, manager, reconcile, life, loopSock, stopped,
                   frame, ghosts>>

\* A solicitation for address a arrives, on the interface the socket is bound to.
Receive(i, a) ==
    /\ loop[i] = "receive"
    /\ \E j \in Interface : link[j] # 0 /\ link[j] = fd[loopSock[i]]
    /\ loop' = [loop EXCEPT ![i] = "answer"]
    /\ frame' = [frame EXCEPT ![i] = a]
    /\ fresh' = IF Settled THEN fresh \cup {i} ELSE fresh \ {i}
    /\ UNCHANGED <<rows, links, fd, manager, reconcile, life, loopSock, stopped,
                   faults, changes, steady>>

\* The receive times out after a second or is interrupted, the frame is not a
\* valid solicitation of another host, or the socket has an error; after an
\* error the stop channel is looked at once more.
ReceiveNothing(i) ==
    /\ loop[i] = "receive"
    /\ \/ loop' = [loop EXCEPT ![i] = "check"]
       \/ stopped[i] /\ loop' = [loop EXCEPT ![i] = "none"]
    /\ UNCHANGED <<rows, links, fd, manager, reconcile, life, loopSock, stopped,
                   frame, ghosts>>

\* The loop goes on to send the answer, or drops the frame.
Decide(i, yes) ==
    /\ loop' = [loop EXCEPT ![i] = IF yes THEN "send" ELSE "check"]
    /\ frame' = IF yes THEN frame ELSE [frame EXCEPT ![i] = NoTarget]
    /\ UNCHANGED <<rows, links, fd, manager, reconcile, life, loopSock, stopped,
                   ghosts>>

\* Mistake: the decision takes the lock.
AnswerLocked(i) ==
    /\ loop[i] = "answer" /\ holder = "none"
    /\ Decide(i, frame[i] \in Answers(current[i]))

\* Mistake: the host's own addresses are answered for.
AnswerAll(i) ==
    /\ loop[i] = "answer"
    /\ Decide(i, \E t \in current[i].delegated : frame[i] \in BlockOf[t])

\* answer loads the address set and decides.
Answer(i) ==
    /\ loop[i] = "answer"
    /\ Decide(i, frame[i] \in Answers(current[i]))

Send(i) ==
    /\ loop[i] = "send"
    /\ loop' = [loop EXCEPT ![i] = "check"]
    /\ frame' = [frame EXCEPT ![i] = NoTarget]
    /\ UNCHANGED <<rows, links, fd, manager, reconcile, life, loopSock, stopped,
                   ghosts>>

-----------------------------------------------------------------------------
\* The host around the process.

LinkDown(i) ==
    /\ link[i] # 0
    /\ Change
    /\ link' = [link EXCEPT ![i] = 0]
    /\ host' = [host EXCEPT ![i] = {}]
    /\ UNCHANGED <<rows, nextIndex, fd, manager, reconcile, life, loops, faults, fresh>>

LinkUp(i) ==
    /\ link[i] = 0
    /\ Change
    /\ link' = [link EXCEPT ![i] = nextIndex]
    /\ nextIndex' = nextIndex + 1
    /\ UNCHANGED <<rows, host, fd, manager, reconcile, life, loops, faults, fresh>>

\* The host gets or loses an address.
HostAddress(i, a) ==
    /\ link[i] # 0
    /\ Change
    /\ host' = [host EXCEPT ![i] = IF a \in @ THEN @ \ {a} ELSE @ \cup {a}]
    /\ UNCHANGED <<rows, link, nextIndex, fd, manager, reconcile, life, loops, faults,
                   fresh>>

\* The rest of the process opens and closes descriptors.
OtherOpens(n) ==
    /\ life # "down" /\ fd[n] = 0
    /\ fd' = [fd EXCEPT ![n] = -1]
    /\ UNCHANGED <<rows, links, manager, reconcile, life, loops, ghosts>>

OtherCloses(n) ==
    /\ fd[n] = -1
    /\ fd' = [fd EXCEPT ![n] = 0]
    /\ UNCHANGED <<rows, links, manager, reconcile, life, loops, ghosts>>

-----------------------------------------------------------------------------
\* Any database and any addresses; the process is not running.
Init ==
    /\ enabled \in SUBSET Tunnel
    /\ onLink \in SUBSET Upstream
    /\ egress \in [Upstream -> Interface]
    /\ link = LinkAtStart
    /\ nextIndex = FirstIndex
    /\ host \in HostsAtStart
    /\ fd = [n \in Fd |-> 0]
    /\ holder = "none" /\ closing = {} /\ todoClose = {} /\ todoSet = {}
    /\ sock = [i \in Interface |-> 0]
    /\ current = [i \in Interface |-> NoSet]
    /\ pc = "idle" /\ healthy = {} /\ sets = [i \in {} |-> NoSet]
    /\ failed = FALSE /\ second = FALSE /\ drift = FALSE
    /\ life = "down"
    /\ loop = [i \in Interface |-> "none"]
    /\ loopSock = [i \in Interface |-> 0]
    /\ stopped = [i \in Interface |-> FALSE]
    /\ frame = [i \in Interface |-> NoTarget]
    /\ faults = 0 /\ changes = 0 /\ steady = FALSE /\ fresh = {}

\* The steps of the holder of the lock and of the reconcile that need no fault.
Progress ==
    \/ \E ok \in SUBSET Upstream : ApplyUpstreams(ok)
    \/ SharedPassFails \/ ApplyNDPProxy \/ ConfigureDone \/ Inspect
    \/ \E i \in Interface : UpdateResponder(i) \/ StartResponder(i) \/ StartFails(i)

Closing ==
    \/ \E i \in Interface : CloseResponder(i) \/ CloseSocket(i)
    \/ CloseDone

LoopStep(i) ==
    \/ LoopCheck(i) \/ ReceiveNothing(i) \/ Answer(i) \/ Send(i)
    \/ \E a \in Address : Receive(i, a)

Next ==
    \/ Tick \/ ConfigureLock \/ Progress \/ Closing
    \/ ReconcileAborts \/ InspectFails
    \/ \E t \in Tunnel : SetEnabled(t)
    \/ \E hit \in SUBSET Tunnel : QuotaHit(hit) \/ TelemetryFails(hit)
    \/ \E u \in Upstream, mode \in {"routed", "on-link"}, i \in Interface :
          UpdateUpstream(u, mode, i)
    \/ Signal \/ CloseLock \/ Exit \/ Crash \/ Boot
    \/ \E i \in Interface : LoopStep(i) \/ LinkDown(i) \/ LinkUp(i)
    \/ \E i \in Interface, a \in Address : HostAddress(i, a)
    \/ \E n \in Fd : OtherOpens(n) \/ OtherCloses(n)

Spec == Init /\ [][Next]_vars

\* The goroutines run, a receive returns within its timeout, the ticker ticks
\* until the shutdown, and the Go mutex hands over to a waiter that has starved.
Fairness ==
    /\ WF_vars(Progress) /\ WF_vars(Closing) /\ WF_vars(Exit)
    /\ WF_vars(life = "up" /\ Tick)
    /\ SF_vars(ConfigureLock) /\ SF_vars(CloseLock)
    /\ \A i \in Interface : WF_vars(LoopStep(i))

FairSpec == Spec /\ Fairness

-----------------------------------------------------------------------------
\* Types.
TypeOK ==
    /\ enabled \subseteq Tunnel /\ onLink \subseteq Upstream
    /\ egress \in [Upstream -> Interface]
    /\ link \in [Interface -> Nat] /\ nextIndex \in Nat
    /\ host \in [Interface -> SUBSET Address]
    /\ fd \in [Fd -> Nat \cup {-1}]
    /\ holder \in {"none", "reconcile", "close"}
    /\ sock \in [Interface -> Fd \cup {0}]
    /\ current \in [Interface -> ProxySet]
    /\ closing \subseteq Interface
    /\ todoClose \subseteq Interface /\ todoSet \subseteq Interface
    /\ pc \in {"idle", "apply", "shared", "configure", "telemetry"}
    /\ healthy \subseteq Upstream
    /\ DOMAIN sets \subseteq Interface /\ sets \in [DOMAIN sets -> ProxySet]
    /\ failed \in BOOLEAN /\ second \in BOOLEAN /\ drift \in BOOLEAN
    /\ life \in {"down", "up", "closing", "closed"}
    /\ loop \in [Interface -> {"none", "check", "receive", "answer", "send"}]
    /\ loopSock \in [Interface -> Fd \cup {0}]
    /\ stopped \in [Interface -> BOOLEAN]
    /\ frame \in [Interface -> Address]
    /\ faults \in Nat /\ changes \in Nat
    /\ steady \in BOOLEAN /\ fresh \subseteq Interface

\* The addresses that the rows and the host say an interface is to answer for:
\* those of enabled tunnels of on-link upstreams there that the host does not have.
Wanted(i) ==
    {a \in Address \ host[i] :
        \E t \in enabled : /\ UpstreamOf[t] \in onLink
                           /\ egress[UpstreamOf[t]] = i
                           /\ a \in BlockOf[t]}

\* A packet loop reads and writes the open socket of its own listener, whatever
\* else opens descriptors: stopLocked waits for it before it closes.
LoopOwnsItsSocket ==
    \A i \in Interface :
        loop[i] # "none" =>
            /\ loopSock[i] = sock[i] /\ sock[i] # 0
            /\ fd[sock[i]] > 0
            /\ \A j \in Interface \ {i} : sock[j] # sock[i]

\* Every packet socket of the process belongs to a listener: failing starts,
\* closed listeners and a shutdown during a reconcile leave none behind.
NoSocketLeft ==
    \A n \in Fd : fd[n] > 0 => \E i \in Interface : sock[i] = n

\* A solicitation that arrives after a successful reconcile, with nothing changed
\* since, is answered only for an address that is wanted there: not for a
\* tunnel that was turned off, and not for an address of the host.
AnswersAreWanted ==
    \A i \in fresh : Settled /\ loop[i] = "send" => frame[i] \in Wanted(i)

\* After a successful reconcile the listeners answer for exactly the wanted
\* addresses, whichever upstreams share an interface.
ListenersMatch ==
    Settled => \A i \in Interface : Answers(current[i]) = Wanted(i)

\* A shutdown ends: it waits for the packet loops and for the lock, and neither a
\* loop nor a reconcile that is under way keeps it waiting.
ShutdownFinishes == life = "closing" ~> life = "down"

\* A tunnel that is turned off, by hand or by its quota, is no longer answered for
\* in the end, unless it is turned on again.
DisabledIsSilent ==
    \A t \in Tunnel :
        t \notin enabled ~>
            \/ t \in enabled
            \/ \A i \in Interface : t \notin current[i].delegated

\* README.md: the dashboard reports drift if a proxy is not running. With no
\* change since a successful reconcile and no drift shown, each listener is on
\* the interface that has its name.
ListenerIsAttached ==
    Settled /\ pc = "idle" /\ ~drift =>
        \A i \in Running : fd[sock[i]] = link[i]

=============================================================================
