--------------------------- MODULE NDPProxy_proofs ---------------------------
(***************************************************************************)
(* The listeners own their sockets, and after a successful reconcile they  *)
(* answer for exactly what the database and the host say: for any number   *)
(* of interfaces, upstreams, tunnels, addresses, descriptors and faults.   *)
(***************************************************************************)
EXTENDS NDPProxy, TLAPS

-----------------------------------------------------------------------------
(***************************************************************************)
(* The sockets.                                                            *)
(***************************************************************************)

\* A loop runs on the socket of its listener; listeners have open sockets of
\* their own; there are no other packet sockets.
Sockets ==
    /\ link \in [Interface -> Nat] /\ nextIndex \in Nat
    /\ fd \in [Fd -> Nat \cup {-1}]
    /\ sock \in [Interface -> Fd \cup {0}] /\ loopSock \in [Interface -> Fd \cup {0}]
    /\ loop \in [Interface -> {"none", "check", "receive", "answer", "send"}]
    /\ \A i \in Interface : loop[i] # "none" => loopSock[i] = sock[i] /\ sock[i] # 0
    /\ \A i \in Interface : sock[i] # 0 => fd[sock[i]] > 0
    /\ \A i, j \in Interface : i # j /\ sock[i] # 0 => sock[j] # sock[i]
    /\ \A n \in Fd : fd[n] > 0 => \E i \in Interface : sock[i] = n

LEMMA SocketsInit == Init => Sockets
  BY NDPAssumption, SMTT(30) DEF Init, Sockets

LEMMA SocketsStep ==
  ASSUME Sockets, [Next]_vars
  PROVE  Sockets'
<1> USE NDPAssumption DEF Sockets, rows, links, manager, reconcile, loops, ghosts
<1>1. ASSUME NEW t \in Tunnel, SetEnabled(t) PROVE Sockets'
  BY <1>1, Zenon DEF SetEnabled, Change
<1>2. ASSUME NEW u \in Upstream, NEW mode \in {"routed", "on-link"}, NEW i \in Interface,
             UpdateUpstream(u, mode, i)
      PROVE  Sockets'
  BY <1>2, Zenon DEF UpdateUpstream, Change
<1>3. CASE Tick
  BY <1>3, Zenon DEF Tick
<1>4. CASE ReconcileAborts
  BY <1>4, Zenon DEF ReconcileAborts, Fault
<1>5. ASSUME NEW ok \in SUBSET Upstream, ApplyUpstreams(ok) PROVE Sockets'
  BY <1>5, Zenon DEF ApplyUpstreams, Fault, NoFault
<1>6. CASE SharedPassFails
  BY <1>6, Zenon DEF SharedPassFails, Fault, NoFault, ApplyReturns
<1>7. CASE ApplyNDPProxy
  BY <1>7, Zenon DEF ApplyNDPProxy
<1>8. CASE ConfigureLock
  BY <1>8, Zenon DEF ConfigureLock, Running
<1>9. ASSUME NEW i \in Interface, UpdateResponder(i) PROVE Sockets'
  BY <1>9, ZenonT(60) DEF UpdateResponder
<1>10. ASSUME NEW i \in Interface, StartResponder(i) PROVE Sockets'
  BY <1>10, SMTT(30) DEF StartResponder, OpenSocket
<1>11. ASSUME NEW i \in Interface, StartFails(i) PROVE Sockets'
  BY <1>11, ZenonT(60) DEF StartFails, Fault, NoFault
<1>12. CASE ConfigureDone
  BY <1>12, Zenon DEF ConfigureDone, ApplyReturns
<1>13. ASSUME NEW hit \in SUBSET Tunnel, QuotaHit(hit) PROVE Sockets'
  BY <1>13, Zenon DEF QuotaHit, Change
<1>14. ASSUME NEW hit \in SUBSET Tunnel, TelemetryFails(hit) PROVE Sockets'
  BY <1>14, Zenon DEF TelemetryFails, Fault
<1>15. CASE Inspect
  BY <1>15, Zenon DEF Inspect
<1>16. CASE InspectFails
  BY <1>16, Zenon DEF InspectFails, Fault
<1>17. ASSUME NEW i \in Interface, CloseResponder(i) PROVE Sockets'
  BY <1>17, Zenon DEF CloseResponder
<1>18. ASSUME NEW i \in Interface, CloseSocket(i) PROVE Sockets'
  <2>1. /\ fd' = [fd EXCEPT ![sock[i]] = 0]
        /\ sock' = [sock EXCEPT ![i] = 0] /\ loop[i] = "none"
        /\ UNCHANGED <<link, nextIndex, loop, loopSock>>
    BY <1>18, Zenon DEF CloseSocket
  <2>2. CASE sock[i] = 0
    <3>1. fd' = fd /\ sock' = sock
      BY <2>1, <2>2, SMTT(30)
    <3> QED BY <2>1, <3>1, ZenonT(60)
  <2>3. CASE sock[i] # 0
    <3>1. /\ fd' \in [Fd -> Nat \cup {-1}] /\ sock' \in [Interface -> Fd \cup {0}]
          /\ fd'[sock[i]] = 0 /\ \A n \in Fd : n # sock[i] => fd'[n] = fd[n]
          /\ sock'[i] = 0 /\ \A j \in Interface : j # i => sock'[j] = sock[j]
      BY <2>1, <2>3, SMTT(30)
    <3>2. \A n \in Fd : fd'[n] > 0 => \E j \in Interface : sock'[j] = n
      <4> SUFFICES ASSUME NEW n \in Fd, fd'[n] > 0
                   PROVE  \E j \in Interface : sock'[j] = n
        OBVIOUS
      <4>1. n # sock[i] /\ fd[n] > 0 BY <3>1, SMTT(30)
      <4>2. PICK j \in Interface : sock[j] = n BY <4>1, Zenon
      <4> QED BY <3>1, <4>1, <4>2, Zenon
    <3> QED BY <2>1, <2>3, <3>1, <3>2, SMTT(30)
  <2> QED BY <2>2, <2>3, Zenon
<1>19. CASE Signal
  BY <1>19, Zenon DEF Signal
<1>20. CASE CloseLock
  BY <1>20, Zenon DEF CloseLock, Running
<1>21. CASE CloseDone
  BY <1>21, Zenon DEF CloseDone
<1>22. CASE Exit
  BY <1>22, SMTT(30) DEF Exit, NoFault, ProcessEnds, ApplyReturns
<1>23. CASE Crash
  BY <1>23, SMTT(30) DEF Crash, Fault, ProcessEnds, ApplyReturns
<1>24. CASE Boot
  BY <1>24, Zenon DEF Boot
<1>25. ASSUME NEW i \in Interface, LoopCheck(i) PROVE Sockets'
  BY <1>25, SMTT(30) DEF LoopCheck
<1>26. ASSUME NEW i \in Interface, NEW a \in Address,
             Receive(i, a)
      PROVE  Sockets'
  BY <1>26, SMTT(30) DEF Receive
<1>27. ASSUME NEW i \in Interface, ReceiveNothing(i) PROVE Sockets'
  BY <1>27, SMTT(30) DEF ReceiveNothing
<1>28. ASSUME NEW i \in Interface, Answer(i) PROVE Sockets'
  BY <1>28, SMTT(30) DEF Answer, Decide
<1>29. ASSUME NEW i \in Interface, Send(i) PROVE Sockets'
  BY <1>29, SMTT(30) DEF Send
<1>30. ASSUME NEW i \in Interface, LinkDown(i) PROVE Sockets'
  BY <1>30, SMTT(30) DEF LinkDown, Change
<1>31. ASSUME NEW i \in Interface, LinkUp(i) PROVE Sockets'
  BY <1>31, SMTT(30) DEF LinkUp, Change
<1>32. ASSUME NEW i \in Interface, NEW a \in Address,
             HostAddress(i, a)
      PROVE  Sockets'
  BY <1>32, ZenonT(60) DEF HostAddress, Change
<1>33. ASSUME NEW n \in Fd, OtherOpens(n) PROVE Sockets'
  BY <1>33, SMTT(30) DEF OtherOpens
<1>34. ASSUME NEW n \in Fd, OtherCloses(n) PROVE Sockets'
  BY <1>34, SMTT(30) DEF OtherCloses
<1>35. CASE UNCHANGED vars
  BY <1>35, Zenon DEF vars
<1> HIDE NDPAssumption DEF Sockets, rows, links, manager, reconcile, loops, ghosts
<1> QED
  BY <1>1, <1>2, <1>3, <1>4, <1>5, <1>6, <1>7, <1>8, <1>9, <1>10, <1>11,
     <1>12, <1>13, <1>14, <1>15, <1>16, <1>17, <1>18, <1>19, <1>20, <1>21,
     <1>22, <1>23, <1>24, <1>25, <1>26, <1>27, <1>28, <1>29, <1>30, <1>31,
     <1>32, <1>33, <1>34, <1>35, ZenonT(60)
     DEF Next, Progress, Closing, LoopStep

-----------------------------------------------------------------------------
(***************************************************************************)
(* The lock, and what its holder works through.                            *)
(***************************************************************************)
Holding ==
    /\ holder = "reconcile" =>
          pc = "configure" /\ todoSet \subseteq DOMAIN sets /\ todoClose \cap DOMAIN sets = {}
    /\ holder = "close" => life = "closing"
    /\ closing \subseteq todoClose
    /\ holder = "none" => todoClose = {}
    /\ life = "down" => pc = "idle" /\ holder = "none" /\ ~steady

LEMMA HoldingInit == Init => Holding
  BY ZenonT(60) DEF Init, Holding

LEMMA HoldingStep ==
  ASSUME Holding, [Next]_vars
  PROVE  Holding'
<1> USE DEF Holding, rows, links, manager, reconcile, loops, ghosts
<1>1. ASSUME NEW t \in Tunnel, SetEnabled(t) PROVE Holding'
  BY <1>1, Zenon DEF SetEnabled, Change
<1>2. ASSUME NEW u \in Upstream, NEW mode \in {"routed", "on-link"}, NEW i \in Interface,
             UpdateUpstream(u, mode, i)
      PROVE  Holding'
  BY <1>2, Zenon DEF UpdateUpstream, Change
<1>3. CASE Tick
  BY <1>3, Zenon DEF Tick
<1>4. CASE ReconcileAborts
  BY <1>4, Zenon DEF ReconcileAborts, Fault
<1>5. ASSUME NEW ok \in SUBSET Upstream, ApplyUpstreams(ok) PROVE Holding'
  BY <1>5, Zenon DEF ApplyUpstreams, Fault, NoFault
<1>6. CASE SharedPassFails
  BY <1>6, Zenon DEF SharedPassFails, Fault, NoFault, ApplyReturns
<1>7. CASE ApplyNDPProxy
  BY <1>7, Zenon DEF ApplyNDPProxy
<1>8. CASE ConfigureLock
  BY <1>8, Zenon DEF ConfigureLock, Running
<1>9. ASSUME NEW i \in Interface, UpdateResponder(i) PROVE Holding'
  BY <1>9, Zenon DEF UpdateResponder
<1>10. ASSUME NEW i \in Interface, StartResponder(i) PROVE Holding'
  BY <1>10, Zenon DEF StartResponder, OpenSocket
<1>11. ASSUME NEW i \in Interface, StartFails(i) PROVE Holding'
  BY <1>11, Zenon DEF StartFails, Fault, NoFault
<1>12. CASE ConfigureDone
  BY <1>12, Zenon DEF ConfigureDone, ApplyReturns
<1>13. ASSUME NEW hit \in SUBSET Tunnel, QuotaHit(hit) PROVE Holding'
  BY <1>13, Zenon DEF QuotaHit, Change
<1>14. ASSUME NEW hit \in SUBSET Tunnel, TelemetryFails(hit) PROVE Holding'
  BY <1>14, Zenon DEF TelemetryFails, Fault
<1>15. CASE Inspect
  BY <1>15, Zenon DEF Inspect
<1>16. CASE InspectFails
  BY <1>16, Zenon DEF InspectFails, Fault
<1>17. ASSUME NEW i \in Interface, CloseResponder(i) PROVE Holding'
  BY <1>17, Zenon DEF CloseResponder
<1>18. ASSUME NEW i \in Interface, CloseSocket(i) PROVE Holding'
  BY <1>18, Zenon DEF CloseSocket
<1>19. CASE Signal
  BY <1>19, Zenon DEF Signal
<1>20. CASE CloseLock
  BY <1>20, Zenon DEF CloseLock, Running
<1>21. CASE CloseDone
  BY <1>21, Zenon DEF CloseDone
<1>22. CASE Exit
  BY <1>22, Zenon DEF Exit, NoFault, ProcessEnds, ApplyReturns
<1>23. CASE Crash
  BY <1>23, Zenon DEF Crash, Fault, ProcessEnds, ApplyReturns
<1>24. CASE Boot
  BY <1>24, Zenon DEF Boot
<1>25. ASSUME NEW i \in Interface, LoopCheck(i) PROVE Holding'
  BY <1>25, Zenon DEF LoopCheck
<1>26. ASSUME NEW i \in Interface, NEW a \in Address,
             Receive(i, a)
      PROVE  Holding'
  BY <1>26, Zenon DEF Receive
<1>27. ASSUME NEW i \in Interface, ReceiveNothing(i) PROVE Holding'
  BY <1>27, Zenon DEF ReceiveNothing
<1>28. ASSUME NEW i \in Interface, Answer(i) PROVE Holding'
  BY <1>28, Zenon DEF Answer, Decide
<1>29. ASSUME NEW i \in Interface, Send(i) PROVE Holding'
  BY <1>29, Zenon DEF Send
<1>30. ASSUME NEW i \in Interface, LinkDown(i) PROVE Holding'
  BY <1>30, Zenon DEF LinkDown, Change
<1>31. ASSUME NEW i \in Interface, LinkUp(i) PROVE Holding'
  BY <1>31, Zenon DEF LinkUp, Change
<1>32. ASSUME NEW i \in Interface, NEW a \in Address,
             HostAddress(i, a)
      PROVE  Holding'
  BY <1>32, Zenon DEF HostAddress, Change
<1>33. ASSUME NEW n \in Fd, OtherOpens(n) PROVE Holding'
  BY <1>33, Zenon DEF OtherOpens
<1>34. ASSUME NEW n \in Fd, OtherCloses(n) PROVE Holding'
  BY <1>34, Zenon DEF OtherCloses
<1>35. CASE UNCHANGED vars
  BY <1>35, ZenonT(60) DEF vars
<1> HIDE DEF Holding, rows, links, manager, reconcile, loops, ghosts
<1> QED
  BY <1>1, <1>2, <1>3, <1>4, <1>5, <1>6, <1>7, <1>8, <1>9, <1>10, <1>11,
     <1>12, <1>13, <1>14, <1>15, <1>16, <1>17, <1>18, <1>19, <1>20, <1>21,
     <1>22, <1>23, <1>24, <1>25, <1>26, <1>27, <1>28, <1>29, <1>30, <1>31,
     <1>32, <1>33, <1>34, <1>35, ZenonT(60)
     DEF Next, Progress, Closing, LoopStep

-----------------------------------------------------------------------------
(***************************************************************************)
(* Types.                                                                  *)
(***************************************************************************)

\* The variables that Sockets does not speak of.
Typed ==
    /\ enabled \subseteq Tunnel /\ onLink \subseteq Upstream
    /\ egress \in [Upstream -> Interface]
    /\ host \in [Interface -> SUBSET Address]
    /\ current \in [Interface -> ProxySet]
    /\ closing \subseteq Interface
    /\ todoClose \subseteq Interface /\ todoSet \subseteq Interface
    /\ healthy \subseteq Upstream
    /\ DOMAIN sets \subseteq Interface /\ \A i \in DOMAIN sets : sets[i] \in ProxySet
    /\ sets = [i \in DOMAIN sets |-> sets[i]]
    /\ frame \in [Interface -> Address]
    /\ faults \in Nat /\ changes \in Nat /\ fresh \subseteq Interface

Flags ==
    /\ holder \in {"none", "reconcile", "close"}
    /\ pc \in {"idle", "apply", "shared", "configure", "telemetry"}
    /\ life \in {"down", "up", "closing", "closed"}
    /\ failed \in BOOLEAN /\ second \in BOOLEAN /\ drift \in BOOLEAN
    /\ steady \in BOOLEAN /\ stopped \in [Interface -> BOOLEAN]

LEMMA NoSetType == NoSet \in ProxySet
  BY SMTT(30) DEF NoSet, ProxySet

LEMMA NoTargetType == NoTarget \in Address
  BY NDPAssumption, Zenon DEF NoTarget

\* ndpProxySetsFor returns a set of each of some interfaces.
LEMMA SetsForType ==
  ASSUME Typed, NEW H \in SUBSET Upstream
  PROVE  /\ DOMAIN SetsFor(H) \subseteq Interface
         /\ \A i \in DOMAIN SetsFor(H) : SetsFor(H)[i] \in ProxySet
         /\ SetsFor(H) = [i \in DOMAIN SetsFor(H) |-> SetsFor(H)[i]]
<1> DEFINE proxied == {u \in H \cap onLink : SetFor(u).delegated # {}}
           on(i) == {u \in proxied : egress[u] = i}
           union(i) == [delegated |-> UNION {SetFor(u).delegated : u \in on(i)},
                        local     |-> UNION {SetFor(u).local : u \in on(i)}]
<1>1. SetsFor(H) = [i \in {egress[u] : u \in proxied} |-> union(i)]
  BY Zenon DEF SetsFor
<1>2. \A u \in Upstream : SetFor(u).delegated \subseteq Tunnel /\ SetFor(u).local \subseteq Address
  BY SMTT(30) DEF SetFor, Typed
<1>3. \A i : union(i) \in ProxySet
  <2> SUFFICES ASSUME NEW i PROVE union(i) \in ProxySet BY SMTT(30)
  <2>1. on(i) \subseteq Upstream OBVIOUS
  <2> HIDE DEF on
  <2>2. UNION {SetFor(u).delegated : u \in on(i)} \subseteq Tunnel
    BY <1>2, <2>1, Zenon
  <2>3. UNION {SetFor(u).local : u \in on(i)} \subseteq Address
    BY <1>2, <2>1, Zenon
  <2> QED BY <2>2, <2>3, SMTT(30) DEF ProxySet
<1>4. {egress[u] : u \in proxied} \subseteq Interface
  BY SMTT(30) DEF Typed
<1> HIDE DEF proxied, union
<1> QED BY <1>1, <1>3, <1>4, SMTT(30)

LEMMA TypedInit == Init => Typed /\ Flags
<1> SUFFICES ASSUME Init PROVE Typed /\ Flags OBVIOUS
<1>1. Flags BY Zenon DEF Init, Flags
<1>2. /\ enabled \subseteq Tunnel /\ onLink \subseteq Upstream
      /\ egress \in [Upstream -> Interface] /\ host \in HostsAtStart
      /\ current = [i \in Interface |-> NoSet]
      /\ closing = {} /\ todoClose = {} /\ todoSet = {} /\ healthy = {}
      /\ sets = [i \in {} |-> NoSet]
      /\ frame = [i \in Interface |-> NoTarget]
      /\ faults = 0 /\ changes = 0 /\ fresh = {}
  BY Zenon DEF Init
<1>3. Typed
  BY <1>2, NDPAssumption, NoSetType, NoTargetType, SMTT(30) DEF Typed
<1> QED BY <1>1, <1>3

LEMMA TypedStep ==
  ASSUME Typed, Holding, [Next]_vars
  PROVE  Typed'
<1> USE NDPAssumption, NoSetType, NoTargetType
    DEF Typed, Holding, rows, links, manager, reconcile, loops, ghosts
<1>1. ASSUME NEW t \in Tunnel, SetEnabled(t) PROVE Typed'
  BY <1>1, SMTT(30) DEF SetEnabled, Change
<1>2. ASSUME NEW u \in Upstream, NEW mode \in {"routed", "on-link"}, NEW i \in Interface,
             UpdateUpstream(u, mode, i)
      PROVE  Typed'
  BY <1>2, SMTT(30) DEF UpdateUpstream, Change
<1>3. CASE Tick
  <2>1. UNCHANGED <<rows, host, current, closing, todoClose, todoSet, healthy, sets, frame,
                  faults, changes, fresh>>
    BY <1>3, ZenonT(60) DEF Tick
  <2> QED BY <2>1, SMTT(30)
<1>4. CASE ReconcileAborts
  BY <1>4, SMTT(30) DEF ReconcileAborts, Fault
<1>5. ASSUME NEW ok \in SUBSET Upstream, ApplyUpstreams(ok) PROVE Typed'
  BY <1>5, SMTT(30) DEF ApplyUpstreams, Fault, NoFault
<1>6. CASE SharedPassFails
  BY <1>6, SMTT(30) DEF SharedPassFails, Fault, NoFault, ApplyReturns
<1>7. CASE ApplyNDPProxy
  <2>1. sets' = SetsFor(healthy) BY <1>7, Zenon DEF ApplyNDPProxy
  <2> HIDE NDPAssumption DEF Typed
  <2>2. /\ DOMAIN sets' \subseteq Interface /\ \A i \in DOMAIN sets' : sets'[i] \in ProxySet
        /\ sets' = [i \in DOMAIN sets' |-> sets'[i]]
    <3>1. healthy \in SUBSET Upstream BY Zenon DEF Typed
    <3> QED BY <2>1, <3>1, SetsForType, Zenon
  <2>3. UNCHANGED <<rows, host, current, closing, todoClose, todoSet, healthy, frame,
                  faults, changes, fresh>>
    BY <1>7, ZenonT(60) DEF ApplyNDPProxy
  <2> QED BY <2>2, <2>3, SMTT(30) DEF Typed
<1>8. CASE ConfigureLock
  BY <1>8, SMTT(30) DEF ConfigureLock, Running
<1>9. ASSUME NEW i \in Interface, UpdateResponder(i) PROVE Typed'
  BY <1>9, SMTT(30) DEF UpdateResponder
<1>10. ASSUME NEW i \in Interface, StartResponder(i) PROVE Typed'
  BY <1>10, SMTT(30) DEF StartResponder, OpenSocket
<1>11. ASSUME NEW i \in Interface, StartFails(i) PROVE Typed'
  BY <1>11, SMTT(30) DEF StartFails, Fault, NoFault
<1>12. CASE ConfigureDone
  BY <1>12, SMTT(30) DEF ConfigureDone, ApplyReturns
<1>13. ASSUME NEW hit \in SUBSET Tunnel, QuotaHit(hit) PROVE Typed'
  BY <1>13, SMTT(30) DEF QuotaHit, Change
<1>14. ASSUME NEW hit \in SUBSET Tunnel, TelemetryFails(hit) PROVE Typed'
  BY <1>14, SMTT(30) DEF TelemetryFails, Fault
<1>15. CASE Inspect
  <2>1. UNCHANGED <<rows, host, current, closing, todoClose, todoSet, healthy, sets, frame,
                  faults, changes, fresh>>
    BY <1>15, ZenonT(60) DEF Inspect
  <2> QED BY <2>1, SMTT(30)
<1>16. CASE InspectFails
  BY <1>16, SMTT(30) DEF InspectFails, Fault
<1>17. ASSUME NEW i \in Interface, CloseResponder(i) PROVE Typed'
  BY <1>17, SMTT(30) DEF CloseResponder
<1>18. ASSUME NEW i \in Interface, CloseSocket(i) PROVE Typed'
  BY <1>18, SMTT(30) DEF CloseSocket
<1>19. CASE Signal
  BY <1>19, SMTT(30) DEF Signal
<1>20. CASE CloseLock
  BY <1>20, SMTT(30) DEF CloseLock, Running
<1>21. CASE CloseDone
  <2>1. UNCHANGED <<rows, host, current, closing, todoClose, todoSet, healthy, sets, frame,
                  faults, changes, fresh>>
    BY <1>21, ZenonT(60) DEF CloseDone
  <2> QED BY <2>1, SMTT(30)
<1>22. CASE Exit
  BY <1>22, SMTT(30) DEF Exit, NoFault, ProcessEnds, ApplyReturns
<1>23. CASE Crash
  BY <1>23, SMTT(30) DEF Crash, Fault, ProcessEnds, ApplyReturns
<1>24. CASE Boot
  <2>1. UNCHANGED <<rows, host, current, closing, todoClose, todoSet, healthy, sets, frame,
                  faults, changes, fresh>>
    BY <1>24, ZenonT(60) DEF Boot
  <2> QED BY <2>1, SMTT(30)
<1>25. ASSUME NEW i \in Interface, LoopCheck(i) PROVE Typed'
  <2>1. UNCHANGED <<rows, host, current, closing, todoClose, todoSet, healthy, sets, frame,
                  faults, changes, fresh>>
    BY <1>25, ZenonT(60) DEF LoopCheck
  <2> QED BY <2>1, SMTT(30)
<1>26. ASSUME NEW i \in Interface, NEW a \in Address,
             Receive(i, a)
      PROVE  Typed'
  BY <1>26, SMTT(30) DEF Receive
<1>27. ASSUME NEW i \in Interface, ReceiveNothing(i) PROVE Typed'
  <2>1. UNCHANGED <<rows, host, current, closing, todoClose, todoSet, healthy, sets, frame,
                  faults, changes, fresh>>
    BY <1>27, ZenonT(60) DEF ReceiveNothing
  <2> QED BY <2>1, SMTT(30)
<1>28. ASSUME NEW i \in Interface, Answer(i) PROVE Typed'
  BY <1>28, SMTT(30) DEF Answer, Decide
<1>29. ASSUME NEW i \in Interface, Send(i) PROVE Typed'
  BY <1>29, SMTT(30) DEF Send
<1>30. ASSUME NEW i \in Interface, LinkDown(i) PROVE Typed'
  BY <1>30, SMTT(30) DEF LinkDown, Change
<1>31. ASSUME NEW i \in Interface, LinkUp(i) PROVE Typed'
  BY <1>31, SMTT(30) DEF LinkUp, Change
<1>32. ASSUME NEW i \in Interface, NEW a \in Address,
             HostAddress(i, a)
      PROVE  Typed'
  BY <1>32, SMTT(30) DEF HostAddress, Change
<1>33. ASSUME NEW n \in Fd, OtherOpens(n) PROVE Typed'
  <2>1. UNCHANGED <<rows, host, current, closing, todoClose, todoSet, healthy, sets, frame,
                  faults, changes, fresh>>
    BY <1>33, ZenonT(60) DEF OtherOpens
  <2> QED BY <2>1, SMTT(30)
<1>34. ASSUME NEW n \in Fd, OtherCloses(n) PROVE Typed'
  <2>1. UNCHANGED <<rows, host, current, closing, todoClose, todoSet, healthy, sets, frame,
                  faults, changes, fresh>>
    BY <1>34, ZenonT(60) DEF OtherCloses
  <2> QED BY <2>1, SMTT(30)
<1>35. CASE UNCHANGED vars
  <2>1. UNCHANGED <<rows, host, current, closing, todoClose, todoSet, healthy, sets, frame,
                  faults, changes, fresh>>
    BY <1>35, ZenonT(60) DEF vars
  <2> QED BY <2>1, SMTT(30)
<1> HIDE NDPAssumption, NoSetType, NoTargetType
         DEF Typed, Holding, rows, links, manager, reconcile, loops, ghosts
<1> QED
  BY <1>1, <1>2, <1>3, <1>4, <1>5, <1>6, <1>7, <1>8, <1>9, <1>10, <1>11,
     <1>12, <1>13, <1>14, <1>15, <1>16, <1>17, <1>18, <1>19, <1>20, <1>21,
     <1>22, <1>23, <1>24, <1>25, <1>26, <1>27, <1>28, <1>29, <1>30, <1>31,
     <1>32, <1>33, <1>34, <1>35, ZenonT(60)
     DEF Next, Progress, Closing, LoopStep

LEMMA FlagsStep ==
  ASSUME Flags, [Next]_vars
  PROVE  Flags'
<1> USE DEF Flags, rows, links, manager, reconcile, loops, ghosts
<1>1. ASSUME NEW t \in Tunnel, SetEnabled(t) PROVE Flags'
  BY <1>1, Zenon DEF SetEnabled, Change
<1>2. ASSUME NEW u \in Upstream, NEW mode \in {"routed", "on-link"}, NEW i \in Interface,
             UpdateUpstream(u, mode, i)
      PROVE  Flags'
  BY <1>2, Zenon DEF UpdateUpstream, Change
<1>3. CASE Tick
  BY <1>3, Zenon DEF Tick
<1>4. CASE ReconcileAborts
  BY <1>4, Zenon DEF ReconcileAborts, Fault
<1>5. ASSUME NEW ok \in SUBSET Upstream, ApplyUpstreams(ok) PROVE Flags'
  BY <1>5, Zenon DEF ApplyUpstreams, Fault, NoFault
<1>6. CASE SharedPassFails
  BY <1>6, Zenon DEF SharedPassFails, Fault, NoFault, ApplyReturns
<1>7. CASE ApplyNDPProxy
  BY <1>7, Zenon DEF ApplyNDPProxy
<1>8. CASE ConfigureLock
  BY <1>8, Zenon DEF ConfigureLock, Running
<1>9. ASSUME NEW i \in Interface, UpdateResponder(i) PROVE Flags'
  BY <1>9, Zenon DEF UpdateResponder
<1>10. ASSUME NEW i \in Interface, StartResponder(i) PROVE Flags'
  BY <1>10, ZenonT(60) DEF StartResponder, OpenSocket
<1>11. ASSUME NEW i \in Interface, StartFails(i) PROVE Flags'
  BY <1>11, Zenon DEF StartFails, Fault, NoFault
<1>12. CASE ConfigureDone
  BY <1>12, Zenon DEF ConfigureDone, ApplyReturns
<1>13. ASSUME NEW hit \in SUBSET Tunnel, QuotaHit(hit) PROVE Flags'
  BY <1>13, Zenon DEF QuotaHit, Change
<1>14. ASSUME NEW hit \in SUBSET Tunnel, TelemetryFails(hit) PROVE Flags'
  BY <1>14, Zenon DEF TelemetryFails, Fault
<1>15. CASE Inspect
  BY <1>15, Zenon DEF Inspect
<1>16. CASE InspectFails
  BY <1>16, Zenon DEF InspectFails, Fault
<1>17. ASSUME NEW i \in Interface, CloseResponder(i) PROVE Flags'
  BY <1>17, ZenonT(60) DEF CloseResponder
<1>18. ASSUME NEW i \in Interface, CloseSocket(i) PROVE Flags'
  BY <1>18, ZenonT(60) DEF CloseSocket
<1>19. CASE Signal
  BY <1>19, ZenonT(60) DEF Signal
<1>20. CASE CloseLock
  BY <1>20, Zenon DEF CloseLock, Running
<1>21. CASE CloseDone
  BY <1>21, Zenon DEF CloseDone
<1>22. CASE Exit
  BY <1>22, Zenon DEF Exit, NoFault, ProcessEnds, ApplyReturns
<1>23. CASE Crash
  BY <1>23, Zenon DEF Crash, Fault, ProcessEnds, ApplyReturns
<1>24. CASE Boot
  BY <1>24, Zenon DEF Boot
<1>25. ASSUME NEW i \in Interface, LoopCheck(i) PROVE Flags'
  BY <1>25, ZenonT(60) DEF LoopCheck
<1>26. ASSUME NEW i \in Interface, NEW a \in Address,
             Receive(i, a)
      PROVE  Flags'
  BY <1>26, ZenonT(60) DEF Receive
<1>27. ASSUME NEW i \in Interface, ReceiveNothing(i) PROVE Flags'
  BY <1>27, ZenonT(60) DEF ReceiveNothing
<1>28. ASSUME NEW i \in Interface, Answer(i) PROVE Flags'
  BY <1>28, ZenonT(60) DEF Answer, Decide
<1>29. ASSUME NEW i \in Interface, Send(i) PROVE Flags'
  BY <1>29, ZenonT(60) DEF Send
<1>30. ASSUME NEW i \in Interface, LinkDown(i) PROVE Flags'
  BY <1>30, ZenonT(60) DEF LinkDown, Change
<1>31. ASSUME NEW i \in Interface, LinkUp(i) PROVE Flags'
  BY <1>31, ZenonT(60) DEF LinkUp, Change
<1>32. ASSUME NEW i \in Interface, NEW a \in Address,
             HostAddress(i, a)
      PROVE  Flags'
  BY <1>32, ZenonT(60) DEF HostAddress, Change
<1>33. ASSUME NEW n \in Fd, OtherOpens(n) PROVE Flags'
  BY <1>33, ZenonT(60) DEF OtherOpens
<1>34. ASSUME NEW n \in Fd, OtherCloses(n) PROVE Flags'
  BY <1>34, ZenonT(60) DEF OtherCloses
<1>35. CASE UNCHANGED vars
  BY <1>35, ZenonT(60) DEF vars
<1> HIDE DEF Flags, rows, links, manager, reconcile, loops, ghosts
<1> QED
  BY <1>1, <1>2, <1>3, <1>4, <1>5, <1>6, <1>7, <1>8, <1>9, <1>10, <1>11,
     <1>12, <1>13, <1>14, <1>15, <1>16, <1>17, <1>18, <1>19, <1>20, <1>21,
     <1>22, <1>23, <1>24, <1>25, <1>26, <1>27, <1>28, <1>29, <1>30, <1>31,
     <1>32, <1>33, <1>34, <1>35, ZenonT(60)
     DEF Next, Progress, Closing, LoopStep

-----------------------------------------------------------------------------
(***************************************************************************)
(* The listeners follow the database.                                      *)
(***************************************************************************)

\* The sets that a reconcile that has read its upstreams installs.
Plan == SetsFor(healthy)

\* The set of each interface, if every upstream is healthy.
Due == [i \in Interface |->
          IF i \in DOMAIN SetsFor(Upstream) THEN SetsFor(Upstream)[i] ELSE NoSet]

\* What Configure has done so far, and what is there when it is done.
Listeners ==
    /\ \A i \in Interface : sock[i] = 0 => current[i] = NoSet
    /\ pc \in {"shared", "configure"} /\ ~failed => healthy = Upstream
    /\ pc = "configure" /\ steady => sets = Plan
    /\ holder = "reconcile" => \A i \in Interface :
          /\ i \notin DOMAIN sets /\ i \notin todoClose => sock[i] = 0
          /\ i \in DOMAIN sets /\ i \notin todoSet /\ ~failed => current[i] = sets[i]
    /\ pc \in {"idle", "apply", "telemetry"} /\ life = "up" /\ steady /\ ~failed =>
          current = Due

LEMMA ListenersInit == Init => Listeners
<1> SUFFICES ASSUME Init PROVE Listeners OBVIOUS
<1>1. current = [i \in Interface |-> NoSet] BY Zenon DEF Init
<1>2. \A i \in Interface : current[i] = NoSet BY <1>1, Zenon
<1>3. pc = "idle" /\ life = "down" /\ holder = "none" BY Zenon DEF Init
<1> QED BY <1>2, <1>3, Zenon DEF Listeners

\* The sets depend on the rows and on the host's addresses.
LEMMA SameSets ==
  ASSUME UNCHANGED <<enabled, onLink, egress, host>>
  PROVE  Due' = Due /\ (healthy' = healthy => Plan' = Plan)
<1>2. Due' = Due BY SMTT(30) DEF Due, SetsFor, SetFor
<1>3. ASSUME healthy' = healthy PROVE Plan' = Plan
  BY <1>3, SMTT(30) DEF Plan, SetsFor, SetFor
<1> QED BY <1>2, <1>3, ZenonT(60)

LEMMA ListenersStep ==
  ASSUME Listeners, Sockets, Holding, Typed, Flags, [Next]_vars
  PROVE  Listeners'
<1> USE DEF Listeners, rows, links, manager, reconcile, loops, ghosts
<1>1. ASSUME NEW t \in Tunnel, SetEnabled(t) PROVE Listeners'
  <2>1. /\ ~steady' /\ UNCHANGED <<sock, current, healthy, sets, holder, todoClose, todoSet, failed>>
        /\ pc' \in {pc, "apply"}
    BY <1>1, Zenon DEF SetEnabled, Change
  <2> QED BY <2>1, Zenon
<1>2. ASSUME NEW u \in Upstream, NEW mode \in {"routed", "on-link"}, NEW i \in Interface,
             UpdateUpstream(u, mode, i)
      PROVE  Listeners'
  <2>1. /\ ~steady' /\ UNCHANGED <<sock, current, healthy, sets, holder, todoClose, todoSet, failed>>
        /\ pc' \in {pc, "apply"}
    BY <1>2, Zenon DEF UpdateUpstream, Change
  <2> QED BY <2>1, Zenon
<1>3. CASE Tick
  <2>1. /\ UNCHANGED <<rows, links, sock, current, holder, sets, todoClose, todoSet, failed, life, steady>>
        /\ pc = "idle" /\ pc' = "apply"
    BY <1>3, Zenon DEF Tick
  <2>2. Due' = Due BY <2>1, SameSets, Zenon
  <2> QED BY <2>1, <2>2, Zenon
<1>4. CASE ReconcileAborts
  <2>1. /\ UNCHANGED <<rows, links, sock, current, holder, sets, todoClose, todoSet, failed, life, steady>>
        /\ pc = "apply" /\ pc' = "idle"
    BY <1>4, Zenon DEF ReconcileAborts, Fault
  <2>2. Due' = Due BY <2>1, SameSets, Zenon
  <2> QED BY <2>1, <2>2, Zenon
<1>5. ASSUME NEW ok \in SUBSET Upstream, ApplyUpstreams(ok) PROVE Listeners'
  <2>1. /\ UNCHANGED <<sock, current, holder>> /\ pc = "apply" /\ pc' = "shared"
        /\ healthy' = ok /\ (~failed' => ok = Upstream)
    BY <1>5, Zenon DEF ApplyUpstreams
  <2> QED BY <2>1, Zenon DEF Holding
<1>6. CASE SharedPassFails
  <2>1. /\ UNCHANGED <<sock, current, holder>> /\ pc = "shared" /\ pc' = "idle" /\ failed'
    BY <1>6, Zenon DEF SharedPassFails
  <2> QED BY <2>1, Zenon DEF Holding
<1>7. CASE ApplyNDPProxy
  <2>1. /\ UNCHANGED <<rows, links, sock, current, healthy, holder, failed>>
        /\ sets' = Plan /\ pc = "shared" /\ pc' = "configure"
    BY <1>7, Zenon DEF ApplyNDPProxy, Plan
  <2>2. Plan' = Plan BY <2>1, SameSets, Zenon
  <2> QED BY <2>1, <2>2, Zenon DEF Holding
<1>8. CASE ConfigureLock
  <2>1. /\ todoClose' = {j \in Running : j \notin DOMAIN sets} /\ todoSet' = DOMAIN sets
        /\ pc = "configure"
        /\ UNCHANGED <<rows, links, sock, current, healthy, sets, failed, pc, life, steady>>
    BY <1>8, Zenon DEF ConfigureLock
  <2>2. Plan' = Plan BY <2>1, SameSets, Zenon
  <2> QED BY <2>1, <2>2, Zenon DEF Running
<1>9. ASSUME NEW i \in Interface, UpdateResponder(i) PROVE Listeners'
  <2>1. /\ current' = [current EXCEPT ![i] = sets[i]] /\ todoSet' = todoSet \ {i}
        /\ holder = "reconcile" /\ sock[i] # 0
        /\ UNCHANGED <<rows, links, sock, healthy, sets, holder, todoClose, failed, pc, life, steady>>
    BY <1>9, ZenonT(60) DEF UpdateResponder
  <2>2. current'[i] = sets[i] /\ \A j \in Interface : j # i => current'[j] = current[j]
    BY <2>1, SMTT(30) DEF Typed
  <2>3. pc = "configure" BY <2>1, Zenon DEF Holding
  <2>4. Plan' = Plan BY <2>1, SameSets, Zenon
  <2> QED BY <2>1, <2>2, <2>3, <2>4, Zenon
<1>10. ASSUME NEW i \in Interface, StartResponder(i) PROVE Listeners'
  <2>1. /\ current' = [current EXCEPT ![i] = sets[i]] /\ todoSet' = todoSet \ {i}
        /\ holder = "reconcile" /\ i \in todoSet
        /\ \E n \in Fd : sock' = [sock EXCEPT ![i] = n]
        /\ UNCHANGED <<rows, links, healthy, sets, holder, todoClose, failed, pc, life, steady>>
    BY <1>10, Zenon DEF StartResponder, OpenSocket
  <2>2. /\ current'[i] = sets[i] /\ \A j \in Interface : j # i => current'[j] = current[j]
        /\ sock'[i] # 0 /\ \A j \in Interface : j # i => sock'[j] = sock[j]
    BY <2>1, NDPAssumption, SMTT(30) DEF Typed, Sockets
  <2>3. pc = "configure" /\ i \in DOMAIN sets BY <2>1, Zenon DEF Holding
  <2>4. Plan' = Plan BY <2>1, SameSets, Zenon
  <2> QED BY <2>1, <2>2, <2>3, <2>4, ZenonT(60)
<1>11. ASSUME NEW i \in Interface, StartFails(i) PROVE Listeners'
  <2>1. /\ UNCHANGED <<rows, links, sock, current, holder, healthy, sets, todoClose, pc, steady>>
        /\ failed'
    BY <1>11, Zenon DEF StartFails
  <2>2. Plan' = Plan BY <2>1, SameSets, Zenon
  <2> QED BY <2>1, <2>2, Zenon
<1>12. CASE ConfigureDone
  <2>1. /\ holder = "reconcile" /\ todoClose = {} /\ todoSet = {}
        /\ holder' = "none" /\ pc' \in {"idle", "telemetry"}
        /\ UNCHANGED <<rows, links, sock, current, failed, life, steady>>
    BY <1>12, Zenon DEF ConfigureDone
  <2>2. pc = "configure" BY <2>1, Zenon DEF Holding
  <2>3. ASSUME steady, ~failed PROVE current = Due
    <3>1. sets = SetsFor(Upstream) BY <2>2, <2>3, Zenon DEF Plan
    <3>2. \A i \in Interface :
            current[i] = IF i \in DOMAIN sets THEN sets[i] ELSE NoSet
      BY <2>1, <2>3, ZenonT(60)
    <3>3. current = [i \in Interface |-> current[i]] BY SMTT(30) DEF Typed
    <3> QED BY <3>1, <3>2, <3>3, Zenon DEF Due
  <2>4. Due' = Due BY <2>1, SameSets, Zenon
  <2> QED BY <2>1, <2>3, <2>4, Zenon
<1>13. ASSUME NEW hit \in SUBSET Tunnel, QuotaHit(hit) PROVE Listeners'
  <2>1. /\ ~steady' /\ UNCHANGED <<sock, current, healthy, sets, holder, todoClose, todoSet, failed>>
        /\ pc' \in {pc, "apply"}
    BY <1>13, Zenon DEF QuotaHit, Change
  <2> QED BY <2>1, Zenon
<1>14. ASSUME NEW hit \in SUBSET Tunnel, TelemetryFails(hit) PROVE Listeners'
  <2>1. /\ UNCHANGED <<onLink, egress, links, sock, current, holder, todoClose, todoSet, failed, life>>
        /\ pc' = "idle" /\ pc = "telemetry"
        /\ sets' = sets
        /\ steady' => steady /\ enabled' = enabled
    BY <1>14, Zenon DEF TelemetryFails
  <2>2. steady' => Due' = Due BY <2>1, SameSets, Zenon
  <2> QED BY <2>1, <2>2, Zenon DEF Holding
<1>15. CASE Inspect
  <2>1. /\ UNCHANGED <<rows, links, sock, current, holder, sets, todoClose, todoSet, failed, life, steady>>
        /\ pc = "telemetry" /\ pc' = "idle"
    BY <1>15, Zenon DEF Inspect
  <2>2. Due' = Due BY <2>1, SameSets, Zenon
  <2> QED BY <2>1, <2>2, Zenon
<1>16. CASE InspectFails
  <2>1. /\ UNCHANGED <<rows, links, sock, current, holder, sets, todoClose, todoSet, failed, life, steady>>
        /\ pc = "telemetry" /\ pc' = "idle"
    BY <1>16, Zenon DEF InspectFails, Fault
  <2>2. Due' = Due BY <2>1, SameSets, Zenon
  <2> QED BY <2>1, <2>2, Zenon
<1>17. ASSUME NEW i \in Interface, CloseResponder(i) PROVE Listeners'
  <2>1. UNCHANGED <<rows, links, sock, current, holder, healthy, sets, todoClose, todoSet, failed,
                  pc, life, steady>>
    BY <1>17, Zenon DEF CloseResponder
  <2>2. Due' = Due /\ Plan' = Plan BY <2>1, SameSets, Zenon
  <2> QED BY <2>1, <2>2, Zenon
<1>18. ASSUME NEW i \in Interface, CloseSocket(i) PROVE Listeners'
  <2>1. /\ closing = {i} /\ todoClose' = todoClose \ {i}
        /\ sock' = [sock EXCEPT ![i] = 0] /\ current' = [current EXCEPT ![i] = NoSet]
        /\ UNCHANGED <<rows, links, healthy, sets, holder, todoSet, failed, pc, life, steady>>
    BY <1>18, Zenon DEF CloseSocket
  <2>2. /\ current'[i] = NoSet /\ \A j \in Interface : j # i => current'[j] = current[j]
        /\ sock'[i] = 0 /\ \A j \in Interface : j # i => sock'[j] = sock[j]
    BY <2>1, SMTT(30) DEF Typed, Sockets
  <2>3. i \in todoClose /\ holder # "none" BY <2>1, Zenon DEF Holding
  <2>4. /\ holder = "reconcile" => pc = "configure" /\ i \notin DOMAIN sets
        /\ holder # "reconcile" => life = "closing"
    BY <2>3, Zenon DEF Holding, Flags
  <2>5. Plan' = Plan BY <2>1, SameSets, Zenon
  <2> QED BY <2>1, <2>2, <2>4, <2>5, ZenonT(60)
<1>19. CASE Signal
  <2>1. /\ UNCHANGED <<rows, links, sock, current, holder, healthy, sets, todoClose, todoSet, failed,
                     pc, steady>>
        /\ life' = "closing"
    BY <1>19, Zenon DEF Signal
  <2>2. Plan' = Plan BY <2>1, SameSets, Zenon
  <2> QED BY <2>1, <2>2, Zenon
<1>20. CASE CloseLock
  <2>1. /\ UNCHANGED <<rows, links, sock, current, healthy, sets, failed, pc, steady>>
        /\ life' # "up" /\ holder' # "reconcile"
    BY <1>20, Zenon DEF CloseLock
  <2>2. Plan' = Plan BY <2>1, SameSets, Zenon
  <2> QED BY <2>1, <2>2, Zenon
<1>21. CASE CloseDone
  <2>1. /\ UNCHANGED <<rows, links, sock, current, healthy, sets, failed, pc, steady>>
        /\ life' # "up" /\ holder' # "reconcile"
    BY <1>21, Zenon DEF CloseDone
  <2>2. Plan' = Plan BY <2>1, SameSets, Zenon
  <2> QED BY <2>1, <2>2, Zenon
<1>22. CASE Exit
  <2>1. /\ current' = [j \in Interface |-> NoSet] /\ pc' = "idle" /\ life' = "down"
        /\ holder' = "none"
    BY <1>22, Zenon DEF Exit, ProcessEnds
  <2>2. \A j \in Interface : current'[j] = NoSet BY <2>1, Zenon
  <2> QED BY <2>1, <2>2, Zenon
<1>23. CASE Crash
  <2>1. /\ current' = [j \in Interface |-> NoSet] /\ pc' = "idle" /\ life' = "down"
        /\ holder' = "none"
    BY <1>23, ZenonT(60) DEF Crash, ProcessEnds
  <2>2. \A j \in Interface : current'[j] = NoSet BY <2>1, Zenon
  <2> QED BY <2>1, <2>2, Zenon
<1>24. CASE Boot
  <2>1. /\ UNCHANGED <<sock, current, holder, steady>> /\ life = "down" /\ pc' = "apply"
    BY <1>24, Zenon DEF Boot
  <2> QED BY <2>1, Zenon DEF Holding
<1>25. ASSUME NEW i \in Interface, LoopCheck(i) PROVE Listeners'
  <2>1. UNCHANGED <<rows, links, sock, current, holder, healthy, sets, todoClose, todoSet, failed,
                  pc, life, steady>>
    BY <1>25, Zenon DEF LoopCheck
  <2>2. Due' = Due /\ Plan' = Plan BY <2>1, SameSets, Zenon
  <2> QED BY <2>1, <2>2, Zenon
<1>26. ASSUME NEW i \in Interface, NEW a \in Address,
             Receive(i, a)
      PROVE  Listeners'
  <2>1. UNCHANGED <<rows, links, sock, current, holder, healthy, sets, todoClose, todoSet, failed,
                  pc, life, steady>>
    BY <1>26, Zenon DEF Receive
  <2>2. Due' = Due /\ Plan' = Plan BY <2>1, SameSets, ZenonT(60)
  <2> QED BY <2>1, <2>2, Zenon
<1>27. ASSUME NEW i \in Interface, ReceiveNothing(i) PROVE Listeners'
  <2>1. UNCHANGED <<rows, links, sock, current, holder, healthy, sets, todoClose, todoSet, failed,
                  pc, life, steady>>
    BY <1>27, ZenonT(60) DEF ReceiveNothing
  <2>2. Due' = Due /\ Plan' = Plan BY <2>1, SameSets, Zenon
  <2> QED BY <2>1, <2>2, Zenon
<1>28. ASSUME NEW i \in Interface, Answer(i) PROVE Listeners'
  <2>1. UNCHANGED <<rows, links, sock, current, holder, healthy, sets, todoClose, todoSet, failed,
                  pc, life, steady>>
    BY <1>28, ZenonT(60) DEF Answer, Decide
  <2>2. Due' = Due /\ Plan' = Plan BY <2>1, SameSets, Zenon
  <2> QED BY <2>1, <2>2, Zenon
<1>29. ASSUME NEW i \in Interface, Send(i) PROVE Listeners'
  <2>1. UNCHANGED <<rows, links, sock, current, holder, healthy, sets, todoClose, todoSet, failed,
                  pc, life, steady>>
    BY <1>29, ZenonT(60) DEF Send
  <2>2. Due' = Due /\ Plan' = Plan BY <2>1, SameSets, Zenon
  <2> QED BY <2>1, <2>2, Zenon
<1>30. ASSUME NEW i \in Interface, LinkDown(i) PROVE Listeners'
  <2>1. /\ ~steady' /\ UNCHANGED <<sock, current, healthy, sets, holder, todoClose, todoSet, failed>>
        /\ pc' \in {pc, "apply"}
    BY <1>30, Zenon DEF LinkDown, Change
  <2> QED BY <2>1, Zenon
<1>31. ASSUME NEW i \in Interface, LinkUp(i) PROVE Listeners'
  <2>1. /\ ~steady' /\ UNCHANGED <<sock, current, healthy, sets, holder, todoClose, todoSet, failed>>
        /\ pc' \in {pc, "apply"}
    BY <1>31, Zenon DEF LinkUp, Change
  <2> QED BY <2>1, Zenon
<1>32. ASSUME NEW i \in Interface, NEW a \in Address,
             HostAddress(i, a)
      PROVE  Listeners'
  <2>1. /\ ~steady' /\ UNCHANGED <<sock, current, healthy, sets, holder, todoClose, todoSet, failed>>
        /\ pc' \in {pc, "apply"}
    BY <1>32, Zenon DEF HostAddress, Change
  <2> QED BY <2>1, Zenon
<1>33. ASSUME NEW n \in Fd, OtherOpens(n) PROVE Listeners'
  <2>1. UNCHANGED <<rows, links, sock, current, holder, healthy, sets, todoClose, todoSet, failed,
                  pc, life, steady>>
    BY <1>33, Zenon DEF OtherOpens
  <2>2. Due' = Due /\ Plan' = Plan BY <2>1, SameSets, ZenonT(60)
  <2> QED BY <2>1, <2>2, Zenon
<1>34. ASSUME NEW n \in Fd, OtherCloses(n) PROVE Listeners'
  <2>1. UNCHANGED <<rows, links, sock, current, holder, healthy, sets, todoClose, todoSet, failed,
                  pc, life, steady>>
    BY <1>34, ZenonT(60) DEF OtherCloses
  <2>2. Due' = Due /\ Plan' = Plan BY <2>1, SameSets, Zenon
  <2> QED BY <2>1, <2>2, Zenon
<1>35. CASE UNCHANGED vars
  <2>1. UNCHANGED <<rows, links, sock, current, holder, healthy, sets, todoClose, todoSet, failed,
                  pc, life, steady>>
    BY <1>35, Zenon DEF vars
  <2>2. Due' = Due /\ Plan' = Plan BY <2>1, SameSets, ZenonT(60)
  <2> QED BY <2>1, <2>2, Zenon
<1> HIDE DEF Listeners, rows, links, manager, reconcile, loops, ghosts
<1> QED
  BY <1>1, <1>2, <1>3, <1>4, <1>5, <1>6, <1>7, <1>8, <1>9, <1>10, <1>11,
     <1>12, <1>13, <1>14, <1>15, <1>16, <1>17, <1>18, <1>19, <1>20, <1>21,
     <1>22, <1>23, <1>24, <1>25, <1>26, <1>27, <1>28, <1>29, <1>30, <1>31,
     <1>32, <1>33, <1>34, <1>35, ZenonT(60)
     DEF Next, Progress, Closing, LoopStep

-----------------------------------------------------------------------------
(***************************************************************************)
(* A solicitation of a settled daemon is answered by the settled sets.     *)
(***************************************************************************)
Sent ==
    pc \in {"idle", "apply", "telemetry"} /\ life = "up" /\ steady /\ ~failed =>
        \A i \in fresh : loop[i] = "send" => frame[i] \in Answers(current[i])

LEMMA SentStep ==
  ASSUME Sent, Sockets, Holding, Typed, Flags, [Next]_vars
  PROVE  Sent'
<1> USE DEF Sent, rows, links, manager, reconcile, loops, ghosts
<1>1. ASSUME NEW t \in Tunnel, SetEnabled(t) PROVE Sent'
  BY <1>1, Zenon DEF SetEnabled, Change
<1>2. ASSUME NEW u \in Upstream, NEW mode \in {"routed", "on-link"}, NEW i \in Interface,
             UpdateUpstream(u, mode, i)
      PROVE  Sent'
  BY <1>2, Zenon DEF UpdateUpstream, Change
<1>3. CASE Tick
  BY <1>3, Zenon DEF Tick
<1>4. CASE ReconcileAborts
  BY <1>4, Zenon DEF ReconcileAborts, Fault
<1>5. ASSUME NEW ok \in SUBSET Upstream, ApplyUpstreams(ok) PROVE Sent'
  BY <1>5, Zenon DEF ApplyUpstreams, Fault, NoFault
<1>6. CASE SharedPassFails
  BY <1>6, Zenon DEF SharedPassFails, Fault, NoFault, ApplyReturns
<1>7. CASE ApplyNDPProxy
  BY <1>7, Zenon DEF ApplyNDPProxy
<1>8. CASE ConfigureLock
  BY <1>8, Zenon DEF ConfigureLock
<1>9. ASSUME NEW i \in Interface, UpdateResponder(i) PROVE Sent'
  <2>1. holder = "reconcile" /\ pc' = pc BY <1>9, Zenon DEF UpdateResponder
  <2> QED BY <2>1, Zenon DEF Holding
<1>10. ASSUME NEW i \in Interface, StartResponder(i) PROVE Sent'
  <2>1. holder = "reconcile" /\ pc' = pc BY <1>10, Zenon DEF StartResponder, OpenSocket
  <2> QED BY <2>1, Zenon DEF Holding
<1>11. ASSUME NEW i \in Interface, StartFails(i) PROVE Sent'
  <2>1. holder = "reconcile" /\ pc' = pc BY <1>11, Zenon DEF StartFails, Fault, NoFault
  <2> QED BY <2>1, Zenon DEF Holding
<1>12. CASE ConfigureDone
  BY <1>12, Zenon DEF ConfigureDone
<1>13. ASSUME NEW hit \in SUBSET Tunnel, QuotaHit(hit) PROVE Sent'
  BY <1>13, Zenon DEF QuotaHit, Change
<1>14. ASSUME NEW hit \in SUBSET Tunnel, TelemetryFails(hit) PROVE Sent'
  <2>1. /\ UNCHANGED <<current, loop, frame, fresh, life, failed>> /\ (steady' => steady)
        /\ pc = "telemetry"
    BY <1>14, Zenon DEF TelemetryFails, Fault
  <2> QED BY <2>1, Zenon
<1>15. CASE Inspect
  BY <1>15, Zenon DEF Inspect
<1>16. CASE InspectFails
  BY <1>16, Zenon DEF InspectFails, Fault
<1>17. ASSUME NEW i \in Interface, CloseResponder(i) PROVE Sent'
  BY <1>17, Zenon DEF CloseResponder
<1>18. ASSUME NEW i \in Interface, CloseSocket(i) PROVE Sent'
  <2>1. closing = {i} /\ UNCHANGED <<pc, life, holder>> BY <1>18, Zenon DEF CloseSocket
  <2>2. holder = "reconcile" \/ holder = "close" BY <2>1, Zenon DEF Holding, Flags
  <2> QED BY <2>1, <2>2, Zenon DEF Holding
<1>19. CASE Signal
  BY <1>19, Zenon DEF Signal
<1>20. CASE CloseLock
  BY <1>20, Zenon DEF CloseLock
<1>21. CASE CloseDone
  BY <1>21, Zenon DEF CloseDone
<1>22. CASE Exit
  BY <1>22, Zenon DEF Exit, NoFault, ProcessEnds, ApplyReturns
<1>23. CASE Crash
  BY <1>23, Zenon DEF Crash, Fault, ProcessEnds, ApplyReturns
<1>24. CASE Boot
  BY <1>24, Zenon DEF Boot, Holding
<1>25. ASSUME NEW i \in Interface, LoopCheck(i) PROVE Sent'
  <2>1. /\ UNCHANGED <<current, pc, life, steady, failed>>
        /\ \A j \in Interface : j # i => loop'[j] = loop[j] /\ frame'[j] = frame[j]
        /\ loop'[i] # "send" /\ \A j \in fresh' : j # i => j \in fresh
    BY <1>25, SMTT(30) DEF LoopCheck, Sockets, Typed
  <2>2. fresh' \subseteq Interface BY <1>25, Zenon DEF LoopCheck, Typed
  <2> QED BY <2>1, <2>2, ZenonT(60)
<1>26. ASSUME NEW i \in Interface, NEW a \in Address, Receive(i, a) PROVE Sent'
  <2>1. /\ UNCHANGED <<current, pc, life, steady, failed>>
        /\ \A j \in Interface : j # i => loop'[j] = loop[j] /\ frame'[j] = frame[j]
        /\ loop'[i] # "send" /\ \A j \in fresh' : j # i => j \in fresh
    BY <1>26, SMTT(30) DEF Receive, Sockets, Typed
  <2>2. fresh' \subseteq Interface BY <1>26, ZenonT(60) DEF Receive, Typed
  <2> QED BY <2>1, <2>2, ZenonT(60)
<1>27. ASSUME NEW i \in Interface, ReceiveNothing(i) PROVE Sent'
  <2>1. /\ UNCHANGED <<current, pc, life, steady, failed>>
        /\ \A j \in Interface : j # i => loop'[j] = loop[j] /\ frame'[j] = frame[j]
        /\ loop'[i] # "send" /\ \A j \in fresh' : j # i => j \in fresh
    BY <1>27, SMTT(30) DEF ReceiveNothing, Sockets, Typed
  <2>2. fresh' \subseteq Interface BY <1>27, Zenon DEF ReceiveNothing, Typed
  <2> QED BY <2>1, <2>2, Zenon
<1>28. ASSUME NEW i \in Interface, Answer(i) PROVE Sent'
  <2>1. /\ UNCHANGED <<current, fresh, pc, life, steady, failed>>
        /\ \A j \in Interface : j # i => loop'[j] = loop[j] /\ frame'[j] = frame[j]
        /\ loop'[i] = "send" => frame'[i] \in Answers(current[i])
    BY <1>28, SMTT(30) DEF Answer, Decide, Sockets, Typed
  <2> QED BY <2>1, ZenonT(60) DEF Typed
<1>29. ASSUME NEW i \in Interface, Send(i) PROVE Sent'
  <2>1. /\ UNCHANGED <<current, pc, life, steady, failed>>
        /\ \A j \in Interface : j # i => loop'[j] = loop[j] /\ frame'[j] = frame[j]
        /\ loop'[i] # "send" /\ \A j \in fresh' : j # i => j \in fresh
    BY <1>29, SMTT(30) DEF Send, Sockets, Typed
  <2>2. fresh' \subseteq Interface BY <1>29, Zenon DEF Send, Typed
  <2> QED BY <2>1, <2>2, Zenon
<1>30. ASSUME NEW i \in Interface, LinkDown(i) PROVE Sent'
  BY <1>30, Zenon DEF LinkDown, Change
<1>31. ASSUME NEW i \in Interface, LinkUp(i) PROVE Sent'
  BY <1>31, Zenon DEF LinkUp, Change
<1>32. ASSUME NEW i \in Interface, NEW a \in Address,
             HostAddress(i, a)
      PROVE  Sent'
  BY <1>32, Zenon DEF HostAddress, Change
<1>33. ASSUME NEW n \in Fd, OtherOpens(n) PROVE Sent'
  BY <1>33, Zenon DEF OtherOpens
<1>34. ASSUME NEW n \in Fd, OtherCloses(n) PROVE Sent'
  BY <1>34, Zenon DEF OtherCloses
<1>35. CASE UNCHANGED vars
  BY <1>35, Zenon DEF vars
<1> HIDE DEF Sent, rows, links, manager, reconcile, loops, ghosts
<1> QED
  BY <1>1, <1>2, <1>3, <1>4, <1>5, <1>6, <1>7, <1>8, <1>9, <1>10, <1>11,
     <1>12, <1>13, <1>14, <1>15, <1>16, <1>17, <1>18, <1>19, <1>20, <1>21,
     <1>22, <1>23, <1>24, <1>25, <1>26, <1>27, <1>28, <1>29, <1>30, <1>31,
     <1>32, <1>33, <1>34, <1>35, ZenonT(60)
     DEF Next, Progress, Closing, LoopStep

-----------------------------------------------------------------------------
(***************************************************************************)
(* The invariant and the theorems.                                         *)
(***************************************************************************)
IInv == Sockets /\ Holding /\ Typed /\ Flags /\ Listeners /\ Sent

LEMMA Invariance == Spec => []IInv
<1>1. Init => IInv
  <2>1. Init => Sent BY Zenon DEF Init, Sent
  <2> QED BY <2>1, SocketsInit, HoldingInit, TypedInit, ListenersInit DEF IInv
<1>2. IInv /\ [Next]_vars => IInv'
  BY SocketsStep, HoldingStep, TypedStep, FlagsStep, ListenersStep, SentStep DEF IInv
<1>3. QED
  BY <1>1, <1>2, PTL DEF Spec

\* Every variable keeps its type.
THEOREM TypeCorrect == Spec => []TypeOK
<1>1. IInv => TypeOK
  <2> SUFFICES ASSUME IInv PROVE TypeOK OBVIOUS
  <2>1. sets \in [DOMAIN sets -> ProxySet]
    BY SMTT(30) DEF IInv, Typed
  <2> QED BY <2>1, Zenon DEF IInv, TypeOK, Sockets, Typed, Flags
<1>2. QED
  BY <1>1, Invariance, PTL

\* A packet loop works on the open socket of its own listener, whatever else
\* opens and closes descriptors.
THEOREM LoopsOwnTheirSockets == Spec => []LoopOwnsItsSocket
<1>1. IInv => LoopOwnsItsSocket
  BY Zenon DEF IInv, Sockets, LoopOwnsItsSocket
<1>2. QED
  BY <1>1, Invariance, PTL

\* No packet socket is left without a listener.
THEOREM NoSocketIsLeft == Spec => []NoSocketLeft
<1>1. IInv => NoSocketLeft
  BY Zenon DEF IInv, Sockets, NoSocketLeft
<1>2. QED
  BY <1>1, Invariance, PTL

\* ndpProxySetsFor answers for the wanted addresses, and for no others.
LEMMA DueIsWanted ==
  ASSUME Typed, NEW i \in Interface
  PROVE  Answers(Due[i]) = Wanted(i)
<1> DEFINE proxied == {u \in Upstream \cap onLink : SetFor(u).delegated # {}}
           on == {u \in proxied : egress[u] = i}
<1>1. \A u \in Upstream :
        /\ SetFor(u).delegated = {t \in enabled : UpstreamOf[t] = u}
        /\ SetFor(u).local = host[egress[u]] \cap PrefixOf[u]
  BY SMTT(30) DEF SetFor
<1>2. CASE i \in {egress[u] : u \in proxied}
  <2>1. Due[i] = [delegated |-> UNION {SetFor(u).delegated : u \in on},
                  local     |-> UNION {SetFor(u).local : u \in on}]
    BY <1>2, Zenon DEF Due, SetsFor
  <2>2. /\ Due[i].delegated = UNION {SetFor(u).delegated : u \in on}
        /\ Due[i].local = UNION {SetFor(u).local : u \in on}
    <3> HIDE DEF on
    <3> QED BY <2>1, SMTT(30)
  <2>3. \A t : t \in Due[i].delegated <=>
          t \in enabled /\ UpstreamOf[t] \in onLink /\ egress[UpstreamOf[t]] = i
    BY <1>1, <2>2, NDPAssumption, SMTT(30) DEF Typed
  <2>4. ASSUME NEW t \in Due[i].delegated, NEW a \in BlockOf[t]
        PROVE  a \in Due[i].local <=> a \in host[i]
    <3>1. /\ t \in Tunnel /\ UpstreamOf[t] \in on /\ a \in PrefixOf[UpstreamOf[t]]
          /\ egress[UpstreamOf[t]] = i
      BY <1>1, <2>3, NDPAssumption, SMTT(30) DEF Typed
    <3>2. a \in host[i] => a \in SetFor(UpstreamOf[t]).local
      BY <1>1, <3>1, Zenon
    <3>3. \A u \in on : SetFor(u).local \subseteq host[i]
      BY <1>1, Zenon
    <3> QED BY <2>2, <3>1, <3>2, <3>3, ZenonT(60)
  <2>5. \A t \in Due[i].delegated : t \in Tunnel /\ BlockOf[t] \subseteq Address
    BY <2>3, NDPAssumption, SMTT(30) DEF Typed
  <2> HIDE DEF on, proxied
  <2> QED BY <2>3, <2>4, <2>5, ZenonT(60) DEF Answers, Wanted
<1>3. CASE i \notin {egress[u] : u \in proxied}
  <2>1. Due[i] = NoSet BY <1>3, Zenon DEF Due, SetsFor
  <2>2. Answers(Due[i]) = {} BY <2>1, SMTT(30) DEF Answers, NoSet
  <2>3. ASSUME NEW t \in enabled, UpstreamOf[t] \in onLink, egress[UpstreamOf[t]] = i
        PROVE  FALSE
    <3>1. UpstreamOf[t] \in Upstream BY NDPAssumption, SMTT(30) DEF Typed
    <3>2. t \in SetFor(UpstreamOf[t]).delegated BY <1>1, <3>1, Zenon
    <3> QED BY <1>3, <2>3, <3>1, <3>2, Zenon
  <2> HIDE DEF proxied
  <2> QED BY <2>2, <2>3, Zenon DEF Wanted
<1> QED BY <1>2, <1>3, ZenonT(60)

\* After a successful reconcile the listeners answer for exactly the wanted
\* addresses.
THEOREM ListenersAnswerForWanted == Spec => []ListenersMatch
<1>1. IInv => ListenersMatch
  <2> SUFFICES ASSUME IInv, Settled, NEW i \in Interface
               PROVE  Answers(current[i]) = Wanted(i)
    BY DEF ListenersMatch
  <2>1. current = Due BY Zenon DEF IInv, Listeners, Settled
  <2> QED BY <2>1, DueIsWanted, Zenon DEF IInv
<1>2. QED
  BY <1>1, Invariance, PTL

\* An answer that is sent while nothing has changed since a successful reconcile
\* is for a wanted address.
THEOREM SentIsWanted == Spec => []AnswersAreWanted
<1>1. IInv => AnswersAreWanted
  <2> SUFFICES ASSUME IInv, NEW i \in fresh, Settled, loop[i] = "send"
               PROVE  frame[i] \in Wanted(i)
    BY Zenon DEF AnswersAreWanted
  <2>1. current = Due BY Zenon DEF IInv, Listeners, Settled
  <2>2. i \in Interface BY Zenon DEF IInv, Typed
  <2>3. frame[i] \in Answers(current[i]) BY Zenon DEF IInv, Sent, Settled
  <2> QED BY <2>1, <2>2, <2>3, DueIsWanted, Zenon DEF IInv
<1>2. QED
  BY <1>1, Invariance, PTL
=============================================================================
