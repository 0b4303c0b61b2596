----------------------------- MODULE Delegation -----------------------------
(***************************************************************************)
(* The upstreams and what is delegated from them.                          *)
(*                                                                         *)
(* An upstream is a provider connection: a delegated prefix, a WireGuard   *)
(* device and the limits of its allocations.  A tunnel holds a block of    *)
(* its upstream's prefix.  Administrators create, edit and delete both;    *)
(* each operation holds App.mu to its end, changes a row, changes the      *)
(* kernel and reconciles, in an order that depends on the operation, and   *)
(* may fail or die between any two of these.                               *)
(*                                                                         *)
(* Tunnels are enabled here (module QuotaEnforcement is about those that   *)
(* are not), and of the kernel's state there are the devices, the UDP port *)
(* each is bound to and the addresses each peer may use.  An optional      *)
(* field is a set with at most one element.                                *)
(***************************************************************************)
EXTENDS Prefixes, Sequences

CONSTANTS
    Form,            \* what administrators submit, checked field by field
    TransportPool,   \* defaultTransportPrefix: the addresses it formats
    Slaac,           \* bits of the block that SLAAC needs: 64 in the code
    Legacy,          \* the upstream of a single-upstream release's settings
    LegacyTunnels,   \* the blocks of its tunnels, by tunnel id
    MaxUpstream,     \* bound: upstream ids
    MaxTunnel,       \* bound: tunnel ids
    MaxFaults        \* bound: failed calls, crashes and reboots

Row == [name : STRING, cidr : Prefix, mode : {"routed", "onlink"},
        iface : STRING, egress : STRING, host : STRING, port : Nat,
        server : SUBSET Prefix, transport : SUBSET Prefix,
        min : 0 .. W, max : 0 .. W, dflt : 0 .. W]

\* A form's limits need not be sensible yet.
FormType == [name : STRING, cidr : Prefix, mode : {"routed", "onlink"},
             iface : STRING, egress : STRING, host : STRING, port : Nat,
             server : SUBSET Prefix, transport : SUBSET Prefix,
             min : Nat, max : Nat, dflt : Nat]

ASSUME BoundsAssumption ==
    /\ Slaac \in Nat /\ MaxUpstream \in Nat \ {0}
    /\ MaxTunnel \in Nat /\ MaxFaults \in Nat

ASSUME FormAssumption ==
    /\ Form \subseteq FormType
    /\ TransportPool \in Seq(Prefix) /\ TransportPool # <<>>

VARIABLES
    upstreams,       \* table upstreams: a function from ids to rows
    tunnels,         \* table tunnels: a function from ids to upstream and block
    device,          \* the WireGuard devices, by name: port and peers
    pc,              \* where the holder of App.mu is; "idle": it is free
    todo,            \* upstreams the running Apply has still to visit
    stale,           \* the device a rename has still to remove
    gone,            \* the id of the row that a deletion has still to drop
    faults,          \* faults so far
    deleted          \* observation only: an upstream has been deleted

vars == <<upstreams, tunnels, device, pc, todo, stale, gone, faults, deleted>>

UpstreamId == 1 .. MaxUpstream
TunnelId   == 1 .. MaxTunnel

\* A table or a set of devices with an entry set, and without it.
Put(f, k, v) == [x \in DOMAIN f \cup {k} |-> IF x = k THEN v ELSE f[x]]
Drop(f, k)   == [x \in DOMAIN f \ {k} |-> f[x]]
Empty        == [x \in {} |-> x]

\* The row id that SQLite gives to an INTEGER PRIMARY KEY.
NextId(table, id) ==
    /\ \A i \in DOMAIN table : i < id
    /\ id = 1 \/ id - 1 \in DOMAIN table

Of(u) == {t \in DOMAIN tunnels : tunnels[t].upstream = u}

Blocks(u) == {tunnels[t].cidr : t \in Of(u)}

Fault == faults < MaxFaults /\ faults' = faults + 1

-----------------------------------------------------------------------------
(***************************************************************************)
(* The rules for a row.                                                    *)
(***************************************************************************)

Clamp(n, low, high) == IF n < low THEN low ELSE IF n > high THEN high ELSE n

\* defaultTransportAddress: the first range that no other upstream has.
DefaultTransport(others) ==
    LET taken == {Masked(x) : x \in UNION {upstreams[v].transport : v \in others}}
        free  == {i \in DOMAIN TransportPool : Masked(TransportPool[i]) \notin taken}
    IN  TransportPool[IF free = {} THEN 1
                      ELSE CHOOSE i \in free : \A j \in free : i <= j]

\* normalizeUpstream
Normalize(f, others) ==
    LET cidr == Masked(f.cidr)
        min  == IF cidr.bits >= Slaac THEN cidr.bits ELSE Clamp(f.min, cidr.bits, W)
        max  == IF cidr.bits >= Slaac THEN cidr.bits ELSE Clamp(f.max, min, W)
        dflt == IF cidr.bits >= Slaac THEN cidr.bits ELSE Clamp(f.dflt, min, max)
    IN  [f EXCEPT !.cidr = cidr, !.min = min, !.max = max, !.dflt = dflt,
                  !.transport = IF f.mode = "onlink" /\ f.transport = {}
                                THEN {DefaultTransport(others)}
                                ELSE f.transport]

\* validateUpstream
Valid(row) ==
    /\ row.cidr.bits <= row.min /\ row.min <= row.max
    /\ row.dflt \in row.min .. row.max
    /\ \A x \in row.transport : ~Contains(row.cidr, x.addr)
    /\ row.mode = "onlink" => row.server = {} /\ row.transport # {}
    /\ row.iface \notin {"wg-warp", row.egress}
    /\ \A s \in row.server : Contains(row.cidr, s.addr)

\* Mistake: only an equal prefix is refused.
CompatibleUnequal(row, other) ==
    /\ row.name # other.name
    /\ row.iface # other.iface /\ row.egress # other.iface /\ row.iface # other.egress
    /\ row.cidr # other.cidr
    /\ \A x \in row.transport, y \in other.transport :
          ~Overlaps(Masked(x), Masked(y))
    /\ ~(row.port = other.port /\ row.host = other.host)

\* Mistake: the egress interface is compared one way round.
CompatibleOneWay(row, other) ==
    /\ row.name # other.name
    /\ row.iface # other.iface /\ row.egress # other.iface
    /\ ~Overlaps(row.cidr, other.cidr)
    /\ \A x \in row.transport, y \in other.transport :
          ~Overlaps(Masked(x), Masked(y))
    /\ ~(row.port = other.port /\ row.host = other.host)

\* validateUpstreamUniqueness
Compatible(row, other) ==
    /\ row.name # other.name
    /\ row.iface # other.iface
    /\ row.egress # other.iface
    /\ row.iface # other.egress
    /\ ~Overlaps(row.cidr, other.cidr)
    /\ \A x \in row.transport, y \in other.transport :
          ~Overlaps(Masked(x), Masked(y))
    /\ ~(row.port = other.port /\ row.host = other.host)

Unique(row, others) == \A v \in others : Compatible(row, upstreams[v])

\* serverReservation
Reservation(row) ==
    {Masked([addr |-> s.addr,
             bits |-> IF s.bits < row.max THEN row.max ELSE s.bits]) :
        s \in {x \in row.server : row.mode = "routed" /\ Contains(row.cidr, x.addr)}}

\* Mistake: a block that only overlaps the prefix will do.
KeepsOverlapping(row, blocks) ==
    \A b \in blocks : /\ Overlaps(b, row.cidr)
                      /\ \A r \in Reservation(row) : ~Overlaps(r, b)

\* Mistake: the reservation is forgotten.
KeepsBlocks(row, blocks) == \A b \in blocks : Inside(b, row.cidr)

\* validateUpstreamAgainstTunnels
Keeps(row, blocks) ==
    \A b \in blocks : /\ Inside(b, row.cidr)
                      /\ \A r \in Reservation(row) : ~Overlaps(r, b)

\* What the single-upstream release has left is in order.
ASSUME LegacyAssumption ==
    /\ DOMAIN LegacyTunnels \subseteq TunnelId
    /\ LegacyTunnels \in [DOMAIN LegacyTunnels -> Prefix]
    /\ Legacy \subseteq {row \in Row : Valid(row)}
    /\ Legacy = {} => DOMAIN LegacyTunnels = {}
    /\ \A row \in Legacy, t \in DOMAIN LegacyTunnels : Keeps(row, {LegacyTunnels[t]})
    /\ \A s, t \in DOMAIN LegacyTunnels :
          s # t => ~Overlaps(LegacyTunnels[s], LegacyTunnels[t])

-----------------------------------------------------------------------------
(***************************************************************************)
(* The kernel.                                                             *)
(***************************************************************************)

\* clientTransportAddress: the address of tunnel t in the transport range.
ClientTransport(row, t) ==
    {AddressOf(n) : n \in
        {m \in 0 .. 2^W - 1 : \E x \in row.transport :
            LET first == (Value(Masked(x).addr) + t + 1) % 2^W
            IN  /\ row.mode = "onlink"
                /\ m = IF AddressOf(first) = x.addr THEN (first + 1) % 2^W ELSE first
                /\ Contains(x, AddressOf(m))}}

\* tunnelAllowedIPs, without IPv4.
AllowedIPs(row, t) ==
    {tunnels[t].cidr} \cup {[addr |-> a, bits |-> W] : a \in ClientTransport(row, t)}

\* No other device is bound to the port of upstream u.
PortFree(u) ==
    \A d \in DOMAIN device \ {upstreams[u].iface} :
        device[d].port # {upstreams[u].port}

\* applyUpstream creates the device if there is none ...
Created(u) ==
    LET name == upstreams[u].iface
    IN  IF name \in DOMAIN device THEN device
        ELSE Put(device, name, [port |-> {}, peers |-> {}])

\* Mistake: an existing device is taken to be in order.
ConfiguredOnce(u) ==
    IF upstreams[u].iface \in DOMAIN device THEN device
    ELSE Put(device, upstreams[u].iface,
             [port  |-> {upstreams[u].port},
              peers |-> {[tunnel |-> t, allowed |-> AllowedIPs(upstreams[u], t)] :
                             t \in Of(u)}])

\* ... and makes the upstream's tunnels its peers.
Configured(u) ==
    Put(device, upstreams[u].iface,
        [port  |-> {upstreams[u].port},
         peers |-> {[tunnel |-> t, allowed |-> AllowedIPs(upstreams[u], t)] :
                        t \in Of(u)}])

-----------------------------------------------------------------------------
\* A database that is new, or that a single-upstream release has left.
Init ==
    /\ upstreams = Empty
    /\ tunnels = [t \in DOMAIN LegacyTunnels |->
                     [upstream |-> 0, cidr |-> LegacyTunnels[t]]]
    /\ device = Empty
    /\ pc = "down"
    /\ todo = {} /\ stale = {} /\ gone = 0
    /\ faults = 0
    /\ deleted = FALSE

\* Enter reconcileLocked.
Reconciling == pc' = "apply" /\ todo' = DOMAIN upstreams' /\ stale' = {} /\ gone' = 0

\* App.mu is released.
Return == pc' = "idle" /\ todo' = {} /\ stale' = {} /\ gone' = 0

\* The 30 second ticker, or a resync by an administrator.
Reconcile ==
    /\ pc = "idle"
    /\ UNCHANGED <<upstreams, tunnels, device, faults, deleted>>
    /\ Reconciling

ApplyUpstream(u) ==
    /\ pc = "apply"
    /\ u \in todo
    /\ PortFree(u)
    /\ device' = Configured(u)
    /\ todo' = todo \ {u}
    /\ UNCHANGED <<upstreams, tunnels, pc, stale, gone, faults, deleted>>

\* The port cannot be bound.  The other upstreams are still visited.
PortTaken(u) ==
    /\ pc = "apply"
    /\ u \in todo
    /\ ~PortFree(u)
    /\ device' = Created(u)
    /\ todo' = todo \ {u}
    /\ UNCHANGED <<upstreams, tunnels, pc, stale, gone, faults, deleted>>

\* Another call fails, before or after the device is configured.
ApplyUpstreamFails(u) ==
    /\ pc = "apply"
    /\ u \in todo
    /\ Fault
    /\ \/ device' \in {device, Created(u)}
       \/ PortFree(u) /\ device' = Configured(u)
    /\ todo' = todo \ {u}
    /\ UNCHANGED <<upstreams, tunnels, pc, stale, gone, deleted>>

ApplyDone ==
    /\ pc = "apply"
    /\ todo = {}
    /\ Return
    /\ UNCHANGED <<upstreams, tunnels, device, faults, deleted>>

\* An early return of reconcileLocked.
ReconcileAborts ==
    /\ pc = "apply"
    /\ todo = DOMAIN upstreams
    /\ Fault
    /\ Return
    /\ UNCHANGED <<upstreams, tunnels, device, deleted>>

-----------------------------------------------------------------------------
(***************************************************************************)
(* Upstreams.                                                              *)
(***************************************************************************)

CreateUpstream(f, id) ==
    LET row == Normalize(f, DOMAIN upstreams)
    IN  /\ pc = "idle"
        /\ Valid(row)
        /\ Unique(row, DOMAIN upstreams)
        /\ NextId(upstreams, id)
        /\ upstreams' = Put(upstreams, id, row)
        /\ UNCHANGED <<tunnels, device, faults, deleted>>
        /\ Reconciling

\* Mistake: the renamed device is left to the reconciler.
UpdateUpstreamOnly(u, f) ==
    LET others == DOMAIN upstreams \ {u}
        row    == Normalize(f, others)
    IN  /\ pc = "idle"
        /\ u \in DOMAIN upstreams
        /\ Valid(row)
        /\ Unique(row, others)
        /\ Keeps(row, Blocks(u))
        /\ upstreams' = Put(upstreams, u, row)
        /\ UNCHANGED <<tunnels, device, faults, deleted>>
        /\ Reconciling

\* UpdateUpstream saves the row first.  When that renames the device, the old
\* one has still to be removed.
UpdateUpstream(u, f) ==
    LET others == DOMAIN upstreams \ {u}
        row    == Normalize(f, others)
        old    == upstreams[u].iface
    IN  /\ pc = "idle"
        /\ u \in DOMAIN upstreams
        /\ Valid(row)
        /\ Unique(row, others)
        /\ Keeps(row, Blocks(u))
        /\ upstreams' = Put(upstreams, u, row)
        /\ \/ row.iface = old /\ Reconciling
           \/ row.iface # old /\ pc' = "rename" /\ stale' = {old}
                /\ UNCHANGED <<todo, gone>>
        /\ UNCHANGED <<tunnels, device, faults, deleted>>

RemoveRenamed ==
    /\ pc = "rename"
    /\ device' = [d \in DOMAIN device \ stale |-> device[d]]
    /\ UNCHANGED <<upstreams, tunnels, faults, deleted>>
    /\ Reconciling

\* The old device cannot be removed: UpdateUpstream returns.
RemoveRenamedFails ==
    /\ pc = "rename"
    /\ Fault
    /\ Return
    /\ UNCHANGED <<upstreams, tunnels, device, deleted>>

\* DeleteUpstream removes the device first, and changes nothing if that fails.
DeleteUpstream(u) ==
    /\ pc = "idle"
    /\ u \in DOMAIN upstreams
    /\ Of(u) = {}
    /\ device' = Drop(device, upstreams[u].iface)
    /\ pc' = "deleteUpstream"
    /\ gone' = u
    /\ UNCHANGED <<upstreams, tunnels, todo, stale, faults, deleted>>

DeleteUpstreamRow ==
    /\ pc = "deleteUpstream"
    /\ upstreams' = Drop(upstreams, gone)
    /\ deleted' = TRUE
    /\ UNCHANGED <<tunnels, device, faults>>
    /\ Reconciling

DeleteUpstreamRowFails ==
    /\ pc = "deleteUpstream"
    /\ Fault
    /\ Return
    /\ UNCHANGED <<upstreams, tunnels, device, deleted>>

-----------------------------------------------------------------------------
(***************************************************************************)
(* Tunnels.                                                                *)
(***************************************************************************)

\* CreateTunnel allocates a block of the requested size and inserts the row.
CreateTunnel(u, bits, id) ==
    LET row  == upstreams[u]
        used == Blocks(u) \cup Reservation(row)
    IN  /\ pc = "idle"
        /\ u \in DOMAIN upstreams
        /\ Valid(row)
        /\ bits \in row.min .. row.max
        /\ \A x \in used : Inside(x, row.cidr)
        /\ NextId(tunnels, id)
        /\ \E block \in FreeBlocks(row.cidr, used, bits) :
              tunnels' = Put(tunnels, id, [upstream |-> u, cidr |-> block])
        /\ UNCHANGED <<upstreams, device, faults, deleted>>
        /\ Reconciling

\* Mistake: the row is dropped although the peer could not be removed.
DeleteTunnelAnyway(t) ==
    /\ pc = "idle"
    /\ t \in DOMAIN tunnels
    /\ pc' = "deleteTunnel"
    /\ gone' = t
    /\ UNCHANGED <<upstreams, tunnels, device, todo, stale, faults, deleted>>

\* DeleteTunnel removes the peer first, and changes nothing of what is here if
\* that fails, as it does when the device is missing.
DeleteTunnel(t) ==
    LET d == upstreams[tunnels[t].upstream].iface
    IN  /\ pc = "idle"
        /\ t \in DOMAIN tunnels
        /\ d \in DOMAIN device
        /\ device' = [device EXCEPT ![d].peers = {p \in @ : p.tunnel # t}]
        /\ pc' = "deleteTunnel"
        /\ gone' = t
        /\ UNCHANGED <<upstreams, tunnels, todo, stale, faults, deleted>>

DeleteTunnelRow ==
    /\ pc = "deleteTunnel"
    /\ tunnels' = Drop(tunnels, gone)
    /\ Return
    /\ UNCHANGED <<upstreams, device, faults, deleted>>

DeleteTunnelRowFails ==
    /\ pc = "deleteTunnel"
    /\ Fault
    /\ Return
    /\ UNCHANGED <<upstreams, tunnels, device, deleted>>

-----------------------------------------------------------------------------
(***************************************************************************)
(* The daemon.                                                             *)
(***************************************************************************)

Crash ==
    /\ pc # "down"
    /\ Fault
    /\ pc' = "down" /\ todo' = {} /\ stale' = {} /\ gone' = 0
    /\ UNCHANGED <<upstreams, tunnels, device, deleted>>

Reboot ==
    /\ pc = "down"
    /\ DOMAIN device # {}
    /\ Fault
    /\ device' = Empty
    /\ UNCHANGED <<upstreams, tunnels, pc, todo, stale, gone, deleted>>

\* migrateLegacyUpstream: a database without upstreams gets that of the old
\* settings, and the tunnels that have none.
Migrate ==
    \/ /\ DOMAIN upstreams = {}
       /\ \E row \in Legacy : upstreams' = Put(upstreams, 1, row)
       /\ tunnels' = [t \in DOMAIN tunnels |->
                         IF tunnels[t].upstream = 0
                         THEN [tunnels[t] EXCEPT !.upstream = 1] ELSE tunnels[t]]
    \/ /\ DOMAIN upstreams # {} \/ Legacy = {}
       /\ UNCHANGED <<upstreams, tunnels>>

\* The daemon opens the store, which migrates it, and reconciles.
Boot ==
    /\ pc = "down"
    /\ Migrate
    /\ UNCHANGED <<device, faults, deleted>>
    /\ Reconciling

-----------------------------------------------------------------------------
Progress ==
    \/ \E u \in UpstreamId : ApplyUpstream(u) \/ PortTaken(u)
    \/ ApplyDone
    \/ RemoveRenamed
    \/ DeleteUpstreamRow
    \/ DeleteTunnelRow
    \/ Boot

Faulty ==
    \/ \E u \in UpstreamId : ApplyUpstreamFails(u)
    \/ ReconcileAborts
    \/ RemoveRenamedFails
    \/ DeleteUpstreamRowFails
    \/ DeleteTunnelRowFails
    \/ Crash
    \/ Reboot

Operation ==
    \/ Reconcile
    \/ \E f \in Form, id \in UpstreamId : CreateUpstream(f, id)
    \/ \E u \in UpstreamId, f \in Form : UpdateUpstream(u, f)
    \/ \E u \in UpstreamId : DeleteUpstream(u)
    \/ \E u \in UpstreamId, bits \in 0 .. W, id \in TunnelId : CreateTunnel(u, bits, id)
    \/ \E t \in TunnelId : DeleteTunnel(t)

Next == Progress \/ Faulty \/ Operation

Spec == Init /\ [][Next]_vars

\* Go's mutex does not starve a waiter, so the ticker gets App.mu again and
\* again; a holder of App.mu goes on; systemd restarts the daemon.
FairSpec == Spec /\ WF_vars(Progress) /\ SF_vars(Reconcile)

-----------------------------------------------------------------------------
(***************************************************************************)
(* Properties.                                                             *)
(***************************************************************************)

Tunnel == [upstream : 0 .. MaxUpstream, cidr : Prefix]

\* The tables hold what their columns allow; in particular normalizeUpstream
\* leaves limits that are lengths of a prefix, whatever the form says.
TypeOK ==
    /\ DOMAIN upstreams \subseteq UpstreamId
    /\ upstreams \in [DOMAIN upstreams -> Row]
    /\ DOMAIN tunnels \subseteq TunnelId
    /\ tunnels \in [DOMAIN tunnels -> Tunnel]
    /\ DOMAIN device \subseteq STRING
    /\ pc \in {"idle", "apply", "rename", "deleteUpstream", "deleteTunnel", "down"}
    /\ todo \subseteq UpstreamId
    /\ stale \subseteq STRING
    /\ gone \in Nat
    /\ faults \in 0 .. MaxFaults
    /\ deleted \in BOOLEAN

\* No address is delegated twice, across every upstream and whatever edits of
\* prefixes and limits came between the allocations (CreateTunnel looks only at
\* the blocks of the tunnel's own upstream).
NoOverlap ==
    \A s, t \in DOMAIN tunnels :
        s # t => ~Overlaps(tunnels[s].cidr, tunnels[t].cidr)

\* Once the daemon has migrated the database, every tunnel has an upstream, and
\* its block is part of that upstream's prefix as it is now: no edit strands a
\* running client and no deletion orphans one (validateUpstreamAgainstTunnels,
\* DeleteUpstream).
AllocationsInside ==
    \A t \in DOMAIN tunnels :
        \/ pc = "down" /\ DOMAIN upstreams = {} /\ tunnels[t].upstream = 0
        \/ /\ tunnels[t].upstream \in DOMAIN upstreams
           /\ Inside(tunnels[t].cidr, upstreams[tunnels[t].upstream].cidr)

\* No client holds the address this host answers for, although the part of the
\* prefix that is reserved for it changes with the limits (serverReservation).
ServerKeepsAddress ==
    \A t \in DOMAIN tunnels : tunnels[t].upstream \in DOMAIN upstreams =>
        LET row == upstreams[tunnels[t].upstream]
        IN  \A s \in row.server :
                row.mode = "routed" => ~Contains(tunnels[t].cidr, s.addr)

\* Upstreams stay independent through every order of creations and edits: none
\* shares a device or delegated space with another, and none leaves through
\* another's device, which would bypass the inter-tunnel policy
\* (validateUpstreamUniqueness).
UpstreamsIndependent ==
    \A u, v \in DOMAIN upstreams : u # v =>
        /\ upstreams[u].iface # upstreams[v].iface
        /\ upstreams[u].egress # upstreams[v].iface
        /\ ~Overlaps(upstreams[u].cidr, upstreams[v].cidr)

\* As long as nothing has failed, every device belongs to an upstream whenever
\* App.mu is free: renames and deletions take their device with them
\* (UpdateUpstream, DeleteUpstream).
NoDeviceLeft ==
    pc = "idle" /\ faults = 0 =>
        DOMAIN device \subseteq {upstreams[u].iface : u \in DOMAIN upstreams}

\* A block that the kernel still routes to a peer is still recorded, so it is
\* not given to another client, whichever step of a deletion fails
\* (DeleteTunnel).  Holds while no upstream renames its device.
PeersAreRecorded ==
    \A d \in DOMAIN device : \A p \in device[d].peers :
        p.tunnel \in DOMAIN tunnels /\ tunnels[p.tunnel].cidr \in p.allowed

\* The kernel serves upstream u: its device exists, is bound to its port and has
\* its tunnels as peers.
Served(u) ==
    LET d == upstreams[u].iface
    IN  /\ d \in DOMAIN device
        /\ device[d].port = {upstreams[u].port}
        /\ {p.tunnel : p \in device[d].peers} = Of(u)

\* An upstream that has been accepted is eventually served, or deleted
\* (reconcileLocked after every operation, and every 30 seconds).
UpstreamIsServed ==
    \A u \in UpstreamId :
        u \in DOMAIN upstreams ~> (u \in DOMAIN upstreams => Served(u))

\* A device that belongs to no upstream any more is eventually removed, or used
\* again (UpdateUpstream tears the previous device down).
LeftDeviceIsRemoved ==
    \A d \in {f.iface : f \in Form} :
        LET left == d \in DOMAIN device /\ \A u \in DOMAIN upstreams : upstreams[u].iface # d
        IN  left ~> ~left

\* An upstream that was converted and then deleted does not come back when the
\* daemon starts again (migrateLegacyUpstream).
DeletedStaysDeleted ==
    [][deleted /\ DOMAIN upstreams = {} /\ Boot => DOMAIN upstreams' = {}]_vars

=============================================================================
