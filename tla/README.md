# Verification of open-tunnelbroker

TLA+ models of the tunnel broker daemon, TLC runs on small instances and TLAPS
proofs for all instances. Paths such as `service.go` are relative to
`src/internal/broker/`.

## The system

One daemon (`cmd/open-tunnelbroker`) keeps the desired state in SQLite and makes
the Linux kernel agree with it. Administrators act through web handlers, a
ticker reconciles every 30 seconds, the daemon may be killed at any point and the
kernel keeps its state across a restart of the daemon but not of the host.

| part | state | operations | interacts with |
|---|---|---|---|
| store (`store.go`) | tables `upstreams`, `tunnels`, `settings`, `warp_account`, groups, admins, audit log | one transaction per operation, mostly; migrations at open | everything |
| upstream registry (`service.go`) | rows of `upstreams` | create, edit (with rename), delete | allocations, kernel |
| tunnels and allocations (`service.go`, `allocator.go`) | rows of `tunnels` | create, delete, enable, quota, mode, groups | upstreams, quota, kernel |
| reconciler (`service.go`) | `Health`, statuses | reset of the month, Apply, telemetry, second Apply, statuses, Inspect | store, kernel |
| kernel (`network.go`) | WireGuard devices and peers, routes, policy rules, nftables, WARP device | Apply, Remove, RemoveUpstream, Inspect, TestWarp | the outside |
| NDP proxy (`ndp.go`, `ndp_linux.go`) | one responder goroutine per egress interface, an atomic address set | Configure, Close, answer | Apply |
| WARP (`warp.go`) | account row, `warpMu` | register, test | settings, reconciler |
| web (`web.go`) | sessions, guarded by `App.mu` | handlers | all operations; reads rows before it takes `App.mu` |
| upgrade (`upgrade.go`, `deploy/`) | status file, binary | start, script | restarts the daemon |

`App.mu` serialises the operations that change tunnels and upstreams together
with the reconcile that follows each of them; settings are saved without it, and
web handlers read rows before they take it. What makes the system hard, more than
the locking, is that an operation changes a row and the kernel in two steps, in
an order of its own, and that either step may fail or be the last before a crash;
that samples of traffic are taken after the peers they are about were programmed;
and that validity of one row depends on others that are edited later.

`PROJECT.json` lists every component with its status and every hazard at its
line.

## Modules

| module | what it is |
|---|---|
| `Provisioning` | abstract specification: who is on record, authorised and connected |
| `QuotaEnforcement` | the core: the reconcile, quotas, enabling, deletion, faults; implements `Provisioning` |
| `QuotaEnforcement_proofs` | its theorems: types, peers, flags, status, the reconcile, usage, and that it implements `Provisioning` |
| `MCQuotaEnforcement` | instances |
| `Prefixes` | addresses and prefixes of `W` bits, containment, overlap, free blocks |
| `Prefixes_proofs` | lemmas about them |
| `Delegation` | upstreams, allocations, devices, renames, the migration |
| `Delegation_proofs` | its theorems |
| `MCDelegation` | instances with addresses of four bits |
| `Egress` | IPv4 modes, internal addresses, settings, WARP account, both locks |
| `Egress_proofs` | its theorems |
| `MCEgress` | instances |
| `Forwarding` | peers, routes, policy rules, WARP, nftables, and what becomes of a packet |
| `Forwarding_proofs` | its theorems |
| `MCForwarding` | instances |
| `NDPProxy` | the Neighbor Discovery listeners: manager, packet loops, shutdown |
| `NDPProxy_proofs` | its theorems |
| `MCNDPProxy` | instances |
| `Allocator` | the algorithms of `allocator.go`, recursive as there |
| `Allocator_proofs` | its theorems |
| `MCAllocator` | instances |
| `Upgrade` | the upgrade script, the checkout, the status file and the daemon |
| `Upgrade_proofs` | its theorems |

The components meet in the reconcile. `QuotaEnforcement` has its outline with the
devices and the samples; `Egress` opens the part before Apply, `Forwarding` the
inside of Apply, and `NDPProxy` its last pass. Where a module leaves a part to
another it keeps it as a call that succeeds, fails, or fails half-way.

Definitions whose comment begins with "Mistake" are wrong variants of a
neighbouring definition. No action uses them; substituted for the right one, each
makes a property fail, which shows that the property depends on that piece of
code.

### QuotaEnforcement

State: the columns of `tunnels` that matter (`enabled`, `quotaDisabled`, `quota`,
`used`, `period`, `seen`, `status`), the kernel's `peer` set and byte `counter`s,
the program counter and locals of the goroutine that holds `App.mu`, the requests
of web handlers that have read a row and wait (`toggles`), and the calendar.
`carried`, `unsampled`, `settled` and `manualOff` only observe.

`reconcileLocked` is split where something else can happen or fail:
`ReconcileStart` (month reset and reads), `ApplyUpstream(u)` per device,
`ApplyDone`, `Telemetry(t)` per row, `TelemetryDone` (which decides on the second
Apply), `MarkApplied`; every one has its failing variant. Traffic flows between
any two steps. `ToggleRead` and `SetEnabled` are two steps because the handler
reads the row before it takes the lock.

Abstractions: the steps before Apply that concern IPv4 and WARP, and the shared
kernel passes after the devices, are calls that may fail. Bytes are counted in
units (`GiB` of them make a GiB).

`Provisioning` says what all this is for, without a lock, a sample or a program
counter: tunnels are recorded, authorised and connected; one device at a time is
made to agree; a connected tunnel is not forgotten; agreement is declared only
when connected and authorised are the same, and it is reached again and again.
`ImplementsPromise` maps `recorded` to the rows, `authorised` to the enabled ones,
`connected` to the peers and `agreed` to `settled`: a reconcile has succeeded and
nothing was changed since it began.

### Delegation

State: tables `upstreams` and `tunnels` as functions from ids, the kernel's
devices with port and peers, the program counter of the holder of `App.mu`, and
what a half-done rename or deletion has left to do. Ids are what SQLite gives
without AUTOINCREMENT: the largest plus one. Forms are the inputs; a row is
`Normalize`d and must be `Valid`, `Unique` and `Keep` its tunnels' blocks.
`CreateTunnel` takes any block of `FreeBlocks`: the code's choice is random, and
`Allocator` shows that the algorithm chooses from exactly that set.

Abstractions: the tunnels are enabled; MTU, keepalive, keys and IPv4 are left
out (IPv4 is in `Egress`); routes and neighbours are calls that may fail; a UDP port belongs to one
device. `DeleteTunnel`'s branch for a tunnel without upstream is left out because
`AllocationsInside` shows that no running daemon has one.

### NDPProxy

State: the rows that decide who is answered for, interfaces with their kernel
index and addresses, the descriptors of the process, the manager's lock with its
listeners and address sets, the reconcile's position and locals, and one packet
loop per listener. `Configure` is split at every call that can fail and where it
waits for a loop (`CloseResponder`, `CloseSocket`); a loop is split between its
stop check, the receive, the decision and the send. The responder's own lock is
only taken under the manager's, so one lock is modelled. `App.Close` does not take
`App.mu`: `CloseLock` may come between any two steps of a reconcile. Other parts of
the daemon open and close descriptors, and interfaces and addresses change, at any
time. `steady` and `fresh` only observe.

Abstractions: addresses are numbers and prefixes sets of them; a solicitation is
its target, and frames that parsing or the hardware-address check rejects are
`ReceiveNothing`; the passes before the proxies succeed or fail as one. Creating
or deleting an upstream is not modelled here: one without enabled tunnels has no
listener either. Indices of interfaces are not reused.

### Egress

State: the settings, the modes of upstreams and tunnels, the internal addresses, the
account and its stored test; what the last Apply left in the kernel; who holds
`App.mu` and `App.warpMu`; and, per goroutine, where it is. Two handlers and the
ticker run concurrently. `SaveSettings` allocates and stores in one transaction
without `App.mu`; `CreateTunnel` reads the next free address in one transaction and
inserts in another, where the UNIQUE column may refuse it; `RegisterWarp` holds
`App.warpMu` from its request to the end of its reconcile; `TestWarp` takes both
locks. The reconcile is split between its read of the settings, the allocation, its
second read of the rows, and Apply. `Refused` is what makes it return early.
`outcome`, `fresh`, `settled`, `began` and `sure` only observe.

The pool may be an IPv6 one (`IPv4Pool` has those that are not) as long as the mode of
the settings is off: `CreateTunnel` does not ask (`service.go:659`), and a tunnel
created then has an address of it. While the tunnel's mode is on, its rule
`ip saddr` or its rule for WARP is an error in every Apply (`Rejected`,
`ApplyRejected`). `TestWarp` sends its trace through the WARP device, so through the account
that the last Apply gave it (`SaveWarpTest` stores `kernel.warp`), and a test that begins
between a registration and its Apply is of the account before. `began` says that a
running test started when the kernel had what the tables ask for, `sure` that the stored
one did and that no account was stored since.

Abstractions: an address is its number in the pool, and a pool that does not parse is
a text without addresses; every tunnel is enabled; an Apply is one step that
succeeds, or fails with some upstreams and some shared passes done; requests that
validation rejects change nothing and are left out.

### Forwarding

State: the tables as one record, in which a tunnel has the pool that its IPv4 address is
of (`from`); in the kernel the devices, the peers per kind of address that they may
send from (IPv4, prefix, transport), the routes and the upstreams' tables per address
family, the policy rules, the WARP device, and the nftables table as pairs of interfaces
and sets of tunnels. Apply is one action per
kernel call: peers of an upstream, its routes, every rule of WARP deleted and added,
every table, every policy rule added and then every stale one deleted, and the
nftables transaction. Each may fail, and the daemon or the host may restart between
any two. `RemoveUpstream` may fail between the two families of the table, the device and
the row (`DeleteUpstreamFails`). Where the code ignores an error, the call may fail and
Apply goes on: a route that cannot be deleted (`ProgramRoutesKeeps`, `RemoveRoutes`), a
rule of WARP that cannot be (`WarpRulesKept`), the IPv4 default route of a table that
cannot be set (`EnsureUpstreamTable6`); `fresh` records it, because Apply does not. Two
tunnels of an upstream may have one transport address (`ClientAddress`), which WireGuard
gives to the later peer (`Overtaken`). `Lookup`, `Accepts` and `Fate` model what Linux does with a packet: rules by
priority, a rule that finds no route falls through, the forward chain, and
WireGuard's allowed addresses. They are external and written from how `network.go`
and `firewall.go` use them.

Abstractions: a tunnel's mode is the resolved one; pools are IPv4 ones with an address
left and do not overlap (`Egress` has the others); a tunnel that is created again has the
addresses it had; the reconcile allocates and reads in one step; upstreams have one egress
interface each and `Preferred` has the host's default route; a provider that never has
IPv4 is left out, one whose IPv4 route fails at times is not; replies on established
connections and packets with a transport address are left out; NAT is a pair in the table;
per family, a table holds its upstream's default route or nothing.

### Upgrade

State: the revisions with their ancestors, the remote branch, what was fetched, the
checkout, the temporary and the installed binary, the running one, the status file,
and the script's position. One action per command. A command fails with `|| fail`
(`CommandFails`) or without it (`ScriptExits`, by `set -e`); a signal runs the trap,
which does not exit (`Trapped`); a kill leaves everything as it is (`Kill`). Meanwhile
the branch grows, is set back and diverges. systemd runs one script at a time.

Abstractions: whether a revision passes its tests is a property of the revision
(`Good`); files of the checkout are edited by hand only between two upgrades, because
nothing in the script could notice it later; commits, resets and branch switches by hand
are left out, so that HEAD is moved by the script alone. `OnlyForward` rests on that: the
script compares the branch with HEAD and never with what is installed, so a checkout reset
by hand to an older revision, with the branch at that revision too, would be installed.

### Allocator

`freePrefixCount`, `freePrefixAt`, `prefixAtIndex` and `PoolStats` as recursive
functions over prefixes, along every history of allocations and releases of mixed
sizes in a pool, compared with definitions that enumerate the address space.

## Runs

| run | shows |
|---|---|
| `quota_one_tunnel` | one tunnel, two quotas, a change of month, a stale toggle and two faults: no peer without a row, never overcharged, the quota flag is earned, "applied" is never shown on a disabled peer, a successful reconcile enforces the quota; disabled and over-quota peers are removed in the end and quota-disabled tunnels released in the next month; the daemon implements `Provisioning` with its liveness |
| `allocator` | count, choice and statistics are exact, and used blocks stay disjoint |
| `delegation_edits` | one upstream edited in prefix, limits, server address and mode between allocations and deletions, two faults: blocks stay inside the prefix and beside the server's address, peers have rows, and the upstream is always served again |
| `delegation_several` | up to three upstreams whose forms collide, starting from a database of the single-upstream release, with renames and two faults: no address is delegated twice, upstreams stay independent, no device is left |
| `ndp_two_interfaces` | two upstreams on one or two interfaces, one change and one fault: no loop uses a descriptor that is closed or another's, no socket is left behind, the listeners of a successful reconcile answer for exactly what they should, an answer is sent only for a wanted address |
| `ndp_liveness` | a shutdown ends, a tunnel that was turned off by hand or by its quota falls silent |
| `egress` | two handlers, the ticker and three edits or faults: addresses are unique in table and kernel and kept for a tunnel's life, a reconcile that nothing overtook serves the tables, a WARP test made when it had is of the stored account until another is stored, every request is answered, and the kernel comes back to what the tables ask for unless they ask for what there is not |
| `forwarding` | three tunnels, two upstreams, two pools, two edits, faults or ignored errors: no packet leaves by another provider at any step, after a reconcile that succeeded with no error ignored every packet goes where the tables say, success shows no drift but of transport addresses that two tunnels have, and routing converges |
| `upgrade` | three faults and revisions: only tested revisions are installed or run, "succeeded" names what is installed, upgrades only go forward while HEAD is moved by nothing else |
| `quota_manual_disable`, `same_port`, `healthy_cut_off` | refuted statements, below |

### What does not hold

* **quota_manual_disable.** "Manually disabled tunnels remain disabled"
  (`src/README.md:103`) fails for a tunnel whose quota is lowered below its usage after
  it was disabled: the flag that the monthly reset looks at is set although the
  tunnel was not up.
* **same_port.** Two upstreams with one port and two host names are both
  accepted, and one is never served (comment at `service.go:501`).
* **healthy_cut_off.** "One unhealthy provider must not stop the others from being
  programmed" (`network.go:111`). When one of two upstreams fails, fewer than two are
  left, so `applyPolicyRouting` (`network.go:319`) removes the source rules of both.
  The healthy upstream's packets then follow the main table's default route; if that
  is the failed provider's, the forward chain drops them.

### Further configurations

These are not among the runs. Each checks one statement of the documentation that
the code does not keep, or a larger instance of what the proofs cover, and is run by
hand (`tlc -config X.cfg` with the module given).

| configuration | module | what TLC finds |
|---|---|---|
| `QuotaTwoDevices` | `MCQuotaEnforcement` | no error: two tunnels on two devices, one of which fails |
| `DelegationRename` | `MCDelegation` | a rename saves the row first (`service.go:261`); if the removal of the old device fails or the daemon stops before it, the device stays, with its peers and its port, through every later resync (`src/README.md:210`, `214`). While it is left `PeersAreRecorded` fails too, which is why `delegation_edits`, which checks it, has no renames |
| `DelegationMigrate` | `MCDelegation` | the conversion of an old database runs whenever there are no upstreams (`store.go:106`), so a deleted one comes back at the next start |
| `NDPRecreated` | `MCNDPProxy` | a listener is kept when its interface has the same name (`ndp_linux.go:62`) and the inspection compares names and sets: after an interface was deleted and created again between two reconciles the listener hears nothing and no drift is shown (`src/README.md:215`) |
| `EgressHealth` | `MCEgress` | the early returns of `reconcileLocked` (`service.go:881`-`899`) leave `Health` at its last value, although "Health and failed reconciliation are visible on the dashboard" (`src/README.md:208`) |
| `EgressPool` | `MCEgress` | `CreateTunnel` parses the pool without asking whether it is IPv4 (`service.go:659`), although its error says "v4 pool must be an IPv4 CIDR": with an IPv6 pool and the mode of the settings off, a tunnel is stored with an IPv6 address as its internal one, and Apply fails while its mode is on |
| `EgressTest` | `MCEgress` | a test made after an account was stored and before an Apply has programmed it is stored beside the new account, and was made with the old one |
| `ForwardingAny` | `MCForwarding` | with a single upstream there are no rules of priority 80, so a WARP tunnel's IPv4 packets for other tunnels go to the WARP table, although "Any tunnel permits all active tunnels to communicate" (`src/README.md:111`; comment at `network.go:48`) |
| `ForwardingIsolation` | `MCForwarding` | when no upstream could be configured the table is removed (`firewall.go:15`) while the peers and routes already programmed stay, so isolation (`src/README.md:15`) does not hold until an upstream is configured again |
| `ForwardingPool` | `MCForwarding` | with several upstreams the rule of priority 80 for IPv4 names the present pool (`network.go:375`); tunnels keep their addresses when the pool is changed, and IPv4 packets between two of them that the policy permits leave by the sender's provider or WARP |

`clientTransportAddress` (`models.go:304`) steps past the server's address onto that of
the next tunnel, so two tunnels share one unless the server has the first of its range.
WireGuard then takes it from the earlier peer in every reconcile, and `NoFalseDrift`
states what follows: the inspection shows those tunnels, and no others, as drift after
every success. No run is about two concurrent saves of the settings, of which the later
wins as a whole.

`SettledRoutes` and `RoutesConverge` except what is outside a supported
deployment (`Supported`): a single upstream that the host's default route does not lead
to, and a single upstream's WARP tunnels that send to other tunnels. Of a packet to a
tunnel whose address is of an earlier pool (not `Covered`) they only say that it leaves, if
at all, by its sender's upstream or WARP. `KernelConverges` excepts the states in
which the code refuses to apply (`Refused`) or Apply cannot succeed (`Rejected`).

`NoDeviceLeft` is about histories without a failing removal. `ListenersMatch` and
`AnswersAreWanted` are about the time after a reconcile with nothing changed since:
a solicitation decided by a set that is being replaced may still be answered, and an
address that the host gets later is answered for until the next reconcile.
`OwnProvider` depends on the chain alone, so it holds whatever the policy rules are.

### Bounds

`MaxFaults`, `MaxCarried`, `MaxMonth`, `MaxRequests`, `MaxUpstream`, `MaxTunnel`,
`MaxUsed` and `MaxChanges` are the only cut-offs. Two faults let a second failure hit the
recovery from the first; one change of month separates two periods; carrying two
units reaches both quotas; the tunnels of mixed sizes in an eight-address prefix
fill it. Four-bit addresses give blocks of four lengths below a delegated prefix, which is what
containment, reservation and splitting tell apart. The forms collide in name,
device, egress interface, port and prefix, and with the blocks and the server's
address of the row they edit. No form breaks the rules on a single row
(`validateUpstream`): those are exercised only in the sense that accepted rows
obey them. TLC does not explore forms of other shapes; the proofs cover all.

In `NDPProxy` a change is an edit, a quota that is reached, a shutdown, or a link or
an address of the host that comes or goes. One change already meets every step of a
reconcile and of both loops; two let a link come back. As many descriptors as
interfaces make every freed number reusable at once and also run out. Every start
with any rows, modes and egress interfaces is an initial state.

In `Egress` three changes (edits, registrations, faults) are what the shortest
overtaking needs: an account, a tunnel that uses it, and a save between two
transactions. Two pools share an address and one is too small for both tunnels, so
that exhaustion and a pool change under existing addresses happen; a third is an IPv6
one. In `Forwarding`
two tunnels share an upstream and a third has another, which tells apart packets
within an upstream, between two, and out of each; the databases found at the start
have one or two upstreams, all modes and all policies; of two pools one is an earlier
one after an edit; the two tunnels of one upstream share a transport address; two changes let a fault hit
the reconcile of an edit, and an edit the one after a fault. In `Upgrade` one
revision fails its tests, and three faults let a trap, a kill and a set-back branch
meet in one history.

### Fairness

The runs `quota_one_tunnel` and `delegation_edits` assume weak fairness of the steps of the goroutine that holds
`App.mu` (and of the restart, by systemd) and strong fairness of `Reconcile`: the
ticker waits for `App.mu` again and again, and a Go mutex hands over to a waiter
that has starved. Nothing is assumed of administrators, traffic or the calendar.
Faults are finite in number.

`ndp_liveness` assumes weak fairness of the reconcile's steps, of the holder of the
manager's lock, of each packet loop (a receive returns within its timeout of a
second), of the ticker until the shutdown and of the exit, and strong fairness of
taking the manager's lock, again by the starvation rule of the Go mutex. The daemon
need not be restarted.

`egress` assumes weak fairness of each goroutine's own steps (a store or network call
returns, with success or not) and of the ticker, and strong fairness of the steps
that take `App.mu` in `Reconcile` and `TestWarp`: requests keep taking the lock in
between, and the mutex's starvation mode hands it over. `forwarding` assumes weak
fairness of the ticker's reconcile and of Apply's successful steps; failures are
bounded in number, and no administrator is required to act.

## Proofs

Checked by TLAPS for every value of the constants, from the named assumptions of
the modules (widths and bounds are numbers; forms have the fields of a form; what
the single-upstream release left is valid and disjoint).

**QuotaEnforcement.** `TypeCorrect`, `PeersHaveRows`, `UsageIsSound`,
`FlagIsSound`, `StatusIsSound`, `ReconcileEnforces`. The invariant is a
conjunction of named parts. *Never overcharged* is not inductive: it needs that
the usage plus what the stored counters still allow to be charged is at most what
was carried, per direction and for a sample in flight as well as for the kernel's
counters (`Accounts`, on top of the invariant `Inv` of the other theorems). *A successful reconcile enforces the quota* needs
what the program counter has established so far: which devices agree with the rows,
which samples are recorded and whether a hit is remembered (`Converging`).

**Delegation.** `TypeCorrect`, `DelegatedOnce`, `NeverStranded`, `Independence`,
`ServerAddressKept`, `DevicesGoWithRows`, `PeersKeepTheirRows`. `CreateTunnel` compares a block with those of its own
upstream only, so that no address is delegated twice depends on upstreams being
disjoint and on blocks being inside their prefix, through every edit: one
induction (`Inv`) with the reservation of the server's address and with what a
half-done deletion knows. `OverlapUp` is the fact about prefixes: parts that
overlap are parts of prefixes that overlap. The last two have invariants of their own
on top of `Inv`: as long as nothing has failed, a device that is no upstream's is the
one that the rename in progress still has to remove (`Devices`); and a
peer is that of a recorded tunnel, on the device of the tunnel's upstream (`Peers`). A
rename breaks the second until the old device is gone, so `PeersKeepTheirRows` has the
hypothesis that no step begins one, as `delegation_edits` has no renames.

**The refinement.** `DaemonImplementsPromise`: `Spec => Promise!Spec`. Every action is
matched with an action of `Provisioning` or a stutter. It needs `Inv` and that a deletion is of one tunnel still on record
(`Deleting`): agreement is declared at the last status write, and only `Converging`
knows that peers and rows are then the same. The liveness part of the promise
(`Promise!FairSpec`) is model-checked.

**Allocator.** `NoOverlap`, `CountsFreeBlocks`, `ChoosesFreeBlocks`, `ReportsExactly`,
for any width of an address, any pools and any unit: 128 and 64 are instances. The
inductive invariant is small (`Sound`: the pool is masked; the blocks in use are
finitely many prefixes, inside it and disjoint). What the algorithms compute is the
work, and each is proved to equal its definition over the whole address space.

* The recursive functions satisfy their equations (`CountEquation`, `ChoiceEquation`):
  every call is for a candidate with one bit more, and the answers for longer
  candidates fix those for shorter ones. `Question` and `Choice` are the domains, the
  second with the check of the index that precedes `freePrefixAt`.
* `CountExact`: a free block of a size below the candidate's lies in one half, and
  only one (`FreeInHalves`); blocks in use outside the candidate do not matter
  (`OnlyDescendants`); a covered candidate has none (`BlockedIsFull`); an empty one has
  `2^(bits - candidate.bits)` (`AllFree`).
* `ChoiceExact`: indices below the count of the lower half are choices there, the
  others in the upper one. In a free candidate the choice is arithmetic, so
  `Prefixes_proofs` relates the bits of an address to its value (`SetBit`, `ValueIs`),
  and `AtIndex` shows that adding an index to the base fills the bits in between.
* `UnitsOfBlocks`: a saturating sum over the blocks, in whatever order, is the sum or
  the largest number (`SumOfBlocks`, `AddUnitsCapped`); `LargestIs` is about the first
  size with a free block.

The inductions are over sets of numbers (`SetInduction`: a set with 0 and with the
successor of each of its members has every number), since those of the library are not
available to the provers.

**Egress.** `TypeCorrect`, `AddressesAreUnique`, `AddressesAreKept`,
`TestsAreOfTheAccount`, `ReconcileServes`. The invariant has five parts: `Locked` (who is inside which
critical section), `Rows` (the table's addresses are distinct, and the row about to
be inserted), `Typed`, `Flags`, and `Follows`: what the kernel and a running
reconcile hold for a tunnel is its address in the table or nothing. Uniqueness in the
kernel is not inductive without it, and it needs that addresses are kept.
`ReconcileServes` adds `Current`: what a reconcile that no request has overtaken has
established at each of its steps (the settings it read are the stored ones, no tunnel
lacks an address, the rows it loaded are the table's). `TestsAreOfTheAccount` needs it
too: a test that begins when the kernel is settled finds the stored account in the device
or none, and stays so (`Tests`), because nobody registers while a tester holds
`App.warpMu` and nobody applies while it holds `App.mu`.

**Forwarding.** `NeverByAnotherProvider` needs only `OwnPairs`: the chain has no pair
of a tunnel interface and another provider's. All the rest of Apply, in whatever order
and with whatever failures, cannot matter, which is what the theorem says of the
design. `SuccessShowsNoDrift` needs what each stage of Apply has established for the
upstreams visited so far (`Tables`, `Work`), and `OnlyOvertaken`: when all of it is
done, the inspection finds the tunnels of `Overtaken` and nothing else. It does not need that no
error was ignored, since what those calls leave behind is not inspected. `TypeCorrect` adds
`Sets`, `Tabled`, `Peers`, `Rules` and `Flags`, and assumes that the tables are finite and that tunnel ids are
positive. `SettledGoesRight` says where every packet goes after a reconcile that
succeeded without an error ignored. The argument has two halves. `Programmed` says of the kernel that its peers,
routes, rules, tables, WARP and chain are those of the tables, and `ProgrammedRoutes`
follows a packet through it: into WireGuard, through the rules in order of priority, the
table they lead to, the chain and out. `Passed` says what the shared passes have
established at each stage as long as no error was ignored, and `Agreed` that the kernel is programmed for the tables at
the end of a reconcile that succeeded (`InspectProgrammed`) and stays so while later
reconciles run (`StaysProgrammed`: they find nothing to change but the rules of WARP; that
they allocate nothing is `Complete`: no tunnel that needs an address lacks one).

**NDPProxy.** `TypeCorrect`, `LoopsOwnTheirSockets`, `NoSocketIsLeft`,
`ListenersAnswerForWanted`, `SentIsWanted`. `Sockets` ties loops, listeners and
descriptors together; it is inductive only with `Holding` (what the holder of the
manager's lock has done so far, when a shutdown may come between any two steps of a
reconcile). `Typed`, `Flags`, `Listeners` and `Sent` add what the sets computed at the
start of the pass have to do with the tables since.

**Upgrade.** `TypeCorrect`, `DeployedAreTested`, `SuccessIsInstalled`,
`UpgradesGoForward`. `History` says what a repository is (ancestors of ancestors are
ancestors, a new revision is nobody's ancestor) and that the installed revision is an
ancestor of the checkout; `Stage` what each command may rely on.

The inductive invariants of `Forwarding`, `NDPProxy` and `Upgrade` were also checked
with TLC, on the instances of their runs.

Only model-checked: liveness, since fairness is out of the prover's reach, and the runs
that show a divergence between the code and what is said of it.

## Not modelled

* Formatting: client configurations and pages, the byte layout and checksum of NDP
  messages, the text of nftables scripts. Nothing in them changes state.
* Sessions, login and administrators: an entry of a map read and written in one
  critical section of `App.mu`, and a library for passwords. There is no interleaving
  inside a request; that pages wait for a running reconcile is visible in the code.
* The requests and answers of the WARP API beyond success and failure; HTTP, and the
  drain of requests at a shutdown.
* Names: creating and renaming routing groups; names and host names that differ only
  in case, which count as equal in the code and do not occur in the model.
* MTU, keepalive, keys, interface addresses and pinned neighbours, which are written
  as they stand in the row and read by nothing else.
* A checkout edited by hand while the upgrade script runs, and commits, resets and branch
  switches by hand at any time: `OnlyForward` rests on HEAD being moved by upgrades only.
* `network_other.go`, the stub for other systems, which has no state.
