---------------------------- MODULE MCDelegation ----------------------------
(***************************************************************************)
(* Instances of Delegation with addresses of four bits.  A prefix of two   *)
(* or more bits is too small to be divided (Slaac = 2): it is given to one *)
(* client whole.                                                           *)
(***************************************************************************)
EXTENDS Delegation

P(n, b) == [addr |-> AddressOf(n), bits |-> b]

\* The prefixes 0000/1, 0000/2, 0100/2 are delegated; transports are in 1000/1.
MCTransportPool == <<P(9, 2), P(13, 2)>>

Routed(name, cidr, iface, egress, port, server) ==
    [name |-> name, cidr |-> cidr, mode |-> "routed", iface |-> iface,
     egress |-> egress, host |-> "h", port |-> port, server |-> server,
     transport |-> {}, min |-> 0, max |-> 9, dflt |-> 3]

OnLink(name, cidr, iface, port, transport) ==
    [Routed(name, cidr, iface, "eth0", port, {}) EXCEPT
        !.mode = "onlink", !.transport = transport]

\* One upstream that is edited: it grows, shrinks, reserves an address, gives
\* the reservation up and goes on-link.
MCEdits ==
    {[Routed("a", P(0, 1), "wg0", "eth0", 1, {}) EXCEPT !.max = 3],
     [Routed("a", P(5, 1), "wg0", "eth0", 1, {P(1, 4)}) EXCEPT !.max = 2],
     [Routed("a", P(0, 1), "wg0", "eth0", 1, {P(7, 3)}) EXCEPT !.min = 4],
     Routed("a", P(0, 2), "wg0", "eth0", 1, {}),
     OnLink("a", P(0, 1), "wg0", 1, {})}

\* Several upstreams, of which some collide; two that are accepted share a port.
MCSeveral ==
    {Routed("a", P(0, 2), "wg0", "eth0", 1, {}),
     [Routed("b", P(0, 1), "wg1", "eth0", 2, {}) EXCEPT !.min = 2, !.max = 2],
     [OnLink("b", P(4, 2), "wg1", 1, {}) EXCEPT !.host = "i"],
     Routed("c", P(4, 2), "wg2", "wg0", 3, {})}

\* One provider whose device is renamed.
MCRename ==
    {Routed("a", P(0, 2), "wg0", "eth0", 1, {}),
     Routed("a", P(0, 2), "wg1", "eth0", 1, {})}

\* Two providers, two names for the endpoint, one port.
MCSamePort ==
    {Routed("a", P(0, 2), "wg0", "eth0", 1, {}),
     [Routed("b", P(4, 2), "wg1", "eth0", 1, {}) EXCEPT !.host = "i"]}

MCLegacy == {[Routed("primary", P(0, 2), "wg0", "eth0", 1, {}) EXCEPT
                 !.min = 2, !.max = 2, !.dflt = 2]}

MCLegacyTunnels == [t \in {1} |-> P(0, 2)]

NoTunnels == [t \in {} |-> P(0, 2)]

=============================================================================
