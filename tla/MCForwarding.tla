---------------------------- MODULE MCForwarding ----------------------------
EXTENDS Forwarding

MCUpstreamOf == [t \in Tunnel |-> IF t = 3 THEN 2 ELSE 1]

\* The first upstream is on-link.  Its server has the address that the first tunnel
\* would get, which so gets that of the second.
MCClientAddress == [t \in Tunnel |-> IF t = 3 THEN 0 ELSE 1]

Database2(ups, rows, modes, policy, groups) ==
    [ups |-> ups, rows |-> rows, enabled |-> rows,
     mode |-> [t \in Tunnel |-> IF t \in rows THEN modes[t] ELSE "off"],
     from |-> [t \in Tunnel |-> IF t \in rows /\ modes[t] # "off" THEN 1 ELSE 0],
     pool |-> 1, policy |-> policy,
     groups |-> [t \in Tunnel |-> IF t \in rows THEN groups[t] ELSE {}]]

\* Two upstreams with three tunnels of all modes, one upstream with two.
MCStart ==
    {Database2({1, 2}, {1, 2, 3}, m, y, <<{"g"}, {}, {"g"}>>) :
       m \in {<<"off", "native", "native">>, <<"warp", "native", "warp">>},
       y \in {"isolated", "groups"}}
    \cup {Database2({1}, {1, 2}, m, y, <<{"g"}, {"g"}, {}>>) :
            m \in {<<"native", "off", "off">>, <<"warp", "native", "off">>},
            y \in {"any", "groups"}}

=============================================================================
