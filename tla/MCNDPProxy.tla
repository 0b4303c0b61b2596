----------------------------- MODULE MCNDPProxy -----------------------------
(***************************************************************************)
(* Instances of NDPProxy. Upstream a has two addresses, both in the block  *)
(* of its tunnel; the host may have one of them, as it does when a         *)
(* provider puts a single prefix on the link.                              *)
(***************************************************************************)
EXTENDS NDPProxy

MCUpstreamOf == [t \in Tunnel |-> IF t = "ta" THEN "a" ELSE "b"]

MCPrefixOf == [u \in Upstream |-> IF u = "a" THEN {1, 2} ELSE {3}]

MCBlockOf == [t \in Tunnel |-> MCPrefixOf[MCUpstreamOf[t]]]

\* The interfaces are "e" and "f".
MCLink == [i \in Interface |-> IF i = "e" THEN 1 ELSE 2]

MCHosts == {[i \in Interface |-> IF i = "e" THEN {1} ELSE {}]}
=============================================================================
