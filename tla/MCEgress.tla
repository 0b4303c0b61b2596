------------------------------ MODULE MCEgress ------------------------------
(***************************************************************************)
(* Instances of Egress.  The pool "p" has two addresses and "q" one that   *)
(* is also in "p"; "6" is an IPv6 one, and "?" does not parse.             *)
(***************************************************************************)
EXTENDS Egress

MCUpstreamOf == [t \in Tunnel |-> IF 2 \in Upstream /\ t > 1 THEN 2 ELSE 1]

MCAddressesOf == [p \in {"p", "q", "6"} |-> CASE p = "p" -> {1, 2} [] p = "q" -> {2} [] p = "6" -> {3}]

MCForm == {[mode |-> "native", pool |-> "p"], [mode |-> "native", pool |-> "q"],
           [mode |-> "warp", pool |-> "p"], [mode |-> "off", pool |-> "?"],
           [mode |-> "off", pool |-> "6"]}
=============================================================================
