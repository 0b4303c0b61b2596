------------------------- MODULE MCQuotaEnforcement -------------------------
(***************************************************************************)
(* Instances of QuotaEnforcement for TLC.                                  *)
(***************************************************************************)
EXTENDS QuotaEnforcement, TLC

CONSTANTS t1, t2, u1, u2

\* Every tunnel on one device.
OneDevice == [t \in Tunnel |-> u1]

\* Every tunnel on a device of its own.
TwoDevices == (t1 :> u1) @@ (t2 :> u2)

=============================================================================
