---------------------------- MODULE Provisioning ----------------------------
(***************************************************************************)
(* What the broker promises about its peers, whatever it does to keep the  *)
(* promise: a tunnel is connected only by being authorised at that moment, *)
(* a tunnel that is connected is not forgotten, and the broker comes back  *)
(* to a state in which exactly the authorised tunnels are connected.       *)
(*                                                                         *)
(* There is no lock, no sample and no program counter here.  The reconcile *)
(* of the daemon implements this specification (QuotaEnforcement).         *)
(***************************************************************************)

CONSTANTS
    Tunnel,      \* the tunnels there may be
    Device,      \* the WireGuard devices
    DeviceOf     \* the device a tunnel belongs to

VARIABLES
    recorded,    \* the tunnels on record
    authorised,  \* those that should be connected
    connected,   \* those that are
    agreed       \* the broker has last found the two to be the same

vars == <<recorded, authorised, connected, agreed>>

On(d) == {t \in Tunnel : DeviceOf[t] = d}

Init ==
    /\ recorded = {} /\ authorised = {} /\ connected = {}
    /\ agreed = FALSE

\* A tunnel is put on record, authorised.
Record(t) ==
    /\ t \notin recorded
    /\ recorded' = recorded \cup {t}
    /\ authorised' = authorised \cup {t}
    /\ agreed' = FALSE
    /\ UNCHANGED connected

\* An administrator, a quota or the calendar decides who is authorised.
Decide ==
    /\ authorised' \in SUBSET recorded
    /\ agreed' = FALSE
    /\ UNCHANGED <<recorded, connected>>

\* The peers of one device are made the authorised ones.
Program(d) ==
    /\ connected' = (connected \ On(d)) \cup (authorised \cap On(d))
    /\ ~agreed
    /\ UNCHANGED <<recorded, authorised, agreed>>

\* A tunnel is disconnected before it is forgotten.
Disconnect(t) ==
    /\ connected' = connected \ {t}
    /\ agreed' = FALSE
    /\ UNCHANGED <<recorded, authorised>>

Forget(t) ==
    /\ t \in recorded \ connected
    /\ recorded' = recorded \ {t}
    /\ authorised' = authorised \ {t}
    /\ ~agreed
    /\ UNCHANGED <<connected, agreed>>

\* The host restarts.
Lose ==
    /\ connected' = {}
    /\ ~agreed
    /\ UNCHANGED <<recorded, authorised, agreed>>

\* The broker finds that the authorised tunnels are the connected ones.
Agree ==
    /\ connected = authorised
    /\ agreed' = TRUE
    /\ UNCHANGED <<recorded, authorised, connected>>

Next ==
    \/ \E t \in Tunnel : Record(t) \/ Disconnect(t) \/ Forget(t)
    \/ \E d \in Device : Program(d)
    \/ Decide
    \/ Lose
    \/ Agree

Spec == Init /\ [][Next]_vars

\* Whatever happens in between, there is agreement again and again.
Converges == []<>agreed

FairSpec == Spec /\ Converges

=============================================================================
