------------------------------- MODULE MCCalls -------------------------------
(* Small instances of Calls for TLC.                                       *)
EXTENDS Calls

\* Defaults between the values that are set, and one that is missing.
SomeDefaults == [global |-> 7, network |-> Unset, local |-> 7, delay |-> 15]

\* Bound: once a setting is saved, the service is of the first versions and
\* hears of the first peer only.
Apart ==
    \/ \A k \in Keys : db[k] = Unset
    \/ /\ versions = [bp |-> 1, fpga |-> 1]
       /\ \A l \in PeerLines : reg[l] # 2
=============================================================================
