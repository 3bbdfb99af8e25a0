----------------------------- MODULE MCBridge -----------------------------
(* Small instances of Bridge for TLC.                                      *)
EXTENDS Bridge, FiniteSets

\* The switches that no command moves together with others.
Independent == {"packet_count", "test", "payload",
                "sequencer_off", "wait_off", "delay_off"}

\* Bound: at most two of them, test patterns included, are on at a time, while the
\* streams, the sync and the FIFO features take all their combinations.
TwoIndependent ==
    Cardinality(On \cap Independent) + (IF Mode = 1 THEN 0 ELSE 1) <= 2
===========================================================================
