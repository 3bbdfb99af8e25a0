------------------------------- MODULE MCMixer -------------------------------
(* Small instances of Mixer for TLC.                                       *)
EXTENDS Mixer, FiniteSets

\* Bound: at most two filters are on or have been set in this run.
Few == Cardinality(filter \cup filter_on \cup commanded) <= 2
=============================================================================
