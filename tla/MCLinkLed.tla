----------------------------- MODULE MCLinkLed -----------------------------
(* Small instances of LinkLed for TLC.                                     *)
EXTENDS LinkLed, TLC

\* Callers and futures are interchangeable.
Symmetry == Permutations(Callers) \cup Permutations(Blinkers)
=============================================================================
