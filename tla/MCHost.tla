------------------------------- MODULE MCHost -------------------------------
(* Small instances of Host for TLC. *)
EXTENDS Host, TLC

\* Ports and goroutines are interchangeable.
HostSymmetry == Permutations(Ports) \cup Permutations(Goroutines)
=============================================================================
