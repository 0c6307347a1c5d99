---------------------------- MODULE MCTelemetry ----------------------------
(* Telemetry on small instances.                                           *)
EXTENDS Telemetry, TLC

\* Shots are interchangeable, and so are match ids.
Symmetry == Permutations(Shots) \cup Permutations(Matches)
=============================================================================
