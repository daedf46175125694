---------------------------- MODULE MCEventStream ---------------------------
(* Model values for the runs of EventStream.                               *)
EXTENDS EventStream, TLC

Symmetry == Permutations(Requests)
=============================================================================
