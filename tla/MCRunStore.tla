----------------------------- MODULE MCRunStore -----------------------------
(* Model values and symmetry for the runs of RunStore.                     *)
EXTENDS RunStore, TLC

Symmetry == Permutations(Incidents) \cup Permutations(Requests)
=============================================================================
