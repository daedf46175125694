--------------------------- MODULE MCLiveSandbox ----------------------------
(* Two sessions behind one address.                                        *)
EXTENDS LiveSandbox, TLC

CONSTANT address

MCAddress == [s \in Sessions |-> address]
Symmetry == Permutations(Sessions) \cup Permutations(Keys) \cup Permutations(Streams)
=============================================================================
