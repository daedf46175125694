---------------------------- MODULE MCPublication ---------------------------
(* Model values for Publication.                                           *)
EXTENDS Publication

CONSTANTS w1, w2, c1, c2, c3, k1, k2, b1, b2
=============================================================================
