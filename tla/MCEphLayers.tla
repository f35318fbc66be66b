---------------------------- MODULE MCEphLayers ----------------------------
(* EphLayers on small instances.                                           *)
EXTENDS EphLayers, TLC

CONSTANTS p1, p2, r1, r2, w1, s1, v1, b1

Symmetry == Permutations(Requests) \cup Permutations(Roots)
=============================================================================
