----------------------------- MODULE MCSqlCache -----------------------------
(* SqlCache on a small instance.                                           *)
EXTENDS SqlCache, TLC

CONSTANTS k1, k2, l1, l2, m1, m2

MCKeys == {k1, k2}
MCLoaders == {l1, l2}
MCMutators == {m1, m2}

Symmetry == Permutations(MCKeys) \cup Permutations(MCLoaders)
              \cup Permutations(MCMutators)
=============================================================================
