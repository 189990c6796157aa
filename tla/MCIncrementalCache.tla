------------------------- MODULE MCIncrementalCache -------------------------
(* Compilers and cleaners that share a cache root.                         *)
EXTENDS IncrementalCacheProperties, TLC

CONSTANTS c1, c2, c3, k1, k2, a, b

Symmetry == Permutations(Compilers) \cup Permutations(Artifact)
=============================================================================
