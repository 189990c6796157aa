---------------------------- MODULE MCCacheRoot ----------------------------
(* Invocations that open one cache root at the same time.                   *)
EXTENDS CacheRoot, TLC

CONSTANTS o1, o2, o3, killed

Symmetry == Permutations(Openers)
=============================================================================
