--------------------------- MODULE MCSourceCache ---------------------------
(* Builds that share a registry cache: providers with the same archive, and *)
(* the state in which an earlier build, or the user, has left the cache.    *)
EXTENDS SourceCacheProperties, TLC

CONSTANTS b1, b2, b3, older, newer

AnySource == Place
CleanSource == {Absent} \cup {SourceOf(r) : r \in Provider}
AnyArchive == ArchiveState
CleanArchive == {"absent", "valid"}

Symmetry == Permutations(Builds \ Frozen) \cup Permutations(Provider)
=============================================================================
