--------------------- MODULE IncrementalCacheProperties ---------------------
(***************************************************************************)
(* What the invocations that share a cache root may rely on.               *)
(***************************************************************************)
EXTENDS IncrementalCache

\* Types, and where each place may exist: nothing is below a missing shard.
CacheTypeOK ==
    /\ tree \in {"absent", "namespace", "shard"}
    /\ final \in Place
    /\ temporary \in [Compilers -> Place]
    /\ invalid \in [Compilers -> Place]
    /\ pc \in [Process -> Reads \cup {"compile", "namespace", "shard", "stage", "payload",
                   "metadata", "detach", "discard", "publish", "retry", "unstage", "stat",
                   "rename", "done", "crashed"}]
    /\ reading \in [Compilers -> {"entry", "metadata", "payload"}]
    /\ seen \in [Compilers -> Artifact \cup {Absent}]
    /\ built \in [Compilers -> Artifact \cup {Absent}]
    /\ attempts \in [Compilers -> 0..MaxAttempts]
    /\ outcome \in [Process -> {"working", "hit", "published", "reused", "error",
                                "empty", "cleaned"}]
    /\ refused \in 0..MaxRefusals
    /\ tree # "shard" => /\ final = Absent
                         /\ \A c \in Compilers : temporary[c] = Absent /\ invalid[c] = Absent

\* "Readers ... cannot see a partial metadata/payload pair": what appears at the
\* final path is complete from its first moment on, and is only ever moved away
\* as a whole, even if its writer is killed.
OnlyWholeEntriesAppear == [][final' # final => final' = Absent \/ Whole(final')]_vars

-----------------------------------------------------------------------------
(* The cache implements the slot of ArtifactStore: a hit returns the very    *)
(* artifact that is the entry when the payload is read, although metadata    *)
(* and payload are read apart; an entry is only published into an empty slot *)
(* and only "reused" while there is one.                                     *)

Visible == IF Whole(final) THEN final.payload ELSE Absent

Use(c) == IF outcome[c] = "error" THEN "without" ELSE outcome[c]

Taken(c) == CASE outcome[c] = "hit"       -> seen[c]
              [] outcome[c] = "published" -> built[c]
              [] OTHER                    -> Absent

Store == INSTANCE ArtifactStore WITH
             Invocation <- Compilers, None <- Absent,
             entry  <- Visible,
             status <- [c \in Compilers |-> Use(c)],
             got    <- [c \in Compilers |-> Taken(c)]

ImplementsArtifactStore == Store!Spec

-----------------------------------------------------------------------------
\* An invocation that ends leaves neither a temporary nor an invalid sibling
\* behind, on whichever path it left publish; only a killed one may.
NoLitter ==
    \A c \in Compilers : pc[c] = "done" => temporary[c] = Absent /\ invalid[c] = Absent

\* Rounds are counted against the processes there are.
ASSUME FiniteInvocations == IsFiniteSet(Compilers) /\ IsFiniteSet(Cleaners)

\* The publication loop is lock-free: a round is only given up because another
\* invocation took the entry away or the file system refused the rename, so that
\* MAX_PUBLICATION_ATTEMPTS is not exhausted by fewer of both.
RoundsLostToOthers ==
    \A c \in Compilers :
        attempts[c] < Cardinality(Compilers) + Cardinality(Cleaners) + refused

\* Invocations undo each other's publications (a stale "invalid" moves away a
\* valid entry), but never together: when all have ended, none was refused an
\* operation, none has cleaned and one used the cache, there is a complete entry
\* for the next.
WinnerRemains ==
    /\ refused = 0
    /\ \A c \in Compilers : pc[c] = "done"
    /\ \A k \in Cleaners : outcome[k] # "cleaned"
    /\ \E c \in Compilers : outcome[c] \in {"hit", "published", "reused"}
    => Whole(final)

-----------------------------------------------------------------------------
(* The inductive invariant behind the properties above.                      *)

\* The places of publish between the writes and the return.
Loop    == {"validate", "check", "detach", "discard", "publish", "contended", "failed", "retry"}
Staging == Loop \cup {"payload", "metadata", "unstage", "crashed"}
Publishing == Loop \cup {"namespace", "shard", "stage", "payload", "metadata"}

\* The siblings exist only while their owner is in publish, and what it renames
\* is complete, unless a clean has taken it away.
SiblingsOwned ==
    \A c \in Compilers :
        /\ temporary[c] # Absent => pc[c] \in Staging
        /\ invalid[c] # Absent => pc[c] \in {"discard", "crashed"}
        /\ pc[c] \in Publishing => built[c] \in Artifact
        /\ pc[c] \in Loop => temporary[c] \in
               {Absent, [metadata |-> built[c], payload |-> built[c]]}

\* A damaged entry is one that was there from the start, so its metadata are
\* those that every reader between the metadata and the payload has seen.
ReadersBound ==
    \A c \in Compilers :
        /\ reading[c] # "entry" => pc[c] \in Reads \cup {"crashed"}
        /\ reading[c] = "payload" => seen[c] \in Artifact
        /\ reading[c] = "payload" /\ pc[c] \in Reads \ {"validate"} /\ final \in Entry
               => Whole(final) \/ final.metadata = seen[c]

\* Nothing is reported, and no attempt limit reached, before the end.
ReportedOnce ==
    \A c \in Compilers : outcome[c] # "working" \/ attempts[c] = MaxAttempts
                             => pc[c] \in {"done", "unstage", "crashed"}

CacheInv == CacheTypeOK /\ SiblingsOwned /\ ReadersBound /\ ReportedOnce

-----------------------------------------------------------------------------
\* docs/project/incremental-cache.md: "The first valid publication wins; a loser
\* validates the winner and discards its temporary directory."
FirstValidWins == [][Whole(final) => final' = final]_vars
=============================================================================
