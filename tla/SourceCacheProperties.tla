----------------------- MODULE SourceCacheProperties -----------------------
(***************************************************************************)
(* What builds that share the registry source cache may rely on, and what  *)
(* they may not.                                                           *)
(***************************************************************************)
EXTENDS SourceCache

Typed ==
    /\ archive \in ArchiveState
    /\ source \in Place
    /\ staging \in [Builds -> Place]
    /\ copying \in [Builds -> BOOLEAN]
    /\ aside \in [Builds -> {"nothing", "archive", "source"}]
    /\ pc \in [Builds -> Lookups \cup {"fetch", "stage", "metadata", "archive", "exists",
                  "detachArchive", "copy", "rename", "detach", "discard", "publish", "retry",
                  "unstage", "discover", "read", "done", "crashed"}]
    /\ reading \in [Builds -> {"entry", "metadata", "tree"}]
    /\ provider \in [Builds -> Provider]
    /\ attempts \in [Builds -> 0..MaxAttempts]
    /\ modules \in [Builds -> {"unknown", "none", "found"}]
    /\ outcome \in [Builds -> {"working", "verified", "compiled", "error", "refused"}]
    /\ undamaged \in BOOLEAN

\* Giving up the last round is an error and the end of the build.
LimitKept ==
    \A b \in Builds : attempts[b] = MaxAttempts =>
        pc[b] \in {"unstage", "done", "crashed"} /\ outcome[b] = "error"

\* Types, and that the publication loop never starts a round beyond its limit.
SourceTypeOK == Typed /\ LimitKept

\* "Empty or partial staging directories never occupy the content address": what
\* appears there is a verified source at once, whoever is killed meanwhile.
OnlyVerifiedSourcesAppear == [][source' # source => source' = Absent \/ Verified(source')]_vars

\* A build that returns leaves no staging directory, no archive copy and
\* nothing it has moved aside, on whichever path it left materialize.
NothingLeft ==
    \A b \in Builds : pc[b] = "done" =>
        staging[b] = Absent /\ ~copying[b] /\ aside[b] = "nothing"

\* "Corrupt entries are never returned": a damaged tree is never compiled, even
\* by a build whose verified entry has been replaced since.
NeverCompilesDamage ==
    [][\A b \in Builds : outcome'[b] = "compiled" /\ outcome[b] # "compiled"
                             => source \in Entry /\ source.tree = "whole"]_vars

\* However builds detach each other's entries, when all have ended, one with a
\* verified source and none because the file system refused, the next finds one.
SourceRemains ==
    /\ \A b \in Builds : pc[b] = "done" /\ outcome[b] # "refused"
    /\ \E b \in Builds : outcome[b] = "compiled"
    => Verified(source)

-----------------------------------------------------------------------------
(* A cache that was found undamaged, by builds that all select one provider. *)

\* No build moves a source away.
SourcesStay == [][undamaged /\ source # Absent => source' = source]_vars

\* Every build that is not frozen, and that the file system does not refuse,
\* compiles the whole package: it never gives up, and no module is missing.
OnlineBuildsCompile ==
    undamaged /\ MaxAttempts > 1 =>
        \A b \in Builds : /\ outcome[b] = "error" => b \in Frozen
                          /\ outcome[b] = "compiled" => modules[b] = "found"

-----------------------------------------------------------------------------
(* The inductive invariants behind the properties above.                     *)

\* The places of publish_verified_archive, and of the loop with a staged source.
Archiving(b) ==
    \/ pc[b] \in {"archive", "exists", "detachArchive", "copy", "rename"}
    \/ pc[b] = "discard" /\ aside[b] = "archive"

Publishing(b) ==
    \/ pc[b] \in {"check", "detach", "publish", "retry"}
    \/ pc[b] = "discard" /\ aside[b] = "source"

\* The siblings exist only while their owner is in materialize, and what it
\* renames to the content address is complete.
SiblingsOwned ==
    \A b \in Builds :
        /\ staging[b] # Absent => \/ Archiving(b) \/ Publishing(b)
                                 \/ pc[b] \in {"metadata", "unstage", "crashed"}
        /\ Archiving(b) => staging[b] \in {Absent, SourceOf(provider[b])}
        /\ Publishing(b) => staging[b] = SourceOf(provider[b])
        /\ copying[b] => pc[b] \in {"rename", "unstage", "crashed"}
        /\ aside[b] # "nothing" => pc[b] \in {"discard", "crashed"}
        /\ pc[b] = "discard" => aside[b] # "nothing"

\* A damaged entry was there from the start, so a reader that has seen its own
\* provider in the metadata is still looking at that entry or at a verified one.
ReadersBound ==
    \A b \in Builds :
        /\ reading[b] # "entry" => pc[b] \in Lookups \cup {"crashed"}
        /\ reading[b] = "tree" /\ pc[b] \in Lookups /\ source \in Entry
               => Verified(source) \/ source.owner = provider[b]

\* Once a build has verified a source, nothing damaged is there any more.
TrustedOnceVerified ==
    \A b \in Builds :
        /\ pc[b] \in {"discover", "read"} => outcome[b] = "verified"
        /\ Archiving(b) /\ staging[b] = Absent => outcome[b] = "verified"
        /\ outcome[b] \in {"verified", "compiled"} => source = Absent \/ Verified(source)

SourceInv == Typed /\ SiblingsOwned /\ ReadersBound /\ TrustedOnceVerified /\ LimitKept

\* In an undamaged cache of one provider whatever is there is what everybody
\* looks for, nobody reaches the detaching of a source, and a source that has
\* been met, lost to or verified is still there.
Undisturbed(b) ==
    /\ pc[b] # "detach" /\ aside[b] # "source"
    /\ source = Absent => /\ reading[b] = "entry" /\ attempts[b] = 0
                          /\ pc[b] \notin {"confirm", "retry", "discover", "read"}
                          /\ outcome[b] \notin {"verified", "compiled"}
    /\ pc[b] \in {"publish", "retry"} => attempts[b] = 0
    /\ (pc[b] = "read" \/ outcome[b] = "compiled") => modules[b] = "found"
    /\ MaxAttempts > 1 /\ outcome[b] = "error" => b \in Frozen

UndamagedInv == undamaged => InOrder /\ \A b \in Builds : Undisturbed(b)

-----------------------------------------------------------------------------
\* docs/project/registry-source-contract.md: "The source-store API materializes
\* selected bytes and returns a source root only after verification; CLI package
\* commands compile those roots as ordinary dependency libraries."  A build that
\* compiles, compiles the package it has verified, with all of its modules.
CompilesWhatWasVerified ==
    \A b \in Builds : outcome[b] = "compiled" => modules[b] = "found"
=============================================================================
