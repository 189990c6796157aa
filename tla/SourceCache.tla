---------------------------- MODULE SourceCache ----------------------------
(***************************************************************************)
(* The registry source cache (compiler/src/registry_cache.rs) as the       *)
(* builds use it: materialize_provider of registry_project.rs, followed by *)
(* the reading of the package's modules in main.rs.  One archive digest is *)
(* modelled; its archive and source entries are shared by every build      *)
(* whose lock or configuration selects a provider with that digest, from   *)
(* whatever snapshot or registry.  No lock is held: every action is one    *)
(* step on the file system, each resolving its path anew.                  *)
(***************************************************************************)
EXTENDS Naturals, FiniteSets

CONSTANTS Builds,        \* package commands that share the cache
          Frozen,        \* those with --frozen
          Provider,      \* provider identities with the digest
          InitialSource, \* what may be at the source path at first
          InitialArchive,\* what may be at the archive path at first
          MaxAttempts,   \* MAX_PUBLICATION_ATTEMPTS
          MaxCrashes,    \* bound: how many builds are killed
          IoMayFail,     \* whether writes, renames and the endpoint may fail
          Unusable,      \* metadata that is absent, malformed or not canonical
          NotDirectory,  \* a file or symbolic link in the place of an entry
          Absent         \* nothing in that place

VARIABLES archive,   \* archives/sha256/<digest>.tar.gz
          source,    \* sources/sha256/<digest>
          staging,   \* the .source-tmp- sibling of each build
          copying,   \* whether its .archive-tmp- sibling exists
          aside,     \* what its .invalid- sibling holds
          pc,        \* where a build is
          reading,   \* the part of an entry that its lookup reads next
          provider,  \* the provider it has selected
          attempts,  \* rounds of the publication loop it has given up
          modules,   \* whether discovery found the modules below src/
          outcome,   \* what it has achieved
          undamaged  \* auxiliary: whether the cache was found in order

disk == <<archive, source, staging, copying, aside>>
choices == <<provider, undamaged>>
vars == <<disk, pc, reading, choices, attempts, modules, outcome>>

\* A source entry: the provider its metadata names, and whether the extracted
\* tree has the digest and bounds of the metadata.
Entry == [owner : Provider \cup {Unusable}, tree : {"whole", "damaged"}]
SourceOf(p) == [owner |-> p, tree |-> "whole"]
Verified(entry) == \E p \in Provider : entry = SourceOf(p)
Place == Entry \cup {NotDirectory, Absent}
ArchiveState == {"absent", "damaged", "valid"}

ASSUME SourceAssumption ==
    /\ Frozen \subseteq Builds
    /\ Unusable \notin Provider
    /\ Absent \notin Entry /\ NotDirectory \notin Entry /\ Absent # NotDirectory
    /\ InitialSource \subseteq Place
    /\ InitialArchive \subseteq ArchiveState
    /\ MaxAttempts \in Nat \ {0}
    /\ MaxCrashes \in Nat
    /\ IoMayFail \in BOOLEAN

Lookups == {"lookup", "recheck", "check", "confirm"}

\* All builds select one provider, whose source is there if there is any.
InOrder == \E p \in Provider : /\ \A b \in Builds : provider[b] = p
                              /\ source \in {Absent, SourceOf(p)}

Init == /\ archive \in InitialArchive
        /\ source \in InitialSource
        /\ staging = [b \in Builds |-> Absent]
        /\ copying = [b \in Builds |-> FALSE]
        /\ aside = [b \in Builds |-> "nothing"]
        /\ pc = [b \in Builds |-> "lookup"]
        /\ reading = [b \in Builds |-> "entry"]
        /\ provider \in [Builds -> Provider]
        /\ attempts = [b \in Builds |-> 0]
        /\ modules = [b \in Builds |-> "unknown"]
        /\ outcome = [b \in Builds |-> "working"]
        /\ undamaged = InOrder

Goto(b, label) == pc' = [pc EXCEPT ![b] = label]

Report(b, result, label) == /\ outcome' = [outcome EXCEPT ![b] = result]
                            /\ Goto(b, label)

\* Leaving materialize with an error drops the guards of the siblings.
Fail(b) == Report(b, "error", "unstage")

\* The same error, when it comes from the file system or the endpoint.
Refuse(b) == Report(b, "refused", "unstage")

decisions == <<reading, choices, attempts, modules>>
-----------------------------------------------------------------------------
(* RegistrySourceStore::lookup: directory, metadata, then the whole tree and *)
(* manifest, each from whatever is at the content address at that moment.    *)

\* Variant: a missing entry is detached like a corrupt one.
Resume_DetachesMissing(at, result) ==
    CASE at = "lookup"  -> IF result = "hit" THEN "discover" ELSE "fetch"
      [] at = "recheck" -> IF result = "hit" THEN "archive" ELSE "stage"
      [] at = "check"   -> IF result = "hit" THEN "unstage" ELSE "detach"
      [] at = "confirm" -> IF result = "hit" THEN "discover" ELSE "unstage"

\* Where the caller of lookup goes on, by its place in the code.
Resume(at, result) ==
    CASE at = "lookup"  -> IF result = "hit" THEN "discover" ELSE "fetch"
      [] at = "recheck" -> IF result = "hit" THEN "archive" ELSE "stage"
      [] at = "check"   -> IF result = "hit" THEN "unstage"
                           ELSE IF result = "missing" THEN "publish" ELSE "detach"
      [] at = "confirm" -> IF result = "hit" THEN "discover" ELSE "unstage"

\* A source that is gone or replaced right after its publication is an error.
Conclude(b, result) ==
    /\ reading' = [reading EXCEPT ![b] = "entry"]
    /\ Goto(b, Resume(pc[b], result))
    /\ CASE result = "hit"     -> outcome' = [outcome EXCEPT ![b] = "verified"]
         [] result # "hit" /\ pc[b] = "confirm" -> outcome' = [outcome EXCEPT ![b] = "error"]
         [] OTHER -> UNCHANGED outcome

StatSource(b) ==
    /\ pc[b] \in Lookups /\ reading[b] = "entry"
    /\ CASE source = Absent       -> Conclude(b, "missing")
         [] source = NotDirectory -> Conclude(b, "corrupt")
         [] OTHER -> /\ reading' = [reading EXCEPT ![b] = "metadata"]
                     /\ UNCHANGED <<pc, outcome>>
    /\ UNCHANGED <<disk, choices, attempts, modules>>

\* The metadata must name the very provider that is looked up, its registry and
\* snapshot included.
ReadMetadata(b) ==
    /\ pc[b] \in Lookups /\ reading[b] = "metadata"
    /\ IF source \in Entry /\ source.owner = provider[b]
       THEN /\ reading' = [reading EXCEPT ![b] = "tree"]
            /\ UNCHANGED <<pc, outcome>>
       ELSE Conclude(b, "corrupt")
    /\ UNCHANGED <<disk, choices, attempts, modules>>

\* Variant: the digest of the tree is not recomputed.
ReadTree_AnyTree(b) ==
    /\ pc[b] \in Lookups /\ reading[b] = "tree"
    /\ Conclude(b, IF source \in Entry THEN "hit" ELSE "corrupt")
    /\ UNCHANGED <<disk, choices, attempts, modules>>

ReadTree(b) ==
    /\ pc[b] \in Lookups /\ reading[b] = "tree"
    /\ Conclude(b, IF source \in Entry /\ source.tree = "whole" THEN "hit" ELSE "corrupt")
    /\ UNCHANGED <<disk, choices, attempts, modules>>

\* materialize_provider after a miss: the cached archive if its digest is right,
\* else, unless frozen, the endpoint's.
Fetch(b) ==
    /\ pc[b] = "fetch"
    /\ \/ archive = "valid" /\ Goto(b, "recheck") /\ UNCHANGED outcome
       \/ archive # "valid" /\ b \notin Frozen /\ Goto(b, "recheck") /\ UNCHANGED outcome
       \/ archive # "valid" /\ b \in Frozen /\ Fail(b)
       \/ archive # "valid" /\ b \notin Frozen /\ IoMayFail /\ Refuse(b)
    /\ UNCHANGED <<disk, decisions>>
-----------------------------------------------------------------------------
(* materialize: the private staging directory.                              *)

Stage(b) ==
    /\ pc[b] = "stage"
    /\ staging' = [staging EXCEPT ![b] = [owner |-> Unusable, tree |-> "whole"]]
    /\ Goto(b, "metadata")
    /\ UNCHANGED <<archive, source, copying, aside, decisions, outcome>>

\* Variant: the metadata are written after the rename to the content address.
WriteMetadata_Later(b) ==
    /\ pc[b] = "metadata"
    /\ Goto(b, "archive")
    /\ UNCHANGED <<disk, decisions, outcome>>

WriteMetadata(b) ==
    /\ pc[b] = "metadata"
    /\ staging' = [staging EXCEPT ![b] = SourceOf(provider[b])]
    /\ Goto(b, "archive")
    /\ UNCHANGED <<archive, source, copying, aside, decisions, outcome>>
-----------------------------------------------------------------------------
(* publish_verified_archive, called with or without a staged source.        *)

AfterArchive(b) == IF staging[b] = Absent THEN "discover" ELSE "check"

CheckArchive(b) ==
    /\ pc[b] = "archive"
    /\ Goto(b, IF archive = "valid" THEN AfterArchive(b) ELSE "exists")
    /\ UNCHANGED <<disk, decisions, outcome>>

\* Asked anew: an archive that has become valid meanwhile is moved away, too.
ArchiveExists(b) ==
    /\ pc[b] = "exists"
    /\ Goto(b, IF archive = "absent" THEN "copy" ELSE "detachArchive")
    /\ UNCHANGED <<disk, decisions, outcome>>

DetachArchive(b) ==
    /\ pc[b] = "detachArchive"
    /\ IF archive = "absent"
       THEN Goto(b, "copy") /\ UNCHANGED <<archive, aside>>
       ELSE /\ archive' = "absent"
            /\ aside' = [aside EXCEPT ![b] = "archive"]
            /\ Goto(b, "discard")
    /\ UNCHANGED <<source, staging, copying, decisions, outcome>>

CopyArchive(b) ==
    /\ pc[b] = "copy"
    /\ copying' = [copying EXCEPT ![b] = TRUE]
    /\ Goto(b, "rename")
    /\ UNCHANGED <<archive, source, staging, aside, decisions, outcome>>

\* A file replaces a file: the rename always wins.
RenameArchive(b) ==
    /\ pc[b] = "rename"
    /\ archive' = "valid"
    /\ copying' = [copying EXCEPT ![b] = FALSE]
    /\ Goto(b, AfterArchive(b))
    /\ UNCHANGED <<source, staging, aside, decisions, outcome>>
-----------------------------------------------------------------------------
(* materialize: the publication loop.                                       *)

\* What lookup found corrupt is moved aside, whatever is there by now.
Detach(b) ==
    /\ pc[b] = "detach"
    /\ IF source = Absent
       THEN Goto(b, "publish") /\ UNCHANGED <<source, aside>>
       ELSE /\ aside' = [aside EXCEPT ![b] = "source"]
            /\ source' = Absent
            /\ Goto(b, "discard")
    /\ UNCHANGED <<archive, staging, copying, decisions, outcome>>

\* Variant: what was moved aside is left for somebody else to remove.
Discard_Leaves(b) ==
    /\ pc[b] = "discard"
    /\ Goto(b, IF aside[b] = "archive" THEN "copy" ELSE "publish")
    /\ UNCHANGED <<disk, decisions, outcome>>

\* Variant: the publication ends once the corrupt source is moved aside.
Discard_GivesUp(b) ==
    /\ pc[b] = "discard"
    /\ aside' = [aside EXCEPT ![b] = "nothing"]
    /\ Goto(b, IF aside[b] = "archive" THEN "copy" ELSE "unstage")
    /\ UNCHANGED <<archive, source, staging, copying, decisions, outcome>>

Discard(b) ==
    /\ pc[b] = "discard"
    /\ aside' = [aside EXCEPT ![b] = "nothing"]
    /\ Goto(b, IF aside[b] = "archive" THEN "copy" ELSE "publish")
    /\ UNCHANGED <<archive, source, staging, copying, decisions, outcome>>

\* Variant: losing the rename is an error.
Publish_LoserFails(b) ==
    /\ pc[b] = "publish"
    /\ IF source = Absent
       THEN /\ source' = staging[b]
            /\ staging' = [staging EXCEPT ![b] = Absent]
            /\ Goto(b, "confirm") /\ UNCHANGED outcome
       ELSE Fail(b) /\ UNCHANGED <<source, staging>>
    /\ UNCHANGED <<archive, copying, aside, decisions>>

\* A directory only takes the content address while nothing is there.
Publish(b) ==
    /\ pc[b] = "publish"
    /\ IF source = Absent
       THEN /\ source' = staging[b]
            /\ staging' = [staging EXCEPT ![b] = Absent]
            /\ Goto(b, "confirm") /\ UNCHANGED outcome
       ELSE /\ IF source = NotDirectory THEN Fail(b) ELSE Goto(b, "retry") /\ UNCHANGED outcome
            /\ UNCHANGED <<source, staging>>
    /\ UNCHANGED <<archive, copying, aside, decisions>>

\* Variant: one round more than MAX_PUBLICATION_ATTEMPTS.
Retry_OneMore(b) ==
    /\ pc[b] = "retry"
    /\ attempts' = [attempts EXCEPT ![b] = @ + 1]
    /\ IF attempts[b] < MaxAttempts THEN Goto(b, "check") /\ UNCHANGED outcome ELSE Fail(b)
    /\ UNCHANGED <<disk, reading, choices, modules>>

Retry(b) ==
    /\ pc[b] = "retry"
    /\ attempts' = [attempts EXCEPT ![b] = @ + 1]
    /\ IF attempts[b] + 1 < MaxAttempts THEN Goto(b, "check") /\ UNCHANGED outcome ELSE Fail(b)
    /\ UNCHANGED <<disk, reading, choices, modules>>

\* RemoveGuard::drop of whatever siblings are left when materialize returns.
Unstage(b) ==
    /\ pc[b] = "unstage"
    /\ staging' = [staging EXCEPT ![b] = Absent]
    /\ copying' = [copying EXCEPT ![b] = FALSE]
    /\ Goto(b, IF outcome[b] = "verified" THEN "discover" ELSE "done")
    /\ UNCHANGED <<archive, source, aside, decisions, outcome>>
-----------------------------------------------------------------------------
(* main.rs: the verified root is read by path, in two phases.               *)

\* discover_package_module_sources: no src/ directory means no modules.
Discover(b) ==
    /\ pc[b] = "discover"
    /\ modules' = [modules EXCEPT ![b] = IF source \in Entry THEN "found" ELSE "none"]
    /\ Goto(b, "read")
    /\ UNCHANGED <<disk, reading, choices, attempts, outcome>>

\* read_source_packages: the library root and the modules that were found.
ReadPackages(b) ==
    /\ pc[b] = "read"
    /\ Report(b, IF source \in Entry THEN "compiled" ELSE "error", "done")
    /\ UNCHANGED <<disk, decisions>>
-----------------------------------------------------------------------------
IoFails(b) ==
    /\ IoMayFail
    /\ pc[b] \in {"stage", "metadata", "detachArchive", "copy", "rename", "detach", "publish"}
    /\ Refuse(b)
    /\ UNCHANGED <<disk, decisions>>

Crash(b) ==
    /\ pc[b] \notin {"done", "crashed"}
    /\ Cardinality({d \in Builds : pc[d] = "crashed"}) < MaxCrashes
    /\ Goto(b, "crashed")
    /\ UNCHANGED <<disk, decisions, outcome>>

Step(b) ==
    \/ StatSource(b) \/ ReadMetadata(b) \/ ReadTree(b)
    \/ Fetch(b) \/ Stage(b) \/ WriteMetadata(b)
    \/ CheckArchive(b) \/ ArchiveExists(b) \/ DetachArchive(b)
    \/ CopyArchive(b) \/ RenameArchive(b)
    \/ Detach(b) \/ Discard(b) \/ Publish(b) \/ Retry(b) \/ Unstage(b)
    \/ Discover(b) \/ ReadPackages(b)
    \/ IoFails(b) \/ Crash(b)

Next == \E b \in Builds : Step(b)

Spec == Init /\ [][Next]_vars
=============================================================================
