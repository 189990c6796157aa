-------------------------- MODULE IncrementalCache --------------------------
(***************************************************************************)
(* The persistent LLVM-IR cache of src/compiler/src/incremental_cache.rs   *)
(* as the processes that share one cache root use it: compiler invocations *)
(* with the same fingerprint (lookup, compile, publish, as compile_target  *)
(* of src/compiler/src/main.rs calls them) and `salic cache clean`.        *)
(* No lock is held: every action is one step on the file system, each      *)
(* resolving its path anew, so that an entry may be moved away between two *)
(* reads of one lookup.                                                    *)
(***************************************************************************)
EXTENDS Naturals, FiniteSets

CONSTANTS Compilers,    \* compiler invocations that share one fingerprint
          Cleaners,     \* `salic cache clean` invocations
          Artifact,     \* what a compilation may emit for the fingerprint
          MaxAttempts,  \* MAX_PUBLICATION_ATTEMPTS
          MaxCrashes,   \* bound: how many invocations are killed
          MaxRefusals,  \* bound: how many operations the file system refuses
          Unusable,     \* a file that is absent, malformed or incompatible
          NotDirectory, \* a file or symbolic link in the place of an entry
          Absent        \* nothing in that place

ASSUME CacheAssumption ==
    /\ Compilers \cap Cleaners = {}
    /\ Unusable \notin Artifact /\ Absent \notin Artifact /\ Absent # NotDirectory
    /\ MaxAttempts \in Nat \ {0}
    /\ MaxCrashes \in Nat
    /\ MaxRefusals \in Nat

VARIABLES tree,       \* how much of <root>/llvm-ir/v2/sha256/<H[0..2]> exists
          final,      \* the entry <H[2..64]> in it
          temporary,  \* the .tmp- sibling of each invocation
          invalid,    \* the .invalid- sibling of each invocation
          pc,         \* where an invocation is
          reading,    \* the part of the entry that read_entry_at reads next
          seen,       \* the artifact that the metadata it has read describes
          built,      \* the artifact the invocation has compiled
          attempts,   \* rounds of the publication loop it has given up
          outcome,    \* what it reports
          refused     \* operations that the file system has refused

disk == <<tree, final, temporary, invalid>>
vars == <<disk, pc, reading, seen, built, attempts, outcome, refused>>

\* An entry: metadata.toml, named by the artifact whose length and digest it
\* records, and module.ll.  `Unusable` metadata is Unreadable, InvalidMetadata
\* or IncompatibleMetadata to a reader.
Entry == [metadata : Artifact \cup {Unusable}, payload : Artifact \cup {Unusable}]
Whole(entry) == \E artifact \in Artifact :
                    entry = [metadata |-> artifact, payload |-> artifact]
Place == Entry \cup {NotDirectory, Absent}

ASSUME PlaceAssumption == Absent \notin Entry /\ NotDirectory \notin Entry

Process == Compilers \cup Cleaners
Reads   == {"lookup", "validate", "check", "contended", "failed"}

\* A fresh or a used root; what a previous compiler, a power loss or the user
\* left at the entry's path may be damaged in every way.
Init == /\ tree \in {"absent", "shard"}
        /\ final \in IF tree = "shard" THEN Place ELSE {Absent}
        /\ temporary = [c \in Compilers |-> Absent]
        /\ invalid = [c \in Compilers |-> Absent]
        /\ pc = [p \in Process |-> IF p \in Compilers THEN "lookup" ELSE "stat"]
        /\ reading = [c \in Compilers |-> "entry"]
        /\ seen = [c \in Compilers |-> Absent]
        /\ built = [c \in Compilers |-> Absent]
        /\ attempts = [c \in Compilers |-> 0]
        /\ outcome = [p \in Process |-> "working"]
        /\ refused = 0

Goto(p, label) == pc' = [pc EXCEPT ![p] = label]

Report(p, result, label) == /\ outcome' = [outcome EXCEPT ![p] = result]
                            /\ Goto(p, label)
-----------------------------------------------------------------------------
(* read_entry_at: the entry, its metadata and its payload are three reads of *)
(* whatever is at the path at that moment.                                   *)

EntryRead(c) == IF pc[c] = "validate" THEN temporary[c] ELSE final

\* Variant: Missing is handled as an invalid entry.
Resume_DetachesMissing(at, result) ==
    CASE at = "lookup"    -> IF result = "hit" THEN "done" ELSE "compile"
      [] at = "validate"  -> IF result = "hit" THEN "check" ELSE "unstage"
      [] at = "check"     -> IF result = "hit" THEN "unstage" ELSE "detach"
      [] at = "contended" -> IF result = "hit" THEN "unstage" ELSE "retry"
      [] at = "failed"    -> "unstage"

\* Where the caller of read_entry_at goes on, by its place in the code.
Resume(at, result) ==
    CASE at = "lookup"    -> IF result = "hit" THEN "done" ELSE "compile"
      [] at = "validate"  -> IF result = "hit" THEN "check" ELSE "unstage"
      [] at = "check"     -> IF result = "hit" THEN "unstage"
                             ELSE IF result = "missing" THEN "publish" ELSE "detach"
      [] at = "contended" -> IF result = "hit" THEN "unstage" ELSE "retry"
      [] at = "failed"    -> "unstage"

\* What the invocation then knows its outcome to be.
Verdict(at, result) ==
    IF result = "hit"
    THEN CASE at = "lookup"   -> "hit"
           [] at = "validate" -> "working"
           [] OTHER           -> "reused"
    ELSE IF at \in {"validate", "failed"} THEN "error" ELSE "working"

Conclude(c, result) ==
    /\ Report(c, Verdict(pc[c], result), Resume(pc[c], result))
    /\ reading' = [reading EXCEPT ![c] = "entry"]

StatEntry(c) ==
    /\ pc[c] \in Reads /\ reading[c] = "entry"
    /\ CASE EntryRead(c) = Absent       -> Conclude(c, "missing")
         [] EntryRead(c) = NotDirectory -> Conclude(c, "invalid")
         [] OTHER -> /\ reading' = [reading EXCEPT ![c] = "metadata"]
                     /\ UNCHANGED <<pc, outcome>>
    /\ UNCHANGED <<disk, seen, built, attempts>>

ReadMetadata(c) ==
    /\ pc[c] \in Reads /\ reading[c] = "metadata"
    /\ IF EntryRead(c) \in Entry /\ EntryRead(c).metadata \in Artifact
       THEN /\ seen' = [seen EXCEPT ![c] = EntryRead(c).metadata]
            /\ reading' = [reading EXCEPT ![c] = "payload"]
            /\ UNCHANGED <<pc, outcome>>
       ELSE Conclude(c, "invalid") /\ UNCHANGED seen
    /\ UNCHANGED <<disk, built, attempts>>

\* Variant: the payload's digest is not compared.
PayloadMatches_AnyPayload(c) ==
    EntryRead(c) \in Entry /\ EntryRead(c).payload \in Artifact

\* The payload must have the length and the digest of the metadata seen.
PayloadMatches(c) == EntryRead(c) \in Entry /\ EntryRead(c).payload = seen[c]

ReadPayload(c) ==
    /\ pc[c] \in Reads /\ reading[c] = "payload"
    /\ Conclude(c, IF PayloadMatches(c) THEN "hit" ELSE "invalid")
    /\ UNCHANGED <<disk, seen, built, attempts>>
-----------------------------------------------------------------------------
(* compile_target after a miss, and CacheStore::publish.                   *)

\* Variant: what a failed compilation has left is published.
Compile_IgnoresFailure(c) ==
    /\ pc[c] = "compile"
    /\ \/ \E artifact \in Artifact : built' = [built EXCEPT ![c] = artifact]
       \/ UNCHANGED built
    /\ Goto(c, "namespace")
    /\ UNCHANGED <<disk, reading, seen, attempts, outcome>>

\* A compilation that fails publishes nothing.
Compile(c) ==
    /\ pc[c] = "compile"
    /\ \/ \E artifact \in Artifact : /\ built' = [built EXCEPT ![c] = artifact]
                                     /\ Goto(c, "namespace")
                                     /\ UNCHANGED outcome
       \/ Report(c, "error", "done") /\ UNCHANGED built
    /\ UNCHANGED <<disk, reading, seen, attempts>>

\* ensure_owned_directory_path: the components in turn, llvm-ir first.
EnsureNamespace(c) ==
    /\ pc[c] = "namespace"
    /\ tree' = IF tree = "absent" THEN "namespace" ELSE tree
    /\ Goto(c, "shard")
    /\ UNCHANGED <<final, temporary, invalid, reading, seen, built, attempts, outcome>>

\* ... then those below; create_dir_all makes a namespace that is gone again.
EnsureShard(c) ==
    /\ pc[c] = "shard"
    /\ tree' = "shard"
    /\ Goto(c, "stage")
    /\ UNCHANGED <<final, temporary, invalid, reading, seen, built, attempts, outcome>>

Stage(c) ==
    /\ pc[c] = "stage"
    /\ IF tree = "shard"
       THEN /\ temporary' = [temporary EXCEPT ![c] =
                                [metadata |-> Unusable, payload |-> Unusable]]
            /\ Goto(c, "payload")
            /\ UNCHANGED outcome
       ELSE Report(c, "error", "done") /\ UNCHANGED temporary
    /\ UNCHANGED <<tree, final, invalid, reading, seen, built, attempts>>

Write(c, entry, label) ==
    /\ IF temporary[c] # Absent
       THEN /\ temporary' = [temporary EXCEPT ![c] = entry]
            /\ Goto(c, label)
            /\ UNCHANGED outcome
       ELSE Report(c, "error", "unstage") /\ UNCHANGED temporary
    /\ UNCHANGED <<tree, final, invalid, reading, seen, built, attempts>>

\* Variant: renamed to its final name before metadata.toml is written.
WritePayload_IsEnough(c) ==
    /\ pc[c] = "payload"
    /\ Write(c, [metadata |-> Unusable, payload |-> built[c]], "check")

WritePayload(c) ==
    /\ pc[c] = "payload"
    /\ Write(c, [metadata |-> Unusable, payload |-> built[c]], "metadata")

WriteMetadata(c) ==
    /\ pc[c] = "metadata"
    /\ Write(c, [metadata |-> built[c], payload |-> built[c]], "validate")

\* The entry that was found invalid is moved aside, whatever is there by now.
Detach(c) ==
    /\ pc[c] = "detach"
    /\ IF final = Absent
       THEN Goto(c, "retry") /\ UNCHANGED <<final, invalid>>
       ELSE /\ invalid' = [invalid EXCEPT ![c] = final]
            /\ final' = Absent
            /\ Goto(c, "discard")
    /\ UNCHANGED <<tree, temporary, reading, seen, built, attempts, outcome>>

\* Variant: the clean-up of the invalid sibling ends the publication.
Discard_Returns(c) ==
    /\ pc[c] = "discard"
    /\ invalid' = [invalid EXCEPT ![c] = Absent]
    /\ Goto(c, "unstage")
    /\ UNCHANGED <<tree, final, temporary, reading, seen, built, attempts, outcome>>

Discard(c) ==
    /\ pc[c] = "discard"
    /\ invalid' = [invalid EXCEPT ![c] = Absent]
    /\ Goto(c, "publish")
    /\ UNCHANGED <<tree, final, temporary, reading, seen, built, attempts, outcome>>

\* fs::rename(temporary, final) replaces nothing: a directory with files is in
\* the way, and so is a file.
Publish(c) ==
    /\ pc[c] = "publish"
    /\ IF temporary[c] # Absent /\ final = Absent
       THEN /\ final' = temporary[c]
            /\ temporary' = [temporary EXCEPT ![c] = Absent]
            /\ Report(c, "published", "done")
       ELSE /\ Goto(c, IF temporary[c] = Absent \/ final = NotDirectory
                       THEN "failed" ELSE "contended")
            /\ UNCHANGED <<final, temporary, outcome>>
    /\ UNCHANGED <<tree, invalid, reading, seen, built, attempts>>

Retry(c) ==
    /\ pc[c] = "retry"
    /\ attempts' = [attempts EXCEPT ![c] = @ + 1]
    /\ IF attempts[c] + 1 < MaxAttempts
       THEN Goto(c, "check") /\ UNCHANGED outcome
       ELSE Report(c, "error", "unstage")
    /\ UNCHANGED <<disk, reading, seen, built>>

\* Variant: the guard is disarmed before every return.
Unstage_Disarmed(c) ==
    /\ pc[c] = "unstage"
    /\ Goto(c, "done")
    /\ UNCHANGED <<disk, reading, seen, built, attempts, outcome>>

\* RemoveDirectoryGuard::drop on every return after the directory was made.
Unstage(c) ==
    /\ pc[c] = "unstage"
    /\ temporary' = [temporary EXCEPT ![c] = Absent]
    /\ Goto(c, "done")
    /\ UNCHANGED <<tree, final, invalid, reading, seen, built, attempts, outcome>>
-----------------------------------------------------------------------------
(* CacheStore::clean, and what the environment does.                       *)

StatNamespace(k) ==
    /\ pc[k] = "stat"
    /\ IF tree = "absent" THEN Report(k, "empty", "done")
                          ELSE Goto(k, "rename") /\ UNCHANGED outcome
    /\ UNCHANGED <<disk, reading, seen, built, attempts>>

\* The namespace leaves the root as a whole, with every sibling in it.
DetachNamespace(k) ==
    /\ pc[k] = "rename"
    /\ IF tree = "absent"
       THEN Report(k, "error", "done") /\ UNCHANGED disk
       ELSE /\ tree' = "absent"
            /\ final' = Absent
            /\ temporary' = [c \in Compilers |-> Absent]
            /\ invalid' = [c \in Compilers |-> Absent]
            /\ Report(k, "cleaned", "done")
    /\ UNCHANGED <<reading, seen, built, attempts>>

\* A write or a rename the file system refuses for a reason of its own.  Only a
\* refused publishing rename can also be reported as PermissionDenied.
IoFails(c) ==
    /\ refused < MaxRefusals
    /\ refused' = refused + 1
    /\ \/ pc[c] \in {"payload", "metadata"} /\ Report(c, "error", "unstage")
       \/ pc[c] \in {"detach", "publish"} /\ Goto(c, "failed") /\ UNCHANGED outcome
       \/ pc[c] = "publish" /\ Goto(c, "contended") /\ UNCHANGED outcome
    /\ UNCHANGED <<disk, reading, seen, built, attempts>>

Crash(c) ==
    /\ pc[c] \notin {"done", "crashed"}
    /\ Cardinality({d \in Compilers : pc[d] = "crashed"}) < MaxCrashes
    /\ Goto(c, "crashed")
    /\ UNCHANGED <<disk, reading, seen, built, attempts, outcome>>

CompilerStep(c) ==
    \/ StatEntry(c) \/ ReadMetadata(c) \/ ReadPayload(c)
    \/ Compile(c)
    \/ EnsureNamespace(c) \/ EnsureShard(c) \/ Stage(c)
    \/ WritePayload(c) \/ WriteMetadata(c)
    \/ Detach(c) \/ Discard(c) \/ Publish(c) \/ Retry(c)
    \/ Unstage(c)
    \/ Crash(c)

CleanerStep(k) == StatNamespace(k) \/ DetachNamespace(k)

Next == \/ \E c \in Compilers : CompilerStep(c) /\ UNCHANGED refused
        \/ \E c \in Compilers : IoFails(c)
        \/ \E k \in Cleaners : CleanerStep(k) /\ UNCHANGED refused

Spec == Init /\ [][Next]_vars
=============================================================================
