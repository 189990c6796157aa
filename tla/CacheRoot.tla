----------------------------- MODULE CacheRoot -----------------------------
(***************************************************************************)
(* How compiler invocations come to own a cache root: CacheStore::open of  *)
(* compiler/src/incremental_cache.rs.  A root is claimed by renaming a     *)
(* private marker file to its fixed name, and only if the root holds       *)
(* nothing but such files.  Every invocation opens the root on its own,    *)
(* without a lock; one that has opened it goes on to fill the root.        *)
(***************************************************************************)
EXTENDS FiniteSets, Naturals

CONSTANTS Openers,      \* invocations that share the root
          Leftover,     \* marker files that killed invocations have left
          MaxCrashes,   \* bound: how many invocations are killed
          IoMayFail     \* whether writing the marker may fail

VARIABLES root,      \* "absent", "directory", or "other": a file or a link
          marker,    \* the marker: "absent", "valid" or "foreign"
          markers,   \* whose private .marker- files are in the root
          contents,  \* whether the root holds anything else
          pc,        \* where an opener is
          outcome    \* what open has returned to it

vars == <<root, marker, markers, contents, pc, outcome>>

ASSUME RootAssumption == /\ Openers \cap Leftover = {}
                         /\ MaxCrashes \in Nat
                         /\ IoMayFail \in BOOLEAN

\* Any directory may be configured as the root.
Init == /\ root \in {"absent", "directory", "other"}
        /\ marker \in {"absent", "valid", "foreign"}
        /\ markers \in SUBSET Leftover
        /\ contents \in BOOLEAN
        /\ root # "directory" => marker = "absent" /\ markers = {} /\ ~contents
        /\ pc = [o \in Openers |-> "create"]
        /\ outcome = [o \in Openers |-> "opening"]

Goto(o, label) == pc' = [pc EXCEPT ![o] = label] /\ UNCHANGED outcome

Return(o, result) == /\ outcome' = [outcome EXCEPT ![o] = result]
                     /\ pc' = [pc EXCEPT ![o] = "returned"]

\* Variant: the kind of what is at the path is not checked.
EnsureRoot_AnyKind(o) ==
    /\ pc[o] = "create"
    /\ root' = IF root = "absent" THEN "directory" ELSE root
    /\ Goto(o, "stat")
    /\ UNCHANGED <<marker, markers, contents>>

\* ensure_private_directory and the checks of what is there.
EnsureRoot(o) ==
    /\ pc[o] = "create"
    /\ root' = IF root = "absent" THEN "directory" ELSE root
    /\ IF root = "other" THEN Return(o, "refused") ELSE Goto(o, "stat")
    /\ UNCHANGED <<marker, markers, contents>>

\* Variant: any file of the marker's name will do.
StatMarker_AnyMarker(o) ==
    /\ pc[o] = "stat"
    /\ CASE marker = "absent" -> Goto(o, "list")
         [] OTHER             -> Return(o, "opened")
    /\ UNCHANGED <<root, marker, markers, contents>>

StatMarker(o) ==
    /\ pc[o] = "stat"
    /\ CASE marker = "absent"  -> Goto(o, "list")
         [] marker = "valid"   -> Return(o, "opened")
         [] marker = "foreign" -> Return(o, "refused")
    /\ UNCHANGED <<root, marker, markers, contents>>

\* unowned_root_is_claimable: only private markers are in the root.
Claimable == marker = "absent" /\ ~contents

ListRoot(o) ==
    /\ pc[o] = "list"
    /\ Goto(o, IF Claimable THEN "write" ELSE "statAgain")
    /\ UNCHANGED <<root, marker, markers, contents>>

\* Variant: a root that is not claimable is refused at once.
StatAgain_Refuses(o) ==
    /\ pc[o] = "statAgain"
    /\ Return(o, "refused")
    /\ UNCHANGED <<root, marker, markers, contents>>

\* The root may have been claimed and filled since the marker was looked for.
StatAgain(o) ==
    /\ pc[o] = "statAgain"
    /\ Return(o, IF marker = "valid" THEN "opened" ELSE "refused")
    /\ UNCHANGED <<root, marker, markers, contents>>

WriteMarker(o) ==
    /\ pc[o] = "write"
    /\ markers' = markers \cup {o}
    /\ Goto(o, "rename")
    /\ UNCHANGED <<root, marker, contents>>

\* A file replaces a file: a marker that another opener has renamed meanwhile is
\* replaced by the same bytes.
RenameMarker(o) ==
    /\ pc[o] = "rename"
    /\ marker' = "valid"
    /\ markers' = markers \ {o}
    /\ Return(o, "opened")
    /\ UNCHANGED <<root, contents>>

\* Variant: a failed claim leaves its private marker.
MarkerFails_Leaves(o) ==
    /\ IoMayFail /\ pc[o] \in {"write", "rename"}
    /\ Return(o, IF pc[o] = "rename" /\ marker = "valid" THEN "opened" ELSE "failed")
    /\ UNCHANGED <<root, marker, contents, markers>>

\* The guard removes the private marker; a rename that failed is forgiven if the
\* marker is valid by now.
MarkerFails(o) ==
    /\ IoMayFail /\ pc[o] \in {"write", "rename"}
    /\ Return(o, IF pc[o] = "rename" /\ marker = "valid" THEN "opened" ELSE "failed")
    /\ markers' = markers \ {o}
    /\ UNCHANGED <<root, marker, contents>>

\* publish and clean: the llvm-ir namespace and what is detached from it.
Fill(o) ==
    /\ pc[o] = "returned" /\ outcome[o] = "opened"
    /\ contents' \in BOOLEAN
    /\ UNCHANGED <<root, marker, markers, pc, outcome>>

Crash(o) ==
    /\ pc[o] \notin {"returned", "crashed"}
    /\ Cardinality({p \in Openers : pc[p] = "crashed"}) < MaxCrashes
    /\ Goto(o, "crashed")
    /\ UNCHANGED <<root, marker, markers, contents>>

Open(o) == \/ EnsureRoot(o) \/ StatMarker(o) \/ ListRoot(o) \/ StatAgain(o)
           \/ WriteMarker(o) \/ RenameMarker(o) \/ MarkerFails(o)
           \/ Fill(o) \/ Crash(o)

Next == \E o \in Openers : Open(o)

Spec == Init /\ [][Next]_vars
-----------------------------------------------------------------------------
RootTypeOK ==
    /\ root \in {"absent", "directory", "other"}
    /\ marker \in {"absent", "valid", "foreign"}
    /\ markers \subseteq Openers \cup Leftover
    /\ contents \in BOOLEAN
    /\ pc \in [Openers -> {"create", "stat", "list", "statAgain", "write", "rename",
                           "returned", "crashed"}]
    /\ outcome \in [Openers -> {"opening", "opened", "refused", "failed"}]
    /\ root # "directory" => marker = "absent" /\ markers = {} /\ ~contents

\* "A nonempty directory without the marker is not claimed", "a byte-different
\* marker is rejected": whoever opens the root finds its valid marker there, and
\* nobody writes a marker into a directory that holds something of the user's.
ClaimsOnlyItsOwn ==
    [][/\ marker' # marker => marker = "absent" /\ ~contents /\ marker' = "valid"
       /\ \A o \in Openers : outcome'[o] = "opened" /\ outcome[o] # "opened"
                                 => marker' = "valid"]_vars

\* Opening a fresh root, or one that belongs to the compiler, is never refused
\* to anybody, however many open, claim and fill it at the same time, and
\* whatever killed invocations have left.
OwnedRootOpens ==
    [][\A o \in Openers : outcome'[o] = "refused" /\ outcome[o] = "opening"
          => root = "other" \/ marker = "foreign" \/ (marker = "absent" /\ contents)]_vars

\* An open that returns leaves no private marker.
NoMarkerLeft == \A o \in Openers : pc[o] = "returned" => o \notin markers

\* Why: a root that is opened carries the marker, so only a root that does not is
\* ever found empty, and one found full and unmarked stays so.
RootInv ==
    /\ RootTypeOK
    /\ \A o \in Openers :
        /\ pc[o] \in {"stat", "list", "statAgain", "write", "rename"}
               \/ outcome[o] = "opened" => root = "directory"
        /\ outcome[o] = "opened" => marker = "valid"
        /\ pc[o] \in {"write", "rename"} => marker = "valid" \/ Claimable
        /\ pc[o] = "statAgain" => ~Claimable
        /\ o \in markers => pc[o] \in {"rename", "crashed"}
=============================================================================
