--------------------------- MODULE RegistryBuilds ---------------------------
(***************************************************************************)
(* Package commands that resolve registry dependencies: resolve_input and  *)
(* apply_lock_mode of compiler/src/main.rs, prepare_registry_graph of      *)
(* compiler/src/registry_project.rs and the lockfile of                    *)
(* compiler/src/lockfile.rs.  A build reads the manifests and the          *)
(* lockfile, loads registry snapshots, searches for a resolution or takes  *)
(* the locked one, and at the end writes the lockfile or compares with it. *)
(*                                                                         *)
(* Builds follow one another; what other processes and the user do to the  *)
(* files between two steps of a build are the environment's actions.       *)
(***************************************************************************)
EXTENDS RegistryResolution, DependencyVisit, FiniteSets

CONSTANTS Digests,     \* snapshot digests, numbered for each registry
          Catalogs,    \* what the snapshots may list
          Manifests,   \* root requirements the manifests may state
          OtherLocks(_), \* lockfiles that other tools leave, given the catalog
          MaxBuilds,   \* bound: builds
          MaxEdits     \* bound: actions of the environment

IsLockfile(lock) ==
    /\ DOMAIN lock.snapshots \subseteq Registries
    /\ DOMAIN lock.packages \subseteq Packages
    /\ lock \in [present : BOOLEAN,
                snapshots : [DOMAIN lock.snapshots -> Digests],
                packages : [DOMAIN lock.packages -> Versions],
                requests : SUBSET Packages,
                edges : [DOMAIN lock.packages -> SUBSET Packages]]

ASSUME BuildAssumption ==
    /\ 1 \in Digests
    /\ \A c \in Catalogs, d \in Digests : \A k \in DOMAIN c[d] :
          DOMAIN c[d][k] \subseteq Versions /\ c[d][k] \in [DOMAIN c[d][k] -> Release]
    /\ Manifests \subseteq SUBSET Requirement
    /\ \A c \in Catalogs : \A lock \in OtherLocks(c) : IsLockfile(lock)

VARIABLES catalog,     \* what each snapshot lists, for each digest
          manifest,    \* the root requirements of the manifests now
          config,      \* the digest configured for each registry
          published,   \* snapshots the fixture endpoints hold
          cached,      \* snapshots whose blob in the cache is intact
          lockfile,
          build,       \* the build that runs, or the last one
          builds,      \* how many have been started
          edits        \* how often the environment has acted

projectVars == <<catalog, manifest, config, published>>
vars == <<solverVars, walk, projectVars, cached, lockfile, build, builds, edits>>
-----------------------------------------------------------------------------
\* A lockfile: the snapshot of each registry, the version of each package,
\* the packages the manifests depend on and those each package depends on.
\* A dependency is known by its package; validate_registry_lock_graph leaves
\* one version of each, so an edge needs no version.
NoLock == [present |-> FALSE, snapshots |-> Empty, packages |-> Empty,
           requests |-> {}, edges |-> Empty]

\* validate_registry_lock_graph: packages come from the locked snapshots,
\* edges lead to locked packages.
Parses(lock) ==
    /\ \A k \in DOMAIN lock.packages : RegistryOf[k] \in DOMAIN lock.snapshots
    /\ \A k \in DOMAIN lock.packages : lock.edges[k] \subseteq DOMAIN lock.packages
    /\ lock.requests \subseteq DOMAIN lock.packages

\* The releases of the snapshots that are given.
IndexOf(snapshots) ==
    LET Listed == {k \in Packages : /\ RegistryOf[k] \in DOMAIN snapshots
                                    /\ k \in DOMAIN catalog[snapshots[RegistryOf[k]]]}
    IN [k \in Listed |-> catalog[snapshots[RegistryOf[k]]][k]]

ProblemOf(roots, snapshots, locked) ==
    [roots |-> roots, loaded |-> DOMAIN snapshots, index |-> IndexOf(snapshots),
     locked |-> locked]

\* Variant: only direct dependencies are recorded as edges.
LockOf_NoEdges(roots, selection, snapshots) ==
    LET used == {RegistryOf[k] : k \in DOMAIN selection}
    IN [present |-> TRUE,
        snapshots |-> [r \in used |-> snapshots[r]],
        packages |-> selection,
        requests |-> Constrained(roots),
        edges |-> [k \in DOMAIN selection |-> {}]]

\* Lockfile::from_graph_root_with_registry on what the search returned.
LockOf(roots, selection, snapshots) ==
    LET used == {RegistryOf[k] : k \in DOMAIN selection}
    IN [present |-> TRUE,
        snapshots |-> [r \in used |-> snapshots[r]],
        packages |-> selection,
        requests |-> Constrained(roots),
        edges |-> [k \in DOMAIN selection |->
                     Constrained(IndexOf(snapshots)[k][selection[k]].dependencies)]]

\* locked_provider_identities: the digest is part of the identity.
LockedReleases(lock, snapshots) ==
    {<<k, lock.packages[k]>> : k \in
        {j \in DOMAIN lock.packages :
            /\ RegistryOf[j] \in DOMAIN snapshots
            /\ snapshots[RegistryOf[j]] = lock.snapshots[RegistryOf[j]]}}

\* Variant: the roots are not compared with the manifests.
LockMatches_StaleRoots(lock, roots, snapshots) ==
    LET index == IndexOf(snapshots) IN
    /\ lock.requests = Constrained(roots)
    /\ \A k \in DOMAIN lock.packages :
          /\ k \in DOMAIN index
          /\ lock.packages[k] \in DOMAIN index[k]
          /\ LET requests == index[k][lock.packages[k]].dependencies
             IN /\ lock.edges[k] = Constrained(requests)
                /\ \A c \in requests : lock.packages[c.package] \in c.versions

\* resolution_from_lock, up to the walk over its packages: what the lockfile
\* says must still satisfy the manifests and the locked snapshots.
LockMatches(lock, roots, snapshots) ==
    LET index == IndexOf(snapshots) IN
    /\ lock.requests = Constrained(roots)
    /\ \A c \in roots : lock.packages[c.package] \in c.versions
    /\ \A k \in DOMAIN lock.packages :
          /\ k \in DOMAIN index
          /\ lock.packages[k] \in DOMAIN index[k]
          /\ LET requests == index[k][lock.packages[k]].dependencies
             IN /\ lock.edges[k] = Constrained(requests)
                /\ \A c \in requests : lock.packages[c.package] \in c.versions
-----------------------------------------------------------------------------
Idle == [phase |-> "idle", mode |-> "update", roots |-> {}, prior |-> NoLock,
         todo |-> {}, snapshots |-> Empty, resolution |-> NoLock]

Init == /\ SolverInit
        /\ walk = NoWalk
        /\ catalog \in Catalogs
        /\ manifest \in Manifests
        /\ config = [r \in Registries |-> 1]
        /\ published = Registries \X Digests
        /\ cached = {}
        /\ lockfile = NoLock
        /\ build = Idle
        /\ builds = 0
        /\ edits = 0

Running == build.phase \notin {"idle", "succeeded", "failed"}
At(phase) == build.phase = phase
Goto(phase) == build' = [build EXCEPT !.phase = phase]
World == UNCHANGED <<projectVars, builds, edits>>
Project == World /\ UNCHANGED walk
Files == UNCHANGED <<cached, lockfile>>

\* An error is reported; nothing of the build is left but what it published.
Give_up == /\ build' = [Idle EXCEPT !.phase = "failed"]
           /\ Return
           /\ Files
           /\ Project

\* A walk over packages has been reported on.
Walked(outcomes) == walk.outcome \in outcomes /\ walk' = NoWalk

\* A project without registry requirements is prepared by doing nothing.
Start(mode) ==
    /\ ~Running
    /\ builds < MaxBuilds
    /\ builds' = builds + 1
    /\ build' = [Idle EXCEPT !.mode = mode, !.roots = manifest,
                   !.phase = IF manifest = {} THEN "apply" ELSE "read",
                   !.resolution.present = TRUE]
    /\ UNCHANGED <<solverVars, walk, projectVars, cached, lockfile, edits>>

\* read_prior_lock: updates do without a lockfile they cannot parse.
ReadPriorLock ==
    /\ At("read")
    /\ LET usable == lockfile.present /\ Parses(lockfile)
           prior == IF usable THEN lockfile ELSE NoLock
       IN IF build.mode = "update" \/ usable
          THEN build' = [build EXCEPT
                           !.phase = "load", !.prior = prior,
                           !.todo = {RegistryOf[c.package] : c \in build.roots}
                                    \cup IF build.mode = "update" THEN {}
                                         ELSE DOMAIN prior.snapshots]
          ELSE build' = [Idle EXCEPT !.phase = "failed"]
    /\ UNCHANGED <<solverVars, cached, lockfile>>
    /\ Project

\* selected_snapshot: the digest comes from the configuration, or from the
\* lockfile in the locked modes; there may be none.
SelectedSnapshots(r) ==
    IF build.mode = "update" THEN {<<r, config[r]>>}
    ELSE {<<r, build.prior.snapshots[r]>> : x \in {r} \cap DOMAIN build.prior.snapshots}

Obtained(snapshot) ==
    LET r == snapshot[1] IN
    build' = [build EXCEPT !.todo = @ \ {r},
                           !.snapshots = [q \in DOMAIN @ \cup {r} |->
                                             IF q = r THEN snapshot[2] ELSE @[q]]]

\* load_snapshot: the cache answers if its blob is intact; otherwise the
\* endpoint does, unless the build is frozen, and the blob is published.
LoadFromCache(r) ==
    /\ At("load")
    /\ r \in build.todo
    /\ \E snapshot \in SelectedSnapshots(r) \cap cached : Obtained(snapshot)
    /\ UNCHANGED <<solverVars, cached, lockfile>>
    /\ Project

LoadFromEndpoint(r) ==
    /\ At("load")
    /\ r \in build.todo
    /\ build.mode # "frozen"
    /\ \E snapshot \in (SelectedSnapshots(r) \ cached) \cap published :
          /\ Obtained(snapshot)
          /\ cached' = cached \cup {snapshot}
    /\ UNCHANGED <<solverVars, lockfile>>
    /\ Project

LoadFails(r) ==
    /\ At("load")
    /\ r \in build.todo
    /\ SelectedSnapshots(r) \cap (cached \cup IF build.mode = "frozen" THEN {}
                                              ELSE published) = {}
    /\ Give_up

\* Update: the search over the snapshots loaded so far.
StartSearch ==
    /\ At("load")
    /\ build.todo = {}
    /\ build.mode = "update"
    /\ Resolve(ProblemOf(build.roots, build.snapshots,
                         LockedReleases(build.prior, build.snapshots)))
    /\ Goto("search")
    /\ Files
    /\ Project

Search == At("search") /\ SearchStep /\ UNCHANGED build /\ Files /\ Project

\* When all that is required is selected, reject_registry_cycles walks over
\* it from every package.
SelectedGraph == [k \in DOMAIN Top.selected |->
                    Constrained(Needs(problem, k, Top.selected[k]))]

LookForCycles ==
    /\ At("search") /\ Complete /\ walk = NoWalk
    /\ BeginWalk(SelectedGraph, DOMAIN Top.selected)
    /\ UNCHANGED <<solverVars, build>> /\ Files /\ World

Walk == /\ WalkStep(Packages)
        /\ UNCHANGED <<solverVars, build>> /\ Files /\ World

CycleFound == /\ At("search") /\ Walked({"cycle"}) /\ RefuseGraph
              /\ UNCHANGED build /\ Files /\ World

NoCycleFound == /\ At("search") /\ Walked({"complete"}) /\ TakeGraph
                /\ UNCHANGED build /\ Files /\ World

SearchFound ==
    /\ At("search")
    /\ answer.kind = "found"
    /\ build' = [build EXCEPT !.phase = "apply",
                   !.resolution = LockOf(build.roots, answer.selected, build.snapshots)]
    /\ Return /\ Files /\ Project

\* A search that ends with a missing snapshot is repeated with it.
SearchLacks ==
    /\ At("search")
    /\ answer.kind = "missing snapshot"
    /\ answer.lacking \cap DOMAIN build.snapshots = {}
    /\ build' = [build EXCEPT !.phase = "load", !.todo = answer.lacking]
    /\ Return /\ Files /\ Project

SearchFails == /\ At("search")
               /\ answer.kind \notin {"open", "found", "missing snapshot"}
               /\ Give_up

\* Locked modes: no search.  validate_locked_closure walks from the roots over
\* the packages of a lockfile that matches ...
ValidateLocked ==
    /\ At("load")
    /\ build.todo = {}
    /\ build.mode # "update"
    /\ IF LockMatches(build.prior, build.roots, build.snapshots)
       THEN Goto("walk") /\ BeginWalk(build.prior.edges, build.prior.requests)
       ELSE build' = [Idle EXCEPT !.phase = "failed"] /\ UNCHANGED walk
    /\ UNCHANGED solverVars /\ Files /\ World

\* ... and must reach all of them.  What is rebuilt from an accepted lockfile
\* is what the lockfile says.
TakeLocked ==
    /\ At("walk")
    /\ walk.visited = DOMAIN build.prior.packages
    /\ Walked({"complete"})
    /\ build' = [build EXCEPT !.phase = "apply", !.resolution = build.prior]
    /\ UNCHANGED solverVars /\ Files /\ World

RefuseLocked ==
    /\ At("walk")
    /\ \/ Walked({"cycle"})
       \/ walk.visited # DOMAIN build.prior.packages /\ Walked({"complete"})
    /\ build' = [Idle EXCEPT !.phase = "failed"]
    /\ UNCHANGED solverVars /\ Files /\ World

\* write_lockfile_if_changed compares, then replaces the file.
CompareLock ==
    /\ At("apply")
    /\ build.mode = "update"
    /\ Goto(IF lockfile = build.resolution THEN "succeeded" ELSE "write")
    /\ UNCHANGED solverVars /\ Files /\ Project

WriteLock == /\ At("write")
             /\ lockfile' = build.resolution
             /\ Goto("succeeded")
             /\ UNCHANGED <<solverVars, cached>>
             /\ Project

\* The locked modes read the lockfile again.
CheckLock ==
    /\ At("apply")
    /\ build.mode # "update"
    /\ IF lockfile.present /\ Parses(lockfile) /\ lockfile = build.resolution
       THEN Goto("succeeded")
       ELSE build' = [Idle EXCEPT !.phase = "failed"]
    /\ UNCHANGED solverVars /\ Files /\ Project

\* An I/O error, a source that cannot be verified, or a kill ends a build.  A
\* build that searches or walks works in memory alone: a kill then, or a step
\* of another process, is the same as one before it.
Abort == Running /\ build.phase \notin {"search", "walk"} /\ Give_up
-----------------------------------------------------------------------------
Edit == /\ edits < MaxEdits
        /\ edits' = edits + 1
        /\ build.phase \notin {"search", "walk"}
        /\ UNCHANGED <<solverVars, walk, catalog, build, builds>>

EditManifest == /\ Edit
                /\ manifest' \in Manifests \ {manifest}
                /\ UNCHANGED <<config, published, cached, lockfile>>

AdoptSnapshot(r) == /\ Edit
                    /\ \E d \in Digests \ {config[r]} :
                          config' = [config EXCEPT ![r] = d]
                    /\ UNCHANGED <<manifest, published, cached, lockfile>>

WithdrawSnapshot == /\ Edit
                    /\ \E s \in published : published' = published \ {s}
                    /\ UNCHANGED <<manifest, config, cached, lockfile>>

DamageBlob == /\ Edit
              /\ \E s \in cached : cached' = cached \ {s}
              /\ UNCHANGED <<manifest, config, published, lockfile>>

ReplaceLock == /\ Edit
               /\ lockfile' \in ({NoLock} \cup OtherLocks(catalog)) \ {lockfile}
               /\ UNCHANGED <<manifest, config, published, cached>>

Next == \/ \E mode \in {"update", "locked", "frozen"} : Start(mode)
        \/ ReadPriorLock
        \/ \E r \in Registries : LoadFromCache(r) \/ LoadFromEndpoint(r) \/ LoadFails(r)
        \/ StartSearch \/ Search \/ LookForCycles \/ Walk \/ CycleFound \/ NoCycleFound
        \/ SearchFound \/ SearchLacks \/ SearchFails
        \/ ValidateLocked \/ TakeLocked \/ RefuseLocked
        \/ CompareLock \/ WriteLock \/ CheckLock \/ Abort
        \/ EditManifest \/ WithdrawSnapshot \/ DamageBlob \/ ReplaceLock
        \/ \E r \in Registries : AdoptSnapshot(r)

Spec == Init /\ [][Next]_vars
-----------------------------------------------------------------------------
Updated == At("succeeded") /\ build.mode = "update" /\ build.roots # {}
TookLock == At("succeeded") /\ build.mode # "update" /\ build.roots # {}

\* A walk never leaves the graph; when it has ended, it has found a cycle
\* exactly if there is one, or every package exactly if the roots lead to all,
\* in whatever order it went (reject_registry_cycles, which indexes selected;
\* validate_locked_closure, "locked graph references missing provider").
WalksAreExact ==
    /\ walk.outcome = "open" => Ahead \subseteq DOMAIN walk.edges
    /\ walk.outcome \in {"cycle", "complete"} =>
        /\ At("search") => (walk.outcome = "cycle" <=> Cyclic(problem, Top.selected))
        /\ At("walk") => (/\ walk.outcome = "complete"
                          /\ walk.visited = DOMAIN build.prior.packages
                          <=> ValidClosure(build.prior.edges, build.prior.requests))

\* A build in a locked mode compiles packages that resolve the manifests it
\* read, by the snapshots the lockfile names, with nothing spare, although it
\* never searches; only yanks are not looked at (resolution_from_lock).
LockedBuildIsSound ==
    TookLock =>
        LET selection == build.resolution.packages
            locked == {<<k, selection[k]>> : k \in DOMAIN selection}
            p == ProblemOf(build.roots, build.resolution.snapshots, locked)
        IN Resolves(p, selection) /\ NothingSpare(p, selection)

\* What an update writes is a lockfile the locked modes accept, as long as
\* the manifests are the ones it resolved (from_graph_root_with_registry,
\* resolution_from_lock).
UpdateLocksAreAccepted ==
    Updated => /\ Parses(build.resolution)
               /\ LockMatches(build.resolution, build.roots, build.resolution.snapshots)
               /\ ValidClosure(build.resolution.edges, build.resolution.requests)

\* An update selects the highest graph that all configured registries offer
\* (docs/project/dependency-resolution.md: "yielding the highest graph under
\* that deterministic decision order").
HighestGraph ==
    At("search") /\ answer.kind = "found" =>
        Highest([problem EXCEPT !.loaded = Registries, !.index = IndexOf(config)])
=============================================================================
