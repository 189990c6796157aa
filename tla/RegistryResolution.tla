------------------------- MODULE RegistryResolution -------------------------
(***************************************************************************)
(* The backtracking search of compiler/src/registry.rs that chooses one    *)
(* release of every registry package a project needs.                      *)
(*                                                                         *)
(* A package is a (registry, name) key; keys are numbered in the order of  *)
(* the code's BTreeMap.  A requirement asks for a package in one of a set  *)
(* of versions.  The recursion of solve_registry_constraints is the        *)
(* sequence frames: one frame for each call that has not returned, the     *)
(* innermost last.  An Ok result leaves the frames as they are: they are   *)
(* the decisions the answer rests on.                                      *)
(***************************************************************************)
EXTENDS Naturals, Sequences

CONSTANTS Packages,      \* registry package keys, numbered in key order
          Versions,      \* release versions, numbered in version order
          Registries,
          RegistryOf,    \* the registry of each package
          AttemptLimit   \* REGISTRY_RESOLUTION_ATTEMPT_LIMIT

ASSUME ResolutionAssumption == /\ Packages \subseteq Nat \ {0}
                               /\ Versions \subseteq Nat
                               /\ RegistryOf \in [Packages -> Registries]
                               /\ AttemptLimit \in Nat

Undecided == 0           \* the package of a call that has not chosen one

VARIABLES problem,    \* what is to be resolved
          frames,     \* the calls of solve_registry_constraints
          attempts,   \* candidates tried so far
          answer      \* what the search has returned

solverVars == <<problem, frames, attempts, answer>>

Requirement == [package : Packages, versions : SUBSET Versions]
Release == [dependencies : SUBSET Requirement, yanked : BOOLEAN]
Selections == UNION {[S -> Versions] : S \in SUBSET Packages}

\* What snapshots list: some releases of some packages.
Listings == UNION {[V -> Release] : V \in SUBSET Versions}
Indexes == UNION {[S -> Listings] : S \in SUBSET Packages}

\* roots: requirements of the manifests; loaded: registries whose snapshot
\* is supplied; index: the releases each snapshot lists; locked: releases
\* whose complete identity is in the previous lockfile.
Problem == [roots  : SUBSET Requirement,
            loaded : SUBSET Registries,
            index  : Indexes,
            locked : SUBSET (Packages \X Versions)]

Loaded(p, k) == RegistryOf[k] \in p.loaded
Available(p, k) == Loaded(p, k) /\ k \in DOMAIN p.index
Needs(p, k, v) == p.index[k][v].dependencies

\* A yanked release is eligible only if it was locked before.
Eligible(p, k, v) == /\ Available(p, k)
                     /\ v \in DOMAIN p.index[k]
                     /\ p.index[k][v].yanked => <<k, v>> \in p.locked

Constrained(requirements) == {c.package : c \in requirements}
Matches(requirements, k, v) ==
    \A c \in requirements : c.package = k => v \in c.versions

\* What reject_registry_cycles looks for: some packages all depend on one of
\* themselves.
Cyclic(p, s) ==
    \E C \in SUBSET DOMAIN s :
        /\ C # {}
        /\ \A k \in C : \E c \in Needs(p, k, s[k]) : c.package \in C
-----------------------------------------------------------------------------
Empty == [k \in {} |-> 0]
Extend(s, k, v) == [j \in DOMAIN s \cup {k} |-> IF j = k THEN v ELSE s[j]]

Call(requirements, s) == [constraints |-> requirements, selected |-> s,
                          package |-> Undecided, left |-> {}, failure |-> "none",
                          lacking |-> {}]

Open == [kind |-> "open", lacking |-> {}, selected |-> Empty]
Found(s) == [kind |-> "found", lacking |-> {}, selected |-> s]

\* lacking: the registry a MissingSnapshot error names.
Failed(kind, lacking) == [kind |-> kind, lacking |-> lacking, selected |-> Empty]

\* resolve_registry_dependencies: every root's snapshot must be supplied.
Unsupplied(p) == {RegistryOf[c.package] : c \in p.roots} \ p.loaded

NoProblem == [roots |-> {}, loaded |-> {}, index |-> Empty, locked |-> {}]

SolverInit == /\ problem = NoProblem
              /\ frames = << >>
              /\ attempts = 0
              /\ answer = Failed("idle", {})

Resolve(p) ==
    /\ answer.kind # "open"
    /\ problem' = p
    /\ attempts' = 0
    /\ IF Unsupplied(p) = {}
       THEN frames' = <<Call(p.roots, Empty)>> /\ answer' = Open
       ELSE /\ frames' = << >>
            /\ \E r \in Unsupplied(p) : answer' = Failed("missing snapshot", {r})

\* The caller has taken the answer.
Return == /\ answer.kind # "open"
          /\ problem' = NoProblem
          /\ frames' = << >>
          /\ attempts' = 0
          /\ answer' = Failed("idle", {})

Depth == Len(frames)
Top == frames[Depth]
Searching == answer.kind = "open"
Entered == Searching /\ Top.package = Undecided
Deciding == Searching /\ Top.package # Undecided

\* An error returns to the caller, which remembers it and goes on to its
\* next candidate.
Fail(kind, lacking) ==
    /\ frames' = [i \in 1..(Depth - 1) |->
                     IF i = Depth - 1
                     THEN [frames[i] EXCEPT !.failure = kind, !.lacking = lacking]
                     ELSE frames[i]]
    /\ answer' = IF Depth = 1 THEN Failed(kind, lacking) ELSE Open
    /\ UNCHANGED <<problem, attempts>>

ReplaceTop(frame) == frames' = [frames EXCEPT ![Depth] = frame]

\* Variant: only what the package decided last is required to be is looked at.
Conflict_Innermost ==
    /\ Depth > 1
    /\ LET k == frames[Depth - 1].package IN ~Matches(Top.constraints, k, Top.selected[k])

Conflict == ~ \A k \in DOMAIN Top.selected :
                  Matches(Top.constraints, k, Top.selected[k])
Undecideds == Constrained(Top.constraints) \ DOMAIN Top.selected

\* A selected release no longer matches what has come to be required of it.
RejectConflict == Entered /\ Conflict /\ Fail("no compatible version", {})

\* Everything that is required is selected.
Complete == Entered /\ ~Conflict /\ Undecideds = {}

RefuseGraph == Complete /\ Fail("cycle", {})
TakeGraph == /\ Complete
             /\ answer' = Found(Top.selected)
             /\ UNCHANGED <<problem, frames, attempts>>

RejectCycle == RefuseGraph /\ Cyclic(problem, Top.selected)
Succeed == TakeGraph /\ ~Cyclic(problem, Top.selected)

\* The first package, in key order, that is required and not selected.
FirstUndecided(k) == /\ Entered
            /\ ~Conflict
            /\ k \in Undecideds
            /\ \A j \in Undecideds : k <= j

RejectMissing(k) ==
    /\ FirstUndecided(k)
    /\ ~Available(problem, k)
    /\ IF Loaded(problem, k) THEN Fail("missing package", {})
                             ELSE Fail("missing snapshot", {RegistryOf[k]})

ChoosePackage(k) ==
    /\ FirstUndecided(k)
    /\ Available(problem, k)
    /\ ReplaceTop([Top EXCEPT !.package = k, !.left = DOMAIN problem.index[k]])
    /\ UNCHANGED <<problem, attempts, answer>>

\* The releases are tried from the highest version down.
Candidate(v) == /\ Deciding
                /\ v \in Top.left
                /\ \A w \in Top.left : w <= v

Usable(v) == /\ Matches(Top.constraints, Top.package, v)
             /\ Eligible(problem, Top.package, v)

SkipRelease(v) ==
    /\ Candidate(v)
    /\ ~Usable(v)
    /\ ReplaceTop([Top EXCEPT !.left = @ \ {v}])
    /\ UNCHANGED <<problem, attempts, answer>>

\* Running out of attempts ends the whole search.
ExceedLimit(v) ==
    /\ Candidate(v)
    /\ Usable(v)
    /\ attempts >= AttemptLimit
    /\ answer' = Failed("limit", {})
    /\ attempts' = attempts + 1
    /\ UNCHANGED <<problem, frames>>

Attempt(v) == /\ Candidate(v)
              /\ Usable(v)
              /\ attempts < AttemptLimit
              /\ attempts' = attempts + 1
              /\ UNCHANGED <<problem, answer>>

LackingSnapshots(v) ==
    {RegistryOf[c.package] : c \in Needs(problem, Top.package, v)} \ problem.loaded

\* Variant: the call returns the error and tries no lower release.
RefuseRelease_Final(v) ==
    /\ Candidate(v) /\ Usable(v)
    /\ \E r \in LackingSnapshots(v) : Fail("missing snapshot", {r})

\* A release that depends on a registry whose snapshot is not supplied is
\* passed over; the error names the first such dependency, any of them here.
RefuseRelease(v) ==
    /\ Attempt(v)
    /\ \E r \in LackingSnapshots(v) :
         ReplaceTop([Top EXCEPT !.left = @ \ {v}, !.failure = "missing snapshot",
                                !.lacking = {r}])

TryRelease(v) ==
    /\ Attempt(v)
    /\ LackingSnapshots(v) = {}
    /\ frames' = Append([frames EXCEPT ![Depth].left = @ \ {v}],
                        Call(Top.constraints \cup Needs(problem, Top.package, v),
                             Extend(Top.selected, Top.package, v)))

\* Every candidate has failed: the last error is the result.
Exhaust == /\ Deciding
           /\ Top.left = {}
           /\ IF Top.failure = "none" THEN Fail("no compatible version", {})
                                      ELSE Fail(Top.failure, Top.lacking)

\* The search, but for the graphs it has completed.
SearchStep == \/ RejectConflict
              \/ \E k \in Packages : RejectMissing(k) \/ ChoosePackage(k)
              \/ \E v \in Versions : \/ SkipRelease(v)
                                     \/ ExceedLimit(v)
                                     \/ RefuseRelease(v)
                                     \/ TryRelease(v)
              \/ Exhaust

SolverStep == SearchStep \/ RejectCycle \/ Succeed

SolverNext == SolverStep \/ Return \/ \E p \in Problem : Resolve(p)
SolverSpec == SolverInit /\ [][SolverNext]_solverVars
-----------------------------------------------------------------------------
\* What a resolution has to be: roots included, closed under dependencies,
\* one eligible release of each package, no cycle.
Resolves(p, s) ==
    /\ \A c \in p.roots : c.package \in DOMAIN s /\ s[c.package] \in c.versions
    /\ \A k \in DOMAIN s :
          /\ Eligible(p, k, s[k])
          /\ \A c \in Needs(p, k, s[k]) :
                c.package \in DOMAIN s /\ s[c.package] \in c.versions
    /\ ~Cyclic(p, s)

\* Only what the roots lead to is selected.
NothingSpare(p, s) ==
    \A T \in SUBSET DOMAIN s :
        (/\ Constrained(p.roots) \subseteq T
         /\ \A k \in T : Constrained(Needs(p, k, s[k])) \subseteq T)
        => T = DOMAIN s

Agrees(s, partial) ==
    \A k \in DOMAIN partial : k \in DOMAIN s /\ s[k] = partial[k]

\* No resolution of p takes a higher version where the search decided,
\* given what it had decided before.
Highest(p) ==
    \A s \in Selections : Resolves(p, s) =>
        \A i \in 1..(Depth - 1) :
            Agrees(s, frames[i].selected) =>
                s[frames[i].package] <= answer.selected[frames[i].package]

\* A search that succeeds returns a resolution, with nothing spare in it,
\* and the highest one in the order of its decisions
\* (solve_registry_constraints).
SelectionIsBest ==
    answer.kind = "found" =>
        /\ answer.selected \in Selections
        /\ Resolves(problem, answer.selected)
        /\ NothingSpare(problem, answer.selected)
        /\ Highest(problem)

\* A search that fails, but for the attempt limit, fails because nothing
\* resolves the problem: backtracking passes over no solution, and the limit
\* is not mistaken for a conflict (solve_registry_constraints).
FailureIsReal ==
    answer.kind \notin {"open", "found", "limit", "idle"} =>
        \A s \in Selections : ~Resolves(problem, s)
=============================================================================
