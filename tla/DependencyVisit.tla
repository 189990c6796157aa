-------------------------- MODULE DependencyVisit --------------------------
(***************************************************************************)
(* The depth-first walks over a graph of selected registry packages:       *)
(* visit in reject_registry_cycles of compiler/src/registry.rs and visit   *)
(* in validate_locked_closure of compiler/src/registry_project.rs.  A      *)
(* graph maps each package to the set of packages it depends on.           *)
(*                                                                         *)
(* The recursion of visit is the sequence path: the packages whose calls   *)
(* have not returned, the innermost last; below them is the loop over the  *)
(* starting points.  A call on a package that is finished returns at once. *)
(* The order of the dependencies of a package is that of its manifest: any *)
(* order here.                                                             *)
(***************************************************************************)
EXTENDS Naturals, Sequences

VARIABLE walk

NoWalk == [edges |-> [k \in {} |-> {}], roots |-> {}, path |-> << >>, visited |-> {},
           outcome |-> "idle"]

BeginWalk(edges, roots) ==
    walk' = [edges |-> edges, roots |-> roots, path |-> << >>, visited |-> {},
             outcome |-> "open"]

Visiting == {walk.path[i] : i \in 1..Len(walk.path)}
Innermost == walk.path[Len(walk.path)]

\* Variant: a package that is being visited counts as visited.
Finished_Begun(k) == k \in walk.visited \cup Visiting

Finished(k) == k \in walk.visited

\* What the innermost call has yet to visit.
Ahead == {k \in IF walk.path = << >> THEN walk.roots ELSE walk.edges[Innermost] : ~Finished(k)}

Visits(k) == walk.outcome = "open" /\ k \in Ahead
EndWalk(outcome) == walk' = [walk EXCEPT !.outcome = outcome]

MeetCycle(k) == Visits(k) /\ k \in Visiting /\ EndWalk("cycle")

\* A package that is not in the graph would be an error, or a panic; the
\* callers have made sure that there is none.
EnterPackage(k) == /\ Visits(k)
                   /\ k \notin Visiting
                   /\ walk' = [walk EXCEPT !.path = Append(@, k)]

LeavePackage ==
    /\ walk.outcome = "open" /\ Ahead = {} /\ walk.path # << >>
    /\ walk' = [walk EXCEPT !.path = SubSeq(@, 1, Len(@) - 1),
                            !.visited = @ \cup {Innermost}]

CompleteWalk == /\ walk.outcome = "open" /\ Ahead = {} /\ walk.path = << >>
                /\ EndWalk("complete")

WalkStep(packages) ==
    \/ \E k \in packages : MeetCycle(k) \/ EnterPackage(k)
    \/ LeavePackage
    \/ CompleteWalk
-----------------------------------------------------------------------------
\* What the walks are to find out: whether some packages all depend on one of
\* themselves, and whether the starting points lead to every package.
HasCycle(edges) ==
    \E C \in SUBSET DOMAIN edges : C # {} /\ \A k \in C : edges[k] \cap C # {}

LeadsTo(edges, roots, T) == roots \subseteq T /\ \A k \in T : edges[k] \subseteq T

ValidClosure(edges, roots) ==
    /\ LeadsTo(edges, roots, DOMAIN edges)
    /\ ~HasCycle(edges)
    /\ \A T \in SUBSET DOMAIN edges : LeadsTo(edges, roots, T) => T = DOMAIN edges
=============================================================================
