-------------------------- MODULE MCRegistryBuilds --------------------------
(* Three packages with two releases each: the first two in one registry,    *)
(* the third in another, and a fourth that no snapshot lists.  What the     *)
(* releases depend on is chosen among graphs with conflicts, cycles and     *)
(* requests across the registries.                                          *)
EXTENDS RegistryBuilds, TLC

CONSTANTS local, remote

OwnRegistry == (1 :> local) @@ (2 :> local) @@ (3 :> remote) @@ (4 :> remote)

Either == {1, 2}
On(k, versions) == [package |-> k, versions |-> versions]

\* What the second release of package 1, and those of 2 and 3, depend on.
FirstNeeds == {{}, {On(2, {2})}, {On(2, {1}), On(3, {2})}}
SecondNeeds == {{}, {On(3, {1})}, {On(1, Either)}}
ThirdNeeds == {{}, {On(2, {1})}, {On(4, Either)}}

Releases(upper, lower, yanked) ==
    (1 :> [dependencies |-> lower, yanked |-> FALSE]) @@
    (2 :> [dependencies |-> upper, yanked |-> yanked])

Listing(first, second, third, yanked) ==
    (1 :> Releases(first, {}, FALSE)) @@
    (2 :> Releases(second, {}, yanked)) @@
    (3 :> Releases(third, {On(2, Either)}, yanked))

\* The second snapshot of a registry withdraws some releases.
SmallCatalogs == {<<Listing(first, second, third, FALSE),
                    Listing(first, second, third, TRUE)>> :
                     first \in FirstNeeds, second \in SecondNeeds, third \in ThirdNeeds}

SmallManifests == {{}, {On(1, Either)}, {On(1, {2})}, {On(1, Either), On(2, {1})},
                   {On(2, {2}), On(3, Either)}}

\* Lockfiles in which the roots are right and the rest may not be.
Lock(selection, requests, edges, r, d) ==
    [present |-> TRUE, snapshots |-> [q \in r |-> d], packages |-> selection,
     requests |-> requests, edges |-> edges]

SomeLocks(listings) ==
    {Lock((1 :> 2) @@ (2 :> v), {1}, (1 :> {2}) @@ (2 :> {}), {local}, v) : v \in Either}
    \cup {Lock((2 :> 2) @@ (3 :> 1), {2, 3}, (2 :> {3}) @@ (3 :> {2}), {local, remote}, 1),
          Lock((1 :> 1), {1}, (1 :> {2}), {local}, 1),
          Lock((1 :> 1) @@ (2 :> 1), {1}, (1 :> {}) @@ (2 :> {}), {local}, 1)}
=============================================================================
