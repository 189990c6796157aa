---------------------------- MODULE MCOwnership ----------------------------
(* A parameter that is a struct of two fields and a local, declared by a    *)
(* block, that is a tuple of two; bodies mention both as a whole and one    *)
(* field of each.                                                           *)
EXTENDS OwnershipRuns

CONSTANTS left, right, first, second

Pair == {left, right}
Item == {first, second}
OneLocal == {Item}
TwoLocals == {Pair, Item}
Halves == {{left}, {right}, {first}, {second}}
TheirPlaces == TwoLocals \cup Halves
SomePlaces == {Pair, {left}, Item, {first}}
UsedPlaces == OneLocal
ItemPlaces == {Item, {first}, {second}}
ItemFields == {{first}, {second}}
=============================================================================
