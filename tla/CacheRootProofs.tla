-------------------------- MODULE CacheRootProofs --------------------------
(* The claiming of a cache root, for every number of invocations and kills. *)
EXTENDS CacheRoot, TLAPS

(* Every step of an open keeps the invariant.                               *)
LEMMA OpenKeepsInv == ASSUME RootInv, NEW o \in Openers, Open(o)
                      PROVE  RootInv'
<1> DEFINE Safe(p) == /\ pc[p] \in {"stat", "list", "statAgain", "write", "rename"}
                             \/ outcome[p] = "opened" => root = "directory"
                      /\ outcome[p] = "opened" => marker = "valid"
                      /\ pc[p] \in {"write", "rename"} => marker = "valid" \/ Claimable
                      /\ pc[p] = "statAgain" => ~Claimable
                      /\ p \in markers => pc[p] \in {"rename", "crashed"}
<1>1. RootTypeOK /\ \A p \in Openers : Safe(p)
  BY DEF RootInv
<1> USE DEF RootTypeOK, Claimable, Goto, Return
<1>2. RootTypeOK'
  <2>1. CASE EnsureRoot(o)
    BY <1>1, <2>1 DEF EnsureRoot
  <2>2. CASE StatMarker(o)
    BY <1>1, <2>2 DEF StatMarker
  <2>3. CASE ListRoot(o) \/ StatAgain(o)
    BY <1>1, <2>3 DEF ListRoot, StatAgain
  <2>4. CASE WriteMarker(o)
    BY <1>1, <2>4 DEF WriteMarker
  <2>5. CASE RenameMarker(o) \/ MarkerFails(o)
    BY <1>1, <2>5 DEF RenameMarker, MarkerFails
  <2>6. CASE Fill(o) \/ Crash(o)
    BY <1>1, <2>6 DEF Fill, Crash
  <2>7. QED
    BY <2>1, <2>2, <2>3, <2>4, <2>5, <2>6 DEF Open
<1>3. ASSUME NEW p \in Openers
      PROVE  Safe(p)'
  <2>1. CASE EnsureRoot(o)
    BY <1>1, <2>1 DEF EnsureRoot
  <2>2. CASE StatMarker(o)
    BY <1>1, <2>2 DEF StatMarker
  <2>3. CASE ListRoot(o) \/ StatAgain(o)
    BY <1>1, <2>3 DEF ListRoot, StatAgain
  <2>4. CASE WriteMarker(o)
    BY <1>1, <2>4 DEF WriteMarker
  <2>5. CASE RenameMarker(o)
    BY <1>1, <2>5 DEF RenameMarker
  <2>6. CASE MarkerFails(o)
    BY <1>1, <2>6 DEF MarkerFails
  <2>7. CASE Fill(o) \/ Crash(o)
    BY <1>1, <2>7 DEF Fill, Crash
  <2>8. QED
    BY <2>1, <2>2, <2>3, <2>4, <2>5, <2>6, <2>7 DEF Open
<1>4. QED
  BY <1>2, <1>3 DEF RootInv

(* An opened root carries the marker; one that is full without it stays.    *)
THEOREM RootInvariant == Spec => []RootInv
<1>1. Init => RootInv
  BY RootAssumption DEF Init, RootInv, RootTypeOK, Claimable
<1>2. ASSUME RootInv, [Next]_vars
      PROVE  RootInv'
  <2>1. CASE Next
    BY <1>2, <2>1, OpenKeepsInv DEF Next
  <2>2. CASE UNCHANGED vars
    BY <1>2, <2>2 DEF RootInv, RootTypeOK, Claimable, vars
  <2>3. QED
    BY <1>2, <2>1, <2>2
<1>3. QED
  BY <1>1, <1>2, PTL DEF Spec

(* Types, and that a root that is not a directory holds nothing.            *)
THEOREM RootTyped == Spec => []RootTypeOK
<1>1. RootInv => RootTypeOK
  BY DEF RootInv
<1>2. QED
  BY <1>1, RootInvariant, PTL

(* An open that returns leaves no private marker.                           *)
THEOREM NothingOfTheMarkerLeft == Spec => []NoMarkerLeft
<1>1. RootInv => NoMarkerLeft
  BY DEF RootInv, NoMarkerLeft
<1>2. QED
  BY <1>1, RootInvariant, PTL

(* The marker only ever enters a directory that holds nothing, and whoever  *)
(* opens the root finds it there.                                           *)
THEOREM OnlyItsOwnIsClaimed == Spec => ClaimsOnlyItsOwn
<1> DEFINE Claims == /\ marker' # marker => marker = "absent" /\ ~contents /\ marker' = "valid"
                     /\ \A o \in Openers : outcome'[o] = "opened" /\ outcome[o] # "opened"
                                               => marker' = "valid"
<1>1. ASSUME RootInv, NEW o \in Openers, Open(o)
      PROVE  Claims
  BY <1>1 DEF RootInv, RootTypeOK, Claimable, Open, EnsureRoot, StatMarker, ListRoot, StatAgain,
     WriteMarker, RenameMarker, MarkerFails, Fill, Crash, Goto, Return
<1>2. RootInv /\ [Next]_vars => [Claims]_vars
  BY <1>1 DEF Next
<1>3. QED
  BY <1>2, RootInvariant, PTL DEF Spec, ClaimsOnlyItsOwn

(* Nobody is refused a root that is fresh or the compiler's, at whatever    *)
(* moment of the others' opens it looks.                                    *)
THEOREM OwnedRootIsOpened == Spec => OwnedRootOpens
<1> DEFINE Refused == \A o \in Openers : outcome'[o] = "refused" /\ outcome[o] = "opening"
                => root = "other" \/ marker = "foreign" \/ (marker = "absent" /\ contents)
<1>1. ASSUME RootInv, NEW o \in Openers, Open(o)
      PROVE  Refused
  BY <1>1 DEF RootInv, RootTypeOK, Claimable, Open, EnsureRoot, StatMarker, ListRoot, StatAgain,
     WriteMarker, RenameMarker, MarkerFails, Fill, Crash, Goto, Return
<1>2. RootInv /\ [Next]_vars => [Refused]_vars
  BY <1>1 DEF Next
<1>3. QED
  BY <1>2, RootInvariant, PTL DEF Spec, OwnedRootOpens
=============================================================================
