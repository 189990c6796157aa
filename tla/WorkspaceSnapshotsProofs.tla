--------------------- MODULE WorkspaceSnapshotsProofs ---------------------
(* Proofs about the workspace session for every graph of documents, every  *)
(* set of texts and versions and every revision limit.                     *)
EXTENDS WorkspaceSnapshots, WorkspaceSessionProofs, TLAPS

(* GateSound is not inductive: a captured snapshot with an id above the    *)
(* current revision would become "current" later.  No such id exists.      *)
CapturedFromThePast == \A s \in captured : s.id <= revision

SnapshotsInv == SnapshotsTypeOK /\ CapturedFromThePast /\ GateSound

-----------------------------------------------------------------------------
LEMMA SnapshotsInvStep ==
    ASSUME SnapshotsInv, [Next]_snapshotVars
    PROVE  SnapshotsInv'
<1> USE DEF SnapshotsInv, SnapshotsTypeOK, CapturedFromThePast, GateSound, IsCurrent
<1>1. CASE SessionNext /\ UNCHANGED captured
  <2>1. SessionTypeOK' /\ revision' = revision + 1
    BY <1>1, MutationAdvances
  <2>2. \A s \in captured : s.id \in Int /\ s.id < revision'
    BY <2>1, RevisionAssumption DEF SessionTypeOK, Revision, WorkspaceSnapshot
  <2>3. revision \in Int /\ revision' \in Int
    BY <2>1, RevisionAssumption DEF SessionTypeOK, Revision
  <2>4. QED
    BY <1>1, <2>1, <2>2, <2>3
<1>2. CASE TakeSnapshot
  <2>1. Snapshot' = Snapshot /\ SessionTypeOK'
    BY <1>2 DEF TakeSnapshot, sessionVars, Snapshot, VisibleText, ClientVersion,
                IsOpen, SessionTypeOK
  <2>2. Snapshot \in WorkspaceSnapshot /\ Snapshot.id = revision
    BY SnapshotType DEF Snapshot
  <2>3. revision' = revision /\ revision \in Int
    BY <1>2, RevisionAssumption DEF TakeSnapshot, sessionVars, SessionTypeOK, Revision
  <2>4. QED
    BY <1>2, <2>1, <2>2, <2>3 DEF TakeSnapshot
<1>3. CASE \E s \in captured : AcceptAnalysis(s)
  BY <1>3 DEF AcceptAnalysis, sessionVars, Snapshot, VisibleText, ClientVersion,
              IsOpen, SessionTypeOK
<1>4. CASE UNCHANGED snapshotVars
  BY <1>4 DEF snapshotVars, Snapshot, VisibleText, ClientVersion, IsOpen, SessionTypeOK
<1>5. QED
  BY <1>1, <1>2, <1>3, <1>4 DEF Next

LEMMA SnapshotsInvariant == Spec => []SnapshotsInv
<1>1. Init => SnapshotsInv
  BY RevisionAssumption DEF Init, SessionInit, SnapshotsInv, SnapshotsTypeOK, SessionTypeOK,
     Revision, CapturedFromThePast, GateSound
<1>2. SnapshotsInv /\ [Next]_snapshotVars => SnapshotsInv'
  BY SnapshotsInvStep
<1>3. QED
  BY <1>1, <1>2, PTL DEF Spec

(* No result of an analysis of older text ever passes the publication gate *)
(* (accept_analysis), for any revision limit.                              *)
THEOREM GateIsSound == Spec => []GateSound
BY SnapshotsInvariant, PTL DEF SnapshotsInv

(* The revision stays within the counter's range.                          *)
THEOREM SnapshotsTyped == Spec => []SnapshotsTypeOK
BY SnapshotsInvariant, PTL DEF SnapshotsInv

-----------------------------------------------------------------------------
(* What an operation on one document does to any other: nothing.  To its   *)
(* own, only if it is editable.                                            *)
Untouched(e) == openDocuments'[e] = openDocuments[e] /\ baseline'[e] = baseline[e]

LEMMA MutationIsLocal ==
    ASSUME SessionTypeOK, SessionNext
    PROVE  \E d \in Editable :
             /\ \A e \in Document \ {d} : Untouched(e)
             /\ \/ openDocuments'[d] = openDocuments[d]
                \/ openDocuments[d] = NotOpen
                \/ openDocuments'[d] = NotOpen
                \/ openDocuments'[d].version > openDocuments[d].version
<1> USE DEF SessionTypeOK, Untouched
<1>1. PICK d \in Document :
        \/ \E v \in Version, t \in Text : OpenDocument(d, v, t)
        \/ \E v \in Version, t \in Text : ChangeDocument(d, v, t)
        \/ CloseDocument(d)
        \/ \E t \in Text \cup {NoText} : SaveDocument(d, t)
        \/ \E t \in Text : UpdateBaseline(d, t)
  BY DEF SessionNext
<1>2. CASE \E v \in Version, t \in Text : OpenDocument(d, v, t)
  BY <1>2 DEF OpenDocument, CanOpen, IsOpen, SetOverlay
<1>3. CASE \E v \in Version, t \in Text : ChangeDocument(d, v, t)
  BY <1>3, DocumentAssumption DEF ChangeDocument, CanChange, IsOpen, SetOverlay, Overlay
<1>4. CASE CloseDocument(d)
  BY <1>4 DEF CloseDocument, CanClose
<1>5. CASE \E t \in Text \cup {NoText} : SaveDocument(d, t)
  BY <1>5 DEF SaveDocument, CanSave
<1>6. CASE \E t \in Text : UpdateBaseline(d, t)
  BY <1>6 DEF UpdateBaseline, CanUpdateBaseline
<1>7. QED
  BY <1>1, <1>2, <1>3, <1>4, <1>5, <1>6

LEMMA StepMutates ==
    ASSUME [Next]_snapshotVars
    PROVE  SessionNext \/ UNCHANGED sessionVars
BY DEF Next, TakeSnapshot, AcceptAnalysis, snapshotVars, sessionVars

(* No sequence of requests changes what analysis sees of a document of a   *)
(* dependency package (require_editable_document).                         *)
THEOREM DependenciesAreUntouched == Spec => ReadOnlyUntouched
<1>1. ASSUME SnapshotsInv, [Next]_snapshotVars
      PROVE  \A d \in Document \ Editable : VisibleText(d)' = VisibleText(d)
  <2> SUFFICES ASSUME NEW d \in Document \ Editable
               PROVE  VisibleText(d)' = VisibleText(d)
    OBVIOUS
  <2>1. SessionTypeOK
    BY <1>1 DEF SnapshotsInv, SnapshotsTypeOK
  <2>2. CASE SessionNext
    BY <2>1, <2>2, MutationIsLocal DEF Untouched, VisibleText, IsOpen
  <2>3. CASE UNCHANGED sessionVars
    BY <2>3 DEF sessionVars, VisibleText, IsOpen
  <2>4. QED
    BY <1>1, <2>2, <2>3, StepMutates
<1>2. QED
  BY <1>1, SnapshotsInvariant, PTL DEF Spec, ReadOnlyUntouched

(* An open document is only ever replaced by a newer version of itself:    *)
(* neither saving it nor a new baseline shows through (change_document,    *)
(* save_document, update_baseline).                                        *)
THEOREM OverlaysHide == Spec => OverlayDiscipline
<1>1. ASSUME SnapshotsInv, [Next]_snapshotVars
      PROVE  \A d \in Document :
               IsOpen(d) /\ IsOpen(d)' =>
                  \/ VisibleText(d)' = VisibleText(d) /\ ClientVersion(d)' = ClientVersion(d)
                  \/ ClientVersion(d)' > ClientVersion(d)
  <2> SUFFICES ASSUME NEW d \in Document, IsOpen(d), IsOpen(d)'
               PROVE  \/ VisibleText(d)' = VisibleText(d) /\ ClientVersion(d)' = ClientVersion(d)
                      \/ ClientVersion(d)' > ClientVersion(d)
    OBVIOUS
  <2>1. SessionTypeOK
    BY <1>1 DEF SnapshotsInv, SnapshotsTypeOK
  <2>2. CASE SessionNext
    <3>1. \/ openDocuments'[d] = openDocuments[d]
          \/ openDocuments'[d].version > openDocuments[d].version
      BY <2>1, <2>2, MutationIsLocal DEF Untouched, IsOpen
    <3>2. QED
      BY <3>1 DEF VisibleText, ClientVersion, IsOpen
  <2>3. CASE UNCHANGED sessionVars
    BY <2>3 DEF sessionVars, VisibleText, ClientVersion, IsOpen
  <2>4. QED
    BY <1>1, <2>2, <2>3, StepMutates
<1>2. QED
  BY <1>1, SnapshotsInvariant, PTL DEF Spec, OverlayDiscipline
=============================================================================
