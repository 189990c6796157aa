----------------------- MODULE WorkspaceSessionProofs -----------------------
(* Facts about the operations of a workspace session, for every graph of   *)
(* documents, every set of texts and versions and every revision limit.    *)
EXTENDS WorkspaceSession, TLAPS

(* A snapshot of a well-typed session is well typed.                       *)
LEMMA SnapshotType == SessionTypeOK => Snapshot \in WorkspaceSnapshot
<1> SUFFICES ASSUME SessionTypeOK PROVE Snapshot \in WorkspaceSnapshot
  OBVIOUS
<1>1. ASSUME NEW d \in Document
      PROVE  VisibleText(d) \in Text /\ ClientVersion(d) \in Version \cup {NoVersion}
  BY <1>1, OverlayAssumption
     DEF SessionTypeOK, Overlay, IsOpen, VisibleText, ClientVersion
<1>2. QED
  BY <1>1 DEF SessionTypeOK, Snapshot, WorkspaceSnapshot

(* Every mutation of the session takes a well-typed state to a well-typed  *)
(* state and advances the revision by exactly one.                         *)
LEMMA MutationAdvances ==
    ASSUME SessionTypeOK, SessionNext
    PROVE  SessionTypeOK' /\ revision' = revision + 1
<1> USE RevisionAssumption DEF BumpRevision, CanBump, Revision, SessionTypeOK
<1>1. PICK d \in Document :
        \/ \E v \in Version, t \in Text : OpenDocument(d, v, t)
        \/ \E v \in Version, t \in Text : ChangeDocument(d, v, t)
        \/ CloseDocument(d)
        \/ \E t \in Text \cup {NoText} : SaveDocument(d, t)
        \/ \E t \in Text : UpdateBaseline(d, t)
  BY DEF SessionNext
<1>2. CASE \E v \in Version, t \in Text : OpenDocument(d, v, t)
  BY <1>2 DEF OpenDocument, SetOverlay, Overlay
<1>3. CASE \E v \in Version, t \in Text : ChangeDocument(d, v, t)
  BY <1>3 DEF ChangeDocument, SetOverlay, Overlay
<1>4. CASE CloseDocument(d)
  BY <1>4 DEF CloseDocument
<1>5. CASE \E t \in Text \cup {NoText} : SaveDocument(d, t)
  BY <1>5 DEF SaveDocument, CanSave, IsOpen, SavedText, Overlay
<1>6. CASE \E t \in Text : UpdateBaseline(d, t)
  BY <1>6 DEF UpdateBaseline
<1>7. QED
  BY <1>1, <1>2, <1>3, <1>4, <1>5, <1>6
=============================================================================
