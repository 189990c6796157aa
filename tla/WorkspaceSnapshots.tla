------------------------ MODULE WorkspaceSnapshots ------------------------
(***************************************************************************)
(* The session together with the snapshots it has handed out.  A snapshot  *)
(* is analysed on another thread and comes back later as a result that     *)
(* carries the snapshot's id; accept_analysis keeps it only while that id  *)
(* is the session's.  The set captured holds every snapshot in flight.     *)
(***************************************************************************)
EXTENDS WorkspaceSession

VARIABLE captured

snapshotVars == <<revision, baseline, openDocuments, captured>>

SnapshotsTypeOK == SessionTypeOK /\ captured \subseteq WorkspaceSnapshot

Init == SessionInit /\ captured = {}

TakeSnapshot ==
    /\ captured' = captured \cup {Snapshot}
    /\ UNCHANGED sessionVars

\* accept_analysis consumes a result, whether or not the gate lets it pass.
AcceptAnalysis(s) ==
    /\ s \in captured
    /\ captured' = captured \ {s}
    /\ UNCHANGED sessionVars

Next ==
    \/ SessionNext /\ UNCHANGED captured
    \/ TakeSnapshot
    \/ \E s \in captured : AcceptAnalysis(s)

Spec == Init /\ [][Next]_snapshotVars

-----------------------------------------------------------------------------
(* The gate compares ids only.  It is sound because no two different       *)
(* states of the session ever have one id: a result the gate accepts was   *)
(* computed from exactly the text and versions the session has now, however *)
(* many edits, saves, closes and reopenings happened in between.            *)
GateSound == \A s \in captured : IsCurrent(s) => s = Snapshot

(* While a document stays open, what analysis sees of it changes only      *)
(* together with a strictly greater client version: saving the document,   *)
(* or replacing its baseline, never shows through the overlay              *)
(* (change_document, save_document, update_baseline).                      *)
OverlayDiscipline ==
    [][\A d \in Document :
         IsOpen(d) /\ IsOpen(d)' =>
            \/ VisibleText(d)' = VisibleText(d) /\ ClientVersion(d)' = ClientVersion(d)
            \/ ClientVersion(d)' > ClientVersion(d)]_snapshotVars

(* A document of a dependency package keeps the text it was loaded with,   *)
(* whatever sequence of requests names it (require_editable_document).     *)
ReadOnlyUntouched ==
    [][\A d \in Document \ Editable :
         VisibleText(d)' = VisibleText(d)]_snapshotVars
=============================================================================
