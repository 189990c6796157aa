------------------------- MODULE WorkspaceSession -------------------------
(***************************************************************************)
(* The editor's mutable view of one selected source graph                  *)
(* (compiler/src/editor.rs, WorkspaceSession).  A fixed set of documents   *)
(* has baseline text supplied at startup; an open document has an overlay  *)
(* that hides its baseline.  Every accepted mutation advances the          *)
(* revision, and a snapshot is the immutable value of the session at one   *)
(* revision.                                                               *)
(*                                                                         *)
(* A program text is a member of Text.  The session id of the code is      *)
(* left out: one process serves one session, and the revision alone        *)
(* tells its snapshots apart.                                              *)
(***************************************************************************)
EXTENDS Integers

CONSTANTS
    Document,       \* documents of the source graph selected at startup
    Editable,       \* those of the primary package; the others are read-only
    Text,           \* source texts
    NoText,         \* a didSave without text
    Version,        \* client document versions (signed integers)
    NotOpen,        \* the overlay of a document that is not open
    NoVersion,      \* the version of a document shown from its baseline
    RevisionLimit   \* the largest revision the counter can hold (u64::MAX)

ASSUME DocumentAssumption ==
    /\ Editable \subseteq Document
    /\ Version \subseteq Int
    /\ NoVersion \notin Version
    /\ NoText \notin Text

ASSUME OverlayAssumption == NotOpen \notin [version : Version, source : Text]

ASSUME RevisionAssumption == RevisionLimit \in Nat

VARIABLES
    revision,       \* counter of accepted mutations
    baseline,       \* baseline[d]: the saved text of d, as the client told it
    openDocuments   \* openDocuments[d]: the overlay of d, or NotOpen

sessionVars == <<revision, baseline, openDocuments>>

Revision == 0..RevisionLimit

Overlay == [version : Version, source : Text]

WorkspaceSnapshot ==
    [id      : Revision,
     text    : [Document -> Text],
     version : [Document -> Version \cup {NoVersion}]]

SessionTypeOK ==
    /\ revision \in Revision
    /\ baseline \in [Document -> Text]
    /\ openDocuments \in [Document -> Overlay \cup {NotOpen}]

-----------------------------------------------------------------------------
IsOpen(d) == openDocuments[d] # NotOpen

VisibleText(d) ==
    IF IsOpen(d) THEN openDocuments[d].source ELSE baseline[d]

ClientVersion(d) ==
    IF IsOpen(d) THEN openDocuments[d].version ELSE NoVersion

\* The immutable value handed to the analysis worker.
Snapshot ==
    [id      |-> revision,
     text    |-> [d \in Document |-> VisibleText(d)],
     version |-> [d \in Document |-> ClientVersion(d)]]

\* The publication gate: a completed analysis counts only for the revision
\* the session still has.
IsCurrent(s) == s.id = revision

-----------------------------------------------------------------------------
(* Mutations.  Each Can... predicate is the code's chain of early returns  *)
(* before bump_revision; the mutation takes effect after the bump.          *)

\* Variant: the overflow check is dropped.
CanBump_Unchecked == TRUE

CanBump == revision < RevisionLimit

\* Variant: the counter wraps instead of reporting RevisionExhausted.
BumpRevision_Wraps ==
    revision' = IF revision < RevisionLimit THEN revision + 1 ELSE 0

BumpRevision == CanBump /\ revision' = revision + 1

SetOverlay(d, v, t) ==
    openDocuments' = [openDocuments EXCEPT ![d] = [version |-> v, source |-> t]]

CanOpen(d) == d \in Editable /\ ~IsOpen(d)

\* Variant: opening does not advance the revision.
OpenDocument_KeepsRevision(d, v, t) ==
    /\ CanOpen(d)
    /\ SetOverlay(d, v, t)
    /\ UNCHANGED <<revision, baseline>>

OpenDocument(d, v, t) ==
    /\ CanOpen(d)
    /\ BumpRevision
    /\ SetOverlay(d, v, t)
    /\ UNCHANGED baseline

\* Variant: an equal version is accepted.
CanChange_EqualVersion(d, v) ==
    d \in Editable /\ IsOpen(d) /\ openDocuments[d].version <= v

CanChange(d, v) == d \in Editable /\ IsOpen(d) /\ openDocuments[d].version < v

ChangeDocument(d, v, t) ==
    /\ CanChange(d, v)
    /\ BumpRevision
    /\ SetOverlay(d, v, t)
    /\ UNCHANGED baseline

CanClose(d) == d \in Editable /\ IsOpen(d)

CloseDocument(d) ==
    /\ CanClose(d)
    /\ BumpRevision
    /\ openDocuments' = [openDocuments EXCEPT ![d] = NotOpen]
    /\ UNCHANGED baseline

CanSave(d) == d \in Editable /\ IsOpen(d)

\* The text the client included, or the overlay when it sent none.
SavedText(d, t) == IF t = NoText THEN openDocuments[d].source ELSE t

SaveDocument(d, t) ==
    /\ CanSave(d)
    /\ BumpRevision
    /\ baseline' = [baseline EXCEPT ![d] = SavedText(d, t)]
    /\ UNCHANGED openDocuments

\* Variant: the ownership check is dropped.
CanUpdateBaseline_AnyPackage(d) == d \in Document

CanUpdateBaseline(d) == d \in Editable

UpdateBaseline(d, t) ==
    /\ CanUpdateBaseline(d)
    /\ BumpRevision
    /\ baseline' = [baseline EXCEPT ![d] = t]
    /\ UNCHANGED openDocuments

-----------------------------------------------------------------------------
SessionInit ==
    /\ revision = 0
    /\ baseline \in [Document -> Text]
    /\ openDocuments = [d \in Document |-> NotOpen]

SessionNext ==
    \E d \in Document :
        \/ \E v \in Version, t \in Text : OpenDocument(d, v, t)
        \/ \E v \in Version, t \in Text : ChangeDocument(d, v, t)
        \/ CloseDocument(d)
        \/ \E t \in Text \cup {NoText} : SaveDocument(d, t)
        \/ \E t \in Text : UpdateBaseline(d, t)

SessionSpec == SessionInit /\ [][SessionNext]_sessionVars
=============================================================================
