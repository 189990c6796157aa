----------------------- MODULE MCWorkspaceSnapshots -----------------------
(* One editable and one read-only document, two texts, four mutations:     *)
(* enough to open, change, save, close and reopen around a snapshot that   *)
(* is still in flight, and to reach the revision limit.                    *)
EXTENDS WorkspaceSnapshots, TLC

CONSTANTS main, dep, t1, t2

MCDocument == {main, dep}
MCEditable == {main}
MCText == {t1, t2}
MCVersion == {-1, 0, 2}
MCSymmetry == Permutations(MCText)
=============================================================================
