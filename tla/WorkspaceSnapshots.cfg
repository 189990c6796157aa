SPECIFICATION Spec
CONSTANTS
    main = main
    dep = dep
    t1 = t1
    t2 = t2
    Document <- MCDocument
    Editable <- MCEditable
    Text <- MCText
    Version <- MCVersion
    NoText = NoText
    NotOpen = NotOpen
    NoVersion = NoVersion
    RevisionLimit = 4
SYMMETRY MCSymmetry
INVARIANTS
    SnapshotsTypeOK
    GateSound
PROPERTIES
    OverlayDiscipline
    ReadOnlyUntouched
