SPECIFICATION FairSpec
CONSTANTS
    main = main
    dep = dep
    t1 = t1
    t2 = t2
    id1 = id1
    Document <- TwoDocuments
    Editable <- MCEditable
    Text <- OneText
    Version <- MCVersion
    RequestId = {id1}
    ClientMessage <- RudeClient
    MaxMessages = 4
    WorkerMayPanic = FALSE
    RevisionLimit = 2
    NoText = NoText
    NotOpen = NotOpen
    NoVersion = NoVersion
    UnknownDocument = UnknownDocument
    Nothing = Nothing
INVARIANTS
    TypeOK
    PendingAreCurrent
    SnapshotsFaithful
PROPERTIES
    ShutdownIsFinal
    ImplementsQueryService
    EveryRequestCompletes
    DiagnosticsSettle
