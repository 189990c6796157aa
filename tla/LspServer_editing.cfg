SPECIFICATION Spec
CONSTANTS
    main = main
    dep = dep
    t1 = t1
    t2 = t2
    id1 = id1
    Document <- OneDocument
    Editable <- MCEditable
    Text <- TwoTexts
    Version <- MCVersion
    RequestId = {id1}
    ClientMessage <- EditingClient
    MaxMessages = 6
    WorkerMayPanic = TRUE
    RevisionLimit = 3
    NoText = NoText
    NotOpen = NotOpen
    NoVersion = NoVersion
    UnknownDocument = UnknownDocument
    Nothing = Nothing
INVARIANTS
    CompletedOnce
    NoLostWakeup
PROPERTIES
    AnalysesStartCurrent
    AnswersCurrent
    PublishedCurrent
