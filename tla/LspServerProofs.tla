-------------------------- MODULE LspServerProofs --------------------------
(* Proofs about the language server for every source graph, client,        *)
(* number of messages and revision limit, with or without worker panics.   *)
EXTENDS LspServerProperties, WorkspaceSessionProofs, SequenceTheorems, TLAPS

-----------------------------------------------------------------------------
(* Channels.                                                               *)

LEMMA TakeFirst ==
    ASSUME NEW S, NEW q \in Seq(S), q # <<>>
    PROVE  /\ Head(q) \in S /\ Head(q) = q[1]
           /\ 1 \in DOMAIN q
           /\ Tail(q) \in Seq(S) /\ Len(Tail(q)) = Len(q) - 1
           /\ \A i \in DOMAIN Tail(q) : i + 1 \in DOMAIN q /\ Tail(q)[i] = q[i + 1]
OBVIOUS

LEMMA PutLast ==
    ASSUME NEW S, NEW q \in Seq(S), NEW x \in S
    PROVE  /\ Append(q, x) \in Seq(S) /\ Len(Append(q, x)) = Len(q) + 1
           /\ Append(q, x)[Len(q) + 1] = x
           /\ \A i \in DOMAIN q : Append(q, x)[i] = q[i]
           /\ DOMAIN Append(q, x) = DOMAIN q \cup {Len(q) + 1}
OBVIOUS

-----------------------------------------------------------------------------
(* Types.                                                                  *)

LEMMA HeadIsInput ==
    ASSUME TypeOK, Input
    PROVE  /\ Head(events).message \in ClientMessage
           /\ Head(events).message \in Message
           /\ handled' \in Ticket /\ handled' = Head(events).ticket
           /\ events' \in Seq(Event) /\ events' = Tail(events)
<1>1. Head(events) \in Event /\ Head(events).type = "input" /\ Tail(events) \in Seq(Event)
  BY TakeFirst DEF Input, NextEvent, TypeOK
<1>2. Head(events) \in [type : {"input"}, ticket : Ticket, message : ClientMessage]
  BY <1>1 DEF Event
<1>3. QED
  BY <1>1, <1>2, ServerAssumption DEF Input, NextEvent

LEMMA HeadIsAnalysis ==
    ASSUME TypeOK, NextEvent("analysis")
    PROVE  /\ Head(events).analysis \in WorkspaceSnapshot
           /\ events' \in Seq(Event) /\ events' = Tail(events)
<1>1. Head(events) \in Event /\ Head(events).type = "analysis" /\ Tail(events) \in Seq(Event)
  BY TakeFirst DEF NextEvent, TypeOK
<1>2. Head(events) \in [type : {"analysis"}, analysis : WorkspaceSnapshot]
  BY <1>1 DEF Event
<1>3. QED
  BY <1>1, <1>2 DEF NextEvent

(* A synchronization the session accepts is one of its mutations.          *)
LEMMA SynchronizeMutates ==
    ASSUME TypeOK, Input, Synchronize(Head(events).message)
    PROVE  /\ SessionNext
           /\ SessionTypeOK' /\ revision' = revision + 1
           /\ Snapshot' \in WorkspaceSnapshot
<1> DEFINE m == Head(events).message
<1>1. m \in ClientMessage /\ m \in Message
  BY HeadIsInput
<1>2. m.document \in Document
  BY DEF Synchronize, CanSync
<1>3. \/ m.version \in Version /\ m.text \in Text /\ OpenDocument(m.document, m.version, m.text)
      \/ m.version \in Version /\ m.text \in Text /\ ChangeDocument(m.document, m.version, m.text)
      \/ m.text \in Text \cup {NoText} /\ SaveDocument(m.document, m.text)
      \/ CloseDocument(m.document)
  BY <1>1, ServerAssumption DEF Synchronize
<1>4. SessionNext
  BY <1>2, <1>3 DEF SessionNext
<1>5. SessionTypeOK' /\ revision' = revision + 1
  BY <1>4, MutationAdvances DEF TypeOK
<1>6. (SessionTypeOK => Snapshot \in WorkspaceSnapshot)'
  BY SnapshotType, PTL
<1>7. Snapshot' \in WorkspaceSnapshot
  BY <1>5, <1>6 DEF WorkspaceSnapshot, Revision
<1>8. QED
  BY <1>4, <1>5, <1>7

LEMMA AnsweredType ==
    ASSUME TypeOK, NEW tickets, NEW r \in Reply
    PROVE  Answered(tickets, r) \in [Ticket -> Seq(Reply)]
<1>1. ASSUME NEW t \in Ticket
      PROVE  Append(replies[t], r) \in Seq(Reply) /\ replies[t] \in Seq(Reply)
  BY PutLast DEF TypeOK
<1>2. QED
  BY <1>1 DEF Answered

LEMMA RefusalTypes ==
    /\ \A c \in {"Ack", "ParseError", "InvalidRequest", "InvalidParams", "MethodNotFound",
                 "NotInitialized", "RequestFailed", "ContentModified", "RequestCancelled"} :
         Code(c) \in Reply /\ Code(c).code = c
BY DEF Code, Reply

LEMMA QueryReplyType ==
    ASSUME TypeOK, NEW kind, NEW latest \in WorkspaceSnapshot \cup {Nothing}
    PROVE  QueryReply(kind, latest) \in Reply
<1>1. AnalysisFor(kind, latest) \in WorkspaceSnapshot \cup {Nothing}
  BY DEF AnalysisFor
<1>2. CASE AnalysisFor(kind, latest) # Nothing
  <2>1. AnalysisFor(kind, latest).id \in Revision
    BY <1>1, <1>2 DEF WorkspaceSnapshot
  <2>2. QueryReply(kind, latest) = [code |-> "Answer", basis |-> AnalysisFor(kind, latest).id]
    BY <1>2 DEF QueryReply
  <2>3. QED
    BY <2>1, <2>2 DEF Reply
<1>3. CASE AnalysisFor(kind, latest) = Nothing
  BY <1>3, RefusalTypes DEF QueryReply
<1>4. QED
  BY <1>2, <1>3

LEMMA ScheduleType ==
    ASSUME TypeOK, NEW s \in WorkspaceSnapshot, ScheduleAnalysis(s)
    PROVE  requestedAnalysis' \in Revision \cup {Nothing} /\ jobs' \in Seq(WorkspaceSnapshot)
<1>1. s.id \in Revision
  BY DEF WorkspaceSnapshot
<1>2. Append(jobs, s) \in Seq(WorkspaceSnapshot)
  BY PutLast DEF TypeOK
<1>3. QED
  BY <1>1, <1>2 DEF TypeOK, ScheduleAnalysis

LEMMA SessionFrame ==
    ASSUME SessionTypeOK, UNCHANGED sessionVars
    PROVE  SessionTypeOK' /\ revision' = revision /\ Snapshot' = Snapshot
BY DEF SessionTypeOK, sessionVars, Snapshot, VisibleText, ClientVersion, IsOpen

LEMMA ReaderType == ASSUME TypeOK, Reader PROVE TypeOK'
<1> USE DEF TypeOK
<1>1. SessionTypeOK'
  BY SessionFrame DEF Reader, ReadMessage, ReadEnd
<1>2. CASE \E m \in ClientMessage : ReadMessage(m)
  <2>1. PICK m \in ClientMessage : ReadMessage(m)
    BY <1>2
  <2>2. received' \in Ticket /\ received' \in 0..MaxMessages
    BY <2>1, ServerAssumption DEF ReadMessage, Ticket
  <2>3. [type |-> "input", ticket |-> received', message |-> m] \in Event
    BY <2>2 DEF Event
  <2>4. events' \in Seq(Event)
    BY <2>1, <2>3 DEF ReadMessage
  <2>5. QED
    BY <1>1, <2>1, <2>2, <2>4 DEF ReadMessage, outputVars
<1>3. CASE \E how \in {"eof", "framing"} : ReadEnd(how)
  <2>1. PICK how \in {"eof", "framing"} : ReadEnd(how)
    BY <1>3
  <2>2. [type |-> how] \in Event
    BY DEF Event
  <2>3. events' \in Seq(Event)
    BY <2>1, <2>2 DEF ReadEnd
  <2>4. QED
    BY <1>1, <2>1, <2>3 DEF ReadEnd, outputVars
<1>4. QED
  BY <1>2, <1>3 DEF Reader

LEMMA WorkerType == ASSUME TypeOK, Worker \/ AnalysisPanics PROVE TypeOK'
<1> USE DEF TypeOK, workerFrame, outputVars
<1>1. SessionTypeOK'
  BY SessionFrame DEF Worker, TakeSnapshot, StartAnalysis, FinishAnalysis, AnalysisPanics
<1>2. CASE TakeSnapshot
  BY <1>1, <1>2, TakeFirst DEF TakeSnapshot
<1>3. CASE StartAnalysis
  BY <1>1, <1>3 DEF StartAnalysis
<1>4. CASE FinishAnalysis
  <2>1. [type |-> "analysis", analysis |-> worker.snapshot] \in Event
    BY <1>4 DEF FinishAnalysis, Event
  <2>2. QED
    BY <1>1, <1>4, <2>1 DEF FinishAnalysis
<1>5. CASE AnalysisPanics
  BY <1>1, <1>5 DEF AnalysisPanics
<1>6. QED
  BY <1>2, <1>3, <1>4, <1>5 DEF Worker

(* A handler that leaves the session alone and completes message handled'  *)
(* with one reply.                                                         *)
LEMMA ReplyType ==
    ASSUME TypeOK, Input, NEW r \in Reply, ReplyTo(r)
    PROVE  replies' \in [Ticket -> Seq(Reply)]
BY HeadIsInput, AnsweredType DEF ReplyTo

LEMMA HandlerType ==
    ASSUME TypeOK, Input, HandleMessage(Head(events).message)
    PROVE  TypeOK'
<1> DEFINE m == Head(events).message
<1>1. /\ m \in ClientMessage /\ m \in Message /\ handled' \in Ticket
      /\ handled' \in 0..MaxMessages /\ events' \in Seq(Event)
  BY HeadIsInput, ServerAssumption DEF Ticket
<1>2. UNCHANGED <<worker, readerOpen, received, published>>
  BY DEF Input, NextEvent
<1>3. Code("ParseError") \in Reply /\ Code("InvalidRequest") \in Reply
      /\ Code("Ack") \in Reply /\ Code("NotInitialized") \in Reply
      /\ Code("MethodNotFound") \in Reply /\ Code("InvalidParams") \in Reply
      /\ Code("RequestCancelled") \in Reply /\ Code("ContentModified") \in Reply
  BY RefusalTypes
<1>4. SessionTypeOK /\ latestAnalysis \in WorkspaceSnapshot \cup {Nothing}
  BY DEF TypeOK
<1>5. CASE RefuseMessage(m)
  <2>1. replies' \in [Ticket -> Seq(Reply)]
    BY <1>3, <1>5, ReplyType DEF RefuseMessage
  <2>2. QED
    BY <1>1, <1>2, <1>4, <1>5, <2>1, SessionFrame DEF RefuseMessage, TypeOK, requestFrame, noAnalysis
<1>6. CASE Initialize(m)
  <2>1. replies' \in [Ticket -> Seq(Reply)]
    BY <1>3, <1>6, ReplyType DEF Initialize
  <2>2. QED
    BY <1>1, <1>2, <1>4, <1>6, <2>1, SessionFrame DEF Initialize, TypeOK, requestFrame, noAnalysis
<1>7. CASE Shutdown(m)
  <2> DEFINE cancelled == Answered(Tickets(pendingQueries), Code("RequestCancelled"))
  <2>1. cancelled \in [Ticket -> Seq(Reply)]
    BY <1>3, AnsweredType
  <2>2. Append(cancelled[handled'], Code("Ack")) \in Seq(Reply)
    BY <1>1, <1>3, <2>1, PutLast
  <2>3. replies' \in [Ticket -> Seq(Reply)]
    BY <1>1, <1>7, <2>1, <2>2 DEF Shutdown
  <2>4. QED
    BY <1>1, <1>2, <1>4, <1>7, <2>3, SessionFrame DEF Shutdown, TypeOK, requestFrame, noAnalysis
<1>8. CASE RefuseRequest(m)
  <2>1. replies' \in [Ticket -> Seq(Reply)]
    BY <1>3, <1>8, ReplyType DEF RefuseRequest
  <2>2. QED
    BY <1>1, <1>2, <1>4, <1>8, <2>1, SessionFrame DEF RefuseRequest, TypeOK, requestFrame, noAnalysis
<1>9. CASE QueryInvalid(m)
  <2>1. replies' \in [Ticket -> Seq(Reply)]
    BY <1>3, <1>9, ReplyType DEF QueryInvalid
  <2>2. QED
    BY <1>1, <1>2, <1>4, <1>9, <2>1, SessionFrame DEF QueryInvalid, TypeOK, requestFrame, noAnalysis
<1>10. CASE QueryNow(m)
  <2>1. QueryReply(m.method, latestAnalysis) \in Reply
    BY <1>4, QueryReplyType
  <2>2. replies' \in [Ticket -> Seq(Reply)]
    BY <1>10, <2>1, ReplyType DEF QueryNow
  <2>3. QED
    BY <1>1, <1>2, <1>4, <1>10, <2>2, SessionFrame DEF QueryNow, TypeOK, requestFrame, noAnalysis
<1>11. CASE QueryLater(m)
  <2>1. Snapshot \in WorkspaceSnapshot
    BY <1>4, SnapshotType
  <2>2. requestedAnalysis' \in Revision \cup {Nothing} /\ jobs' \in Seq(WorkspaceSnapshot)
    BY <1>11, <2>1, ScheduleType DEF QueryLater
  <2>3. [ticket |-> handled', id |-> m.id, kind |-> m.method, revision |-> revision]
          \in PendingQuery
    BY <1>1, <1>4, <1>11, ServerAssumption DEF QueryLater, IsQuery, PendingQuery, SessionTypeOK
  <2>4. QED
    BY <1>1, <1>2, <1>4, <1>11, <2>2, <2>3, SessionFrame DEF QueryLater, TypeOK, requestFrame
<1>12. CASE Exit(m)
  BY <1>1, <1>2, <1>4, <1>12, SessionFrame DEF Exit, TypeOK, requestFrame, noAnalysis
<1>13. CASE IgnoreNotification(m)
  BY <1>1, <1>2, <1>4, <1>13, SessionFrame DEF IgnoreNotification, TypeOK, requestFrame, noAnalysis
<1>14. CASE Initialized(m)
  <2>1. requestedAnalysis' \in Revision \cup {Nothing} /\ jobs' \in Seq(WorkspaceSnapshot)
    BY <1>4, <1>14, SnapshotType, ScheduleType DEF Initialized
  <2>2. QED
    BY <1>1, <1>2, <1>4, <1>14, <2>1, SessionFrame DEF Initialized, TypeOK, requestFrame
<1>15. CASE CancelRequest(m)
  <2>1. replies' \in [Ticket -> Seq(Reply)]
    BY <1>3, <1>15, AnsweredType DEF CancelRequest
  <2>2. QED
    BY <1>1, <1>2, <1>4, <1>15, <2>1, SessionFrame DEF CancelRequest, TypeOK, requestFrame, noAnalysis
<1>16. CASE Synchronize(m)
  <2>1. SessionTypeOK' /\ Snapshot' \in WorkspaceSnapshot
    BY <1>16, SynchronizeMutates
  <2>2. replies' \in [Ticket -> Seq(Reply)]
    BY <1>3, <1>16, AnsweredType DEF Synchronize
  <2>3. QED
    BY <1>1, <1>2, <1>16, <2>1, <2>2 DEF Synchronize, TypeOK
<1>17. CASE RejectSync(m)
  BY <1>1, <1>2, <1>4, <1>17, SessionFrame DEF RejectSync, TypeOK, requestFrame, noAnalysis
<1>18. QED
  BY <1>5, <1>6, <1>7, <1>8, <1>9, <1>10, <1>11, <1>12, <1>13, <1>14, <1>15, <1>16, <1>17
     DEF HandleMessage

LEMMA HandlesInput == ASSUME NEW m, HandleMessage(m) PROVE Input
BY DEF HandleMessage, RefuseMessage, Initialize, Shutdown, RefuseRequest, QueryInvalid,
       QueryNow, QueryLater, Exit, IgnoreNotification, Initialized, CancelRequest,
       Synchronize, RejectSync

LEMMA DrainedType ==
    ASSUME TypeOK, NEW s \in WorkspaceSnapshot
    PROVE  Drained(s) \in [Ticket -> Seq(Reply)]
<1>1. \A kind : QueryReply(kind, s) \in Reply
  BY QueryReplyType
<1>2. Code("ContentModified") \in Reply
  BY RefusalTypes
<1>3. ASSUME NEW t \in Ticket, NEW r \in Reply
      PROVE  Append(replies[t], r) \in Seq(Reply) /\ replies[t] \in Seq(Reply)
  BY PutLast DEF TypeOK
<1>4. QED
  BY <1>1, <1>2, <1>3 DEF Drained

LEMMA AnalysisType ==
    ASSUME TypeOK, TakesAnalysis, HandleAnalysis(Head(events).analysis)
    PROVE  TypeOK'
<1> DEFINE s == Head(events).analysis
<1>1. Completed(s)
  BY DEF HandleAnalysis, DropAnalysis, AcceptAndPublish
<1>2. s \in WorkspaceSnapshot /\ events' \in Seq(Event)
  BY <1>1, HeadIsAnalysis DEF Completed
<1>3. UNCHANGED <<sessionVars, lifecycle, jobs, step, handled, status, worker, readerOpen,
                  received>>
  BY <1>1 DEF Completed, NextEvent
<1>4. SessionTypeOK' /\ requestedAnalysis' \in Revision \cup {Nothing}
  BY <1>1, <1>3, SessionFrame DEF Completed, ClearRequested, TypeOK
<1>5. CASE DropAnalysis(s)
  BY <1>2, <1>3, <1>4, <1>5 DEF DropAnalysis, TypeOK, outputVars
<1>6. CASE AcceptAndPublish(s)
  <2>1. replies' \in [Ticket -> Seq(Reply)]
    BY <1>2, <1>6, DrainedType DEF AcceptAndPublish
  <2>2. published' \in [Document -> [revision : Revision, version : Version \cup {NoVersion}]
                                      \cup {Nothing}]
    BY <1>2, <1>6 DEF AcceptAndPublish, WorkspaceSnapshot
  <2>3. QED
    BY <1>2, <1>3, <1>4, <1>6, <2>1, <2>2 DEF AcceptAndPublish, TypeOK
<1>7. QED
  BY <1>5, <1>6 DEF HandleAnalysis

LEMMA EndType == ASSUME TypeOK, EndOfInput PROVE TypeOK'
<1>1. events # <<>> /\ events' = Tail(events) /\ UNCHANGED <<worker, readerOpen, received>>
  BY DEF EndOfInput, NextEvent
<1>2. events' \in Seq(Event)
  BY <1>1, TakeFirst DEF TypeOK
<1>3. SessionTypeOK'
  BY SessionFrame DEF EndOfInput, requestFrame, TypeOK
<1>4. QED
  BY <1>1, <1>2, <1>3 DEF EndOfInput, NextEvent, requestFrame, noAnalysis, outputVars, TypeOK

LEMMA ScheduledType == ASSUME TypeOK, ScheduleSynchronized PROVE TypeOK'
<1>1. requestedAnalysis' \in Revision \cup {Nothing} /\ jobs' \in Seq(WorkspaceSnapshot)
  BY SnapshotType, ScheduleType DEF ScheduleSynchronized, TypeOK
<1>2. SessionTypeOK'
  BY SessionFrame DEF ScheduleSynchronized, TypeOK
<1>3. QED
  BY <1>1, <1>2 DEF ScheduleSynchronized, outputVars, TypeOK

LEMMA TypeStep == ASSUME TypeOK, [Next]_vars PROVE TypeOK'
<1>1. CASE Reader
  BY <1>1, ReaderType
<1>2. CASE Worker \/ AnalysisPanics
  BY <1>2, WorkerType
<1>3. CASE TakesInput /\ HandleMessage(Head(events).message)
  BY <1>3, HandlesInput, HandlerType
<1>4. CASE TakesAnalysis /\ HandleAnalysis(Head(events).analysis)
  BY <1>4, AnalysisType
<1>5. CASE EndOfInput
  BY <1>5, EndType
<1>6. CASE ScheduleSynchronized
  BY <1>6, ScheduledType
<1>7. CASE UNCHANGED vars
  <2>1. SessionTypeOK'
    BY <1>7, SessionFrame DEF vars, TypeOK
  <2>2. QED
    BY <1>7, <2>1 DEF vars, channelVars, outputVars, TypeOK
<1>8. QED
  BY <1>1, <1>2, <1>3, <1>4, <1>5, <1>6, <1>7 DEF Next, MainLoop, Exited

LEMMA InitType == Init => TypeOK
BY RevisionAssumption, ServerAssumption
   DEF Init, SessionInit, TypeOK, SessionTypeOK, Revision

(* Every variable keeps its type: in particular no message is handled that *)
(* the reader did not forward, and the revision never leaves its range.    *)
THEOREM ServerTyped == Spec => []TypeOK
<1>1. TypeOK /\ [Next]_vars => TypeOK'
  BY TypeStep
<1>2. QED
  BY InitType, <1>1, PTL DEF Spec

-----------------------------------------------------------------------------
(* Messages reach the main loop in order, each once.                       *)

LEMMA EventFacts ==
    ASSUME TypeOK
    PROVE  /\ events \in Seq(Event) /\ Len(events) \in Nat /\ DOMAIN events = 1..Len(events)
           /\ handled \in Nat /\ received \in Nat
           /\ \A i \in DOMAIN events : events[i] \in Event
           /\ \A i \in DOMAIN events : events[i].type = "input" => events[i].ticket \in Nat
<1>1. events \in Seq(Event) /\ handled \in 0..MaxMessages /\ received \in 0..MaxMessages
  BY DEF TypeOK
<1>2. MaxMessages \in Nat
  BY ServerAssumption
<1>3. handled \in Nat /\ received \in Nat
  BY <1>1, <1>2
<1>4. Len(events) \in Nat /\ DOMAIN events = 1..Len(events)
  BY <1>1
<1>5. \A i \in DOMAIN events : events[i] \in Event
  BY <1>1
<1>6. ASSUME NEW i \in DOMAIN events, events[i].type = "input"
      PROVE  events[i].ticket \in Nat
  <2>1. events[i].ticket \in Ticket
    BY <1>5, <1>6 DEF Event
  <2>2. QED
    BY <1>2, <2>1 DEF Ticket
<1>7. QED
  BY <1>1, <1>3, <1>4, <1>5, <1>6

LEMMA TakenInOrder ==
    ASSUME TypeOK, EventTickets, events # <<>>, events' = Tail(events), received' = received,
           \/ handled' = handled
           \/ Head(events).type = "input" /\ handled' = Head(events).ticket
    PROVE  EventTickets'
<1>1. /\ Head(events) = events[1] /\ 1 \in DOMAIN events /\ Len(events) \in Nat
      /\ \A i \in DOMAIN events' : /\ i \in Nat /\ i >= 1
                                   /\ i + 1 \in DOMAIN events /\ events'[i] = events[i + 1]
  <2>1. events \in Seq(Event)
    BY EventFacts
  <2>2. DOMAIN Tail(events) \subseteq Nat \ {0}
    BY <2>1
  <2>3. QED
    BY <2>1, <2>2, TakeFirst
<1>2. \A i \in DOMAIN events : events[i].type = "input" =>
         events[i].ticket \in Nat /\ handled < events[i].ticket /\ events[i].ticket <= received
  BY EventFacts DEF EventTickets
<1>3. handled \in Nat /\ received \in Nat
  BY EventFacts
<1>4. handled' <= received'
  BY <1>1, <1>2, <1>3 DEF EventTickets
<1>5. ASSUME NEW i \in DOMAIN events', events'[i].type = "input"
      PROVE  handled' < events'[i].ticket /\ events'[i].ticket <= received'
  <2>1. i + 1 \in DOMAIN events /\ events'[i] = events[i + 1] /\ 1 < i + 1
    BY <1>1
  <2>2. CASE handled' = handled
    BY <1>2, <1>5, <2>1, <2>2
  <2>3. CASE Head(events).type = "input" /\ handled' = Head(events).ticket
    BY <1>1, <1>2, <1>5, <2>1, <2>3 DEF EventTickets
  <2>4. QED
    BY <2>2, <2>3
<1>6. ASSUME NEW i \in DOMAIN events', NEW j \in DOMAIN events', i < j,
             events'[i].type = "input", events'[j].type = "input"
      PROVE  events'[i].ticket < events'[j].ticket
  BY <1>1, <1>6 DEF EventTickets
<1>7. QED
  BY <1>4, <1>5, <1>6 DEF EventTickets

LEMMA ForwardedInOrder ==
    ASSUME TypeOK, EventTickets, handled' = handled, NEW e, events' = Append(events, e),
           \/ e.type # "input" /\ received' = received
           \/ e.type = "input" /\ received' = received + 1 /\ e.ticket = received'
    PROVE  EventTickets'
<1> DEFINE n == Len(events)
<1>1. /\ n \in Nat /\ DOMAIN events = 1..n /\ DOMAIN events' = 1..(n + 1)
      /\ events'[n + 1] = e /\ \A i \in 1..n : events'[i] = events[i]
  <2>1. events \in Seq(Event)
    BY EventFacts
  <2>2. QED
    BY <2>1
<1>2. handled \in Nat /\ received \in Nat
  BY EventFacts
<1>3. \A i \in 1..n : events[i].type = "input" => events[i].ticket \in Nat
  BY EventFacts
<1>4. handled' <= received'
  BY <1>2 DEF EventTickets
<1>5. ASSUME NEW i \in DOMAIN events', events'[i].type = "input"
      PROVE  handled' < events'[i].ticket /\ events'[i].ticket <= received'
  BY <1>1, <1>2, <1>3, <1>5 DEF EventTickets
<1>6. ASSUME NEW i \in DOMAIN events', NEW j \in DOMAIN events', i < j,
             events'[i].type = "input", events'[j].type = "input"
      PROVE  events'[i].ticket < events'[j].ticket
  BY <1>1, <1>2, <1>3, <1>6 DEF EventTickets
<1>7. QED
  BY <1>4, <1>5, <1>6 DEF EventTickets

LEMMA EventTicketsStep == ASSUME TypeOK, EventTickets, [Next]_vars PROVE EventTickets'
<1>1. CASE \E m \in ClientMessage : ReadMessage(m)
  <2>1. PICK m \in ClientMessage : ReadMessage(m)
    BY <1>1
  <2> DEFINE e == [type |-> "input", ticket |-> received', message |-> m]
  <2>2. e.type = "input" /\ e.ticket = received' /\ events' = Append(events, e)
    BY <2>1 DEF ReadMessage
  <2> HIDE DEF e
  <2>3. QED
    BY <2>1, <2>2, ForwardedInOrder DEF ReadMessage
<1>2. CASE \E how \in {"eof", "framing"} : ReadEnd(how)
  <2>1. PICK how \in {"eof", "framing"} : ReadEnd(how)
    BY <1>2
  <2> DEFINE e == [type |-> how]
  <2>2. e.type # "input" /\ events' = Append(events, e)
    BY <2>1 DEF ReadEnd
  <2> HIDE DEF e
  <2>3. QED
    BY <2>1, <2>2, ForwardedInOrder DEF ReadEnd
<1>3. CASE TakeSnapshot \/ StartAnalysis \/ AnalysisPanics
  BY <1>3 DEF TakeSnapshot, StartAnalysis, AnalysisPanics, workerFrame, EventTickets
<1>4. CASE FinishAnalysis
  <2> DEFINE e == [type |-> "analysis", analysis |-> worker.snapshot]
  <2>1. e.type # "input" /\ events' = Append(events, e)
    BY <1>4 DEF FinishAnalysis
  <2> HIDE DEF e
  <2>2. QED
    BY <1>4, <2>1, ForwardedInOrder DEF FinishAnalysis, workerFrame
<1>5. CASE TakesInput /\ HandleMessage(Head(events).message)
  BY <1>5, HandlesInput, TakenInOrder DEF Input, NextEvent
<1>6. CASE TakesAnalysis /\ HandleAnalysis(Head(events).analysis)
  BY <1>6, TakenInOrder DEF HandleAnalysis, DropAnalysis, AcceptAndPublish, Completed, NextEvent
<1>7. CASE EndOfInput
  BY <1>7, TakenInOrder DEF EndOfInput, NextEvent
<1>8. CASE ScheduleSynchronized \/ UNCHANGED vars
  BY <1>8 DEF ScheduleSynchronized, vars, channelVars, EventTickets
<1>9. QED
  BY <1>1, <1>2, <1>3, <1>4, <1>5, <1>6, <1>7, <1>8 DEF Next, Reader, Worker, MainLoop, Exited

-----------------------------------------------------------------------------
(* Each request is completed at most once.                                 *)

(* The step completes the tickets in done, none of which had a reply, and  *)
(* leaves waiting only queries that have none.                             *)
LEMMA CompletesTickets ==
    ASSUME TypeOK, CompletedOnce,
           handled' \in Nat, handled <= handled',
           NEW done,
           \A t \in done \cap Ticket : /\ replies[t] = <<>> /\ t <= handled'
                                       /\ Len(replies'[t]) <= 1,
           \A t \in Ticket \ done : replies'[t] = replies[t],
           \A p \in pendingQueries' : /\ p.ticket \in Ticket \ done /\ p.ticket <= handled'
                                      /\ replies[p.ticket] = <<>>,
           \A p, q \in pendingQueries' : p.ticket = q.ticket => p = q
    PROVE  CompletedOnce'
<1>1. handled \in Nat /\ \A t \in Ticket : t \in Nat
  BY EventFacts, ServerAssumption DEF Ticket
<1>2. ASSUME NEW t \in Ticket
      PROVE  Len(replies'[t]) <= 1 /\ (t > handled' => replies'[t] = <<>>)
  <2>1. CASE t \in done
    BY <1>1, <2>1
  <2>2. CASE t \notin done
    BY <1>1, <2>2 DEF CompletedOnce
  <2>3. QED
    BY <2>1, <2>2
<1>3. QED
  BY <1>2 DEF CompletedOnce

LEMMA AnsweredOnce ==
    ASSUME TypeOK, NEW tickets, NEW r, NEW t \in Ticket
    PROVE  /\ t \in tickets /\ replies[t] = <<>> => Len(Answered(tickets, r)[t]) <= 1
           /\ t \notin tickets => Answered(tickets, r)[t] = replies[t]
BY DEF Answered

LEMMA PendingFacts ==
    ASSUME TypeOK, CompletedOnce
    PROVE  \A p \in pendingQueries : /\ p.ticket \in Ticket /\ p.ticket <= handled
                                     /\ replies[p.ticket] = <<>>
BY DEF TypeOK, PendingQuery, CompletedOnce

LEMMA FreshTicket ==
    ASSUME TypeOK, EventTickets, CompletedOnce, Input
    PROVE  /\ handled' \in Ticket /\ handled' \in Nat /\ handled < handled' /\ handled \in Nat
           /\ replies[handled'] = <<>>
           /\ \A p \in pendingQueries : p.ticket # handled' /\ p.ticket <= handled'
<1>1. handled' \in Ticket /\ handled' = Head(events).ticket
  BY HeadIsInput
<1>2. events # <<>> /\ Head(events).type = "input"
  BY DEF Input, NextEvent
<1>3. events \in Seq(Event) /\ handled \in Nat
  BY EventFacts
<1>4. 1 \in DOMAIN events /\ Head(events) = events[1]
  BY <1>2, <1>3, TakeFirst
<1>5. handled < handled' /\ handled' \in Nat
  BY <1>1, <1>2, <1>4, EventFacts DEF EventTickets
<1>6. replies[handled'] = <<>>
  BY <1>1, <1>3, <1>5 DEF CompletedOnce
<1>7. ASSUME NEW p \in pendingQueries
      PROVE  p.ticket # handled' /\ p.ticket <= handled'
  <2>1. p.ticket \in Ticket /\ p.ticket <= handled
    BY PendingFacts
  <2>2. p.ticket \in Nat
    BY <2>1, ServerAssumption DEF Ticket
  <2>3. QED
    BY <1>3, <1>5, <2>1, <2>2
<1>8. QED
  BY <1>1, <1>3, <1>5, <1>6, <1>7

(* A handler that answers its own message and leaves the queries waiting.  *)
LEMMA OwnReplyOnce ==
    ASSUME TypeOK, EventTickets, CompletedOnce, Input, NEW r, ReplyTo(r),
           pendingQueries' = pendingQueries
    PROVE  CompletedOnce'
<1>1. /\ handled' \in Ticket /\ handled' \in Nat /\ handled <= handled'
      /\ replies[handled'] = <<>>
      /\ \A p \in pendingQueries : p.ticket # handled' /\ p.ticket <= handled'
  BY FreshTicket
<1>2. Len(replies'[handled']) <= 1
  BY <1>1, AnsweredOnce DEF ReplyTo
<1>3. \A t \in Ticket \ {handled'} : replies'[t] = replies[t]
  BY AnsweredOnce DEF ReplyTo
<1>4. \A p \in pendingQueries : p.ticket \in Ticket /\ replies[p.ticket] = <<>>
  BY PendingFacts
<1> DEFINE done == {handled'}
<1>5. ASSUME NEW t \in done \cap Ticket
      PROVE  replies[t] = <<>> /\ t <= handled' /\ Len(replies'[t]) <= 1
  <2>1. t = handled'
    OBVIOUS
  <2> HIDE DEF done
  <2>2. Len(replies'[t]) <= 1
    BY <1>2, <2>1
  <2>3. QED
    BY <1>1, <2>1, <2>2
<1>6. \A t \in Ticket \ done : replies'[t] = replies[t]
  BY <1>3
<1>7. \A p \in pendingQueries' : /\ p.ticket \in Ticket \ done /\ p.ticket <= handled'
                                 /\ replies[p.ticket] = <<>>
  BY <1>1, <1>4
<1>8. \A p, q \in pendingQueries' : p.ticket = q.ticket => p = q
  BY DEF CompletedOnce
<1> HIDE DEF done
<1>9. QED
  BY <1>1, <1>5, <1>6, <1>7, <1>8, CompletesTickets

(* A handler that completes some of the waiting queries and nothing else.  *)
LEMMA SomeCompletedOnce ==
    ASSUME TypeOK, CompletedOnce, handled' \in Nat, handled <= handled',
           NEW qs \in SUBSET pendingQueries,
           pendingQueries' = pendingQueries \ qs,
           \A t \in Tickets(qs) : Len(replies'[t]) <= 1,
           \A t \in Ticket \ Tickets(qs) : replies'[t] = replies[t]
    PROVE  CompletedOnce'
<1>1. handled \in Nat
  BY EventFacts
<1>2. ASSUME NEW p \in pendingQueries
      PROVE  p.ticket \in Ticket /\ p.ticket <= handled' /\ replies[p.ticket] = <<>>
  <2>1. p.ticket \in Ticket /\ p.ticket <= handled /\ replies[p.ticket] = <<>>
    BY PendingFacts
  <2>2. p.ticket \in Nat
    BY <2>1, ServerAssumption DEF Ticket
  <2>3. QED
    BY <1>1, <2>1, <2>2
<1>3. \A t \in Tickets(qs) \cap Ticket :
        replies[t] = <<>> /\ t <= handled' /\ Len(replies'[t]) <= 1
  BY <1>2 DEF Tickets
<1>4. \A p \in pendingQueries \ qs : p.ticket \notin Tickets(qs)
  BY DEF Tickets, CompletedOnce
<1>5. QED
  BY <1>2, <1>3, <1>4, CompletesTickets DEF CompletedOnce

(* Shutdown completes every waiting query and itself.                      *)
LEMMA ShutdownOnce ==
    ASSUME TypeOK, EventTickets, CompletedOnce, NEW m, Shutdown(m)
    PROVE  CompletedOnce'
<1> DEFINE done == Tickets(pendingQueries) \cup {handled'}
           cancelled == Answered(Tickets(pendingQueries), Code("RequestCancelled"))
<1>1. /\ handled' \in Ticket /\ handled' \in Nat /\ handled <= handled'
      /\ replies[handled'] = <<>>
      /\ \A p \in pendingQueries : p.ticket # handled' /\ p.ticket <= handled'
  BY FreshTicket DEF Shutdown
<1>2. \A p \in pendingQueries : p.ticket \in Ticket /\ replies[p.ticket] = <<>>
  BY PendingFacts
<1>3. handled' \notin Tickets(pendingQueries)
  BY <1>1 DEF Tickets
<1>4. /\ replies' = [cancelled EXCEPT ![handled'] = Append(@, Code("Ack"))]
      /\ pendingQueries' = {}
  BY DEF Shutdown
<1>5. DOMAIN cancelled = Ticket
  BY DEF Answered
<1>6. replies'[handled'] = Append(cancelled[handled'], Code("Ack")) /\ cancelled[handled'] = <<>>
  BY <1>1, <1>3, <1>4, <1>5, AnsweredOnce
<1>7. \A t \in Ticket \ {handled'} : replies'[t] = cancelled[t]
  BY <1>4, <1>5
<1>8. ASSUME NEW t \in done \cap Ticket
      PROVE  replies[t] = <<>> /\ t <= handled' /\ Len(replies'[t]) <= 1
  <2>1. CASE t = handled'
    BY <1>1, <1>6, <2>1
  <2>2. CASE t # handled'
    <3>1. t \in Tickets(pendingQueries) /\ replies[t] = <<>> /\ t <= handled'
      BY <1>1, <1>2, <2>2 DEF Tickets
    <3>2. Len(cancelled[t]) <= 1 /\ replies'[t] = cancelled[t]
      BY <1>7, <2>2, <3>1, AnsweredOnce
    <3>3. QED
      BY <3>1, <3>2
  <2>3. QED
    BY <2>1, <2>2
<1>9. \A t \in Ticket \ done : replies'[t] = replies[t]
  BY <1>7, AnsweredOnce
<1> HIDE DEF done, cancelled
<1>10. QED
  BY <1>1, <1>4, <1>8, <1>9, CompletesTickets

(* A query that has to wait is completed later.                            *)
LEMMA QueryLaterOnce ==
    ASSUME TypeOK, EventTickets, CompletedOnce, NEW m, QueryLater(m)
    PROVE  CompletedOnce'
<1>1. /\ handled' \in Ticket /\ handled' \in Nat /\ handled <= handled'
      /\ replies[handled'] = <<>>
      /\ \A p \in pendingQueries : p.ticket # handled' /\ p.ticket <= handled'
  BY FreshTicket DEF QueryLater
<1>2. \A p \in pendingQueries : p.ticket \in Ticket /\ replies[p.ticket] = <<>>
  BY PendingFacts
<1>3. replies' = replies
  BY DEF QueryLater
<1>4. PICK q : q.ticket = handled' /\ pendingQueries' = pendingQueries \cup {q}
  BY DEF QueryLater
<1>5. \A p \in pendingQueries' : /\ p.ticket \in Ticket /\ p.ticket <= handled'
                                 /\ replies[p.ticket] = <<>>
  BY <1>1, <1>2, <1>4
<1>6. \A p, r \in pendingQueries' : p.ticket = r.ticket => p = r
  BY <1>1, <1>4 DEF CompletedOnce
<1> DEFINE done == {}
<1>7. /\ \A t \in done \cap Ticket : /\ replies[t] = <<>> /\ t <= handled'
                                     /\ Len(replies'[t]) <= 1
      /\ \A t \in Ticket \ done : replies'[t] = replies[t]
      /\ Ticket \ done = Ticket
  BY <1>3
<1> HIDE DEF done
<1>8. QED
  BY <1>1, <1>5, <1>6, <1>7, CompletesTickets

LEMMA AnsweredSomeOnce ==
    ASSUME TypeOK, EventTickets, CompletedOnce, Input, NEW qs \in SUBSET pendingQueries, NEW r,
           pendingQueries' = pendingQueries \ qs, replies' = Answered(Tickets(qs), r)
    PROVE  CompletedOnce'
<1>1. handled' \in Nat /\ handled <= handled'
  BY FreshTicket
<1>2. \A p \in pendingQueries : p.ticket \in Ticket /\ replies[p.ticket] = <<>>
  BY PendingFacts
<1>3. \A t \in Tickets(qs) : Len(replies'[t]) <= 1
  BY <1>2, AnsweredOnce DEF Tickets
<1>4. \A t \in Ticket \ Tickets(qs) : replies'[t] = replies[t]
  BY AnsweredOnce
<1>5. QED
  BY <1>1, <1>3, <1>4, SomeCompletedOnce

(* An accepted analysis completes every waiting query.                     *)
LEMMA DrainedOnce ==
    ASSUME TypeOK, CompletedOnce, NEW s, AcceptAndPublish(s)
    PROVE  CompletedOnce'
<1>1. handled' = handled /\ handled \in Nat
  BY EventFacts DEF AcceptAndPublish, Completed
<1>2. replies' = Drained(s) /\ pendingQueries' = pendingQueries \ pendingQueries
  BY DEF AcceptAndPublish
<1>3. \A p \in pendingQueries : p.ticket \in Ticket /\ replies[p.ticket] = <<>>
  BY PendingFacts
<1>4. ASSUME NEW t \in Tickets(pendingQueries)
      PROVE  Len(replies'[t]) <= 1
  <2>1. t \in Ticket /\ replies[t] = <<>> /\ \E q \in pendingQueries : q.ticket = t
    BY <1>3 DEF Tickets
  <2>2. PICK r : replies'[t] = Append(replies[t], r)
    BY <1>2, <2>1 DEF Drained
  <2>3. QED
    BY <2>1, <2>2
<1>5. \A t \in Ticket \ Tickets(pendingQueries) : replies'[t] = replies[t]
  BY <1>2 DEF Drained, Tickets
<1>6. QED
  BY <1>1, <1>2, <1>4, <1>5, SomeCompletedOnce

(* A handler that answers nobody.                                          *)
LEMMA SilentOnce ==
    ASSUME TypeOK, EventTickets, CompletedOnce, UNCHANGED <<replies, pendingQueries>>,
           handled' = handled \/ Input
    PROVE  CompletedOnce'
<1>1. handled' \in Nat /\ handled <= handled' /\ handled \in Nat
  BY EventFacts, FreshTicket
<1>2. \A p \in pendingQueries : p.ticket \in Ticket /\ p.ticket \in Nat
  BY PendingFacts, ServerAssumption DEF Ticket
<1>3. \A t \in Ticket : t \in Nat
  BY ServerAssumption DEF Ticket
<1>4. QED
  BY <1>1, <1>2, <1>3 DEF CompletedOnce

LEMMA CompletedOnceStep ==
    ASSUME TypeOK, EventTickets, CompletedOnce, [Next]_vars
    PROVE  CompletedOnce'
<1>1. CASE TakesInput /\ HandleMessage(Head(events).message)
  <2> DEFINE m == Head(events).message
  <2>1. Input
    BY <1>1, HandlesInput
  <2>2. CASE RefuseMessage(m) \/ RefuseRequest(m) \/ QueryInvalid(m) \/ QueryNow(m)
    BY <2>1, <2>2, OwnReplyOnce DEF RefuseMessage, RefuseRequest, QueryInvalid, QueryNow
  <2>3. CASE Initialize(m)
    BY <2>1, <2>3, OwnReplyOnce DEF Initialize
  <2>4. CASE Shutdown(m)
    BY <2>4, ShutdownOnce
  <2>5. CASE QueryLater(m)
    BY <2>5, QueryLaterOnce
  <2>6. CASE Exit(m) \/ IgnoreNotification(m) \/ Initialized(m) \/ RejectSync(m)
    BY <2>1, <2>6, SilentOnce DEF Exit, IgnoreNotification, Initialized, RejectSync
  <2>7. CASE CancelRequest(m)
    <3>1. Oldest(m.id) \in SUBSET pendingQueries
      BY DEF Oldest
    <3>2. QED
      BY <2>1, <2>7, <3>1, AnsweredSomeOnce DEF CancelRequest
  <2>8. CASE Synchronize(m)
    <3>1. Superseded \in SUBSET pendingQueries
      BY DEF Superseded
    <3>2. QED
      BY <2>1, <2>8, <3>1, AnsweredSomeOnce DEF Synchronize
  <2>9. QED
    BY <1>1, <2>2, <2>3, <2>4, <2>5, <2>6, <2>7, <2>8 DEF HandleMessage
<1>2. CASE TakesAnalysis /\ HandleAnalysis(Head(events).analysis)
  BY <1>2, DrainedOnce, SilentOnce DEF HandleAnalysis, DropAnalysis, Completed, outputVars
<1>3. CASE EndOfInput \/ ScheduleSynchronized \/ Worker \/ AnalysisPanics \/ Reader \/ UNCHANGED vars
  BY <1>3, SilentOnce
     DEF EndOfInput, ScheduleSynchronized, outputVars, Worker, TakeSnapshot, StartAnalysis, FinishAnalysis,
         AnalysisPanics, workerFrame, Reader, ReadMessage, ReadEnd, vars
<1>4. QED
  BY <1>1, <1>2, <1>3 DEF Next, MainLoop, Exited

-----------------------------------------------------------------------------
(* Queries wait only for the current revision.                             *)

LEMMA PendingStep ==
    ASSUME TypeOK, PendingAreCurrent, [Next]_vars
    PROVE  PendingAreCurrent'
<1>1. ASSUME pendingQueries' \subseteq pendingQueries, UNCHANGED <<revision, lifecycle>>
      PROVE  PendingAreCurrent'
  BY <1>1 DEF PendingAreCurrent
<1>2. CASE TakesInput /\ HandleMessage(Head(events).message)
  <2> DEFINE m == Head(events).message
  <2>1. CASE Initialize(m)
    BY <2>1 DEF Initialize, requestFrame, sessionVars, PendingAreCurrent
  <2>2. CASE Shutdown(m)
    BY <2>2 DEF Shutdown, PendingAreCurrent
  <2>3. CASE QueryLater(m)
    BY <2>3 DEF QueryLater, IsQuery, requestFrame, sessionVars, PendingAreCurrent
  <2>4. CASE Synchronize(m)
    BY <2>4 DEF Synchronize, Superseded, PendingAreCurrent
  <2>5. CASE \/ RefuseMessage(m) \/ RefuseRequest(m) \/ QueryInvalid(m) \/ QueryNow(m)
             \/ Exit(m) \/ IgnoreNotification(m) \/ Initialized(m) \/ CancelRequest(m)
             \/ RejectSync(m)
    BY <1>1, <2>5
       DEF RefuseMessage, RefuseRequest, QueryInvalid, QueryNow, Exit, IgnoreNotification,
           Initialized, CancelRequest, RejectSync, requestFrame, sessionVars
  <2>6. QED
    BY <1>2, <2>1, <2>2, <2>3, <2>4, <2>5 DEF HandleMessage
<1>3. CASE TakesAnalysis /\ HandleAnalysis(Head(events).analysis)
  BY <1>1, <1>3 DEF HandleAnalysis, DropAnalysis, AcceptAndPublish, Completed, sessionVars
<1>4. CASE EndOfInput \/ ScheduleSynchronized \/ Worker \/ AnalysisPanics \/ Reader \/ UNCHANGED vars
  BY <1>1, <1>4
     DEF EndOfInput, ScheduleSynchronized, requestFrame, Worker, TakeSnapshot, StartAnalysis, FinishAnalysis,
         AnalysisPanics, workerFrame, Reader, ReadMessage, ReadEnd, vars, sessionVars
<1>5. QED
  BY <1>2, <1>3, <1>4 DEF Next, MainLoop, Exited

-----------------------------------------------------------------------------
(* What a handler does to the session and to the worker's channel: nothing, *)
(* or it schedules an analysis of the session's revision, or it edits the  *)
(* session, and the worker is told of it later.                            *)

Idle == UNCHANGED <<sessionVars, requestedAnalysis, jobs, step>>

Schedules ==
    /\ UNCHANGED sessionVars
    /\ ScheduleAnalysis(Snapshot)
    /\ step' = "receive"

Edits ==
    /\ revision' = revision + 1
    /\ Snapshot' \in WorkspaceSnapshot
    /\ UNCHANGED <<requestedAnalysis, jobs, lifecycle>>
    /\ lifecycle = "Running"
    /\ step = "receive" /\ step' = "schedule"
    /\ \A q \in pendingQueries' : q \in pendingQueries /\ q.revision = revision'

LEMMA HandlerEffect ==
    ASSUME TypeOK, NEW m, TakesInput, m = Head(events).message, HandleMessage(m)
    PROVE  /\ events' = Tail(events) /\ events # <<>> /\ Head(events).type = "input"
           /\ UNCHANGED <<worker, published>>
           /\ latestAnalysis' = latestAnalysis
           /\ step = "receive"
           /\ \/ Idle /\ pendingQueries' \subseteq pendingQueries
              \/ Schedules
              \/ Edits
<1>1. Input
  BY HandlesInput
<1>2. /\ events' = Tail(events) /\ events # <<>> /\ Head(events).type = "input"
      /\ UNCHANGED <<worker, published>> /\ step = "receive"
  BY <1>1 DEF Input, NextEvent
<1>4. CASE QueryLater(m) \/ Initialized(m)
  <2>1. Schedules /\ latestAnalysis' = latestAnalysis
    BY <1>2, <1>4 DEF QueryLater, Initialized, requestFrame, Schedules
  <2>2. QED
    BY <1>2, <2>1
<1>5. CASE Synchronize(m)
  <2>1. revision' = revision + 1 /\ Snapshot' \in WorkspaceSnapshot
    BY <1>1, <1>5, SynchronizeMutates
  <2>2. latestAnalysis' = latestAnalysis
    BY <1>5 DEF Synchronize
  <2>3. Edits
    BY <1>2, <1>5, <2>1 DEF Synchronize, Superseded, Edits
  <2>4. QED
    BY <1>2, <2>2, <2>3
<1>6. CASE \/ RefuseMessage(m) \/ Initialize(m) \/ Shutdown(m) \/ RefuseRequest(m)
           \/ QueryInvalid(m) \/ QueryNow(m) \/ Exit(m) \/ IgnoreNotification(m)
           \/ CancelRequest(m) \/ RejectSync(m)
  <2>1. Idle /\ pendingQueries' \subseteq pendingQueries /\ latestAnalysis' = latestAnalysis
    BY <1>6
       DEF RefuseMessage, Initialize, Shutdown, RefuseRequest, QueryInvalid, QueryNow, Exit,
           IgnoreNotification, CancelRequest, RejectSync, requestFrame, noAnalysis, Idle
  <2>2. QED
    BY <1>2, <2>1
<1>7. QED
  BY <1>4, <1>5, <1>6 DEF HandleMessage

-----------------------------------------------------------------------------
(* No wakeup is lost, and every snapshot in flight is faithful.            *)

LEMMA TailElements ==
    ASSUME NEW S, NEW q \in Seq(S), q # <<>>
    PROVE  /\ Tail(q) \in Seq(S)
           /\ \A i \in DOMAIN Tail(q) : \E j \in DOMAIN q : Tail(q)[i] = q[j]
           /\ \A j \in DOMAIN q : j # 1 => \E i \in DOMAIN Tail(q) : Tail(q)[i] = q[j]
           /\ Tail(q) # <<>> => Tail(q)[Len(Tail(q))] = q[Len(q)]
           /\ Tail(q) = <<>> => Head(q) = q[Len(q)]
<1>1. /\ Tail(q) \in Seq(S) /\ Len(Tail(q)) = Len(q) - 1 /\ Len(q) \in Nat /\ Len(q) >= 1
      /\ \A i \in 1..(Len(q) - 1) : Tail(q)[i] = q[i + 1]
      /\ Head(q) = q[1] /\ DOMAIN q = 1..Len(q) /\ DOMAIN Tail(q) = 1..(Len(q) - 1)
  OBVIOUS
<1>2. ASSUME NEW j \in DOMAIN q, j # 1
      PROVE  \E i \in DOMAIN Tail(q) : Tail(q)[i] = q[j]
  <2>1. j - 1 \in DOMAIN Tail(q) /\ Tail(q)[j - 1] = q[(j - 1) + 1] /\ (j - 1) + 1 = j
    BY <1>1, <1>2
  <2>2. QED
    BY <2>1
<1>3. ASSUME NEW i \in DOMAIN Tail(q)
      PROVE  \E j \in DOMAIN q : Tail(q)[i] = q[j]
  <2>1. i + 1 \in DOMAIN q /\ Tail(q)[i] = q[i + 1]
    BY <1>1
  <2>2. QED
    BY <2>1
<1>4. Tail(q) # <<>> => Tail(q)[Len(Tail(q))] = q[Len(q)]
  <2>1. Tail(q) # <<>> => Len(Tail(q)) >= 1
    BY <1>1
  <2>2. QED
    BY <1>1, <2>1
<1>5. Tail(q) = <<>> => Len(q) = 1
  <2>1. Len(<<>>) = 0
    OBVIOUS
  <2>2. Tail(q) = <<>> => Len(q) - 1 = 0
    BY <1>1, <2>1
  <2>3. QED
    BY <1>1, <2>2
<1>6. QED
  BY <1>1, <1>2, <1>3, <1>4, <1>5

LEMMA AppendElements ==
    ASSUME NEW S, NEW q \in Seq(S), NEW x \in S
    PROVE  /\ Append(q, x) \in Seq(S) /\ Append(q, x) # <<>>
           /\ \A i \in DOMAIN Append(q, x) :
                Append(q, x)[i] = x \/ \E j \in DOMAIN q : Append(q, x)[i] = q[j]
           /\ \A j \in DOMAIN q : j \in DOMAIN Append(q, x) /\ Append(q, x)[j] = q[j]
           /\ Len(Append(q, x)) \in DOMAIN Append(q, x)
           /\ Append(q, x)[Len(Append(q, x))] = x
OBVIOUS

(* How one step can change what the session shows.                         *)
SessionMoves == \/ revision' = revision /\ Snapshot' = Snapshot
                \/ revision' = revision + 1

LEMMA FaithfulKept ==
    ASSUME SessionTypeOK, SessionMoves, NEW s \in WorkspaceSnapshot, Faithful(s)
    PROVE  s.id <= revision' /\ (s.id = revision' => s = Snapshot')
<1>1. s.id \in Nat /\ revision \in Nat
  BY RevisionAssumption DEF WorkspaceSnapshot, Revision, SessionTypeOK
<1>2. QED
  BY <1>1 DEF Faithful, IsCurrent, SessionMoves

LEMMA StillThere ==
    ASSUME SessionTypeOK
    PROVE  Snapshot.id = revision /\ revision \in Nat /\ revision <= revision
BY RevisionAssumption DEF Snapshot, SessionTypeOK, Revision

LEMMA InFlightTypes ==
    ASSUME TypeOK
    PROVE  /\ SessionTypeOK /\ events \in Seq(Event) /\ jobs \in Seq(WorkspaceSnapshot)
           /\ \A i \in DOMAIN jobs : jobs[i] \in WorkspaceSnapshot
           /\ latestAnalysis # Nothing => latestAnalysis \in WorkspaceSnapshot
           /\ worker.snapshot # Nothing => worker.snapshot \in WorkspaceSnapshot
           /\ \A i \in DOMAIN events : events[i].type = "analysis" =>
                                         events[i].analysis \in WorkspaceSnapshot
<1>1. /\ jobs \in Seq(WorkspaceSnapshot) /\ events \in Seq(Event) /\ SessionTypeOK
      /\ latestAnalysis # Nothing => latestAnalysis \in WorkspaceSnapshot
      /\ worker.snapshot # Nothing => worker.snapshot \in WorkspaceSnapshot
  BY DEF TypeOK
<1>2. \A i \in DOMAIN jobs : jobs[i] \in WorkspaceSnapshot
  BY <1>1
<1>3. ASSUME NEW i \in DOMAIN events, events[i].type = "analysis"
      PROVE  events[i].analysis \in WorkspaceSnapshot
  <2>1. events[i] \in Event
    BY <1>1
  <2>2. events[i] \in [type : {"analysis"}, analysis : WorkspaceSnapshot]
    BY <1>3, <2>1 DEF Event
  <2>3. QED
    BY <2>2
<1>4. QED
  BY <1>1, <1>2, <1>3

(* Snapshots only move, and a new one is the session's own.                *)
LEMMA FaithfulStep ==
    ASSUME TypeOK, SessionTypeOK', SnapshotsFaithful, SessionMoves,
           \A i \in DOMAIN jobs' :
              jobs'[i] = Snapshot' \/ \E j \in DOMAIN jobs : jobs'[i] = jobs[j],
           worker'.snapshot # Nothing =>
              \/ worker'.snapshot = worker.snapshot
              \/ \E j \in DOMAIN jobs : worker'.snapshot = jobs[j],
           latestAnalysis' # Nothing =>
              \/ latestAnalysis' = latestAnalysis
              \/ \E j \in DOMAIN events : /\ events[j].type = "analysis"
                                          /\ latestAnalysis' = events[j].analysis,
           \A i \in DOMAIN events' : events'[i].type = "analysis" =>
              \/ \E j \in DOMAIN events : events'[i] = events[j]
              \/ worker.snapshot # Nothing /\ events'[i].analysis = worker.snapshot
    PROVE  SnapshotsFaithful'
<1> DEFINE Kept(s) == s.id <= revision' /\ (s.id = revision' => s = Snapshot')
<1>1. (SessionTypeOK => Snapshot.id = revision /\ revision \in Nat /\ revision <= revision)'
  BY StillThere, PTL
<1>2. Kept(Snapshot')
  BY <1>1
<1>3. \A s \in WorkspaceSnapshot : Faithful(s) => Kept(s)
  BY FaithfulKept DEF TypeOK
<1>4. \A j \in DOMAIN jobs : Kept(jobs[j])
  BY <1>3, InFlightTypes DEF SnapshotsFaithful
<1>5. worker.snapshot # Nothing => Kept(worker.snapshot)
  BY <1>3, InFlightTypes DEF SnapshotsFaithful
<1>6. latestAnalysis # Nothing => Kept(latestAnalysis)
  BY <1>3, InFlightTypes DEF SnapshotsFaithful
<1>7. \A j \in DOMAIN events : events[j].type = "analysis" => Kept(events[j].analysis)
  BY <1>3, InFlightTypes DEF SnapshotsFaithful
<1> HIDE DEF Kept
<1>8. \A i \in DOMAIN jobs' : Kept(jobs'[i])
  BY <1>2, <1>4
<1>9. worker'.snapshot # Nothing => Kept(worker'.snapshot)
  BY <1>4, <1>5
<1>10. latestAnalysis' # Nothing => Kept(latestAnalysis')
  BY <1>6, <1>7
<1>11. ASSUME NEW i \in DOMAIN events', events'[i].type = "analysis"
       PROVE  Kept(events'[i].analysis)
  BY <1>5, <1>7, <1>11
<1>12. QED
  BY <1>8, <1>9, <1>10, <1>11 DEF Kept, SnapshotsFaithful, Faithful, IsCurrent

(* What each kind of step does to the snapshots in flight.                 *)
LEMMA SameEvents ==
    ASSUME TypeOK, events # <<>>, events' = Tail(events)
    PROVE  /\ \A i \in DOMAIN events' : \E j \in DOMAIN events : events'[i] = events[j]
           /\ \A j \in DOMAIN events : j # 1 => \E i \in DOMAIN events' : events'[i] = events[j]
           /\ 1 \in DOMAIN events /\ Head(events) = events[1]
<1>1. events \in Seq(Event)
  BY EventFacts
<1>2. /\ \A i \in DOMAIN Tail(events) : \E j \in DOMAIN events : Tail(events)[i] = events[j]
      /\ \A j \in DOMAIN events : j # 1 => \E i \in DOMAIN Tail(events) : Tail(events)[i] = events[j]
  BY <1>1, TailElements
<1>3. 1 \in DOMAIN events /\ Head(events) = events[1]
  BY <1>1, TakeFirst
<1>4. QED
  BY <1>2, <1>3

LEMMA ScheduledJobs ==
    ASSUME TypeOK, NEW s \in WorkspaceSnapshot, ScheduleAnalysis(s)
    PROVE  \A i \in DOMAIN jobs' : jobs'[i] = s \/ \E j \in DOMAIN jobs : jobs'[i] = jobs[j]
<1>1. \A i \in DOMAIN Append(jobs, s) :
         Append(jobs, s)[i] = s \/ \E j \in DOMAIN jobs : Append(jobs, s)[i] = jobs[j]
  BY InFlightTypes, AppendElements
<1>2. jobs' = jobs \/ jobs' = Append(jobs, s)
  BY DEF ScheduleAnalysis
<1>3. QED
  BY <1>1, <1>2

LEMMA StillMoves == ASSUME SessionTypeOK, UNCHANGED sessionVars PROVE SessionMoves
BY SessionFrame DEF SessionMoves

LEMMA FaithfulNext ==
    ASSUME TypeOK, TypeOK', SnapshotsFaithful, [Next]_vars
    PROVE  SnapshotsFaithful'
<1>1. SessionTypeOK' /\ SessionTypeOK
  BY DEF TypeOK
<1>2. CASE TakesInput /\ HandleMessage(Head(events).message)
  <2>1. /\ events' = Tail(events) /\ events # <<>> /\ UNCHANGED worker
        /\ latestAnalysis' = latestAnalysis
        /\ Idle \/ Schedules \/ Edits
    BY <1>2, HandlerEffect
  <2>2. SessionMoves
    BY <1>1, <2>1, StillMoves DEF Idle, Schedules, Edits, SessionMoves
  <2>3. \A i \in DOMAIN jobs' : jobs'[i] = Snapshot' \/ \E j \in DOMAIN jobs : jobs'[i] = jobs[j]
    <3>1. CASE Schedules
      BY <1>1, <3>1, SnapshotType, SessionFrame, ScheduledJobs DEF Schedules
    <3>2. QED
      BY <2>1, <3>1 DEF Idle, Edits
  <2>4. QED
    BY <1>1, <2>1, <2>2, <2>3, SameEvents, FaithfulStep
<1>3. CASE TakesAnalysis /\ HandleAnalysis(Head(events).analysis)
  <2>1. /\ events' = Tail(events) /\ events # <<>> /\ UNCHANGED <<worker, jobs, sessionVars>>
        /\ latestAnalysis' = latestAnalysis \/ latestAnalysis' = Head(events).analysis
        /\ Head(events).type = "analysis"
    BY <1>3 DEF HandleAnalysis, DropAnalysis, AcceptAndPublish, Completed, NextEvent, TakesAnalysis
  <2>2. QED
    BY <1>1, <2>1, SameEvents, StillMoves, FaithfulStep
<1>4. CASE EndOfInput
  <2>1. /\ events' = Tail(events) /\ events # <<>>
        /\ UNCHANGED <<worker, jobs, sessionVars, latestAnalysis>>
    BY <1>4 DEF EndOfInput, NextEvent, requestFrame, noAnalysis
  <2>2. QED
    BY <1>1, <2>1, SameEvents, StillMoves, FaithfulStep
<1>5. CASE Reader
  <2>1. PICK e : /\ events' = Append(events, e) /\ e \in Event /\ e.type # "analysis"
                 /\ UNCHANGED <<worker, jobs, sessionVars, latestAnalysis>>
    <3>1. CASE \E m \in ClientMessage : ReadMessage(m)
      <4>1. PICK m \in ClientMessage : ReadMessage(m)
        BY <3>1
      <4>2. received' \in Ticket
        BY <4>1, ServerAssumption DEF ReadMessage, Ticket, TypeOK
      <4>3. [type |-> "input", ticket |-> received', message |-> m] \in Event
        BY <4>2 DEF Event
      <4>4. QED
        BY <4>1, <4>3 DEF ReadMessage
    <3>2. CASE \E how \in {"eof", "framing"} : ReadEnd(how)
      BY <3>2 DEF ReadEnd, Event
    <3>3. QED
      BY <1>5, <3>1, <3>2 DEF Reader
  <2>2. \A i \in DOMAIN events' : events'[i].type = "analysis" =>
           \E j \in DOMAIN events : events'[i] = events[j]
    BY <2>1, AppendElements, InFlightTypes
  <2>3. QED
    BY <1>1, <2>1, <2>2, StillMoves, FaithfulStep
<1>6. CASE TakeSnapshot
  <2>1. /\ jobs' = Tail(jobs) /\ jobs # <<>> /\ worker'.snapshot = Head(jobs)
        /\ UNCHANGED <<events, sessionVars, latestAnalysis>>
    BY <1>6 DEF TakeSnapshot, workerFrame
  <2>2. /\ \A i \in DOMAIN jobs' : \E j \in DOMAIN jobs : jobs'[i] = jobs[j]
        /\ 1 \in DOMAIN jobs /\ Head(jobs) = jobs[1]
    BY <2>1, InFlightTypes, TailElements, TakeFirst
  <2>3. QED
    BY <1>1, <2>1, <2>2, StillMoves, FaithfulStep
<1>7. CASE StartAnalysis
  <2>1. worker'.snapshot = worker.snapshot
    BY <1>7 DEF StartAnalysis, TypeOK
  <2>2. QED
    BY <1>1, <1>7, <2>1, StillMoves, FaithfulStep DEF StartAnalysis, workerFrame
<1>8. CASE FinishAnalysis
  <2> DEFINE e == [type |-> "analysis", analysis |-> worker.snapshot]
  <2>1. /\ events' = Append(events, e) /\ worker'.snapshot = Nothing /\ worker.snapshot # Nothing
        /\ UNCHANGED <<jobs, sessionVars, latestAnalysis>>
    BY <1>8, ServerAssumption DEF FinishAnalysis, workerFrame, TypeOK
  <2>2. e \in Event /\ e.analysis = worker.snapshot
    BY <2>1, InFlightTypes DEF Event
  <2> HIDE DEF e
  <2>3. \A i \in DOMAIN events' : \/ events'[i].analysis = worker.snapshot
                                  \/ \E j \in DOMAIN events : events'[i] = events[j]
    BY <2>1, <2>2, AppendElements, InFlightTypes
  <2>4. QED
    BY <1>1, <2>1, <2>3, StillMoves, FaithfulStep
<1>9. CASE AnalysisPanics
  <2>1. /\ jobs' = <<>> /\ worker'.snapshot = Nothing
        /\ UNCHANGED <<events, sessionVars, latestAnalysis>>
    BY <1>9 DEF AnalysisPanics, workerFrame
  <2>2. QED
    BY <1>1, <2>1, StillMoves, FaithfulStep
<1>10. CASE ScheduleSynchronized
  <2>1. UNCHANGED <<worker, events, sessionVars, latestAnalysis>> /\ ScheduleAnalysis(Snapshot)
    BY <1>10 DEF ScheduleSynchronized
  <2>2. \A i \in DOMAIN jobs' : jobs'[i] = Snapshot' \/ \E j \in DOMAIN jobs : jobs'[i] = jobs[j]
    BY <1>1, <2>1, SnapshotType, SessionFrame, ScheduledJobs
  <2>3. QED
    BY <1>1, <2>1, <2>2, StillMoves, FaithfulStep
<1>11. CASE UNCHANGED vars
  BY <1>1, <1>11, StillMoves, FaithfulStep DEF vars, channelVars
<1>12. QED
  BY <1>2, <1>3, <1>4, <1>5, <1>6, <1>7, <1>8, <1>9, <1>10, <1>11
     DEF Next, MainLoop, Worker, Exited

LEMMA EditToSendNext ==
    ASSUME TypeOK, PendingAreCurrent, EditToSend, [Next]_vars
    PROVE  EditToSend'
<1>1. CASE TakesInput /\ HandleMessage(Head(events).message)
  <2>1. step = "receive" /\ (Idle \/ Schedules \/ Edits)
    BY <1>1, HandlerEffect
  <2>2. CASE Edits
    <3>1. revision \in Nat
      BY StillThere DEF TypeOK
    <3>2. pendingQueries' = {}
      BY <2>2, <3>1 DEF Edits, PendingAreCurrent
    <3>3. QED
      BY <2>2, <3>1, <3>2 DEF Edits, EditToSend
  <2>3. QED
    BY <2>1, <2>2 DEF Idle, Schedules, EditToSend
<1>2. CASE TakesAnalysis /\ HandleAnalysis(Head(events).analysis)
  BY <1>2 DEF HandleAnalysis, DropAnalysis, AcceptAndPublish, Completed, NextEvent, EditToSend
<1>3. CASE EndOfInput \/ ScheduleSynchronized
  BY <1>3 DEF EndOfInput, NextEvent, noAnalysis, ScheduleSynchronized, EditToSend
<1>4. CASE Worker \/ AnalysisPanics \/ Reader \/ UNCHANGED vars
  BY <1>4
     DEF Worker, TakeSnapshot, StartAnalysis, FinishAnalysis, AnalysisPanics, workerFrame,
         Reader, ReadMessage, ReadEnd, vars, sessionVars, EditToSend
<1>5. QED
  BY <1>1, <1>2, <1>3, <1>4 DEF Next, MainLoop, Exited

(* Scheduling leaves the requested revision current and its analysis on    *)
(* the way.                                                                *)
LEMMA ScheduleWakes ==
    ASSUME TypeOK, RequestedIsCurrent, WorkerDiscipline, NoLostWakeup,
           Schedules, UNCHANGED worker,
           \A j \in DOMAIN events : events[j].type = "analysis" =>
              \E i \in DOMAIN events' : events'[i] = events[j]
    PROVE  RequestedIsCurrent' /\ WorkerDiscipline' /\ NoLostWakeup'
<1> DEFINE s == Snapshot
<1>1. /\ s \in WorkspaceSnapshot /\ s.id = revision /\ ScheduleAnalysis(s)
      /\ revision' = revision /\ Announced' = revision
  <2>1. SessionTypeOK /\ s \in WorkspaceSnapshot
    BY SnapshotType DEF TypeOK
  <2>2. s.id = revision
    BY DEF Snapshot
  <2>3. revision' = revision /\ step' = "receive"
    BY DEF Schedules, sessionVars
  <2>4. QED
    BY <2>1, <2>2, <2>3 DEF Schedules, Announced
<1>2. jobs \in Seq(WorkspaceSnapshot) /\ revision \in Nat /\ Nothing # revision
  <2>1. revision \in Nat
    BY StillThere DEF TypeOK
  <2>2. revision \in Revision
    BY <1>1 DEF WorkspaceSnapshot
  <2>3. QED
    BY <2>1, <2>2, ServerAssumption DEF TypeOK
<1> HIDE DEF s
<1>3. CASE requestedAnalysis = s.id
  <2>1. Announced = revision /\ UNCHANGED <<requestedAnalysis, jobs>>
    BY <1>1, <1>2, <1>3 DEF RequestedIsCurrent, Announced, ScheduleAnalysis
  <2>2. RequestedIsCurrent' /\ WorkerDiscipline'
    BY <1>1, <2>1 DEF RequestedIsCurrent, WorkerDiscipline
  <2>3. requestedAnalysis' = revision' /\ requestedAnalysis # Nothing
    BY <1>1, <1>2, <1>3, <2>1
  <2>4. ASSUME worker.state # "dead" PROVE AnalysisOnItsWay'
    <3>1. AnalysisOnItsWay
      BY <2>3, <2>4 DEF NoLostWakeup
    <3>2. QED
      BY <2>1, <3>1 DEF AnalysisOnItsWay
  <2>5. QED
    BY <2>2, <2>3, <2>4 DEF NoLostWakeup
<1>4. CASE requestedAnalysis # s.id
  <2>1. requestedAnalysis' = revision'
    BY <1>1, <1>4 DEF ScheduleAnalysis
  <2>2. CASE worker.state = "dead"
    <3>1. jobs' = <<>> /\ worker'.state = "dead"
      BY <1>4, <1>1, <2>2 DEF ScheduleAnalysis, WorkerDiscipline
    <3>2. QED
      BY <1>1, <2>1, <3>1 DEF RequestedIsCurrent, WorkerDiscipline, NoLostWakeup
  <2>3. CASE worker.state # "dead"
    <3>1. jobs' = Append(jobs, s)
      BY <1>1, <1>4, <2>3 DEF ScheduleAnalysis
    <3>2. jobs' # <<>> /\ jobs'[Len(jobs')] = s
      BY <1>1, <1>2, <3>1, AppendElements
    <3>3. QED
      BY <1>1, <2>1, <2>3, <3>2
         DEF RequestedIsCurrent, WorkerDiscipline, NoLostWakeup, AnalysisOnItsWay
  <2>4. QED
    BY <2>2, <2>3
<1>5. QED
  BY <1>3, <1>4

(* A step that takes an event and leaves the rest of the machinery alone,  *)
(* when the event is not the analysis that is waited for.                  *)
LEMMA TakingWakes ==
    ASSUME TypeOK, RequestedIsCurrent, WorkerDiscipline, NoLostWakeup,
           UNCHANGED <<worker, jobs>>, Announced' = Announced,
           \/ /\ requestedAnalysis' = requestedAnalysis
              /\ Head(events).type = "analysis" => Head(events).analysis.id # requestedAnalysis
           \/ requestedAnalysis' = Nothing /\ requestedAnalysis # revision,
           \/ pendingQueries' = {}
           \/ pendingQueries' \subseteq pendingQueries /\ UNCHANGED revision,
           events' = Tail(events), events # <<>>
    PROVE  RequestedIsCurrent' /\ WorkerDiscipline' /\ NoLostWakeup'
<1>1. RequestedIsCurrent' /\ WorkerDiscipline'
  BY DEF RequestedIsCurrent, WorkerDiscipline
<1>2. pendingQueries' # {} => requestedAnalysis' = revision'
  BY DEF NoLostWakeup
<1>3. ASSUME requestedAnalysis' # Nothing, worker'.state # "dead" PROVE AnalysisOnItsWay'
  <2>1. /\ AnalysisOnItsWay /\ requestedAnalysis' = requestedAnalysis
        /\ Head(events).type = "analysis" => Head(events).analysis.id # requestedAnalysis
    BY <1>3 DEF NoLostWakeup
  <2>2. CASE \E j \in DOMAIN events :
               events[j].type = "analysis" /\ events[j].analysis.id = requestedAnalysis
    <3>1. PICK j \in DOMAIN events :
                 events[j].type = "analysis" /\ events[j].analysis.id = requestedAnalysis
      BY <2>2
    <3>2. j # 1
      BY <2>1, <3>1, SameEvents
    <3>3. PICK i \in DOMAIN events' : events'[i] = events[j]
      BY <3>2, SameEvents
    <3>4. QED
      BY <2>1, <3>1, <3>3 DEF AnalysisOnItsWay
  <2>3. QED
    BY <2>1, <2>2 DEF AnalysisOnItsWay
<1>4. QED
  BY <1>1, <1>2, <1>3 DEF NoLostWakeup

(* A step of the reader or the worker that adds an event.                  *)
LEMMA AddingWakes ==
    ASSUME TypeOK, RequestedIsCurrent, WorkerDiscipline, NoLostWakeup,
           UNCHANGED <<jobs, revision, step, requestedAnalysis, pendingQueries>>,
           NEW e \in Event, events' = Append(events, e),
           \/ worker' = worker
           \/ /\ worker.state = "analysing" /\ worker'.state = "idle"
              /\ e.type = "analysis" /\ e.analysis = worker.snapshot
    PROVE  RequestedIsCurrent' /\ WorkerDiscipline' /\ NoLostWakeup'
<1>1. RequestedIsCurrent' /\ WorkerDiscipline'
  BY DEF RequestedIsCurrent, WorkerDiscipline, Announced
<1>2. /\ \A j \in DOMAIN events : j \in DOMAIN events' /\ events'[j] = events[j]
      /\ Len(events') \in DOMAIN events' /\ events'[Len(events')] = e
  BY InFlightTypes, AppendElements
<1>3. ASSUME requestedAnalysis' # Nothing, worker'.state # "dead" PROVE AnalysisOnItsWay'
  <2>1. AnalysisOnItsWay
    BY <1>3 DEF NoLostWakeup
  <2>2. CASE \E j \in DOMAIN events :
               events[j].type = "analysis" /\ events[j].analysis.id = requestedAnalysis
    BY <1>2, <2>2 DEF AnalysisOnItsWay
  <2>3. CASE jobs # <<>> /\ jobs[Len(jobs)].id = requestedAnalysis
    BY <2>3 DEF AnalysisOnItsWay
  <2>4. CASE jobs = <<>> /\ worker.snapshot # Nothing /\ worker.snapshot.id = requestedAnalysis
    BY <1>2, <2>4 DEF AnalysisOnItsWay
  <2>5. QED
    BY <2>1, <2>2, <2>3, <2>4 DEF AnalysisOnItsWay
<1>4. QED
  BY <1>1, <1>3 DEF NoLostWakeup

LEMMA WakeupNext ==
    ASSUME TypeOK, PendingAreCurrent, EditToSend,
           RequestedIsCurrent, WorkerDiscipline, NoLostWakeup, [Next]_vars
    PROVE  RequestedIsCurrent' /\ WorkerDiscipline' /\ NoLostWakeup'
<1>1. CASE TakesInput /\ HandleMessage(Head(events).message)
  <2>1. /\ events' = Tail(events) /\ events # <<>> /\ Head(events).type = "input"
        /\ UNCHANGED worker
        /\ (Idle /\ pendingQueries' \subseteq pendingQueries) \/ Schedules \/ Edits
    BY <1>1, HandlerEffect
  <2>2. CASE Schedules
    <3>1. \A j \in DOMAIN events : events[j].type = "analysis" =>
             \E i \in DOMAIN events' : events'[i] = events[j]
      BY <2>1, SameEvents
    <3>2. QED
      BY <2>1, <2>2, <3>1, ScheduleWakes
  <2>3. CASE Idle /\ pendingQueries' \subseteq pendingQueries
    <3>1. UNCHANGED <<jobs, revision, requestedAnalysis>> /\ Announced' = Announced
      BY <2>3 DEF Idle, sessionVars, Announced
    <3>2. QED
      BY <2>1, <2>3, <3>1, TakingWakes
  <2>4. CASE Edits
    <3>1. revision \in Nat
      BY StillThere DEF TypeOK
    <3>2. UNCHANGED <<jobs, requestedAnalysis>> /\ Announced' = Announced
      BY <2>4, <3>1 DEF Edits, Announced
    <3>3. pendingQueries' = {}
      BY <2>4, <3>1 DEF Edits, PendingAreCurrent
    <3>4. QED
      BY <2>1, <3>2, <3>3, TakingWakes
  <2>5. QED
    BY <2>1, <2>2, <2>3, <2>4
<1>2. CASE TakesAnalysis /\ HandleAnalysis(Head(events).analysis)
  <2> DEFINE s == Head(events).analysis
  <2>1. /\ Completed(s) /\ events' = Tail(events) /\ events # <<>>
        /\ UNCHANGED <<worker, jobs, revision, step>> /\ step = "receive"
        /\ requestedAnalysis' = ClearRequested(s)
    BY <1>2 DEF HandleAnalysis, DropAnalysis, AcceptAndPublish, Completed, NextEvent, sessionVars
  <2>2. Announced' = Announced /\ Announced = revision
    BY <2>1 DEF Announced
  <2>3. CASE DropAnalysis(s)
    <3>1. s.id # revision /\ pendingQueries' = pendingQueries
      BY <2>3 DEF DropAnalysis, Gate, IsCurrent
    <3>2. \/ requestedAnalysis' = requestedAnalysis /\ s.id # requestedAnalysis
          \/ requestedAnalysis' = Nothing /\ requestedAnalysis # revision
      BY <2>1, <3>1 DEF ClearRequested
    <3>3. QED
      BY <2>1, <2>2, <3>1, <3>2, TakingWakes
  <2>4. CASE AcceptAndPublish(s)
    <3>1. requestedAnalysis' = Nothing /\ pendingQueries' = {}
      BY <2>1, <2>2, <2>4 DEF AcceptAndPublish, Gate, IsCurrent, ClearRequested, RequestedIsCurrent
    <3>2. QED
      BY <2>1, <2>2, <3>1 DEF RequestedIsCurrent, WorkerDiscipline, NoLostWakeup
  <2>5. QED
    BY <1>2, <2>3, <2>4 DEF HandleAnalysis
<1>3. CASE EndOfInput
  <2>1. /\ events' = Tail(events) /\ events # <<>> /\ Head(events).type # "analysis"
        /\ UNCHANGED <<worker, jobs, revision, step, requestedAnalysis, pendingQueries>>
    BY <1>3 DEF EndOfInput, NextEvent, requestFrame, noAnalysis, sessionVars
  <2>2. Announced' = Announced
    BY <2>1 DEF Announced
  <2>3. QED
    BY <2>1, <2>2, TakingWakes
<1>4. CASE \E m \in ClientMessage : ReadMessage(m)
  <2>1. PICK m \in ClientMessage : ReadMessage(m)
    BY <1>4
  <2> DEFINE e == [type |-> "input", ticket |-> received', message |-> m]
  <2>2. received' \in Ticket
    BY <2>1, ServerAssumption DEF ReadMessage, Ticket, TypeOK
  <2>3. /\ e \in Event /\ events' = Append(events, e)
        /\ UNCHANGED <<worker, jobs, revision, step, requestedAnalysis, pendingQueries>>
    BY <2>1, <2>2 DEF ReadMessage, Event, sessionVars
  <2> HIDE DEF e
  <2>4. QED
    BY <2>3, AddingWakes
<1>5. CASE \E how \in {"eof", "framing"} : ReadEnd(how)
  <2>1. PICK how \in {"eof", "framing"} : ReadEnd(how)
    BY <1>5
  <2> DEFINE e == [type |-> how]
  <2>2. /\ e \in Event /\ events' = Append(events, e)
        /\ UNCHANGED <<worker, jobs, revision, step, requestedAnalysis, pendingQueries>>
    BY <2>1 DEF ReadEnd, Event, sessionVars
  <2> HIDE DEF e
  <2>3. QED
    BY <2>2, AddingWakes
<1>6. CASE TakeSnapshot
  <2>1. /\ jobs' = Tail(jobs) /\ jobs # <<>>
        /\ worker'.state = "draining" /\ worker'.snapshot = Head(jobs)
        /\ UNCHANGED <<events, revision, step, requestedAnalysis, pendingQueries>>
        /\ worker.state # "dead"
    BY <1>6 DEF TakeSnapshot, workerFrame, sessionVars
  <2>2. jobs[Len(jobs)].id = Announced /\ Announced' = Announced
    BY <2>1 DEF WorkerDiscipline, Announced
  <2>3. /\ jobs' # <<>> => jobs'[Len(jobs')] = jobs[Len(jobs)]
        /\ jobs' = <<>> => worker'.snapshot = jobs[Len(jobs)]
    BY <2>1, InFlightTypes, TailElements
  <2>4. jobs[Len(jobs)] # Nothing
    <3>1. Len(jobs) \in DOMAIN jobs
      BY <2>1, InFlightTypes
    <3>2. QED
      BY <3>1, InFlightTypes, ServerAssumption
  <2>5. /\ RequestedIsCurrent' /\ WorkerDiscipline'
        /\ requestedAnalysis' # Nothing => AnalysisOnItsWay'
    BY <2>1, <2>2, <2>3, <2>4 DEF RequestedIsCurrent, WorkerDiscipline, AnalysisOnItsWay
  <2>6. QED
    BY <2>1, <2>5 DEF NoLostWakeup
<1>7. CASE StartAnalysis
  <2>1. /\ worker'.state = "analysing" /\ worker'.snapshot = worker.snapshot
        /\ worker.state = "draining"
        /\ UNCHANGED <<jobs, events, revision, step, requestedAnalysis, pendingQueries>>
    BY <1>7 DEF StartAnalysis, workerFrame, sessionVars, TypeOK
  <2>2. QED
    BY <2>1
       DEF RequestedIsCurrent, WorkerDiscipline, NoLostWakeup, AnalysisOnItsWay, Announced
<1>8. CASE FinishAnalysis
  <2> DEFINE e == [type |-> "analysis", analysis |-> worker.snapshot]
  <2>1. /\ events' = Append(events, e) /\ worker'.state = "idle" /\ worker.state = "analysing"
        /\ UNCHANGED <<jobs, revision, step, requestedAnalysis, pendingQueries>>
    BY <1>8 DEF FinishAnalysis, workerFrame, sessionVars
  <2>2. worker.snapshot # Nothing
    BY <2>1, ServerAssumption DEF TypeOK
  <2>3. e \in Event /\ e.type = "analysis" /\ e.analysis = worker.snapshot
    BY <2>2, InFlightTypes DEF Event
  <2> HIDE DEF e
  <2>4. QED
    BY <2>1, <2>3, AddingWakes
<1>9. CASE AnalysisPanics
  <2>1. /\ jobs' = <<>> /\ worker'.state = "dead"
        /\ UNCHANGED <<events, revision, step, requestedAnalysis, pendingQueries>>
    BY <1>9 DEF AnalysisPanics, workerFrame, sessionVars
  <2>2. QED
    BY <2>1 DEF RequestedIsCurrent, WorkerDiscipline, NoLostWakeup, Announced
<1>10. CASE ScheduleSynchronized
  <2>1. Schedules /\ UNCHANGED <<worker, events>>
    BY <1>10 DEF ScheduleSynchronized, Schedules
  <2>2. QED
    BY <2>1, ScheduleWakes
<1>11. CASE UNCHANGED vars
  BY <1>11
     DEF vars, channelVars, sessionVars, RequestedIsCurrent, WorkerDiscipline, NoLostWakeup,
         AnalysisOnItsWay, Announced
<1>12. QED
  BY <1>1, <1>2, <1>3, <1>4, <1>5, <1>6, <1>7, <1>8, <1>9, <1>10, <1>11
     DEF Next, Reader, Worker, MainLoop, Exited

-----------------------------------------------------------------------------
LEMMA InitInv == Init => ServerInv
<1> SUFFICES ASSUME Init PROVE ServerInv
  OBVIOUS
<1>1. TypeOK
  BY InitType
<1>2. /\ events = <<>> /\ jobs = <<>> /\ DOMAIN events = {} /\ DOMAIN jobs = {}
      /\ handled = 0 /\ received = 0
      /\ pendingQueries = {} /\ requestedAnalysis = Nothing /\ latestAnalysis = Nothing
      /\ worker.snapshot = Nothing /\ worker.state = "idle" /\ step = "receive"
      /\ \A t \in Ticket : replies[t] = <<>>
  BY DEF Init
<1>3. \A t \in Ticket : Len(replies[t]) <= 1
  BY <1>2
<1>4. QED
  BY <1>1, <1>2, <1>3
     DEF ServerInv, EventTickets, RequestedIsCurrent, WorkerDiscipline, EditToSend,
         CompletedOnce, PendingAreCurrent, NoLostWakeup, SnapshotsFaithful

(* The inductive invariant of the server.                                  *)
THEOREM ServerInvariant == Spec => []ServerInv
<1>1. ServerInv /\ [Next]_vars => ServerInv'
  <2> SUFFICES ASSUME ServerInv, [Next]_vars PROVE ServerInv'
    OBVIOUS
  <2>1. TypeOK'
    BY TypeStep DEF ServerInv
  <2>2. EventTickets'
    BY EventTicketsStep DEF ServerInv
  <2>3. CompletedOnce'
    BY CompletedOnceStep DEF ServerInv
  <2>4. PendingAreCurrent'
    BY PendingStep DEF ServerInv
  <2>5. RequestedIsCurrent' /\ WorkerDiscipline' /\ NoLostWakeup'
    BY WakeupNext DEF ServerInv
  <2>6. SnapshotsFaithful'
    BY <2>1, FaithfulNext DEF ServerInv
  <2>7. EditToSend'
    BY EditToSendNext DEF ServerInv
  <2>8. QED
    BY <2>1, <2>2, <2>3, <2>4, <2>5, <2>6, <2>7 DEF ServerInv
<1>2. QED
  BY InitInv, <1>1, PTL DEF Spec

(* No request is completed twice, and one that waits was not completed:    *)
(* cancellation, supersession, shutdown and a late analysis take a query   *)
(* out of pending_queries as they answer it.                               *)
THEOREM RequestsCompletedOnce == Spec => []CompletedOnce
BY ServerInvariant, PTL DEF ServerInv

(* Queries wait only for the revision the session has, and only while the  *)
(* server runs.                                                            *)
THEOREM QueriesWaitForCurrent == Spec => []PendingAreCurrent
BY ServerInvariant, PTL DEF ServerInv

(* While a query waits, its analysis is scheduled, and it is on its way    *)
(* unless the worker thread has died.                                      *)
THEOREM NoWakeupIsLost == Spec => []NoLostWakeup
BY ServerInvariant, PTL DEF ServerInv

(* Whatever thread or channel a snapshot is in, equal revisions mean equal *)
(* texts: the test in accept_analysis is enough.                           *)
THEOREM FaithfulSnapshots == Spec => []SnapshotsFaithful
BY ServerInvariant, PTL DEF ServerInv

-----------------------------------------------------------------------------
(* What a step may never do.                                               *)

GoodReply(r) == r.code = "Answer" => r.basis = revision /\ revision' = revision

LEMMA NewReplies ==
    ASSUME TypeOK, NEW t \in Ticket,
           replies'[t] = replies[t] \/ \E r : GoodReply(r) /\ replies'[t] = Append(replies[t], r)
    PROVE  \A r \in {replies'[t][i] : i \in DOMAIN replies'[t] \ DOMAIN replies[t]} :
              r.code = "Answer" => r.basis = revision /\ revision' = revision
<1>1. replies[t] \in Seq(Reply)
  BY DEF TypeOK
<1>2. CASE replies'[t] = replies[t]
  BY <1>2
<1>3. CASE \E r : GoodReply(r) /\ replies'[t] = Append(replies[t], r)
  <2>1. PICK r : GoodReply(r) /\ replies'[t] = Append(replies[t], r)
    BY <1>3
  <2>2. \A i \in DOMAIN replies'[t] \ DOMAIN replies[t] : replies'[t][i] = r
    BY <1>1, <2>1
  <2>3. QED
    BY <2>1, <2>2 DEF GoodReply
<1>4. QED
  BY <1>2, <1>3

LEMMA RefusalsAreGood ==
    \A c \in {"Ack", "ParseError", "InvalidRequest", "InvalidParams", "MethodNotFound",
              "NotInitialized", "RequestFailed", "ContentModified", "RequestCancelled"} :
        GoodReply(Code(c))
BY DEF GoodReply, Code

LEMMA CurrentReplyIsGood ==
    ASSUME NEW s, s # Nothing, IsCurrent(s), UNCHANGED revision, NEW kind
    PROVE  GoodReply(QueryReply(kind, s))
BY RefusalsAreGood DEF QueryReply, AnalysisFor, IsCurrent, GoodReply

LEMMA AnsweredGood ==
    ASSUME NEW tickets, NEW r, GoodReply(r), replies' = Answered(tickets, r), NEW t \in Ticket
    PROVE  replies'[t] = replies[t] \/ \E x : GoodReply(x) /\ replies'[t] = Append(replies[t], x)
BY DEF Answered

LEMMA GoodReplies ==
    ASSUME ServerInv, [Next]_vars, NEW t \in Ticket
    PROVE  replies'[t] = replies[t] \/ \E x : GoodReply(x) /\ replies'[t] = Append(replies[t], x)
<1>1. CASE TakesInput /\ HandleMessage(Head(events).message)
  <2> DEFINE m == Head(events).message
  <2>1. Input
    BY <1>1, HandlesInput
  <2>2. CASE RefuseMessage(m) \/ Initialize(m) \/ RefuseRequest(m) \/ QueryInvalid(m)
    <3>1. PICK c \in {"Ack", "ParseError", "InvalidRequest", "InvalidParams", "MethodNotFound",
                      "NotInitialized"} : ReplyTo(Code(c))
      BY <2>2 DEF RefuseMessage, Initialize, RefuseRequest, QueryInvalid
    <3>2. GoodReply(Code(c))
      BY RefusalsAreGood
    <3>3. QED
      BY <3>1, <3>2, AnsweredGood DEF ReplyTo
  <2>3. CASE Shutdown(m)
    <3> DEFINE cancelled == Answered(Tickets(pendingQueries), Code("RequestCancelled"))
    <3>1. handled' \in Ticket /\ replies[handled'] = <<>> /\ handled' \notin Tickets(pendingQueries)
      BY <2>1, FreshTicket DEF Tickets, ServerInv
    <3>2. replies' = [cancelled EXCEPT ![handled'] = Append(@, Code("Ack"))]
      BY <2>3 DEF Shutdown
    <3>3. DOMAIN cancelled = Ticket
      BY DEF Answered
    <3>4. cancelled[handled'] = replies[handled']
      BY <3>1 DEF Answered
    <3>5. CASE t = handled'
      BY <3>1, <3>2, <3>3, <3>4, <3>5, RefusalsAreGood
    <3>6. CASE t # handled'
      <4>1. replies'[t] = cancelled[t]
        BY <3>2, <3>3, <3>6
      <4>2. QED
        BY <4>1, RefusalsAreGood DEF Answered
    <3>7. QED
      BY <3>5, <3>6
  <2>4. CASE QueryNow(m)
    <3>1. GoodReply(QueryReply(m.method, latestAnalysis))
      BY <2>4, CurrentReplyIsGood DEF QueryNow, HaveCurrentAnalysis, requestFrame, sessionVars
    <3>2. QED
      BY <2>4, <3>1, AnsweredGood DEF QueryNow, ReplyTo
  <2>5. CASE CancelRequest(m)
    BY <2>5, AnsweredGood, RefusalsAreGood DEF CancelRequest
  <2>6. CASE Synchronize(m)
    BY <2>6, AnsweredGood, RefusalsAreGood DEF Synchronize
  <2>7. CASE QueryLater(m) \/ Exit(m) \/ IgnoreNotification(m) \/ Initialized(m) \/ RejectSync(m)
    BY <2>7 DEF QueryLater, Exit, IgnoreNotification, Initialized, RejectSync
  <2>8. QED
    BY <1>1, <2>2, <2>3, <2>4, <2>5, <2>6, <2>7 DEF HandleMessage
<1>2. CASE TakesAnalysis /\ HandleAnalysis(Head(events).analysis)
  <2> DEFINE s == Head(events).analysis
  <2>1. CASE DropAnalysis(s)
    BY <2>1 DEF DropAnalysis, outputVars
  <2>2. CASE AcceptAndPublish(s)
    <3>1. /\ IsCurrent(s) /\ UNCHANGED revision /\ replies' = Drained(s)
          /\ NextEvent("analysis")
      BY <2>2 DEF AcceptAndPublish, Gate, Completed, sessionVars
    <3>2. s # Nothing
      BY <3>1, HeadIsAnalysis, ServerAssumption DEF ServerInv
    <3>3. \A kind : GoodReply(QueryReply(kind, s))
      BY <3>1, <3>2, CurrentReplyIsGood
    <3>4. QED
      BY <3>1, <3>3, RefusalsAreGood DEF Drained
  <2>3. QED
    BY <1>2, <2>1, <2>2 DEF HandleAnalysis
<1>3. CASE EndOfInput \/ ScheduleSynchronized \/ Worker \/ AnalysisPanics \/ Reader \/ UNCHANGED vars
  BY <1>3
     DEF EndOfInput, ScheduleSynchronized, outputVars, Worker, TakeSnapshot, StartAnalysis, FinishAnalysis,
         AnalysisPanics, workerFrame, Reader, ReadMessage, ReadEnd, vars
<1>4. QED
  BY <1>1, <1>2, <1>3 DEF Next, MainLoop, Exited

(* A query is never answered from older text: an answer is computed from   *)
(* an analysis of the revision the session has when it is written.         *)
THEOREM AnswersAreCurrent == Spec => AnswersCurrent
<1>1. ASSUME ServerInv, [Next]_vars
      PROVE  \A t \in Ticket :
               \A r \in {replies'[t][i] : i \in DOMAIN replies'[t] \ DOMAIN replies[t]} :
                  r.code = "Answer" => r.basis = revision /\ revision' = revision
  BY <1>1, GoodReplies, NewReplies DEF ServerInv
<1>2. QED
  BY ServerInvariant, <1>1, PTL DEF Spec, AnswersCurrent

(* The worker drains its channel, so the analysis it starts is not yet     *)
(* obsolete, or only by the edit that has been made and is still to be     *)
(* sent to it (notifications in lsp.rs, schedule_analysis).                *)
THEOREM AnalysesAreStartedCurrent == Spec => AnalysesStartCurrent
<1>1. ASSUME ServerInv, [Next]_vars, worker'.state = "analysing", worker.state # "analysing"
      PROVE  \/ IsCurrent(worker.snapshot)
             \/ step = "schedule" /\ worker.snapshot.id + 1 = revision
  <2>1. CASE TakesInput /\ HandleMessage(Head(events).message)
    BY <1>1, <2>1, HandlesInput DEF Input, NextEvent
  <2>2. CASE TakesAnalysis /\ HandleAnalysis(Head(events).analysis)
    BY <1>1, <2>2 DEF HandleAnalysis, DropAnalysis, AcceptAndPublish, Completed, NextEvent
  <2>3. CASE StartAnalysis
    <3>1. revision \in Nat
      BY <1>1, StillThere DEF ServerInv, TypeOK
    <3>2. worker.snapshot.id = Announced
      BY <1>1, <2>3 DEF StartAnalysis, ServerInv, WorkerDiscipline
    <3>3. QED
      BY <3>1, <3>2 DEF Announced, IsCurrent
  <2>4. CASE EndOfInput \/ ScheduleSynchronized \/ Reader \/ UNCHANGED vars
    BY <1>1, <2>4 DEF EndOfInput, NextEvent, ScheduleSynchronized, Reader, ReadMessage, ReadEnd, vars, channelVars
  <2>5. CASE TakeSnapshot \/ FinishAnalysis \/ AnalysisPanics
    <3>1. worker'.state \in {"draining", "idle", "dead"}
      BY <2>5 DEF TakeSnapshot, FinishAnalysis, AnalysisPanics
    <3>2. QED
      BY <1>1, <3>1
  <2>6. QED
    BY <1>1, <2>1, <2>2, <2>3, <2>4, <2>5 DEF Next, MainLoop, Worker, Exited
<1>2. QED
  BY ServerInvariant, <1>1, PTL DEF Spec, AnalysesStartCurrent

(* Every step either leaves published and can only raise the revision, or  *)
(* publishes the session as it is.                                         *)
LEMMA PublishesSession ==
    ASSUME ServerInv, [Next]_vars
    PROVE  \/ published' = published /\ (revision' = revision \/ revision' = revision + 1)
           \/ /\ UNCHANGED revision
              /\ published' = [d \in Document |->
                                  [revision |-> revision, version |-> ClientVersion(d)]]
<1>1. CASE TakesInput /\ HandleMessage(Head(events).message)
  <2>1. published' = published /\ (Idle \/ Schedules \/ Edits)
    BY <1>1, HandlerEffect DEF ServerInv
  <2>2. QED
    BY <2>1 DEF Idle, Schedules, Edits, sessionVars
<1>2. CASE TakesAnalysis /\ HandleAnalysis(Head(events).analysis)
  <2> DEFINE s == Head(events).analysis
  <2>1. CASE DropAnalysis(s)
    BY <2>1 DEF DropAnalysis, Completed, outputVars, sessionVars
  <2>2. CASE AcceptAndPublish(s)
    <3>1. /\ IsCurrent(s) /\ UNCHANGED revision
          /\ published' = [d \in Document |-> [revision |-> s.id, version |-> s.version[d]]]
          /\ events # <<>> /\ Head(events).type = "analysis"
      BY <2>2 DEF AcceptAndPublish, Gate, Completed, sessionVars, NextEvent
    <3>2. 1 \in DOMAIN events /\ Head(events) = events[1]
      BY <3>1, TakeFirst DEF ServerInv, TypeOK
    <3>3. s = Snapshot
      BY <3>1, <3>2 DEF ServerInv, SnapshotsFaithful, Faithful
    <3>4. s.id = revision /\ \A d \in Document : s.version[d] = ClientVersion(d)
      BY <3>3 DEF Snapshot
    <3>5. QED
      BY <3>1, <3>4
  <2>3. QED
    BY <1>2, <2>1, <2>2 DEF HandleAnalysis
<1>3. CASE EndOfInput \/ ScheduleSynchronized \/ Worker \/ AnalysisPanics \/ Reader \/ UNCHANGED vars
  BY <1>3
     DEF EndOfInput, ScheduleSynchronized, outputVars, requestFrame, Worker, TakeSnapshot, StartAnalysis,
         FinishAnalysis, AnalysisPanics, workerFrame, Reader, ReadMessage, ReadEnd, vars,
         sessionVars
<1>4. QED
  BY <1>1, <1>2, <1>3 DEF Next, MainLoop, Exited

PublishedBounded ==
    \A d \in Document : published[d] # Nothing => published[d].revision <= revision

LEMMA PublishedIsBounded == Spec => []PublishedBounded
<1>1. Init => PublishedBounded
  BY DEF Init, PublishedBounded
<1>2. ASSUME ServerInv, PublishedBounded, [Next]_vars PROVE PublishedBounded'
  <2>1. revision \in Nat
    BY <1>2, StillThere DEF ServerInv, TypeOK
  <2>2. ASSUME NEW d \in Document, published[d] # Nothing
        PROVE  published[d].revision \in Nat
    <3>1. published[d].revision \in Revision
      BY <1>2, <2>2 DEF ServerInv, TypeOK
    <3>2. QED
      BY <3>1, RevisionAssumption DEF Revision
  <2>3. QED
    BY <1>2, <2>1, <2>2, PublishesSession DEF PublishedBounded
<1>3. QED
  BY <1>1, <1>2, ServerInvariant, PTL DEF Spec

(* Diagnostics are published for the session as it is, with the client's   *)
(* own version numbers, and never after those of a newer revision.         *)
THEOREM DiagnosticsArePublishedCurrent == Spec => PublishedCurrent
<1>1. ASSUME ServerInv, PublishedBounded, [Next]_vars
      PROVE  published' # published =>
               \A d \in Document :
                  /\ published'[d] = [revision |-> revision, version |-> ClientVersion(d)]
                  /\ published[d] # Nothing => published[d].revision <= revision
  BY <1>1, PublishesSession DEF PublishedBounded
<1>2. QED
  BY ServerInvariant, PublishedIsBounded, <1>1, PTL DEF Spec, PublishedCurrent

-----------------------------------------------------------------------------
(* Shutdown refuses the queries that wait, and none comes to wait later.   *)
NoneWaits == lifecycle = "Shutdown" => pendingQueries = {}

LEMMA HandlerOrder ==
    ASSUME NEW m, HandleMessage(m)
    PROVE  /\ \/ lifecycle' = lifecycle
              \/ lifecycle # "Shutdown" /\ lifecycle' = "Running"
              \/ Shutdown(m)
           /\ \/ lifecycle = "Running"
              \/ pendingQueries' = pendingQueries /\ UNCHANGED sessionVars
<1> USE DEF sessionVars
<1>1. CASE RefuseMessage(m) \/ Initialize(m) \/ RefuseRequest(m) \/ IgnoreNotification(m) \/ Exit(m)
  BY <1>1 DEF RefuseMessage, Initialize, RefuseRequest, IgnoreNotification, Exit, requestFrame
<1>2. CASE Shutdown(m) \/ Initialized(m) \/ CancelRequest(m) \/ Synchronize(m) \/ RejectSync(m)
  BY <1>2 DEF Shutdown, Initialized, CancelRequest, Synchronize, RejectSync
<1>3. CASE QueryInvalid(m) \/ QueryNow(m) \/ QueryLater(m)
  BY <1>3 DEF QueryInvalid, QueryNow, QueryLater, IsQuery
<1>4. QED
  BY <1>1, <1>2, <1>3 DEF HandleMessage

LEMMA ShutdownStays ==
    ASSUME [Next]_vars, lifecycle = "Shutdown"
    PROVE  /\ UNCHANGED <<sessionVars, lifecycle>>
           /\ pendingQueries' = pendingQueries \/ pendingQueries' = {}
<1> USE DEF sessionVars
<1>1. CASE TakesInput /\ HandleMessage(Head(events).message)
  BY <1>1, HandlerOrder DEF Shutdown
<1>2. CASE TakesAnalysis /\ HandleAnalysis(Head(events).analysis)
  BY <1>2 DEF HandleAnalysis, DropAnalysis, AcceptAndPublish, Completed
<1>3. CASE EndOfInput \/ ScheduleSynchronized \/ Worker \/ AnalysisPanics \/ Reader \/ UNCHANGED vars
  BY <1>3
     DEF EndOfInput, ScheduleSynchronized, requestFrame, Worker, TakeSnapshot, StartAnalysis, FinishAnalysis,
         AnalysisPanics, workerFrame, Reader, ReadMessage, ReadEnd, vars
<1>4. QED
  BY <1>1, <1>2, <1>3 DEF Next, MainLoop, Exited

LEMMA NoneWaitsNext == ASSUME NoneWaits, [Next]_vars PROVE NoneWaits'
<1> USE DEF sessionVars
<1>1. CASE lifecycle = "Shutdown"
  BY <1>1, ShutdownStays DEF NoneWaits
<1>2. CASE lifecycle # "Shutdown" /\ lifecycle' = "Shutdown"
  <2>1. CASE TakesInput /\ HandleMessage(Head(events).message)
    <3>1. Shutdown(Head(events).message)
      BY <1>2, <2>1, HandlerOrder
    <3>2. QED
      BY <3>1 DEF Shutdown, NoneWaits
  <2>2. CASE TakesAnalysis /\ HandleAnalysis(Head(events).analysis)
    BY <1>2, <2>2 DEF HandleAnalysis, DropAnalysis, AcceptAndPublish, Completed
  <2>3. CASE EndOfInput \/ ScheduleSynchronized \/ Worker \/ AnalysisPanics \/ Reader \/ UNCHANGED vars
    BY <1>2, <2>3
       DEF EndOfInput, ScheduleSynchronized, requestFrame, Worker, TakeSnapshot, StartAnalysis, FinishAnalysis,
           AnalysisPanics, workerFrame, Reader, ReadMessage, ReadEnd, vars
  <2>4. QED
    BY <2>1, <2>2, <2>3 DEF Next, MainLoop, Exited
<1>3. QED
  BY <1>1, <1>2 DEF NoneWaits

\* Whatever is written after shutdown is a refusal.
Refusal(r) == r.code # "Answer"

LEMMA RefusedAfterShutdown ==
    ASSUME TypeOK, NoneWaits, [Next]_vars, lifecycle = "Shutdown", NEW t \in Ticket
    PROVE  replies'[t] = replies[t] \/ \E r : Refusal(r) /\ replies'[t] = Append(replies[t], r)
<1> USE DEF sessionVars
<1>1. CASE TakesInput /\ HandleMessage(Head(events).message)
  <2> DEFINE m == Head(events).message
  <2>1. CASE RefuseMessage(m) \/ Initialize(m) \/ RefuseRequest(m)
    <3>1. PICK c \in {"ParseError", "InvalidRequest", "MethodNotFound", "NotInitialized"} :
                 ReplyTo(Code(c))
      BY <2>1 DEF RefuseMessage, Initialize, RefuseRequest
    <3>2. Refusal(Code(c))
      BY DEF Refusal, Code
    <3>3. QED
      BY <3>1, <3>2 DEF ReplyTo, Answered
  <2>2. CASE IgnoreNotification(m) \/ Exit(m)
    BY <2>2 DEF IgnoreNotification, Exit
  <2>3. CASE \/ Shutdown(m) \/ QueryInvalid(m) \/ QueryNow(m) \/ QueryLater(m)
             \/ Initialized(m) \/ CancelRequest(m) \/ Synchronize(m) \/ RejectSync(m)
    BY <2>3 DEF Shutdown, QueryInvalid, QueryNow, QueryLater, IsQuery, Initialized,
                CancelRequest, Synchronize, RejectSync
  <2>4. QED
    BY <1>1, <2>1, <2>2, <2>3 DEF HandleMessage
<1>2. CASE TakesAnalysis /\ HandleAnalysis(Head(events).analysis)
  <2> DEFINE s == Head(events).analysis
  <2>1. CASE DropAnalysis(s)
    BY <2>1 DEF DropAnalysis, outputVars
  <2>2. CASE AcceptAndPublish(s)
    <3>1. pendingQueries = {} /\ replies' = Drained(s)
      BY <2>2 DEF AcceptAndPublish, NoneWaits
    <3>2. QED
      BY <3>1 DEF Drained
  <2>3. QED
    BY <1>2, <2>1, <2>2 DEF HandleAnalysis
<1>3. CASE EndOfInput \/ ScheduleSynchronized \/ Worker \/ AnalysisPanics \/ Reader \/ UNCHANGED vars
  BY <1>3
     DEF EndOfInput, ScheduleSynchronized, outputVars, Worker, TakeSnapshot, StartAnalysis, FinishAnalysis,
         AnalysisPanics, workerFrame, Reader, ReadMessage, ReadEnd, vars
<1>4. QED
  BY <1>1, <1>2, <1>3 DEF Next, MainLoop, Exited

(* After shutdown nothing changes the session and no query is answered,    *)
(* not even by the analysis that was under way (handle_message,            *)
(* accept_and_publish).                                                    *)
THEOREM ShutdownStaysFinal == Spec => ShutdownIsFinal
<1>1. Init => NoneWaits
  BY DEF Init, NoneWaits
<1>2. NoneWaits /\ [Next]_vars => NoneWaits'
  BY NoneWaitsNext
<1>3. ASSUME TypeOK, NoneWaits, [Next]_vars
      PROVE  lifecycle = "Shutdown" =>
               /\ UNCHANGED <<sessionVars, lifecycle>>
               /\ \A t \in Ticket : \A i \in DOMAIN replies'[t] \ DOMAIN replies[t] :
                    replies'[t][i].code # "Answer"
  <2> SUFFICES ASSUME lifecycle = "Shutdown"
               PROVE  /\ UNCHANGED <<sessionVars, lifecycle>>
                      /\ \A t \in Ticket : \A i \in DOMAIN replies'[t] \ DOMAIN replies[t] :
                           replies'[t][i].code # "Answer"
    OBVIOUS
  <2>1. UNCHANGED <<sessionVars, lifecycle>>
    BY <1>3, ShutdownStays
  <2>2. ASSUME NEW t \in Ticket, NEW i \in DOMAIN replies'[t] \ DOMAIN replies[t]
        PROVE  replies'[t][i].code # "Answer"
    <3>1. replies[t] \in Seq(Reply)
      BY <1>3 DEF TypeOK
    <3>2. PICK r : Refusal(r) /\ replies'[t] = Append(replies[t], r)
      BY <1>3, <2>2, RefusedAfterShutdown
    <3>3. replies'[t][i] = r
      BY <2>2, <3>1, <3>2
    <3>4. QED
      BY <3>2, <3>3 DEF Refusal
  <2>3. QED
    BY <2>1, <2>2
<1>4. QED
  BY ServerTyped, <1>1, <1>2, <1>3, PTL DEF Spec, ShutdownIsFinal

-----------------------------------------------------------------------------
(* The language server implements the query service: every step of its     *)
(* threads is one step of the service, or none.                            *)

LEMMA OpenTicketsFacts ==
    ASSUME TypeOK, CompletedOnce
    PROVE  /\ Service!OpenTickets = Tickets(pendingQueries)
           /\ {q.ticket : q \in ServiceOpen} = Tickets(pendingQueries)
<1>1. {q.ticket : q \in ServiceOpen} = Tickets(pendingQueries)
  <2>1. \A q \in pendingQueries : AsOpen(q) \in ServiceOpen /\ AsOpen(q).ticket = q.ticket
    BY DEF ServiceOpen, AsOpen
  <2>2. \A o \in ServiceOpen : \E q \in pendingQueries : o = AsOpen(q)
    BY DEF ServiceOpen
  <2>3. QED
    BY <2>1, <2>2 DEF Tickets
<1>2. QED
  BY <1>1 DEF Service!OpenTickets

LEMMA FreshIsUnanswered ==
    ASSUME TypeOK, EventTickets, CompletedOnce, Input
    PROVE  /\ handled' \in Ticket /\ replies[handled'] = <<>>
           /\ handled' \notin Tickets(pendingQueries)
           /\ Service!Unanswered(handled')
           /\ ServicePhase = lifecycle
<1>1. /\ handled' \in Ticket /\ replies[handled'] = <<>>
      /\ \A p \in pendingQueries : p.ticket # handled'
  BY FreshTicket
<1>2. handled' \notin Tickets(pendingQueries)
  BY <1>1 DEF Tickets
<1>3. Service!Unanswered(handled')
  BY <1>1, <1>2, OpenTicketsFacts DEF Service!Unanswered
<1>4. ServicePhase = lifecycle
  BY DEF Input, NextEvent, ServicePhase
<1>5. QED
  BY <1>1, <1>2, <1>3, <1>4

LEMMA OwnReply ==
    ASSUME TypeOK, NEW r, ReplyTo(r), handled' \in Ticket, replies[handled'] = <<>>
    PROVE  replies' = [replies EXCEPT ![handled'] = <<r>>]
<1>1. replies' = [t \in Ticket |-> IF t = handled' THEN Append(replies[t], r) ELSE replies[t]]
  BY DEF ReplyTo, Answered
<1>2. DOMAIN replies = Ticket /\ replies = [t \in Ticket |-> replies[t]]
  BY DEF TypeOK
<1>3. Append(<<>>, r) = <<r>>
  OBVIOUS
<1>4. QED
  BY <1>1, <1>2, <1>3

LEMMA CompleteIsAnswered ==
    ASSUME NEW qs, NEW tickets, {q.ticket : q \in qs} = tickets, NEW r
    PROVE  Service!Complete(qs, r) = Answered(tickets, r)
BY DEF Service!Complete, Answered

(* Handlers that answer their own message with a refusal.                  *)
LEMMA RefusalRefines ==
    ASSUME TypeOK, EventTickets, CompletedOnce, Input,
           NEW c \in {"ParseError", "InvalidRequest", "InvalidParams", "MethodNotFound",
                      "NotInitialized"},
           ReplyTo(Code(c)), ServicePhase # "Stopped",
           UNCHANGED <<ServicePhase, revision, ServiceOpen>>
    PROVE  Service!Refuse(handled') /\ handled' \in Ticket
<1>1. replies' = [replies EXCEPT ![handled'] = <<[code |-> c]>>]
  BY FreshIsUnanswered, OwnReply DEF Code
<1>2. QED
  BY <1>1, FreshIsUnanswered DEF Service!Refuse, Service!Refusal

LEMMA SameService ==
    ASSUME UNCHANGED <<lifecycle, status, revision, pendingQueries>>
    PROVE  UNCHANGED <<ServicePhase, revision, ServiceOpen>>
BY DEF ServicePhase, ServiceOpen

LEMMA RunningInput ==
    ASSUME TypeOK, Input
    PROVE  status = "running" /\ ServicePhase = lifecycle /\ ServicePhase # "Stopped"
BY DEF Input, NextEvent, ServicePhase, TypeOK

LEMMA RefusesRefine ==
    ASSUME TypeOK, EventTickets, CompletedOnce, NEW m,
           RefuseMessage(m) \/ RefuseRequest(m) \/ QueryInvalid(m)
    PROVE  Service!Next
<1>1. /\ Input /\ UNCHANGED <<lifecycle, status, revision, pendingQueries>>
      /\ \E c \in {"ParseError", "InvalidRequest", "InvalidParams", "MethodNotFound",
                   "NotInitialized"} : ReplyTo(Code(c))
  BY DEF RefuseMessage, RefuseRequest, QueryInvalid, requestFrame, sessionVars
<1>2. UNCHANGED <<ServicePhase, revision, ServiceOpen>>
  BY <1>1, SameService
<1>3. QED
  BY <1>1, <1>2, RunningInput, RefusalRefines DEF Service!Next

LEMMA InitializeRefines ==
    ASSUME TypeOK, EventTickets, CompletedOnce, NEW m, Initialize(m)
    PROVE  Service!Next
<1>1. Input /\ UNCHANGED <<status, revision, pendingQueries>>
  BY DEF Initialize, requestFrame, sessionVars
<1>2. CASE lifecycle = "WaitingForInitialize"
  <2>1. lifecycle' = "Running" /\ ReplyTo(Code("Ack"))
    BY <1>2 DEF Initialize
  <2>2. /\ ServicePhase = "WaitingForInitialize" /\ ServicePhase' = "Running"
        /\ UNCHANGED <<revision, ServiceOpen>>
    BY <1>1, <1>2, <2>1, RunningInput DEF ServicePhase, ServiceOpen
  <2>3. replies' = [replies EXCEPT ![handled'] = <<[code |-> "Ack"]>>]
    BY <1>1, <2>1, FreshIsUnanswered, OwnReply DEF Code
  <2>4. QED
    BY <1>1, <2>2, <2>3, FreshIsUnanswered DEF Service!Start, Service!Next
<1>3. CASE lifecycle # "WaitingForInitialize"
  <2>1. UNCHANGED lifecycle /\ ReplyTo(Code("InvalidRequest"))
    BY <1>3 DEF Initialize
  <2>2. UNCHANGED <<ServicePhase, revision, ServiceOpen>>
    BY <1>1, <2>1, SameService
  <2>3. QED
    BY <1>1, <2>1, <2>2, RunningInput, RefusalRefines DEF Service!Next
<1>4. QED
  BY <1>2, <1>3

LEMMA ShutdownRefines ==
    ASSUME TypeOK, EventTickets, CompletedOnce, NEW m, Shutdown(m)
    PROVE  Service!Next
<1> DEFINE cancelled == Answered(Tickets(pendingQueries), Code("RequestCancelled"))
<1>1. /\ Input /\ lifecycle = "Running" /\ lifecycle' = "Shutdown"
      /\ UNCHANGED <<status, revision>> /\ pendingQueries' = {}
      /\ replies' = [cancelled EXCEPT ![handled'] = Append(@, Code("Ack"))]
  BY DEF Shutdown, requestFrame, sessionVars
<1>2. /\ ServicePhase = "Running" /\ ServicePhase' = "Shutdown" /\ ServiceOpen' = {}
  BY <1>1, RunningInput DEF ServicePhase, ServiceOpen
<1>3. /\ handled' \in Ticket /\ replies[handled'] = <<>>
      /\ handled' \notin Tickets(pendingQueries) /\ Service!Unanswered(handled')
  BY <1>1, FreshIsUnanswered
<1>4. cancelled[handled'] = <<>>
  BY <1>3 DEF Answered
<1>5. cancelled = Service!Complete(ServiceOpen, [code |-> "RequestCancelled"])
  BY OpenTicketsFacts, CompleteIsAnswered DEF Code
<1> HIDE DEF cancelled
<1>6. Append(<<>>, Code("Ack")) = <<[code |-> "Ack"]>>
  BY DEF Code
<1>7. replies' = [cancelled EXCEPT ![handled'] = <<[code |-> "Ack"]>>]
  BY <1>1, <1>4, <1>6
<1>8. Service!Shutdown(handled')
  BY <1>1, <1>2, <1>3, <1>5, <1>7 DEF Service!Shutdown
<1>9. QED
  BY <1>3, <1>8 DEF Service!Next

LEMMA QueryNowRefines ==
    ASSUME TypeOK, EventTickets, CompletedOnce, NEW m, QueryNow(m)
    PROVE  Service!Next
<1>1. /\ Input /\ lifecycle = "Running" /\ HaveCurrentAnalysis
      /\ UNCHANGED <<lifecycle, status, revision, pendingQueries>>
      /\ ReplyTo(QueryReply(m.method, latestAnalysis))
  BY DEF QueryNow, IsQuery, requestFrame, sessionVars
<1>2. QueryReply(m.method, latestAnalysis) = [code |-> "Answer", basis |-> revision]
  BY <1>1 DEF QueryReply, AnalysisFor, HaveCurrentAnalysis, IsCurrent
<1>3. replies' = [replies EXCEPT ![handled'] = <<[code |-> "Answer", basis |-> revision]>>]
  BY <1>1, <1>2, FreshIsUnanswered, OwnReply
<1>4. ServicePhase = "Running" /\ UNCHANGED <<ServicePhase, revision, ServiceOpen>>
  BY <1>1, RunningInput, SameService
<1>5. Service!AnswerAtOnce(handled')
  BY <1>1, <1>3, <1>4, FreshIsUnanswered DEF Service!AnswerAtOnce
<1>6. QED
  BY <1>1, <1>5, FreshIsUnanswered DEF Service!Next

LEMMA QueryLaterRefines ==
    ASSUME TypeOK, EventTickets, CompletedOnce, NEW m, QueryLater(m)
    PROVE  Service!Next
<1> DEFINE q == [ticket |-> handled', id |-> m.id, kind |-> m.method, revision |-> revision]
<1>1. /\ Input /\ lifecycle = "Running"
      /\ UNCHANGED <<lifecycle, status, revision, replies>>
      /\ pendingQueries' = pendingQueries \cup {q}
  BY DEF QueryLater, IsQuery, requestFrame, sessionVars
<1>2. AsOpen(q) = [ticket |-> handled', revision |-> revision]
  BY DEF AsOpen
<1> HIDE DEF q
<1>3. ServiceOpen' = ServiceOpen \cup {[ticket |-> handled', revision |-> revision]}
  BY <1>1, <1>2 DEF ServiceOpen, AsOpen
<1>4. ServicePhase = "Running" /\ ServicePhase' = ServicePhase
  BY <1>1, RunningInput DEF ServicePhase
<1>5. Service!Ask(handled')
  BY <1>1, <1>3, <1>4, FreshIsUnanswered DEF Service!Ask
<1>6. QED
  BY <1>1, <1>5, FreshIsUnanswered DEF Service!Next

(* A reused id cancels one query, its oldest.                              *)
LEMMA OldestIsOne ==
    ASSUME TypeOK, CompletedOnce, NEW id
    PROVE  Oldest(id) = {} \/ \E q \in pendingQueries : Oldest(id) = {q}
<1>1. ASSUME NEW p \in Oldest(id), NEW q \in Oldest(id) PROVE p = q
  <2>1. p \in pendingQueries /\ q \in pendingQueries /\ p.ticket <= q.ticket /\ q.ticket <= p.ticket
    BY DEF Oldest
  <2>2. p.ticket \in Nat /\ q.ticket \in Nat
    BY <2>1, PendingFacts, ServerAssumption DEF Ticket
  <2>3. QED
    BY <2>1, <2>2 DEF CompletedOnce
<1>2. Oldest(id) \subseteq pendingQueries
  BY DEF Oldest
<1>3. QED
  BY <1>1, <1>2

LEMMA CancelRefines ==
    ASSUME TypeOK, CompletedOnce, PendingAreCurrent, NEW m, CancelRequest(m)
    PROVE  Service!Next \/ UNCHANGED Service!vars
<1>1. /\ Input /\ lifecycle = "Running"
      /\ UNCHANGED <<lifecycle, status, revision>>
      /\ pendingQueries' = pendingQueries \ Oldest(m.id)
      /\ replies' = Answered(Tickets(Oldest(m.id)), Code("RequestCancelled"))
  BY DEF CancelRequest, requestFrame, sessionVars
<1>2. ServicePhase = "Running" /\ ServicePhase' = ServicePhase
  BY <1>1, RunningInput DEF ServicePhase
<1>3. CASE Oldest(m.id) = {}
  <2>1. Tickets(Oldest(m.id)) = {}
    BY <1>3 DEF Tickets
  <2>2. replies' = replies
    BY <1>1, <2>1 DEF Answered, TypeOK
  <2>3. ServiceOpen' = ServiceOpen
    BY <1>1, <1>3 DEF ServiceOpen
  <2>4. QED
    BY <1>1, <1>2, <2>2, <2>3 DEF Service!vars
<1>4. CASE \E q \in pendingQueries : Oldest(m.id) = {q}
  <2>1. PICK q \in pendingQueries : Oldest(m.id) = {q}
    BY <1>4
  <2>2. {o.ticket : o \in {AsOpen(q)}} = Tickets({q})
    BY DEF Tickets, AsOpen
  <2>3. replies' = Service!Complete({AsOpen(q)}, [code |-> "RequestCancelled"])
    BY <1>1, <2>1, <2>2, CompleteIsAnswered DEF Code
  <2>4. \A p \in pendingQueries : AsOpen(p) = AsOpen(q) => p = q
    BY DEF AsOpen, CompletedOnce
  <2>5. ServiceOpen' = ServiceOpen \ {AsOpen(q)}
    <3>1. ServiceOpen' = {AsOpen(p) : p \in pendingQueries \ {q}}
      BY <1>1, <2>1 DEF ServiceOpen, AsOpen
    <3>2. QED
      BY <2>4, <3>1 DEF ServiceOpen
  <2>6. AsOpen(q) \in ServiceOpen
    BY DEF ServiceOpen
  <2>7. Service!Cancel(AsOpen(q))
    BY <1>1, <1>2, <2>3, <2>5, <2>6 DEF Service!Cancel
  <2>8. QED
    BY <2>6, <2>7 DEF Service!Next
<1>5. QED
  BY <1>3, <1>4, OldestIsOne

LEMMA SynchronizeRefines ==
    ASSUME TypeOK, CompletedOnce, PendingAreCurrent, NEW m, m = Head(events).message,
           Synchronize(m)
    PROVE  Service!Next
<1>1. /\ Input /\ lifecycle = "Running" /\ UNCHANGED <<lifecycle, status>>
      /\ pendingQueries' = pendingQueries \ Superseded
      /\ replies' = Answered(Tickets(Superseded), Code("ContentModified"))
  BY DEF Synchronize
<1>2. revision' = revision + 1 /\ SessionTypeOK'
  BY <1>1, SynchronizeMutates
<1>3. revision' \in Revision /\ revision \in Nat
  BY <1>2, StillThere DEF SessionTypeOK, TypeOK
<1>4. Superseded = pendingQueries
  BY <1>2, <1>3 DEF Superseded, PendingAreCurrent
<1>5. ServiceOpen' = {}
  BY <1>1, <1>4 DEF ServiceOpen
<1>6. replies' = Service!Complete(ServiceOpen, [code |-> "ContentModified"])
  BY <1>1, <1>4, OpenTicketsFacts, CompleteIsAnswered DEF Code
<1>7. ServicePhase = "Running" /\ ServicePhase' = ServicePhase
  BY <1>1, RunningInput DEF ServicePhase
<1>8. Service!Edit
  BY <1>2, <1>3, <1>5, <1>6, <1>7 DEF Service!Edit
<1>9. QED
  BY <1>8 DEF Service!Next

LEMMA SilentRefines ==
    ASSUME UNCHANGED <<lifecycle, status, revision, pendingQueries, replies>>
    PROVE  UNCHANGED Service!vars
BY SameService DEF Service!vars

LEMMA StopRefines ==
    ASSUME UNCHANGED <<revision, pendingQueries, replies>>, status' # "running"
    PROVE  Service!Next
BY DEF ServicePhase, ServiceOpen, Service!Stop, Service!Next

(* A late analysis answers every query that waits: all of them were asked  *)
(* about the revision it was accepted for.                                 *)
LEMMA AcceptRefines ==
    ASSUME TypeOK, CompletedOnce, PendingAreCurrent, NEW s, s = Head(events).analysis,
           AcceptAndPublish(s)
    PROVE  Service!Next \/ UNCHANGED Service!vars
<1>1. /\ NextEvent("analysis") /\ IsCurrent(s) /\ replies' = Drained(s) /\ pendingQueries' = {}
      /\ UNCHANGED <<lifecycle, status, revision>>
  BY DEF AcceptAndPublish, Completed, Gate, sessionVars
<1>2. status = "running" /\ ServicePhase = lifecycle /\ ServicePhase' = ServicePhase
  BY <1>1 DEF NextEvent, ServicePhase
<1>3. CASE pendingQueries = {}
  <2>1. replies' = replies
    BY <1>1, <1>3 DEF Drained, TypeOK
  <2>2. QED
    BY <1>1, <1>3, <2>1, SilentRefines
<1>4. CASE pendingQueries # {}
  <2> DEFINE answer == [code |-> "Answer", basis |-> revision]
  <2>1. lifecycle = "Running" /\ \A q \in pendingQueries : q.revision = revision
    BY <1>4 DEF PendingAreCurrent
  <2>2. s # Nothing /\ s.id = revision
    BY <1>1, HeadIsAnalysis, ServerAssumption DEF IsCurrent
  <2>3. \A kind : QueryReply(kind, s) = answer
    BY <2>2 DEF QueryReply, AnalysisFor
  <2> HIDE DEF answer
  <2>4. Drained(s) = Answered(Tickets(pendingQueries), answer)
    <3>1. ASSUME NEW t \in Ticket
          PROVE  Drained(s)[t] = Answered(Tickets(pendingQueries), answer)[t]
      <4>1. CASE \E q \in pendingQueries : q.ticket = t
        <5> DEFINE q == CHOOSE q \in pendingQueries : q.ticket = t
        <5>1. q \in pendingQueries /\ q.ticket = t /\ q.revision = s.id
          BY <4>1, <2>1, <2>2
        <5>2. Drained(s)[t] = Append(replies[t], IF q.revision = s.id THEN QueryReply(q.kind, s)
                                                 ELSE Code("ContentModified"))
          BY <4>1 DEF Drained
        <5> HIDE DEF q
        <5>3. Drained(s)[t] = Append(replies[t], answer)
          BY <5>1, <5>2, <2>3
        <5>4. t \in Tickets(pendingQueries)
          BY <5>1 DEF Tickets
        <5>5. QED
          BY <5>3, <5>4 DEF Answered
      <4>2. CASE ~\E q \in pendingQueries : q.ticket = t
        BY <4>2 DEF Drained, Answered, Tickets
      <4>3. QED
        BY <4>1, <4>2
    <3>2. QED
      BY <3>1 DEF Drained, Answered
  <2>5. replies' = Service!Complete(ServiceOpen, answer)
    BY <1>1, <2>4, OpenTicketsFacts, CompleteIsAnswered
  <2>6. ServiceOpen' = {} /\ ServiceOpen # {} /\ \A o \in ServiceOpen : o.revision = revision
    <3>1. ServiceOpen' = {}
      BY <1>1 DEF ServiceOpen
    <3>2. ServiceOpen # {}
      <4>1. PICK q : q \in pendingQueries
        BY <1>4
      <4>2. AsOpen(q) \in ServiceOpen
        BY <4>1 DEF ServiceOpen
      <4>3. QED
        BY <4>2
    <3>3. ASSUME NEW o \in ServiceOpen PROVE o.revision = revision
      <4>1. PICK q \in pendingQueries : o = AsOpen(q)
        BY DEF ServiceOpen
      <4>2. QED
        BY <2>1, <4>1 DEF AsOpen
    <3>4. QED
      BY <3>1, <3>2, <3>3
  <2>7. Service!Answer
    BY <1>1, <1>2, <2>1, <2>5, <2>6 DEF Service!Answer, answer
  <2>8. QED
    BY <2>7 DEF Service!Next
<1>5. QED
  BY <1>3, <1>4

LEMMA ServiceStep ==
    ASSUME ServerInv, [Next]_vars
    PROVE  [Service!Next]_(Service!vars)
<1> USE DEF ServerInv
<1>1. CASE TakesInput /\ HandleMessage(Head(events).message)
  <2> DEFINE m == Head(events).message
  <2>1. CASE RefuseMessage(m) \/ RefuseRequest(m) \/ QueryInvalid(m)
    BY <2>1, RefusesRefine
  <2>2. CASE Initialize(m) \/ Shutdown(m) \/ QueryNow(m) \/ QueryLater(m)
    BY <2>2, InitializeRefines, ShutdownRefines, QueryNowRefines, QueryLaterRefines
  <2>3. CASE CancelRequest(m)
    BY <2>3, CancelRefines
  <2>4. CASE Synchronize(m)
    BY <2>4, SynchronizeRefines
  <2>5. CASE IgnoreNotification(m) \/ Initialized(m) \/ RejectSync(m)
    BY <2>5, SilentRefines
       DEF IgnoreNotification, Initialized, RejectSync, requestFrame, sessionVars
  <2>6. CASE Exit(m)
    BY <2>6, StopRefines DEF Exit, requestFrame, sessionVars
  <2>7. QED
    BY <1>1, <2>1, <2>2, <2>3, <2>4, <2>5, <2>6 DEF HandleMessage
<1>2. CASE TakesAnalysis /\ HandleAnalysis(Head(events).analysis)
  BY <1>2, AcceptRefines, SilentRefines
     DEF HandleAnalysis, DropAnalysis, Completed, outputVars, sessionVars
<1>3. CASE EndOfInput
  BY <1>3, StopRefines DEF EndOfInput, requestFrame, sessionVars, outputVars
<1>4. CASE ScheduleSynchronized \/ Worker \/ AnalysisPanics \/ Reader \/ UNCHANGED vars
  BY <1>4, SilentRefines
     DEF ScheduleSynchronized, outputVars, Worker, TakeSnapshot, StartAnalysis, FinishAnalysis, AnalysisPanics,
         workerFrame, Reader, ReadMessage, ReadEnd, vars, sessionVars
<1>5. QED
  BY <1>1, <1>2, <1>3, <1>4 DEF Next, MainLoop, Exited

(* Clients cannot tell the server from the query service: channels, worker *)
(* and cached analysis add no behaviour of their own, for any client, any  *)
(* number of messages and with a worker that may panic.                    *)
THEOREM ServerImplementsQueryService == Spec => ImplementsQueryService
<1>1. Init => Service!Init
  BY DEF Init, SessionInit, Service!Init, ServicePhase, ServiceOpen
<1>2. ServerInv /\ [Next]_vars => [Service!Next]_(Service!vars)
  BY ServiceStep
<1>3. QED
  BY <1>1, <1>2, ServerInvariant, PTL DEF Spec, Service!Spec, ImplementsQueryService
=============================================================================
