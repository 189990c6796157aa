----------------------------- MODULE LspServer -----------------------------
(***************************************************************************)
(* The language server (compiler/src/lsp.rs) over one workspace session.   *)
(* Three threads share two channels:                                       *)
(*                                                                         *)
(*   reader ----input----> events ----> main loop ----snapshots----> jobs  *)
(*                           ^                                         |   *)
(*                           +------analysis results---- worker <------+   *)
(*                                                                         *)
(* The reader forwards the client's messages; the worker analyses the      *)
(* newest snapshot it finds; the main loop alone owns the session, answers *)
(* requests and publishes diagnostics.  A request that needs an analysis   *)
(* the server does not have yet waits in pendingQueries.                   *)
(*                                                                         *)
(* The n-th message of the client has ticket n, so that the answers to two *)
(* requests are told apart even when the client reuses an id.  An analysis *)
(* is a function of its snapshot and is represented by it.                 *)
(***************************************************************************)
EXTENDS WorkspaceSession, Sequences

CONSTANTS
    RequestId,        \* JSON-RPC ids
    UnknownDocument,  \* a URI that names no document of the graph
    Nothing,          \* a message field that is absent; no snapshot; no code
    ClientMessage,    \* the messages this client may send
    MaxMessages,      \* bound: messages the client sends before it closes
    WorkerMayPanic    \* whether analyze() may panic and end the worker thread

QueryKind == {"semanticTokens", "navigation", "rename"}

Method == QueryKind \cup
    {"unparsable", "invalid", "initialize", "shutdown", "unknownRequest",
     "exit", "initialized", "cancel", "unknownNotification",
     "didOpen", "didChange", "didSave", "didClose", "malformedSync"}

Message ==
    [method   : Method,
     id       : RequestId \cup {Nothing},
     document : Document \cup {UnknownDocument, Nothing},
     version  : Version \cup {Nothing},
     text     : Text \cup {NoText, Nothing}]

ASSUME ServerAssumption ==
    /\ UnknownDocument \notin Document
    /\ MaxMessages \in Nat
    /\ WorkerMayPanic \in BOOLEAN
    /\ ClientMessage \subseteq Message
    /\ Nothing \notin WorkspaceSnapshot
    /\ Nothing \notin Revision
    /\ \A m \in ClientMessage :
         /\ m.method \in {"didOpen", "didChange"} => m.version \in Version /\ m.text \in Text
         /\ m.method = "didSave" => m.text \in Text \cup {NoText}
         /\ m.method \in QueryKind => m.id \in RequestId
    /\ Nothing \notin RequestId

VARIABLES
    lifecycle,          \* Lifecycle of the server
    latestAnalysis,     \* the last accepted analysis, or Nothing
    requestedAnalysis,  \* revision whose analysis was scheduled, or Nothing
    pendingQueries,     \* queries waiting for an analysis
    events,             \* channel into the main loop
    jobs,               \* channel into the worker
    worker,             \* the worker thread: its state and its snapshot
    readerOpen,         \* the reader thread has not seen the end of input
    received,           \* messages the reader has forwarded
    step,               \* the main loop receives, or has an edit to schedule
    handled,            \* ticket of the last message the main loop took
    replies,            \* replies[n]: what was written in answer to message n
    published,          \* published[d]: last diagnostics written for d
    status              \* "running", or how run returned

channelVars == <<events, jobs, worker, readerOpen, received>>
outputVars == <<replies, published>>
vars == <<sessionVars, lifecycle, latestAnalysis, requestedAnalysis, pendingQueries,
          channelVars, step, handled, outputVars, status>>

Ticket == 1..MaxMessages

PendingQuery ==
    [ticket : Ticket, id : RequestId, kind : QueryKind, revision : Revision]

Event ==
    [type : {"input"}, ticket : Ticket, message : ClientMessage]
      \cup [type : {"eof", "framing"}]
      \cup [type : {"analysis"}, analysis : WorkspaceSnapshot]

\* An "Answer" carries the revision of the analysis it was computed from.
Reply ==
    [code : {"Answer"}, basis : Revision]
      \cup [code : {"Ack", "ParseError", "InvalidRequest", "InvalidParams",
                    "MethodNotFound", "NotInitialized", "RequestFailed",
                    "ContentModified", "RequestCancelled"}]

TypeOK ==
    /\ SessionTypeOK
    /\ lifecycle \in {"WaitingForInitialize", "Running", "Shutdown"}
    /\ latestAnalysis \in WorkspaceSnapshot \cup {Nothing}
    /\ requestedAnalysis \in Revision \cup {Nothing}
    /\ pendingQueries \subseteq PendingQuery
    /\ events \in Seq(Event)
    /\ jobs \in Seq(WorkspaceSnapshot)
    /\ worker \in [state : {"idle", "dead"}, snapshot : {Nothing}]
                    \cup [state : {"draining", "analysing"}, snapshot : WorkspaceSnapshot]
    /\ readerOpen \in BOOLEAN
    /\ received \in 0..MaxMessages
    /\ step \in {"receive", "schedule"}
    /\ handled \in 0..MaxMessages
    /\ replies \in [Ticket -> Seq(Reply)]
    /\ published \in [Document -> [revision : Revision, version : Version \cup {NoVersion}]
                                    \cup {Nothing}]
    /\ status \in {"running", "exit 0", "exit 1", "error"}

Init ==
    /\ SessionInit
    /\ lifecycle = "WaitingForInitialize"
    /\ latestAnalysis = Nothing
    /\ requestedAnalysis = Nothing
    /\ pendingQueries = {}
    /\ events = <<>>
    /\ jobs = <<>>
    /\ worker = [state |-> "idle", snapshot |-> Nothing]
    /\ readerOpen = TRUE
    /\ received = 0
    /\ step = "receive"
    /\ handled = 0
    /\ replies = [t \in Ticket |-> <<>>]
    /\ published = [d \in Document |-> Nothing]
    /\ status = "running"

-----------------------------------------------------------------------------
(* The reader thread: forwards each message, then the end of the stream or *)
(* the framing failure, and stops.                                         *)

ReadMessage(m) ==
    /\ status = "running" /\ readerOpen /\ received < MaxMessages
    /\ received' = received + 1
    /\ events' = Append(events, [type |-> "input", ticket |-> received', message |-> m])
    /\ UNCHANGED <<sessionVars, lifecycle, latestAnalysis, requestedAnalysis,
                   pendingQueries, jobs, worker, readerOpen, step, handled, outputVars, status>>

ReadEnd(how) ==
    /\ status = "running" /\ readerOpen
    /\ events' = Append(events, [type |-> how])
    /\ readerOpen' = FALSE
    /\ UNCHANGED <<sessionVars, lifecycle, latestAnalysis, requestedAnalysis,
                   pendingQueries, jobs, worker, received, step, handled, outputVars, status>>

-----------------------------------------------------------------------------
(* The analysis worker: blocks for a snapshot, replaces it by every newer  *)
(* one already queued, analyses it and sends the result.                   *)

workerFrame == <<sessionVars, lifecycle, latestAnalysis, requestedAnalysis, pendingQueries,
                 readerOpen, received, step, handled, outputVars, status>>

\* Both recv and try_recv take the oldest snapshot in the channel.
TakeSnapshot ==
    /\ status = "running" /\ worker.state \in {"idle", "draining"} /\ jobs # <<>>
    /\ worker' = [state |-> "draining", snapshot |-> Head(jobs)]
    /\ jobs' = Tail(jobs)
    /\ UNCHANGED <<events, workerFrame>>

\* Variant: the worker analyses the first snapshot it received.
StartAnalysis_NoCoalescing ==
    /\ status = "running" /\ worker.state = "draining"
    /\ worker' = [worker EXCEPT !.state = "analysing"]
    /\ UNCHANGED <<events, jobs, workerFrame>>

\* A try_recv finds the channel empty: the analysis starts.
StartAnalysis ==
    /\ status = "running" /\ worker.state = "draining" /\ jobs = <<>>
    /\ worker' = [worker EXCEPT !.state = "analysing"]
    /\ UNCHANGED <<events, jobs, workerFrame>>

FinishAnalysis ==
    /\ status = "running" /\ worker.state = "analysing"
    /\ events' = Append(events, [type |-> "analysis", analysis |-> worker.snapshot])
    /\ worker' = [state |-> "idle", snapshot |-> Nothing]
    /\ UNCHANGED <<jobs, workerFrame>>

\* A panic in analyze() ends the thread and drops its end of both channels.
AnalysisPanics ==
    /\ WorkerMayPanic
    /\ status = "running" /\ worker.state = "analysing"
    /\ worker' = [state |-> "dead", snapshot |-> Nothing]
    /\ jobs' = <<>>
    /\ UNCHANGED <<events, workerFrame>>

Worker == TakeSnapshot \/ StartAnalysis \/ FinishAnalysis

-----------------------------------------------------------------------------
(* Steps shared by the handlers of the main loop.                          *)

NextEvent(type) ==
    /\ status = "running" /\ step = "receive"
    /\ events # <<>> /\ Head(events).type = type
    /\ events' = Tail(events)
    /\ UNCHANGED <<worker, readerOpen, received>>

\* The main loop takes a message; its ticket is handled' from here on.
Input ==
    /\ NextEvent("input")
    /\ handled' = Head(events).ticket
    /\ UNCHANGED published

\* replies with r written in answer to each of the tickets.
Answered(tickets, r) ==
    [t \in Ticket |-> IF t \in tickets THEN Append(replies[t], r) ELSE replies[t]]

Code(c) == [code |-> c]

Tickets(queries) == {q.ticket : q \in queries}

ReplyTo(r) == replies' = Answered({handled'}, r)

\* Variant: nothing is scheduled while some analysis is outstanding.
ScheduleAnalysis_OneAtATime(s) ==
    IF requestedAnalysis # Nothing
    THEN UNCHANGED <<requestedAnalysis, jobs>>
    ELSE /\ requestedAnalysis' = s.id
         /\ jobs' = IF worker.state = "dead" THEN jobs ELSE Append(jobs, s)

ScheduleAnalysis(s) ==
    IF requestedAnalysis = s.id
    THEN UNCHANGED <<requestedAnalysis, jobs>>
    ELSE /\ requestedAnalysis' = s.id
         /\ jobs' = IF worker.state = "dead" THEN jobs ELSE Append(jobs, s)

\* The analysis a query is answered from: semantic tokens read the latest
\* accepted one, the other queries only one of the current revision.
AnalysisFor(kind, latest) ==
    IF kind = "semanticTokens" THEN latest
    ELSE IF latest # Nothing /\ latest.id = revision THEN latest
    ELSE Nothing

\* What write_query_response writes.  An "Answer" is a result or a failure
\* particular to the query (an ambiguous or not renameable symbol, a bad
\* argument), looked up in the analysis of revision basis.
QueryReply(kind, latest) ==
    LET a == AnalysisFor(kind, latest)
    IN  IF a # Nothing THEN [code |-> "Answer", basis |-> a.id]
        ELSE IF kind = "semanticTokens" THEN Code("InvalidParams")
        ELSE Code("RequestFailed")

-----------------------------------------------------------------------------
(* Requests.                                                               *)

requestFrame == <<sessionVars, latestAnalysis>>
noAnalysis == <<requestedAnalysis, jobs, step>>

\* Unparsable bytes and messages that are not JSON-RPC 2.0 requests.
RefuseMessage(m) ==
    /\ m.method \in {"unparsable", "invalid"}
    /\ Input
    /\ ReplyTo(Code(IF m.method = "unparsable" THEN "ParseError" ELSE "InvalidRequest"))
    /\ UNCHANGED <<requestFrame, noAnalysis, lifecycle, pendingQueries, status>>

Initialize(m) ==
    /\ m.method = "initialize"
    /\ Input
    /\ IF lifecycle = "WaitingForInitialize"
       THEN lifecycle' = "Running" /\ ReplyTo(Code("Ack"))
       ELSE UNCHANGED lifecycle /\ ReplyTo(Code("InvalidRequest"))
    /\ UNCHANGED <<requestFrame, noAnalysis, pendingQueries, status>>

\* Variant: shutdown does not complete the queries that wait.
Shutdown_KeepsPending(m) ==
    /\ m.method = "shutdown" /\ lifecycle = "Running"
    /\ Input
    /\ lifecycle' = "Shutdown"
    /\ ReplyTo(Code("Ack"))
    /\ UNCHANGED <<requestFrame, noAnalysis, pendingQueries, status>>

Shutdown(m) ==
    /\ m.method = "shutdown" /\ lifecycle = "Running"
    /\ Input
    /\ lifecycle' = "Shutdown"
    /\ replies' = [Answered(Tickets(pendingQueries), Code("RequestCancelled"))
                      EXCEPT ![handled'] = Append(@, Code("Ack"))]
    /\ pendingQueries' = {}
    /\ UNCHANGED <<requestFrame, noAnalysis, status>>

\* Requests refused outside their lifecycle state, and unknown ones.
RefuseRequest(m) ==
    /\ \/ m.method = "shutdown" /\ lifecycle # "Running"
       \/ m.method \in QueryKind /\ lifecycle # "Running"
       \/ m.method = "unknownRequest"
    /\ Input
    /\ ReplyTo(Code(IF m.method = "shutdown" THEN "InvalidRequest"
                    ELSE IF lifecycle # "Running" THEN "NotInitialized"
                    ELSE "MethodNotFound"))
    /\ UNCHANGED <<requestFrame, noAnalysis, lifecycle, pendingQueries, status>>

IsQuery(m) == m.method \in QueryKind /\ lifecycle = "Running"

\* Variant: any accepted analysis will do.
HaveCurrentAnalysis_Any == latestAnalysis # Nothing

HaveCurrentAnalysis == latestAnalysis # Nothing /\ IsCurrent(latestAnalysis)

\* An unknown document stands for every parameter the validation refuses.
QueryInvalid(m) ==
    /\ IsQuery(m) /\ m.document \notin Document
    /\ Input
    /\ ReplyTo(Code("InvalidParams"))
    /\ UNCHANGED <<requestFrame, noAnalysis, lifecycle, pendingQueries, status>>

QueryNow(m) ==
    /\ IsQuery(m) /\ m.document \in Document /\ HaveCurrentAnalysis
    /\ Input
    /\ ReplyTo(QueryReply(m.method, latestAnalysis))
    /\ UNCHANGED <<requestFrame, noAnalysis, lifecycle, pendingQueries, status>>

QueryLater(m) ==
    /\ IsQuery(m) /\ m.document \in Document /\ ~HaveCurrentAnalysis
    /\ Input
    /\ pendingQueries' = pendingQueries \cup
         {[ticket |-> handled', id |-> m.id, kind |-> m.method, revision |-> revision]}
    /\ ScheduleAnalysis(Snapshot)
    /\ UNCHANGED <<requestFrame, step, lifecycle, replies, status>>

-----------------------------------------------------------------------------
(* Notifications.  None is answered; outside Running all but exit are      *)
(* ignored.                                                                *)

Exit(m) ==
    /\ m.method = "exit"
    /\ Input
    /\ status' = IF lifecycle = "Shutdown" THEN "exit 0" ELSE "exit 1"
    /\ UNCHANGED <<requestFrame, noAnalysis, lifecycle, pendingQueries, replies>>

IsSync(m) == m.method \in {"didOpen", "didChange", "didSave", "didClose", "malformedSync"}

IgnoreNotification(m) ==
    /\ \/ m.method = "unknownNotification"
       \/ lifecycle # "Running" /\ (IsSync(m) \/ m.method \in {"initialized", "cancel"})
    /\ Input
    /\ UNCHANGED <<requestFrame, noAnalysis, lifecycle, pendingQueries, replies, status>>

Initialized(m) ==
    /\ m.method = "initialized" /\ lifecycle = "Running"
    /\ Input
    /\ ScheduleAnalysis(Snapshot)
    /\ UNCHANGED <<requestFrame, step, lifecycle, pendingQueries, replies, status>>

\* pending_queries is in ticket order: a reused id cancels its oldest query.
\* A cancellation without an id finds none.
Oldest(id) ==
    {q \in pendingQueries : q.id = id /\
        \A p \in pendingQueries : p.id = id => q.ticket <= p.ticket}

\* Variant: the cancelled query stays in the queue.
CancelRequest_Kept(m) ==
    /\ m.method = "cancel" /\ lifecycle = "Running"
    /\ Input
    /\ replies' = Answered(Tickets(Oldest(m.id)), Code("RequestCancelled"))
    /\ UNCHANGED <<requestFrame, noAnalysis, lifecycle, pendingQueries, status>>

CancelRequest(m) ==
    /\ m.method = "cancel" /\ lifecycle = "Running"
    /\ Input
    /\ pendingQueries' = pendingQueries \ Oldest(m.id)
    /\ replies' = Answered(Tickets(Oldest(m.id)), Code("RequestCancelled"))
    /\ UNCHANGED <<requestFrame, noAnalysis, lifecycle, status>>

\* Variant: queries asked about older text keep waiting.
Superseded_None == {}

\* The queries invalidated once the session is at its new revision.
Superseded == {q \in pendingQueries : q.revision # revision'}

CanSync(m) ==
    /\ m.document \in Document /\ CanBump
    /\ \/ m.method = "didOpen"   /\ CanOpen(m.document)
       \/ m.method = "didChange" /\ CanChange(m.document, m.version)
       \/ m.method = "didSave"   /\ CanSave(m.document)
       \/ m.method = "didClose"  /\ CanClose(m.document)

\* The session changes and the queries asked before are refused; the worker,
\* which is told of neither, goes on with what it has.
Synchronize(m) ==
    /\ IsSync(m) /\ lifecycle = "Running" /\ CanSync(m)
    /\ Input
    /\ \/ m.method = "didOpen"   /\ OpenDocument(m.document, m.version, m.text)
       \/ m.method = "didChange" /\ ChangeDocument(m.document, m.version, m.text)
       \/ m.method = "didSave"   /\ SaveDocument(m.document, m.text)
       \/ m.method = "didClose"  /\ CloseDocument(m.document)
    /\ pendingQueries' = pendingQueries \ Superseded
    /\ replies' = Answered(Tickets(Superseded), Code("ContentModified"))
    /\ step' = "schedule"
    /\ UNCHANGED <<lifecycle, latestAnalysis, requestedAnalysis, jobs, status>>

\* The same handler goes on: the new snapshot is sent.
ScheduleSynchronized ==
    /\ status = "running" /\ step = "schedule"
    /\ ScheduleAnalysis(Snapshot)
    /\ step' = "receive"
    /\ UNCHANGED <<sessionVars, lifecycle, latestAnalysis, pendingQueries, events, worker,
                   readerOpen, received, handled, outputVars, status>>

\* A rejected synchronization only writes a log message.
RejectSync(m) ==
    /\ IsSync(m) /\ lifecycle = "Running" /\ ~CanSync(m)
    /\ Input
    /\ UNCHANGED <<requestFrame, noAnalysis, lifecycle, pendingQueries, replies, status>>

-----------------------------------------------------------------------------
(* Results of the worker, and the end of the input.                        *)

\* Variant: any completion clears the requested revision.
ClearRequested_Always(s) == Nothing

ClearRequested(s) == IF requestedAnalysis = s.id THEN Nothing ELSE requestedAnalysis

\* Variant: the revision is not compared.
Gate_Open(s) == TRUE

Gate(s) == IsCurrent(s)

Completed(s) ==
    /\ NextEvent("analysis")
    /\ requestedAnalysis' = ClearRequested(s)
    /\ UNCHANGED <<sessionVars, lifecycle, jobs, step, handled, status>>

DropAnalysis(s) ==
    /\ Completed(s)
    /\ ~Gate(s)
    /\ UNCHANGED <<latestAnalysis, pendingQueries, outputVars>>

\* The replies once every waiting query has been answered from s, or refused
\* because it was asked about another revision.
Drained(s) ==
    [t \in Ticket |->
        IF \E q \in pendingQueries : q.ticket = t
        THEN LET q == CHOOSE q \in pendingQueries : q.ticket = t
             IN  Append(replies[t], IF q.revision = s.id THEN QueryReply(q.kind, s)
                                    ELSE Code("ContentModified"))
        ELSE replies[t]]

AcceptAndPublish(s) ==
    /\ Completed(s)
    /\ Gate(s)
    /\ published' = [d \in Document |-> [revision |-> s.id, version |-> s.version[d]]]
    /\ latestAnalysis' = s
    /\ replies' = Drained(s)
    /\ pendingQueries' = {}

EndOfInput ==
    /\ \/ NextEvent("eof") /\ status' = "exit 1"
       \/ NextEvent("framing") /\ status' = "error"
    /\ UNCHANGED <<requestFrame, noAnalysis, lifecycle, pendingQueries, handled, outputVars>>

-----------------------------------------------------------------------------
HandleMessage(m) ==
    \/ RefuseMessage(m) \/ Initialize(m) \/ Shutdown(m) \/ RefuseRequest(m)
    \/ QueryInvalid(m) \/ QueryNow(m) \/ QueryLater(m)
    \/ Exit(m) \/ IgnoreNotification(m) \/ Initialized(m) \/ CancelRequest(m)
    \/ Synchronize(m) \/ RejectSync(m)

HandleAnalysis(s) == DropAnalysis(s) \/ AcceptAndPublish(s)

TakesInput == events # <<>> /\ Head(events).type = "input"
TakesAnalysis == events # <<>> /\ Head(events).type = "analysis"

MainLoop ==
    \/ TakesInput /\ HandleMessage(Head(events).message)
    \/ TakesAnalysis /\ HandleAnalysis(Head(events).analysis)
    \/ EndOfInput
    \/ ScheduleSynchronized

Reader ==
    \/ \E m \in ClientMessage : ReadMessage(m)
    \/ \E how \in {"eof", "framing"} : ReadEnd(how)

\* run has returned: the process and its threads are gone.
Exited == status # "running" /\ UNCHANGED vars

Next == Reader \/ Worker \/ AnalysisPanics \/ MainLoop \/ Exited

Spec == Init /\ [][Next]_vars
=============================================================================
