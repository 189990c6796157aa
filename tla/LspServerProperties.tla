------------------------ MODULE LspServerProperties ------------------------
(* What the language server promises its client.                           *)
EXTENDS LspServer

(* Every request is completed at most once, and one that waits has not been *)
(* completed: cancellation, supersession, shutdown and a late analysis all  *)
(* take it out of pendingQueries as they answer it.                        *)
CompletedOnce ==
    /\ \A t \in Ticket : Len(replies[t]) <= 1
    /\ \A t \in Ticket : t > handled => replies[t] = <<>>
    /\ \A p \in pendingQueries :
         /\ p.ticket <= handled
         /\ replies[p.ticket] = <<>>
         /\ \A q \in pendingQueries : p.ticket = q.ticket => p = q

(* A query only ever waits for the revision the session has: an accepted   *)
(* synchronization has refused the others in the same handler, and nothing *)
(* waits once the server is shut down.                                     *)
PendingAreCurrent ==
    \A q \in pendingQueries : q.revision = revision /\ lifecycle = "Running"

(* No lost wakeup: while a query waits, the analysis of the current        *)
(* revision is scheduled, and a scheduled analysis is on its way (newest   *)
(* in the worker's channel, in the worker, or in the event channel) unless *)
(* the worker has died.  The worker drops queued snapshots, the session    *)
(* moves on and stale results come back, all without clearing it.          *)
AnalysisOnItsWay ==
    \/ jobs # <<>> /\ jobs[Len(jobs)].id = requestedAnalysis
    \/ jobs = <<>> /\ worker.snapshot # Nothing /\ worker.snapshot.id = requestedAnalysis
    \/ \E i \in DOMAIN events :
          events[i].type = "analysis" /\ events[i].analysis.id = requestedAnalysis

NoLostWakeup ==
    /\ pendingQueries # {} => requestedAnalysis = revision
    /\ requestedAnalysis # Nothing /\ worker.state # "dead" => AnalysisOnItsWay

(* A snapshot in flight is immutable and unique: one that carries the      *)
(* current revision is the session as it is now, on whichever thread or    *)
(* channel it is, so comparing revisions compares texts.                   *)
Faithful(s) == s.id <= revision /\ (IsCurrent(s) => s = Snapshot)

SnapshotsFaithful ==
    /\ \A i \in DOMAIN jobs : Faithful(jobs[i])
    /\ worker.snapshot # Nothing => Faithful(worker.snapshot)
    /\ latestAnalysis # Nothing => Faithful(latestAnalysis)
    /\ \A i \in DOMAIN events :
         events[i].type = "analysis" => Faithful(events[i].analysis)

(* Coalescing works: however many edits have been queued, the worker only  *)
(* starts an analysis of the current text, or of the text just before the  *)
(* one edit that the main loop has made and not sent it yet.               *)
AnalysesStartCurrent ==
    [][worker'.state = "analysing" /\ worker.state # "analysing" =>
         \/ IsCurrent(worker.snapshot)
         \/ step = "schedule" /\ worker.snapshot.id + 1 = revision]_vars

(* A query is answered from an analysis of the text the session has at     *)
(* that moment.                                                            *)
AnswersCurrent ==
    [][\A t \in Ticket : \A r \in {replies'[t][i] : i \in DOMAIN replies'[t] \ DOMAIN replies[t]} :
         r.code = "Answer" => r.basis = revision /\ revision' = revision]_vars

(* Diagnostics are published for the current text of all documents with    *)
(* the client's own version numbers, and never go back to older text.      *)
PublishedCurrent ==
    [][published' # published =>
         \A d \in Document :
            /\ published'[d] = [revision |-> revision, version |-> ClientVersion(d)]
            /\ published[d] # Nothing => published[d].revision <= revision]_vars

(* Shutdown is final: whatever is still in flight, nothing changes the     *)
(* session any more and no query is answered, not even by an analysis that *)
(* was under way when the client asked the server to shut down.            *)
ShutdownIsFinal ==
    [][lifecycle = "Shutdown" =>
         /\ UNCHANGED <<sessionVars, lifecycle>>
         /\ \A t \in Ticket : \A i \in DOMAIN replies'[t] \ DOMAIN replies[t] :
              replies'[t][i].code # "Answer"]_vars

(* The parts that make the invariants above inductive: messages reach the  *)
(* main loop in order, each once; a scheduled revision is the last one     *)
(* that could be sent, and so is the newest snapshot in the worker's       *)
(* channel, or in its hands when the channel is empty; an edit that is     *)
(* still to be sent has made its revision, and left no query waiting.      *)
EventTickets ==
    /\ handled <= received
    /\ \A i \in DOMAIN events :
         events[i].type = "input" => handled < events[i].ticket /\ events[i].ticket <= received
    /\ \A i, j \in DOMAIN events :
         i < j /\ events[i].type = "input" /\ events[j].type = "input"
            => events[i].ticket < events[j].ticket

Announced == IF step = "schedule" THEN revision - 1 ELSE revision

RequestedIsCurrent == requestedAnalysis \in {Nothing, Announced}

WorkerDiscipline ==
    /\ worker.state = "dead" => jobs = <<>>
    /\ jobs # <<>> => jobs[Len(jobs)].id = Announced
    /\ worker.state = "draining" /\ jobs = <<>> => worker.snapshot.id = Announced

EditToSend ==
    step = "schedule" => revision > 0 /\ pendingQueries = {} /\ lifecycle = "Running"

ServerInv ==
    /\ TypeOK
    /\ EventTickets
    /\ RequestedIsCurrent
    /\ WorkerDiscipline
    /\ EditToSend
    /\ CompletedOnce
    /\ PendingAreCurrent
    /\ NoLostWakeup
    /\ SnapshotsFaithful

(* The server is a query service: the channels, the worker and the cached  *)
(* analysis are an implementation matter.                                  *)
ServicePhase == IF status = "running" THEN lifecycle ELSE "Stopped"
AsOpen(q) == [ticket |-> q.ticket, revision |-> q.revision]
ServiceOpen == {AsOpen(q) : q \in pendingQueries}

Service == INSTANCE QueryService WITH phase <- ServicePhase, open <- ServiceOpen

ImplementsQueryService == Service!Spec

-----------------------------------------------------------------------------
(* The threads of the process are scheduled; the client owes nothing.      *)
FairSpec == Spec /\ WF_vars(MainLoop) /\ WF_vars(Worker)

(* Every message the reader has taken is eventually handled, and every     *)
(* query completed, unless the server stops first.                         *)
EveryRequestCompletes ==
    \A t \in Ticket :
        (received >= t) ~>
            (status # "running" \/ (handled >= t /\ t \notin Tickets(pendingQueries)))

(* When the client stops sending, the published diagnostics settle on the  *)
(* current text, however the edits and the analyses were interleaved.      *)
DiagnosticsSettle ==
    <>[](status # "running" \/
           /\ requestedAnalysis = Nothing
           /\ revision > 0 => \A d \in Document :
                published[d] # Nothing /\ published[d].revision = revision)
=============================================================================
