---------------------------- MODULE QueryService ----------------------------
(***************************************************************************)
(* What the language server promises about requests, with no threads, no   *)
(* channels and no analyses: a versioned text and requests that are each   *)
(* completed exactly once.  A query is answered for the text it was asked  *)
(* about while that is still the text; an edit refuses the queries asked   *)
(* about older text in the same step.                                      *)
(***************************************************************************)
EXTENDS Naturals, Sequences

CONSTANTS Ticket, Revision

VARIABLES
    phase,      \* "WaitingForInitialize", "Running", "Shutdown", then "Stopped"
    revision,   \* the text's revision
    open,       \* queries not completed yet, [ticket, revision]
    replies     \* replies[t]: what request t was answered

vars == <<phase, revision, open, replies>>

Refusal == {"ParseError", "InvalidRequest", "InvalidParams", "MethodNotFound", "NotInitialized"}

OpenTickets == {q.ticket : q \in open}

Unanswered(t) == replies[t] = <<>> /\ t \notin OpenTickets

\* The replies once every query in qs has been completed with r.
Complete(qs, r) ==
    [t \in Ticket |-> IF t \in {q.ticket : q \in qs} THEN Append(replies[t], r) ELSE replies[t]]

Init ==
    /\ phase = "WaitingForInitialize"
    /\ revision = 0
    /\ open = {}
    /\ replies = [t \in Ticket |-> <<>>]

Start(t) ==
    /\ phase = "WaitingForInitialize" /\ Unanswered(t)
    /\ phase' = "Running"
    /\ replies' = [replies EXCEPT ![t] = <<[code |-> "Ack"]>>]
    /\ UNCHANGED <<revision, open>>

Refuse(t) ==
    /\ phase # "Stopped" /\ Unanswered(t)
    /\ \E c \in Refusal : replies' = [replies EXCEPT ![t] = <<[code |-> c]>>]
    /\ UNCHANGED <<phase, revision, open>>

Ask(t) ==
    /\ phase = "Running" /\ Unanswered(t)
    /\ open' = open \cup {[ticket |-> t, revision |-> revision]}
    /\ UNCHANGED <<phase, revision, replies>>

AnswerAtOnce(t) ==
    /\ phase = "Running" /\ Unanswered(t)
    /\ replies' = [replies EXCEPT ![t] = <<[code |-> "Answer", basis |-> revision]>>]
    /\ UNCHANGED <<phase, revision, open>>

Answer ==
    /\ phase = "Running" /\ open # {}
    /\ \A q \in open : q.revision = revision
    /\ replies' = Complete(open, [code |-> "Answer", basis |-> revision])
    /\ open' = {}
    /\ UNCHANGED <<phase, revision>>

Cancel(q) ==
    /\ phase = "Running" /\ q \in open
    /\ replies' = Complete({q}, [code |-> "RequestCancelled"])
    /\ open' = open \ {q}
    /\ UNCHANGED <<phase, revision>>

Edit ==
    /\ phase = "Running"
    /\ revision + 1 \in Revision
    /\ revision' = revision + 1
    /\ replies' = Complete(open, [code |-> "ContentModified"])
    /\ open' = {}
    /\ UNCHANGED phase

Shutdown(t) ==
    /\ phase = "Running" /\ Unanswered(t)
    /\ phase' = "Shutdown"
    /\ replies' = [Complete(open, [code |-> "RequestCancelled"])
                      EXCEPT ![t] = <<[code |-> "Ack"]>>]
    /\ open' = {}
    /\ UNCHANGED revision

Stop ==
    /\ phase' = "Stopped"
    /\ UNCHANGED <<revision, open, replies>>

Next ==
    \/ \E t \in Ticket : Start(t) \/ Refuse(t) \/ Ask(t) \/ AnswerAtOnce(t) \/ Shutdown(t)
    \/ Answer
    \/ \E q \in open : Cancel(q)
    \/ Edit
    \/ Stop

Spec == Init /\ [][Next]_vars
=============================================================================
