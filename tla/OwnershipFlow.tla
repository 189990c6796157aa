--------------------------- MODULE OwnershipFlow ---------------------------
(***************************************************************************)
(* The ownership analysis of compiler/src/codegen: which places a function *)
(* may use, move or assign at each point (flow.rs, places.rs, control.rs   *)
(* and the If, Assign and Return cases of expression_lowering.rs).         *)
(*                                                                         *)
(* The analysis reads a function body once, from left to right.  Here each *)
(* action reads one part of a body that is not known before; code is what  *)
(* has been read, flow what the analysis holds to be uninitialized.  A     *)
(* place is the set of its leaves, the parts that have no parts of their   *)
(* own.  The analysis does not see leaves but keys: it splits structs and  *)
(* arrays into their leaves, and keeps a tuple under one key, although the *)
(* fields of the tuple are places too, with keys of their own.  A block    *)
(* declares one local and gives it a new value.  Loans are left out,       *)
(* tuples of one field (here tuple and field would be one place), and what *)
(* follows an exit in its block, which is never run.                       *)
(***************************************************************************)
EXTENDS Naturals, Sequences, FiniteSets

CONSTANTS Locals,          \* the leaves of each owned local
          Inner,           \* the locals that blocks declare; others are parameters
          Places,          \* the locals and their parts, down to the leaves
          Tuples,          \* the places whose type is a tuple
          Named,           \* the places a body may move or assign
          Inspected,       \* the places a body may use
          MaxAlternatives, \* MAX_INITIALIZATION_ALTERNATIVES
          MaxParts         \* bound: parts of a body

ASSUME OwnershipAssumption ==
    /\ Inner \subseteq Locals
    /\ Locals \cup Tuples \cup Named \cup Inspected \subseteq Places
    /\ \A p \in Places : p # {} /\ \E L \in Locals : p \subseteq L
    /\ \A p \in Places : \A l \in p : {l} \in Places
    /\ \A L, M \in Locals : L # M => L \cap M = {}
    /\ \A p, q \in Places : p \subseteq q \/ q \subseteq p \/ p \cap q = {}
    /\ MaxAlternatives \in Nat \ {0}
    /\ MaxParts \in Nat

VARIABLES code,    \* the parts that have been read
          open,    \* the constructs that have not ended, innermost last
          flow,    \* FlowState: alternatives of uninitialized keys
          verdict  \* "reading", "refused" or "accepted"

flowVars == <<code, open, flow, verdict>>
-----------------------------------------------------------------------------
\* place_leaf_keys: the leaves of a place and the tuples in it, but for what
\* lies inside another tuple.
Keys(place) ==
    LET parts == {{leaf} : leaf \in place} \cup {tuple \in Tuples : tuple \subseteq place}
    IN {key \in parts : \A other \in parts : key \subseteq other => other = key}

\* Types nest finitely deep.
ASSUME KeysAssumption == \A place \in Places : UNION Keys(place) = place

Reachable(alternatives) == [reachable |-> TRUE, uninitialized |-> alternatives]
Unreachable == [reachable |-> FALSE, uninitialized |-> {}]

\* Variant: the possibly uninitialized keys are forgotten.
Normalize_Forgetful(alternatives) ==
    IF Cardinality(alternatives) > MaxAlternatives THEN {{}} ELSE alternatives

\* Too many alternatives are widened to two: nothing, or everything that any
\* of them holds.
Normalize(alternatives) ==
    IF Cardinality(alternatives) > MaxAlternatives
    THEN {{}, UNION alternatives}
    ELSE alternatives

Join(flows) ==
    LET arriving == {f \in flows : f.reachable}
    IN IF arriving = {} THEN Unreachable
       ELSE Reachable(Normalize(UNION {f.uninitialized : f \in arriving}))

\* initialization_status of the keys of a place: is it Initialized?
Initialized(place) ==
    \A alternative \in flow.uninitialized : alternative \cap Keys(place) = {}

\* mark_initialized: how an assignment finds its place.
Assignment(place) ==
    LET missing == {alternative \cap Keys(place) : alternative \in flow.uninitialized}
    IN IF missing \subseteq {{}} THEN "overwrite"
       ELSE IF missing = {Keys(place)} THEN "initialize"
       ELSE "maybe overwrite"

Projected(f, L) ==
    Normalize({{key \in alternative : key \subseteq L} : alternative \in f.uninitialized})

\* reject_loop_carried_moves, for one back edge.
Carried(entry, backedge) ==
    \E L \in Locals : /\ Projected(backedge, L) # Projected(entry, L)
                      /\ Projected(backedge, L) # {{}}

LocalOf(place) == CHOOSE L \in Locals : place \subseteq L

\* flow_without_scopes_from, pop_scope: locals that go out of scope are forgotten.
Without(f, leaves) ==
    IF f.reachable
    THEN Reachable(Normalize({{key \in alternative : ~ key \subseteq leaves} :
                                 alternative \in f.uninitialized}))
    ELSE f
-----------------------------------------------------------------------------
FlowInit == /\ code = << >>
            /\ open = << >>
            /\ flow = Reachable({{}})
            /\ verdict = "reading"

\* Parts of a body: what they do, to which place, where their construct
\* begins, and what an assignment has been found to be.
Part(does, place, from) == [does |-> does, place |-> place, from |-> from,
                            kind |-> "none", whole |-> FALSE]
Here == Len(code) + 1

\* The parts of the body when all that is open has been closed.
Parts == Len(code) + Len(open)
         + Cardinality({i \in 1..Len(open) : open[i].does \in {"while", "do"}})

\* The locals that the open constructs from the d-th on have declared.
DeclaredFrom(d) == UNION {open[i].local : i \in d..Len(open)}

\* What of them a body may mention here.
Visible(places) == {place \in places : LocalOf(place) \in Inner => place \subseteq DeclaredFrom(1)}

\* There is room for n more parts, and the point is reached.
CanRead(n) == verdict = "reading" /\ Parts + n <= MaxParts /\ flow.reachable
Read(part) == code' = Append(code, part) /\ UNCHANGED verdict

\* An error: the body is not compiled.
Refuse == /\ verdict' = "refused"
          /\ code' = << >> /\ open' = << >> /\ flow' = Unreachable

\* A borrow or a copy (ensure_available).
LowerUse(place) ==
    /\ CanRead(1)
    /\ IF Initialized(place)
       THEN Read(Part("use", place, 0)) /\ UNCHANGED <<open, flow>>
       ELSE Refuse

\* access_place with Move: ensure_available, then mark_moved.
LowerMove(place) ==
    /\ CanRead(1)
    /\ IF Initialized(place)
       THEN /\ Read(Part("move", place, 0))
            /\ flow' = Reachable(Normalize({alternative \cup Keys(place) :
                                              alternative \in flow.uninitialized}))
            /\ UNCHANGED open
       ELSE Refuse

\* The value has been lowered before.
LowerAssign(place) ==
    /\ CanRead(1)
    /\ LET after == Normalize({alternative \ Keys(place) : alternative \in flow.uninitialized})
       IN /\ flow' = Reachable(after)
          /\ Read([Part("assign", place, 0) EXCEPT
                     !.kind = Assignment(place),
                     !.whole = \A alternative \in after :
                                  alternative \cap Keys(LocalOf(place)) = {}])
    /\ UNCHANGED open
-----------------------------------------------------------------------------
\* Frames hold the flow on entry, the flow of what has been read of the
\* construct (the then branch, the condition), and a LoopFrame's flows.
Begin(does, local, n) ==
    /\ CanRead(n)
    /\ Read(Part(does, local, Here))
    /\ open' = Append(open, [does |-> does, local |-> local, from |-> Here, entry |-> flow,
                             first |-> Unreachable, breaks |-> {}, continues |-> {}])
    /\ UNCHANGED flow

Top == open[Len(open)]
Within(does) == verdict = "reading" /\ open # << >> /\ Top.does = does
Close(does) == Read(Part(does, Top.local, Top.from)) /\ open' = SubSeq(open, 1, Len(open) - 1)
Go_on(does) == /\ Read(Part(does, {}, Top.from))
               /\ open' = [open EXCEPT ![Len(open)] =
                             [Top EXCEPT !.does = does, !.first = flow]]

\* lower_expr of a Block that begins with a let.
BeginBlock(local) == ~ local \subseteq DeclaredFrom(1) /\ Begin("block", local, 2)
EndBlock == Within("block") /\ Close("end") /\ flow' = Without(flow, Top.local)

\* lower_expr of an If, the condition having been read.
BeginIf == Begin("if", {}, 2)

ReadElse == Parts < MaxParts /\ Within("if") /\ Go_on("else") /\ flow' = Top.entry

EndIf == \/ Within("if") /\ Close("end") /\ flow' = Join({flow, Top.entry})
         \/ Within("else") /\ Close("end") /\ flow' = Join({Top.first, flow})

BackEdges == {f \in Top.continues \cup {flow} : f.reachable}
EndLoop(exits) == IF \E f \in BackEdges : Carried(Top.entry, f)
                  THEN Refuse
                  ELSE Close("end") /\ flow' = Join(exits)

\* lower_while: the condition, then the body.
BeginWhile == Begin("while", {}, 3)
ReadBody == Within("while") /\ Go_on("body") /\ UNCHANGED flow
EndWhile == Within("body") /\ EndLoop(Top.breaks \cup {Top.first} \cup BackEdges)

\* lower_while with post_test: the body, then the condition.
BeginDo == Begin("do", {}, 3)
ReadCondition == /\ Within("do")
                 /\ Go_on("condition")
                 /\ flow' = Join(Top.continues \cup {flow})
EndDo == Within("condition") /\ EndLoop(Top.breaks \cup {flow} \cup BackEdges)

\* lower_loop.
BeginLoop == Begin("loop", {}, 2)
EndOfLoop == Within("loop") /\ EndLoop(Top.breaks)

\* context.loops.last(), if there is one.
Enclosing == {i \in 1..Len(open) : open[i].does \notin {"block", "if", "else"}}
InnerLoop == {i \in Enclosing : \A j \in Enclosing : j <= i}

\* lower_break and lower_continue; outside a loop they are errors.  They leave
\* the scopes inside the loop.
Leave(does, loop) ==
    /\ Read(Part(does, DeclaredFrom(loop + 1), open[loop].from))
    /\ flow' = Unreachable
Kept(loop) == Without(flow, DeclaredFrom(loop + 1))

LowerBreak ==
    /\ CanRead(1)
    /\ \/ Enclosing = {} /\ Refuse
       \/ \E loop \in InnerLoop : /\ Leave("break", loop)
                                  /\ open' = [open EXCEPT ![loop].breaks = @ \cup {Kept(loop)}]

LowerContinue ==
    /\ CanRead(1)
    /\ \/ Enclosing = {} /\ Refuse
       \/ \E loop \in InnerLoop : /\ Leave("continue", loop)
                                  /\ open' = [open EXCEPT ![loop].continues = @ \cup {Kept(loop)}]

Parameters == UNION (Locals \ Inner)

LowerReturn == /\ CanRead(1)
               /\ Read(Part("return", Parameters \cup DeclaredFrom(1), 0))
               /\ flow' = Unreachable
               /\ UNCHANGED open

Accept == /\ verdict = "reading"
          /\ open = << >>
          /\ verdict' = "accepted"
          /\ UNCHANGED <<code, open, flow>>

Lower == \/ \E place \in Visible(Inspected) : LowerUse(place)
         \/ \E place \in Visible(Named) : LowerMove(place) \/ LowerAssign(place)
         \/ (\E local \in Inner : BeginBlock(local)) \/ EndBlock
         \/ BeginIf \/ ReadElse \/ EndIf
         \/ BeginWhile \/ ReadBody \/ EndWhile
         \/ BeginDo \/ ReadCondition \/ EndDo
         \/ BeginLoop \/ EndOfLoop
         \/ LowerBreak \/ LowerContinue \/ LowerReturn
=============================================================================
