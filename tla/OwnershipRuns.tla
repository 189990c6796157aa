--------------------------- MODULE OwnershipRuns ---------------------------
(***************************************************************************)
(* What becomes of a body that the ownership analysis accepts: its cleanup *)
(* plan is verified (compiler/src/cleanup.rs, codegen/cleanup_plan.rs),    *)
(* then code is emitted that keeps a drop flag for each place and drops    *)
(* what they say (codegen/emitter.rs).  The emitted code is run here, with *)
(* every outcome of every condition.                                       *)
(***************************************************************************)
EXTENDS OwnershipFlow

VARIABLES verified, \* CleanupPlanBuilder::finish has found no error
          pc,       \* the part of code that runs next
          live,     \* the leaves that hold a value
          flags     \* the drop flags that are set: the places of their slots

runVars == <<verified, pc, live, flags>>
vars == <<flowVars, runVars>>

Leaves == UNION Locals

\* Parts where the storage of their place ends.
Exits == {"end", "break", "continue", "return"}
-----------------------------------------------------------------------------
\* Control flow, the same for the plan (walk_if, walk_while, walk_do_while,
\* walk_loop) and the emitted code.
PartAt(from, does) == CHOOSE i \in 1..Len(code) : code[i].from = from /\ code[i].does = does
Past(from) == PartAt(from, "end") + 1
HasElse(from) == \E i \in 1..Len(code) : code[i].from = from /\ code[i].does = "else"

Repeats(from) == IF code[from].does = "do" THEN PartAt(from, "condition") + 1
                                           ELSE from + 1

Successors(i) ==
    IF i > Len(code) THEN {}
    ELSE LET from == code[i].from IN
         CASE code[i].does = "if" ->
                {i + 1, IF HasElse(i) THEN PartAt(i, "else") + 1 ELSE Past(i)}
           [] code[i].does = "body" -> {i + 1, Past(from)}
           [] code[i].does \in {"else", "break"} -> {Past(from)}
           [] code[i].does = "continue" -> {Repeats(from)}
           [] code[i].does = "end" ->
                (IF code[from].does \in {"while", "do", "loop"} THEN {from + 1} ELSE {})
                \cup (IF code[from].does \in {"while", "loop"} THEN {} ELSE {i + 1})
           [] code[i].does = "return" -> {}
           [] OTHER -> {i + 1}

Points == 1..(Len(code) + 1)
-----------------------------------------------------------------------------
\* MoveState: the leaves that may and that must be initialized.
MoveState == [reached : BOOLEAN, may : SUBSET Leaves, must : SUBSET Leaves]
Unreached == [reached |-> FALSE, may |-> {}, must |-> {}]
AtEntry == [reached |-> TRUE, may |-> Parameters, must |-> Parameters]

JoinStates(states) ==
    LET arriving == {s \in states : s.reached}
    IN IF arriving = {} THEN Unreached
       ELSE [reached |-> TRUE,
             may |-> UNION {s.may : s \in arriving},
             must |-> {l \in Leaves : \A s \in arriving : l \in s.must}]

\* apply_operation, and end_storage for the scopes an edge leaves.
After(i, s) ==
    IF i > Len(code) \/ ~s.reached THEN s
    ELSE CASE code[i].does \in Exits \cup {"move"} ->
                [reached |-> TRUE, may |-> s.may \ code[i].place, must |-> s.must \ code[i].place]
           [] code[i].does \in {"block", "assign"} ->
                [reached |-> TRUE,
                 may |-> s.may \cup code[i].place, must |-> s.must \cup code[i].place]
           [] OTHER -> s

\* The states before each part, from those that were known before.
Propagated(before) ==
    [i \in Points |->
       JoinStates({IF i = 1 THEN AtEntry ELSE Unreached} \cup
                  {After(j, before[j]) : j \in {k \in Points : i \in Successors(k)}})]

\* The queue of MoveStateAnalysis::compute is empty.
Settled(states) == Propagated(states) = states

\* MoveStateAnalysis::compute.
MoveStates ==
    LET Compute[before \in [Points -> MoveState]] ==
          LET after == Propagated(before) IN IF after = before THEN before ELSE Compute[after]
    IN Compute[[i \in Points |-> Unreached]]

\* verify_stable_move_state.
Verifies(states) ==
    \A i \in 1..Len(code) :
         LET place == code[i].place
             full == place \subseteq states[i].must
             vacant == place \cap states[i].may = {}
         IN states[i].reached =>
              /\ code[i].does = "move" => full
              /\ code[i].kind = "overwrite" => full
              /\ code[i].kind = "initialize" => vacant
              /\ code[i].kind = "maybe overwrite" => ~full /\ ~vacant
-----------------------------------------------------------------------------
\* emit_conditional_drop: a slot whose flag is set is dropped as a whole,
\* otherwise its children are looked at.
Dropped(place) == IF place \in flags THEN place
                  ELSE UNION {slot \in flags : slot \subseteq place}

\* collect_place_flag_updates, for a value that is stored or moved out.
FlagsStored(place, whole) ==
    flags \cup {slot \in Places : slot \subseteq IF whole THEN LocalOf(place) ELSE place}

\* Variant: the flags of the places around the moved one stay set.
FlagsMoved_Inner(place) == {slot \in flags : ~ slot \subseteq place}

FlagsMoved(place) == {slot \in flags : ~ (slot \subseteq place \/ place \subseteq slot)}

Init == /\ FlowInit
        /\ verified = FALSE
        /\ pc = 0
        /\ live = {}
        /\ flags = {}

Analyse == Lower /\ UNCHANGED runVars

\* A body whose plan does not verify is not emitted; it runs here all the
\* same, to see what the analysis alone is worth.
Emit == /\ Accept
        /\ \E states \in {MoveStates} : Settled(states) /\ verified' = Verifies(states)
        /\ pc' = 1
        /\ live' = Parameters
        /\ flags' = {slot \in Places : slot \subseteq Parameters}

Running == verdict = "accepted" /\ pc \in 1..Len(code)
Runs(does) == Running /\ code[pc].does = does
Place == code[pc].place
Advance == pc' \in Successors(pc) /\ UNCHANGED <<flowVars, verified>>

RunMove == /\ Runs("move")
           /\ live' = live \ Place
           /\ flags' = FlagsMoved(Place)
           /\ Advance

\* What the place held, the emitted code drops first, unless the analysis
\* has found it to hold nothing; then the flags are set.
Released == IF code[pc].kind = "initialize" THEN {} ELSE Dropped(Place)

RunAssign == /\ Runs("assign")
             /\ live' = live \cup Place
             /\ flags' = FlagsStored(Place, code[pc].whole)
             /\ Advance

\* register_drop_slot: the local of a block has its value, and its flags are set.
RunBlock == /\ Runs("block")
            /\ live' = live \cup Place
            /\ flags' = FlagsStored(Place, FALSE)
            /\ Advance

\* emit_cleanup_range: the locals whose scopes are left are dropped, and their
\* slots are gone.
RunExit == /\ Running
           /\ code[pc].does \in Exits
           /\ live' = live \ Place
           /\ flags' = {slot \in flags : ~ slot \subseteq Place}
           /\ Advance

RunOther == /\ Running
            /\ code[pc].does \notin Exits \cup {"move", "assign", "block"}
            /\ UNCHANGED <<live, flags>>
            /\ Advance

Next == Analyse \/ Emit \/ RunMove \/ RunAssign \/ RunBlock \/ RunExit \/ RunOther
Spec == Init /\ [][Next]_vars
-----------------------------------------------------------------------------
\* A continue in the condition of a do-while: it leads to the condition, which
\* has been read without the flow it brings.
ResumesCondition ==
    \E c, i \in 1..Len(code) : /\ c < i
                               /\ code[c].does = "condition"
                               /\ code[i].does = "continue"
                               /\ code[i].from = code[c].from

\* The keys of what a body moves.  Those that overlap a place without being
\* among its own keys, the analysis does not see when the place is asked for:
\* a field of a tuple when it is the tuple, the tuple when it is a field.
MovedKeys(body) == UNION {Keys(body[i].place) : i \in {j \in 1..Len(body) : body[j].does = "move"}}
Unseen(body, place) == {key \in MovedKeys(body) \ Keys(place) : key \cap place # {}}

\* An assignment to part of a local when the body moves, outside that part, a
\* field of a tuple: the analysis takes the local for complete.
CompletesTuple ==
    \E i \in 1..Len(code) : /\ code[i].does = "assign"
                            /\ \E key \in Unseen(code, LocalOf(code[i].place)) :
                                  ~ key \subseteq code[i].place

\* The ownership analysis alone, its widening included, sees to it that a body
\* never reads or moves a place whose value is gone, on whatever path and in
\* whatever round of its loops (FlowState, reject_loop_carried_moves).  There
\* are two exceptions: a continue in the condition of a do-while, and a tuple
\* when the body moves one of its fields, or a field when it moves the tuple
\* (append_leaf_keys).  Verification sees to it that nothing that is gone is
\* moved, in any body (analyze_and_verify).
UsesAreInitialized ==
    /\ Running /\ code[pc].does \in {"use", "move"} =>
         ResumesCondition \/ Unseen(code, Place) # {} \/ Place \subseteq live
    /\ Runs("move") /\ verified => Place \subseteq live

\* The locals whose storage ends at this point.
Ending == IF pc = Len(code) + 1 THEN Parameters
          ELSE IF Running /\ code[pc].does \in Exits THEN Place
          ELSE {}

Leaving == pc = Len(code) + 1 \/ Runs("return")

\* In emitted code every value is dropped exactly once: an assignment drops
\* what its place holds; leaving a scope, by its end, break, continue or
\* return, drops what its locals hold; no value is left behind, and nothing
\* that has been moved away is dropped (emit_conditional_drop,
\* emit_cleanup_range).  What a continue in the condition of a do-while brings
\* back, the analysis has not seen (ResumesCondition), nor that a field of a
\* tuple is gone when another one is assigned (CompletesTuple).
DroppedExactlyOnce ==
    verdict = "accepted" /\ verified /\ ~ResumesCondition /\ ~CompletesTuple =>
        /\ Runs("assign") => Released = live \cap Place
        /\ \A L \in Locals : L \subseteq Ending => Dropped(L) = live \cap L
        /\ Runs("block") => Place \cap live = {}
        /\ Leaving => live \subseteq Ending

\* docs/language/specification.md:538-540: "Lexical scope exit drops each
\* still-initialized owned value exactly once".  A tuple whose first field has
\* been moved away and whose second field is then assigned has the flags of
\* both set again (root_initialized of the single key of a tuple).
ScopeExitDropsOnce ==
    verdict = "accepted" /\ verified =>
        \A L \in Locals : L \subseteq Ending => Dropped(L) = live \cap L
=============================================================================
