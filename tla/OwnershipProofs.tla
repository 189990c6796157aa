--------------------------- MODULE OwnershipProofs ---------------------------
(***************************************************************************)
(* A body that the ownership analysis accepts uses nothing that is gone,   *)
(* and what is emitted for one whose plan verifies drops everything once,  *)
(* for every set of locals and places, every body, and every limit of      *)
(* alternatives.                                                           *)
(*                                                                         *)
(* The analysis forgets what it held at the parts it has read.  The proof  *)
(* does not: a body has an annotation, a note for each point that says     *)
(* whether it is reached, what surely holds a value there and what has     *)
(* been declared.  Every edge between two parts respects the notes; those  *)
(* that are still missing because their construct is open are stood for by *)
(* the flows its frame keeps.  An execution then never leaves the notes.   *)
(***************************************************************************)
EXTENDS OwnershipRuns, SequenceTheorems, TLAPS

\* Parts that begin a construct, that belong to one, and others.
LoopBegins == {"while", "do", "loop"}
Begins == LoopBegins \cup {"block", "if"}
Members == {"else", "body", "condition", "end", "break", "continue"}
Plain == {"use", "move", "assign", "return"}
Kinds == {"none", "overwrite", "initialize", "maybe overwrite"}

Flow == [reachable : BOOLEAN, uninitialized : SUBSET SUBSET Places]
PartType == [does : Begins \cup Members \cup Plain, place : SUBSET Leaves, from : Nat,
             kind : Kinds, whole : BOOLEAN]
FrameType == [does : Begins \cup {"else", "body", "condition"}, local : SUBSET Leaves,
              from : Nat, entry : Flow, first : Flow, breaks : SUBSET Flow,
              continues : SUBSET Flow]

\* The keys that are missing in some alternative, and their leaves; a point with
\* an alternative is reached.
Missing(f) == UNION f.uninitialized
Gone(f) == UNION Missing(f)
Inhabited(f) == f.reachable <=> f.uninitialized # {}

\* What has been declared outside the d-th construct of a stack of frames.
Outside(stack, d) == Parameters \cup UNION {stack[i].local : i \in 1..(d - 1)}

\* A flow, and the flows of a frame, where leaves have been declared.
FlowIn(f, leaves) == f \in Flow /\ Inhabited(f) /\ Gone(f) \subseteq leaves
FrameIn(frame, leaves) ==
    /\ FlowIn(frame.entry, leaves)
    /\ frame.entry.reachable
    /\ FlowIn(frame.first, leaves)
    /\ \A f \in frame.breaks \cup frame.continues : FlowIn(f, leaves)

FlowTypeOK == /\ code \in Seq(PartType)
              /\ open \in Seq(FrameType)
              /\ FlowIn(flow, Outside(open, Len(open) + 1))
              /\ \A d \in 1..Len(open) : FrameIn(open[d], Outside(open, d))
-----------------------------------------------------------------------------
\* The part of the construct that begins at from, in what has been read.
IsPart(body, e, from, does) == e \in 1..Len(body) /\ body[e].from = from /\ body[e].does = does
Has(body, from, does) == \E e \in 1..Len(body) : IsPart(body, e, from, does)

\* Each part knows where its construct begins, and a frame what it is of.
PartFits(body, i) ==
    LET from == body[i].from IN
    /\ body[i].does \in Plain => from = 0
    /\ body[i].does \in Begins => from = i
    /\ body[i].does \in Members => from \in 1..(i - 1) /\ body[from].does \in Begins
    /\ body[i].does = "else" => body[from].does = "if"
    /\ body[i].does = "body" => body[from].does = "while"
    /\ body[i].does = "condition" => body[from].does = "do"
    /\ body[i].does \in {"break", "continue"} => body[from].does \in LoopBegins

PartsFit(body) == \A i \in 1..Len(body) : PartFits(body, i)

FrameFits(body, stack, d) ==
    LET from == stack[d].from IN
    /\ from \in 1..Len(body)
    /\ stack[d].does \in {"if", "else"} <=> body[from].does = "if"
    /\ stack[d].does \in {"while", "body"} <=> body[from].does = "while"
    /\ stack[d].does \in {"do", "condition"} <=> body[from].does = "do"
    /\ stack[d].does = "loop" <=> body[from].does = "loop"
    /\ stack[d].does = "block" <=> body[from].does = "block"
    /\ ~Has(body, from, "end")
    /\ stack[d].does = "else" <=> Has(body, from, "else")
    /\ stack[d].does = "body" <=> Has(body, from, "body")
    /\ stack[d].does = "condition" <=> Has(body, from, "condition")
    /\ IF stack[d].does = "block" THEN stack[d].local \in Inner ELSE stack[d].local = {}
    /\ stack[d].local \cap Outside(stack, d) = {}

FramesFit(body, stack) ==
    \A d \in 1..Len(stack) :
        /\ FrameFits(body, stack, d)
        /\ \A c \in 1..(d - 1) : stack[c].from < stack[d].from

\* A construct that is not open has all its parts.
IsOpen(stack, i) == \E d \in 1..Len(stack) : stack[d].from = i
Ended(body, i) == Has(body, i, "end") /\ (body[i].does = "do" => Has(body, i, "condition"))
Closed(body, stack) ==
    \A i \in 1..Len(body) : body[i].does \in Begins => IsOpen(stack, i) \/ Ended(body, i)

Shape(body, stack) == PartsFit(body) /\ FramesFit(body, stack) /\ Closed(body, stack)
-----------------------------------------------------------------------------
Note == [reached : BOOLEAN, sure : SUBSET Leaves, declared : SUBSET Leaves]
NoteOf(f, leaves) == [reached |-> f.reachable, sure |-> leaves \ Gone(f), declared |-> leaves]
FirstNote == [reached |-> TRUE, sure |-> Parameters, declared |-> Parameters]

\* What a part makes of what holds values.
Effect(p, leaves) ==
    IF p.does \in Exits \cup {"move"} THEN leaves \ p.place
    ELSE IF p.does \in {"block", "assign"} THEN leaves \cup p.place
    ELSE leaves

\* Where control goes from a part, as far as it has been read.
PastAll(body, from, does) == {e + 1 : e \in {c \in 1..Len(body) : IsPart(body, c, from, does)}}
Leads(body, i) ==
    LET from == body[i].from IN
    CASE body[i].does = "if" ->
           {i + 1} \cup PastAll(body, i, "else")
                   \cup (IF Has(body, i, "else") THEN {} ELSE PastAll(body, i, "end"))
      [] body[i].does = "body" -> {i + 1} \cup PastAll(body, from, "end")
      [] body[i].does \in {"else", "break"} -> PastAll(body, from, "end")
      [] body[i].does = "continue" ->
           IF body[from].does = "do" THEN PastAll(body, from, "condition")
           ELSE IF Has(body, from, "end") THEN {from + 1} ELSE {}
      [] body[i].does = "end" ->
           (IF body[from].does \in LoopBegins THEN {from + 1} ELSE {})
           \cup (IF body[from].does \in {"while", "loop"} THEN {} ELSE {i + 1})
      [] body[i].does = "return" -> {}
      [] OTHER -> {i + 1}

\* A note that holds wherever part p brings what another note says.
Brings(p, before, after) ==
    before.reached => /\ after.reached
                      /\ after.sure \subseteq Effect(p, before.sure)
                      /\ Effect(p, before.declared) \subseteq after.declared

\* What a part needs of the note at its point.
PartOK(body, p, note) ==
    note.reached =>
      /\ p.does \in {"use", "move"} => p.place \subseteq note.sure \/ Unseen(body, p.place) # {}
      /\ p.does \in {"move", "assign"} => p.place \in Places /\ p.place \subseteq note.declared
      /\ p.whole => \/ LocalOf(p.place) \subseteq note.sure \cup p.place
                    \/ \E key \in Unseen(body, LocalOf(p.place)) : ~ key \subseteq p.place
      /\ p.does = "block" => p.place \in Locals /\ p.place \cap note.declared = {}
      /\ p.does \in Exits => \A L \in Locals : L \subseteq p.place \/ L \cap p.place = {}
      /\ p.does = "return" => note.declared \subseteq p.place

\* What the flows of an open construct stand for.
FrameOK(body, notes, frame, leaves) ==
    /\ notes[frame.from] = NoteOf(frame.entry, leaves)
    /\ body[frame.from].does \in LoopBegins => notes[frame.from + 1] = NoteOf(frame.entry, leaves)
    /\ \A i \in 1..Len(body) : body[i].from = frame.from =>
          /\ body[i].does \in {"else", "body"} => notes[i] = NoteOf(frame.first, leaves)
          /\ body[i].does = "break" /\ notes[i].reached =>
                \E f \in frame.breaks : f.reachable /\ Brings(body[i], notes[i], NoteOf(f, leaves))
          /\ body[i].does = "continue" /\ notes[i].reached /\ frame.does # "condition" =>
                \E f \in frame.continues : f.reachable /\ Brings(body[i], notes[i], NoteOf(f, leaves))

PointsOf(body) == 1..(Len(body) + 1)
EdgesOK(body, notes) ==
    \A i \in 1..Len(body) : \A j \in Leads(body, i) : Brings(body[i], notes[i], notes[j])

\* The notes of what has been read, with the flow where the reader is.
Annotates(notes, body, stack, f) ==
    /\ notes \in [PointsOf(body) -> Note]
    /\ notes[1] = FirstNote
    /\ notes[Len(body) + 1] = NoteOf(f, Outside(stack, Len(stack) + 1))
    /\ \A i \in 1..Len(body) : PartOK(body, body[i], notes[i])
    /\ EdgesOK(body, notes)
    /\ \A d \in 1..Len(stack) : FrameOK(body, notes, stack[d], Outside(stack, d))
-----------------------------------------------------------------------------
(* Flows.                                                                  *)

LEMMA LeavesAreLocals == /\ Parameters \subseteq Leaves
                         /\ \A L \in Locals : L \subseteq Leaves
                         /\ \A p \in Places : p \subseteq Leaves
  BY OwnershipAssumption DEF Parameters, Leaves

LEMMA KeysFacts ==
    ASSUME NEW place \in Places
    PROVE  Keys(place) \subseteq Places /\ UNION Keys(place) = place
  <1>1. \A leaf \in place : {leaf} \in Places
    BY OwnershipAssumption
  <1>2. Tuples \subseteq Places
    BY OwnershipAssumption
  <1>3. ASSUME NEW key \in Keys(place)
        PROVE  key \in {{leaf} : leaf \in place} \cup {tuple \in Tuples : tuple \subseteq place}
    BY DEF Keys
  <1>4. Keys(place) \subseteq Places
    BY <1>1, <1>2, <1>3
  <1> QED BY <1>4, KeysAssumption

\* A place lies in one local.
LEMMA InOneLocal ==
    ASSUME NEW place \in Places, NEW L \in Locals
    PROVE  place \subseteq L \/ place \cap L = {}
  <1>1. PICK M \in Locals : place \subseteq M
    BY OwnershipAssumption
  <1>2. M = L \/ M \cap L = {}
    BY OwnershipAssumption
  <1> QED BY <1>1, <1>2

LEMMA NormalizeKeeps ==
    ASSUME NEW alternatives \in SUBSET SUBSET Places
    PROVE  /\ Normalize(alternatives) \in SUBSET SUBSET Places
           /\ UNION Normalize(alternatives) = UNION alternatives
           /\ alternatives # {} => Normalize(alternatives) # {}
  <1>1. CASE Normalize(alternatives) = alternatives
    BY <1>1
  <1>2. CASE Normalize(alternatives) = {{}, UNION alternatives}
    <2>1. UNION alternatives \in SUBSET Places
      OBVIOUS
    <2>2. UNION {{}, UNION alternatives} = UNION alternatives
      OBVIOUS
    <2> QED BY <1>2, <2>1, <2>2
  <1> QED BY <1>1, <1>2 DEF Normalize

\* What the operations of the analysis make of a flow.
LEMMA ReachableFlow ==
    ASSUME NEW alternatives \in SUBSET SUBSET Places, alternatives # {}
    PROVE  /\ Reachable(Normalize(alternatives)) \in Flow
           /\ Inhabited(Reachable(Normalize(alternatives)))
           /\ Missing(Reachable(Normalize(alternatives))) = UNION alternatives
           /\ Gone(Reachable(Normalize(alternatives))) = UNION UNION alternatives
           /\ Reachable(Normalize(alternatives)).reachable
  <1>1. /\ Normalize(alternatives) \in SUBSET SUBSET Places
        /\ UNION Normalize(alternatives) = UNION alternatives
        /\ Normalize(alternatives) # {}
    BY NormalizeKeeps
  <1> QED BY <1>1 DEF Reachable, Flow, Inhabited, Gone, Missing

LEMMA UnreachableFlow == /\ Unreachable \in Flow /\ Inhabited(Unreachable)
                         /\ Missing(Unreachable) = {} /\ Gone(Unreachable) = {}
                         /\ ~Unreachable.reachable
  BY DEF Unreachable, Flow, Inhabited, Gone, Missing

LEMMA JoinFlow ==
    ASSUME NEW flows, \A f \in flows : f \in Flow /\ Inhabited(f)
    PROVE  /\ Join(flows) \in Flow /\ Inhabited(Join(flows))
           /\ \A f \in flows : f.reachable =>
                 Join(flows).reachable /\ Gone(f) \subseteq Gone(Join(flows))
           /\ \A S : (\A f \in flows : Gone(f) \subseteq S) => Gone(Join(flows)) \subseteq S
           /\ \A S : (\A f \in flows : Missing(f) \subseteq S) => Missing(Join(flows)) \subseteq S
  <1> DEFINE arriving == {f \in flows : f.reachable}
             all == UNION {f.uninitialized : f \in arriving}
  <1>1. CASE arriving = {}
    <2>1. Join(flows) = Unreachable
      BY <1>1 DEF Join
    <2> QED BY <1>1, <2>1, UnreachableFlow
  <1>2. CASE arriving # {}
    <2>1. Join(flows) = Reachable(Normalize(all))
      BY <1>2 DEF Join
    <2>2. all \in SUBSET SUBSET Places
      BY DEF Flow
    <2>3. all # {}
      <3>1. PICK f \in arriving : TRUE
        BY <1>2
      <3>2. f.uninitialized # {}
        BY <3>1 DEF Inhabited
      <3> QED BY <3>1, <3>2
    <2>4. /\ Join(flows) \in Flow /\ Inhabited(Join(flows))
          /\ Missing(Join(flows)) = UNION all /\ Join(flows).reachable
      BY <2>1, <2>2, <2>3, ReachableFlow
    <2>5. \A f \in arriving : Missing(f) \subseteq UNION all
      BY DEF Missing
    <2>6. \A key \in UNION all : \E f \in arriving : key \in Missing(f)
      BY DEF Missing
    <2>7. \A f \in flows : f.reachable <=> f \in arriving
      OBVIOUS
    <2> HIDE DEF arriving, all
    <2>8. \A f \in arriving : Gone(f) \subseteq Gone(Join(flows))
      BY <2>4, <2>5 DEF Gone
    <2>9. \A leaf \in Gone(Join(flows)) : \E f \in arriving : leaf \in Gone(f)
      BY <2>4, <2>6 DEF Gone
    <2>10. arriving \subseteq flows
      BY DEF arriving
    <2> QED BY <2>4, <2>6, <2>7, <2>8, <2>9, <2>10
  <1> QED BY <1>1, <1>2

\* What is left of the alternatives of a flow when each keeps some of its keys.
LEMMA KeptOfFlow ==
    ASSUME NEW f \in Flow, Inhabited(f), f.reachable, NEW keys
    PROVE  LET g == Reachable(Normalize({alternative \cap keys : alternative \in f.uninitialized}))
           IN /\ g \in Flow /\ Inhabited(g) /\ g.reachable
              /\ Missing(g) = Missing(f) \cap keys
  <1> DEFINE rest == {alternative \cap keys : alternative \in f.uninitialized}
  <1>1. f.uninitialized \in SUBSET SUBSET Places /\ f.uninitialized # {}
    BY DEF Flow, Inhabited
  <1>2. \A alternative \in f.uninitialized : alternative \cap keys \in SUBSET Places
    BY <1>1
  <1>3. rest \in SUBSET SUBSET Places /\ rest # {}
    <2>1. rest \subseteq SUBSET Places
      BY <1>2
    <2>2. PICK alternative \in f.uninitialized : TRUE
      BY <1>1
    <2>3. alternative \cap keys \in rest
      BY <2>2
    <2> QED BY <2>1, <2>3
  <1>4. UNION rest = Missing(f) \cap keys
    BY DEF Missing
  <1> HIDE DEF rest
  <1>5. LET g == Reachable(Normalize(rest))
        IN /\ g \in Flow /\ Inhabited(g) /\ g.reachable
           /\ Missing(g) = Missing(f) \cap keys
    BY <1>3, <1>4, ReachableFlow
  <1> QED BY <1>5 DEF rest

LEMMA WithoutFlow ==
    ASSUME NEW f \in Flow, Inhabited(f), NEW leaves,
           \A key \in Places : key \subseteq leaves \/ key \cap leaves = {}
    PROVE  /\ Without(f, leaves) \in Flow /\ Inhabited(Without(f, leaves))
           /\ Without(f, leaves).reachable = f.reachable
           /\ Gone(Without(f, leaves)) = Gone(f) \ leaves
  <1>1. CASE ~f.reachable
    <2>1. Gone(f) = {}
      BY <1>1 DEF Inhabited, Gone, Missing
    <2> QED BY <1>1, <2>1 DEF Without
  <1>2. CASE f.reachable
    <2> DEFINE keys == {key \in Places : ~ key \subseteq leaves}
               g == Reachable(Normalize({alternative \cap keys : alternative \in f.uninitialized}))
    <2>1. f.uninitialized \in SUBSET SUBSET Places
      BY DEF Flow
    <2>2. \A alternative \in f.uninitialized :
             {key \in alternative : ~ key \subseteq leaves} = alternative \cap keys
      BY <2>1
    <2>3. {{key \in alternative : ~ key \subseteq leaves} : alternative \in f.uninitialized}
             = {alternative \cap keys : alternative \in f.uninitialized}
      BY <2>2
    <2>4. Without(f, leaves) = g
      BY <1>2, <2>3 DEF Without
    <2>5. g \in Flow /\ Inhabited(g) /\ g.reachable /\ Missing(g) = Missing(f) \cap keys
      BY <1>2, KeptOfFlow
    <2>6. Missing(f) \subseteq Places
      BY <2>1 DEF Missing
    <2>7. UNION (Missing(f) \cap keys) = Gone(f) \ leaves
      BY <2>6 DEF Gone
    <2>8. f.reachable = TRUE /\ g.reachable = TRUE
      BY <1>2 DEF Flow, Reachable
    <2> HIDE DEF g, keys
    <2>9. Gone(g) = Gone(f) \ leaves
      BY <2>5, <2>7 DEF Gone
    <2> QED BY <2>4, <2>5, <2>8, <2>9
  <1> QED BY <1>1, <1>2

\* A flow in which nothing is missing but what was.
LEMMA WithoutMissing ==
    ASSUME NEW f \in Flow, Inhabited(f), NEW leaves
    PROVE  Missing(Without(f, leaves)) \subseteq Missing(f)
  <1>1. CASE ~f.reachable
    BY <1>1 DEF Without
  <1>2. CASE f.reachable
    <2> DEFINE rest == {{key \in alternative : ~ key \subseteq leaves} : alternative \in f.uninitialized}
    <2>1. f.uninitialized \in SUBSET SUBSET Places
      BY DEF Flow
    <2>2. \A alternative \in f.uninitialized :
             {key \in alternative : ~ key \subseteq leaves} \in SUBSET Places
      BY <2>1
    <2>3. rest \in SUBSET SUBSET Places
      BY <2>2
    <2>4. UNION rest \subseteq Missing(f)
      BY DEF Missing
    <2>5. Without(f, leaves) = Reachable(Normalize(rest))
      BY <1>2 DEF Without
    <2> HIDE DEF rest
    <2>6. Missing(Without(f, leaves)) = UNION rest
      BY <2>3, <2>5, NormalizeKeeps DEF Missing, Reachable
    <2> QED BY <2>4, <2>6
  <1> QED BY <1>1, <1>2

LEMMA OutsideFacts ==
    ASSUME NEW stack, NEW d \in Nat \ {0}
    PROVE  /\ Outside(stack, 1) = Parameters
           /\ Outside(stack, d + 1) = Outside(stack, d) \cup stack[d].local
           /\ \A other : (\A i \in 1..(d - 1) : other[i].local = stack[i].local)
                 => Outside(other, d) = Outside(stack, d)
           /\ \A c \in 1..d : Outside(stack, c) \subseteq Outside(stack, d)
  BY DEF Outside

LEMMA OutsideLeaves ==
    ASSUME FlowTypeOK
    PROVE  /\ Len(open) \in Nat
           /\ \A d \in 1..Len(open) : open[d] \in FrameType
           /\ Outside(open, Len(open) + 1) \in SUBSET Leaves
  <1>1. Len(open) \in Nat /\ \A d \in 1..Len(open) : open[d] \in FrameType
    BY DEF FlowTypeOK
  <1>2. \A d \in 1..Len(open) : open[d].local \in SUBSET Leaves
    BY <1>1 DEF FrameType
  <1>3. (Len(open) + 1) - 1 = Len(open)
    BY <1>1
  <1>4. Outside(open, Len(open) + 1) \in SUBSET Leaves
    BY <1>2, <1>3, LeavesAreLocals DEF Outside
  <1> QED BY <1>1, <1>4

LEMMA InnerDeclared ==
    ASSUME open \in Seq(FrameType), NEW d \in 0..Len(open)
    PROVE  Outside(open, Len(open) + 1) = Outside(open, d + 1) \cup DeclaredFrom(d + 1)
  BY DEF Outside, DeclaredFrom

\* What is declared when a construct begins, goes on, or ends.
LEMMA Stacks ==
    ASSUME open \in Seq(FrameType)
    PROVE  /\ \A frame : \A d \in 1..(Len(open) + 1) :
                 Outside(Append(open, frame), d) = Outside(open, d)
           /\ open # << >> => \A d \in 1..Len(open) :
                 Outside(SubSeq(open, 1, Len(open) - 1), d) = Outside(open, d)
           /\ \A k \in 1..Len(open) : \A frame : frame.local = open[k].local =>
                 \A d \in 1..(Len(open) + 1) :
                    Outside([open EXCEPT ![k] = frame], d) = Outside(open, d)
  <1>1. \A frame : \A d \in 1..(Len(open) + 1) : Outside(Append(open, frame), d) = Outside(open, d)
    BY DEF Outside
  <1>2. open # << >> => \A d \in 1..Len(open) :
              Outside(SubSeq(open, 1, Len(open) - 1), d) = Outside(open, d)
    BY DEF Outside
  <1>3. ASSUME NEW k \in 1..Len(open), NEW frame, frame.local = open[k].local,
               NEW d \in 1..(Len(open) + 1)
        PROVE  Outside([open EXCEPT ![k] = frame], d) = Outside(open, d)
    <2> DEFINE other == [open EXCEPT ![k] = frame]
    <2>1. \A i \in 1..(d - 1) : other[i].local = open[i].local
      BY <1>3
    <2> HIDE DEF other
    <2>2. Outside(other, d) = Outside(open, d)
      BY <2>1, OutsideFacts
    <2> QED BY <2>2 DEF other
  <1> QED BY <1>1, <1>2, <1>3

LEMMA FlowMoved ==
    ASSUME NEW f, NEW leaves, FlowIn(f, leaves), f.reachable, NEW place \in Places,
           place \subseteq leaves
    PROVE  LET g == Reachable(Normalize({alternative \cup Keys(place) : alternative \in f.uninitialized}))
           IN /\ FlowIn(g, leaves) /\ g.reachable
              /\ Missing(g) = Missing(f) \cup Keys(place) /\ Gone(g) = Gone(f) \cup place
  <1> DEFINE after == {alternative \cup Keys(place) : alternative \in f.uninitialized}
  <1>1. f.uninitialized \in SUBSET SUBSET Places /\ f.uninitialized # {} /\ Gone(f) \subseteq leaves
    BY DEF FlowIn, Flow, Inhabited
  <1>2. PICK alternative \in f.uninitialized : TRUE
    BY <1>1
  <1>3. Keys(place) \subseteq Places /\ UNION Keys(place) = place
    BY KeysFacts
  <1>4. after \in SUBSET SUBSET Places
    <2>1. \A a \in f.uninitialized : a \cup Keys(place) \in SUBSET Places
      BY <1>1, <1>3
    <2> QED BY <2>1
  <1>5. after # {}
    <2>1. alternative \cup Keys(place) \in after
      BY <1>2
    <2> QED BY <2>1
  <1>6. UNION after = Missing(f) \cup Keys(place)
    BY <1>1 DEF Missing
  <1> HIDE DEF after
  <1>7. UNION UNION after = Gone(f) \cup place
    BY <1>3, <1>6 DEF Gone
  <1>8. LET g == Reachable(Normalize(after))
        IN /\ FlowIn(g, leaves) /\ g.reachable
           /\ Missing(g) = Missing(f) \cup Keys(place) /\ Gone(g) = Gone(f) \cup place
    BY <1>1, <1>4, <1>5, <1>6, <1>7, ReachableFlow DEF FlowIn
  <1> QED BY <1>8 DEF after

LEMMA FlowAssigned ==
    ASSUME NEW f, NEW leaves, FlowIn(f, leaves), f.reachable, NEW place \in Places
    PROVE  LET g == Reachable(Normalize({alternative \ Keys(place) : alternative \in f.uninitialized}))
           IN /\ FlowIn(g, leaves) /\ g.reachable
              /\ Missing(g) = Missing(f) \ Keys(place) /\ Gone(f) \ place \subseteq Gone(g)
  <1> DEFINE keys == Places \ Keys(place)
             g == Reachable(Normalize({alternative \cap keys : alternative \in f.uninitialized}))
  <1>1. f \in Flow /\ Inhabited(f) /\ Gone(f) \subseteq leaves
        /\ f.uninitialized \in SUBSET SUBSET Places
    BY DEF FlowIn, Flow
  <1>2. \A alternative \in f.uninitialized : alternative \cap keys = alternative \ Keys(place)
    BY <1>1
  <1>3. {alternative \cap keys : alternative \in f.uninitialized}
           = {alternative \ Keys(place) : alternative \in f.uninitialized}
    BY <1>2
  <1>4. g \in Flow /\ Inhabited(g) /\ g.reachable /\ Missing(g) = Missing(f) \cap keys
    BY <1>1, KeptOfFlow
  <1>5. Missing(f) \cap keys = Missing(f) \ Keys(place)
    BY <1>1 DEF Missing
  <1>6. UNION Keys(place) = place
    BY KeysFacts
  <1> HIDE DEF g, keys
  <1>7. FlowIn(g, leaves) /\ Gone(f) \ place \subseteq Gone(g)
    BY <1>1, <1>4, <1>5, <1>6 DEF FlowIn, Gone
  <1> QED BY <1>3, <1>4, <1>5, <1>7 DEF g

\* A body mentions what has been declared.
LEMMA VisibleFacts ==
    ASSUME FlowTypeOK, FramesFit(code, open), NEW places \in SUBSET Places, NEW place \in Visible(places)
    PROVE  /\ place \in Places /\ place \in SUBSET Leaves
           /\ place \subseteq Outside(open, Len(open) + 1)
           /\ LocalOf(place) \in Locals /\ place \subseteq LocalOf(place)
           /\ LocalOf(place) \subseteq Outside(open, Len(open) + 1)
  <1>1. place \in Places /\ (LocalOf(place) \in Inner => place \subseteq DeclaredFrom(1))
    BY DEF Visible
  <1>2. LocalOf(place) \in Locals /\ place \subseteq LocalOf(place) /\ place # {}
    BY <1>1, OwnershipAssumption DEF LocalOf
  <1>3. Outside(open, Len(open) + 1) = Parameters \cup DeclaredFrom(1)
    <2>1. Outside(open, Len(open) + 1) = Outside(open, 1) \cup DeclaredFrom(1)
      BY InnerDeclared DEF FlowTypeOK
    <2>2. Outside(open, 1) = Parameters
      BY OutsideFacts
    <2> QED BY <2>1, <2>2
  <1>4. LocalOf(place) \subseteq Parameters \cup DeclaredFrom(1)
    <2>1. CASE LocalOf(place) \notin Inner
      BY <2>1, <1>2 DEF Parameters
    <2>2. CASE LocalOf(place) \in Inner
      <3>1. PICK l \in place : l \in DeclaredFrom(1)
        BY <2>2, <1>1, <1>2
      <3>2. PICK i \in 1..Len(open) : l \in open[i].local
        BY <3>1 DEF DeclaredFrom
      <3>3. open[i].local \in Locals
        BY <3>2, OwnershipAssumption DEF FramesFit, FrameFits
      <3>4. open[i].local = LocalOf(place)
        BY <3>1, <3>2, <3>3, <1>2, OwnershipAssumption
      <3>5. open[i].local \subseteq DeclaredFrom(1)
        BY DEF DeclaredFrom
      <3> QED BY <3>4, <3>5
    <2> QED BY <2>1, <2>2
  <1> QED BY <1>1, <1>2, <1>3, <1>4, LeavesAreLocals

\* Scopes hold whole locals.
LEMMA ScopesHoldLocals ==
    ASSUME FramesFit(code, open), NEW L \in Locals, NEW d \in Nat \ {0}
    PROVE  /\ L \subseteq DeclaredFrom(d) \/ L \cap DeclaredFrom(d) = {}
           /\ L \subseteq Parameters \/ L \cap Parameters = {}
  <1>1. \A M \in Locals : L = M \/ L \cap M = {}
    BY OwnershipAssumption
  <1>2. ASSUME NEW i \in d..Len(open)
        PROVE  L = open[i].local \/ L \cap open[i].local = {}
    BY <1>1, OwnershipAssumption DEF FramesFit, FrameFits
  <1>3. L \subseteq DeclaredFrom(d) \/ L \cap DeclaredFrom(d) = {}
    BY <1>2 DEF DeclaredFrom
  <1>4. L \subseteq Parameters \/ L \cap Parameters = {}
    BY <1>1 DEF Parameters
  <1> QED BY <1>3, <1>4

LEMMA ScopesHoldKeys ==
    ASSUME FramesFit(code, open), NEW key \in Places, NEW d \in Nat \ {0}
    PROVE  key \subseteq DeclaredFrom(d) \/ key \cap DeclaredFrom(d) = {}
  <1>1. PICK L \in Locals : key \subseteq L
    BY OwnershipAssumption
  <1> QED BY <1>1, ScopesHoldLocals

LEMMA LongerBody ==
    ASSUME NEW body \in Seq(PartType), NEW p \in PartType
    PROVE  /\ Append(body, p) \in Seq(PartType)
           /\ Len(body) \in Nat /\ Len(Append(body, p)) = Len(body) + 1
           /\ \A i \in 1..Len(body) : Append(body, p)[i] = body[i]
           /\ Append(body, p)[Len(body) + 1] = p
  OBVIOUS

\* What a body moves, and what is not seen of it, a longer one does too.
LEMMA MovedGrows ==
    ASSUME NEW body \in Seq(PartType), NEW p \in PartType
    PROVE  /\ MovedKeys(body) \subseteq MovedKeys(Append(body, p))
           /\ p.does = "move" => Keys(p.place) \subseteq MovedKeys(Append(body, p))
           /\ \A place : Unseen(body, place) \subseteq Unseen(Append(body, p), place)
  <1> DEFINE longer == Append(body, p)
             n == Len(body)
  <1>1. /\ n \in Nat /\ Len(longer) = n + 1 /\ longer[n + 1] = p
        /\ \A i \in 1..n : longer[i] = body[i]
    BY LongerBody
  <1> HIDE DEF longer
  <1>2. MovedKeys(body) \subseteq MovedKeys(longer)
    <2> SUFFICES ASSUME NEW key \in MovedKeys(body) PROVE key \in MovedKeys(longer)
      OBVIOUS
    <2>1. PICK i \in 1..n : body[i].does = "move" /\ key \in Keys(body[i].place)
      BY DEF MovedKeys
    <2>2. i \in 1..Len(longer) /\ longer[i] = body[i]
      BY <1>1
    <2> QED BY <2>1, <2>2 DEF MovedKeys
  <1>3. p.does = "move" => Keys(p.place) \subseteq MovedKeys(longer)
    <2> SUFFICES ASSUME p.does = "move", NEW key \in Keys(p.place) PROVE key \in MovedKeys(longer)
      OBVIOUS
    <2>1. n + 1 \in 1..Len(longer)
      BY <1>1
    <2> QED BY <1>1, <2>1 DEF MovedKeys
  <1> QED BY <1>2, <1>3 DEF Unseen, longer

LEMMA PartStaysOK ==
    ASSUME NEW body \in Seq(PartType), NEW p \in PartType, NEW q, NEW note, PartOK(body, q, note)
    PROVE  PartOK(Append(body, p), q, note)
  <1>1. \A place : Unseen(body, place) \subseteq Unseen(Append(body, p), place)
    BY MovedGrows
  <1> QED BY <1>1 DEF PartOK

\* What is missing where the reader is has been moved by what has been read.
Moved == Missing(flow) \subseteq MovedKeys(code)

\* A place that is found initialized, but for what is not seen of it.
LEMMA InitializedFacts ==
    ASSUME Moved, NEW place, Initialized(place)
    PROVE  place \cap Gone(flow) = {} \/ Unseen(code, place) # {}
  <1> SUFFICES ASSUME NEW leaf \in place, leaf \in Gone(flow)
               PROVE  Unseen(code, place) # {}
    OBVIOUS
  <1>1. PICK key \in Missing(flow) : leaf \in key
    BY DEF Gone
  <1>2. key \notin Keys(place)
    BY <1>1 DEF Missing, Initialized
  <1>3. key \in MovedKeys(code)
    BY <1>1 DEF Moved
  <1> QED BY <1>1, <1>2, <1>3 DEF Unseen

LowerPlain == \/ \E place \in Visible(Inspected) : LowerUse(place)
              \/ \E place \in Visible(Named) : LowerMove(place) \/ LowerAssign(place)
              \/ LowerReturn

\* What the annotation of a body needs to know of a part that is no construct's.
LEMMA PlainRead ==
    ASSUME FlowTypeOK, FramesFit(code, open), Moved, LowerPlain, verdict' # "refused"
    PROVE  LET here == Outside(open, Len(open) + 1) IN
           /\ open' = open
           /\ FlowIn(flow', here)
           /\ \E p \in PartType :
                /\ code' = Append(code, p)
                /\ p.does \in Plain /\ p.from = 0
                /\ PartOK(code', p, NoteOf(flow, here))
                /\ p.does # "return" => Brings(p, NoteOf(flow, here), NoteOf(flow', here))
                /\ p.does = "return" => flow' = Unreachable
  <1> DEFINE here == Outside(open, Len(open) + 1)
  <1>0. /\ FlowIn(flow, here) /\ code \in Seq(PartType)
        /\ Named \in SUBSET Places /\ Inspected \in SUBSET Places
        /\ here \in SUBSET Leaves
    <2>1. here \in SUBSET Leaves
      BY OutsideLeaves
    <2> QED BY <2>1, OwnershipAssumption DEF FlowTypeOK
  <1>1. ASSUME NEW place \in Visible(Inspected), LowerUse(place)
        PROVE  \E p \in PartType :
                 /\ open' = open /\ FlowIn(flow', here) /\ code' = Append(code, p)
                 /\ p.does \in Plain /\ p.from = 0 /\ p.does # "return"
                 /\ PartOK(code', p, NoteOf(flow, here))
                 /\ Brings(p, NoteOf(flow, here), NoteOf(flow', here))
    <2> DEFINE p == Part("use", place, 0)
    <2>1. /\ open' = open /\ flow' = flow /\ code' = Append(code, p) /\ Initialized(place)
      BY <1>1 DEF LowerUse, Read, Refuse
    <2>2. place \in SUBSET Leaves /\ place \subseteq here
      BY <1>0, VisibleFacts
    <2>3. p \in PartType
      BY <2>2 DEF PartType, Part, Plain, Kinds
    <2>4. place \cap Gone(flow) = {} \/ Unseen(code', place) # {}
      <3>1. Unseen(code, place) \subseteq Unseen(code', place)
        BY <1>0, <2>1, <2>3, MovedGrows
      <3> QED BY <2>1, <3>1, InitializedFacts
    <2>5. PartOK(code', p, NoteOf(flow, here))
      BY <2>2, <2>4 DEF PartOK, Part, NoteOf, Exits
    <2>6. Brings(p, NoteOf(flow, here), NoteOf(flow, here))
      BY DEF Brings, Effect, Part, Exits, NoteOf
    <2> QED BY <1>0, <2>1, <2>3, <2>5, <2>6 DEF Part, Plain
  <1>2. ASSUME NEW place \in Visible(Named), LowerMove(place)
        PROVE  \E p \in PartType :
                 /\ open' = open /\ FlowIn(flow', here) /\ code' = Append(code, p)
                 /\ p.does \in Plain /\ p.from = 0 /\ p.does # "return"
                 /\ PartOK(code', p, NoteOf(flow, here))
                 /\ Brings(p, NoteOf(flow, here), NoteOf(flow', here))
    <2> DEFINE p == Part("move", place, 0)
    <2>1. /\ open' = open /\ code' = Append(code, p) /\ Initialized(place) /\ flow.reachable
          /\ flow' = Reachable(Normalize({alternative \cup Keys(place) :
                                            alternative \in flow.uninitialized}))
      BY <1>2 DEF LowerMove, Read, Refuse, CanRead
    <2>2. place \in Places /\ place \in SUBSET Leaves /\ place \subseteq here
      BY <1>0, VisibleFacts
    <2>3. p \in PartType
      BY <2>2 DEF PartType, Part, Plain, Kinds
    <2>4. place \cap Gone(flow) = {} \/ Unseen(code', place) # {}
      <3>1. Unseen(code, place) \subseteq Unseen(code', place)
        BY <1>0, <2>1, <2>3, MovedGrows
      <3> QED BY <2>1, <3>1, InitializedFacts
    <2>5. PartOK(code', p, NoteOf(flow, here))
      BY <2>2, <2>4 DEF PartOK, Part, NoteOf, Exits
    <2>6. FlowIn(flow', here) /\ flow'.reachable /\ Gone(flow') = Gone(flow) \cup place
      <3>1. /\ FlowIn(flow, here) /\ flow.reachable /\ place \in Places /\ place \subseteq here
            /\ flow' = Reachable(Normalize({alternative \cup Keys(place) :
                                               alternative \in flow.uninitialized}))
        BY <1>0, <2>1, <2>2
      <3> HIDE DEF here
      <3> QED BY <3>1, FlowMoved
    <2>7. Brings(p, NoteOf(flow, here), NoteOf(flow', here))
      BY <2>6 DEF Brings, Effect, Part, NoteOf
    <2> QED BY <2>1, <2>3, <2>5, <2>6, <2>7 DEF Part, Plain
  <1>3. ASSUME NEW place \in Visible(Named), LowerAssign(place)
        PROVE  \E p \in PartType :
                 /\ open' = open /\ FlowIn(flow', here) /\ code' = Append(code, p)
                 /\ p.does \in Plain /\ p.from = 0 /\ p.does # "return"
                 /\ PartOK(code', p, NoteOf(flow, here))
                 /\ Brings(p, NoteOf(flow, here), NoteOf(flow', here))
    <2> DEFINE after == Normalize({alternative \ Keys(place) : alternative \in flow.uninitialized})
               whole == \A alternative \in after : alternative \cap Keys(LocalOf(place)) = {}
               p == [Part("assign", place, 0) EXCEPT !.kind = Assignment(place), !.whole = whole]
    <2>1. /\ open' = open /\ code' = Append(code, p) /\ flow.reachable
          /\ flow' = Reachable(after)
      BY <1>3 DEF LowerAssign, Read, CanRead
    <2>2. place \in Places /\ place \in SUBSET Leaves /\ place \subseteq here
          /\ LocalOf(place) \subseteq here
      BY <1>0, VisibleFacts
    <2>3. whole \in BOOLEAN /\ Assignment(place) \in Kinds
      BY DEF Assignment, Kinds
    <2>4. /\ FlowIn(flow', here) /\ flow'.reachable
          /\ Missing(flow') = Missing(flow) \ Keys(place) /\ Gone(flow) \ place \subseteq Gone(flow')
      <3>1. /\ FlowIn(Reachable(after), here) /\ Reachable(after).reachable
            /\ Missing(Reachable(after)) = Missing(flow) \ Keys(place)
            /\ Gone(flow) \ place \subseteq Gone(Reachable(after))
        BY <1>0, <2>1, <2>2, FlowAssigned
      <3> HIDE DEF after, here
      <3> QED BY <3>1, <2>1
    <2>5. whole => Missing(flow') \cap Keys(LocalOf(place)) = {}
      <3>1. Missing(flow') = UNION after
        BY <2>1 DEF Reachable, Missing
      <3> HIDE DEF after
      <3> QED BY <3>1
    <2> HIDE DEF whole, after
    <2>6. p \in PartType /\ p.does = "assign" /\ p.place = place /\ p.from = 0 /\ p.whole = whole
      BY <2>2, <2>3 DEF PartType, Part, Plain, Kinds
    <2>7. whole => \/ LocalOf(place) \subseteq (here \ Gone(flow)) \cup place
                   \/ \E key \in Unseen(code', LocalOf(place)) : ~ key \subseteq place
      <3> SUFFICES ASSUME whole, NEW leaf \in LocalOf(place), leaf \in Gone(flow), leaf \notin place
                   PROVE  \E key \in Unseen(code', LocalOf(place)) : ~ key \subseteq place
        BY <2>2
      <3>1. PICK key \in Missing(flow) : leaf \in key
        BY DEF Gone
      <3>2. ~ key \subseteq place /\ key \notin Keys(place)
        BY <2>2, <3>1, KeysFacts
      <3>3. key \notin Keys(LocalOf(place))
        BY <2>4, <2>5, <3>2
      <3>4. key \in MovedKeys(code')
        BY <1>0, <2>1, <2>6, MovedGrows DEF Moved
      <3> QED BY <3>1, <3>2, <3>3, <3>4 DEF Unseen
    <2>8. PartOK(code', p, NoteOf(flow, here))
      BY <2>2, <2>6, <2>7 DEF PartOK, NoteOf, Exits
    <2>9. Brings(p, NoteOf(flow, here), NoteOf(flow', here))
      BY <2>2, <2>4, <2>6 DEF Brings, Effect, NoteOf, Exits
    <2> QED BY <2>1, <2>4, <2>6, <2>8, <2>9 DEF Plain
  <1>4. ASSUME LowerReturn
        PROVE  \E p \in PartType :
                 /\ open' = open /\ FlowIn(flow', here) /\ code' = Append(code, p)
                 /\ p.does = "return" /\ p.from = 0
                 /\ PartOK(code', p, NoteOf(flow, here)) /\ flow' = Unreachable
    <2> DEFINE p == Part("return", Parameters \cup DeclaredFrom(1), 0)
    <2>1. open' = open /\ code' = Append(code, p) /\ flow' = Unreachable
      BY <1>4 DEF LowerReturn, Read
    <2>2. here = Parameters \cup DeclaredFrom(1)
      <3>1. here = Outside(open, 1) \cup DeclaredFrom(1)
        BY InnerDeclared DEF FlowTypeOK
      <3> QED BY <3>1, OutsideFacts
    <2>3. p \in PartType /\ p.does = "return" /\ p.from = 0 /\ p.place = here /\ ~p.whole
      BY <1>0, <2>2 DEF PartType, Part, Plain, Kinds
    <2>4. \A L \in Locals : L \subseteq here \/ L \cap here = {}
      <3> SUFFICES ASSUME NEW L \in Locals PROVE L \subseteq here \/ L \cap here = {}
        OBVIOUS
      <3>1. /\ L \subseteq DeclaredFrom(1) \/ L \cap DeclaredFrom(1) = {}
            /\ L \subseteq Parameters \/ L \cap Parameters = {}
        BY ScopesHoldLocals
      <3> QED BY <3>1, <2>2
    <2>5. PartOK(code', p, NoteOf(flow, here))
      <3> HIDE DEF p, here
      <3> QED BY <2>3, <2>4 DEF PartOK, NoteOf
    <2>6. FlowIn(flow', here)
      BY <2>1, UnreachableFlow DEF FlowIn
    <2> QED BY <2>1, <2>3, <2>5, <2>6
  <1> QED BY <1>1, <1>2, <1>3, <1>4 DEF LowerPlain, Plain

-----------------------------------------------------------------------------
(* One more part.                                                          *)

LEMMA PartsOfLonger ==
    ASSUME NEW body \in Seq(PartType), NEW p \in PartType, NEW from, NEW does
    PROVE  LET longer == Append(body, p)
               new == p.from = from /\ p.does = does
           IN /\ \A e : IsPart(longer, e, from, does) <=>
                           IsPart(body, e, from, does) \/ (e = Len(body) + 1 /\ new)
              /\ Has(longer, from, does) <=> Has(body, from, does) \/ new
              /\ PastAll(longer, from, does) =
                    PastAll(body, from, does) \cup (IF new THEN {Len(body) + 2} ELSE {})
  <1> DEFINE longer == Append(body, p)
             new == p.from = from /\ p.does = does
             n == Len(body)
  <1>1. /\ n \in Nat /\ Len(longer) = n + 1 /\ longer[n + 1] = p
        /\ \A i \in 1..n : longer[i] = body[i]
    BY LongerBody
  <1>2. ASSUME NEW e
        PROVE  IsPart(longer, e, from, does) <=> IsPart(body, e, from, does) \/ (e = n + 1 /\ new)
    <2>1. CASE e \in 1..n
      BY <2>1, <1>1 DEF IsPart
    <2>2. CASE e = n + 1
      BY <2>2, <1>1 DEF IsPart
    <2>3. CASE e \notin 1..(n + 1)
      BY <2>3, <1>1 DEF IsPart
    <2> QED BY <2>1, <2>2, <2>3, <1>1
  <1>3. ASSUME NEW b
        PROVE  Has(b, from, does) <=> \E e : IsPart(b, e, from, does)
    BY DEF Has, IsPart
  <1>4. ASSUME NEW b, NEW j
        PROVE  j \in PastAll(b, from, does) <=> \E e : IsPart(b, e, from, does) /\ j = e + 1
    BY DEF PastAll, IsPart
  <1>5. (n + 1) + 1 = n + 2
    BY <1>1
  <1> HIDE DEF longer, n, new
  <1>6. Has(longer, from, does) <=> Has(body, from, does) \/ new
    BY <1>2, <1>3
  <1>7. ASSUME NEW j
        PROVE  j \in PastAll(longer, from, does) <=> j \in PastAll(body, from, does) \/ (j = n + 2 /\ new)
    BY <1>2, <1>4, <1>5
  <1>8. PastAll(longer, from, does) =
           PastAll(body, from, does) \cup (IF new THEN {n + 2} ELSE {})
    <2>1. CASE new
      BY <2>1, <1>7
    <2>2. CASE ~new
      BY <2>2, <1>7
    <2> QED BY <2>1, <2>2
  <1> QED BY <1>2, <1>6, <1>8 DEF longer, n, new

LEMMA LeadsAre ==
    ASSUME NEW body, NEW i
    PROVE  LET from == body[i].from
               does == body[i].does
           IN /\ does = "if" => Leads(body, i) =
                   {i + 1} \cup PastAll(body, i, "else")
                           \cup (IF Has(body, i, "else") THEN {} ELSE PastAll(body, i, "end"))
              /\ does = "body" => Leads(body, i) = {i + 1} \cup PastAll(body, from, "end")
              /\ does \in {"else", "break"} => Leads(body, i) = PastAll(body, from, "end")
              /\ does = "continue" => Leads(body, i) =
                   IF body[from].does = "do" THEN PastAll(body, from, "condition")
                   ELSE IF Has(body, from, "end") THEN {from + 1} ELSE {}
              /\ does = "end" => Leads(body, i) =
                   (IF body[from].does \in LoopBegins THEN {from + 1} ELSE {})
                   \cup (IF body[from].does \in {"while", "loop"} THEN {} ELSE {i + 1})
              /\ does = "return" => Leads(body, i) = {}
              /\ does \notin {"if", "body", "else", "break", "continue", "end", "return"} =>
                   Leads(body, i) = {i + 1}
  <1> DEFINE from == body[i].from
             does == body[i].does
  <1>1. does = "if" => Leads(body, i) =
           {i + 1} \cup PastAll(body, i, "else")
                   \cup (IF Has(body, i, "else") THEN {} ELSE PastAll(body, i, "end"))
    BY DEF Leads
  <1>2. does = "body" => Leads(body, i) = {i + 1} \cup PastAll(body, from, "end")
    BY DEF Leads
  <1>3. does \in {"else", "break"} => Leads(body, i) = PastAll(body, from, "end")
    BY DEF Leads
  <1>4. does = "continue" => Leads(body, i) =
           IF body[from].does = "do" THEN PastAll(body, from, "condition")
           ELSE IF Has(body, from, "end") THEN {from + 1} ELSE {}
    BY DEF Leads
  <1>5. does = "end" => Leads(body, i) =
           (IF body[from].does \in LoopBegins THEN {from + 1} ELSE {})
           \cup (IF body[from].does \in {"while", "loop"} THEN {} ELSE {i + 1})
    BY DEF Leads
  <1>6. does = "return" => Leads(body, i) = {}
    BY DEF Leads
  <1>7. does \notin {"if", "body", "else", "break", "continue", "end", "return"} =>
           Leads(body, i) = {i + 1}
    BY DEF Leads
  <1> QED BY <1>1, <1>2, <1>3, <1>4, <1>5, <1>6, <1>7

\* Where the parts of a body lead are points of it.
LEMMA LeadsArePoints ==
    ASSUME NEW body \in Seq(PartType), PartsFit(body), NEW i \in 1..Len(body)
    PROVE  Leads(body, i) \subseteq PointsOf(body)
  <1>1. \A from, does : PastAll(body, from, does) \subseteq PointsOf(body)
    BY DEF PastAll, PointsOf
  <1>2. i + 1 \in PointsOf(body)
    BY DEF PointsOf
  <1>3. body[i].does \in Members => body[i].from + 1 \in PointsOf(body)
    BY DEF PartsFit, PartFits, PointsOf
  <1>4. CASE body[i].does = "if"
    BY LeadsAre, <1>1, <1>2, <1>4
  <1>5. CASE body[i].does \in {"body", "else", "break"}
    BY LeadsAre, <1>1, <1>2, <1>5
  <1>6. CASE body[i].does = "continue"
    BY LeadsAre, <1>1, <1>3, <1>6 DEF Members
  <1>7. CASE body[i].does = "end"
    BY LeadsAre, <1>2, <1>3, <1>7 DEF Members
  <1>8. CASE body[i].does \notin {"if", "body", "else", "break", "continue", "end"}
    BY LeadsAre, <1>2, <1>8
  <1> QED BY <1>4, <1>5, <1>6, <1>7, <1>8

\* Where an earlier part leads only since p has been read.
NewWay(body, p, i, j) ==
    LET from == body[i].from IN
    \/ /\ j = Len(body) + 2
       /\ \/ body[i].does = "if" /\ p.from = i /\ p.does = "else"
          \/ body[i].does = "if" /\ p.from = i /\ p.does = "end" /\ ~Has(body, i, "else")
          \/ body[i].does \in {"body", "else", "break"} /\ p.from = from /\ p.does = "end"
          \/ /\ body[i].does = "continue" /\ body[from].does = "do"
             /\ p.from = from /\ p.does = "condition"
    \/ /\ j = from + 1
       /\ body[i].does = "continue" /\ body[from].does # "do"
       /\ p.from = from /\ p.does = "end"

LEMMA NewWays ==
    ASSUME NEW body \in Seq(PartType), PartsFit(body), NEW p \in PartType,
           NEW i \in 1..Len(body), NEW j \in Leads(Append(body, p), i)
    PROVE  j \in Leads(body, i) \/ NewWay(body, p, i, j)
  <1> DEFINE longer == Append(body, p)
             from == body[i].from
  <1>1. longer[i] = body[i]
    BY LongerBody
  <1>2. body[i].does \in Members => longer[from] = body[from]
    <2>1. body[i].does \in Members => from \in 1..Len(body)
      BY DEF PartsFit, PartFits
    <2> QED BY <2>1, LongerBody
  <1>3. ASSUME NEW k, NEW does
        PROVE  /\ Has(longer, k, does) <=> Has(body, k, does) \/ (p.from = k /\ p.does = does)
               /\ \A e \in PastAll(longer, k, does) :
                    \/ e \in PastAll(body, k, does)
                    \/ e = Len(body) + 2 /\ p.from = k /\ p.does = does
    BY PartsOfLonger
  <1>4. j \in Leads(longer, i)
    OBVIOUS
  <1> HIDE DEF longer
  <1>5. CASE body[i].does = "if"
    BY LeadsAre, <1>1, <1>3, <1>4, <1>5 DEF NewWay
  <1>6. CASE body[i].does = "body"
    BY LeadsAre, <1>1, <1>3, <1>4, <1>6 DEF NewWay
  <1>7. CASE body[i].does \in {"else", "break"}
    BY LeadsAre, <1>1, <1>3, <1>4, <1>7 DEF NewWay
  <1>8. CASE body[i].does = "continue"
    BY LeadsAre, <1>1, <1>2, <1>3, <1>4, <1>8 DEF NewWay, Members
  <1>9. CASE body[i].does = "end"
    BY LeadsAre, <1>1, <1>2, <1>4, <1>9 DEF Members
  <1>10. CASE body[i].does \notin {"if", "body", "else", "break", "continue", "end"}
    BY LeadsAre, <1>1, <1>4, <1>10
  <1> QED BY <1>5, <1>6, <1>7, <1>8, <1>9, <1>10

LEMMA FitGrows ==
    ASSUME NEW body \in Seq(PartType), PartsFit(body), NEW p \in PartType,
           PartFits(Append(body, p), Len(body) + 1)
    PROVE  PartsFit(Append(body, p))
  <1> DEFINE longer == Append(body, p)
             n == Len(body)
  <1>1. /\ n \in Nat /\ Len(longer) = n + 1
        /\ \A i \in 1..n : longer[i] = body[i]
    BY LongerBody
  <1>2. ASSUME NEW i \in 1..n
        PROVE  PartFits(longer, i)
    <2>1. longer[i] = body[i] /\ PartFits(body, i)
      BY <1>1 DEF PartsFit
    <2>2. body[i].from \in 1..(i - 1) => longer[body[i].from] = body[body[i].from]
      BY <1>1
    <2> HIDE DEF longer, n
    <2> QED BY <2>1, <2>2 DEF PartFits, Members
  <1> QED BY <1>1, <1>2 DEF PartsFit

\* The notes of a body and one more.
Extends(more, notes, body, p, note) ==
    /\ more \in [PointsOf(Append(body, p)) -> Note]
    /\ \A i \in PointsOf(body) : more[i] = notes[i]
    /\ more[Len(body) + 2] = note

NoteAt(notes, body, note, j) == IF j = Len(body) + 2 THEN note ELSE notes[j]

LEMMA AnnotationGrows ==
    ASSUME NEW body \in Seq(PartType), PartsFit(body), NEW p \in PartType,
           PartFits(Append(body, p), Len(body) + 1), NEW stack, NEW f,
           NEW notes, Annotates(notes, body, stack, f),
           NEW other, NEW g, NEW note \in Note, note = NoteOf(g, Outside(other, Len(other) + 1)),
           PartOK(Append(body, p), p, notes[Len(body) + 1]),
           \A i \in 1..Len(body) : \A j : NewWay(body, p, i, j) =>
              Brings(body[i], notes[i], NoteAt(notes, body, note, j)),
           \A j \in Leads(Append(body, p), Len(body) + 1) :
              Brings(p, notes[Len(body) + 1], NoteAt(notes, body, note, j))
    PROVE  \E more :
             /\ Extends(more, notes, body, p, note)
             /\ (\A d \in 1..Len(other) :
                     FrameOK(Append(body, p), more, other[d], Outside(other, d))) =>
                  Annotates(more, Append(body, p), other, g)
  <1> DEFINE longer == Append(body, p)
             n == Len(body)
             more == [i \in PointsOf(longer) |-> NoteAt(notes, body, note, i)]
  <1>1. /\ n \in Nat /\ Len(longer) = n + 1 /\ longer[n + 1] = p
        /\ \A i \in 1..n : longer[i] = body[i]
    BY LongerBody
  <1>2. notes \in [1..(n + 1) -> Note] /\ notes[1] = FirstNote
        /\ \A i \in 1..n : PartOK(body, body[i], notes[i])
    BY DEF Annotates, PointsOf
  <1>3. PointsOf(longer) = 1..(n + 2) /\ PointsOf(body) = 1..(n + 1)
    BY <1>1 DEF PointsOf
  <1>4. ASSUME NEW i \in 1..(n + 2)
        PROVE  more[i] = NoteAt(notes, body, note, i) /\ more[i] \in Note
    <2>1. more[i] = NoteAt(notes, body, note, i)
      BY <1>3
    <2>2. CASE i = n + 2
      BY <2>1, <2>2 DEF NoteAt
    <2>3. CASE i # n + 2
      BY <2>1, <2>3, <1>1, <1>2 DEF NoteAt
    <2> QED BY <2>1, <2>2, <2>3
  <1>5. \A i \in 1..(n + 1) : more[i] = notes[i]
    BY <1>1, <1>4 DEF NoteAt
  <1>6. more[n + 2] = note
    BY <1>1, <1>4 DEF NoteAt
  <1>7. more \in [PointsOf(longer) -> Note]
    BY <1>3, <1>4
  <1> HIDE DEF more
  <1>8. ASSUME NEW i \in 1..Len(longer)
        PROVE  PartOK(longer, longer[i], more[i])
    <2>1. CASE i \in 1..n
      <3>1. PartOK(body, body[i], notes[i])
        BY <2>1, <1>2
      <3>2. PartOK(longer, body[i], notes[i])
        BY <3>1, PartStaysOK
      <3> QED BY <2>1, <3>2, <1>1, <1>5
    <2>2. CASE i = n + 1
      <3>1. PartOK(longer, p, notes[n + 1])
        OBVIOUS
      <3> QED BY <2>2, <3>1, <1>1, <1>5
    <2> QED BY <2>1, <2>2, <1>1
  <1>9. ASSUME NEW i \in 1..Len(longer), NEW j \in Leads(longer, i)
        PROVE  Brings(longer[i], more[i], more[j])
    <2>0. j \in PointsOf(longer)
      BY FitGrows, LongerBody, LeadsArePoints
    <2>1. more[j] = NoteAt(notes, body, note, j)
      BY <1>3, <1>4, <2>0
    <2>2. CASE i = n + 1
      BY <2>1, <2>2, <1>1, <1>5, <1>9
    <2>3. CASE i \in 1..n /\ NewWay(body, p, i, j)
      BY <2>1, <2>3, <1>1, <1>5
    <2>4. CASE i \in 1..n /\ j \in Leads(body, i)
      <3>1. j \in 1..(n + 1)
        BY <2>4, <1>3, LeadsArePoints
      <3>2. Brings(body[i], notes[i], notes[j])
        BY <2>4 DEF Annotates, EdgesOK
      <3> QED BY <3>1, <3>2, <2>4, <1>1, <1>5
    <2>5. i = n + 1 \/ (i \in 1..n /\ (NewWay(body, p, i, j) \/ j \in Leads(body, i)))
      <3>1. CASE i \in 1..n
        BY <3>1, <1>9, NewWays
      <3> QED BY <3>1, <1>1
    <2> QED BY <2>2, <2>3, <2>4, <2>5
  <1>10. Extends(more, notes, body, p, note)
    BY <1>3, <1>5, <1>6, <1>7 DEF Extends
  <1>11. more[1] = FirstNote
    BY <1>1, <1>2, <1>5
  <1>12. EdgesOK(longer, more)
    BY <1>9 DEF EdgesOK
  <1>13. more[Len(longer) + 1] = NoteOf(g, Outside(other, Len(other) + 1))
    <2>1. Len(longer) + 1 = n + 2
      BY <1>1
    <2> QED BY <1>6, <2>1
  <1> HIDE DEF longer, n
  <1>14. (\A d \in 1..Len(other) : FrameOK(longer, more, other[d], Outside(other, d))) =>
            Annotates(more, longer, other, g)
    BY <1>7, <1>8, <1>11, <1>12, <1>13 DEF Annotates
  <1> QED BY <1>10, <1>14 DEF longer

\* A construct to which the new part does not belong.
LEMMA FrameKept ==
    ASSUME NEW body \in Seq(PartType), NEW p \in PartType, NEW notes, NEW more, NEW note,
           Extends(more, notes, body, p, note), NEW frame, NEW leaves,
           frame.from \in 1..Len(body), p.from # frame.from,
           FrameOK(body, notes, frame, leaves)
    PROVE  FrameOK(Append(body, p), more, frame, leaves)
  <1> DEFINE longer == Append(body, p)
             n == Len(body)
  <1>1. /\ n \in Nat /\ Len(longer) = n + 1 /\ longer[n + 1] = p
        /\ \A i \in 1..n : longer[i] = body[i]
    BY LongerBody
  <1>2. \A i \in 1..(n + 1) : more[i] = notes[i]
    BY DEF Extends, PointsOf
  <1>3. /\ more[frame.from] = notes[frame.from]
        /\ more[frame.from + 1] = notes[frame.from + 1]
        /\ longer[frame.from] = body[frame.from]
    BY <1>1, <1>2
  <1>4. \A i \in 1..Len(longer) : longer[i].from = frame.from =>
             i \in 1..n /\ longer[i] = body[i] /\ more[i] = notes[i]
    BY <1>1, <1>2
  <1> HIDE DEF longer, n
  <1>5. \A i \in 1..Len(longer) : longer[i].from = frame.from =>
          /\ longer[i].does \in {"else", "body"} => more[i] = NoteOf(frame.first, leaves)
          /\ longer[i].does = "break" /\ more[i].reached =>
                \E f \in frame.breaks : f.reachable /\ Brings(longer[i], more[i], NoteOf(f, leaves))
          /\ longer[i].does = "continue" /\ more[i].reached /\ frame.does # "condition" =>
                \E f \in frame.continues : f.reachable /\ Brings(longer[i], more[i], NoteOf(f, leaves))
    BY <1>4 DEF FrameOK, n
  <1>6. FrameOK(longer, more, frame, leaves)
    BY <1>3, <1>5 DEF FrameOK
  <1> QED BY <1>6 DEF longer

\* Where the new part leads, as long as what comes after it has not been read.
LEMMA NewLeads ==
    ASSUME NEW body \in Seq(PartType), NEW p \in PartType,
           PartsFit(body), PartFits(Append(body, p), Len(body) + 1)
    PROVE  LET here == Len(body) + 1
               leads == Leads(Append(body, p), here)
               from == p.from
           IN /\ p.does \in Begins \cup {"use", "move", "assign", "condition"} => leads = {here + 1}
              /\ p.does = "return" => leads = {}
              /\ p.does = "body" /\ ~Has(body, from, "end") => leads = {here + 1}
              /\ p.does \in {"else", "break"} /\ ~Has(body, from, "end") => leads = {}
              /\ p.does = "continue" /\ ~Has(body, from, "end") /\ ~Has(body, from, "condition") =>
                   leads = {}
              /\ p.does = "end" =>
                   leads = (IF body[from].does \in LoopBegins THEN {from + 1} ELSE {})
                           \cup (IF body[from].does \in {"while", "loop"} THEN {} ELSE {here + 1})
  <1> DEFINE here == Len(body) + 1
             longer == Append(body, p)
             from == p.from
  <1>1. longer[here] = p /\ here \notin 1..Len(body)
    BY LongerBody
  <1>2. p.does \in Members => longer[from] = body[from]
    <2>1. p.does \in Members => from \in 1..(here - 1)
      BY <1>1 DEF PartFits
    <2>2. here - 1 = Len(body)
      OBVIOUS
    <2> QED BY <2>1, <2>2, LongerBody
  <1>3. ASSUME NEW k, NEW does
        PROVE  /\ Has(longer, k, does) <=> Has(body, k, does) \/ (p.from = k /\ p.does = does)
               /\ (~Has(body, k, does) /\ ~(p.from = k /\ p.does = does)) => PastAll(longer, k, does) = {}
    <2>1. ~Has(body, k, does) => PastAll(body, k, does) = {}
      BY DEF Has, PastAll
    <2> QED BY <2>1, PartsOfLonger
  <1>4. \A does \in {"else", "end"} : ~Has(body, here, does)
    <2> SUFFICES ASSUME NEW e \in 1..Len(body), body[e].from = here, body[e].does \in {"else", "end"}
                 PROVE  FALSE
      BY DEF Has, IsPart
    <2> QED BY DEF PartsFit, PartFits, Members
  <1>5. p.does = "if" => from = here
    BY <1>1 DEF PartFits, Begins
  <1> HIDE DEF longer, here
  <1>6. p.does \in (Begins \ {"if"}) \cup {"use", "move", "assign", "condition"} =>
           Leads(longer, here) = {here + 1}
    BY <1>1, LeadsAre DEF Begins, LoopBegins
  <1>7. p.does = "if" => Leads(longer, here) = {here + 1}
    <2>1. p.does = "if" => PastAll(longer, here, "else") = {} /\ PastAll(longer, here, "end") = {}
      BY <1>3, <1>4
    <2> QED BY <2>1, <1>1, LeadsAre
  <1>8. p.does = "return" => Leads(longer, here) = {}
    BY <1>1, LeadsAre
  <1>9. p.does \in {"body", "else", "break", "continue"} /\ ~Has(body, from, "end") =>
           PastAll(longer, from, "end") = {} /\ ~Has(longer, from, "end")
    BY <1>3
  <1>10. p.does = "continue" /\ ~Has(body, from, "condition") => PastAll(longer, from, "condition") = {}
    BY <1>3
  <1>11. p.does = "body" /\ ~Has(body, from, "end") => Leads(longer, here) = {here + 1}
    BY <1>1, <1>9, LeadsAre
  <1>12. p.does \in {"else", "break"} /\ ~Has(body, from, "end") => Leads(longer, here) = {}
    BY <1>1, <1>9, LeadsAre
  <1>13. p.does = "continue" /\ ~Has(body, from, "end") /\ ~Has(body, from, "condition") =>
            Leads(longer, here) = {}
    BY <1>1, <1>9, <1>10, LeadsAre
  <1>14. p.does = "end" =>
            Leads(longer, here) =
               (IF body[from].does \in LoopBegins THEN {from + 1} ELSE {})
               \cup (IF body[from].does \in {"while", "loop"} THEN {} ELSE {here + 1})
    BY <1>1, <1>2, LeadsAre DEF Members
  <1> QED BY <1>6, <1>7, <1>8, <1>11, <1>12, <1>13, <1>14 DEF longer, here, Begins, LoopBegins

\* A construct that stays as it is.
LEMMA FitsKept ==
    ASSUME NEW body \in Seq(PartType), NEW p \in PartType, NEW stack, NEW d,
           FrameFits(body, stack, d), NEW other,
           other[d].does = stack[d].does, other[d].from = stack[d].from,
           other[d].local = stack[d].local, Outside(other, d) = Outside(stack, d),
           p.from # stack[d].from \/ p.does \in {"break", "continue"}
    PROVE  FrameFits(Append(body, p), other, d)
  <1> DEFINE longer == Append(body, p)
             from == stack[d].from
  <1>1. from \in 1..Len(body) /\ longer[from] = body[from] /\ from \in 1..Len(longer)
    <2>1. from \in 1..Len(body)
      BY DEF FrameFits
    <2> QED BY <2>1, LongerBody
  <1>2. \A does \in {"end", "else", "body", "condition"} : Has(longer, from, does) <=> Has(body, from, does)
    BY PartsOfLonger
  <1> HIDE DEF longer
  <1>3. FrameFits(longer, other, d)
    BY <1>1, <1>2 DEF FrameFits
  <1> QED BY <1>3 DEF longer

LEMMA ClosedGrows ==
    ASSUME NEW body \in Seq(PartType), NEW p \in PartType, NEW stack, NEW other,
           Closed(body, stack),
           \A i : IsOpen(stack, i) => IsOpen(other, i) \/ Ended(Append(body, p), i),
           p.does \in Begins => IsOpen(other, Len(body) + 1)
    PROVE  Closed(Append(body, p), other)
  <1> DEFINE longer == Append(body, p)
             n == Len(body)
  <1>1. /\ n \in Nat /\ Len(longer) = n + 1 /\ longer[n + 1] = p
        /\ \A i \in 1..n : longer[i] = body[i]
    BY LongerBody
  <1>2. ASSUME NEW i \in 1..n, body[i].does \in Begins
        PROVE  IsOpen(other, i) \/ Ended(longer, i)
    <2>1. CASE IsOpen(stack, i)
      BY <2>1
    <2>2. CASE Ended(body, i)
      BY <2>2, <1>1, PartsOfLonger DEF Ended
    <2> QED BY <2>1, <2>2, <1>2 DEF Closed
  <1> HIDE DEF longer
  <1>3. Closed(longer, other)
    BY <1>1, <1>2 DEF Closed, n
  <1> QED BY <1>3 DEF longer

LEMMA ClosedKept ==
    ASSUME NEW body \in Seq(PartType), NEW p \in PartType, NEW stack, NEW other,
           Closed(body, stack), p.does \notin Begins,
           \A i : IsOpen(stack, i) => IsOpen(other, i)
    PROVE  Closed(Append(body, p), other)
  BY ClosedGrows

LEMMA NoteFacts ==
    ASSUME NEW f \in Flow, NEW leaves \in SUBSET Leaves
    PROVE  NoteOf(f, leaves) \in Note
  BY DEF NoteOf, Note, Flow

\* A use, move, assignment or return.
LEMMA PlainStep ==
    ASSUME FlowTypeOK, Shape(code, open), Moved, LowerPlain, verdict' # "refused"
    PROVE  /\ FlowTypeOK' /\ Shape(code', open')
           /\ \A notes : Annotates(notes, code, open, flow) =>
                 \E more : Annotates(more, code', open', flow')
  <1> DEFINE here == Outside(open, Len(open) + 1)
             n == Len(code)
  <1>1. PICK p \in PartType :
           /\ open' = open /\ FlowIn(flow', here)
           /\ code' = Append(code, p)
           /\ p.does \in Plain /\ p.from = 0
           /\ PartOK(code', p, NoteOf(flow, here))
           /\ p.does # "return" => Brings(p, NoteOf(flow, here), NoteOf(flow', here))
           /\ p.does = "return" => flow' = Unreachable
    BY PlainRead DEF Shape
  <1>2. /\ code \in Seq(PartType) /\ open \in Seq(FrameType) /\ n \in Nat
        /\ \A d \in 1..Len(open) : FrameIn(open[d], Outside(open, d))
        /\ here \in SUBSET Leaves
    BY OutsideLeaves DEF FlowTypeOK
  <1>3. FlowTypeOK'
    <2>1. code' \in Seq(PartType)
      BY <1>1, <1>2
    <2> HIDE DEF here
    <2> QED BY <1>1, <1>2, <2>1 DEF FlowTypeOK, here
  <1>4. PartFits(code', n + 1)
    <2>1. code'[n + 1] = p
      BY <1>1, <1>2
    <2> QED BY <1>1, <2>1 DEF PartFits, Plain, Begins, LoopBegins, Members
  <1>5. Shape(code', open')
    <2>1. PartsFit(code')
      BY <1>1, <1>2, <1>4, FitGrows DEF Shape
    <2>2. ASSUME NEW d \in 1..Len(open)
          PROVE  FrameFits(code', open, d)
      <3>1. FrameFits(code, open, d)
        BY DEF Shape, FramesFit
      <3>2. p.from # open[d].from
        BY <1>1, <3>1 DEF FrameFits
      <3> QED BY <3>1, <3>2, <1>1, <1>2, FitsKept
    <2>3. Closed(code', open)
      <3>1. p.does \notin Begins
        BY <1>1 DEF Plain, Begins, LoopBegins
      <3> QED BY <3>1, <1>1, <1>2, ClosedKept DEF Shape
    <2> QED BY <1>1, <2>1, <2>2, <2>3 DEF Shape, FramesFit
  <1>6. ASSUME NEW notes, Annotates(notes, code, open, flow)
        PROVE  \E more : Annotates(more, code', open', flow')
    <2> DEFINE note == NoteOf(flow', here)
    <2>1. notes[n + 1] = NoteOf(flow, here)
      BY <1>6 DEF Annotates
    <2>2. note \in Note
      BY <1>1, <1>2, NoteFacts DEF FlowIn
    <2>3. \A i \in 1..n : \A j : ~NewWay(code, p, i, j)
      BY <1>1 DEF NewWay, Plain
    <2>4. \A j \in Leads(code', n + 1) : Brings(p, notes[n + 1], NoteAt(notes, code, note, j))
      <3>1. CASE p.does = "return"
        BY <3>1, <1>1, <1>2, <1>4, NewLeads DEF Shape
      <3>2. CASE p.does # "return"
        <4>1. Leads(code', n + 1) = {n + 2}
          <5>1. p.does \in Begins \cup {"use", "move", "assign", "condition"}
            BY <3>2, <1>1 DEF Plain
          <5>2. Leads(code', n + 1) = {(n + 1) + 1}
            BY <5>1, <1>1, <1>2, <1>4, NewLeads DEF Shape
          <5> QED BY <5>2, <1>2
        <4> QED BY <4>1, <3>2, <1>1, <2>1 DEF NoteAt
      <3> QED BY <3>1, <3>2
    <2>5. PICK more : /\ Extends(more, notes, code, p, note)
                      /\ (\A d \in 1..Len(open) : FrameOK(code', more, open[d], Outside(open, d)))
                            => Annotates(more, code', open, flow')
      <3>1. PartsFit(code) /\ PartOK(code', p, notes[Len(code) + 1]) /\ PartFits(Append(code, p), Len(code) + 1)
        BY <1>1, <1>4, <2>1 DEF Shape
      <3> QED BY <3>1, <1>1, <1>2, <1>6, <2>2, <2>3, <2>4, AnnotationGrows
    <2>6. ASSUME NEW d \in 1..Len(open)
          PROVE  FrameOK(code', more, open[d], Outside(open, d))
      <3>1. open[d].from \in 1..Len(code) /\ p.from # open[d].from
        BY <1>1 DEF Shape, FramesFit, FrameFits
      <3>2. FrameOK(code, notes, open[d], Outside(open, d))
        BY <1>6 DEF Annotates
      <3> QED BY <3>1, <3>2, <1>1, <1>2, <2>5, FrameKept
    <2> QED BY <1>1, <2>5, <2>6
  <1> QED BY <1>3, <1>5, <1>6

LEMMA Wider ==
    ASSUME NEW f, NEW leaves, FlowIn(f, leaves), NEW more, leaves \subseteq more
    PROVE  FlowIn(f, more)
  BY DEF FlowIn

\* A construct begins.
LEMMA BeginStep ==
    ASSUME FlowTypeOK, Shape(code, open), NEW does \in Begins, NEW local, NEW k,
           Begin(does, local, k),
           IF does = "block" THEN local \in Inner /\ local \cap Outside(open, Len(open) + 1) = {}
                             ELSE local = {}
    PROVE  /\ FlowTypeOK' /\ Shape(code', open')
           /\ \A notes : Annotates(notes, code, open, flow) =>
                 \E more : Annotates(more, code', open', flow')
  <1> DEFINE here == Outside(open, Len(open) + 1)
             n == Len(code)
             m == Len(open)
             p == Part(does, local, Here)
             frame == [does |-> does, local |-> local, from |-> Here, entry |-> flow,
                       first |-> Unreachable, breaks |-> {}, continues |-> {}]
  <1>1. /\ code \in Seq(PartType) /\ open \in Seq(FrameType) /\ n \in Nat /\ m \in Nat
        /\ FlowIn(flow, here)
        /\ \A d \in 1..m : FrameIn(open[d], Outside(open, d))
        /\ here \in SUBSET Leaves
    BY OutsideLeaves DEF FlowTypeOK
  <1>2. /\ code' = Append(code, p) /\ open' = Append(open, frame) /\ flow' = flow /\ flow.reachable
        /\ Here = n + 1
    BY DEF Begin, Read, CanRead, Here
  <1>3. local \in SUBSET Leaves /\ (local = {} \/ local \in Locals)
    BY LeavesAreLocals, OwnershipAssumption
  <1>4. /\ p \in PartType /\ p.does = does /\ p.place = local /\ p.from = n + 1 /\ ~p.whole
        /\ p.does \notin Exits \cup {"use", "move", "assign"} /\ (p.does # "block" => p.place = {})
    <2>1. does \in Begins \cup Members \cup Plain /\ n + 1 \in Nat /\ "none" \in Kinds
      BY <1>1 DEF Kinds
    <2>2. p \in PartType
      BY <1>2, <1>3, <2>1 DEF Part, PartType
    <2>3. does \notin Exits \cup {"use", "move", "assign"}
      BY DEF Begins, LoopBegins, Exits
    <2> QED BY <1>2, <2>2, <2>3 DEF Part
  <1>5. /\ frame \in FrameType /\ FrameIn(frame, here)
        /\ frame.does = does /\ frame.local = local /\ frame.from = n + 1 /\ frame.entry = flow
    <2>1. flow \in Flow /\ Unreachable \in Flow /\ FlowIn(Unreachable, here)
      BY <1>1, UnreachableFlow DEF FlowIn
    <2>2. frame \in FrameType
      BY <1>1, <1>2, <1>3, <2>1 DEF FrameType
    <2>3. FrameIn(frame, here)
      BY <1>1, <1>2, <2>1 DEF FrameIn
    <2> QED BY <1>2, <2>2, <2>3
  <1>6. /\ Len(open') = m + 1 /\ open'[m + 1] = frame /\ \A d \in 1..m : open'[d] = open[d]
        /\ \A d \in 1..(m + 1) : Outside(open', d) = Outside(open, d)
    BY <1>1, <1>2, Stacks
  <1>7. Outside(open', Len(open') + 1) = here \cup local
    <2>1. Outside(open', (m + 1) + 1) = Outside(open', m + 1) \cup open'[m + 1].local
      BY <1>1, OutsideFacts
    <2>2. Outside(open', m + 1) = here
      BY <1>1, <1>6
    <2> HIDE DEF frame, here
    <2> QED BY <2>1, <2>2, <1>5, <1>6
  <1> HIDE DEF p, frame, here
  <1>8. FlowTypeOK'
    <2>1. code' \in Seq(PartType) /\ open' \in Seq(FrameType)
      BY <1>1, <1>2, <1>4, <1>5
    <2>2. FlowIn(flow', Outside(open', Len(open') + 1))
      BY <1>1, <1>2, <1>7, Wider
    <2>3. ASSUME NEW d \in 1..Len(open')
          PROVE  FrameIn(open'[d], Outside(open', d))
      <3>1. CASE d \in 1..m
        BY <3>1, <1>1, <1>6
      <3>2. CASE d = m + 1
        BY <3>2, <1>1, <1>5, <1>6 DEF here
      <3> QED BY <3>1, <3>2, <1>1, <1>6
    <2> QED BY <2>1, <2>2, <2>3 DEF FlowTypeOK
  <1>9. PartFits(code', n + 1)
    <2>1. code'[n + 1] = p
      BY <1>1, <1>2
    <2> QED BY <1>4, <2>1 DEF PartFits, Plain, Begins, LoopBegins, Members
  <1>10. code' \in Seq(PartType) /\ Len(code') = n + 1 /\ code'[n + 1] = p
    BY <1>1, <1>2, <1>4
  <1>11. \A i \in 1..n : code'[i].from # n + 1
    <2>1. \A i \in 1..n : code'[i] = code[i] /\ PartFits(code, i)
      BY <1>1, <1>2 DEF Shape, PartsFit
    <2>2. ASSUME NEW i \in 1..n
          PROVE  code[i].does \in Begins \cup Members \cup Plain
      <3>1. code[i] \in PartType
        BY <1>1
      <3> QED BY <3>1 DEF PartType
    <2> QED BY <2>1, <2>2, <1>1 DEF PartFits
  <1>12. \A d \in 1..m : open[d].from \in 1..n /\ p.from # open[d].from
    BY <1>1, <1>4 DEF Shape, FramesFit, FrameFits
  <1>13. Shape(code', open')
    <2>1. PartsFit(code')
      BY <1>1, <1>2, <1>4, <1>9, FitGrows DEF Shape
    <2>2. ASSUME NEW d \in 1..m
          PROVE  FrameFits(code', open', d)
      <3>1. FrameFits(code, open, d)
        BY DEF Shape, FramesFit
      <3>2. open'[d] = open[d] /\ Outside(open', d) = Outside(open, d) /\ p.from # open[d].from
        BY <1>1, <1>6, <1>12
      <3> QED BY <3>1, <3>2, <1>1, <1>2, <1>4, FitsKept
    <2>3. FrameFits(code', open', m + 1)
      <3>1. \A e \in {"end", "else", "body", "condition"} : ~Has(code', n + 1, e)
        <4> SUFFICES ASSUME NEW i \in 1..(n + 1), code'[i].from = n + 1,
                            code'[i].does \in {"end", "else", "body", "condition"}
                     PROVE  FALSE
          BY <1>10 DEF Has, IsPart
        <4>1. i = n + 1
          BY <1>11, <1>1
        <4> QED BY <4>1, <1>4, <1>10 DEF Begins, LoopBegins
      <3>2. open'[m + 1].does = does /\ open'[m + 1].from = n + 1 /\ open'[m + 1].local = local
            /\ code'[n + 1].does = does /\ n + 1 \in 1..Len(code')
        BY <1>1, <1>4, <1>5, <1>6, <1>10
      <3>3. Outside(open', m + 1) = here
        BY <1>1, <1>6 DEF here
      <3>4. IF does = "block" THEN local \in Inner /\ local \cap here = {} ELSE local = {}
        BY DEF here
      <3>5. does \in {"while", "do", "loop", "block", "if"}
        BY DEF Begins, LoopBegins
      <3>6. local \cap here = {}
        BY <3>4
      <3> HIDE DEF m, n
      <3> QED BY <3>1, <3>2, <3>3, <3>4, <3>5, <3>6 DEF FrameFits
    <2>4. Closed(code', open')
      <3>1. \A d \in 1..m : d \in 1..Len(open') /\ open'[d].from = open[d].from
        BY <1>1, <1>6
      <3>2. m + 1 \in 1..Len(open') /\ open'[m + 1].from = n + 1
        BY <1>1, <1>5, <1>6
      <3>3. \A i : IsOpen(open, i) => IsOpen(open', i)
        BY <3>1 DEF IsOpen
      <3>4. IsOpen(open', Len(code) + 1)
        BY <3>2 DEF IsOpen
      <3>5. Closed(code, open) /\ code \in Seq(PartType) /\ p \in PartType /\ code' = Append(code, p)
        BY <1>1, <1>2, <1>4 DEF Shape
      <3> QED BY <3>3, <3>4, <3>5, ClosedGrows
    <2>5. ASSUME NEW d \in 1..Len(open'), NEW c \in 1..(d - 1)
          PROVE  open'[c].from < open'[d].from
      <3>1. CASE d \in 1..m
        <4>1. open[c].from < open[d].from /\ c \in 1..m
          BY <3>1, <1>1 DEF Shape, FramesFit
        <4> QED BY <3>1, <4>1, <1>6
      <3>2. CASE d = m + 1
        <4>1. c \in 1..m
          BY <3>2, <1>1
        <4> QED BY <3>2, <4>1, <1>1, <1>5, <1>6, <1>12
      <3> QED BY <3>1, <3>2, <1>1, <1>6
    <2>6. \A d \in 1..Len(open') : FrameFits(code', open', d)
      <3>1. \A d \in 1..Len(open') : d \in 1..m \/ d = m + 1
        BY <1>1, <1>6
      <3> QED BY <3>1, <2>2, <2>3
    <2> QED BY <2>1, <2>4, <2>5, <2>6 DEF Shape, FramesFit
  <1>14. ASSUME NEW notes, Annotates(notes, code, open, flow)
         PROVE  \E more : Annotates(more, code', open', flow')
    <2> DEFINE note == NoteOf(flow', Outside(open', Len(open') + 1))
    <2>1. notes[n + 1] = NoteOf(flow, here)
      BY <1>14 DEF Annotates, here
    <2>2. note \in Note
      <3>1. here \cup local \in SUBSET Leaves
        BY <1>1, <1>3 DEF here
      <3> QED BY <3>1, <1>1, <1>2, <1>7, NoteFacts DEF FlowIn
    <2>3. \A i \in 1..n : \A j : ~NewWay(code, p, i, j)
      BY <1>4 DEF NewWay, Begins, LoopBegins
    <2>4. \A j \in Leads(code', n + 1) : Brings(p, notes[n + 1], NoteAt(notes, code, note, j))
      <3>1. Leads(code', n + 1) = {n + 2}
        <4>1. Leads(code', n + 1) = {(n + 1) + 1}
          BY <1>1, <1>2, <1>4, <1>9, NewLeads DEF Shape
        <4> QED BY <4>1, <1>1
      <3>2. Brings(p, NoteOf(flow, here), NoteOf(flow, here \cup local))
        BY <1>1, <1>4 DEF Brings, Effect, NoteOf
      <3> QED BY <3>1, <3>2, <1>2, <1>7, <2>1 DEF NoteAt
    <2>5. PartOK(code', p, notes[n + 1])
      <3>1. p.does = "block" => p.place \in Locals /\ p.place \cap here = {}
        BY <1>4, OwnershipAssumption DEF here
      <3> QED BY <3>1, <1>4, <2>1 DEF PartOK, NoteOf, Begins, LoopBegins
    <2>6. PICK more : /\ Extends(more, notes, code, p, note)
                      /\ (\A d \in 1..Len(open') : FrameOK(code', more, open'[d], Outside(open', d)))
                            => Annotates(more, code', open', flow')
      <3>1. PartsFit(code) /\ PartOK(code', p, notes[Len(code) + 1]) /\ PartFits(Append(code, p), Len(code) + 1)
        BY <1>2, <1>9, <2>5 DEF Shape
      <3> QED BY <3>1, <1>1, <1>2, <1>4, <1>14, <2>2, <2>3, <2>4, AnnotationGrows
    <2>7. ASSUME NEW d \in 1..m
          PROVE  FrameOK(code', more, open'[d], Outside(open', d))
      <3>1. FrameOK(code, notes, open[d], Outside(open, d))
        BY <1>14 DEF Annotates
      <3>2. open'[d] = open[d] /\ Outside(open', d) = Outside(open, d)
        BY <1>1, <1>6
      <3> QED BY <3>1, <3>2, <1>1, <1>2, <1>4, <1>12, <2>6, FrameKept
    <2>8. FrameOK(code', more, frame, here)
      <3>1. more[n + 1] = NoteOf(flow, here) /\ more[n + 2] = note
        <4>1. n + 1 \in PointsOf(code)
          BY <1>1 DEF PointsOf
        <4>2. more[n + 1] = notes[n + 1] /\ more[n + 2] = note
          BY <2>6, <4>1 DEF Extends
        <4> QED BY <4>2, <2>1
      <3>2. code'[frame.from].does \in LoopBegins => note = NoteOf(flow, here)
        <4>1. code'[frame.from].does \in LoopBegins => local = {}
          BY <1>4, <1>5, <1>10 DEF LoopBegins
        <4>2. local = {} => Outside(open', Len(open') + 1) = here
          BY <1>7
        <4> QED BY <4>1, <4>2, <1>2
      <3>3. (n + 1) + 1 = n + 2
        BY <1>1
      <3>4. \A i \in 1..Len(code') : code'[i].from = frame.from =>
               code'[i].does \notin {"else", "body", "break", "continue"}
        BY <1>1, <1>4, <1>5, <1>10, <1>11 DEF Begins, LoopBegins
      <3> QED BY <3>1, <3>2, <3>3, <3>4, <1>5 DEF FrameOK
    <2>9. \A d \in 1..Len(open') : FrameOK(code', more, open'[d], Outside(open', d))
      <3>1. \A d \in 1..Len(open') : d \in 1..m \/ d = m + 1
        BY <1>1, <1>6
      <3>2. open'[m + 1] = frame /\ Outside(open', m + 1) = here
        BY <1>1, <1>6 DEF here
      <3> QED BY <3>1, <3>2, <2>7, <2>8
    <2> QED BY <2>6, <2>9
  <1> QED BY <1>8, <1>13, <1>14

\* The innermost construct.
LEMMA TopFacts ==
    ASSUME FlowTypeOK, Shape(code, open), open # << >>
    PROVE  /\ code \in Seq(PartType) /\ open \in Seq(FrameType)
           /\ Len(code) \in Nat /\ Len(open) \in Nat \ {0}
           /\ Top = open[Len(open)] /\ Top \in FrameType
           /\ FrameIn(Top, Outside(open, Len(open)))
           /\ FlowIn(flow, Outside(open, Len(open) + 1))
           /\ Outside(open, Len(open)) \in SUBSET Leaves
           /\ Outside(open, Len(open) + 1) = Outside(open, Len(open)) \cup Top.local
           /\ FrameFits(code, open, Len(open)) /\ Top.from \in 1..Len(code)
           /\ \A d \in 1..(Len(open) - 1) : /\ FrameFits(code, open, d)
                                            /\ open[d].from \in 1..Len(code)
                                            /\ open[d].from # Top.from
  <1>1. /\ code \in Seq(PartType) /\ open \in Seq(FrameType) /\ Len(code) \in Nat
        /\ Len(open) \in Nat \ {0} /\ FlowIn(flow, Outside(open, Len(open) + 1))
    BY DEF FlowTypeOK
  <1>2. Top = open[Len(open)] /\ Top \in FrameType /\ Len(open) \in 1..Len(open)
    BY <1>1 DEF Top
  <1>3. FrameIn(Top, Outside(open, Len(open)))
    BY <1>2 DEF FlowTypeOK
  <1>4. Outside(open, Len(open) + 1) = Outside(open, Len(open)) \cup Top.local
    BY <1>1, <1>2, OutsideFacts
  <1>5. Outside(open, Len(open)) \in SUBSET Leaves
    BY <1>4, OutsideLeaves
  <1>6. FrameFits(code, open, Len(open)) /\ Top.from \in 1..Len(code)
    BY <1>2 DEF Shape, FramesFit, FrameFits
  <1>7. ASSUME NEW d \in 1..(Len(open) - 1)
        PROVE  /\ FrameFits(code, open, d) /\ open[d].from \in 1..Len(code)
               /\ open[d].from # Top.from
    <2>1. d \in 1..Len(open)
      BY <1>1
    <2>2. FrameFits(code, open, d) /\ open[d].from < open[Len(open)].from
      BY <1>2, <2>1 DEF Shape, FramesFit
    <2>3. open[d].from \in 1..Len(code)
      BY <2>2 DEF FrameFits
    <2> QED BY <1>2, <1>6, <2>2, <2>3
  <1> QED BY <1>1, <1>2, <1>3, <1>4, <1>5, <1>6, <1>7

\* A construct goes on: an else, the body of a while, the condition of a do-while.
LEMMA GoOnStep ==
    ASSUME FlowTypeOK, Shape(code, open), NEW does, NEW next, Within(does), Go_on(next),
           \/ does = "if" /\ next = "else" /\ flow' = Top.entry
           \/ does = "while" /\ next = "body" /\ flow' = flow
           \/ /\ does = "do" /\ next = "condition" /\ flow' \in Flow /\ Inhabited(flow')
              /\ Gone(flow') \subseteq Outside(open, Len(open))
              /\ \A f \in Top.continues \cup {flow} : f.reachable =>
                    flow'.reachable /\ Gone(f) \subseteq Gone(flow')
    PROVE  /\ FlowTypeOK' /\ Shape(code', open')
           /\ \A notes : Annotates(notes, code, open, flow) =>
                 \E more : Annotates(more, code', open', flow')
  <1> DEFINE n == Len(code)
             m == Len(open)
             out == Outside(open, m)
             from == Top.from
             p == Part(next, {}, from)
             frame == [Top EXCEPT !.does = next, !.first = flow]
  <1>0. open # << >> /\ Top.does = does
    BY DEF Within
  <1>1. /\ code \in Seq(PartType) /\ open \in Seq(FrameType)
        /\ n \in Nat /\ m \in Nat \ {0}
        /\ Top = open[m] /\ Top \in FrameType
        /\ FrameIn(Top, out) /\ FlowIn(flow, Outside(open, m + 1)) /\ out \in SUBSET Leaves
        /\ Outside(open, m + 1) = out \cup Top.local
        /\ FrameFits(code, open, m) /\ from \in 1..n
        /\ \A d \in 1..(m - 1) : /\ FrameFits(code, open, d)
                                 /\ open[d].from \in 1..n
                                 /\ open[d].from # from
    BY <1>0, TopFacts
  <1>2. Top.local = {} /\ Outside(open, m + 1) = out
    <2>1. Top.local = {}
      BY <1>0, <1>1 DEF FrameFits
    <2> QED BY <1>1, <2>1
  <1>3. code' = Append(code, p) /\ open' = [open EXCEPT ![m] = frame]
    BY DEF Go_on, Read
  <1>4. p \in PartType /\ p.does = next /\ p.place = {} /\ p.from = from /\ ~p.whole
    <2>1. next \in Begins \cup Members \cup Plain
      BY DEF Members
    <2>2. from \in Nat /\ {} \in SUBSET Leaves /\ "none" \in Kinds
      BY <1>1 DEF Kinds
    <2>3. p = [does |-> next, place |-> {}, from |-> from, kind |-> "none", whole |-> FALSE]
      BY DEF Part
    <2> HIDE DEF p
    <2>4. p \in PartType
      BY <2>1, <2>2, <2>3 DEF PartType
    <2> QED BY <2>3, <2>4
  <1>5. /\ frame \in FrameType /\ frame.does = next /\ frame.first = flow /\ frame.from = from
        /\ frame.local = {} /\ frame.entry = Top.entry /\ frame.breaks = Top.breaks
        /\ frame.continues = Top.continues /\ FrameIn(frame, out)
    <2>1. flow \in Flow /\ FlowIn(flow, out)
      BY <1>1, <1>2 DEF FlowIn
    <2>2. frame \in FrameType
      BY <1>1, <2>1 DEF FrameType
    <2>3. /\ frame.does = next /\ frame.first = flow /\ frame.from = from
          /\ frame.local = {} /\ frame.entry = Top.entry /\ frame.breaks = Top.breaks
          /\ frame.continues = Top.continues
      BY <1>1, <1>2 DEF FrameType
    <2> HIDE DEF frame, out
    <2>4. FrameIn(frame, out)
      BY <1>1, <2>1, <2>3 DEF FrameIn
    <2> QED BY <2>2, <2>3, <2>4
  <1>6. FlowIn(flow', out)
    <2>1. FlowIn(Top.entry, out)
      BY <1>1 DEF FrameIn
    <2>2. FlowIn(flow, out)
      BY <1>1, <1>2
    <2> HIDE DEF out
    <2>3. next = "condition" /\ flow' \in Flow /\ Inhabited(flow') /\ Gone(flow') \subseteq out =>
             FlowIn(flow', out)
      BY DEF FlowIn
    <2> QED BY <2>1, <2>2, <2>3 DEF out
  <1> HIDE DEF frame, p
  <1>7. /\ open' \in Seq(FrameType) /\ Len(open') = m /\ open'[m] = frame
        /\ \A d \in 1..(m - 1) : open'[d] = open[d]
        /\ \A d \in 1..(m + 1) : Outside(open', d) = Outside(open, d)
    <2>1. frame.local = open[m].local /\ m \in 1..Len(open)
      BY <1>1, <1>2, <1>5
    <2>2. \A d \in 1..(m + 1) : Outside([open EXCEPT ![m] = frame], d) = Outside(open, d)
      <3>1. open \in Seq(FrameType)
        BY <1>1
      <3> QED BY <3>1, <2>1, Stacks
    <2>3. \A d \in 1..(m + 1) : Outside(open', d) = Outside(open, d)
      BY <1>3, <2>2
    <2>4. /\ open' \in Seq(FrameType) /\ Len(open') = m /\ open'[m] = frame
          /\ \A d \in 1..(m - 1) : open'[d] = open[d]
      BY <1>1, <1>3, <1>5
    <2> QED BY <2>4, <2>3
  <1>8. Outside(open', Len(open') + 1) = out /\ Outside(open', m) = out
    BY <1>1, <1>2, <1>7
  <1>9. \A d \in 1..m : d \in 1..(m - 1) \/ d = m
    BY <1>1
  <1> HIDE DEF out
  <1>10. FlowTypeOK'
    <2>1. code' \in Seq(PartType)
      BY <1>1, <1>3, <1>4
    <2>2. ASSUME NEW d \in 1..m
          PROVE  FrameIn(open'[d], Outside(open', d))
      <3>1. CASE d = m
        BY <3>1, <1>5, <1>7, <1>8
      <3>2. CASE d \in 1..(m - 1)
        <4>1. FrameIn(open[d], Outside(open, d))
          BY DEF FlowTypeOK
        <4>2. open'[d] = open[d] /\ Outside(open', d) = Outside(open, d)
          BY <3>2, <1>1, <1>7
        <4> QED BY <4>1, <4>2
      <3> QED BY <3>1, <3>2, <1>9
    <2> HIDE DEF m
    <2> QED BY <1>6, <1>7, <1>8, <2>1, <2>2 DEF FlowTypeOK
  <1>11. /\ code' \in Seq(PartType) /\ Len(code') = n + 1 /\ code'[n + 1] = p
         /\ \A i \in 1..n : code'[i] = code[i]
    BY <1>1, <1>3, <1>4
  <1>12. /\ code[from].does = does /\ does \in Begins
         /\ \A e \in {"end", "else", "body", "condition"} : ~Has(code, from, e)
    BY <1>0, <1>1 DEF FrameFits, Begins, LoopBegins
  <1>13. PartFits(code', n + 1)
    BY <1>1, <1>4, <1>11, <1>12 DEF PartFits, Plain, Begins, LoopBegins, Members
  <1>14. Shape(code', open')
    <2>1. PartsFit(code')
      BY <1>1, <1>3, <1>4, <1>13, FitGrows DEF Shape
    <2>2. ASSUME NEW d \in 1..(m - 1)
          PROVE  FrameFits(code', open', d)
      <3>1. open'[d] = open[d] /\ Outside(open', d) = Outside(open, d) /\ p.from # open[d].from
        BY <1>1, <1>4, <1>7
      <3> QED BY <3>1, <1>1, <1>3, <1>4, FitsKept
    <2>3. FrameFits(code', open', m)
      <3>1. ASSUME NEW e
            PROVE  Has(code', from, e) <=> Has(code, from, e) \/ e = next
        BY <1>1, <1>3, <1>4, PartsOfLonger
      <3>2. code'[from].does = does /\ from \in 1..Len(code')
        BY <1>1, <1>11, <1>12
      <3>3. /\ Has(code', from, next) /\ ~Has(code', from, "end")
            /\ \A e \in {"else", "body", "condition"} : Has(code', from, e) <=> e = next
        BY <3>1, <1>12
      <3>4. /\ open'[m].does = next /\ open'[m].from = from /\ open'[m].local = {}
        BY <1>5, <1>7
      <3> HIDE DEF m, n
      <3> QED BY <3>2, <3>3, <3>4 DEF FrameFits
    <2>4. \A d \in 1..m : open'[d].from = open[d].from
      BY <1>1, <1>5, <1>7, <1>9
    <2>5. Closed(code', open')
      <3>1. \A i : IsOpen(open, i) => IsOpen(open', i)
        BY <1>7, <2>4 DEF IsOpen
      <3>2. p.does \notin Begins
        BY <1>4 DEF Begins, LoopBegins
      <3>3. Closed(code, open) /\ code \in Seq(PartType) /\ p \in PartType /\ code' = Append(code, p)
        BY <1>1, <1>3, <1>4 DEF Shape
      <3> QED BY <3>1, <3>2, <3>3, ClosedKept
    <2>6. \A d \in 1..m : FrameFits(code', open', d)
      BY <1>9, <2>2, <2>3
    <2>7. \A d \in 1..m : \A c \in 1..(d - 1) : open'[c].from < open'[d].from
      <3>1. \A d \in 1..m : \A c \in 1..(d - 1) : open[c].from < open[d].from /\ c \in 1..m
        BY <1>1 DEF Shape, FramesFit
      <3> QED BY <3>1, <2>4
    <2> HIDE DEF m
    <2> QED BY <1>7, <2>1, <2>5, <2>6, <2>7 DEF Shape, FramesFit
  <1>15. ASSUME NEW notes, Annotates(notes, code, open, flow)
         PROVE  \E more : Annotates(more, code', open', flow')
    <2> DEFINE note == NoteOf(flow', out)
    <2>1. notes[n + 1] = NoteOf(flow, out)
      BY <1>2, <1>15 DEF Annotates
    <2>2. note \in Note
      BY <1>1, <1>6, NoteFacts DEF FlowIn
    <2>3. FrameOK(code, notes, Top, out)
      <3>1. m \in 1..Len(open)
        BY <1>1
      <3> QED BY <3>1, <1>1, <1>15 DEF Annotates, out
    <2>4. ASSUME NEW i \in 1..n, NEW j, NewWay(code, p, i, j)
          PROVE  Brings(code[i], notes[i], NoteAt(notes, code, note, j))
      <3>1. j = n + 2 /\ \/ /\ code[i].does = "if" /\ from = i /\ next = "else"
                         \/ code[i].does = "continue" /\ from = code[i].from /\ next = "condition"
        BY <1>4, <2>4 DEF NewWay
      <3>2. CASE code[i].does = "if" /\ from = i /\ next = "else"
        <4>1. notes[i] = NoteOf(Top.entry, out) /\ flow' = Top.entry
          BY <3>2, <2>3 DEF FrameOK
        <4> QED BY <4>1, <3>1, <3>2 DEF Brings, Effect, Exits, NoteOf, NoteAt
      <3>3. CASE code[i].does = "continue" /\ from = code[i].from /\ next = "condition"
        <4>1. notes[i].reached =>
                 \E f \in Top.continues : f.reachable /\ Brings(code[i], notes[i], NoteOf(f, out))
          BY <3>3, <1>0, <2>3 DEF FrameOK
        <4>2. \A f \in Top.continues : f.reachable => flow'.reachable /\ Gone(f) \subseteq Gone(flow')
          BY <3>3
        <4> QED BY <4>1, <4>2, <3>1 DEF Brings, NoteOf, NoteAt
      <3> QED BY <3>1, <3>2, <3>3
    <2>5. \A j \in Leads(code', n + 1) : Brings(p, notes[n + 1], NoteAt(notes, code, note, j))
      <3>1. CASE next = "else"
        <4>1. ~Has(code, p.from, "end")
          BY <1>4, <1>12
        <4> QED BY <3>1, <4>1, <1>1, <1>3, <1>4, <1>13, NewLeads DEF Shape
      <3>2. CASE next # "else"
        <4>1. Leads(code', n + 1) = {n + 2}
          <5>1. ~Has(code, p.from, "end")
            BY <1>4, <1>12
          <5>2. Leads(code', n + 1) = {(n + 1) + 1}
            BY <3>2, <5>1, <1>1, <1>3, <1>4, <1>13, NewLeads DEF Shape
          <5> QED BY <5>2, <1>1
        <4>2. flow.reachable => flow'.reachable /\ Gone(flow) \subseteq Gone(flow')
          BY <3>2
        <4> QED BY <4>1, <4>2, <3>2, <1>4, <2>1 DEF NoteAt, Brings, Effect, Exits, NoteOf
      <3> QED BY <3>1, <3>2
    <2>6. PartOK(code', p, notes[n + 1])
      BY <1>4 DEF PartOK, Exits
    <2>7. note = NoteOf(flow', Outside(open', Len(open') + 1))
      BY <1>8
    <2> HIDE DEF note
    <2>8. PICK more : /\ Extends(more, notes, code, p, note)
                      /\ (\A d \in 1..Len(open') : FrameOK(code', more, open'[d], Outside(open', d)))
                            => Annotates(more, code', open', flow')
      <3>1. PartsFit(code) /\ PartOK(code', p, notes[Len(code) + 1]) /\ PartFits(Append(code, p), Len(code) + 1)
        BY <1>3, <1>13, <2>6 DEF Shape
      <3> QED BY <3>1, <1>1, <1>3, <1>4, <1>15, <2>2, <2>4, <2>5, <2>7, AnnotationGrows
    <2>9. ASSUME NEW d \in 1..(m - 1)
          PROVE  FrameOK(code', more, open'[d], Outside(open', d))
      <3>1. d \in 1..Len(open) /\ open'[d] = open[d] /\ Outside(open', d) = Outside(open, d)
        BY <1>1, <1>7
      <3>2. FrameOK(code, notes, open[d], Outside(open, d))
        BY <3>1, <1>15 DEF Annotates
      <3> QED BY <3>1, <3>2, <1>1, <1>3, <1>4, <2>8, FrameKept
    <2>10. FrameOK(code', more, frame, out)
      <3>1. \A i \in 1..(n + 1) : more[i] = notes[i]
        BY <2>8 DEF Extends, PointsOf
      <3>2. /\ more[from] = NoteOf(Top.entry, out)
            /\ code'[from].does \in LoopBegins => more[from + 1] = NoteOf(Top.entry, out)
        <4>1. from \in 1..(n + 1) /\ from + 1 \in 1..(n + 1) /\ code'[from] = code[from]
          BY <1>1, <1>11
        <4>2. more[from] = notes[from] /\ more[from + 1] = notes[from + 1]
          BY <3>1, <4>1
        <4> QED BY <4>1, <4>2, <2>3 DEF FrameOK
      <3>3. ASSUME NEW i \in 1..n, code[i].from = from
            PROVE  code[i].does \notin {"else", "body"}
        BY <3>3, <1>12 DEF Has, IsPart
      <3>4. ASSUME NEW i \in 1..(n + 1), code'[i].from = from
            PROVE  /\ code'[i].does \in {"else", "body"} => more[i] = NoteOf(flow, out)
                   /\ code'[i].does = "break" /\ more[i].reached =>
                        \E f \in Top.breaks : f.reachable /\ Brings(code'[i], more[i], NoteOf(f, out))
                   /\ code'[i].does = "continue" /\ more[i].reached /\ next # "condition" =>
                        \E f \in Top.continues : f.reachable /\ Brings(code'[i], more[i], NoteOf(f, out))
        <4>1. CASE i = n + 1
          BY <4>1, <3>1, <1>1, <1>4, <1>11, <2>1
        <4>2. CASE i \in 1..n
          <5>1. code'[i] = code[i] /\ more[i] = notes[i]
            BY <4>2, <3>1, <1>1, <1>11
          <5>2. next # "condition" => Top.does # "condition"
            BY <1>0
          <5>3. code[i].from = from
            BY <5>1, <3>4
          <5> QED BY <4>2, <5>1, <5>2, <5>3, <3>3, <2>3 DEF FrameOK
        <4> QED BY <4>1, <4>2, <1>1
      <3> QED BY <3>2, <3>4, <1>5, <1>11 DEF FrameOK
    <2>11. \A d \in 1..Len(open') : FrameOK(code', more, open'[d], Outside(open', d))
      BY <1>7, <1>8, <1>9, <2>9, <2>10
    <2> QED BY <2>8, <2>11
  <1> QED BY <1>10, <1>14, <1>15

\* What one flow holds to be gone, where it arrives, another does too.
Covers(f, g) == f.reachable => g.reachable /\ Gone(f) \subseteq Gone(g)

\* A construct ends.
LEMMA EndStep ==
    ASSUME FlowTypeOK, Shape(code, open), open # << >>, Close("end"),
           Top.does \notin {"while", "do"}, FlowIn(flow', Outside(open, Len(open))),
           Top.does \notin {"body", "loop"} /\ flow.reachable =>
              flow'.reachable /\ Gone(flow) \ Top.local \subseteq Gone(flow'),
           Top.does = "if" => Covers(Top.entry, flow'),
           Top.does \in {"else", "body"} => Covers(Top.first, flow'),
           Top.does \in {"body", "condition", "loop"} =>
              /\ \A f \in Top.breaks : Covers(f, flow')
              /\ \A f \in Top.continues \cup {flow} : Covers(f, Top.entry)
    PROVE  /\ FlowTypeOK' /\ Shape(code', open')
           /\ \A notes : Annotates(notes, code, open, flow) =>
                 \E more : Annotates(more, code', open', flow')
  <1> DEFINE n == Len(code)
             m == Len(open)
             out == Outside(open, m)
             here == Outside(open, m + 1)
             from == Top.from
             local == Top.local
             p == Part("end", local, from)
  <1>1. /\ code \in Seq(PartType) /\ open \in Seq(FrameType)
        /\ n \in Nat /\ m \in Nat \ {0}
        /\ Top = open[m] /\ Top \in FrameType
        /\ FrameIn(Top, out) /\ FlowIn(flow, here) /\ out \in SUBSET Leaves
        /\ here = out \cup local
        /\ FrameFits(code, open, m) /\ from \in 1..n
        /\ \A d \in 1..(m - 1) : /\ FrameFits(code, open, d)
                                 /\ open[d].from \in 1..n
                                 /\ open[d].from # from
    BY TopFacts
  <1>2. /\ local \cap out = {} /\ (local = {} \/ local \in Locals)
        /\ (Top.does # "block" => local = {}) /\ local \in SUBSET Leaves
    BY <1>1, OwnershipAssumption DEF FrameFits, FrameType
  <1>3. code' = Append(code, p) /\ open' = SubSeq(open, 1, m - 1)
    BY DEF Close, Read
  <1>4. p \in PartType /\ p.does = "end" /\ p.place = local /\ p.from = from /\ ~p.whole
    <2>1. p = [does |-> "end", place |-> local, from |-> from, kind |-> "none", whole |-> FALSE]
      BY DEF Part
    <2>2. "end" \in Begins \cup Members \cup Plain /\ from \in Nat /\ "none" \in Kinds
      BY <1>1 DEF Members, Kinds
    <2> HIDE DEF p, from, local
    <2>3. p \in PartType
      BY <1>2, <2>1, <2>2 DEF PartType
    <2> QED BY <2>1, <2>3
  <1> HIDE DEF p
  <1>5. /\ open' \in Seq(FrameType) /\ Len(open') = m - 1
        /\ \A d \in 1..(m - 1) : open'[d] = open[d]
        /\ \A d \in 1..m : Outside(open', d) = Outside(open, d)
    <2>1. \A d \in 1..m : Outside(open', d) = Outside(open, d)
      BY <1>1, <1>3, Stacks
    <2>2. \A d \in 1..(m - 1) : open[d] \in FrameType
      BY <1>1
    <2>3. 1 \in Int /\ m - 1 \in Int
      BY <1>1
    <2> HIDE DEF m
    <2>4. /\ SubSeq(open, 1, m - 1) \in Seq(FrameType)
          /\ Len(SubSeq(open, 1, m - 1)) = IF 1 <= m - 1 THEN (m - 1) - 1 + 1 ELSE 0
          /\ \A d \in 1..((m - 1) - 1 + 1) : SubSeq(open, 1, m - 1)[d] = open[1 + d - 1]
      BY <2>2, <2>3, SubSeqProperties
    <2>5. m \in Nat \ {0}
      BY <1>1
    <2>6. open' \in Seq(FrameType) /\ Len(open') = m - 1
      BY <1>3, <2>4, <2>5
    <2>7. ASSUME NEW d \in 1..(m - 1)
          PROVE  open'[d] = open[d]
      <3>1. d \in 1..((m - 1) - 1 + 1) /\ 1 + d - 1 = d
        BY <2>5
      <3> QED BY <3>1, <1>3, <2>4
    <2> QED BY <2>1, <2>6, <2>7
  <1>6. Outside(open', Len(open') + 1) = out
    BY <1>1, <1>5
  <1> HIDE DEF out, here
  <1>7. FlowTypeOK'
    <2>1. code' \in Seq(PartType)
      BY <1>1, <1>3, <1>4
    <2>2. ASSUME NEW d \in 1..(m - 1)
          PROVE  FrameIn(open'[d], Outside(open', d))
      <3>1. FrameIn(open[d], Outside(open, d))
        BY <1>1 DEF FlowTypeOK
      <3>2. open'[d] = open[d] /\ Outside(open', d) = Outside(open, d)
        BY <1>1, <1>5
      <3> QED BY <3>1, <3>2
    <2>3. FlowIn(flow', out)
      BY DEF out
    <2> HIDE DEF m
    <2> QED BY <1>5, <1>6, <2>1, <2>2, <2>3 DEF FlowTypeOK
  <1>8. /\ code' \in Seq(PartType) /\ Len(code') = n + 1 /\ code'[n + 1] = p
        /\ \A i \in 1..n : code'[i] = code[i]
    BY <1>1, <1>3, <1>4
  <1>9. /\ code[from].does \in Begins
        /\ Top.does \in {"if", "else"} <=> code[from].does = "if"
        /\ Top.does = "body" <=> code[from].does = "while"
        /\ Top.does = "condition" <=> code[from].does = "do"
        /\ Top.does = "loop" <=> code[from].does = "loop"
        /\ Top.does = "else" <=> Has(code, from, "else")
        /\ Top.does = "condition" => Has(code, from, "condition")
    BY <1>1 DEF FrameFits, FrameType, Begins, LoopBegins
  <1>10. PartFits(code', n + 1)
    BY <1>1, <1>4, <1>8, <1>9 DEF PartFits, Plain, Begins, LoopBegins, Members
  <1>11. Shape(code', open')
    <2>1. PartsFit(code')
      BY <1>1, <1>3, <1>4, <1>10, FitGrows DEF Shape
    <2>2. ASSUME NEW d \in 1..(m - 1)
          PROVE  FrameFits(code', open', d)
      <3>1. /\ open'[d] = open[d] /\ Outside(open', d) = Outside(open, d)
            /\ p.from # open[d].from /\ FrameFits(code, open, d)
        BY <1>1, <1>4, <1>5
      <3>2. code \in Seq(PartType) /\ p \in PartType /\ code' = Append(code, p)
        BY <1>1, <1>3, <1>4
      <3> QED BY <3>1, <3>2, FitsKept
    <2>3. Closed(code', open')
      <3>1. ASSUME NEW i, IsOpen(open, i)
            PROVE  IsOpen(open', i) \/ Ended(code', i)
        <4>1. PICK d \in 1..m : open[d].from = i
          BY <3>1 DEF IsOpen
        <4>2. CASE d \in 1..(m - 1)
          BY <4>1, <4>2, <1>5 DEF IsOpen
        <4>3. CASE d = m
          <5>1. i = from /\ code'[i].does = code[from].does
            BY <4>1, <4>3, <1>1, <1>8
          <5>2. Has(code', i, "end")
            BY <5>1, <1>1, <1>3, <1>4, PartsOfLonger
          <5>3. Has(code, from, "condition") => Has(code', i, "condition")
            BY <5>1, <1>1, <1>3, <1>4, PartsOfLonger
          <5> QED BY <5>1, <5>2, <5>3, <1>9 DEF Ended
        <4> QED BY <4>2, <4>3, <1>1
      <3>2. p.does \notin Begins
        BY <1>4 DEF Begins, LoopBegins
      <3>3. Closed(code, open) /\ code \in Seq(PartType) /\ p \in PartType /\ code' = Append(code, p)
        BY <1>1, <1>3, <1>4 DEF Shape
      <3> QED BY <3>1, <3>2, <3>3, ClosedGrows
    <2>4. \A d \in 1..(m - 1) : \A c \in 1..(d - 1) : open'[c].from < open'[d].from
      <3>1. \A d \in 1..(m - 1) : \A c \in 1..(d - 1) :
               open[c].from < open[d].from /\ c \in 1..(m - 1)
        <4>1. \A d \in 1..Len(open) : \A c \in 1..(d - 1) : open[c].from < open[d].from
          BY DEF Shape, FramesFit
        <4> HIDE DEF m
        <4>2. m = Len(open) /\ m \in Nat
          BY <1>1 DEF m
        <4> QED BY <4>1, <4>2
      <3> QED BY <3>1, <1>5
    <2> HIDE DEF m
    <2> QED BY <1>5, <2>1, <2>2, <2>3, <2>4 DEF Shape, FramesFit
  <1>12. ASSUME NEW notes, Annotates(notes, code, open, flow)
         PROVE  \E more : Annotates(more, code', open', flow')
    <2> DEFINE note == NoteOf(flow', out)
    <2>1. notes[n + 1] = NoteOf(flow, here)
      BY <1>12 DEF Annotates, here
    <2>2. note \in Note
      <3>1. flow' \in Flow
        BY DEF FlowIn
      <3> QED BY <3>1, <1>1, NoteFacts
    <2>3. FrameOK(code, notes, Top, out)
      <3>1. m \in 1..Len(open)
        BY <1>1
      <3> QED BY <3>1, <1>1, <1>12 DEF Annotates, out
    <2>4. \A f : Covers(f, Top.entry) /\ f.reachable => Gone(f) \subseteq Gone(Top.entry)
      BY DEF Covers
    <2>5. ASSUME NEW i \in 1..n, NEW j, NewWay(code, p, i, j)
          PROVE  Brings(code[i], notes[i], NoteAt(notes, code, note, j))
      <3>0. PartFits(code, i) /\ (code[i].does = "else" => Has(code, code[i].from, "else"))
        BY DEF Shape, PartsFit, Has, IsPart
      <3>1. CASE j = n + 2 /\ code[i].does = "if" /\ from = i /\ ~Has(code, i, "else")
        <4>1. notes[i] = NoteOf(Top.entry, out) /\ Covers(Top.entry, flow')
          BY <3>1, <1>9, <2>3 DEF FrameOK
        <4> QED BY <4>1, <3>1 DEF Brings, Effect, Exits, NoteOf, NoteAt, Covers
      <3>2. CASE j = n + 2 /\ code[i].does \in {"else", "body"} /\ code[i].from = from
        <4>1. notes[i] = NoteOf(Top.first, out)
          BY <3>2, <2>3 DEF FrameOK
        <4>2. Covers(Top.first, flow')
          BY <3>0, <3>2, <1>9 DEF PartFits
        <4> QED BY <4>1, <4>2, <3>2 DEF Brings, Effect, Exits, NoteOf, NoteAt, Covers
      <3>3. CASE j = n + 2 /\ code[i].does = "break" /\ code[i].from = from
        <4>1. notes[i].reached =>
                 \E f \in Top.breaks : f.reachable /\ Brings(code[i], notes[i], NoteOf(f, out))
          BY <3>3, <2>3 DEF FrameOK
        <4>2. \A f \in Top.breaks : Covers(f, flow')
          BY <3>0, <3>3, <1>9 DEF PartFits, LoopBegins
        <4> QED BY <4>1, <4>2, <3>3 DEF Brings, NoteOf, NoteAt, Covers
      <3>4. CASE /\ j = from + 1 /\ code[i].does = "continue" /\ code[i].from = from
                 /\ code[from].does # "do"
        <4>1. notes[i].reached =>
                 \E f \in Top.continues : f.reachable /\ Brings(code[i], notes[i], NoteOf(f, out))
          BY <3>4, <1>9, <2>3 DEF FrameOK
        <4>2. code[from].does \in LoopBegins /\ \A f \in Top.continues : Covers(f, Top.entry)
          BY <3>0, <3>4, <1>9 DEF PartFits, LoopBegins
        <4>3. NoteAt(notes, code, note, j) = NoteOf(Top.entry, out)
          BY <3>4, <4>2, <1>1, <2>3 DEF FrameOK, NoteAt
        <4>4. Top.entry.reachable
          BY <1>1 DEF FrameIn
        <4>5. \A f \in Top.continues : f.reachable => Gone(f) \subseteq Gone(Top.entry)
          BY <4>2 DEF Covers
        <4>6. Brings(code[i], notes[i], NoteOf(Top.entry, out))
          BY <4>1, <4>4, <4>5 DEF Brings, NoteOf
        <4> QED BY <4>3, <4>6
      <3> QED BY <3>1, <3>2, <3>3, <3>4, <2>5, <1>4 DEF NewWay
    <2>6. ASSUME NEW j \in Leads(code', n + 1)
          PROVE  Brings(p, notes[n + 1], NoteAt(notes, code, note, j))
      <3>1. \/ j = from + 1 /\ code[from].does \in LoopBegins
            \/ j = (n + 1) + 1 /\ code[from].does \notin {"while", "loop"}
        <4>1. PartsFit(code) /\ PartFits(Append(code, p), Len(code) + 1)
          BY <1>3, <1>10 DEF Shape
        <4>2. Leads(code', n + 1) =
                (IF code[from].does \in LoopBegins THEN {from + 1} ELSE {})
                \cup (IF code[from].does \in {"while", "loop"} THEN {} ELSE {(n + 1) + 1})
          BY <4>1, <1>1, <1>3, <1>4, NewLeads
        <4> QED BY <4>2
      <3>2. CASE j = from + 1 /\ code[from].does \in LoopBegins
        <4>1. Top.does \in {"body", "condition", "loop"}
          BY <3>2, <1>9 DEF LoopBegins
        <4>2. local = {} /\ Covers(flow, Top.entry)
          BY <4>1, <1>2
        <4>3. NoteAt(notes, code, note, j) = NoteOf(Top.entry, out)
          BY <3>2, <1>1, <2>3 DEF FrameOK, NoteAt
        <4>4. Brings(p, NoteOf(flow, here), NoteOf(Top.entry, out))
          <5>1. Top.entry.reachable /\ here = out /\ p.place = {} /\ p.does = "end"
            BY <4>2, <1>1, <1>4 DEF FrameIn
          <5> HIDE DEF local
          <5> QED BY <5>1, <4>2 DEF Brings, Effect, Exits, NoteOf, Covers
        <4> QED BY <4>3, <4>4, <2>1
      <3>3. CASE j = (n + 1) + 1 /\ code[from].does \notin {"while", "loop"}
        <4>1. Top.does \notin {"body", "loop"}
          BY <3>3, <1>9
        <4>2. flow.reachable => flow'.reachable /\ Gone(flow) \ local \subseteq Gone(flow')
          BY <4>1
        <4>3. NoteAt(notes, code, note, j) = note
          BY <3>3, <1>1 DEF NoteAt
        <4>4. Brings(p, NoteOf(flow, here), NoteOf(flow', out))
          <5>1. here = out \cup local /\ p.place = local /\ p.does = "end" /\ local \cap out = {}
            BY <1>1, <1>2, <1>4
          <5> HIDE DEF local
          <5> QED BY <5>1, <4>2 DEF Brings, Effect, Exits, NoteOf
        <4> QED BY <4>3, <4>4, <2>1
      <3> QED BY <3>1, <3>2, <3>3
    <2>7. PartOK(code', p, notes[n + 1])
      <3>1. \A L \in Locals : L \subseteq local \/ L \cap local = {}
        BY <1>2, OwnershipAssumption
      <3> QED BY <3>1, <1>4 DEF PartOK
    <2>8. note = NoteOf(flow', Outside(open', Len(open') + 1))
      BY <1>6
    <2> HIDE DEF note
    <2>9. PICK more : /\ Extends(more, notes, code, p, note)
                      /\ (\A d \in 1..Len(open') : FrameOK(code', more, open'[d], Outside(open', d)))
                            => Annotates(more, code', open', flow')
      <3>1. PartsFit(code) /\ PartOK(code', p, notes[Len(code) + 1]) /\ PartFits(Append(code, p), Len(code) + 1)
        BY <1>3, <1>10, <2>7 DEF Shape
      <3> QED BY <3>1, <1>1, <1>3, <1>4, <1>12, <2>2, <2>5, <2>6, <2>8, AnnotationGrows
    <2>10. ASSUME NEW d \in 1..(m - 1)
           PROVE  FrameOK(code', more, open'[d], Outside(open', d))
      <3>1. d \in 1..Len(open) /\ open'[d] = open[d] /\ Outside(open', d) = Outside(open, d)
        BY <1>1, <1>5
      <3>2. FrameOK(code, notes, open[d], Outside(open, d))
        BY <3>1, <1>12 DEF Annotates
      <3> QED BY <3>1, <3>2, <1>1, <1>3, <1>4, <2>9, FrameKept
    <2> QED BY <2>9, <2>10, <1>5
  <1> QED BY <1>7, <1>11, <1>12

\* The frame of a loop with what a break or a continue brings.
Brought(does, loop) ==
    IF does = "break"
    THEN [open[loop] EXCEPT !.breaks = open[loop].breaks \cup {Kept(loop)}]
    ELSE [open[loop] EXCEPT !.continues = open[loop].continues \cup {Kept(loop)}]

\* A break or continue, for its loop.
LEMMA JumpStep ==
    ASSUME FlowTypeOK, Shape(code, open), flow.reachable, NEW loop \in Enclosing,
           NEW does \in {"break", "continue"}, Leave(does, loop),
           open' = [open EXCEPT ![loop] = Brought(does, loop)]
    PROVE  /\ FlowTypeOK' /\ Shape(code', open')
           /\ does = "break" \/ open[loop].does # "condition" =>
                \A notes : Annotates(notes, code, open, flow) =>
                   \E more : Annotates(more, code', open', flow')
  <1> DEFINE n == Len(code)
             m == Len(open)
             out == Outside(open, loop)
             here == Outside(open, m + 1)
             from == open[loop].from
             scopes == DeclaredFrom(loop + 1)
             kept == Kept(loop)
             p == Part(does, scopes, from)
             frame == Brought(does, loop)
  <1>1. /\ code \in Seq(PartType) /\ open \in Seq(FrameType)
        /\ n \in Nat /\ m \in Nat /\ loop \in 1..m
        /\ FlowIn(flow, here) /\ here \in SUBSET Leaves
        /\ \A d \in 1..m : /\ open[d] \in FrameType
                           /\ FrameIn(open[d], Outside(open, d))
                           /\ FrameFits(code, open, d)
                           /\ open[d].from \in 1..n
    <2>1. code \in Seq(PartType) /\ open \in Seq(FrameType) /\ FlowIn(flow, here)
          /\ \A d \in 1..m : FrameIn(open[d], Outside(open, d))
      BY DEF FlowTypeOK
    <2>2. here \in SUBSET Leaves /\ \A d \in 1..m : open[d] \in FrameType
      BY OutsideLeaves
    <2>3. \A d \in 1..m : FrameFits(code, open, d) /\ open[d].from \in 1..n
      BY DEF Shape, FramesFit, FrameFits
    <2>4. n \in Nat /\ m \in Nat /\ loop \in 1..m
      BY <2>1 DEF Enclosing
    <2> QED BY <2>1, <2>2, <2>3, <2>4
  <1>2. /\ open[loop].does \in {"while", "do", "loop", "body", "condition"}
        /\ open[loop].local = {} /\ code[from].does \in LoopBegins
        /\ ~Has(code, from, "end")
        /\ open[loop].does = "condition" <=> Has(code, from, "condition")
    <2>1. open[loop].does \in {"while", "do", "loop", "body", "condition"}
      <3>1. open[loop].does \notin {"block", "if", "else"}
        BY DEF Enclosing
      <3>2. open[loop].does \in Begins \cup {"else", "body", "condition"}
        BY <1>1 DEF FrameType
      <3> QED BY <3>1, <3>2 DEF Begins, LoopBegins
    <2>2. FrameFits(code, open, loop)
      BY <1>1
    <2> QED BY <2>1, <2>2 DEF FrameFits, LoopBegins
  <1>3. here = out \cup scopes /\ scopes \cap out = {} /\ out \in SUBSET Leaves
    <2>1. here = Outside(open, loop + 1) \cup scopes
      BY <1>1, InnerDeclared
    <2>2. Outside(open, loop + 1) = out \cup open[loop].local
      BY <1>1, OutsideFacts
    <2>3. ASSUME NEW d \in (loop + 1)..m
          PROVE  open[d].local \cap out = {}
      <3>1. d \in 1..m /\ loop \in 1..d /\ d \in Nat \ {0}
        BY <1>1
      <3>2. open[d].local \cap Outside(open, d) = {}
        BY <3>1, <1>1 DEF FrameFits
      <3>3. out \subseteq Outside(open, d)
        BY <3>1, OutsideFacts
      <3> QED BY <3>2, <3>3
    <2>4. scopes \cap out = {}
      BY <2>3 DEF DeclaredFrom
    <2> QED BY <2>1, <2>2, <2>4, <1>1, <1>2
  <1>4. kept.reachable /\ Gone(kept) = Gone(flow) \ scopes /\ FlowIn(kept, out)
    <2>1. flow \in Flow /\ Inhabited(flow) /\ Gone(flow) \subseteq here
      BY <1>1 DEF FlowIn
    <2>2. \A key \in Places : key \subseteq scopes \/ key \cap scopes = {}
      <3>1. loop + 1 \in Nat \ {0}
        BY <1>1
      <3> QED BY <3>1, ScopesHoldKeys DEF Shape
    <2>3. /\ kept \in Flow /\ Inhabited(kept) /\ kept.reachable = flow.reachable
          /\ Gone(kept) = Gone(flow) \ scopes
      BY <2>1, <2>2, WithoutFlow DEF Kept
    <2> HIDE DEF kept, out, scopes, here
    <2> QED BY <2>1, <2>3, <1>3 DEF FlowIn
  <1>5. code' = Append(code, p) /\ open' = [open EXCEPT ![loop] = frame] /\ flow' = Unreachable
    BY DEF Leave, Read
  <1> HIDE DEF out, here, scopes
  <1>6. /\ p \in PartType /\ p.does = does /\ p.place = scopes /\ p.from = from /\ ~p.whole
    <2>1. p = [does |-> does, place |-> scopes, from |-> from, kind |-> "none", whole |-> FALSE]
      BY DEF Part
    <2>2. does \in Begins \cup Members \cup Plain /\ from \in Nat /\ "none" \in Kinds
      BY <1>1 DEF Members, Kinds
    <2>3. scopes \in SUBSET Leaves
      BY <1>1, <1>3
    <2> HIDE DEF p, from
    <2>4. p \in PartType
      BY <2>1, <2>2, <2>3 DEF PartType
    <2> QED BY <2>1, <2>4
  <1>7. /\ frame \in FrameType /\ frame.does = open[loop].does /\ frame.from = from
        /\ frame.local = open[loop].local /\ frame.entry = open[loop].entry
        /\ frame.first = open[loop].first
        /\ frame.breaks = open[loop].breaks \cup (IF does = "break" THEN {kept} ELSE {})
        /\ frame.continues = open[loop].continues \cup (IF does = "continue" THEN {kept} ELSE {})
    <2>1. open[loop] \in FrameType /\ kept \in Flow
      BY <1>1, <1>4 DEF FlowIn
    <2>2. CASE does = "break"
      BY <2>1, <2>2 DEF FrameType, Brought
    <2>3. CASE does = "continue"
      BY <2>1, <2>3 DEF FrameType, Brought
    <2> QED BY <2>2, <2>3
  <1> HIDE DEF p, frame
  <1>8. FrameIn(frame, out)
    <2>1. FrameIn(open[loop], out)
      BY <1>1 DEF out
    <2> QED BY <2>1, <1>4, <1>7 DEF FrameIn
  <1>9. /\ open' \in Seq(FrameType) /\ Len(open') = m /\ open'[loop] = frame
        /\ \A d \in 1..m : d # loop => open'[d] = open[d]
        /\ \A d \in 1..(m + 1) : Outside(open', d) = Outside(open, d)
    <2>0. loop \in 1..Len(open) /\ frame.local = open[loop].local /\ open \in Seq(FrameType)
      BY <1>1, <1>7
    <2>1. \A d \in 1..(m + 1) : Outside(open', d) = Outside(open, d)
      <3>1. open' = [open EXCEPT ![loop] = frame]
        BY <1>5
      <3> HIDE DEF m
      <3>2. \A d \in 1..(Len(open) + 1) :
               Outside([open EXCEPT ![loop] = frame], d) = Outside(open, d)
        BY <2>0, Stacks
      <3> QED BY <3>1, <3>2 DEF m
    <2>2. /\ open' \in Seq(FrameType) /\ Len(open') = m /\ open'[loop] = frame
          /\ \A d \in 1..m : d # loop => open'[d] = open[d]
      BY <1>1, <1>5, <1>7
    <2> QED BY <2>1, <2>2
  <1>10. \A d \in 1..m : /\ open'[d].from = open[d].from /\ open'[d].does = open[d].does
                         /\ open'[d].local = open[d].local
                         /\ Outside(open', d) = Outside(open, d)
    <2> SUFFICES ASSUME NEW d \in 1..m
                 PROVE  /\ open'[d].from = open[d].from /\ open'[d].does = open[d].does
                        /\ open'[d].local = open[d].local
                        /\ Outside(open', d) = Outside(open, d)
      OBVIOUS
    <2>1. Outside(open', d) = Outside(open, d)
      <3>1. d \in 1..(m + 1)
        BY <1>1
      <3> QED BY <3>1, <1>9
    <2>2. CASE d = loop
      BY <2>1, <2>2, <1>7, <1>9
    <2>3. CASE d # loop
      BY <2>1, <2>3, <1>9
    <2> QED BY <2>2, <2>3
  <1>11. Outside(open', Len(open') + 1) = here
    <2>1. m + 1 \in 1..(m + 1)
      BY <1>1
    <2> HIDE DEF m
    <2> QED BY <2>1, <1>9 DEF here, m
  <1>12. FlowTypeOK'
    <2>1. code' \in Seq(PartType)
      BY <1>1, <1>5, <1>6
    <2>2. ASSUME NEW d \in 1..m
          PROVE  FrameIn(open'[d], Outside(open', d))
      <3>1. CASE d = loop
        BY <3>1, <1>8, <1>9, <1>10 DEF out
      <3>2. CASE d # loop
        BY <3>2, <1>1, <1>9, <1>10
      <3> QED BY <3>1, <3>2
    <2>3. FlowIn(flow', here)
      BY <1>5, UnreachableFlow DEF FlowIn
    <2> HIDE DEF m
    <2> QED BY <1>9, <1>11, <2>1, <2>2, <2>3 DEF FlowTypeOK
  <1>13. /\ code' \in Seq(PartType) /\ Len(code') = n + 1 /\ code'[n + 1] = p
         /\ \A i \in 1..n : code'[i] = code[i]
    BY <1>1, <1>5, <1>6
  <1>14. PartFits(code', n + 1)
    <2>1. from \in 1..n
      BY <1>1
    <2>2. code'[from] = code[from] /\ from \in 1..((n + 1) - 1)
      BY <2>1, <1>1, <1>13
    <2> HIDE DEF n, from
    <2> QED BY <2>2, <1>2, <1>6, <1>13 DEF PartFits, Plain, Begins, LoopBegins, Members
  <1>15. Shape(code', open')
    <2>1. PartsFit(code')
      BY <1>1, <1>5, <1>6, <1>14, FitGrows DEF Shape
    <2>2. ASSUME NEW d \in 1..m
          PROVE  FrameFits(code', open', d)
      BY <1>1, <1>5, <1>6, <1>10, FitsKept
    <2>3. Closed(code', open')
      <3>1. \A i : IsOpen(open, i) => IsOpen(open', i)
        BY <1>9, <1>10 DEF IsOpen
      <3>2. p.does \notin Begins
        BY <1>6 DEF Begins, LoopBegins
      <3>3. Closed(code, open) /\ code \in Seq(PartType) /\ p \in PartType /\ code' = Append(code, p)
        BY <1>1, <1>5, <1>6 DEF Shape
      <3> HIDE DEF n, m
      <3>4. Closed(Append(code, p), open')
        BY <3>1, <3>2, <3>3, ClosedKept
      <3> QED BY <3>3, <3>4
    <2>4. \A d \in 1..m : \A c \in 1..(d - 1) : open'[c].from < open'[d].from
      <3>1. \A d \in 1..m : \A c \in 1..(d - 1) : open[c].from < open[d].from /\ c \in 1..m
        BY <1>1 DEF Shape, FramesFit
      <3> QED BY <3>1, <1>10
    <2> HIDE DEF m
    <2> QED BY <1>9, <2>1, <2>2, <2>3, <2>4 DEF Shape, FramesFit
  <1>16. ASSUME does = "break" \/ open[loop].does # "condition",
                NEW notes, Annotates(notes, code, open, flow)
         PROVE  \E more : Annotates(more, code', open', flow')
    <2> DEFINE note == NoteOf(flow', here)
    <2>1. notes[n + 1] = NoteOf(flow, here)
      BY <1>16 DEF Annotates, here
    <2>2. note \in Note
      BY <1>1, <1>5, UnreachableFlow, NoteFacts
    <2>3. \A i \in 1..n : \A j : ~NewWay(code, p, i, j)
      BY <1>6 DEF NewWay
    <2>4. Leads(code', n + 1) = {}
      <3>1. PartsFit(code) /\ PartFits(Append(code, p), Len(code) + 1)
        BY <1>5, <1>14 DEF Shape
      <3> QED BY <3>1, <1>1, <1>2, <1>5, <1>6, <1>16, NewLeads
    <2>5. PartOK(code', p, notes[n + 1])
      <3>1. \A L \in Locals : L \subseteq scopes \/ L \cap scopes = {}
        BY <1>1, ScopesHoldLocals DEF Shape, scopes
      <3> QED BY <3>1, <1>6 DEF PartOK
    <2>6. note = NoteOf(flow', Outside(open', Len(open') + 1))
      BY <1>11
    <2> HIDE DEF note
    <2>7. PICK more : /\ Extends(more, notes, code, p, note)
                      /\ (\A d \in 1..Len(open') : FrameOK(code', more, open'[d], Outside(open', d)))
                            => Annotates(more, code', open', flow')
      <3>1. PartsFit(code) /\ PartOK(code', p, notes[Len(code) + 1]) /\ PartFits(Append(code, p), Len(code) + 1)
        BY <1>5, <1>14, <2>5 DEF Shape
      <3> QED BY <3>1, <1>1, <1>5, <1>6, <1>16, <2>2, <2>3, <2>4, <2>6, AnnotationGrows
    <2>8. ASSUME NEW d \in 1..m, d # loop
          PROVE  FrameOK(code', more, open'[d], Outside(open', d))
      <3>1. open[d].from # from
        <4>1. CASE d < loop
          <5>1. d \in 1..(loop - 1)
            BY <4>1, <1>1
          <5>2. open[d].from < open[loop].from
            BY <5>1, <1>1 DEF Shape, FramesFit
          <5> QED BY <5>2, <1>1
        <4>2. CASE loop < d
          <5>1. loop \in 1..(d - 1)
            BY <4>2, <1>1
          <5>2. open[loop].from < open[d].from
            BY <5>1, <1>1 DEF Shape, FramesFit
          <5> QED BY <5>2, <1>1
        <4> QED BY <4>1, <4>2, <2>8, <1>1
      <3>2. FrameOK(code, notes, open[d], Outside(open, d))
        BY <1>16 DEF Annotates
      <3>3. open'[d] = open[d] /\ Outside(open', d) = Outside(open, d)
        BY <2>8, <1>9, <1>10
      <3> QED BY <3>1, <3>2, <3>3, <1>1, <1>5, <1>6, <2>7, FrameKept
    <2>9. FrameOK(code', more, frame, out)
      <3>1. \A i \in 1..(n + 1) : more[i] = notes[i]
        BY <2>7 DEF Extends, PointsOf
      <3>2. FrameOK(code, notes, open[loop], out)
        BY <1>1, <1>16 DEF Annotates, out
      <3>3. /\ more[from] = NoteOf(open[loop].entry, out)
            /\ code'[from].does \in LoopBegins => more[from + 1] = NoteOf(open[loop].entry, out)
        <4>1. from \in 1..(n + 1) /\ from + 1 \in 1..(n + 1) /\ code'[from] = code[from]
          BY <1>1, <1>13
        <4>2. more[from] = notes[from] /\ more[from + 1] = notes[from + 1]
          BY <3>1, <4>1
        <4> QED BY <4>1, <4>2, <3>2 DEF FrameOK
      <3>4. Brings(p, notes[n + 1], NoteOf(kept, out))
        <4>1. p.place = scopes /\ p.does \in Exits
          BY <1>6 DEF Exits
        <4> QED BY <4>1, <2>1, <1>3, <1>4 DEF Brings, Effect, NoteOf
      <3>5. ASSUME NEW i \in 1..(n + 1), code'[i].from = from
            PROVE  /\ code'[i].does \in {"else", "body"} => more[i] = NoteOf(frame.first, out)
                   /\ code'[i].does = "break" /\ more[i].reached =>
                        \E f \in frame.breaks : f.reachable /\ Brings(code'[i], more[i], NoteOf(f, out))
                   /\ code'[i].does = "continue" /\ more[i].reached /\ frame.does # "condition" =>
                        \E f \in frame.continues : f.reachable /\ Brings(code'[i], more[i], NoteOf(f, out))
        <4>1. CASE i = n + 1
          <5>1. code'[i] = p /\ more[i] = notes[n + 1]
            BY <4>1, <3>1, <1>1, <1>13
          <5>2. does = "break" => kept \in frame.breaks
            BY <1>7
          <5>3. does = "continue" => kept \in frame.continues
            BY <1>7
          <5> QED BY <5>1, <5>2, <5>3, <3>4, <1>4, <1>6
        <4>2. CASE i \in 1..n
          <5>1. code'[i] = code[i] /\ more[i] = notes[i] /\ code[i].from = from
            BY <4>2, <3>1, <3>5, <1>1, <1>13
          <5>2. /\ code[i].does \in {"else", "body"} => notes[i] = NoteOf(open[loop].first, out)
                /\ code[i].does = "break" /\ notes[i].reached =>
                     \E f \in open[loop].breaks : f.reachable /\ Brings(code[i], notes[i], NoteOf(f, out))
                /\ code[i].does = "continue" /\ notes[i].reached /\ open[loop].does # "condition" =>
                     \E f \in open[loop].continues :
                        f.reachable /\ Brings(code[i], notes[i], NoteOf(f, out))
            BY <4>2, <5>1, <3>2 DEF FrameOK
          <5>3. /\ open[loop].breaks \subseteq frame.breaks /\ open[loop].continues \subseteq frame.continues
                /\ frame.first = open[loop].first /\ frame.does = open[loop].does
            BY <1>7
          <5> QED BY <5>1, <5>2, <5>3
        <4> QED BY <4>1, <4>2, <1>1
      <3> QED BY <3>3, <3>5, <1>7, <1>13 DEF FrameOK
    <2>10. \A d \in 1..Len(open') : FrameOK(code', more, open'[d], Outside(open', d))
      <3>1. Outside(open', loop) = out
        BY <1>1, <1>10 DEF out
      <3> QED BY <3>1, <1>9, <2>8, <2>9
    <2> QED BY <2>7, <2>10
  <1> QED BY <1>12, <1>15, <1>16

-----------------------------------------------------------------------------
(* The actions of the analysis.                                            *)

\* An action of the analysis that does not refuse the body reads one part of
\* it, and the notes of the body grow with it.
Reads ==
    /\ verdict' = "reading"
    /\ FlowTypeOK' /\ Shape(code', open')
    /\ \E p \in PartType : code' = Append(code, p)
    /\ ResumesCondition' \/ \A notes : Annotates(notes, code, open, flow) =>
                               \E more : Annotates(more, code', open', flow')

LEMMA PartTyped ==
    ASSUME NEW does \in Begins \cup Members \cup Plain, NEW place \in SUBSET Leaves, NEW from \in Nat
    PROVE  Part(does, place, from) \in PartType
  <1>1. "none" \in Kinds
    BY DEF Kinds
  <1>2. [does |-> does, place |-> place, from |-> from, kind |-> "none", whole |-> FALSE] \in PartType
    BY <1>1 DEF PartType
  <1> QED BY <1>2 DEF Part

LEMMA BeginsRead ==
    ASSUME FlowTypeOK, Shape(code, open),
           (\E local \in Inner : BeginBlock(local)) \/ BeginIf \/ BeginWhile \/ BeginDo \/ BeginLoop
    PROVE  Reads
  <1>1. PICK does, local, k :
           /\ does \in Begins /\ Begin(does, local, k)
           /\ IF does = "block" THEN local \in Inner /\ local \cap Outside(open, Len(open) + 1) = {}
                                ELSE local = {}
    <2>1. ASSUME NEW local \in Inner, BeginBlock(local)
          PROVE  Begin("block", local, 2) /\ local \cap Outside(open, Len(open) + 1) = {}
      <3>1. local \in Locals
        BY OwnershipAssumption
      <3>2. local \cap DeclaredFrom(1) = {}
        BY <2>1, <3>1, ScopesHoldLocals DEF BeginBlock, Shape
      <3>3. local \cap Parameters = {}
        BY <3>1, OwnershipAssumption DEF Parameters
      <3>4. Outside(open, Len(open) + 1) = Parameters \cup DeclaredFrom(1)
        <4>1. Outside(open, Len(open) + 1) = Outside(open, 1) \cup DeclaredFrom(1)
          BY InnerDeclared DEF FlowTypeOK
        <4> QED BY <4>1, OutsideFacts
      <3> QED BY <2>1, <3>2, <3>3, <3>4 DEF BeginBlock
    <2>2. CASE \E local \in Inner : BeginBlock(local)
      BY <2>1, <2>2 DEF Begins
    <2>3. CASE BeginIf
      BY <2>3 DEF BeginIf, Begins
    <2>4. CASE BeginWhile
      BY <2>4 DEF BeginWhile, Begins, LoopBegins
    <2>5. CASE BeginDo
      BY <2>5 DEF BeginDo, Begins, LoopBegins
    <2>6. CASE BeginLoop
      BY <2>6 DEF BeginLoop, Begins, LoopBegins
    <2> QED BY <2>2, <2>3, <2>4, <2>5, <2>6
  <1>2. /\ FlowTypeOK' /\ Shape(code', open')
        /\ \A notes : Annotates(notes, code, open, flow) =>
              \E more : Annotates(more, code', open', flow')
    BY <1>1, BeginStep
  <1>3. verdict' = "reading" /\ code' = Append(code, Part(does, local, Here))
    BY <1>1 DEF Begin, CanRead, Read
  <1>4. Part(does, local, Here) \in PartType
    <2>1. local \in SUBSET Leaves
      BY <1>1, LeavesAreLocals, OwnershipAssumption
    <2>2. Here \in Nat
      BY DEF Here, FlowTypeOK
    <2>3. does \in Begins \cup Members \cup Plain
      BY <1>1
    <2> QED BY <2>1, <2>2, <2>3, PartTyped
  <1> QED BY <1>2, <1>3, <1>4 DEF Reads

LEMMA GoesOnRead ==
    ASSUME FlowTypeOK, Shape(code, open), ReadElse \/ ReadBody \/ ReadCondition
    PROVE  Reads
  <1> DEFINE out == Outside(open, Len(open))
  <1>0. verdict = "reading" /\ open # << >>
    BY DEF ReadElse, ReadBody, ReadCondition, Within
  <1>1. /\ FrameIn(Top, out) /\ FlowIn(flow, out \cup Top.local) /\ Top.from \in Nat
        /\ FrameFits(code, open, Len(open)) /\ Top = open[Len(open)]
    <2>1. /\ FrameIn(Top, out) /\ FlowIn(flow, Outside(open, Len(open) + 1))
          /\ Outside(open, Len(open) + 1) = out \cup Top.local
          /\ FrameFits(code, open, Len(open)) /\ Top = open[Len(open)]
          /\ Top.from \in 1..Len(code) /\ Len(code) \in Nat
      BY <1>0, TopFacts
    <2>2. Top.from \in Nat
      BY <2>1
    <2> QED BY <2>1, <2>2, Zenon
  <1>2. PICK does, next : /\ Within(does) /\ Go_on(next)
                          /\ \/ does = "if" /\ next = "else" /\ flow' = Top.entry
                             \/ does = "while" /\ next = "body" /\ flow' = flow
                             \/ /\ does = "do" /\ next = "condition"
                                /\ flow' = Join(Top.continues \cup {flow})
    BY DEF ReadElse, ReadBody, ReadCondition
  <1>3. does = "do" => /\ flow' \in Flow /\ Inhabited(flow') /\ Gone(flow') \subseteq out
                       /\ \A f \in Top.continues \cup {flow} : f.reachable =>
                             flow'.reachable /\ Gone(f) \subseteq Gone(flow')
    <2> SUFFICES ASSUME does = "do"
                 PROVE  /\ flow' \in Flow /\ Inhabited(flow') /\ Gone(flow') \subseteq out
                        /\ \A f \in Top.continues \cup {flow} : f.reachable =>
                              flow'.reachable /\ Gone(f) \subseteq Gone(flow')
      OBVIOUS
    <2>1. Top.local = {}
      BY <1>1, <1>2 DEF Within, FrameFits
    <2>2. \A f \in Top.continues \cup {flow} : f \in Flow /\ Inhabited(f) /\ Gone(f) \subseteq out
      BY <1>1, <2>1 DEF FrameIn, FlowIn
    <2>3. flow' = Join(Top.continues \cup {flow})
      BY <1>2
    <2> HIDE DEF out
    <2>4. /\ Join(Top.continues \cup {flow}) \in Flow /\ Inhabited(Join(Top.continues \cup {flow}))
          /\ \A f \in Top.continues \cup {flow} : f.reachable =>
                /\ Join(Top.continues \cup {flow}).reachable
                /\ Gone(f) \subseteq Gone(Join(Top.continues \cup {flow}))
          /\ Gone(Join(Top.continues \cup {flow})) \subseteq out
      BY <2>2, JoinFlow
    <2> QED BY <2>3, <2>4
  <1>4. /\ FlowTypeOK' /\ Shape(code', open')
        /\ \A notes : Annotates(notes, code, open, flow) =>
              \E more : Annotates(more, code', open', flow')
    BY <1>2, <1>3, GoOnStep
  <1>5. verdict' = "reading" /\ code' = Append(code, Part(next, {}, Top.from))
    BY <1>0, <1>2 DEF Go_on, Read
  <1>6. Part(next, {}, Top.from) \in PartType
    <2>1. next \in Begins \cup Members \cup Plain
      BY <1>2 DEF Members
    <2>2. {} \in SUBSET Leaves
      OBVIOUS
    <2> QED BY <1>1, <2>1, <2>2, PartTyped
  <1> QED BY <1>4, <1>5, <1>6 DEF Reads

\* A back edge that carries no move out of a loop.
LEMMA NotCarried ==
    ASSUME NEW entry \in Flow, NEW f \in Flow, ~Carried(entry, f), f.reachable, entry.reachable
    PROVE  Covers(f, entry)
  <1>1. ASSUME NEW g \in Flow, NEW L \in Locals
        PROVE  UNION UNION Projected(g, L) = Gone(g) \cap L
    <2> DEFINE parts == {{key \in alternative : key \subseteq L} : alternative \in g.uninitialized}
    <2>1. g.uninitialized \in SUBSET SUBSET Places
      BY DEF Flow
    <2>2. parts \in SUBSET SUBSET Places
      <3>1. \A alternative \in g.uninitialized :
               {key \in alternative : key \subseteq L} \in SUBSET Places
        BY <2>1
      <3> QED BY <3>1
    <2>3. UNION Normalize(parts) = UNION parts
      BY <2>2, NormalizeKeeps
    <2>4. UNION parts = {key \in Missing(g) : key \subseteq L}
      BY DEF Missing
    <2>5. Missing(g) \subseteq Places
      BY <2>1 DEF Missing
    <2>6. UNION {key \in Missing(g) : key \subseteq L} = Gone(g) \cap L
      BY <2>5, InOneLocal DEF Gone
    <2> QED BY <2>3, <2>4, <2>6 DEF Projected
  <1>2. ASSUME NEW L \in Locals
        PROVE  Gone(f) \cap L \subseteq Gone(entry)
    <2>1. /\ UNION UNION Projected(f, L) = Gone(f) \cap L
          /\ UNION UNION Projected(entry, L) = Gone(entry) \cap L
      BY <1>1
    <2>2. Projected(f, L) = Projected(entry, L) \/ Projected(f, L) = {{}}
      BY DEF Carried
    <2> QED BY <2>1, <2>2
  <1>3. Gone(f) \subseteq Leaves
    <2>1. Missing(f) \subseteq Places
      BY DEF Missing, Flow
    <2> QED BY <2>1, LeavesAreLocals DEF Gone
  <1>4. Gone(f) \subseteq Gone(entry)
    BY <1>2, <1>3 DEF Leaves
  <1> QED BY <1>4 DEF Covers

LEMMA EndsRead ==
    ASSUME FlowTypeOK, Shape(code, open),
           EndBlock \/ EndIf \/ EndWhile \/ EndDo \/ EndOfLoop, verdict' # "refused"
    PROVE  Reads
  <1> DEFINE out == Outside(open, Len(open))
             local == Top.local
  <1>0. verdict = "reading" /\ open # << >>
    BY DEF EndBlock, EndIf, EndWhile, EndDo, EndOfLoop, Within
  <1>1. /\ FrameIn(Top, out) /\ FlowIn(flow, out \cup local) /\ Top.from \in Nat
        /\ FrameFits(code, open, Len(open)) /\ Top = open[Len(open)] /\ Top \in FrameType
        /\ out \in SUBSET Leaves
    <2>1. /\ FrameIn(Top, out) /\ FlowIn(flow, Outside(open, Len(open) + 1))
          /\ Outside(open, Len(open) + 1) = out \cup local
          /\ FrameFits(code, open, Len(open)) /\ Top = open[Len(open)] /\ Top \in FrameType
          /\ Top.from \in 1..Len(code) /\ Len(code) \in Nat /\ out \in SUBSET Leaves
      BY <1>0, TopFacts
    <2>2. Top.from \in Nat
      BY <2>1
    <2> QED BY <2>1, <2>2, Zenon
  <1>2. Top.does # "block" => local = {} /\ FlowIn(flow, out)
    <2>1. Top.does # "block" => local = {}
      BY <1>1 DEF FrameFits
    <2> QED BY <2>1, <1>1
  <1>3. /\ FlowIn(Top.entry, out) /\ FlowIn(Top.first, out) /\ Top.entry.reachable
        /\ \A f \in Top.breaks \cup Top.continues : FlowIn(f, out)
    BY <1>1 DEF FrameIn
  <1> HIDE DEF out, local
  <1>4. ASSUME NEW flows, \A f \in flows : FlowIn(f, out)
        PROVE  FlowIn(Join(flows), out) /\ \A f \in flows : Covers(f, Join(flows))
    <2>1. \A f \in flows : f \in Flow /\ Inhabited(f) /\ Gone(f) \subseteq out
      BY <1>4 DEF FlowIn
    <2>2. /\ Join(flows) \in Flow /\ Inhabited(Join(flows))
          /\ \A f \in flows : f.reachable =>
                Join(flows).reachable /\ Gone(f) \subseteq Gone(Join(flows))
          /\ Gone(Join(flows)) \subseteq out
      BY <2>1, JoinFlow
    <2> QED BY <2>2 DEF FlowIn, Covers
  <1>5. ASSUME Top.does # "block", NEW exits, EndLoop(exits)
        PROVE  /\ Close("end") /\ flow' = Join(exits)
               /\ \A f \in Top.continues \cup {flow} : Covers(f, Top.entry)
    <2>1. /\ Close("end") /\ flow' = Join(exits)
          /\ \A f \in BackEdges : ~Carried(Top.entry, f)
      BY <1>5 DEF EndLoop, Refuse
    <2>2. ASSUME NEW f \in Top.continues \cup {flow}
          PROVE  Covers(f, Top.entry)
      <3>1. f \in Flow /\ Top.entry \in Flow
        BY <1>2, <1>3, <1>5 DEF FlowIn
      <3>2. CASE f.reachable
        <4>1. f \in BackEdges
          BY <3>2 DEF BackEdges
        <4> QED BY <2>1, <3>1, <3>2, <4>1, <1>3, NotCarried
      <3>3. CASE ~f.reachable
        BY <3>3 DEF Covers
      <3> QED BY <3>2, <3>3
    <2> QED BY <2>1, <2>2
  <1>6. /\ Close("end") /\ Top.does \notin {"while", "do"} /\ FlowIn(flow', out)
        /\ Top.does \notin {"body", "loop"} /\ flow.reachable =>
              flow'.reachable /\ Gone(flow) \ local \subseteq Gone(flow')
        /\ Top.does = "if" => Covers(Top.entry, flow')
        /\ Top.does \in {"else", "body"} => Covers(Top.first, flow')
        /\ Top.does \in {"body", "condition", "loop"} =>
              /\ \A f \in Top.breaks : Covers(f, flow')
              /\ \A f \in Top.continues \cup {flow} : Covers(f, Top.entry)
    <2>1. CASE EndBlock
      <3>1. Top.does = "block" /\ Close("end") /\ flow' = Without(flow, local)
        BY <2>1 DEF EndBlock, Within, local
      <3>2. flow \in Flow /\ Inhabited(flow) /\ Gone(flow) \subseteq out \cup local
        BY <1>1 DEF FlowIn, local
      <3>3. local \in Locals
        BY <1>1, <3>1, OwnershipAssumption DEF FrameFits, local
      <3>4. \A key \in Places : key \subseteq local \/ key \cap local = {}
        BY <3>3, InOneLocal
      <3>5. /\ flow' \in Flow /\ Inhabited(flow') /\ flow'.reachable = flow.reachable
            /\ Gone(flow') = Gone(flow) \ local
        BY <3>1, <3>2, <3>4, WithoutFlow
      <3>6. FlowIn(flow', out)
        BY <3>2, <3>5 DEF FlowIn
      <3> QED BY <3>1, <3>5, <3>6
    <2>2. CASE Within("if") /\ Close("end") /\ flow' = Join({flow, Top.entry})
      <3>1. Top.does = "if" /\ Close("end") /\ flow' = Join({flow, Top.entry})
        BY <2>2 DEF Within
      <3>2. FlowIn(flow', out) /\ Covers(flow, flow') /\ Covers(Top.entry, flow')
        BY <3>1, <1>2, <1>3, <1>4
      <3> QED BY <3>1, <3>2 DEF Covers
    <2>3. CASE Within("else") /\ Close("end") /\ flow' = Join({Top.first, flow})
      <3>1. Top.does = "else" /\ Close("end") /\ flow' = Join({Top.first, flow})
        BY <2>3 DEF Within
      <3>2. FlowIn(flow', out) /\ Covers(flow, flow') /\ Covers(Top.first, flow')
        BY <3>1, <1>2, <1>3, <1>4
      <3> QED BY <3>1, <3>2 DEF Covers
    <2>4. CASE EndWhile
      <3> DEFINE exits == Top.breaks \cup {Top.first} \cup BackEdges
      <3>1. Top.does = "body" /\ EndLoop(exits)
        BY <2>4 DEF EndWhile, Within
      <3>2. \A f \in exits : FlowIn(f, out)
        BY <3>1, <1>2, <1>3 DEF BackEdges
      <3> HIDE DEF exits
      <3>3. /\ Close("end") /\ FlowIn(flow', out) /\ \A f \in exits : Covers(f, flow')
            /\ \A f \in Top.continues \cup {flow} : Covers(f, Top.entry)
        BY <3>1, <3>2, <1>4, <1>5
      <3> QED BY <3>1, <3>3 DEF exits
    <2>5. CASE EndDo
      <3> DEFINE exits == Top.breaks \cup {flow} \cup BackEdges
      <3>1. Top.does = "condition" /\ EndLoop(exits)
        BY <2>5 DEF EndDo, Within
      <3>2. \A f \in exits : FlowIn(f, out)
        BY <3>1, <1>2, <1>3 DEF BackEdges
      <3>3. flow \in exits /\ Top.breaks \subseteq exits
        OBVIOUS
      <3> HIDE DEF exits
      <3>4. /\ Close("end") /\ FlowIn(flow', out) /\ \A f \in exits : Covers(f, flow')
            /\ \A f \in Top.continues \cup {flow} : Covers(f, Top.entry)
        BY <3>1, <3>2, <1>4, <1>5
      <3>5. flow.reachable => flow'.reachable /\ Gone(flow) \subseteq Gone(flow')
        BY <3>3, <3>4 DEF Covers
      <3> QED BY <3>1, <3>3, <3>4, <3>5
    <2>6. CASE EndOfLoop
      <3>1. Top.does = "loop" /\ EndLoop(Top.breaks)
        BY <2>6 DEF EndOfLoop, Within
      <3>2. \A f \in Top.breaks : FlowIn(f, out)
        BY <1>3
      <3>3. /\ Close("end") /\ FlowIn(flow', out) /\ \A f \in Top.breaks : Covers(f, flow')
            /\ \A f \in Top.continues \cup {flow} : Covers(f, Top.entry)
        BY <3>1, <3>2, <1>4, <1>5
      <3> QED BY <3>1, <3>3
    <2> QED BY <2>1, <2>2, <2>3, <2>4, <2>5, <2>6 DEF EndIf
  <1>7. /\ FlowTypeOK' /\ Shape(code', open')
        /\ \A notes : Annotates(notes, code, open, flow) =>
              \E more : Annotates(more, code', open', flow')
    BY <1>0, <1>6, EndStep DEF out, local
  <1>8. verdict' = "reading" /\ code' = Append(code, Part("end", Top.local, Top.from))
    BY <1>0, <1>6 DEF Close, Read
  <1>9. Part("end", Top.local, Top.from) \in PartType
    <2>1. Top.local \in SUBSET Leaves
      BY <1>1 DEF FrameType
    <2> QED BY <2>1, <1>1, PartTyped DEF Members
  <1> QED BY <1>7, <1>8, <1>9 DEF Reads

LEMMA JumpsRead ==
    ASSUME FlowTypeOK, Shape(code, open), LowerBreak \/ LowerContinue, verdict' # "refused"
    PROVE  Reads
  <1>1. PICK does \in {"break", "continue"}, loop \in Enclosing :
           /\ Leave(does, loop) /\ open' = [open EXCEPT ![loop] = Brought(does, loop)]
    <2>1. CASE LowerBreak
      <3>1. PICK loop \in InnerLoop : /\ Leave("break", loop)
                                      /\ open' = [open EXCEPT ![loop].breaks = @ \cup {Kept(loop)}]
        BY <2>1 DEF LowerBreak, Refuse
      <3>2. loop \in Enclosing /\ open' = [open EXCEPT ![loop] = Brought("break", loop)]
        BY <3>1 DEF InnerLoop, Brought
      <3> QED BY <3>1, <3>2
    <2>2. CASE LowerContinue
      <3>1. PICK loop \in InnerLoop : /\ Leave("continue", loop)
                                      /\ open' = [open EXCEPT ![loop].continues = @ \cup {Kept(loop)}]
        BY <2>2 DEF LowerContinue, Refuse
      <3>2. loop \in Enclosing /\ open' = [open EXCEPT ![loop] = Brought("continue", loop)]
        BY <3>1 DEF InnerLoop, Brought
      <3> QED BY <3>1, <3>2
    <2> QED BY <2>1, <2>2
  <1>2. verdict = "reading" /\ flow.reachable
    BY DEF LowerBreak, LowerContinue, CanRead
  <1>3. /\ FlowTypeOK' /\ Shape(code', open')
        /\ does = "break" \/ open[loop].does # "condition" =>
             \A notes : Annotates(notes, code, open, flow) =>
                \E more : Annotates(more, code', open', flow')
    BY <1>1, <1>2, JumpStep
  <1> DEFINE p == Part(does, DeclaredFrom(loop + 1), open[loop].from)
  <1>4. verdict' = "reading" /\ code' = Append(code, p)
    BY <1>1, <1>2 DEF Leave, Read
  <1>5. /\ loop \in 1..Len(open) /\ open[loop].from \in 1..Len(code) /\ Len(code) \in Nat
        /\ FrameFits(code, open, loop) /\ code \in Seq(PartType)
    BY DEF Enclosing, Shape, FramesFit, FrameFits, FlowTypeOK
  <1>6. p \in PartType
    <2>1. \A d \in 1..Len(open) : open[d].local \in SUBSET Leaves
      BY OutsideLeaves DEF FrameType
    <2>2. DeclaredFrom(loop + 1) \in SUBSET Leaves
      <3>1. \A d \in (loop + 1)..Len(open) : open[d].local \in SUBSET Leaves
        BY <2>1, <1>5
      <3> QED BY <3>1 DEF DeclaredFrom
    <2>3. does \in Begins \cup Members \cup Plain
      BY <1>1 DEF Members
    <2>4. open[loop].from \in Nat
      BY <1>5
    <2> QED BY <2>2, <2>3, <2>4, PartTyped
  <1>7. does = "continue" /\ open[loop].does = "condition" => ResumesCondition'
    <2> SUFFICES ASSUME does = "continue", open[loop].does = "condition"
                 PROVE  ResumesCondition'
      OBVIOUS
    <2>1. PICK c \in 1..Len(code) : code[c].from = open[loop].from /\ code[c].does = "condition"
      BY <1>5 DEF FrameFits, Has, IsPart
    <2>2. p.does = "continue" /\ p.from = open[loop].from
      BY DEF Part
    <2> HIDE DEF p
    <2>3. /\ Len(code') = Len(code) + 1 /\ code'[Len(code) + 1] = p /\ code'[c] = code[c]
      BY <1>4, <1>5, <1>6
    <2>4. c \in 1..Len(code') /\ Len(code) + 1 \in 1..Len(code') /\ c < Len(code) + 1
      BY <2>3, <1>5
    <2> QED BY <2>1, <2>2, <2>3, <2>4 DEF ResumesCondition
  <1> QED BY <1>1, <1>3, <1>4, <1>6, <1>7 DEF Reads

LEMMA LowerReads ==
    ASSUME FlowTypeOK, Shape(code, open), Moved, Lower, verdict' # "refused"
    PROVE  Reads
  <1>1. CASE LowerPlain
    <2>1. /\ FlowTypeOK' /\ Shape(code', open')
          /\ \A notes : Annotates(notes, code, open, flow) =>
                \E more : Annotates(more, code', open', flow')
      BY <1>1, PlainStep
    <2>2. \E p \in PartType : code' = Append(code, p)
      BY <1>1, PlainRead DEF Shape
    <2>3. verdict' = "reading"
      BY <1>1 DEF LowerPlain, LowerUse, LowerMove, LowerAssign, LowerReturn, CanRead, Read, Refuse
    <2> QED BY <2>1, <2>2, <2>3 DEF Reads
  <1> QED BY <1>1, BeginsRead, GoesOnRead, EndsRead, JumpsRead DEF Lower, LowerPlain

\* All that is missing in the flows of a frame; nothing is missing, here or in
\* any frame, that has not been moved by what has been read.
MissingIn(frame) == Missing(frame.entry) \cup Missing(frame.first)
                    \cup UNION {Missing(f) : f \in frame.breaks \cup frame.continues}
AllMoved == Moved /\ \A d \in 1..Len(open) : MissingIn(open[d]) \subseteq MovedKeys(code)

LEMMA MovedStays ==
    ASSUME FlowTypeOK, Shape(code, open), AllMoved, Lower, verdict' # "refused",
           NEW p \in PartType, code' = Append(code, p)
    PROVE  AllMoved'
  <1> DEFINE keys == MovedKeys(code)
             Held(f) == f \in Flow /\ Inhabited(f) /\ Missing(f) \subseteq keys
             m == Len(open)
  <1>1. /\ code \in Seq(PartType) /\ open \in Seq(FrameType) /\ m \in Nat /\ Held(flow)
        /\ \A d \in 1..m : /\ Held(open[d].entry) /\ Held(open[d].first)
                           /\ \A f \in open[d].breaks \cup open[d].continues : Held(f)
                           /\ MissingIn(open[d]) \subseteq keys
    BY DEF FlowTypeOK, FlowIn, FrameIn, AllMoved, Moved, MissingIn
  <1>2. keys \subseteq MovedKeys(code')
    BY <1>1, MovedGrows
  <1> HIDE DEF keys
  <1>3. ASSUME Missing(flow') \subseteq MovedKeys(code'),
               \A d \in 1..Len(open') : MissingIn(open'[d]) \subseteq keys
        PROVE  AllMoved'
    BY <1>2, <1>3 DEF AllMoved, Moved
  <1>4. ASSUME NEW flows, \A f \in flows : Held(f)
        PROVE  Missing(Join(flows)) \subseteq keys
    BY <1>4, JoinFlow
  <1>5. CASE LowerPlain
    <2>1. open' = open
      BY <1>5 DEF LowerPlain, LowerUse, LowerMove, LowerAssign, LowerReturn, Refuse
    <2>2. ASSUME NEW place \in Visible(Inspected), LowerUse(place)
          PROVE  Missing(flow') \subseteq MovedKeys(code')
      <3>1. flow' = flow
        BY <2>2 DEF LowerUse, Refuse
      <3> QED BY <3>1, <1>1, <1>2
    <2>3. ASSUME NEW place \in Visible(Named), LowerMove(place)
          PROVE  Missing(flow') \subseteq MovedKeys(code')
      <3> DEFINE q == Part("move", place, 0)
      <3>1. /\ code' = Append(code, q) /\ flow.reachable
            /\ flow' = Reachable(Normalize({alternative \cup Keys(place) :
                                               alternative \in flow.uninitialized}))
        BY <2>3 DEF LowerMove, Read, Refuse, CanRead
      <3>2. /\ FlowIn(flow, Outside(open, m + 1)) /\ place \in Places /\ place \in SUBSET Leaves
            /\ place \subseteq Outside(open, m + 1)
        BY VisibleFacts, OwnershipAssumption DEF FlowTypeOK, Shape
      <3>3. Missing(flow') = Missing(flow) \cup Keys(place)
        BY <3>1, <3>2, FlowMoved
      <3>4. q \in PartType /\ q.does = "move" /\ q.place = place
        <4>1. "move" \in Begins \cup Members \cup Plain
          BY DEF Plain
        <4> QED BY <3>2, <4>1, PartTyped DEF Part
      <3> HIDE DEF q
      <3>5. Keys(place) \subseteq MovedKeys(code')
        BY <1>1, <3>1, <3>4, MovedGrows
      <3> QED BY <3>3, <3>5, <1>1, <1>2
    <2>4. ASSUME NEW place \in Visible(Named), LowerAssign(place)
          PROVE  Missing(flow') \subseteq MovedKeys(code')
      <3>1. /\ flow.reachable
            /\ flow' = Reachable(Normalize({alternative \ Keys(place) :
                                               alternative \in flow.uninitialized}))
        BY <2>4 DEF LowerAssign, CanRead
      <3>2. FlowIn(flow, Outside(open, m + 1)) /\ place \in Places
        BY VisibleFacts, OwnershipAssumption DEF FlowTypeOK, Shape
      <3>3. Missing(flow') = Missing(flow) \ Keys(place)
        BY <3>1, <3>2, FlowAssigned
      <3> QED BY <3>3, <1>1, <1>2
    <2>5. ASSUME LowerReturn
          PROVE  Missing(flow') \subseteq MovedKeys(code')
      BY <2>5, UnreachableFlow DEF LowerReturn
    <2>6. Missing(flow') \subseteq MovedKeys(code')
      BY <2>2, <2>3, <2>4, <2>5, <1>5 DEF LowerPlain
    <2>7. \A d \in 1..Len(open') : MissingIn(open'[d]) \subseteq keys
      BY <2>1, <1>1
    <2> QED BY <2>6, <2>7, <1>3
  <1>6. ASSUME NEW does, NEW local, NEW k, Begin(does, local, k)
        PROVE  AllMoved'
    <2> DEFINE frame == [does |-> does, local |-> local, from |-> Here, entry |-> flow,
                         first |-> Unreachable, breaks |-> {}, continues |-> {}]
    <2>1. open' = Append(open, frame) /\ flow' = flow
      BY <1>6 DEF Begin
    <2>2. MissingIn(frame) \subseteq keys
      BY <1>1, UnreachableFlow DEF MissingIn
    <2> HIDE DEF frame
    <2>3. ASSUME NEW d \in 1..Len(open')
          PROVE  MissingIn(open'[d]) \subseteq keys
      <3>1. CASE d = m + 1
        BY <3>1, <2>1, <2>2, <1>1
      <3>2. CASE d # m + 1
        <4>1. d \in 1..m /\ open'[d] = open[d]
          BY <3>2, <2>1, <1>1
        <4> QED BY <4>1, <1>1
      <3> QED BY <3>1, <3>2
    <2> QED BY <2>1, <2>3, <1>1, <1>2, <1>3
  <1>7. CASE ReadElse \/ ReadBody \/ ReadCondition
    <2>1. PICK next : Go_on(next)
      BY <1>7 DEF ReadElse, ReadBody, ReadCondition
    <2>2. open # << >>
      BY <1>7 DEF ReadElse, ReadBody, ReadCondition, Within
    <2>3. m \in 1..m /\ Top = open[m]
      BY <2>2, <1>1 DEF Top
    <2>4. flow' = Top.entry \/ flow' = flow \/ flow' = Join(Top.continues \cup {flow})
      BY <1>7 DEF ReadElse, ReadBody, ReadCondition
    <2>5. Missing(flow') \subseteq keys
      BY <2>3, <2>4, <1>1, <1>4
    <2> DEFINE frame == [Top EXCEPT !.does = next, !.first = flow]
    <2>6. open' = [open EXCEPT ![m] = frame]
      BY <2>1 DEF Go_on
    <2>7. /\ frame.entry = Top.entry /\ frame.first = flow
          /\ frame.breaks = Top.breaks /\ frame.continues = Top.continues
      <3>1. Top \in FrameType
        BY <2>3, <1>1
      <3> QED BY <3>1 DEF FrameType
    <2> HIDE DEF frame
    <2>8. MissingIn(frame) \subseteq keys
      BY <2>3, <2>7, <1>1 DEF MissingIn
    <2>9. ASSUME NEW d \in 1..Len(open')
          PROVE  MissingIn(open'[d]) \subseteq keys
      <3>1. d \in 1..m /\ open'[d] = IF d = m THEN frame ELSE open[d]
        BY <2>6, <1>1
      <3> QED BY <3>1, <2>8, <1>1
    <2> QED BY <2>5, <2>9, <1>2, <1>3
  <1>8. CASE EndBlock \/ EndIf \/ EndWhile \/ EndDo \/ EndOfLoop
    <2>1. open # << >>
      BY <1>8 DEF EndBlock, EndIf, EndWhile, EndDo, EndOfLoop, Within
    <2>2. m \in 1..m /\ Top = open[m]
      BY <2>1, <1>1 DEF Top
    <2>3. Close("end")
      BY <1>8 DEF EndBlock, EndIf, EndWhile, EndDo, EndOfLoop, EndLoop, Refuse
    <2>4. \/ flow' = Without(flow, Top.local)
          \/ flow' = Join({flow, Top.entry})
          \/ flow' = Join({Top.first, flow})
          \/ flow' = Join(Top.breaks \cup {Top.first} \cup BackEdges)
          \/ flow' = Join(Top.breaks \cup {flow} \cup BackEdges)
          \/ flow' = Join(Top.breaks)
      BY <1>8 DEF EndBlock, EndIf, EndWhile, EndDo, EndOfLoop, EndLoop, Refuse
    <2>5. BackEdges \subseteq Top.continues \cup {flow}
      BY DEF BackEdges
    <2>6. Missing(Without(flow, Top.local)) \subseteq keys
      BY <1>1, WithoutMissing
    <2>7. Missing(flow') \subseteq keys
      <3>1. /\ Held(flow) /\ Held(Top.entry) /\ Held(Top.first)
            /\ \A f \in Top.breaks \cup Top.continues : Held(f)
        BY <2>2, <1>1
      <3>2. \A f \in BackEdges : Held(f)
        BY <2>5, <3>1
      <3> HIDE DEF Held
      <3> QED BY <2>4, <2>6, <3>1, <3>2, <1>4
    <2>8. ASSUME NEW d \in 1..Len(open')
          PROVE  MissingIn(open'[d]) \subseteq keys
      <3>1. open' = SubSeq(open, 1, m - 1)
        BY <2>3 DEF Close
      <3>2. d \in 1..m /\ open'[d] = open[d]
        BY <3>1, <2>2, <1>1
      <3> QED BY <3>2, <1>1
    <2> QED BY <2>7, <2>8, <1>2, <1>3
  <1>9. CASE LowerBreak \/ LowerContinue
    <2>1. PICK loop \in Enclosing, does \in {"break", "continue"} :
             /\ open' = [open EXCEPT ![loop] = Brought(does, loop)]
             /\ flow' = Unreachable
      <3>1. CASE LowerBreak
        BY <3>1 DEF LowerBreak, Refuse, InnerLoop, Brought, Leave
      <3>2. CASE LowerContinue
        BY <3>2 DEF LowerContinue, Refuse, InnerLoop, Brought, Leave
      <3> QED BY <1>9, <3>1, <3>2
    <2> DEFINE frame == Brought(does, loop)
    <2>2. loop \in 1..m
      BY DEF Enclosing
    <2>3. Missing(Kept(loop)) \subseteq keys
      BY <1>1, WithoutMissing DEF Kept
    <2>4. /\ frame.entry = open[loop].entry /\ frame.first = open[loop].first
          /\ frame.breaks \cup frame.continues
                \subseteq open[loop].breaks \cup open[loop].continues \cup {Kept(loop)}
      <3>1. open[loop] \in FrameType
        BY <2>2, <1>1
      <3>2. CASE does = "break"
        BY <3>1, <3>2 DEF FrameType, Brought
      <3>3. CASE does = "continue"
        BY <3>1, <3>3 DEF FrameType, Brought
      <3> QED BY <3>2, <3>3
    <2>5. open' = [open EXCEPT ![loop] = frame]
      BY <2>1
    <2> HIDE DEF frame
    <2>6. MissingIn(frame) \subseteq keys
      BY <2>2, <2>3, <2>4, <1>1 DEF MissingIn
    <2>7. ASSUME NEW d \in 1..Len(open')
          PROVE  MissingIn(open'[d]) \subseteq keys
      <3>1. d \in 1..m /\ open'[d] = IF d = loop THEN frame ELSE open[d]
        BY <2>2, <2>5, <1>1
      <3> QED BY <3>1, <2>6, <1>1
    <2>8. Missing(flow') = {}
      BY <2>1, UnreachableFlow
    <2> QED BY <2>7, <2>8, <1>3
  <1>10. CASE (\E local \in Inner : BeginBlock(local)) \/ BeginIf \/ BeginWhile \/ BeginDo \/ BeginLoop
    BY <1>6, <1>10 DEF BeginBlock, BeginIf, BeginWhile, BeginDo, BeginLoop
  <1> QED BY <1>5, <1>7, <1>8, <1>9, <1>10 DEF Lower, LowerPlain

-----------------------------------------------------------------------------
(* The emitted code.                                                       *)

LEMMA PartsAreFound ==
    ASSUME NEW from, NEW does, Has(code, from, does)
    PROVE  PartAt(from, does) + 1 \in PastAll(code, from, does)
  BY DEF PartAt, Has, PastAll, IsPart

\* In a body that has been read control goes where its parts lead.
LEMMA Followed ==
    ASSUME code \in Seq(PartType), Shape(code, << >>), NEW i \in 1..Len(code)
    PROVE  Successors(i) \subseteq Leads(code, i) /\ Successors(i) \subseteq Points
  <1> DEFINE from == code[i].from
             does == code[i].does
  <1>1. ASSUME NEW k \in 1..Len(code), code[k].does \in Begins
        PROVE  Ended(code, k)
    <2>1. ~IsOpen(<< >>, k)
      BY DEF IsOpen
    <2> QED BY <2>1, <1>1 DEF Shape, Closed
  <1>2. PartFits(code, i) /\ ~(i > Len(code))
    BY DEF Shape, PartsFit
  <1>3. does \in Members => from \in 1..Len(code) /\ code[from].does \in Begins /\ Ended(code, from)
    <2>1. does \in Members => from \in 1..Len(code) /\ code[from].does \in Begins
      BY <1>2 DEF PartFits
    <2> QED BY <2>1, <1>1
  <1>4. does \in Members => Past(from) \in PastAll(code, from, "end")
    BY <1>3, PartsAreFound DEF Ended, Past
  <1>5. HasElse(i) <=> Has(code, i, "else")
    BY DEF HasElse, Has, IsPart
  <1>6. Successors(i) \subseteq Leads(code, i)
    <2>1. CASE does = "if"
      <3>1. Has(code, i, "else") => PartAt(i, "else") + 1 \in PastAll(code, i, "else")
        BY PartsAreFound
      <3>2. Past(i) \in PastAll(code, i, "end")
        BY <2>1, <1>1, PartsAreFound DEF Ended, Past, Begins
      <3>3. Successors(i) = {i + 1, IF HasElse(i) THEN PartAt(i, "else") + 1 ELSE Past(i)}
        BY <2>1, <1>2 DEF Successors
      <3> QED BY <2>1, <3>1, <3>2, <3>3, <1>5, LeadsAre
    <2>2. CASE does = "body"
      <3>1. Successors(i) = {i + 1, Past(from)}
        BY <2>2, <1>2 DEF Successors
      <3> QED BY <2>2, <3>1, <1>4, LeadsAre DEF Members
    <2>3. CASE does \in {"else", "break"}
      <3>1. Successors(i) = {Past(from)}
        BY <2>3, <1>2 DEF Successors
      <3> QED BY <2>3, <3>1, <1>4, LeadsAre DEF Members
    <2>4. CASE does = "continue"
      <3>1. Successors(i) = {Repeats(from)}
        BY <2>4, <1>2 DEF Successors
      <3>2. Ended(code, from)
        BY <2>4, <1>3 DEF Members
      <3>3. CASE code[from].does = "do"
        <4>1. Repeats(from) \in PastAll(code, from, "condition")
          BY <3>2, <3>3, PartsAreFound DEF Ended, Repeats
        <4> QED BY <2>4, <3>1, <3>3, <4>1, LeadsAre
      <3>4. CASE code[from].does # "do"
        <4>1. Repeats(from) = from + 1 /\ Has(code, from, "end")
          BY <3>2, <3>4 DEF Ended, Repeats
        <4> QED BY <2>4, <3>1, <3>4, <4>1, LeadsAre
      <3> QED BY <3>3, <3>4
    <2>5. CASE does = "end"
      <3>1. Successors(i) =
               (IF code[from].does \in {"while", "do", "loop"} THEN {from + 1} ELSE {})
               \cup (IF code[from].does \in {"while", "loop"} THEN {} ELSE {i + 1})
        BY <2>5, <1>2 DEF Successors
      <3> QED BY <2>5, <3>1, LeadsAre DEF LoopBegins
    <2>6. CASE does = "return"
      BY <2>6, <1>2 DEF Successors
    <2>7. CASE does \notin {"if", "body", "else", "break", "continue", "end", "return"}
      <3>1. Successors(i) = {i + 1}
        BY <2>7, <1>2 DEF Successors
      <3> QED BY <2>7, <3>1, LeadsAre
    <2> QED BY <2>1, <2>2, <2>3, <2>4, <2>5, <2>6, <2>7
  <1>7. Leads(code, i) \subseteq Points
    BY LeadsArePoints DEF Shape, Points, PointsOf
  <1> QED BY <1>6, <1>7

\* What a plan says of the leaves that hold a value: state is what it has
\* found to hold before a part, and after it for what follows.
Agrees(state, leaves) == state.reached /\ state.must \subseteq leaves /\ leaves \subseteq state.may

LEMMA AfterIs ==
    ASSUME NEW i \in 1..Len(code), NEW may, NEW must,
           NEW s, s = [reached |-> TRUE, may |-> may, must |-> must]
    PROVE  After(i, s) = [reached |-> TRUE, may |-> Effect(code[i], may),
                          must |-> Effect(code[i], must)]
  <1>1. s.reached /\ s.may = may /\ s.must = must /\ ~(i > Len(code))
    OBVIOUS
  <1>2. CASE code[i].does \in Exits \cup {"move"}
    <2>1. After(i, s) = [reached |-> TRUE, may |-> may \ code[i].place, must |-> must \ code[i].place]
      BY <1>1, <1>2 DEF After, Exits
    <2>2. \A leaves : Effect(code[i], leaves) = leaves \ code[i].place
      BY <1>2 DEF Effect
    <2> QED BY <2>1, <2>2
  <1>3. CASE code[i].does \in {"block", "assign"}
    <2>1. After(i, s) = [reached |-> TRUE,
                         may |-> may \cup code[i].place, must |-> must \cup code[i].place]
      BY <1>1, <1>3 DEF After, Exits
    <2>2. \A leaves : Effect(code[i], leaves) = leaves \cup code[i].place
      BY <1>3 DEF Effect, Exits
    <2> QED BY <2>1, <2>2
  <1>4. CASE code[i].does \notin Exits \cup {"move", "block", "assign"}
    <2>1. After(i, s) = s
      BY <1>1, <1>4 DEF After
    <2>2. \A leaves : Effect(code[i], leaves) = leaves
      BY <1>4 DEF Effect
    <2> QED BY <2>1, <2>2
  <1> QED BY <1>2, <1>3, <1>4

LEMMA PlanFollowed ==
    ASSUME NEW states, Settled(states), NEW i \in 1..Len(code), NEW j \in Successors(i), j \in Points,
           NEW leaves \in SUBSET Leaves, Agrees(states[i], leaves)
    PROVE  Agrees(states[j], Effect(code[i], leaves))
  <1> DEFINE Arriving(k) == {IF k = 1 THEN AtEntry ELSE Unreached} \cup
                            {After(h, states[h]) : h \in {g \in Points : k \in Successors(g)}}
  <1>1. ASSUME NEW k \in Points
        PROVE  states[k] = JoinStates(Arriving(k))
    BY <1>1 DEF Settled, Propagated
  <1>2. i \in Points /\ ~(i > Len(code))
    BY DEF Points
  <1>3. states[i].reached
    BY DEF Agrees
  <1>4. PICK may, must : states[i] = [reached |-> TRUE, may |-> may, must |-> must]
    <2>1. states[i] = JoinStates(Arriving(i))
      BY <1>1, <1>2
    <2> HIDE DEF Arriving
    <2> QED BY <2>1, <1>3 DEF JoinStates, Unreached
  <1> DEFINE after == After(i, states[i])
  <1>5. /\ after.reached
        /\ after.must \subseteq Effect(code[i], leaves)
        /\ Effect(code[i], leaves) \subseteq after.may
    <2>1. must \subseteq leaves /\ leaves \subseteq may /\ states[i].reached = TRUE
      BY <1>4 DEF Agrees
    <2>2. after.reached /\ after.may = Effect(code[i], may) /\ after.must = Effect(code[i], must)
      BY <1>4, AfterIs
    <2>3. Effect(code[i], must) \subseteq Effect(code[i], leaves)
          /\ Effect(code[i], leaves) \subseteq Effect(code[i], may)
      BY <2>1 DEF Effect
    <2> HIDE DEF after
    <2> QED BY <2>2, <2>3
  <1>6. states[j] = JoinStates(Arriving(j)) /\ after \in Arriving(j)
    BY <1>1, <1>2
  <1> HIDE DEF Arriving, after
  <1>7. states[j] = [reached |-> TRUE,
                     may |-> UNION {s.may : s \in {t \in Arriving(j) : t.reached}},
                     must |-> {l \in Leaves : \A s \in {t \in Arriving(j) : t.reached} : l \in s.must}]
    BY <1>5, <1>6 DEF JoinStates
  <1>8. after \in {t \in Arriving(j) : t.reached}
    BY <1>5, <1>6
  <1> QED BY <1>5, <1>7, <1>8 DEF Agrees

LEMMA SamePlan ==
    ASSUME code' = code
    PROVE  /\ Points' = Points
           /\ \A i \in Points : Successors(i)' = Successors(i)
           /\ \A states : (Settled(states) <=> Settled(states)') /\ (Verifies(states) <=> Verifies(states)')
           /\ ResumesCondition' <=> ResumesCondition
           /\ CompletesTuple' <=> CompletesTuple
  <1>1. Points' = Points
    BY DEF Points
  <1>2. \A from, does : PartAt(from, does)' = PartAt(from, does)
    BY DEF PartAt
  <1>3. \A i : HasElse(i)' <=> HasElse(i)
    BY DEF HasElse
  <1>4. ASSUME NEW i
        PROVE  Successors(i)' = Successors(i)
    <2>1. /\ \A from : Past(from)' = Past(from)
          /\ \A from : Repeats(from)' = Repeats(from)
      BY <1>2 DEF Past, Repeats
    <2> QED BY <1>2, <1>3, <2>1 DEF Successors
  <1>5. ASSUME NEW i, NEW s
        PROVE  After(i, s)' = After(i, s)
    BY DEF After
  <1>6. ASSUME NEW states
        PROVE  /\ Settled(states) <=> Settled(states)'
               /\ Verifies(states) <=> Verifies(states)'
    <2>1. Propagated(states)' = Propagated(states)
      BY <1>1, <1>4, <1>5 DEF Propagated
    <2> QED BY <2>1 DEF Settled, Verifies
  <1>7. ResumesCondition' <=> ResumesCondition
    BY DEF ResumesCondition
  <1>8. \A place : Unseen(code', place) = Unseen(code, place)
    OBVIOUS
  <1>9. CompletesTuple' <=> CompletesTuple
    BY <1>8 DEF CompletesTuple
  <1> QED BY <1>1, <1>4, <1>6, <1>7, <1>9

-----------------------------------------------------------------------------
\* The execution is where its notes say, and the plan, if it verifies, agrees.
\* The drop flags cover what holds a value, with no leaf left out.
Fits(note) == note.reached /\ note.sure \subseteq live /\ live \subseteq note.declared
Noted == \E notes : /\ Annotates(notes, code, open, flow)
                    /\ verdict = "accepted" => Fits(notes[pc])
Planned == \E states : Settled(states) /\ Verifies(states) /\ Agrees(states[pc], live)
FlagsFollow == /\ flags \subseteq Places
               /\ \A slot \in flags : slot \subseteq live
               /\ \A l \in live : {l} \in flags

OwnershipInv ==
    /\ verdict # "refused" => FlowTypeOK /\ Shape(code, open) /\ AllMoved
    /\ verdict # "refused" /\ ~ResumesCondition => Noted
    /\ verdict = "accepted" => open = << >> /\ pc \in Points /\ live \in SUBSET Leaves
    /\ verdict = "accepted" /\ verified => Planned
    /\ verdict = "accepted" /\ ~ResumesCondition /\ ~CompletesTuple => FlagsFollow

LEMMA InitInv == Init => OwnershipInv
  <1> SUFFICES ASSUME Init PROVE OwnershipInv
    OBVIOUS
  <1>1. code = << >> /\ open = << >> /\ flow = Reachable({{}}) /\ verdict = "reading"
    BY DEF Init, FlowInit
  <1>2. Len(code) = 0 /\ Len(open) = 0
    BY <1>1
  <1>3. Outside(open, Len(open) + 1) = Parameters
    BY <1>2, OutsideFacts
  <1>4. /\ Missing(flow) = {} /\ Gone(flow) = {}
        /\ flow \in Flow /\ Inhabited(flow) /\ flow.reachable
    BY <1>1 DEF Gone, Missing, Flow, Inhabited, Reachable
  <1>5. FlowTypeOK
    <2>1. code \in Seq(PartType) /\ open \in Seq(FrameType)
      BY <1>1
    <2> QED BY <2>1, <1>2, <1>3, <1>4 DEF FlowTypeOK, FlowIn
  <1>6. Shape(code, open)
    BY <1>2 DEF Shape, PartsFit, FramesFit, Closed
  <1>7. NoteOf(flow, Parameters) = FirstNote
    BY <1>4 DEF NoteOf, FirstNote
  <1> DEFINE notes == [i \in PointsOf(code) |-> FirstNote]
  <1>8. Annotates(notes, code, open, flow)
    <2>1. FirstNote \in Note
      BY LeavesAreLocals DEF FirstNote, Note
    <2>2. notes \in [PointsOf(code) -> Note] /\ notes[1] = FirstNote /\ notes[Len(code) + 1] = FirstNote
      BY <2>1, <1>2 DEF PointsOf
    <2> HIDE DEF notes
    <2> QED BY <2>2, <1>2, <1>3, <1>7 DEF Annotates, EdgesOK
  <1> HIDE DEF notes
  <1>9. AllMoved
    BY <1>2, <1>4 DEF AllMoved, Moved
  <1> QED BY <1>1, <1>5, <1>6, <1>8, <1>9 DEF OwnershipInv, Noted

LEMMA OnlyReading == Lower => verdict = "reading"
  <1> SUFFICES ASSUME Lower PROVE verdict = "reading"
    OBVIOUS
  <1>1. CASE \/ \E place \in Visible(Inspected) : LowerUse(place)
             \/ \E place \in Visible(Named) : LowerMove(place) \/ LowerAssign(place)
             \/ LowerReturn
    BY <1>1 DEF LowerUse, LowerMove, LowerAssign, LowerReturn, CanRead
  <1>2. CASE (\E local \in Inner : BeginBlock(local)) \/ BeginIf \/ BeginWhile \/ BeginDo \/ BeginLoop
    BY <1>2 DEF BeginBlock, BeginIf, BeginWhile, BeginDo, BeginLoop, Begin, CanRead
  <1>3. CASE ReadElse \/ ReadBody \/ ReadCondition
    BY <1>3 DEF ReadElse, ReadBody, ReadCondition, Within
  <1>4. CASE EndBlock \/ EndIf \/ EndWhile \/ EndDo \/ EndOfLoop
    BY <1>4 DEF EndBlock, EndIf, EndWhile, EndDo, EndOfLoop, Within
  <1>5. CASE LowerBreak \/ LowerContinue
    BY <1>5 DEF LowerBreak, LowerContinue, CanRead
  <1> QED BY <1>1, <1>2, <1>3, <1>4, <1>5 DEF Lower

LEMMA StillResumes ==
    ASSUME code \in Seq(PartType), NEW p \in PartType, code' = Append(code, p), ResumesCondition
    PROVE  ResumesCondition'
  <1>1. /\ Len(code) \in Nat /\ Len(code') = Len(code) + 1
        /\ \A i \in 1..Len(code) : code'[i] = code[i]
    BY LongerBody
  <1>2. \A i \in 1..Len(code) : i \in 1..Len(code')
    BY <1>1
  <1> QED BY <1>1, <1>2 DEF ResumesCondition

LEMMA AnalyseInv == OwnershipInv /\ Analyse => OwnershipInv'
  <1> SUFFICES ASSUME OwnershipInv, Analyse PROVE OwnershipInv'
    OBVIOUS
  <1>1. Lower /\ verdict = "reading"
    BY OnlyReading DEF Analyse
  <1>2. CASE verdict' = "refused"
    BY <1>2 DEF OwnershipInv
  <1>3. CASE verdict' # "refused"
    <2>1. FlowTypeOK /\ Shape(code, open) /\ AllMoved
      BY <1>1 DEF OwnershipInv
    <2>2. Reads
      BY <2>1, <1>1, <1>3, LowerReads DEF AllMoved
    <2>3. verdict' = "reading" /\ FlowTypeOK' /\ Shape(code', open')
      BY <2>2 DEF Reads
    <2>4. ~ResumesCondition' => Noted'
      <3> SUFFICES ASSUME ~ResumesCondition' PROVE Noted'
        OBVIOUS
      <3>1. ~ResumesCondition
        <4>1. code \in Seq(PartType)
          BY <2>1 DEF FlowTypeOK
        <4> QED BY <4>1, <2>2, StillResumes DEF Reads
      <3>2. PICK notes : Annotates(notes, code, open, flow)
        BY <1>1, <3>1 DEF OwnershipInv, Noted
      <3>3. \E more : Annotates(more, code', open', flow')
        BY <3>2, <2>2 DEF Reads
      <3> QED BY <3>3, <2>3 DEF Noted
    <2>5. AllMoved'
      BY <2>1, <2>2, <1>1, <1>3, MovedStays DEF Reads
    <2> QED BY <2>3, <2>4, <2>5 DEF OwnershipInv
  <1> QED BY <1>2, <1>3

LEMMA PlanBegins ==
    ASSUME NEW states, Settled(states), code \in Seq(PartType)
    PROVE  Agrees(states[1], Parameters)
  <1> DEFINE arriving == {IF 1 = 1 THEN AtEntry ELSE Unreached} \cup
                         {After(h, states[h]) : h \in {g \in Points : 1 \in Successors(g)}}
             here == {t \in arriving : t.reached}
  <1>1. 1 \in Points
    BY DEF Points
  <1>2. states[1] = JoinStates(arriving)
    BY <1>1 DEF Settled, Propagated
  <1>3. AtEntry \in here /\ AtEntry.may = Parameters /\ AtEntry.must = Parameters
    BY DEF AtEntry
  <1> HIDE DEF arriving
  <1>4. states[1] = [reached |-> TRUE,
                     may |-> UNION {s.may : s \in here},
                     must |-> {l \in Leaves : \A s \in here : l \in s.must}]
    BY <1>2, <1>3 DEF JoinStates
  <1> HIDE DEF here
  <1> QED BY <1>3, <1>4 DEF Agrees

LEMMA EmitInv == OwnershipInv /\ Emit => OwnershipInv'
  <1> SUFFICES ASSUME OwnershipInv, Emit PROVE OwnershipInv'
    OBVIOUS
  <1>1. /\ verdict = "reading" /\ verdict' = "accepted" /\ open = << >>
        /\ code' = code /\ open' = open /\ flow' = flow
    BY DEF Emit, Accept
  <1>2. /\ pc' = 1 /\ live' = Parameters
        /\ flags' = {slot \in Places : slot \subseteq Parameters}
    BY DEF Emit
  <1>3. PICK states : Settled(states) /\ verified' = Verifies(states)
    BY DEF Emit
  <1>4. FlowTypeOK /\ Shape(code, open) /\ AllMoved
    BY <1>1 DEF OwnershipInv
  <1>5. FlowTypeOK' /\ Shape(code', open') /\ AllMoved'
    BY <1>1, <1>4 DEF FlowTypeOK, AllMoved, Moved
  <1>6. pc' \in Points' /\ live' \in SUBSET Leaves
    <2>1. 1 \in Points
      BY <1>4 DEF Points, FlowTypeOK
    <2> QED BY <1>1, <1>2, <2>1, SamePlan, LeavesAreLocals
  <1>7. ~ResumesCondition' => Noted'
    <2> SUFFICES ASSUME ~ResumesCondition' PROVE Noted'
      OBVIOUS
    <2>1. PICK notes : Annotates(notes, code, open, flow)
      BY <1>1, SamePlan DEF OwnershipInv, Noted
    <2>2. Annotates(notes, code', open', flow')
      BY <1>1, <2>1
    <2>3. notes[pc'] = [reached |-> TRUE, sure |-> Parameters, declared |-> Parameters]
      BY <1>2, <2>1 DEF Annotates, FirstNote
    <2>4. Fits(notes[pc])'
      BY <1>2, <2>3 DEF Fits
    <2> QED BY <2>2, <2>4 DEF Noted
  <1>8. verified' => Planned'
    <2> SUFFICES ASSUME verified' PROVE Planned'
      OBVIOUS
    <2>1. Settled(states)' /\ Verifies(states)'
      BY <1>1, <1>3, SamePlan
    <2>2. Agrees(states[pc'], live')
      BY <1>2, <1>3, <1>4, PlanBegins DEF FlowTypeOK
    <2> QED BY <2>1, <2>2 DEF Planned
  <1>9. FlagsFollow'
    <2>1. ASSUME NEW l \in Parameters
          PROVE  {l} \in Places
      <3>1. PICK L \in Locals : l \in L
        BY DEF Parameters
      <3> QED BY <3>1, OwnershipAssumption
    <2> QED BY <1>2, <2>1 DEF FlagsFollow
  <1> QED BY <1>1, <1>5, <1>6, <1>7, <1>8, <1>9 DEF OwnershipInv

\* A part of the emitted code runs.
LEMMA GoesOn ==
    ASSUME OwnershipInv, Running, Advance, live' = Effect(code[pc], live),
           ~ResumesCondition /\ ~CompletesTuple => FlagsFollow'
    PROVE  OwnershipInv'
  <1>1. /\ verdict = "accepted" /\ verdict' = "accepted" /\ open = << >>
        /\ code' = code /\ open' = open /\ flow' = flow /\ verified' = verified
        /\ pc \in 1..Len(code) /\ pc' \in Successors(pc)
    BY DEF Running, Advance, flowVars, OwnershipInv
  <1>2. FlowTypeOK /\ Shape(code, open) /\ AllMoved /\ live \in SUBSET Leaves
    BY <1>1 DEF OwnershipInv
  <1>3. FlowTypeOK' /\ Shape(code', open') /\ AllMoved'
    BY <1>1, <1>2 DEF FlowTypeOK, AllMoved, Moved
  <1>4. pc' \in Leads(code, pc) /\ pc' \in Points
    BY <1>1, <1>2, Followed DEF FlowTypeOK
  <1>5. live' \in SUBSET Leaves
    <2>1. code[pc] \in PartType
      BY <1>1, <1>2 DEF FlowTypeOK
    <2>2. code[pc].place \subseteq Leaves
      BY <2>1 DEF PartType
    <2>3. Effect(code[pc], live) \subseteq live \cup code[pc].place
      BY DEF Effect
    <2> QED BY <1>2, <2>2, <2>3
  <1>6. ~ResumesCondition' => Noted'
    <2> SUFFICES ASSUME ~ResumesCondition' PROVE Noted'
      OBVIOUS
    <2>1. PICK notes : Annotates(notes, code, open, flow) /\ Fits(notes[pc])
      BY <1>1, SamePlan DEF OwnershipInv, Noted
    <2>2. Annotates(notes, code', open', flow')
      BY <1>1, <2>1
    <2>3. Brings(code[pc], notes[pc], notes[pc'])
      BY <1>1, <1>4, <2>1 DEF Annotates, EdgesOK
    <2>4. /\ notes[pc'].reached
          /\ notes[pc'].sure \subseteq Effect(code[pc], notes[pc].sure)
          /\ Effect(code[pc], notes[pc].declared) \subseteq notes[pc'].declared
      BY <2>1, <2>3 DEF Brings, Fits
    <2>5. /\ Effect(code[pc], notes[pc].sure) \subseteq live'
          /\ live' \subseteq Effect(code[pc], notes[pc].declared)
      BY <2>1 DEF Fits, Effect
    <2>6. Fits(notes[pc])'
      BY <2>4, <2>5 DEF Fits
    <2> QED BY <2>2, <2>6 DEF Noted
  <1>7. verified' => Planned'
    <2> SUFFICES ASSUME verified' PROVE Planned'
      OBVIOUS
    <2>1. PICK states : Settled(states) /\ Verifies(states) /\ Agrees(states[pc], live)
      BY <1>1 DEF OwnershipInv, Planned
    <2>2. Settled(states)' /\ Verifies(states)'
      BY <1>1, <2>1, SamePlan
    <2>3. Agrees(states[pc'], live')
      BY <1>1, <1>2, <1>4, <2>1, PlanFollowed
    <2> QED BY <2>2, <2>3 DEF Planned
  <1>8. /\ Points' = Points /\ (ResumesCondition' <=> ResumesCondition)
        /\ CompletesTuple' <=> CompletesTuple
    BY <1>1, SamePlan
  <1> QED BY <1>1, <1>3, <1>4, <1>5, <1>6, <1>7, <1>8 DEF OwnershipInv

\* What the notes say where a part runs.
LEMMA NotesHere ==
    ASSUME OwnershipInv, Running, ~ResumesCondition
    PROVE  LET p == code[pc] IN
           /\ ~CompletesTuple => FlagsFollow
           /\ p.does \in {"use", "move"} => p.place \subseteq live \/ Unseen(code, p.place) # {}
           /\ p.does \in {"move", "assign"} => p.place \in Places
           /\ p.does = "assign" /\ p.whole /\ ~CompletesTuple =>
                 LocalOf(p.place) \subseteq live \cup p.place
           /\ p.does = "block" => p.place \in Locals /\ p.place \cap live = {}
           /\ p.does \in Exits => \A L \in Locals : L \subseteq p.place \/ L \cap p.place = {}
           /\ p.does = "return" => live \subseteq p.place
  <1> DEFINE p == code[pc]
  <1>1. verdict = "accepted" /\ pc \in 1..Len(code)
    BY DEF Running
  <1>2. PICK notes : Annotates(notes, code, open, flow) /\ Fits(notes[pc])
    BY <1>1 DEF OwnershipInv, Noted
  <1>3. PartOK(code, p, notes[pc])
    BY <1>1, <1>2 DEF Annotates
  <1>4. notes[pc].reached /\ notes[pc].sure \subseteq live /\ live \subseteq notes[pc].declared
    BY <1>2 DEF Fits
  <1>5. /\ p.does \in {"use", "move"} => p.place \subseteq notes[pc].sure \/ Unseen(code, p.place) # {}
        /\ p.does \in {"move", "assign"} => p.place \in Places
        /\ p.whole => \/ LocalOf(p.place) \subseteq notes[pc].sure \cup p.place
                      \/ \E key \in Unseen(code, LocalOf(p.place)) : ~ key \subseteq p.place
        /\ p.does = "block" => p.place \in Locals /\ p.place \cap notes[pc].declared = {}
        /\ p.does \in Exits => \A L \in Locals : L \subseteq p.place \/ L \cap p.place = {}
        /\ p.does = "return" => notes[pc].declared \subseteq p.place
    BY <1>3, <1>4 DEF PartOK
  <1>6. ~CompletesTuple => FlagsFollow
    BY <1>1 DEF OwnershipInv
  <1>7. p.does = "assign" /\ p.whole /\ ~CompletesTuple =>
           ~ \E key \in Unseen(code, LocalOf(p.place)) : ~ key \subseteq p.place
    BY <1>1 DEF CompletesTuple
  <1> HIDE DEF p
  <1>8. /\ p.does \in {"use", "move"} => p.place \subseteq live \/ Unseen(code, p.place) # {}
        /\ p.does = "assign" /\ p.whole /\ ~CompletesTuple =>
              LocalOf(p.place) \subseteq live \cup p.place
        /\ p.does = "block" => p.place \in Locals /\ p.place \cap live = {}
        /\ p.does = "return" => live \subseteq p.place
    BY <1>4, <1>5, <1>7
  <1> QED BY <1>5, <1>6, <1>8 DEF p

\* The flags keep to what is live when a place is moved, stored or left.
LEMMA FlagsAfterMove ==
    ASSUME FlagsFollow, NEW place \in Places,
           flags' = FlagsMoved(place), live' = live \ place
    PROVE  FlagsFollow'
  <1>1. flags' = {slot \in flags : ~ (slot \subseteq place \/ place \subseteq slot)}
    BY DEF FlagsMoved
  <1>2. flags' \subseteq Places
    BY <1>1 DEF FlagsFollow
  <1>3. ASSUME NEW slot \in flags'
        PROVE  slot \subseteq live'
    <2>1. slot \in Places /\ slot \subseteq live /\ ~(slot \subseteq place \/ place \subseteq slot)
      BY <1>1 DEF FlagsFollow
    <2>2. slot \cap place = {}
      BY <2>1, OwnershipAssumption
    <2> QED BY <2>1, <2>2
  <1>4. ASSUME NEW l \in live'
        PROVE  {l} \in flags'
    <2>1. l \in live /\ l \notin place /\ {l} \in flags
      BY DEF FlagsFollow
    <2>2. place # {}
      BY OwnershipAssumption
    <2> QED BY <1>1, <2>1, <2>2
  <1> QED BY <1>2, <1>3, <1>4 DEF FlagsFollow

LEMMA LocalFacts ==
    ASSUME NEW place \in Places
    PROVE  LocalOf(place) \in Locals /\ place \subseteq LocalOf(place)
  <1>1. \E L \in Locals : place \subseteq L
    BY OwnershipAssumption
  <1> QED BY <1>1 DEF LocalOf

LEMMA FlagsAfterStore ==
    ASSUME FlagsFollow, NEW place \in Places, NEW whole \in BOOLEAN,
           whole => LocalOf(place) \subseteq live \cup place,
           flags' = FlagsStored(place, whole), live' = live \cup place
    PROVE  FlagsFollow'
  <1> DEFINE around == IF whole THEN LocalOf(place) ELSE place
  <1>1. place \subseteq around /\ around \subseteq live'
    BY LocalFacts
  <1>2. flags' = flags \cup {slot \in Places : slot \subseteq around}
    BY DEF FlagsStored
  <1> HIDE DEF around
  <1>3. \A l \in place : {l} \in Places
    BY OwnershipAssumption
  <1> QED BY <1>1, <1>2, <1>3 DEF FlagsFollow

LEMMA FlagsAfterExit ==
    ASSUME FlagsFollow, NEW place, \A L \in Locals : L \subseteq place \/ L \cap place = {},
           flags' = {slot \in flags : ~ slot \subseteq place}, live' = live \ place
    PROVE  FlagsFollow'
  <1>1. ASSUME NEW slot \in flags'
        PROVE  slot \in Places /\ slot \subseteq live'
    <2>1. slot \in Places /\ slot \subseteq live /\ ~ slot \subseteq place
      BY DEF FlagsFollow
    <2>2. slot \subseteq LocalOf(slot) /\ LocalOf(slot) \in Locals
      BY <2>1, LocalFacts
    <2>3. LocalOf(slot) \cap place = {}
      BY <2>1, <2>2
    <2> QED BY <2>1, <2>2, <2>3
  <1> QED BY <1>1 DEF FlagsFollow

LEMMA RunInv == OwnershipInv /\ (RunMove \/ RunAssign \/ RunBlock \/ RunExit \/ RunOther) => OwnershipInv'
  <1> SUFFICES ASSUME OwnershipInv, RunMove \/ RunAssign \/ RunBlock \/ RunExit \/ RunOther
               PROVE  OwnershipInv'
    OBVIOUS
  <1>1. CASE RunMove
    <2>1. Running /\ code[pc].does = "move" /\ Advance
      BY <1>1 DEF RunMove, Runs
    <2>2. live' = live \ code[pc].place /\ flags' = FlagsMoved(code[pc].place)
      BY <1>1 DEF RunMove, Place
    <2>3. live' = Effect(code[pc], live)
      BY <2>1, <2>2 DEF Effect
    <2>4. ~ResumesCondition /\ ~CompletesTuple => FlagsFollow'
      BY <2>1, <2>2, NotesHere, FlagsAfterMove
    <2> QED BY <2>1, <2>3, <2>4, GoesOn
  <1>2. CASE RunAssign
    <2>1. Running /\ code[pc].does = "assign" /\ Advance
      BY <1>2 DEF RunAssign, Runs
    <2>2. live' = live \cup code[pc].place /\ flags' = FlagsStored(code[pc].place, code[pc].whole)
      BY <1>2 DEF RunAssign, Place
    <2>3. live' = Effect(code[pc], live)
      BY <2>1, <2>2 DEF Effect, Exits
    <2>4. ~ResumesCondition /\ ~CompletesTuple => FlagsFollow'
      <3>1. code[pc] \in PartType
        BY <2>1 DEF Running, OwnershipInv, FlowTypeOK
      <3>2. code[pc].whole \in BOOLEAN
        BY <3>1 DEF PartType
      <3> QED BY <3>2, <2>1, <2>2, NotesHere, FlagsAfterStore
    <2> QED BY <2>1, <2>3, <2>4, GoesOn
  <1>3. CASE RunBlock
    <2>1. Running /\ code[pc].does = "block" /\ Advance
      BY <1>3 DEF RunBlock, Runs
    <2>2. live' = live \cup code[pc].place /\ flags' = FlagsStored(code[pc].place, FALSE)
      BY <1>3 DEF RunBlock, Place
    <2>3. live' = Effect(code[pc], live)
      BY <2>1, <2>2 DEF Effect, Exits
    <2>4. ~ResumesCondition /\ ~CompletesTuple => FlagsFollow'
      <3>1. ~ResumesCondition /\ ~CompletesTuple => FlagsFollow /\ code[pc].place \in Places
        BY <2>1, NotesHere, OwnershipAssumption
      <3> QED BY <3>1, <2>2, FlagsAfterStore
    <2> QED BY <2>1, <2>3, <2>4, GoesOn
  <1>4. CASE RunExit
    <2>1. Running /\ code[pc].does \in Exits /\ Advance
      BY <1>4 DEF RunExit
    <2>2. /\ live' = live \ code[pc].place
          /\ flags' = {slot \in flags : ~ slot \subseteq code[pc].place}
      BY <1>4 DEF RunExit, Place
    <2>3. live' = Effect(code[pc], live)
      BY <2>1, <2>2 DEF Effect
    <2>4. ~ResumesCondition /\ ~CompletesTuple => FlagsFollow'
      BY <2>1, <2>2, NotesHere, FlagsAfterExit
    <2> QED BY <2>1, <2>3, <2>4, GoesOn
  <1>5. CASE RunOther
    <2>1. /\ Running /\ Advance /\ live' = live /\ flags' = flags
          /\ code[pc].does \notin Exits \cup {"move", "assign", "block"}
      BY <1>5 DEF RunOther
    <2>2. live' = Effect(code[pc], live)
      BY <2>1 DEF Effect
    <2>3. ~ResumesCondition /\ ~CompletesTuple => FlagsFollow'
      BY <2>1, NotesHere DEF FlagsFollow
    <2> QED BY <2>1, <2>2, <2>3, GoesOn
  <1> QED BY <1>1, <1>2, <1>3, <1>4, <1>5

\* The inductive invariant: whatever body is read, and however its conditions
\* fall when it runs, the flow analysis has kept its stack of scopes and loops
\* in shape (FlowState, LoopFrame), the execution stays within what the
\* analysis held at every part and within what a verified plan says, and the
\* drop flags name exactly what holds a value, unless the body continues from
\* the condition of a do-while or completes a tuple by one of its fields.  The
\* analysis misses nothing that has not been moved (mark_moved).
THEOREM OwnershipInvariant == Spec => []OwnershipInv
  <1>1. Init => OwnershipInv
    BY InitInv
  <1>2. OwnershipInv /\ [Next]_vars => OwnershipInv'
    <2> SUFFICES ASSUME OwnershipInv, [Next]_vars PROVE OwnershipInv'
      OBVIOUS
    <2>1. CASE Analyse
      BY <2>1, AnalyseInv
    <2>2. CASE Emit
      BY <2>2, EmitInv
    <2>3. CASE RunMove \/ RunAssign \/ RunBlock \/ RunExit \/ RunOther
      BY <2>3, RunInv
    <2>4. CASE UNCHANGED vars
      <3>1. /\ code' = code /\ open' = open /\ flow' = flow /\ verdict' = verdict
            /\ verified' = verified /\ pc' = pc /\ live' = live /\ flags' = flags
        BY <2>4 DEF vars, flowVars, runVars
      <3>2. \A states : Settled(states) /\ Verifies(states) => Settled(states)' /\ Verifies(states)'
        BY <3>1, SamePlan
      <3>3. Planned => Planned'
        BY <3>1, <3>2 DEF Planned
      <3>4. /\ Points' = Points /\ (ResumesCondition' <=> ResumesCondition)
            /\ CompletesTuple' <=> CompletesTuple
        BY <3>1, SamePlan
      <3>5. Noted => Noted'
        BY <3>1 DEF Noted, Fits
      <3>6. (FlowTypeOK => FlowTypeOK') /\ (AllMoved => AllMoved')
        BY <3>1 DEF FlowTypeOK, AllMoved, Moved
      <3>7. FlagsFollow => FlagsFollow'
        BY <3>1 DEF FlagsFollow
      <3> QED BY <3>1, <3>3, <3>4, <3>5, <3>6, <3>7 DEF OwnershipInv
    <2> QED BY <2>1, <2>2, <2>3, <2>4 DEF Next
  <1> QED BY <1>1, <1>2, PTL DEF Spec

\* No place is used or moved once its value may be gone: not by any path, in
\* any round of any loop, whatever alternatives the analysis has merged or
\* widened (ensure_available, FlowState::join, reject_loop_carried_moves).
\* Bodies that continue from the condition of a do-while are excepted, and so
\* is a tuple of which the body moves a field, or a field of a tuple that it
\* moves (append_leaf_keys).  In any body a verified plan moves nothing that is
\* gone.
THEOREM UsesAreSound == Spec => []UsesAreInitialized
  <1>1. OwnershipInv => UsesAreInitialized
    <2> SUFFICES ASSUME OwnershipInv PROVE UsesAreInitialized
      OBVIOUS
    <2>1. Running /\ code[pc].does \in {"use", "move"} =>
             ResumesCondition \/ Unseen(code, Place) # {} \/ Place \subseteq live
      BY NotesHere DEF Place
    <2>2. ASSUME Runs("move"), verified
          PROVE  Place \subseteq live
      <3>1. verdict = "accepted" /\ pc \in 1..Len(code) /\ code[pc].does = "move"
        BY <2>2 DEF Runs, Running
      <3>2. PICK states : Verifies(states) /\ Agrees(states[pc], live)
        BY <2>2, <3>1 DEF OwnershipInv, Planned
      <3>3. code[pc].place \subseteq states[pc].must
        BY <3>1, <3>2 DEF Verifies, Agrees
      <3> QED BY <3>2, <3>3 DEF Agrees, Place
    <2> QED BY <2>1, <2>2 DEF UsesAreInitialized
  <1> QED BY <1>1, OwnershipInvariant, PTL

LEMMA DropsWhatIsLive ==
    ASSUME FlagsFollow, NEW place \in Places
    PROVE  Dropped(place) = live \cap place
  <1>1. CASE place \in flags
    BY <1>1 DEF FlagsFollow, Dropped
  <1>2. CASE place \notin flags
    <2>1. Dropped(place) = UNION {slot \in flags : slot \subseteq place}
      BY <1>2 DEF Dropped
    <2>2. \A l \in live \cap place : {l} \in {slot \in flags : slot \subseteq place}
      BY DEF FlagsFollow
    <2>3. \A slot \in {slot \in flags : slot \subseteq place} : slot \subseteq live \cap place
      BY DEF FlagsFollow
    <2> QED BY <2>1, <2>2, <2>3
  <1> QED BY <1>1, <1>2

\* What emitted code drops is what holds a value, no more and no less: before
\* an assignment, at the end of a scope however it is left, and when the
\* function is left (emit_conditional_drop, emit_cleanup_range,
\* collect_place_flag_updates, verify_stable_move_state).  Bodies that continue
\* from the condition of a do-while are excepted, and those that assign one
\* field of a tuple and move another (root_initialized).
THEOREM DropsAreExact == Spec => []DroppedExactlyOnce
  <1>1. OwnershipInv => DroppedExactlyOnce
    <2> SUFFICES ASSUME OwnershipInv, verdict = "accepted", verified,
                        ~ResumesCondition, ~CompletesTuple
                 PROVE  /\ Runs("assign") => Released = live \cap Place
                        /\ \A L \in Locals : L \subseteq Ending => Dropped(L) = live \cap L
                        /\ Runs("block") => Place \cap live = {}
                        /\ Leaving => live \subseteq Ending
      BY DEF DroppedExactlyOnce
    <2>1. FlagsFollow
      BY DEF OwnershipInv
    <2>2. ASSUME Runs("assign")
          PROVE  Released = live \cap Place
      <3>1. Running /\ code[pc].does = "assign" /\ pc \in 1..Len(code)
        BY <2>2 DEF Runs, Running
      <3>2. CASE code[pc].kind = "initialize"
        <4>1. PICK states : Verifies(states) /\ Agrees(states[pc], live)
          BY DEF OwnershipInv, Planned
        <4>2. code[pc].place \cap states[pc].may = {}
          BY <3>1, <3>2, <4>1 DEF Verifies, Agrees
        <4>3. code[pc].place \cap live = {}
          BY <4>1, <4>2 DEF Agrees
        <4> QED BY <3>2, <4>3 DEF Released, Place
      <3>3. CASE code[pc].kind # "initialize"
        <4>1. Place \in Places
          BY <3>1, NotesHere DEF Place
        <4> QED BY <2>1, <3>3, <4>1, DropsWhatIsLive DEF Released
      <3> QED BY <3>2, <3>3
    <2>3. \A L \in Locals : Dropped(L) = live \cap L
      BY <2>1, DropsWhatIsLive, OwnershipAssumption
    <2>4. Runs("block") => Place \cap live = {}
      BY NotesHere DEF Runs, Place
    <2>5. ASSUME Leaving
          PROVE  live \subseteq Ending
      <3>1. CASE pc = Len(code) + 1
        <4>1. PICK notes : Annotates(notes, code, open, flow) /\ Fits(notes[pc])
          BY DEF OwnershipInv, Noted
        <4>2. Len(open) = 0
          BY DEF OwnershipInv
        <4>3. notes[pc] = NoteOf(flow, Parameters)
          BY <3>1, <4>1, <4>2, OutsideFacts DEF Annotates
        <4>4. notes[pc].declared = Parameters
          BY <4>3 DEF NoteOf
        <4> QED BY <3>1, <4>1, <4>4 DEF Fits, Ending
      <3>2. CASE pc # Len(code) + 1
        <4>1. Running /\ code[pc].does = "return"
          BY <2>5, <3>2 DEF Leaving, Runs
        <4>2. Ending = Place
          BY <3>2, <4>1 DEF Ending, Exits
        <4> QED BY <4>1, <4>2, NotesHere DEF Place
      <3> QED BY <3>1, <3>2
    <2> QED BY <2>2, <2>3, <2>4, <2>5
  <1> QED BY <1>1, OwnershipInvariant, PTL
=============================================================================
