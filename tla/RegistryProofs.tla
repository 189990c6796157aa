---------------------------- MODULE RegistryProofs ----------------------------
(***************************************************************************)
(* What a package command builds with is right, for every catalog and      *)
(* every history of manifests, snapshots and lockfiles: its search returns *)
(* the highest resolution or fails because there is none, what a locked    *)
(* build takes over without a search resolves its manifests, and what an   *)
(* update writes is taken over by a locked build.                          *)
(***************************************************************************)
EXTENDS RegistryBuilds, TLAPS

(***************************************************************************)
(* The search.  The argument is the one of every backtracking search: each *)
(* frame holds a partial selection; a release that has been tried and      *)
(* given up is in no resolution that agrees with it, so what is left, and  *)
(* what the next frame tries, are all that remains.                        *)
(***************************************************************************)

Failures == {"no compatible version", "cycle", "missing package", "missing snapshot"}
Kinds == Failures \cup {"open", "found", "limit", "idle"}

Frame == [constraints : SUBSET Requirement, selected : Selections,
          package : Packages \cup {Undecided}, left : SUBSET Versions,
          failure : Failures \cup {"none"}, lacking : SUBSET Registries]

Answer == [kind : Kinds, lacking : SUBSET Registries, selected : Selections]

SolverTypeOK == /\ problem \in Problem
                /\ frames \in Seq(Frame)
                /\ attempts \in Nat
                /\ answer \in Answer

\* What a partial selection requires.
Required(p, s) == p.roots \cup UNION {Needs(p, k, s[k]) : k \in DOMAIN s}

\* Whatever the roots lead to contains the partial selection.
Needed(p, s) ==
    \A T \in SUBSET Packages :
        (/\ Constrained(p.roots) \subseteq T
         /\ \A k \in DOMAIN s : k \in T => Constrained(Needs(p, k, s[k])) \subseteq T)
        => DOMAIN s \subseteq T

Completes(p, s, partial) == Resolves(p, s) /\ Agrees(s, partial)
DeadEnd(p, partial) == \A s \in Selections : ~Completes(p, s, partial)

\* Every resolution takes one of S for the package the frame decides.
Confined(p, f, S) ==
    \A s \in Selections : Completes(p, s, f.selected) =>
        f.package \in DOMAIN s /\ s[f.package] \in S

FrameOK(p, f) ==
    /\ f.constraints = Required(p, f.selected)
    /\ \A k \in DOMAIN f.selected : Eligible(p, k, f.selected[k])
    /\ Needed(p, f.selected)
    /\ f.package # Undecided => f.package \in Constrained(f.constraints) \ DOMAIN f.selected

\* g is the call that frame f has made.
CallOK(p, f, g) ==
    /\ f.package # Undecided
    /\ f.package \in DOMAIN g.selected
    /\ g.selected = Extend(f.selected, f.package, g.selected[f.package])
    /\ \A w \in f.left : w < g.selected[f.package]
    /\ Confined(p, f, f.left \cup {g.selected[f.package]})

TopOK(p, f) == f.package # Undecided => Confined(p, f, f.left)

Calls(p, fs) ==
    /\ Len(fs) > 0
    /\ fs[1].selected = Empty
    /\ \A i \in 1..Len(fs) : FrameOK(p, fs[i])
    /\ \A i \in 1..(Len(fs) - 1) : CallOK(p, fs[i], fs[i + 1])
    /\ \A j \in 1..Len(fs) : \A i \in 1..j : Agrees(fs[j].selected, fs[i].selected)

Chain(p, fs) == Calls(p, fs) /\ TopOK(p, fs[Len(fs)])

\* What the search has returned is what its frames say.
Returned == answer.kind = "found" => /\ answer.selected = Top.selected
                                     /\ Resolves(problem, answer.selected)

SolverInv == /\ SolverTypeOK
             /\ answer.kind \in {"open", "found"} => Chain(problem, frames)
             /\ Returned
             /\ FailureIsReal
-----------------------------------------------------------------------------
(* The data. *)

LEMMA SelectionShape ==
    ASSUME NEW s \in Selections
    PROVE  DOMAIN s \in SUBSET Packages /\ s \in [DOMAIN s -> Versions]
  BY DEF Selections

LEMMA EmptyShape == Empty \in Selections /\ DOMAIN Empty = {}
  BY DEF Empty, Selections

LEMMA ExtendShape ==
    ASSUME NEW s \in Selections, NEW k \in Packages, NEW v \in Versions
    PROVE  /\ Extend(s, k, v) \in Selections
           /\ DOMAIN Extend(s, k, v) = DOMAIN s \cup {k}
           /\ Extend(s, k, v)[k] = v
           /\ \A j \in DOMAIN s : j # k => Extend(s, k, v)[j] = s[j]
  <1>1. DOMAIN s \cup {k} \in SUBSET Packages
    BY SelectionShape
  <1>2. Extend(s, k, v) \in [DOMAIN s \cup {k} -> Versions]
    BY SelectionShape DEF Extend
  <1> QED BY <1>1, <1>2 DEF Extend, Selections

LEMMA IndexShape ==
    ASSUME NEW p \in Problem, NEW k \in DOMAIN p.index
    PROVE  \E V \in SUBSET Versions : p.index[k] \in [V -> Release]
  <1>1. PICK S \in SUBSET Packages : p.index \in [S -> Listings]
    BY DEF Problem, Indexes
  <1>2. p.index[k] \in Listings
    BY <1>1
  <1> QED BY <1>2 DEF Listings

LEMMA NeedsShape ==
    ASSUME NEW p \in Problem, NEW k, NEW v, Eligible(p, k, v)
    PROVE  Needs(p, k, v) \in SUBSET Requirement
  <1>1. k \in DOMAIN p.index /\ v \in DOMAIN p.index[k]
    BY DEF Eligible, Available
  <1>2. PICK V \in SUBSET Versions : p.index[k] \in [V -> Release]
    BY <1>1, IndexShape
  <1>3. p.index[k][v] \in Release
    BY <1>1, <1>2
  <1> QED BY <1>3 DEF Needs, Release

LEMMA NoProblemShape == NoProblem \in Problem
  <1>1. Empty \in [{} -> Listings]
    BY DEF Empty
  <1> QED BY <1>1 DEF NoProblem, Problem, Indexes

LEMMA IndexVersions ==
    ASSUME NEW p \in Problem, NEW k \in DOMAIN p.index
    PROVE  DOMAIN p.index[k] \in SUBSET Versions
  BY IndexShape

-----------------------------------------------------------------------------
(* Dead ends: what the search gives up is in no resolution. *)

LEMMA RequiredByCompletion ==
    ASSUME NEW p \in Problem, NEW partial \in Selections, NEW s \in Selections,
           Completes(p, s, partial), NEW c \in Required(p, partial)
    PROVE  c.package \in DOMAIN s /\ s[c.package] \in c.versions
  <1>1. CASE c \in p.roots
    BY <1>1 DEF Completes, Resolves
  <1>2. CASE \E k \in DOMAIN partial : c \in Needs(p, k, partial[k])
    BY <1>2 DEF Completes, Resolves, Agrees
  <1> QED BY <1>1, <1>2 DEF Required

LEMMA ConflictIsDead ==
    ASSUME NEW p \in Problem, NEW f \in Frame, FrameOK(p, f),
           NEW k \in DOMAIN f.selected, ~Matches(f.constraints, k, f.selected[k])
    PROVE  DeadEnd(p, f.selected)
  <1> SUFFICES ASSUME NEW s \in Selections, Completes(p, s, f.selected)
               PROVE  FALSE
    BY DEF DeadEnd
  <1>1. f.selected \in Selections
    BY DEF Frame
  <1>2. PICK c \in Required(p, f.selected) : c.package = k /\ f.selected[k] \notin c.versions
    BY DEF FrameOK, Matches
  <1>3. s[k] \in c.versions
    BY <1>1, <1>2, RequiredByCompletion
  <1>4. s[k] = f.selected[k]
    BY DEF Completes, Agrees
  <1> QED BY <1>2, <1>3, <1>4

LEMMA CycleIsDead ==
    ASSUME NEW p \in Problem, NEW partial \in Selections, Cyclic(p, partial)
    PROVE  DeadEnd(p, partial)
  <1> SUFFICES ASSUME NEW s \in Selections, Completes(p, s, partial)
               PROVE  FALSE
    BY DEF DeadEnd
  <1>1. PICK C \in SUBSET DOMAIN partial :
           /\ C # {}
           /\ \A k \in C : \E c \in Needs(p, k, partial[k]) : c.package \in C
    BY DEF Cyclic
  <1>2. \A k \in C : k \in DOMAIN s /\ s[k] = partial[k]
    BY <1>1 DEF Completes, Agrees
  <1>3. C \in SUBSET DOMAIN s
    BY <1>2
  <1>4. \A k \in C : \E c \in Needs(p, k, s[k]) : c.package \in C
    BY <1>1, <1>2
  <1>5. Cyclic(p, s)
    BY <1>1, <1>3, <1>4 DEF Cyclic
  <1> QED BY <1>5 DEF Completes, Resolves

LEMMA MissingIsDead ==
    ASSUME NEW p \in Problem, NEW f \in Frame, FrameOK(p, f),
           NEW k \in Constrained(f.constraints), ~Available(p, k)
    PROVE  DeadEnd(p, f.selected)
  <1> SUFFICES ASSUME NEW s \in Selections, Completes(p, s, f.selected)
               PROVE  FALSE
    BY DEF DeadEnd
  <1>1. f.selected \in Selections
    BY DEF Frame
  <1>2. PICK c \in Required(p, f.selected) : c.package = k
    BY DEF FrameOK, Constrained
  <1>3. k \in DOMAIN s
    BY <1>1, <1>2, RequiredByCompletion
  <1>4. Eligible(p, k, s[k])
    BY <1>3 DEF Completes, Resolves
  <1> QED BY <1>4 DEF Eligible

LEMMA ExhaustedIsDead ==
    ASSUME NEW p \in Problem, NEW f \in Frame, Confined(p, f, {})
    PROVE  DeadEnd(p, f.selected)
  BY DEF Confined, DeadEnd

-----------------------------------------------------------------------------
(* What a decision leaves to be tried. *)

LEMMA ChoiceConfines ==
    ASSUME NEW p \in Problem, NEW f \in Frame, NEW g \in Frame, FrameOK(p, f),
           g.selected = f.selected, g.package \in Constrained(f.constraints)
    PROVE  Confined(p, g, DOMAIN p.index[g.package])
  <1> SUFFICES ASSUME NEW s \in Selections, Completes(p, s, f.selected)
               PROVE  /\ g.package \in DOMAIN s
                      /\ s[g.package] \in DOMAIN p.index[g.package]
    BY DEF Confined
  <1>1. f.selected \in Selections
    BY DEF Frame
  <1>2. PICK c \in Required(p, f.selected) : c.package = g.package
    BY DEF FrameOK, Constrained
  <1>3. g.package \in DOMAIN s
    BY <1>1, <1>2, RequiredByCompletion
  <1>4. Eligible(p, g.package, s[g.package])
    BY <1>3 DEF Completes, Resolves
  <1> QED BY <1>3, <1>4 DEF Eligible

LEMMA SkipConfines ==
    ASSUME NEW p \in Problem, NEW f \in Frame, FrameOK(p, f), NEW S, Confined(p, f, S),
           NEW v, ~(Matches(f.constraints, f.package, v) /\ Eligible(p, f.package, v))
    PROVE  Confined(p, f, S \ {v})
  <1> SUFFICES ASSUME NEW s \in Selections, Completes(p, s, f.selected)
               PROVE  f.package \in DOMAIN s /\ s[f.package] \in S \ {v}
    BY DEF Confined
  <1>1. f.package \in DOMAIN s /\ s[f.package] \in S
    BY DEF Confined
  <1>2. ASSUME s[f.package] = v PROVE FALSE
    <2>1. Eligible(p, f.package, v)
      BY <1>1, <1>2 DEF Completes, Resolves
    <2>2. PICK c \in Required(p, f.selected) : c.package = f.package /\ v \notin c.versions
      BY <2>1 DEF Matches, FrameOK
    <2>3. s[f.package] \in c.versions
      BY <2>2, RequiredByCompletion DEF Frame
    <2> QED BY <1>2, <2>2, <2>3
  <1> QED BY <1>1, <1>2

LEMMA RefusalConfines ==
    ASSUME NEW p \in Problem, NEW f \in Frame, NEW S, Confined(p, f, S), NEW v,
           NEW c \in Needs(p, f.package, v), RegistryOf[c.package] \notin p.loaded
    PROVE  Confined(p, f, S \ {v})
  <1> SUFFICES ASSUME NEW s \in Selections, Completes(p, s, f.selected)
               PROVE  f.package \in DOMAIN s /\ s[f.package] \in S \ {v}
    BY DEF Confined
  <1>1. f.package \in DOMAIN s /\ s[f.package] \in S
    BY DEF Confined
  <1>2. ASSUME s[f.package] = v PROVE FALSE
    <2>1. c.package \in DOMAIN s
      BY <1>1, <1>2 DEF Completes, Resolves
    <2>2. Eligible(p, c.package, s[c.package])
      BY <2>1 DEF Completes, Resolves
    <2> QED BY <2>2 DEF Eligible, Available, Loaded
  <1> QED BY <1>1, <1>2
-----------------------------------------------------------------------------
(* The frames. *)

LEMMA AgreesTransitive ==
    ASSUME NEW r, NEW s, NEW t, Agrees(r, s), Agrees(s, t)
    PROVE  Agrees(r, t)
  BY DEF Agrees

LEMMA CallKeepsOrder ==
    ASSUME NEW p, NEW f, NEW g, NEW h, CallOK(p, f, g), h.selected = g.selected
    PROVE  CallOK(p, f, h)
  BY DEF CallOK

\* The top frame after a decision.
LEMMA ReplaceKeepsCalls ==
    ASSUME NEW p \in Problem, NEW fs \in Seq(Frame), Calls(p, fs),
           NEW f \in Frame, f.selected = fs[Len(fs)].selected,
           FrameOK(p, f)
    PROVE  /\ [fs EXCEPT ![Len(fs)] = f] \in Seq(Frame)
           /\ Len([fs EXCEPT ![Len(fs)] = f]) = Len(fs)
           /\ [fs EXCEPT ![Len(fs)] = f][Len(fs)] = f
           /\ Calls(p, [fs EXCEPT ![Len(fs)] = f])
  <1> DEFINE n == Len(fs)
             gs == [fs EXCEPT ![n] = f]
  <1>1. n \in Nat /\ n > 0
    BY DEF Calls
  <1>2. gs \in Seq(Frame) /\ Len(gs) = n
    BY <1>1
  <1>3. gs[n] = f /\ \A i \in 1..n : i # n => gs[i] = fs[i]
    BY <1>1
  <1>4. \A i \in 1..n : gs[i].selected = fs[i].selected
    BY <1>3
  <1> HIDE DEF gs
  <1>5. gs[1].selected = Empty
    BY <1>1, <1>4 DEF Calls
  <1>6. \A i \in 1..n : FrameOK(p, gs[i])
    BY <1>3 DEF Calls
  <1>7. ASSUME NEW i \in 1..(n - 1) PROVE CallOK(p, gs[i], gs[i + 1])
    <2>1. CallOK(p, fs[i], fs[i + 1])
      BY DEF Calls
    <2>2. i \in 1..n /\ i + 1 \in 1..n /\ i # n
      BY <1>1
    <2>3. gs[i] = fs[i] /\ gs[i + 1].selected = fs[i + 1].selected
      BY <1>3, <1>4, <2>2
    <2> QED BY <2>1, <2>3, CallKeepsOrder
  <1>8. \A j \in 1..n : \A i \in 1..j : Agrees(gs[j].selected, gs[i].selected)
    BY <1>1, <1>4 DEF Calls
  <1>9. Calls(p, gs)
    BY <1>1, <1>2, <1>5, <1>6, <1>7, <1>8 DEF Calls
  <1>10. gs[n] = f
    BY <1>1, <1>3
  <1> QED BY <1>2, <1>9, <1>10 DEF gs

\* A call made from the top frame.
LEMMA PushKeepsCalls ==
    ASSUME NEW p \in Problem, NEW fs \in Seq(Frame), Calls(p, fs),
           NEW g \in Frame, FrameOK(p, g), g.package = Undecided,
           CallOK(p, fs[Len(fs)], g), Agrees(g.selected, fs[Len(fs)].selected)
    PROVE  Append(fs, g) \in Seq(Frame) /\ Chain(p, Append(fs, g))
  <1> DEFINE n == Len(fs)
             gs == Append(fs, g)
  <1>1. n \in Nat /\ n > 0
    BY DEF Calls
  <1>2. gs \in Seq(Frame) /\ Len(gs) = n + 1
    BY <1>1
  <1>3. gs[n + 1] = g /\ \A i \in 1..n : gs[i] = fs[i]
    BY <1>1
  <1> HIDE DEF gs
  <1>5. gs[1].selected = Empty
    BY <1>1, <1>3 DEF Calls
  <1>6. ASSUME NEW i \in 1..(n + 1) PROVE FrameOK(p, gs[i])
    BY <1>1, <1>3 DEF Calls
  <1>7. ASSUME NEW i \in 1..n PROVE CallOK(p, gs[i], gs[i + 1])
    <2>1. CASE i = n
      BY <1>1, <1>3, <2>1
    <2>2. CASE i # n
      <3>1. CallOK(p, fs[i], fs[i + 1])
        BY <1>1, <2>2 DEF Calls
      <3>2. gs[i] = fs[i] /\ gs[i + 1] = fs[i + 1]
        BY <1>1, <1>3, <2>2
      <3> QED BY <3>1, <3>2
    <2> QED BY <2>1, <2>2
  <1>8. ASSUME NEW j \in 1..(n + 1), NEW i \in 1..j
        PROVE  Agrees(gs[j].selected, gs[i].selected)
    <2>1. CASE j # n + 1
      BY <1>1, <1>3, <2>1 DEF Calls
    <2>2. CASE j = n + 1 /\ i = n + 1
      BY <2>2 DEF Agrees
    <2>3. CASE j = n + 1 /\ i # n + 1
      <3>1. i \in 1..n /\ n \in 1..n
        BY <1>1, <2>3
      <3>2. Agrees(fs[n].selected, fs[i].selected)
        BY <3>1 DEF Calls
      <3>3. gs[j] = g /\ gs[i] = fs[i]
        BY <1>3, <2>3, <3>1
      <3> QED BY <3>2, <3>3, AgreesTransitive
    <2> QED BY <2>1, <2>2, <2>3
  <1>9. TopOK(p, gs[n + 1])
    BY <1>3 DEF TopOK
  <1>10. (n + 1) - 1 = n /\ n + 1 > 0
    BY <1>1
  <1>11. Chain(p, gs)
    BY <1>2, <1>5, <1>6, <1>7, <1>8, <1>9, <1>10 DEF Chain, Calls
  <1> QED BY <1>2, <1>11 DEF gs

\* The frames below the top one, of which only the remembered error changes.
LEMMA PopKeepsChain ==
    ASSUME NEW p \in Problem, NEW fs \in Seq(Frame), Chain(p, fs), Len(fs) > 1,
           DeadEnd(p, fs[Len(fs)].selected), NEW gs \in Seq(Frame), Len(gs) = Len(fs) - 1,
           \A i \in 1..(Len(fs) - 1) :
              /\ gs[i].constraints = fs[i].constraints
              /\ gs[i].selected = fs[i].selected
              /\ gs[i].package = fs[i].package
              /\ gs[i].left = fs[i].left
    PROVE  Chain(p, gs)
  <1> DEFINE n == Len(gs)
  <1>1. n \in Nat /\ n > 0 /\ Len(fs) = n + 1
    OBVIOUS
  <1>2. gs[1].selected = Empty
    BY <1>1 DEF Chain, Calls
  <1>3. ASSUME NEW i \in 1..n PROVE FrameOK(p, gs[i])
    <2>1. FrameOK(p, fs[i])
      BY <1>1 DEF Chain, Calls
    <2> QED BY <2>1, <1>1 DEF FrameOK
  <1>4. ASSUME NEW i \in 1..(n - 1) PROVE CallOK(p, gs[i], gs[i + 1])
    <2>1. CallOK(p, fs[i], fs[i + 1])
      BY <1>1 DEF Chain, Calls
    <2>2. i \in 1..n /\ i + 1 \in 1..n
      BY <1>1
    <2> QED BY <2>1, <2>2, <1>1 DEF CallOK, Confined
  <1>5. \A j \in 1..n : \A i \in 1..j : Agrees(gs[j].selected, gs[i].selected)
    BY <1>1 DEF Chain, Calls
  <1>6. Confined(p, gs[n], gs[n].left)
    <2> SUFFICES ASSUME NEW s \in Selections, Completes(p, s, fs[n].selected)
                 PROVE  fs[n].package \in DOMAIN s /\ s[fs[n].package] \in fs[n].left
      BY <1>1 DEF Confined
    <2>1. CallOK(p, fs[n], fs[n + 1])
      BY <1>1 DEF Chain, Calls
    <2> DEFINE k == fs[n].package
               v == fs[n + 1].selected[k]
    <2>2. k \in DOMAIN s /\ s[k] \in fs[n].left \cup {v}
      <3>1. Confined(p, fs[n], fs[n].left \cup {v})
        BY <2>1 DEF CallOK
      <3> QED BY <3>1 DEF Confined
    <2>3. ASSUME s[k] = v PROVE FALSE
      <3>1. Agrees(s, fs[n + 1].selected)
        BY <2>1, <2>2, <2>3 DEF CallOK, Extend, Completes, Agrees
      <3>2. DeadEnd(p, fs[n + 1].selected)
        BY <1>1
      <3> QED BY <3>1, <3>2 DEF DeadEnd, Completes
    <2> QED BY <2>2, <2>3
  <1>7. Calls(p, gs)
    BY <1>1, <1>2, <1>3, <1>4, <1>5 DEF Calls
  <1> QED BY <1>6, <1>7 DEF Chain, TopOK

\* The call for a release that is tried.
LEMMA CallForRelease ==
    ASSUME NEW p \in Problem, NEW f \in Frame, FrameOK(p, f), f.package # Undecided,
           NEW v \in Versions, Eligible(p, f.package, v)
    PROVE  LET g == Call(f.constraints \cup Needs(p, f.package, v),
                         Extend(f.selected, f.package, v))
           IN /\ g \in Frame
              /\ FrameOK(p, g)
              /\ Agrees(g.selected, f.selected)
              /\ f.package \in DOMAIN g.selected
              /\ g.selected[f.package] = v
  <1> DEFINE k == f.package
             s == f.selected
             e == Extend(s, k, v)
             g == Call(f.constraints \cup Needs(p, k, v), e)
  <1>1. s \in Selections /\ k \in Packages /\ k \notin DOMAIN s
    BY DEF Frame, FrameOK
  <1>2. /\ e \in Selections
        /\ DOMAIN e = DOMAIN s \cup {k}
        /\ e[k] = v
        /\ \A j \in DOMAIN s : e[j] = s[j]
    <2> HIDE DEF k, s
    <2>1. \A j \in DOMAIN s : j # k
      BY <1>1
    <2>2. /\ Extend(s, k, v) \in Selections
          /\ DOMAIN Extend(s, k, v) = DOMAIN s \cup {k}
          /\ Extend(s, k, v)[k] = v
          /\ \A j \in DOMAIN s : j # k => Extend(s, k, v)[j] = s[j]
      BY <1>1, ExtendShape
    <2>3. /\ e = Extend(s, k, v)
          /\ \A j \in DOMAIN s : Extend(s, k, v)[j] = s[j]
      BY <2>1, <2>2
    <2> HIDE DEF e
    <2> QED BY <2>2, <2>3
  <1>3. g.constraints = f.constraints \cup Needs(p, k, v) /\ g.selected = e
        /\ g.package = Undecided /\ g.left = {} /\ g.failure = "none" /\ g.lacking = {}
    BY DEF Call
  <1>4. g \in Frame
    BY <1>2, NeedsShape DEF Call, Frame
  <1> HIDE DEF e, g
  <1>5. g.constraints = Required(p, e)
    <2>1. f.constraints = Required(p, s)
      BY DEF FrameOK
    <2>2. Required(p, e) = Required(p, s) \cup Needs(p, k, v)
      BY <1>2 DEF Required
    <2> QED BY <1>3, <2>1, <2>2
  <1>6. \A j \in DOMAIN e : Eligible(p, j, e[j])
    BY <1>2 DEF FrameOK
  <1>7. Needed(p, e)
    <2> SUFFICES ASSUME NEW T \in SUBSET Packages, Constrained(p.roots) \subseteq T,
                        \A j \in DOMAIN e : j \in T => Constrained(Needs(p, j, e[j])) \subseteq T
                 PROVE  DOMAIN e \subseteq T
      BY DEF Needed
    <2>1. DOMAIN s \subseteq T
      BY <1>2 DEF FrameOK, Needed
    <2>2. PICK c \in Required(p, s) : c.package = k
      BY DEF FrameOK, Constrained
    <2>3. CASE c \in p.roots
      BY <1>2, <2>1, <2>2, <2>3 DEF Constrained
    <2>4. CASE \E j \in DOMAIN s : c \in Needs(p, j, s[j])
      BY <1>2, <2>1, <2>2, <2>4 DEF Constrained
    <2> QED BY <2>2, <2>3, <2>4 DEF Required
  <1>8. FrameOK(p, g)
    BY <1>3, <1>5, <1>6, <1>7 DEF FrameOK
  <1>9. Agrees(g.selected, s)
    BY <1>2, <1>3 DEF Agrees
  <1> QED BY <1>2, <1>3, <1>4, <1>8, <1>9 DEF g, e

LEMMA FirstCall ==
    ASSUME NEW p \in Problem
    PROVE  /\ <<Call(p.roots, Empty)>> \in Seq(Frame)
           /\ Chain(p, <<Call(p.roots, Empty)>>)
  <1> DEFINE f == Call(p.roots, Empty)
             fs == <<f>>
  <1>1. p.roots \in SUBSET Requirement
    BY DEF Problem
  <1>2. f \in Frame
    BY <1>1, EmptyShape DEF Call, Frame
  <1>3. f.constraints = p.roots /\ f.selected = Empty /\ f.package = Undecided
    BY DEF Call
  <1> HIDE DEF f
  <1>4. FrameOK(p, f)
    BY <1>3, EmptyShape DEF FrameOK, Required, Needed
  <1>5. fs \in Seq(Frame) /\ Len(fs) = 1 /\ fs[1] = f
    BY <1>2
  <1> HIDE DEF fs
  <1>6. Calls(p, fs)
    BY <1>3, <1>4, <1>5 DEF Calls, Agrees
  <1>7. TopOK(p, f)
    BY <1>3 DEF TopOK
  <1> QED BY <1>5, <1>6, <1>7 DEF Chain, fs, f

\* When all that is required is selected and matches, and there is no cycle,
\* the selection is a resolution.
LEMMA CompleteResolves ==
    ASSUME NEW p \in Problem, NEW f \in Frame, FrameOK(p, f),
           \A k \in DOMAIN f.selected : Matches(f.constraints, k, f.selected[k]),
           Constrained(f.constraints) \subseteq DOMAIN f.selected,
           ~Cyclic(p, f.selected)
    PROVE  Resolves(p, f.selected)
  <1>1. \A c \in Required(p, f.selected) :
           c.package \in DOMAIN f.selected /\ f.selected[c.package] \in c.versions
    BY DEF FrameOK, Matches, Constrained
  <1>2. p.roots \subseteq Required(p, f.selected)
    BY DEF Required
  <1>3. \A k \in DOMAIN f.selected : Needs(p, k, f.selected[k]) \subseteq Required(p, f.selected)
    BY DEF Required
  <1> QED BY <1>1, <1>2, <1>3 DEF Resolves, FrameOK
-----------------------------------------------------------------------------
(* The invariant. *)

LEMMA AnswerShape ==
    /\ Open \in Answer
    /\ \A s \in Selections : Found(s) \in Answer
  BY EmptyShape DEF Open, Found, Kinds, Answer

LEMMA FailedShape ==
    ASSUME NEW kind \in Kinds, NEW lacking \in SUBSET Registries
    PROVE  Failed(kind, lacking) \in Answer
  BY EmptyShape DEF Failed, Answer

LEMMA NoFrames == << >> \in Seq(Frame)
  OBVIOUS

\* What holds while the search goes on.
LEMMA TopFacts ==
    ASSUME SolverInv, Searching
    PROVE  /\ problem \in Problem
           /\ frames \in Seq(Frame)
           /\ Depth \in Nat /\ Depth > 0
           /\ Top \in Frame
           /\ Chain(problem, frames)
           /\ FrameOK(problem, Top)
           /\ TopOK(problem, Top)
  <1>1. problem \in Problem /\ frames \in Seq(Frame) /\ Chain(problem, frames)
    BY DEF SolverInv, SolverTypeOK, Searching
  <1>2. Depth \in Nat /\ Depth > 0
    BY <1>1 DEF Chain, Calls, Depth
  <1>3. Top \in Frame
    BY <1>1, <1>2 DEF Top, Depth
  <1>4. FrameOK(problem, Top) /\ TopOK(problem, Top)
    BY <1>1, <1>2 DEF Chain, Calls, Top, Depth
  <1> QED BY <1>1, <1>2, <1>3, <1>4

LEMMA FailKeeps ==
    ASSUME SolverInv, Searching, DeadEnd(problem, Top.selected),
           NEW kind \in Failures, NEW lacking \in SUBSET Registries, Fail(kind, lacking)
    PROVE  SolverInv'
  <1> DEFINE n == Len(frames)
             Below(i) == IF i = n - 1
                         THEN [frames[i] EXCEPT !.failure = kind, !.lacking = lacking]
                         ELSE frames[i]
  <1>1. /\ problem \in Problem /\ frames \in Seq(Frame) /\ n \in Nat /\ n > 0
        /\ Chain(problem, frames)
    BY TopFacts DEF Depth
  <1>2. /\ frames' = [i \in 1..(n - 1) |-> Below(i)]
        /\ answer' = IF n = 1 THEN Failed(kind, lacking) ELSE Open
        /\ problem' = problem /\ attempts' = attempts
    BY DEF Fail, Depth
  <1>3. \A i \in 1..(n - 1) : frames[i] \in Frame
    BY <1>1
  <1>4. \A i \in 1..(n - 1) : /\ Below(i) \in Frame
                              /\ Below(i).constraints = frames[i].constraints
                              /\ Below(i).selected = frames[i].selected
                              /\ Below(i).package = frames[i].package
                              /\ Below(i).left = frames[i].left
    BY <1>3 DEF Frame
  <1> HIDE DEF n, Below
  <1>5. frames' \in Seq(Frame) /\ Len(frames') = n - 1
    BY <1>1, <1>2, <1>4
  <1>6. \A i \in 1..(n - 1) : frames'[i] = Below(i)
    BY <1>2
  <1>7. SolverTypeOK'
    BY <1>1, <1>2, <1>5, AnswerShape, FailedShape DEF SolverInv, SolverTypeOK, Kinds
  <1>8. CASE n = 1
    <2>1. answer'.kind = kind /\ kind \notin {"open", "found"}
      BY <1>2, <1>8 DEF Failed, Failures
    <2>2. frames[n].selected = Empty
      BY <1>1, <1>8 DEF Chain, Calls
    <2>3. \A s \in Selections : ~Resolves(problem, s)
      BY <2>2, EmptyShape DEF DeadEnd, Completes, Agrees, Top, Depth, n
    <2>4. problem' = problem
      BY <1>2
    <2>5. \A s \in Selections : ~Resolves(problem', s)
      BY <2>3, <2>4
    <2>6. FailureIsReal'
      BY <2>5 DEF FailureIsReal
    <2> QED BY <1>7, <2>1, <2>6 DEF SolverInv, Returned
  <1>9. CASE n # 1
    <2>1. answer'.kind = "open"
      BY <1>2, <1>9 DEF Open
    <2>2. n > 1
      BY <1>1, <1>9
    <2>3. DeadEnd(problem, frames[n].selected)
      BY DEF Top, Depth, n
    <2>4. Chain(problem, frames')
      BY <1>1, <1>4, <1>5, <1>6, <2>2, <2>3, PopKeepsChain DEF n
    <2> QED BY <1>2, <1>7, <2>1, <2>4 DEF SolverInv, Returned, FailureIsReal
  <1> QED BY <1>8, <1>9

\* A step that only changes the top frame.
LEMMA ReplaceTopKeeps ==
    ASSUME SolverInv, Searching, NEW f \in Frame, ReplaceTop(f),
           f.selected = Top.selected, FrameOK(problem, f), TopOK(problem, f),
           problem' = problem, answer' = answer, attempts' \in Nat
    PROVE  SolverInv'
  <1>1. problem \in Problem /\ frames \in Seq(Frame) /\ Chain(problem, frames)
    BY TopFacts
  <1>2. frames' = [frames EXCEPT ![Len(frames)] = f]
    BY DEF ReplaceTop, Depth
  <1>3. f.selected = frames[Len(frames)].selected
    BY DEF Top, Depth
  <1>4. /\ frames' \in Seq(Frame) /\ Len(frames') = Len(frames)
        /\ frames'[Len(frames)] = f /\ Calls(problem, frames')
    BY <1>1, <1>2, <1>3, ReplaceKeepsCalls DEF Chain
  <1>5. Chain(problem, frames')
    BY <1>4 DEF Chain
  <1> QED BY <1>4, <1>5 DEF SolverInv, SolverTypeOK, Returned, FailureIsReal, Searching

LEMMA FailingKeeps ==
    ASSUME SolverInv,
           \/ RejectConflict \/ RejectCycle \/ Exhaust
           \/ \E k \in Packages : RejectMissing(k)
    PROVE  SolverInv'
  <1> USE DEF Failures
  <1>1. CASE RejectConflict
    <2>1. Searching /\ Fail("no compatible version", {})
      BY <1>1 DEF RejectConflict, Entered
    <2>2. DeadEnd(problem, Top.selected)
      BY <1>1, <2>1, TopFacts, ConflictIsDead DEF RejectConflict, Conflict
    <2> QED BY <2>1, <2>2, FailKeeps
  <1>2. CASE RejectCycle
    <2>1. Searching /\ Fail("cycle", {}) /\ Cyclic(problem, Top.selected)
      BY <1>2 DEF RejectCycle, RefuseGraph, Complete, Entered
    <2>2. DeadEnd(problem, Top.selected)
      BY <2>1, TopFacts, CycleIsDead DEF Frame
    <2> QED BY <2>1, <2>2, FailKeeps
  <1>3. CASE Exhaust
    <2>1. Searching /\ Top.package # Undecided /\ Top.left = {}
      BY <1>3 DEF Exhaust, Deciding
    <2>2. DeadEnd(problem, Top.selected)
      BY <2>1, TopFacts, ExhaustedIsDead DEF TopOK
    <2>3. CASE Top.failure = "none"
      BY <1>3, <2>1, <2>2, <2>3, FailKeeps DEF Exhaust
    <2>4. CASE Top.failure # "none"
      <3>1. Top.failure \in Failures /\ Top.lacking \in SUBSET Registries
        BY <2>1, <2>4, TopFacts DEF Frame
      <3>2. Fail(Top.failure, Top.lacking)
        BY <1>3, <2>4 DEF Exhaust
      <3> QED BY <2>1, <2>2, <3>1, <3>2, FailKeeps
    <2> QED BY <2>3, <2>4
  <1>4. ASSUME NEW k \in Packages, RejectMissing(k) PROVE SolverInv'
    <2>1. Searching /\ k \in Constrained(Top.constraints) /\ ~Available(problem, k)
      BY <1>4 DEF RejectMissing, FirstUndecided, Entered, Undecideds
    <2>2. DeadEnd(problem, Top.selected)
      BY <2>1, TopFacts, MissingIsDead
    <2>3. {RegistryOf[k]} \in SUBSET Registries
      BY ResolutionAssumption
    <2>4. Fail("missing package", {}) \/ Fail("missing snapshot", {RegistryOf[k]})
      BY <1>4 DEF RejectMissing
    <2> QED BY <2>1, <2>2, <2>3, <2>4, FailKeeps
  <1> QED BY <1>1, <1>2, <1>3, <1>4

LEMMA ChooseKeeps ==
    ASSUME SolverInv, NEW k \in Packages, ChoosePackage(k)
    PROVE  SolverInv'
  <1> DEFINE f == [Top EXCEPT !.package = k, !.left = DOMAIN problem.index[k]]
  <1>1. /\ Searching /\ k \in Constrained(Top.constraints) \ DOMAIN Top.selected
        /\ k \in DOMAIN problem.index
        /\ ReplaceTop(f) /\ UNCHANGED <<problem, attempts, answer>>
    BY DEF ChoosePackage, FirstUndecided, Entered, Undecideds, Available
  <1>2. problem \in Problem /\ Top \in Frame /\ FrameOK(problem, Top)
    BY <1>1, TopFacts
  <1>3. DOMAIN problem.index[k] \in SUBSET Versions
    BY <1>1, <1>2, IndexVersions
  <1>4. /\ f \in Frame /\ f.selected = Top.selected /\ f.constraints = Top.constraints
        /\ f.package = k /\ f.left = DOMAIN problem.index[k]
    BY <1>2, <1>3 DEF Frame
  <1> HIDE DEF f
  <1>5. FrameOK(problem, f)
    BY <1>1, <1>2, <1>4 DEF FrameOK
  <1>6. Confined(problem, f, DOMAIN problem.index[f.package])
    BY <1>1, <1>2, <1>4, ChoiceConfines
  <1>7. TopOK(problem, f)
    BY <1>4, <1>6 DEF TopOK
  <1>8. attempts' \in Nat
    BY <1>1 DEF SolverInv, SolverTypeOK
  <1> QED BY <1>1, <1>4, <1>5, <1>7, <1>8, ReplaceTopKeeps

\* A frame without one of its candidates.
LEMMA WithoutCandidate ==
    ASSUME SolverInv, Deciding, NEW v
    PROVE  LET f == [Top EXCEPT !.left = @ \ {v}]
           IN /\ f \in Frame /\ f.selected = Top.selected
              /\ f.constraints = Top.constraints
              /\ f.package = Top.package /\ f.left = Top.left \ {v}
              /\ FrameOK(problem, f)
  <1> DEFINE f == [Top EXCEPT !.left = @ \ {v}]
  <1>1. Top \in Frame /\ FrameOK(problem, Top)
    BY TopFacts DEF Deciding
  <1>2. /\ f \in Frame /\ f.selected = Top.selected /\ f.constraints = Top.constraints
        /\ f.package = Top.package /\ f.left = Top.left \ {v}
    BY <1>1 DEF Frame
  <1> QED BY <1>1, <1>2 DEF FrameOK

LEMMA WithoutRefused ==
    ASSUME SolverInv, Deciding, NEW v, NEW r \in Registries
    PROVE  LET f == [Top EXCEPT !.left = @ \ {v}, !.failure = "missing snapshot",
                                !.lacking = {r}]
           IN /\ f \in Frame /\ f.selected = Top.selected
              /\ f.constraints = Top.constraints
              /\ f.package = Top.package /\ f.left = Top.left \ {v}
              /\ FrameOK(problem, f)
  <1> DEFINE f == [Top EXCEPT !.left = @ \ {v}, !.failure = "missing snapshot",
                              !.lacking = {r}]
  <1>1. Top \in Frame /\ FrameOK(problem, Top)
    BY TopFacts DEF Deciding
  <1>2. /\ f.selected = Top.selected /\ f.constraints = Top.constraints
        /\ f.package = Top.package /\ f.left = Top.left \ {v}
        /\ f.failure = "missing snapshot" /\ f.lacking = {r}
    BY <1>1 DEF Frame
  <1>3. f \in Frame
    BY <1>1 DEF Frame, Failures
  <1> HIDE DEF f
  <1>4. FrameOK(problem, f)
    BY <1>1, <1>2 DEF FrameOK
  <1> QED BY <1>2, <1>3, <1>4 DEF f

LEMMA SkipKeeps ==
    ASSUME SolverInv, NEW v \in Versions, SkipRelease(v)
    PROVE  SolverInv'
  <1> DEFINE f == [Top EXCEPT !.left = @ \ {v}]
  <1>1. /\ Deciding /\ Searching /\ Top.package # Undecided /\ ReplaceTop(f)
        /\ ~(Matches(Top.constraints, Top.package, v) /\ Eligible(problem, Top.package, v))
        /\ UNCHANGED <<problem, attempts, answer>>
    BY DEF SkipRelease, Candidate, Deciding, Usable
  <1>2. problem \in Problem /\ Top \in Frame /\ FrameOK(problem, Top) /\ TopOK(problem, Top)
    BY <1>1, TopFacts
  <1>3. /\ f \in Frame /\ f.selected = Top.selected
        /\ f.package = Top.package /\ f.left = Top.left \ {v} /\ FrameOK(problem, f)
    BY <1>1, WithoutCandidate
  <1> HIDE DEF f
  <1>4. Confined(problem, Top, Top.left \ {v})
    BY <1>1, <1>2, SkipConfines DEF TopOK
  <1>5. TopOK(problem, f)
    BY <1>3, <1>4 DEF TopOK, Confined
  <1>6. attempts' \in Nat
    BY <1>1 DEF SolverInv, SolverTypeOK
  <1> QED BY <1>1, <1>3, <1>5, <1>6, ReplaceTopKeeps

LEMMA RefuseKeeps ==
    ASSUME SolverInv, NEW v \in Versions, RefuseRelease(v)
    PROVE  SolverInv'
  <1>1. PICK r \in LackingSnapshots(v) :
           ReplaceTop([Top EXCEPT !.left = @ \ {v}, !.failure = "missing snapshot",
                                  !.lacking = {r}])
    BY DEF RefuseRelease
  <1>2. /\ Deciding /\ Searching /\ Top.package # Undecided
        /\ Eligible(problem, Top.package, v)
        /\ problem' = problem /\ answer' = answer /\ attempts' = attempts + 1
    BY DEF RefuseRelease, Attempt, Candidate, Deciding, Usable
  <1>3. problem \in Problem /\ Top \in Frame /\ FrameOK(problem, Top) /\ TopOK(problem, Top)
    BY <1>2, TopFacts
  <1>4. PICK c \in Needs(problem, Top.package, v) :
           r = RegistryOf[c.package] /\ r \notin problem.loaded
    BY <1>1 DEF LackingSnapshots
  <1>5. r \in Registries
    <2>1. Needs(problem, Top.package, v) \in SUBSET Requirement
      BY <1>2, <1>3, NeedsShape
    <2>2. c.package \in Packages
      BY <1>4, <2>1 DEF Requirement
    <2> QED BY <1>4, <2>2, ResolutionAssumption
  <1> DEFINE f == [Top EXCEPT !.left = @ \ {v}, !.failure = "missing snapshot",
                              !.lacking = {r}]
  <1>6. /\ f \in Frame /\ f.selected = Top.selected
        /\ f.package = Top.package /\ f.left = Top.left \ {v} /\ FrameOK(problem, f)
    BY <1>2, <1>5, WithoutRefused
  <1> HIDE DEF f
  <1>7. Confined(problem, Top, Top.left \ {v})
    BY <1>2, <1>3, <1>4, RefusalConfines DEF TopOK
  <1>8. TopOK(problem, f)
    BY <1>6, <1>7 DEF TopOK, Confined
  <1>9. attempts' \in Nat
    BY <1>2 DEF SolverInv, SolverTypeOK
  <1>10. ReplaceTop(f)
    BY <1>1 DEF f
  <1> QED BY <1>2, <1>6, <1>8, <1>9, <1>10, ReplaceTopKeeps

LEMMA TryKeeps ==
    ASSUME SolverInv, NEW v \in Versions, TryRelease(v)
    PROVE  SolverInv'
  <1> DEFINE n == Len(frames)
             f == [Top EXCEPT !.left = @ \ {v}]
             gs == [frames EXCEPT ![n] = f]
             g == Call(Top.constraints \cup Needs(problem, Top.package, v),
                       Extend(Top.selected, Top.package, v))
  <1>1. /\ Deciding /\ Searching /\ Top.package # Undecided
        /\ v \in Top.left /\ \A w \in Top.left : w <= v
        /\ Eligible(problem, Top.package, v)
        /\ problem' = problem /\ answer' = answer /\ attempts' = attempts + 1
    BY DEF TryRelease, Attempt, Candidate, Deciding, Usable
  <1>2. /\ problem \in Problem /\ frames \in Seq(Frame) /\ n \in Nat /\ n > 0
        /\ Top \in Frame /\ Top = frames[n] /\ Chain(problem, frames)
        /\ TopOK(problem, Top)
    BY <1>1, TopFacts DEF Top, Depth
  <1>3. /\ f \in Frame /\ f.selected = Top.selected /\ f.constraints = Top.constraints
        /\ f.package = Top.package /\ f.left = Top.left \ {v} /\ FrameOK(problem, f)
    BY <1>1, WithoutCandidate
  <1>4. frames' = Append(gs, g)
    BY DEF TryRelease, Depth, Top
  <1> HIDE DEF f
  <1>5. /\ g \in Frame /\ FrameOK(problem, g) /\ Agrees(g.selected, f.selected)
        /\ f.package \in DOMAIN g.selected /\ g.selected[f.package] = v
    <2>1. /\ g = Call(f.constraints \cup Needs(problem, f.package, v),
                      Extend(f.selected, f.package, v))
          /\ f.package # Undecided /\ Eligible(problem, f.package, v)
      BY <1>1, <1>3
    <2>2. problem \in Problem /\ f \in Frame /\ FrameOK(problem, f)
      BY <1>2, <1>3
    <2> HIDE DEF g
    <2> QED BY <2>1, <2>2, CallForRelease
  <1>6. g.package = Undecided /\ g.selected = Extend(f.selected, f.package, v)
    BY <1>3 DEF Call
  <1> HIDE DEF g
  <1>7. gs \in Seq(Frame) /\ Len(gs) = n /\ gs[n] = f /\ Calls(problem, gs)
    BY <1>2, <1>3, ReplaceKeepsCalls DEF Chain
  <1> HIDE DEF gs, n
  <1>8. CallOK(problem, f, g)
    <2>1. \A w \in f.left : w < v
      BY <1>1, <1>2, <1>3, ResolutionAssumption DEF Frame
    <2>2. Confined(problem, Top, Top.left)
      BY <1>1, <1>2 DEF TopOK
    <2>3. Confined(problem, f, f.left \cup {v})
      BY <1>3, <2>2 DEF Confined
    <2> QED BY <1>1, <1>3, <1>5, <1>6, <2>1, <2>3 DEF CallOK
  <1>9. frames' \in Seq(Frame) /\ Chain(problem, frames')
    BY <1>2, <1>4, <1>5, <1>6, <1>7, <1>8, PushKeepsCalls
  <1>10. attempts' \in Nat
    BY <1>1 DEF SolverInv, SolverTypeOK
  <1> QED BY <1>1, <1>9, <1>10 DEF SolverInv, SolverTypeOK, Returned, FailureIsReal, Searching

LEMMA SucceedKeeps ==
    ASSUME SolverInv, Succeed
    PROVE  SolverInv'
  <1>1. /\ Searching /\ ~Cyclic(problem, Top.selected)
        /\ answer' = Found(Top.selected) /\ UNCHANGED <<problem, frames, attempts>>
        /\ \A k \in DOMAIN Top.selected : Matches(Top.constraints, k, Top.selected[k])
        /\ Constrained(Top.constraints) \subseteq DOMAIN Top.selected
    BY DEF Succeed, TakeGraph, Complete, Entered, Conflict, Undecideds
  <1>2. /\ problem \in Problem /\ Top \in Frame /\ FrameOK(problem, Top)
        /\ Chain(problem, frames)
    BY <1>1, TopFacts
  <1>3. Resolves(problem, Top.selected)
    BY <1>1, <1>2, CompleteResolves
  <1>4. Top.selected \in Selections /\ Top' = Top
    BY <1>1, <1>2 DEF Frame, Top, Depth
  <1>5. answer'.kind = "found" /\ answer'.selected = Top.selected
    BY <1>1 DEF Found
  <1>6. SolverTypeOK'
    BY <1>1, <1>4, AnswerShape DEF SolverInv, SolverTypeOK
  <1>7. Returned'
    <2>1. problem' = problem
      BY <1>1
    <2>2. Resolves(problem, answer'.selected) /\ Top' = Top
      BY <1>3, <1>4, <1>5
    <2> QED BY <1>3, <1>4, <1>5, <2>1, <2>2 DEF Returned
  <1>8. Chain(problem, frames)'
    <2>1. problem' = problem /\ frames' = frames
      BY <1>1
    <2> QED BY <1>2, <2>1
  <1>9. FailureIsReal'
    BY <1>5 DEF FailureIsReal
  <1> QED BY <1>6, <1>7, <1>8, <1>9 DEF SolverInv

LEMMA LimitKeeps ==
    ASSUME SolverInv, NEW v \in Versions, ExceedLimit(v)
    PROVE  SolverInv'
  <1>1. /\ answer' = Failed("limit", {}) /\ attempts' = attempts + 1
        /\ UNCHANGED <<problem, frames>>
    BY DEF ExceedLimit
  <1>2. answer'.kind = "limit"
    BY <1>1 DEF Failed
  <1>3. Failed("limit", {}) \in Answer
    BY FailedShape DEF Kinds
  <1>4. attempts' \in Nat
    BY <1>1 DEF SolverInv, SolverTypeOK
  <1>5. SolverTypeOK'
    BY <1>1, <1>3, <1>4 DEF SolverInv, SolverTypeOK
  <1> QED BY <1>2, <1>5 DEF SolverInv, Returned, FailureIsReal

LEMMA ResolveKeeps ==
    ASSUME SolverInv, NEW p \in Problem, Resolve(p)
    PROVE  SolverInv'
  <1>1. problem' = p /\ attempts' = 0
    BY DEF Resolve
  <1>2. CASE Unsupplied(p) = {}
    <2>1. frames' = <<Call(p.roots, Empty)>> /\ answer' = Open
      BY <1>2 DEF Resolve
    <2>2. answer'.kind = "open"
      BY <2>1 DEF Open
    <2> QED BY <1>1, <2>1, <2>2, FirstCall, AnswerShape
            DEF SolverInv, SolverTypeOK, Returned, FailureIsReal
  <1>3. CASE Unsupplied(p) # {}
    <2>1. PICK r \in Unsupplied(p) : answer' = Failed("missing snapshot", {r})
      BY <1>3 DEF Resolve
    <2>2. PICK c \in p.roots : r = RegistryOf[c.package] /\ r \notin p.loaded
      BY DEF Unsupplied
    <2>3. r \in Registries
      BY <2>2, ResolutionAssumption DEF Problem, Requirement
    <2>4. frames' = << >>
      BY <1>3 DEF Resolve
    <2>5. SolverTypeOK'
      BY <1>1, <2>1, <2>3, <2>4, FailedShape, NoFrames DEF SolverTypeOK, Kinds, Failures
    <2>6. \A s \in Selections : ~Resolves(p, s)
      BY <2>2 DEF Resolves, Eligible, Available, Loaded
    <2>7. answer'.kind = "missing snapshot"
      BY <2>1 DEF Failed
    <2>8. FailureIsReal'
      BY <1>1, <2>6 DEF FailureIsReal, Resolves, Eligible, Available, Loaded, Needs, Cyclic
    <2> QED BY <2>5, <2>7, <2>8 DEF SolverInv, Returned
  <1> QED BY <1>2, <1>3

LEMMA ReturnKeeps ==
    ASSUME SolverInv, Return
    PROVE  SolverInv'
  <1>1. /\ problem' = NoProblem /\ frames' = << >> /\ attempts' = 0
        /\ answer' = Failed("idle", {})
    BY DEF Return
  <1>2. answer'.kind = "idle"
    BY <1>1 DEF Failed
  <1>3. SolverTypeOK'
    BY <1>1, NoProblemShape, FailedShape, NoFrames DEF SolverTypeOK, Kinds
  <1> QED BY <1>2, <1>3 DEF SolverInv, Returned, FailureIsReal

\* One step of the search, but for the graphs it has completed.
LEMMA SearchKeeps ==
    ASSUME SolverInv, SearchStep
    PROVE  SolverInv'
  <1>1. CASE RejectConflict \/ Exhaust
    BY <1>1, FailingKeeps
  <1>2. ASSUME NEW k \in Packages, RejectMissing(k) \/ ChoosePackage(k) PROVE SolverInv'
    BY <1>2, FailingKeeps, ChooseKeeps
  <1>3. ASSUME NEW v \in Versions,
               SkipRelease(v) \/ ExceedLimit(v) \/ RefuseRelease(v) \/ TryRelease(v)
        PROVE  SolverInv'
    BY <1>3, SkipKeeps, LimitKeeps, RefuseKeeps, TryKeeps
  <1> QED BY <1>1, <1>2, <1>3 DEF SearchStep

LEMMA SolverKeeps ==
    ASSUME SolverInv, [SolverNext]_solverVars
    PROVE  SolverInv'
  <1>1. CASE SearchStep
    BY <1>1, SearchKeeps
  <1>2. CASE RejectCycle
    BY <1>2, FailingKeeps
  <1>3. CASE Succeed
    BY <1>3, SucceedKeeps
  <1>4. CASE Return
    BY <1>4, ReturnKeeps
  <1>5. ASSUME NEW p \in Problem, Resolve(p) PROVE SolverInv'
    BY <1>5, ResolveKeeps
  <1>6. CASE UNCHANGED solverVars
    BY <1>6 DEF solverVars, SolverInv, SolverTypeOK, Returned, FailureIsReal, Top, Depth,
                Resolves, Eligible, Available, Loaded, Needs, Cyclic
  <1> QED BY <1>1, <1>2, <1>3, <1>4, <1>5, <1>6 DEF SolverNext, SolverStep

LEMMA SolverStarts == SolverInit => SolverInv
  <1> SUFFICES ASSUME SolverInit PROVE SolverInv
    OBVIOUS
  <1>1. answer.kind = "idle"
    BY DEF SolverInit, Failed
  <1>2. SolverTypeOK
    BY NoProblemShape, FailedShape, NoFrames DEF SolverInit, SolverTypeOK, Kinds
  <1> QED BY <1>1, <1>2 DEF SolverInv, Returned, FailureIsReal

\* The search keeps its invariant: what it gives up is in no resolution that
\* agrees with what it has decided (solve_registry_constraints).
THEOREM SolverInvariant == SolverSpec => []SolverInv
  <1> QED BY SolverStarts, SolverKeeps, PTL DEF SolverSpec

-----------------------------------------------------------------------------
\* A search that fails, but for the limit, fails because there is no
\* resolution (solve_registry_constraints).
THEOREM FailuresAreReal == SolverSpec => []FailureIsReal
  <1>1. SolverInv => FailureIsReal
    BY DEF SolverInv
  <1> QED BY <1>1, SolverInvariant, PTL

\* The highest, in the order of the decisions.
LEMMA FoundIsHighest ==
    ASSUME SolverInv, answer.kind = "found"
    PROVE  Highest(problem)
  <1>1. Chain(problem, frames) /\ answer.selected = Top.selected
    BY DEF SolverInv, Returned
  <1> SUFFICES ASSUME NEW s \in Selections, Resolves(problem, s),
                      NEW i \in 1..(Depth - 1), Agrees(s, frames[i].selected)
               PROVE  s[frames[i].package] <= answer.selected[frames[i].package]
    BY DEF Highest
  <1> DEFINE f == frames[i]
             g == frames[i + 1]
             k == f.package
  <1>2. /\ Depth \in Nat /\ Depth > 0 /\ i \in 1..Depth /\ i + 1 \in 1..Depth
        /\ frames \in Seq(Frame)
    BY <1>1 DEF Chain, Calls, Depth, SolverInv, SolverTypeOK
  <1>3. CallOK(problem, f, g)
    BY <1>1, <1>2 DEF Chain, Calls, Depth
  <1>4. g \in Frame /\ f \in Frame
    BY <1>2 DEF Depth
  <1>5. Agrees(Top.selected, g.selected)
    BY <1>1, <1>2 DEF Chain, Calls, Depth, Top
  <1>6. k \in DOMAIN g.selected /\ answer.selected[k] = g.selected[k]
    BY <1>1, <1>3, <1>5 DEF CallOK, Agrees
  <1>7. s[k] \in f.left \cup {g.selected[k]}
    BY <1>3 DEF CallOK, Confined, Completes
  <1>8. g.selected[k] \in Nat /\ f.left \in SUBSET Nat
    <2>1. g.selected \in [DOMAIN g.selected -> Versions]
      BY <1>4, SelectionShape DEF Frame
    <2> QED BY <1>4, <1>6, <2>1, ResolutionAssumption DEF Frame
  <1>9. \A w \in f.left : w < g.selected[k]
    BY <1>3 DEF CallOK
  <1> QED BY <1>6, <1>7, <1>8, <1>9

LEMMA FoundSparesNothing ==
    ASSUME SolverInv, answer.kind = "found"
    PROVE  NothingSpare(problem, answer.selected)
  <1>1. Chain(problem, frames) /\ answer.selected = Top.selected
    BY DEF SolverInv, Returned
  <1>2. FrameOK(problem, Top) /\ Top \in Frame
    BY <1>1 DEF Chain, Calls, Top, Depth, SolverInv, SolverTypeOK
  <1>3. DOMAIN Top.selected \in SUBSET Packages
    BY <1>2, SelectionShape DEF Frame
  <1> SUFFICES ASSUME NEW T \in SUBSET DOMAIN Top.selected,
                      Constrained(problem.roots) \subseteq T,
                      \A k \in T : Constrained(Needs(problem, k, Top.selected[k])) \subseteq T
               PROVE  T = DOMAIN Top.selected
    BY <1>1 DEF NothingSpare
  <1>4. DOMAIN Top.selected \subseteq T
    BY <1>2, <1>3 DEF FrameOK, Needed
  <1> QED BY <1>4

LEMMA BestWhenFound == SolverInv => SelectionIsBest
  <1> SUFFICES ASSUME SolverInv, answer.kind = "found"
               PROVE  /\ answer.selected \in Selections
                      /\ Resolves(problem, answer.selected)
                      /\ NothingSpare(problem, answer.selected)
                      /\ Highest(problem)
    BY DEF SelectionIsBest
  <1>1. answer.selected \in Selections
    BY DEF SolverInv, SolverTypeOK, Answer
  <1>2. Resolves(problem, answer.selected)
    BY DEF SolverInv, Returned
  <1> QED BY <1>1, <1>2, FoundIsHighest, FoundSparesNothing

\* A search that succeeds returns the highest resolution, with nothing spare
\* in it (solve_registry_constraints).
THEOREM SelectionsAreBest == SolverSpec => []SelectionIsBest
  <1> QED BY BestWhenFound, SolverInvariant, PTL
-----------------------------------------------------------------------------
(***************************************************************************)
(* The builds.  A walk knows that what it has visited depends on nothing   *)
(* else and has no cycle, that what it is visiting is a chain of           *)
(* dependencies, and that every closed set with the starting points has    *)
(* both.  A build knows what its answer, its walk and its resolution are   *)
(* about.                                                                  *)
(***************************************************************************)

DependencyGraphs == UNION {[S -> SUBSET Packages] : S \in SUBSET Packages}

\* All depend on one of themselves.
Entangled(edges, C) == C # {} /\ \A k \in C : edges[k] \cap C # {}

\* What has been visited, and what is being visited.
VisitedOK == /\ walk.visited \subseteq DOMAIN walk.edges
             /\ \A k \in walk.visited : walk.edges[k] \subseteq walk.visited
             /\ \A C \in SUBSET walk.visited : ~Entangled(walk.edges, C)

PathOK == LET n == Len(walk.path) IN
    /\ \A i \in 1..n : walk.path[i] \in DOMAIN walk.edges \ walk.visited
    /\ \A i \in 1..n : \A j \in 1..n : walk.path[i] = walk.path[j] => i = j
    /\ n > 0 => walk.path[1] \in walk.roots
    /\ \A i \in 1..(n - 1) : walk.path[i + 1] \in walk.edges[walk.path[i]]

\* Every closed set with the starting points has all the walk has seen.
ReachedIn(S) == \A T \in SUBSET S : LeadsTo(walk.edges, walk.roots, T) =>
                      walk.visited \cup Visiting \subseteq T

WalkInv ==
    /\ walk \in [edges : DependencyGraphs, roots : SUBSET Packages, path : Seq(Packages),
                visited : SUBSET Packages, outcome : {"idle", "open", "cycle", "complete"}]
    /\ LeadsTo(walk.edges, walk.roots, DOMAIN walk.edges)
    /\ VisitedOK
    /\ PathOK
    /\ ReachedIn(DOMAIN walk.edges)
    /\ walk.outcome = "complete" => walk.path = << >> /\ walk.roots \subseteq walk.visited
    /\ walk.outcome = "cycle" => HasCycle(walk.edges)
-----------------------------------------------------------------------------
Modes == {"update", "locked", "frozen"}
Phases == {"idle", "read", "load", "search", "walk", "apply", "write", "succeeded", "failed"}

Snapshots == UNION {[R -> Digests] : R \in SUBSET Registries}
Lockfiles == {lock \in [present : BOOLEAN, snapshots : Snapshots, packages : Selections,
                        requests : SUBSET Packages, edges : DependencyGraphs] :
                DOMAIN lock.edges = DOMAIN lock.packages}

Builds == [phase : Phases, mode : Modes, roots : SUBSET Requirement, prior : Lockfiles,
           todo : SUBSET Registries, snapshots : Snapshots, resolution : Lockfiles]

BuildTypeOK == /\ catalog \in Catalogs
               /\ manifest \in Manifests
               /\ config \in [Registries -> Digests]
               /\ lockfile \in Lockfiles
               /\ build \in Builds

\* What a lockfile must be for its packages to be taken without a search.
Sound(lock, roots) == /\ Parses(lock)
                      /\ LockMatches(lock, roots, lock.snapshots)
                      /\ ValidClosure(lock.edges, lock.requests)

\* The walk of a build is over what it has selected, or over its lockfile.
WalkIsOf ==
    \/ walk = NoWalk
    \/ /\ At("search") /\ Complete
       /\ walk.edges = SelectedGraph /\ walk.roots = DOMAIN Top.selected
    \/ /\ At("walk")
       /\ walk.edges = build.prior.edges /\ walk.roots = build.prior.requests

\* A build searches for what it needs, and has an answer only then.
SearchIsOf ==
    IF At("search")
    THEN /\ build.mode = "update"
         /\ answer.kind # "idle"
         /\ problem = ProblemOf(build.roots, build.snapshots,
                                LockedReleases(build.prior, build.snapshots))
    ELSE answer.kind = "idle"

\* A locked build loads the snapshots its lockfile names.
LoadsLocked ==
    /\ At("read") => build.snapshots = Empty
    /\ build.phase \in {"load", "walk"} /\ build.mode # "update" =>
        /\ Parses(build.prior)
        /\ DOMAIN build.prior.snapshots \subseteq DOMAIN build.snapshots \cup build.todo
        /\ \A r \in DOMAIN build.snapshots :
              r \in DOMAIN build.prior.snapshots
              /\ build.snapshots[r] = build.prior.snapshots[r]
    /\ At("walk") => /\ build.mode # "update"
                     /\ LockMatches(build.prior, build.roots, build.prior.snapshots)

ResolutionIsSound ==
    build.phase \in {"apply", "write", "succeeded"} /\ build.roots # {} =>
        Sound(build.resolution, build.roots)

BuildInv == /\ SolverInv
            /\ WalkInv
            /\ BuildTypeOK
            /\ WalkIsOf
            /\ SearchIsOf
            /\ LoadsLocked
            /\ ResolutionIsSound
-----------------------------------------------------------------------------
(* The walks. *)

LEMMA NoWalkInv == walk = NoWalk => WalkInv
  <1> SUFFICES ASSUME walk = NoWalk PROVE WalkInv
    OBVIOUS
  <1>1. /\ walk.path = << >> /\ walk.visited = {} /\ walk.roots = {}
        /\ walk.outcome = "idle" /\ DOMAIN walk.edges = {}
    BY DEF NoWalk
  <1>2. [k \in {} |-> {}] \in [{} -> SUBSET Packages]
    OBVIOUS
  <1>3. [k \in {} |-> {}] \in DependencyGraphs
    BY <1>2 DEF DependencyGraphs
  <1>4. << >> \in Seq(Packages)
    OBVIOUS
  <1>5. VisitedOK
    BY <1>1 DEF VisitedOK, Entangled
  <1>6. PathOK /\ Visiting = {}
    BY <1>1 DEF PathOK, Visiting
  <1> QED BY <1>1, <1>5, <1>6, <1>3, <1>4 DEF WalkInv, ReachedIn, LeadsTo, NoWalk

LEMMA BeginWalkInv ==
    ASSUME NEW edges \in DependencyGraphs, NEW roots \in SUBSET Packages,
           LeadsTo(edges, roots, DOMAIN edges), BeginWalk(edges, roots)
    PROVE  WalkInv'
  <1>1. /\ walk'.path = << >> /\ walk'.visited = {} /\ walk'.roots = roots
        /\ walk'.outcome = "open" /\ walk'.edges = edges
    BY DEF BeginWalk
  <1>2. VisitedOK'
    BY <1>1 DEF VisitedOK, Entangled
  <1>3. PathOK' /\ Visiting' = {}
    BY <1>1 DEF PathOK, Visiting
  <1>4. << >> \in Seq(Packages)
    OBVIOUS
  <1>5. walk' = [edges |-> edges, roots |-> roots, path |-> << >>, visited |-> {},
                outcome |-> "open"]
    BY DEF BeginWalk
  <1> QED BY <1>1, <1>2, <1>3, <1>4, <1>5 DEF WalkInv, ReachedIn, LeadsTo

\* A step of a walk keeps the graph.
LEMMA WalkKeepsGraph ==
    ASSUME WalkInv, WalkStep(Packages)
    PROVE  walk.outcome = "open" /\ UNCHANGED <<walk.edges, walk.roots>>
  BY DEF WalkInv, WalkStep, MeetCycle, EnterPackage, LeavePackage, CompleteWalk, Visits, EndWalk

LEMMA AheadShape ==
    ASSUME WalkInv
    PROVE  /\ Ahead \subseteq DOMAIN walk.edges \ walk.visited
           /\ walk.path # << >> => /\ Len(walk.path) \in Nat /\ Len(walk.path) > 0
                                  /\ Innermost \in DOMAIN walk.edges \ walk.visited
                                  /\ Innermost \in Visiting
  <1>1. CASE walk.path = << >>
    BY <1>1 DEF WalkInv, LeadsTo, Ahead, Finished
  <1>2. CASE walk.path # << >>
    <2>1. Len(walk.path) \in Nat /\ Len(walk.path) > 0
      BY <1>2 DEF WalkInv
    <2>2. Innermost \in DOMAIN walk.edges \ walk.visited /\ Innermost \in Visiting
      BY <2>1 DEF WalkInv, PathOK, Innermost, Visiting
    <2> QED BY <1>2, <2>1, <2>2 DEF WalkInv, LeadsTo, Ahead, Finished
  <1> QED BY <1>1, <1>2

\* What comes back to a package that is being visited is a cycle.
LEMMA MeetingIsCycle ==
    ASSUME WalkInv, NEW k, MeetCycle(k)
    PROVE  HasCycle(walk.edges)
  <1>1. k \in Ahead /\ k \in Visiting
    BY DEF MeetCycle, Visits
  <1> DEFINE n == Len(walk.path)
  <1>2. PICK i \in 1..n : k = walk.path[i]
    BY <1>1 DEF Visiting
  <1>3. walk.path # << >> /\ n \in Nat /\ i \in Nat /\ i <= n
    BY <1>2 DEF WalkInv
  <1>4. k \in walk.edges[walk.path[n]]
    BY <1>1, <1>3 DEF Ahead, Innermost
  <1> DEFINE C == {walk.path[j] : j \in i..n}
  <1>5. C \subseteq DOMAIN walk.edges /\ k \in C
    BY <1>2, <1>3 DEF WalkInv, PathOK
  <1>6. ASSUME NEW j \in i..n PROVE walk.edges[walk.path[j]] \cap C # {}
    <2>1. CASE j = n
      BY <1>4, <1>5, <2>1
    <2>2. CASE j < n
      <3>1. j \in 1..(n - 1) /\ j + 1 \in i..n
        BY <1>2, <1>3, <2>2
      <3>2. walk.path[j + 1] \in walk.edges[walk.path[j]] /\ walk.path[j + 1] \in C
        BY <3>1 DEF WalkInv, PathOK
      <3> QED BY <3>2
    <2> QED BY <1>3, <2>1, <2>2
  <1>7. C # {} /\ \A m \in C : walk.edges[m] \cap C # {}
    BY <1>5, <1>6
  <1> QED BY <1>5, <1>7 DEF HasCycle

LEMMA EnterKeepsWalk ==
    ASSUME WalkInv, NEW k \in Packages, EnterPackage(k)
    PROVE  WalkInv'
  <1> DEFINE n == Len(walk.path)
  <1>1. /\ k \in Ahead /\ k \notin Visiting /\ walk.outcome = "open"
        /\ k \in DOMAIN walk.edges \ walk.visited
    BY AheadShape DEF EnterPackage, Visits
  <1>2. /\ n \in Nat /\ (walk.path = << >> <=> n = 0)
        /\ VisitedOK /\ PathOK /\ ReachedIn(DOMAIN walk.edges)
    BY DEF WalkInv
  <1>3. /\ walk' = [walk EXCEPT !.path = Append(walk.path, k)]
        /\ walk'.edges = walk.edges /\ walk'.roots = walk.roots
        /\ walk'.visited = walk.visited /\ walk'.outcome = "open"
        /\ walk'.path = Append(walk.path, k)
    BY <1>1 DEF EnterPackage, WalkInv
  <1>4. /\ Len(walk'.path) = n + 1
        /\ walk'.path[n + 1] = k
        /\ \A i \in 1..n : walk'.path[i] = walk.path[i]
    BY <1>3 DEF WalkInv
  <1>5. VisitedOK'
    BY <1>2, <1>3 DEF VisitedOK, Entangled
  <1>6. PathOK'
    <2>1. \A i \in 1..(n + 1) : walk'.path[i] \in DOMAIN walk.edges \ walk.visited
      <3>1. \A i \in 1..n : walk'.path[i] \in DOMAIN walk.edges \ walk.visited
        BY <1>2, <1>4 DEF PathOK
      <3> QED BY <1>1, <1>2, <1>4, <3>1
    <2>2. \A i \in 1..(n + 1) : \A j \in 1..(n + 1) : walk'.path[i] = walk'.path[j] => i = j
      <3>1. \A i \in 1..n : \A j \in 1..n : walk'.path[i] = walk'.path[j] => i = j
        BY <1>2, <1>4 DEF PathOK
      <3>2. \A i \in 1..n : walk'.path[i] # k
        BY <1>1, <1>4 DEF Visiting
      <3> HIDE DEF n
      <3> QED BY <1>2, <1>4, <3>1, <3>2
    <2>3. walk'.path[1] \in walk.roots
      <3>1. CASE n = 0
        BY <1>1, <1>2, <1>4, <3>1 DEF Ahead
      <3>2. CASE n > 0
        BY <1>2, <1>4, <3>2 DEF PathOK
      <3> QED BY <1>2, <3>1, <3>2
    <2>4. \A i \in 1..n : walk'.path[i + 1] \in walk.edges[walk'.path[i]]
      <3> SUFFICES ASSUME NEW i \in 1..n PROVE walk'.path[i + 1] \in walk.edges[walk'.path[i]]
        OBVIOUS
      <3>1. CASE i = n
        <4>1. n > 0 /\ walk'.path[i] = Innermost
          BY <1>2, <1>4, <3>1 DEF Innermost
        <4> QED BY <1>1, <1>2, <1>4, <3>1, <4>1 DEF Ahead
      <3>2. CASE i < n
        <4>1. i \in 1..(n - 1) /\ i + 1 \in 1..n
          BY <1>2, <3>2
        <4> QED BY <1>2, <1>4, <4>1 DEF PathOK
      <3> QED BY <1>2, <3>1, <3>2
    <2>5. walk'.edges = walk.edges /\ walk'.roots = walk.roots
          /\ walk'.visited = walk.visited /\ n + 1 - 1 = n
      BY <1>2, <1>3
    <2>6. Len(walk.path)' = n + 1
      BY <1>4
    <2> HIDE DEF n
    <2> QED BY <1>2, <2>1, <2>2, <2>3, <2>4, <2>5, <2>6 DEF PathOK
  <1>7. ReachedIn(DOMAIN walk.edges)'
    <2>1. Visiting' = Visiting \cup {k}
      <3>1. Visiting' \subseteq Visiting \cup {k}
        <4> SUFFICES ASSUME NEW i \in 1..(n + 1) PROVE walk'.path[i] \in Visiting \cup {k}
          BY <1>4 DEF Visiting
        <4>1. CASE i = n + 1
          BY <1>4, <4>1
        <4>2. CASE i \in 1..n
          BY <1>4, <4>2 DEF Visiting
        <4> QED BY <1>2, <4>1, <4>2
      <3>2. Visiting \subseteq Visiting'
        <4> SUFFICES ASSUME NEW i \in 1..n PROVE walk.path[i] \in Visiting'
          BY DEF Visiting
        <4> QED BY <1>2, <1>4 DEF Visiting
      <3>3. k \in Visiting'
        BY <1>2, <1>4 DEF Visiting
      <3> QED BY <3>1, <3>2, <3>3
    <2> SUFFICES ASSUME NEW T \in SUBSET DOMAIN walk.edges, LeadsTo(walk.edges, walk.roots, T)
                 PROVE  walk.visited \cup Visiting \cup {k} \subseteq T
      BY <1>3, <2>1 DEF ReachedIn
    <2>2. walk.visited \cup Visiting \subseteq T
      BY <1>2 DEF ReachedIn
    <2>3. k \in T
      <3>1. CASE walk.path = << >>
        BY <1>1, <3>1 DEF Ahead, LeadsTo
      <3>2. CASE walk.path # << >>
        BY <1>1, <2>2, <3>2, AheadShape DEF Ahead, LeadsTo
      <3> QED BY <3>1, <3>2
    <2> QED BY <2>2, <2>3
  <1>8. walk'.path \in Seq(Packages)
    BY <1>3 DEF WalkInv
  <1> HIDE DEF n
  <1> QED BY <1>3, <1>5, <1>6, <1>7, <1>8 DEF WalkInv

\* A package all of whose dependencies have been visited closes no cycle.
LEMMA LeaveKeepsVisited ==
    ASSUME WalkInv, LeavePackage
    PROVE  /\ walk'.visited = walk.visited \cup {Innermost}
           /\ VisitedOK'
  <1> DEFINE m == Innermost
             V == walk.visited
  <1>1. /\ walk.path # << >> /\ Ahead = {}
        /\ walk'.edges = walk.edges /\ walk'.visited = V \cup {m}
    BY DEF LeavePackage, WalkInv
  <1>2. m \in DOMAIN walk.edges \ V
    BY <1>1, AheadShape
  <1>3. walk.edges[m] \subseteq V
    BY <1>1 DEF Ahead, Finished
  <1>4. VisitedOK
    BY DEF WalkInv
  <1> HIDE DEF m
  <1>5. ASSUME NEW C \in SUBSET (V \cup {m}) PROVE ~Entangled(walk.edges, C)
    <2>1. CASE C \ {m} = {}
      BY <1>2, <1>3, <2>1 DEF Entangled
    <2>2. CASE C \ {m} # {}
      <3>1. C \ {m} \in SUBSET V
        OBVIOUS
      <3>2. PICK k \in C \ {m} : walk.edges[k] \cap (C \ {m}) = {}
        BY <1>4, <2>2, <3>1 DEF VisitedOK, Entangled
      <3>3. k \in C /\ walk.edges[k] \cap C = {}
        BY <1>2, <1>4, <3>1, <3>2 DEF VisitedOK
      <3> QED BY <3>3 DEF Entangled
    <2> QED BY <2>1, <2>2
  <1>6. /\ V \cup {m} \subseteq DOMAIN walk.edges
        /\ \A k \in V \cup {m} : walk.edges[k] \subseteq V \cup {m}
    BY <1>2, <1>3, <1>4 DEF VisitedOK
  <1> QED BY <1>1, <1>5, <1>6 DEF VisitedOK, m

LEMMA LeaveKeepsWalk ==
    ASSUME WalkInv, LeavePackage
    PROVE  WalkInv'
  <1> DEFINE n == Len(walk.path)
  <1>1. /\ walk.path # << >> /\ walk.outcome = "open"
        /\ n \in Nat /\ n > 0 /\ Innermost = walk.path[n] /\ Innermost \in Visiting
    BY AheadShape DEF LeavePackage, Innermost, WalkInv
  <1>2. VisitedOK' /\ walk'.visited = walk.visited \cup {Innermost}
    BY LeaveKeepsVisited
  <1>3. /\ walk' = [walk EXCEPT !.path = SubSeq(@, 1, n - 1),
                                !.visited = @ \cup {Innermost}]
        /\ walk'.edges = walk.edges /\ walk'.roots = walk.roots /\ walk'.outcome = "open"
        /\ walk'.path = SubSeq(walk.path, 1, n - 1)
    BY <1>1 DEF LeavePackage, WalkInv
  <1>4. /\ Len(walk'.path) = n - 1
        /\ \A i \in 1..(n - 1) : walk'.path[i] = walk.path[i]
    <2>1. walk.path \in Seq(Packages)
      BY DEF WalkInv
    <2> QED BY <1>1, <1>3, <2>1
  <1>5. PathOK /\ ReachedIn(DOMAIN walk.edges)
    BY DEF WalkInv
  <1>6. PathOK'
    <2>1. \A i \in 1..(n - 1) : walk'.path[i] \in DOMAIN walk.edges \ walk'.visited
      <3> SUFFICES ASSUME NEW i \in 1..(n - 1)
                   PROVE  walk.path[i] \in DOMAIN walk.edges \ (walk.visited \cup {Innermost})
        BY <1>2, <1>4
      <3>1. i \in 1..n /\ n \in 1..n /\ i # n
        BY <1>1
      <3> QED BY <1>1, <1>5, <3>1 DEF PathOK
    <2>2. \A i \in 1..(n - 1) : \A j \in 1..(n - 1) : walk'.path[i] = walk'.path[j] => i = j
      BY <1>1, <1>4, <1>5 DEF PathOK
    <2>3. n - 1 > 0 => walk'.path[1] \in walk.roots
      BY <1>1, <1>4, <1>5 DEF PathOK
    <2>4. \A i \in 1..(n - 1 - 1) : walk'.path[i + 1] \in walk.edges[walk'.path[i]]
      <3> SUFFICES ASSUME NEW i \in 1..(n - 1 - 1)
                   PROVE  walk'.path[i + 1] \in walk.edges[walk'.path[i]]
        OBVIOUS
      <3>1. i \in 1..(n - 1) /\ i + 1 \in 1..(n - 1)
        BY <1>1
      <3>2. walk.path[i + 1] \in walk.edges[walk.path[i]]
        BY <1>5, <3>1 DEF PathOK
      <3>3. walk'.path[i] = walk.path[i] /\ walk'.path[i + 1] = walk.path[i + 1]
        BY <1>4, <3>1
      <3> QED BY <3>2, <3>3
    <2>5. walk'.edges = walk.edges /\ walk'.roots = walk.roots /\ Len(walk'.path) = n - 1
      BY <1>3, <1>4
    <2> HIDE DEF n
    <2> QED BY <2>1, <2>2, <2>3, <2>4, <2>5 DEF PathOK
  <1>7. ReachedIn(DOMAIN walk.edges)'
    <2>1. Visiting' \subseteq Visiting
      BY <1>1, <1>4 DEF Visiting
    <2>2. walk'.edges = walk.edges /\ walk'.roots = walk.roots
      BY <1>3
    <2> QED BY <1>1, <1>2, <1>5, <2>1, <2>2 DEF ReachedIn
  <1>8. walk'.visited \subseteq Packages
    <2>1. Innermost \in Packages
      BY <1>1 DEF WalkInv
    <2> QED BY <1>2, <2>1 DEF WalkInv
  <1>9. walk'.path \in Seq(Packages)
    BY <1>1, <1>3 DEF WalkInv
  <1> HIDE DEF n
  <1> QED BY <1>2, <1>3, <1>6, <1>7, <1>8, <1>9 DEF WalkInv

LEMMA EndKeepsWalk ==
    ASSUME WalkInv,
           \/ EndWalk("cycle") /\ HasCycle(walk.edges)
           \/ EndWalk("complete") /\ walk.path = << >> /\ walk.roots \subseteq walk.visited
    PROVE  WalkInv'
  <1>1. /\ walk'.edges = walk.edges /\ walk'.roots = walk.roots
        /\ walk'.path = walk.path /\ walk'.visited = walk.visited
        /\ walk'.outcome \in {"cycle", "complete"}
    BY DEF WalkInv, EndWalk
  <1>2. VisitedOK' /\ PathOK' /\ ReachedIn(DOMAIN walk.edges)'
    BY <1>1 DEF WalkInv, VisitedOK, PathOK, ReachedIn, Visiting, Entangled
  <1> QED BY <1>1, <1>2 DEF WalkInv, EndWalk

\* Every step of a walk keeps what the walk knows.
LEMMA WalkStepKeepsWalk ==
    ASSUME WalkInv, WalkStep(Packages)
    PROVE  WalkInv'
  <1>1. ASSUME NEW k \in Packages, MeetCycle(k) PROVE WalkInv'
    BY <1>1, MeetingIsCycle, EndKeepsWalk DEF MeetCycle
  <1>2. ASSUME NEW k \in Packages, EnterPackage(k) PROVE WalkInv'
    BY <1>2, EnterKeepsWalk
  <1>3. CASE LeavePackage
    BY <1>3, LeaveKeepsWalk
  <1>4. CASE CompleteWalk
    <2>1. walk.path = << >> /\ walk.roots \subseteq walk.visited
      BY <1>4 DEF CompleteWalk, Ahead, Finished
    <2> QED BY <1>4, <2>1, EndKeepsWalk DEF CompleteWalk
  <1> QED BY <1>1, <1>2, <1>3, <1>4 DEF WalkStep

\* What a walk that has ended has found out.
LEMMA CompleteIsAcyclic ==
    ASSUME WalkInv, walk.outcome = "complete", walk.visited = DOMAIN walk.edges
    PROVE  ~HasCycle(walk.edges)
  BY DEF WalkInv, VisitedOK, Entangled, HasCycle

\* From every package: a cycle exactly if there is one.
LEMMA FullWalkIsExact ==
    ASSUME WalkInv, walk.outcome \in {"cycle", "complete"}, walk.roots = DOMAIN walk.edges
    PROVE  walk.outcome = "cycle" <=> HasCycle(walk.edges)
  <1>1. CASE walk.outcome = "complete"
    <2>1. walk.visited = DOMAIN walk.edges
      BY <1>1 DEF WalkInv, VisitedOK
    <2> QED BY <1>1, <2>1, CompleteIsAcyclic
  <1>2. CASE walk.outcome = "cycle"
    BY <1>2 DEF WalkInv
  <1> QED BY <1>1, <1>2

\* From some: all that there is exactly if they lead to all, without a cycle.
LEMMA ClosureWalkIsExact ==
    ASSUME WalkInv, walk.outcome \in {"cycle", "complete"}
    PROVE  walk.outcome = "complete" /\ walk.visited = DOMAIN walk.edges
             <=> ValidClosure(walk.edges, walk.roots)
  <1>1. ASSUME walk.outcome = "complete", walk.visited = DOMAIN walk.edges
        PROVE  ValidClosure(walk.edges, walk.roots)
    <2>1. ~HasCycle(walk.edges)
      BY <1>1, CompleteIsAcyclic
    <2> QED BY <1>1, <2>1 DEF WalkInv, ReachedIn, ValidClosure
  <1>2. ASSUME ValidClosure(walk.edges, walk.roots)
        PROVE  walk.outcome = "complete" /\ walk.visited = DOMAIN walk.edges
    <2>1. walk.outcome = "complete"
      BY <1>2 DEF WalkInv, ValidClosure
    <2>2. walk.visited \in SUBSET DOMAIN walk.edges
          /\ LeadsTo(walk.edges, walk.roots, walk.visited)
      BY <2>1 DEF WalkInv, VisitedOK, LeadsTo
    <2> QED BY <1>2, <2>1, <2>2 DEF ValidClosure
  <1> QED BY <1>1, <1>2
-----------------------------------------------------------------------------
(* Problems and lockfiles. *)

LEMMA SnapshotsShape ==
    ASSUME NEW snapshots \in Snapshots
    PROVE  /\ DOMAIN snapshots \in SUBSET Registries
           /\ snapshots \in [DOMAIN snapshots -> Digests]
  BY DEF Snapshots

LEMMA LockShape ==
    ASSUME NEW lock \in Lockfiles
    PROVE  /\ lock.snapshots \in Snapshots /\ lock.packages \in Selections
           /\ lock.requests \in SUBSET Packages /\ lock.edges \in DependencyGraphs
           /\ DOMAIN lock.edges = DOMAIN lock.packages
  BY DEF Lockfiles

LEMMA OtherLocksShape ==
    ASSUME NEW lock, IsLockfile(lock)
    PROVE  lock \in Lockfiles
  <1>1. /\ lock.snapshots \in Snapshots /\ lock.packages \in Selections
        /\ lock.edges \in DependencyGraphs /\ DOMAIN lock.edges = DOMAIN lock.packages
    BY DEF IsLockfile, Snapshots, Selections, DependencyGraphs
  <1> QED BY <1>1 DEF IsLockfile, Lockfiles

LEMMA NoLockShape ==
    ASSUME NEW present \in BOOLEAN
    PROVE  [NoLock EXCEPT !.present = present] \in Lockfiles /\ NoLock \in Lockfiles
  <1>1. Empty \in [{} -> Digests] /\ Empty \in [{} -> SUBSET Packages] /\ DOMAIN Empty = {}
    BY DEF Empty
  <1>2. Empty \in Snapshots /\ Empty \in DependencyGraphs /\ Empty \in Selections
    BY <1>1, EmptyShape DEF Snapshots, DependencyGraphs
  <1> QED BY <1>1, <1>2 DEF NoLock, Lockfiles

LEMMA IndexOfPackage ==
    ASSUME NEW snapshots, NEW k
    PROVE  /\ k \in DOMAIN IndexOf(snapshots) <=>
                 /\ k \in Packages /\ RegistryOf[k] \in DOMAIN snapshots
                 /\ k \in DOMAIN catalog[snapshots[RegistryOf[k]]]
           /\ k \in DOMAIN IndexOf(snapshots) =>
                 IndexOf(snapshots)[k] = catalog[snapshots[RegistryOf[k]]][k]
  BY DEF IndexOf

LEMMA IndexOfShape ==
    ASSUME catalog \in Catalogs, NEW snapshots \in Snapshots
    PROVE  IndexOf(snapshots) \in Indexes
  <1> DEFINE S == DOMAIN IndexOf(snapshots)
  <1>1. S \in SUBSET Packages
    BY IndexOfPackage
  <1>2. ASSUME NEW k \in S PROVE IndexOf(snapshots)[k] \in Listings
    <2>1. /\ RegistryOf[k] \in DOMAIN snapshots /\ k \in DOMAIN catalog[snapshots[RegistryOf[k]]]
          /\ IndexOf(snapshots)[k] = catalog[snapshots[RegistryOf[k]]][k]
      BY IndexOfPackage
    <2>2. snapshots[RegistryOf[k]] \in Digests
      BY <2>1, SnapshotsShape
    <2> DEFINE releases == catalog[snapshots[RegistryOf[k]]][k]
    <2>3. DOMAIN releases \subseteq Versions /\ releases \in [DOMAIN releases -> Release]
      BY <2>1, <2>2, BuildAssumption
    <2> HIDE DEF releases
    <2>4. releases \in Listings
      BY <2>3 DEF Listings
    <2> QED BY <2>1, <2>4 DEF releases
  <1>3. IndexOf(snapshots) = [k \in S |-> IndexOf(snapshots)[k]]
    BY DEF IndexOf
  <1> HIDE DEF S
  <1>4. IndexOf(snapshots) \in [S -> Listings]
    BY <1>2, <1>3
  <1> QED BY <1>1, <1>4 DEF Indexes

LEMMA ProblemOfShape ==
    ASSUME catalog \in Catalogs, NEW snapshots \in Snapshots,
           NEW roots \in SUBSET Requirement, NEW locked \in SUBSET (Packages \X Versions)
    PROVE  /\ ProblemOf(roots, snapshots, locked) \in Problem
           /\ ProblemOf(roots, snapshots, locked).roots = roots
           /\ ProblemOf(roots, snapshots, locked).loaded = DOMAIN snapshots
           /\ ProblemOf(roots, snapshots, locked).index = IndexOf(snapshots)
           /\ ProblemOf(roots, snapshots, locked).locked = locked
  BY IndexOfShape, SnapshotsShape DEF ProblemOf, Problem

LEMMA LockedReleasesShape ==
    ASSUME NEW lock \in Lockfiles, NEW snapshots
    PROVE  LockedReleases(lock, snapshots) \in SUBSET (Packages \X Versions)
  <1>1. DOMAIN lock.packages \in SUBSET Packages /\ lock.packages \in [DOMAIN lock.packages -> Versions]
    BY LockShape, SelectionShape
  <1> QED BY <1>1 DEF LockedReleases

\* Constrained(Needs(p, k, s[k])) is what k leads to in the graph of s.
LEMMA GraphOfSelection ==
    ASSUME NEW p, NEW s, NEW edges, DOMAIN edges = DOMAIN s,
           \A k \in DOMAIN s : edges[k] = Constrained(Needs(p, k, s[k]))
    PROVE  HasCycle(edges) <=> Cyclic(p, s)
  <1>1. ASSUME NEW C \in SUBSET DOMAIN s, NEW k \in C
        PROVE  edges[k] \cap C # {} <=> \E c \in Needs(p, k, s[k]) : c.package \in C
    BY DEF Constrained
  <1> QED BY <1>1 DEF HasCycle, Cyclic

\* A sound lockfile resolves the manifests, with nothing spare, by the
\* snapshots it names; all it has counts as locked.
LEMMA SoundLocksResolve ==
    ASSUME catalog \in Catalogs, NEW lock \in Lockfiles, NEW roots \in SUBSET Requirement,
           NEW locked \in SUBSET (Packages \X Versions),
           \A k \in DOMAIN lock.packages : <<k, lock.packages[k]>> \in locked,
           Sound(lock, roots)
    PROVE  LET p == ProblemOf(roots, lock.snapshots, locked)
           IN Resolves(p, lock.packages) /\ NothingSpare(p, lock.packages)
  <1> DEFINE p == ProblemOf(roots, lock.snapshots, locked)
             s == lock.packages
             index == IndexOf(lock.snapshots)
  <1>1. /\ p.roots = roots /\ p.loaded = DOMAIN lock.snapshots
        /\ p.index = index /\ p.locked = locked
    BY ProblemOfShape, LockShape
  <1>2. /\ \A k \in DOMAIN s : RegistryOf[k] \in DOMAIN lock.snapshots
        /\ \A k \in DOMAIN s : lock.edges[k] \subseteq DOMAIN s
        /\ Constrained(roots) \subseteq DOMAIN s
        /\ \A c \in roots : s[c.package] \in c.versions
        /\ lock.requests = Constrained(roots)
    BY DEF Sound, Parses, LockMatches
  <1>3. \A k \in DOMAIN s :
           /\ k \in DOMAIN index /\ s[k] \in DOMAIN index[k]
           /\ lock.edges[k] = Constrained(index[k][s[k]].dependencies)
           /\ \A c \in index[k][s[k]].dependencies : s[c.package] \in c.versions
    BY DEF Sound, LockMatches
  <1>4. DOMAIN lock.edges = DOMAIN s /\ ValidClosure(lock.edges, lock.requests)
    BY LockShape DEF Sound
  <1> HIDE DEF p, index
  <1>5. \A k \in DOMAIN s : lock.edges[k] = Constrained(Needs(p, k, s[k]))
    BY <1>1, <1>3 DEF Needs
  <1>6. ASSUME NEW c \in roots PROVE c.package \in DOMAIN s /\ s[c.package] \in c.versions
    BY <1>2 DEF Constrained
  <1>7. ASSUME NEW k \in DOMAIN s PROVE Eligible(p, k, s[k])
    BY <1>1, <1>2, <1>3 DEF Eligible, Available, Loaded
  <1>8. ASSUME NEW k \in DOMAIN s, NEW c \in Needs(p, k, s[k])
        PROVE  c.package \in DOMAIN s /\ s[c.package] \in c.versions
    <2>1. c.package \in lock.edges[k]
      BY <1>5 DEF Constrained
    <2> QED BY <1>1, <1>2, <1>3, <2>1 DEF Needs
  <1>9. ~Cyclic(p, s)
    <2>1. HasCycle(lock.edges) <=> Cyclic(p, s)
      BY <1>4, <1>5, GraphOfSelection
    <2> QED BY <1>4, <2>1 DEF ValidClosure
  <1>10. Resolves(p, s)
    BY <1>1, <1>6, <1>7, <1>8, <1>9 DEF Resolves
  <1>11. NothingSpare(p, s)
    <2> SUFFICES ASSUME NEW T \in SUBSET DOMAIN s, Constrained(p.roots) \subseteq T,
                        \A k \in T : Constrained(Needs(p, k, s[k])) \subseteq T
                 PROVE  T = DOMAIN s
      BY DEF NothingSpare
    <2>1. LeadsTo(lock.edges, lock.requests, T)
      BY <1>1, <1>2, <1>5 DEF LeadsTo
    <2> QED BY <1>4, <2>1 DEF ValidClosure
  <1> QED BY <1>10, <1>11 DEF p

\* The lockfile of a resolution with nothing spare is sound.
LEMMA ResolutionsLockSoundly ==
    ASSUME catalog \in Catalogs, NEW snapshots \in Snapshots,
           NEW roots \in SUBSET Requirement, NEW locked \in SUBSET (Packages \X Versions),
           NEW s \in Selections,
           Resolves(ProblemOf(roots, snapshots, locked), s),
           NothingSpare(ProblemOf(roots, snapshots, locked), s)
    PROVE  LockOf(roots, s, snapshots) \in Lockfiles /\ Sound(LockOf(roots, s, snapshots), roots)
  <1> DEFINE p == ProblemOf(roots, snapshots, locked)
             lock == LockOf(roots, s, snapshots)
             used == {RegistryOf[k] : k \in DOMAIN s}
             index == IndexOf(snapshots)
             locks == IndexOf(lock.snapshots)
  <1>1. p.roots = roots /\ p.loaded = DOMAIN snapshots /\ p.index = index
    BY ProblemOfShape
  <1>2. DOMAIN s \in SUBSET Packages /\ s \in [DOMAIN s -> Versions]
    BY SelectionShape
  <1>3. /\ lock.present = TRUE /\ lock.packages = s /\ lock.requests = Constrained(roots)
        /\ lock.snapshots = [r \in used |-> snapshots[r]]
        /\ lock.edges = [k \in DOMAIN s |-> Constrained(index[k][s[k]].dependencies)]
        /\ lock = [present |-> TRUE, snapshots |-> lock.snapshots, packages |-> s,
                   requests |-> Constrained(roots), edges |-> lock.edges]
    BY DEF LockOf
  <1> HIDE DEF p, lock, index, locks
  <1>4. /\ \A c \in roots : c.package \in DOMAIN s /\ s[c.package] \in c.versions
        /\ \A k \in DOMAIN s : \A c \in Needs(p, k, s[k]) :
              c.package \in DOMAIN s /\ s[c.package] \in c.versions
        /\ ~Cyclic(p, s)
    BY <1>1 DEF Resolves, p
  <1>5. ASSUME NEW k \in DOMAIN s
        PROVE  /\ RegistryOf[k] \in DOMAIN snapshots
               /\ k \in DOMAIN index /\ s[k] \in DOMAIN index[k]
               /\ lock.edges[k] = Constrained(Needs(p, k, s[k]))
    <2>1. Eligible(p, k, s[k])
      BY DEF Resolves, p
    <2> QED BY <1>1, <1>3, <2>1 DEF Eligible, Available, Loaded, Needs
  <1>6. Constrained(roots) \subseteq DOMAIN s
        /\ \A k \in DOMAIN s : lock.edges[k] \subseteq DOMAIN s
    BY <1>4, <1>5 DEF Constrained
  <1>7. used \subseteq DOMAIN snapshots /\ used \subseteq Registries
    BY <1>5, SnapshotsShape
  <1>8. lock \in Lockfiles
    <2>1. lock.snapshots \in [used -> Digests]
      BY <1>3, <1>7, SnapshotsShape
    <2>2. lock.snapshots \in Snapshots
      BY <1>7, <2>1 DEF Snapshots
    <2>3. lock.edges \in [DOMAIN s -> SUBSET Packages]
      <3>1. DOMAIN lock.edges = DOMAIN s /\ lock.edges = [k \in DOMAIN s |-> lock.edges[k]]
        BY <1>3
      <3> QED BY <1>2, <1>6, <3>1
    <2>4. lock.edges \in DependencyGraphs /\ DOMAIN lock.edges = DOMAIN s
      BY <1>2, <2>3 DEF DependencyGraphs
    <2>5. Constrained(roots) \in SUBSET Packages
      BY <1>2, <1>6
    <2> QED BY <1>3, <2>2, <2>4, <2>5 DEF Lockfiles
  <1>9. Parses(lock)
    BY <1>3, <1>6 DEF Parses
  <1>10. ASSUME NEW k \in DOMAIN s PROVE k \in DOMAIN locks /\ locks[k] = index[k]
    <2>1. RegistryOf[k] \in used /\ lock.snapshots[RegistryOf[k]] = snapshots[RegistryOf[k]]
          /\ DOMAIN lock.snapshots = used
      BY <1>3
    <2>2. k \in DOMAIN index
      BY <1>5
    <2> QED BY <2>1, <2>2, IndexOfPackage DEF index, locks
  <1>11. LockMatches(lock, roots, lock.snapshots)
    <2>1. \A c \in roots : lock.packages[c.package] \in c.versions
      BY <1>3, <1>4
    <2>2. ASSUME NEW k \in DOMAIN s
          PROVE  /\ k \in DOMAIN locks /\ s[k] \in DOMAIN locks[k]
                 /\ lock.edges[k] = Constrained(locks[k][s[k]].dependencies)
                 /\ \A c \in locks[k][s[k]].dependencies : s[c.package] \in c.versions
      BY <1>1, <1>4, <1>5, <1>10 DEF Needs
    <2> QED BY <1>3, <2>1, <2>2 DEF LockMatches, locks
  <1>12. ValidClosure(lock.edges, lock.requests)
    <2>1. DOMAIN lock.edges = DOMAIN s
      BY <1>3
    <2>2. LeadsTo(lock.edges, lock.requests, DOMAIN lock.edges)
      BY <1>3, <1>6, <2>1 DEF LeadsTo
    <2>3. ~HasCycle(lock.edges)
      BY <1>4, <1>5, <2>1, GraphOfSelection
    <2>4. ASSUME NEW T \in SUBSET DOMAIN lock.edges, LeadsTo(lock.edges, lock.requests, T)
          PROVE  T = DOMAIN lock.edges
      <3>1. lock.requests \subseteq T /\ \A k \in T : lock.edges[k] \subseteq T
        BY <2>4 DEF LeadsTo
      <3>2. Constrained(p.roots) \subseteq T
        BY <1>1, <1>3, <3>1
      <3>3. ASSUME NEW k \in T PROVE Constrained(Needs(p, k, s[k])) \subseteq T
        BY <1>5, <2>1, <3>1
      <3> QED BY <2>1, <3>2, <3>3 DEF NothingSpare, p
    <2> QED BY <2>2, <2>3, <2>4 DEF ValidClosure
  <1> QED BY <1>8, <1>9, <1>11, <1>12 DEF Sound, lock
-----------------------------------------------------------------------------
(* Builds. *)

IsQuiet == build.phase \notin {"search", "walk"}

LEMMA QuietBuild ==
    ASSUME BuildInv, IsQuiet
    PROVE  walk = NoWalk /\ answer.kind = "idle"
  BY DEF BuildInv, IsQuiet, WalkIsOf, SearchIsOf, At

\* A search that has answered has no walk.
LEMMA AnsweredBuild ==
    ASSUME BuildInv, At("search"), answer.kind # "open"
    PROVE  walk = NoWalk
  BY DEF BuildInv, WalkIsOf, At, Complete, Entered, Searching

LEMMA WalkUnchanged ==
    ASSUME WalkInv, UNCHANGED walk
    PROVE  WalkInv'
  BY DEF WalkInv, VisitedOK, Entangled, PathOK, ReachedIn, LeadsTo, Visiting, HasCycle

LEMMA NoWalkInvNext == walk' = NoWalk => WalkInv'
  <1>1. ASSUME walk' = NoWalk PROVE WalkInv'
    <2>1. (walk = NoWalk)'
      BY <1>1 DEF NoWalk
    <2> QED BY <2>1, NoWalkInv, PTL
  <1> QED BY <1>1

\* A step after which the build neither searches nor walks.
LEMMA QuietNext ==
    ASSUME BuildInv, IsQuiet', walk' = NoWalk,
           Return \/ (~At("search") /\ UNCHANGED solverVars)
    PROVE  SolverInv' /\ WalkInv' /\ WalkIsOf' /\ SearchIsOf'
  <1>1. SolverInv'
    BY SolverKeeps DEF BuildInv, SolverNext
  <1>2. answer'.kind = "idle"
    <2>1. CASE Return
      BY <2>1 DEF Return, Failed
    <2>2. CASE ~At("search") /\ UNCHANGED solverVars
      BY <2>2 DEF BuildInv, SearchIsOf, solverVars
    <2> QED BY <2>1, <2>2
  <1>3. WalkIsOf' /\ SearchIsOf'
    BY <1>2 DEF WalkIsOf, SearchIsOf, IsQuiet, At, NoWalk
  <1> QED BY <1>1, <1>3, NoWalkInvNext

LEMMA IdleShape == [Idle EXCEPT !.phase = "failed"] \in Builds /\ Idle \in Builds
  <1>1. NoLock \in Lockfiles
    BY NoLockShape
  <1>2. Empty \in Snapshots
    <2>1. Empty \in [{} -> Digests]
      BY DEF Empty
    <2> QED BY <2>1 DEF Snapshots
  <1> HIDE DEF NoLock
  <1> QED BY <1>1, <1>2 DEF Idle, Builds, Phases, Modes

\* A build that gives up has nothing left to be right about.
LEMMA FailedBuild ==
    ASSUME BuildInv, build' = [Idle EXCEPT !.phase = "failed"],
           walk' = NoWalk, Return \/ (~At("search") /\ UNCHANGED solverVars),
           UNCHANGED <<catalog, manifest, config, lockfile>>
    PROVE  BuildInv'
  <1>1. build' \in Builds /\ build'.phase = "failed"
    BY IdleShape DEF Idle
  <1>2. IsQuiet'
    BY <1>1 DEF IsQuiet
  <1>3. SolverInv' /\ WalkInv' /\ WalkIsOf' /\ SearchIsOf'
    BY <1>2, QuietNext
  <1>4. BuildTypeOK'
    BY <1>1 DEF BuildInv, BuildTypeOK
  <1>5. LoadsLocked' /\ ResolutionIsSound'
    BY <1>1 DEF LoadsLocked, ResolutionIsSound, At
  <1> QED BY <1>3, <1>4, <1>5 DEF BuildInv

LEMMA StartKeeps ==
    ASSUME BuildInv, NEW mode \in Modes, Start(mode)
    PROVE  BuildInv'
  <1>1. /\ IsQuiet /\ UNCHANGED <<walk, catalog, manifest, config, lockfile>>
        /\ UNCHANGED solverVars
    BY DEF Start, Running, IsQuiet, projectVars
  <1>2. /\ build' \in Builds
        /\ build'.phase = "read" \/ (build'.phase = "apply" /\ build'.roots = {})
        /\ build'.snapshots = Empty
    <2>1. NoLock \in Lockfiles /\ [NoLock EXCEPT !.present = TRUE] \in Lockfiles
      BY NoLockShape
    <2>2. manifest \in SUBSET Requirement
      BY BuildAssumption DEF BuildInv, BuildTypeOK
    <2>3. Empty \in Snapshots
      BY IdleShape DEF Idle, Builds
    <2>4. build' = [phase |-> IF manifest = {} THEN "apply" ELSE "read", mode |-> mode,
                    roots |-> manifest, prior |-> NoLock, todo |-> {},
                    snapshots |-> Empty, resolution |-> [NoLock EXCEPT !.present = TRUE]]
      BY DEF Start, Idle
    <2> HIDE DEF NoLock
    <2> QED BY <2>1, <2>2, <2>3, <2>4 DEF Builds, Phases
  <1>3. SolverInv' /\ WalkInv' /\ WalkIsOf' /\ SearchIsOf'
    BY <1>1, <1>2, QuietBuild, QuietNext DEF IsQuiet, At
  <1>4. BuildTypeOK'
    BY <1>1, <1>2 DEF BuildInv, BuildTypeOK
  <1>5. LoadsLocked' /\ ResolutionIsSound'
    BY <1>2 DEF LoadsLocked, ResolutionIsSound, At
  <1> QED BY <1>3, <1>4, <1>5 DEF BuildInv

LEMMA ReadPriorLockKeeps ==
    ASSUME BuildInv, ReadPriorLock
    PROVE  BuildInv'
  <1>1. /\ At("read") /\ IsQuiet /\ UNCHANGED <<walk, catalog, manifest, config, lockfile>>
        /\ UNCHANGED solverVars /\ walk = NoWalk
    BY QuietBuild DEF ReadPriorLock, At, IsQuiet, Project, World, projectVars
  <1> DEFINE usable == lockfile.present /\ Parses(lockfile)
             prior == IF usable THEN lockfile ELSE NoLock
             next == {RegistryOf[c.package] : c \in build.roots}
                       \cup IF build.mode = "update" THEN {} ELSE DOMAIN prior.snapshots
  <1>2. CASE ~(build.mode = "update" \/ usable)
    BY <1>1, <1>2, FailedBuild DEF ReadPriorLock, At
  <1>3. CASE build.mode = "update" \/ usable
    <2>1. build' = [build EXCEPT !.phase = "load", !.prior = prior, !.todo = next]
      BY <1>3 DEF ReadPriorLock
    <2>2. build \in Builds /\ lockfile \in Lockfiles
      BY DEF BuildInv, BuildTypeOK
    <2>3. prior \in Lockfiles
      BY <2>2, NoLockShape
    <2>4. next \in SUBSET Registries
      <3>1. \A c \in build.roots : RegistryOf[c.package] \in Registries
        BY <2>2, ResolutionAssumption DEF Builds, Requirement
      <3>2. DOMAIN prior.snapshots \in SUBSET Registries
        BY <2>3, LockShape, SnapshotsShape
      <3> HIDE DEF prior
      <3> QED BY <3>1, <3>2
    <2>5. build.mode # "update" => Parses(prior) /\ DOMAIN prior.snapshots \subseteq next
      BY <1>3
    <2> HIDE DEF prior, next
    <2>6. /\ build' \in Builds /\ build'.phase = "load" /\ build'.mode = build.mode
          /\ build'.prior = prior /\ build'.todo = next /\ build'.snapshots = build.snapshots
      BY <2>1, <2>2, <2>3, <2>4 DEF Builds, Phases
    <2>7. build.snapshots = Empty /\ DOMAIN Empty = {}
      BY <1>1, EmptyShape DEF BuildInv, LoadsLocked
    <2>8. SolverInv' /\ WalkInv' /\ WalkIsOf' /\ SearchIsOf'
      BY <1>1, <2>6, QuietNext DEF IsQuiet, At
    <2>9. BuildTypeOK'
      BY <1>1, <2>6 DEF BuildInv, BuildTypeOK
    <2>10. LoadsLocked'
      <3>1. build.mode # "update" => Parses(build.prior)'
        BY <2>5, <2>6 DEF Parses
      <3> QED BY <2>5, <2>6, <2>7, <3>1 DEF LoadsLocked, At
    <2>11. ResolutionIsSound'
      BY <2>6 DEF ResolutionIsSound
    <2> QED BY <2>8, <2>9, <2>10, <2>11 DEF BuildInv
  <1> QED BY <1>2, <1>3

\* A snapshot has been obtained, wherever it came from.
LEMMA ObtainedKeeps ==
    ASSUME BuildInv, At("load"), NEW r \in build.todo, NEW snapshot \in SelectedSnapshots(r),
           Obtained(snapshot),
           UNCHANGED <<solverVars, walk, catalog, manifest, config, lockfile>>
    PROVE  BuildInv'
  <1> DEFINE d == snapshot[2]
             next == [q \in DOMAIN build.snapshots \cup {r} |->
                        IF q = r THEN d ELSE build.snapshots[q]]
  <1>1. IsQuiet /\ UNCHANGED solverVars /\ walk = NoWalk
    BY QuietBuild DEF At, IsQuiet
  <1>2. build \in Builds /\ config \in [Registries -> Digests]
    BY DEF BuildInv, BuildTypeOK
  <1>3. r \in Registries
    BY <1>2 DEF Builds
  <1>4. /\ snapshot[1] = r
        /\ IF build.mode = "update" THEN d = config[r]
           ELSE r \in DOMAIN build.prior.snapshots /\ d = build.prior.snapshots[r]
    BY DEF SelectedSnapshots
  <1>5. d \in Digests
    <2>1. build.prior.snapshots \in [DOMAIN build.prior.snapshots -> Digests]
      BY <1>2, LockShape, SnapshotsShape DEF Builds
    <2> QED BY <1>2, <1>3, <1>4, <2>1
  <1>6. build' = [build EXCEPT !.todo = @ \ {r}, !.snapshots = next]
    BY <1>4 DEF Obtained
  <1>7. /\ DOMAIN next = DOMAIN build.snapshots \cup {r} /\ next[r] = d
        /\ \A q \in DOMAIN build.snapshots : q # r => next[q] = build.snapshots[q]
    OBVIOUS
  <1>8. next \in Snapshots
    <2>1. DOMAIN build.snapshots \cup {r} \in SUBSET Registries
          /\ build.snapshots \in [DOMAIN build.snapshots -> Digests]
      BY <1>2, <1>3, SnapshotsShape DEF Builds
    <2>2. next \in [DOMAIN build.snapshots \cup {r} -> Digests]
      BY <1>5, <2>1
    <2> QED BY <2>1, <2>2 DEF Snapshots
  <1> HIDE DEF next, d
  <1>9. /\ build' \in Builds /\ build'.phase = "load" /\ build'.mode = build.mode
        /\ build'.prior = build.prior /\ build'.todo = build.todo \ {r}
        /\ build'.snapshots = next
    BY <1>2, <1>6, <1>8 DEF Builds, At
  <1>10. SolverInv' /\ WalkInv' /\ WalkIsOf' /\ SearchIsOf'
    BY <1>1, <1>9, QuietNext DEF IsQuiet, At
  <1>11. BuildTypeOK'
    BY <1>9 DEF BuildInv, BuildTypeOK
  <1>12. LoadsLocked'
    <2>1. LoadsLocked
      BY DEF BuildInv
    <2>2. build.mode # "update" => Parses(build.prior)'
      BY <1>9, <2>1 DEF LoadsLocked, At, Parses
    <2>3. ASSUME build.mode # "update", NEW q \in DOMAIN next
          PROVE  q \in DOMAIN build.prior.snapshots /\ next[q] = build.prior.snapshots[q]
      BY <1>4, <1>7, <2>1, <2>3 DEF LoadsLocked, At
    <2>4. build.mode # "update" =>
            DOMAIN build.prior.snapshots \subseteq DOMAIN next \cup (build.todo \ {r})
      BY <1>7, <2>1 DEF LoadsLocked, At
    <2> QED BY <1>9, <2>2, <2>3, <2>4 DEF LoadsLocked, At
  <1>13. ResolutionIsSound'
    BY <1>9 DEF ResolutionIsSound
  <1> QED BY <1>10, <1>11, <1>12, <1>13 DEF BuildInv

LEMMA GivingUpKeeps ==
    ASSUME BuildInv, Give_up, IsQuiet \/ At("search")
    PROVE  BuildInv'
  <1>1. /\ build' = [Idle EXCEPT !.phase = "failed"] /\ Return
        /\ UNCHANGED <<walk, catalog, manifest, config, lockfile>>
    BY DEF Give_up, Files, Project, World, projectVars
  <1>2. walk = NoWalk
    BY <1>1, QuietBuild, AnsweredBuild DEF Return
  <1> QED BY <1>1, <1>2, FailedBuild

LEMMA LoadsKeep ==
    ASSUME BuildInv, NEW r \in Registries,
           LoadFromCache(r) \/ LoadFromEndpoint(r) \/ LoadFails(r)
    PROVE  BuildInv'
  <1>1. CASE LoadFromCache(r)
    BY <1>1, ObtainedKeeps DEF LoadFromCache, Project, World, projectVars
  <1>2. CASE LoadFromEndpoint(r)
    BY <1>2, ObtainedKeeps DEF LoadFromEndpoint, Project, World, projectVars
  <1>3. CASE LoadFails(r)
    BY <1>3, GivingUpKeeps DEF LoadFails, IsQuiet, At
  <1> QED BY <1>1, <1>2, <1>3

\* What a build is about stays when it and the catalog do.
LEMMA SameBuild ==
    ASSUME UNCHANGED <<build, catalog>>
    PROVE  /\ ProblemOf(build.roots, build.snapshots,
                        LockedReleases(build.prior, build.snapshots))'
                = ProblemOf(build.roots, build.snapshots,
                            LockedReleases(build.prior, build.snapshots))
           /\ LoadsLocked' <=> LoadsLocked
           /\ ResolutionIsSound' <=> ResolutionIsSound
  <1>1. /\ IndexOf(build.snapshots)' = IndexOf(build.snapshots)
        /\ IndexOf(build.prior.snapshots)' = IndexOf(build.prior.snapshots)
        /\ IndexOf(build.resolution.snapshots)' = IndexOf(build.resolution.snapshots)
    BY DEF IndexOf
  <1>2. ProblemOf(build.roots, build.snapshots,
                  LockedReleases(build.prior, build.snapshots))'
          = ProblemOf(build.roots, build.snapshots,
                      LockedReleases(build.prior, build.snapshots))
    BY <1>1 DEF ProblemOf, LockedReleases
  <1>3. LockMatches(build.prior, build.roots, build.prior.snapshots)'
          <=> LockMatches(build.prior, build.roots, build.prior.snapshots)
    BY <1>1 DEF LockMatches
  <1>4. LockMatches(build.resolution, build.roots, build.resolution.snapshots)'
          <=> LockMatches(build.resolution, build.roots, build.resolution.snapshots)
    BY <1>1 DEF LockMatches
  <1>5. /\ Parses(build.prior)' <=> Parses(build.prior)
        /\ Parses(build.resolution)' <=> Parses(build.resolution)
    BY DEF Parses
  <1>6. LoadsLocked' <=> LoadsLocked
    BY <1>3, <1>5 DEF LoadsLocked, At
  <1>7. ResolutionIsSound' <=> ResolutionIsSound
    BY <1>4, <1>5 DEF ResolutionIsSound, Sound
  <1> QED BY <1>2, <1>6, <1>7

\* A step of a search: the build and what it searches for stay.
LEMMA SearchingKeeps ==
    ASSUME BuildInv, At("search"), [SolverNext]_solverVars, answer'.kind # "idle",
           UNCHANGED <<problem, build, catalog, manifest, config, lockfile>>,
           walk' = NoWalk
    PROVE  BuildInv'
  <1>1. SolverInv'
    BY SolverKeeps DEF BuildInv
  <1>2. WalkInv' /\ WalkIsOf'
    BY NoWalkInvNext DEF WalkIsOf, NoWalk
  <1>3. BuildTypeOK'
    BY DEF BuildInv, BuildTypeOK
  <1>4. SearchIsOf'
    BY SameBuild DEF BuildInv, SearchIsOf, At
  <1>5. LoadsLocked' /\ ResolutionIsSound'
    BY DEF At, LoadsLocked, ResolutionIsSound
  <1> QED BY <1>1, <1>2, <1>3, <1>4, <1>5 DEF BuildInv

LEMMA StartSearchKeeps ==
    ASSUME BuildInv, StartSearch
    PROVE  BuildInv' /\ [SolverNext]_solverVars
  <1> DEFINE p == ProblemOf(build.roots, build.snapshots,
                            LockedReleases(build.prior, build.snapshots))
  <1>1. /\ At("load") /\ build.mode = "update" /\ Resolve(p)
        /\ build' = [build EXCEPT !.phase = "search"]
        /\ UNCHANGED <<walk, catalog, manifest, config, lockfile>> /\ walk = NoWalk
    BY QuietBuild DEF StartSearch, Goto, Files, Project, World, projectVars, IsQuiet, At
  <1>2. build \in Builds /\ catalog \in Catalogs
    BY DEF BuildInv, BuildTypeOK
  <1>3. p \in Problem
    BY <1>2, ProblemOfShape, LockedReleasesShape DEF Builds
  <1> HIDE DEF p
  <1>4. SolverNext
    BY <1>1, <1>3 DEF SolverNext
  <1>5. SolverInv'
    BY <1>4, SolverKeeps DEF BuildInv
  <1>6. problem' = p /\ answer'.kind # "idle"
    <2>1. answer' = Open \/ \E r \in Unsupplied(p) : answer' = Failed("missing snapshot", {r})
      BY <1>1 DEF Resolve
    <2>2. Open.kind # "idle" /\ \A r : Failed("missing snapshot", {r}).kind # "idle"
      BY DEF Open, Failed
    <2> QED BY <1>1, <2>1, <2>2 DEF Resolve
  <1>7. /\ build' \in Builds /\ build'.phase = "search" /\ build'.mode = "update"
        /\ build'.roots = build.roots /\ build'.snapshots = build.snapshots
        /\ build'.prior = build.prior
    BY <1>1, <1>2 DEF Builds, Phases
  <1>8. WalkInv' /\ WalkIsOf'
    BY <1>1, NoWalkInvNext DEF WalkIsOf, NoWalk
  <1>9. BuildTypeOK'
    BY <1>1, <1>7 DEF BuildInv, BuildTypeOK
  <1>10. SearchIsOf'
    BY <1>1, <1>6, <1>7 DEF SearchIsOf, At, p, ProblemOf, IndexOf, LockedReleases
  <1>11. LoadsLocked' /\ ResolutionIsSound'
    BY <1>7 DEF At, LoadsLocked, ResolutionIsSound
  <1> QED BY <1>4, <1>5, <1>8, <1>9, <1>10, <1>11 DEF BuildInv

\* The search does nothing else when all that is required is selected.
LEMMA CompleteOnlyEnds ==
    ASSUME Complete, SearchStep
    PROVE  FALSE
  BY DEF Complete, Entered, Searching, SearchStep, RejectConflict, RejectMissing,
         ChoosePackage, FirstUndecided, SkipRelease, ExceedLimit, RefuseRelease,
         TryRelease, Attempt, Candidate, Deciding, Exhaust

LEMMA FailShape ==
    ASSUME NEW kind, NEW lacking, Fail(kind, lacking), kind # "idle"
    PROVE  answer'.kind # "idle" /\ UNCHANGED problem
  BY DEF Fail, Failed, Open

LEMMA SearchStepShape ==
    ASSUME SolverInv, SearchStep
    PROVE  answer'.kind # "idle" /\ UNCHANGED problem
  <1>1. Searching
    BY DEF SearchStep, RejectConflict, RejectMissing, ChoosePackage, FirstUndecided,
           SkipRelease, ExceedLimit, RefuseRelease, TryRelease, Attempt, Candidate,
           Deciding, Exhaust, Entered
  <1>2. CASE RejectConflict
    BY <1>2, FailShape DEF RejectConflict
  <1>3. CASE Exhaust
    <2>1. Top.failure # "idle"
      BY <1>1, TopFacts DEF Frame, Failures
    <2> QED BY <1>3, <2>1, FailShape DEF Exhaust
  <1>4. ASSUME NEW k \in Packages, RejectMissing(k) \/ ChoosePackage(k)
        PROVE  answer'.kind # "idle" /\ UNCHANGED problem
    BY <1>1, <1>4, FailShape DEF RejectMissing, ChoosePackage, Searching
  <1>5. ASSUME NEW v \in Versions,
               SkipRelease(v) \/ ExceedLimit(v) \/ RefuseRelease(v) \/ TryRelease(v)
        PROVE  answer'.kind # "idle" /\ UNCHANGED problem
    <2>1. UNCHANGED problem /\ (answer' = answer \/ answer' = Failed("limit", {}))
      BY <1>5 DEF SkipRelease, ExceedLimit, RefuseRelease, TryRelease, Attempt
    <2>2. Failed("limit", {}).kind # "idle"
      BY DEF Failed
    <2> QED BY <1>1, <2>1, <2>2 DEF Searching
  <1> QED BY <1>2, <1>3, <1>4, <1>5 DEF SearchStep

LEMMA SearchKeepsBuild ==
    ASSUME BuildInv, Search
    PROVE  BuildInv' /\ [SolverNext]_solverVars
  <1>1. /\ At("search") /\ SearchStep
        /\ UNCHANGED <<build, walk, catalog, manifest, config, lockfile>>
    BY DEF Search, Files, Project, World, projectVars
  <1>2. walk = NoWalk
    BY <1>1, CompleteOnlyEnds DEF BuildInv, WalkIsOf, At
  <1>3. SolverNext
    BY <1>1 DEF SolverNext, SolverStep
  <1>4. answer'.kind # "idle" /\ UNCHANGED problem
    BY <1>1, SearchStepShape DEF BuildInv
  <1> QED BY <1>1, <1>2, <1>3, <1>4, SearchingKeeps

\* What is selected, when nothing is lacking, is a closed graph.
LEMMA SelectedGraphShape ==
    ASSUME SolverInv, Complete
    PROVE  /\ SelectedGraph \in DependencyGraphs
           /\ DOMAIN Top.selected \in SUBSET Packages
           /\ DOMAIN SelectedGraph = DOMAIN Top.selected
           /\ LeadsTo(SelectedGraph, DOMAIN Top.selected, DOMAIN SelectedGraph)
           /\ HasCycle(SelectedGraph) <=> Cyclic(problem, Top.selected)
  <1> DEFINE s == Top.selected
  <1>1. Searching /\ Constrained(Top.constraints) \subseteq DOMAIN s
    BY DEF Complete, Entered, Undecideds
  <1>2. Top \in Frame /\ FrameOK(problem, Top)
    BY <1>1, TopFacts
  <1>3. DOMAIN s \in SUBSET Packages
    BY <1>2, SelectionShape DEF Frame
  <1>4. DOMAIN SelectedGraph = DOMAIN s
        /\ \A k \in DOMAIN s : SelectedGraph[k] = Constrained(Needs(problem, k, s[k]))
    BY DEF SelectedGraph
  <1>5. ASSUME NEW k \in DOMAIN s PROVE SelectedGraph[k] \subseteq DOMAIN s
    <2>1. Needs(problem, k, s[k]) \subseteq Top.constraints
      BY <1>2 DEF FrameOK, Required
    <2> QED BY <1>1, <1>4, <2>1 DEF Constrained
  <1>6. SelectedGraph \in DependencyGraphs
    <2>1. SelectedGraph \in [DOMAIN s -> SUBSET Packages]
      <3>1. SelectedGraph = [k \in DOMAIN s |-> SelectedGraph[k]]
        BY DEF SelectedGraph
      <3> QED BY <1>3, <1>5, <3>1
    <2> QED BY <1>3, <2>1 DEF DependencyGraphs
  <1>7. LeadsTo(SelectedGraph, DOMAIN s, DOMAIN SelectedGraph)
    BY <1>4, <1>5 DEF LeadsTo
  <1> QED BY <1>3, <1>4, <1>6, <1>7, GraphOfSelection

\* The walk of a search that has ended says whether there is a cycle.
LEMMA SearchWalkIsExact ==
    ASSUME BuildInv, At("search"), walk.outcome \in {"cycle", "complete"}
    PROVE  Complete /\ (walk.outcome = "cycle" <=> Cyclic(problem, Top.selected))
  <1>1. /\ Complete /\ walk.edges = SelectedGraph
        /\ walk.roots = DOMAIN Top.selected
    BY DEF BuildInv, WalkIsOf, NoWalk, At
  <1> QED BY <1>1, SelectedGraphShape, FullWalkIsExact DEF BuildInv

LEMMA SameSearch ==
    ASSUME UNCHANGED solverVars
    PROVE  /\ Complete' = Complete /\ SelectedGraph' = SelectedGraph /\ Top' = Top
           /\ SolverInv => SolverInv'
  <1>1. /\ Complete' = Complete /\ SelectedGraph' = SelectedGraph /\ Top' = Top
    BY DEF solverVars, Complete, Entered, Searching, Conflict, Undecideds, Top, Depth,
           SelectedGraph, Needs
  <1> QED BY <1>1, SolverKeeps

\* A step of a walk alone.
LEMMA WalkingKeeps ==
    ASSUME BuildInv, WalkInv', WalkIsOf',
           UNCHANGED <<build, catalog, manifest, config, lockfile>>, UNCHANGED solverVars
    PROVE  BuildInv'
  <1>1. SolverInv'
    BY SameSearch DEF BuildInv
  <1>2. BuildTypeOK'
    BY DEF BuildInv, BuildTypeOK
  <1>3. SearchIsOf'
    BY SameBuild DEF BuildInv, SearchIsOf, At, solverVars
  <1>4. LoadsLocked' /\ ResolutionIsSound'
    BY SameBuild DEF BuildInv
  <1> QED BY <1>1, <1>2, <1>3, <1>4 DEF BuildInv

LEMMA LookForCyclesKeeps ==
    ASSUME BuildInv, LookForCycles
    PROVE  BuildInv'
  <1>1. /\ At("search") /\ Complete
        /\ BeginWalk(SelectedGraph, DOMAIN Top.selected)
        /\ UNCHANGED <<build, catalog, manifest, config, lockfile>> /\ UNCHANGED solverVars
    BY DEF LookForCycles, Files, World, projectVars
  <1>2. WalkInv'
    BY <1>1, SelectedGraphShape, BeginWalkInv DEF BuildInv
  <1>3. WalkIsOf'
    <2>1. walk'.edges = SelectedGraph /\ walk'.roots = DOMAIN Top.selected
      BY <1>1 DEF BeginWalk
    <2> QED BY <1>1, <2>1, SameSearch DEF WalkIsOf, At
  <1> QED BY <1>1, <1>2, <1>3, WalkingKeeps

LEMMA WalkKeeps ==
    ASSUME BuildInv, Walk
    PROVE  BuildInv'
  <1>1. /\ WalkStep(Packages)
        /\ UNCHANGED <<build, catalog, manifest, config, lockfile>> /\ UNCHANGED solverVars
    BY DEF Walk, Files, World, projectVars
  <1>2. WalkInv'
    BY <1>1, WalkStepKeepsWalk DEF BuildInv
  <1>3. WalkIsOf'
    <2>1. /\ walk.outcome = "open" /\ walk'.edges = walk.edges /\ walk'.roots = walk.roots
      BY <1>1, WalkKeepsGraph DEF BuildInv
    <2>2. walk # NoWalk
      BY <2>1 DEF NoWalk
    <2> QED BY <1>1, <2>1, <2>2, SameSearch DEF BuildInv, WalkIsOf, At
  <1> QED BY <1>1, <1>2, <1>3, WalkingKeeps

\* What is done with a selected graph is what the search of
\* RegistryResolution does with it.
LEMMA CycleFoundKeeps ==
    ASSUME BuildInv, CycleFound
    PROVE  BuildInv' /\ [SolverNext]_solverVars
  <1>1. /\ At("search") /\ walk.outcome = "cycle" /\ walk' = NoWalk /\ RefuseGraph
        /\ UNCHANGED <<build, catalog, manifest, config, lockfile>>
    BY DEF CycleFound, Walked, Files, World, projectVars
  <1>2. Cyclic(problem, Top.selected)
    BY <1>1, SearchWalkIsExact
  <1>3. SolverNext
    BY <1>1, <1>2 DEF SolverNext, SolverStep, RejectCycle
  <1>4. answer'.kind # "idle" /\ UNCHANGED problem
    BY <1>1, FailShape DEF RefuseGraph
  <1> QED BY <1>1, <1>3, <1>4, SearchingKeeps

LEMMA NoCycleFoundKeeps ==
    ASSUME BuildInv, NoCycleFound
    PROVE  BuildInv' /\ [SolverNext]_solverVars
  <1>1. /\ At("search") /\ walk.outcome = "complete" /\ walk' = NoWalk /\ TakeGraph
        /\ UNCHANGED <<build, catalog, manifest, config, lockfile>>
    BY DEF NoCycleFound, Walked, Files, World, projectVars
  <1>2. ~Cyclic(problem, Top.selected)
    BY <1>1, SearchWalkIsExact
  <1>3. SolverNext
    BY <1>1, <1>2 DEF SolverNext, SolverStep, Succeed
  <1>4. answer'.kind # "idle" /\ UNCHANGED problem
    BY <1>1 DEF TakeGraph, Found
  <1> QED BY <1>1, <1>3, <1>4, SearchingKeeps

LEMMA SearchFoundKeeps ==
    ASSUME BuildInv, SearchFound
    PROVE  BuildInv'
  <1> DEFINE lock == LockOf(build.roots, answer.selected, build.snapshots)
             locked == LockedReleases(build.prior, build.snapshots)
  <1>1. /\ At("search") /\ answer.kind = "found" /\ Return
        /\ build' = [build EXCEPT !.phase = "apply", !.resolution = lock]
        /\ UNCHANGED <<walk, catalog, manifest, config, lockfile>> /\ walk = NoWalk
    BY AnsweredBuild DEF SearchFound, Files, Project, World, projectVars
  <1>2. build \in Builds /\ catalog \in Catalogs
    BY DEF BuildInv, BuildTypeOK
  <1>3. /\ answer.selected \in Selections
        /\ Resolves(problem, answer.selected)
        /\ NothingSpare(problem, answer.selected)
        /\ problem = ProblemOf(build.roots, build.snapshots, locked)
    <2>1. SelectionIsBest
      BY BestWhenFound DEF BuildInv
    <2>2. problem = ProblemOf(build.roots, build.snapshots, locked)
      BY <1>1 DEF BuildInv, SearchIsOf
    <2> QED BY <1>1, <2>1, <2>2 DEF SelectionIsBest
  <1>4. lock \in Lockfiles /\ Sound(lock, build.roots)
    <2>1. locked \in SUBSET (Packages \X Versions)
      BY <1>2, LockedReleasesShape DEF Builds
    <2> QED BY <1>2, <1>3, <2>1, ResolutionsLockSoundly DEF Builds
  <1> HIDE DEF lock
  <1>5. /\ build' \in Builds /\ build'.phase = "apply" /\ build'.resolution = lock
        /\ build'.roots = build.roots
    BY <1>1, <1>2, <1>4 DEF Builds, Phases
  <1>6. SolverInv' /\ WalkInv' /\ WalkIsOf' /\ SearchIsOf'
    BY <1>1, <1>5, QuietNext DEF IsQuiet, At
  <1>7. BuildTypeOK'
    BY <1>1, <1>5 DEF BuildInv, BuildTypeOK
  <1>8. LoadsLocked'
    BY <1>5 DEF LoadsLocked, At
  <1>9. ResolutionIsSound'
    <2>1. IndexOf(build.resolution.snapshots)' = IndexOf(lock.snapshots)
      BY <1>1, <1>5 DEF IndexOf
    <2>2. /\ LockMatches(build.resolution, build.roots, build.resolution.snapshots)'
          /\ Parses(build.resolution)'
          /\ ValidClosure(build.resolution.edges, build.resolution.requests)'
      BY <1>4, <1>5, <2>1 DEF Sound, LockMatches, Parses
    <2> QED BY <2>2 DEF ResolutionIsSound, Sound
  <1> QED BY <1>6, <1>7, <1>8, <1>9 DEF BuildInv

LEMMA SearchLacksKeeps ==
    ASSUME BuildInv, SearchLacks
    PROVE  BuildInv'
  <1>1. /\ At("search") /\ answer.kind = "missing snapshot" /\ Return
        /\ build' = [build EXCEPT !.phase = "load", !.todo = answer.lacking]
        /\ UNCHANGED <<walk, catalog, manifest, config, lockfile>> /\ walk = NoWalk
    BY AnsweredBuild DEF SearchLacks, Files, Project, World, projectVars
  <1>2. build \in Builds /\ answer.lacking \in SUBSET Registries /\ build.mode = "update"
    BY <1>1 DEF BuildInv, BuildTypeOK, SolverInv, SolverTypeOK, Answer, SearchIsOf
  <1>3. build' \in Builds /\ build'.phase = "load" /\ build'.mode = "update"
    BY <1>1, <1>2 DEF Builds, Phases
  <1>4. SolverInv' /\ WalkInv' /\ WalkIsOf' /\ SearchIsOf'
    BY <1>1, <1>3, QuietNext DEF IsQuiet, At
  <1>5. BuildTypeOK'
    BY <1>1, <1>3 DEF BuildInv, BuildTypeOK
  <1>6. LoadsLocked' /\ ResolutionIsSound'
    BY <1>3 DEF LoadsLocked, At, ResolutionIsSound
  <1> QED BY <1>4, <1>5, <1>6 DEF BuildInv

LEMMA ValidateLockedKeeps ==
    ASSUME BuildInv, ValidateLocked
    PROVE  BuildInv'
  <1>1. /\ At("load") /\ IsQuiet /\ build.todo = {} /\ build.mode # "update"
        /\ UNCHANGED <<catalog, manifest, config, lockfile>> /\ UNCHANGED solverVars
        /\ walk = NoWalk /\ answer.kind = "idle"
    BY QuietBuild DEF ValidateLocked, At, IsQuiet, Files, World, projectVars
  <1> DEFINE lock == build.prior
  <1>2. build \in Builds /\ catalog \in Catalogs /\ lock \in Lockfiles
    BY DEF BuildInv, BuildTypeOK, Builds
  <1>3. CASE ~LockMatches(lock, build.roots, build.snapshots)
    <2>1. build' = [Idle EXCEPT !.phase = "failed"] /\ walk' = walk
      BY <1>3 DEF ValidateLocked
    <2> QED BY <1>1, <2>1, FailedBuild DEF At
  <1>4. CASE LockMatches(lock, build.roots, build.snapshots)
    <2>1. build' = [build EXCEPT !.phase = "walk"] /\ BeginWalk(lock.edges, lock.requests)
      BY <1>4 DEF ValidateLocked, Goto
    <2>2. /\ build' \in Builds /\ build'.phase = "walk" /\ build'.prior = lock
          /\ build'.mode = build.mode /\ build'.roots = build.roots
          /\ build'.snapshots = build.snapshots /\ build'.todo = build.todo
      BY <1>2, <2>1 DEF Builds, Phases
    <2>3. LoadsLocked /\ Parses(lock)
      BY <1>1 DEF BuildInv, LoadsLocked, At
    <2>4. build.snapshots = lock.snapshots
      <3>1. lock.snapshots \in Snapshots /\ build.snapshots \in Snapshots
        BY <1>2, LockShape DEF Builds
      <3>2. DOMAIN build.snapshots = DOMAIN lock.snapshots
            /\ \A r \in DOMAIN build.snapshots : build.snapshots[r] = lock.snapshots[r]
        BY <1>1, <2>3 DEF LoadsLocked, At
      <3>3. /\ lock.snapshots = [r \in DOMAIN lock.snapshots |-> lock.snapshots[r]]
            /\ build.snapshots = [r \in DOMAIN build.snapshots |-> build.snapshots[r]]
        BY <3>1, SnapshotsShape
      <3> HIDE DEF lock
      <3> QED BY <3>2, <3>3
    <2>5. SolverInv'
      BY <1>1, SameSearch DEF BuildInv
    <2>6. WalkInv'
      <3>1. /\ lock.edges \in DependencyGraphs /\ lock.requests \in SUBSET Packages
            /\ DOMAIN lock.edges = DOMAIN lock.packages
        BY <1>2, LockShape
      <3>2. LeadsTo(lock.edges, lock.requests, DOMAIN lock.edges)
        BY <2>3, <3>1 DEF Parses, LeadsTo
      <3> QED BY <2>1, <3>1, <3>2, BeginWalkInv
    <2>7. BuildTypeOK'
      BY <1>1, <2>2 DEF BuildInv, BuildTypeOK
    <2>8. WalkIsOf'
      BY <2>1, <2>2 DEF WalkIsOf, At, BeginWalk
    <2>9. SearchIsOf'
      BY <1>1, <2>2 DEF SearchIsOf, At, solverVars
    <2>10. LoadsLocked'
      <3>1. IndexOf(build.prior.snapshots)' = IndexOf(build.snapshots)
        BY <1>1, <2>2, <2>4 DEF IndexOf
      <3>2. LockMatches(build.prior, build.roots, build.prior.snapshots)'
        BY <1>4, <2>2, <3>1 DEF LockMatches
      <3>3. Parses(build.prior)'
        BY <2>2, <2>3 DEF Parses
      <3> QED BY <1>1, <2>2, <2>4, <3>2, <3>3 DEF LoadsLocked, At
    <2>11. ResolutionIsSound'
      BY <2>2 DEF ResolutionIsSound
    <2> QED BY <2>5, <2>6, <2>7, <2>8, <2>9, <2>10, <2>11 DEF BuildInv
  <1> QED BY <1>3, <1>4

\* The walk of a locked build that has ended says whether its lockfile is a
\* valid closure.
LEMMA LockedWalkIsExact ==
    ASSUME BuildInv, At("walk"), walk.outcome \in {"cycle", "complete"}
    PROVE  walk.outcome = "complete" /\ walk.visited = DOMAIN build.prior.packages
             <=> ValidClosure(build.prior.edges, build.prior.requests)
  <1>1. walk.edges = build.prior.edges /\ walk.roots = build.prior.requests
    BY DEF BuildInv, WalkIsOf, NoWalk, At
  <1>2. DOMAIN walk.edges = DOMAIN build.prior.packages
    BY <1>1, LockShape DEF BuildInv, BuildTypeOK, Builds
  <1> QED BY <1>1, <1>2, ClosureWalkIsExact DEF BuildInv

LEMMA TakeLockedKeeps ==
    ASSUME BuildInv, TakeLocked
    PROVE  BuildInv'
  <1> DEFINE lock == build.prior
  <1>1. /\ At("walk") /\ walk.outcome = "complete" /\ walk.visited = DOMAIN lock.packages
        /\ walk' = NoWalk /\ build' = [build EXCEPT !.phase = "apply", !.resolution = lock]
        /\ UNCHANGED <<catalog, manifest, config, lockfile>> /\ UNCHANGED solverVars
    BY DEF TakeLocked, Walked, Files, World, projectVars
  <1>2. build \in Builds /\ lock \in Lockfiles
    BY DEF BuildInv, BuildTypeOK, Builds
  <1>3. Sound(lock, build.roots)
    BY <1>1, LockedWalkIsExact DEF BuildInv, LoadsLocked, Sound, At
  <1>4. /\ build' \in Builds /\ build'.phase = "apply" /\ build'.resolution = lock
        /\ build'.roots = build.roots
    BY <1>1, <1>2 DEF Builds, Phases
  <1> HIDE DEF lock
  <1>5. SolverInv' /\ WalkInv' /\ WalkIsOf' /\ SearchIsOf'
    BY <1>1, <1>4, QuietNext DEF IsQuiet, At
  <1>6. BuildTypeOK'
    BY <1>1, <1>4 DEF BuildInv, BuildTypeOK
  <1>7. LoadsLocked'
    BY <1>4 DEF LoadsLocked, At
  <1>8. ResolutionIsSound'
    <2>1. IndexOf(build.resolution.snapshots)' = IndexOf(lock.snapshots)
      BY <1>1, <1>4 DEF IndexOf
    <2>2. /\ LockMatches(build.resolution, build.roots, build.resolution.snapshots)'
          /\ Parses(build.resolution)'
          /\ ValidClosure(build.resolution.edges, build.resolution.requests)'
      BY <1>3, <1>4, <2>1 DEF Sound, LockMatches, Parses
    <2> QED BY <2>2 DEF ResolutionIsSound, Sound
  <1> QED BY <1>5, <1>6, <1>7, <1>8 DEF BuildInv

LEMMA RefuseLockedKeeps ==
    ASSUME BuildInv, RefuseLocked
    PROVE  BuildInv'
  <1>1. /\ At("walk") /\ build' = [Idle EXCEPT !.phase = "failed"] /\ walk' = NoWalk
        /\ UNCHANGED <<catalog, manifest, config, lockfile>> /\ UNCHANGED solverVars
    BY DEF RefuseLocked, Walked, Files, World, projectVars
  <1> QED BY <1>1, FailedBuild DEF At

\* A build at its end, that keeps its resolution or fails.
LEMMA EndingKeeps ==
    ASSUME BuildInv, build.phase \in {"apply", "write"},
           NEW phase \in {"write", "succeeded"}, Goto(phase),
           UNCHANGED <<walk, catalog, manifest, config>>, UNCHANGED solverVars,
           lockfile' \in Lockfiles
    PROVE  BuildInv'
  <1>1. build \in Builds /\ IsQuiet /\ walk = NoWalk
    BY QuietBuild DEF BuildInv, BuildTypeOK, IsQuiet
  <1>2. /\ build' \in Builds /\ build'.phase = phase
        /\ build'.resolution = build.resolution /\ build'.roots = build.roots
    BY <1>1 DEF Goto, Builds, Phases
  <1>3. SolverInv' /\ WalkInv' /\ WalkIsOf' /\ SearchIsOf'
    BY <1>1, <1>2, QuietNext DEF IsQuiet, At
  <1>4. BuildTypeOK'
    BY <1>2 DEF BuildInv, BuildTypeOK
  <1>5. LoadsLocked'
    BY <1>2 DEF LoadsLocked, At
  <1>6. ResolutionIsSound'
    <2>1. ASSUME build.roots # {} PROVE Sound(build.resolution, build.roots)
      BY <2>1 DEF BuildInv, ResolutionIsSound
    <2>2. IndexOf(build.resolution.snapshots)' = IndexOf(build.resolution.snapshots)
      BY <1>2 DEF IndexOf
    <2>3. ASSUME build.roots # {}
          PROVE  /\ LockMatches(build.resolution, build.roots, build.resolution.snapshots)'
                 /\ Parses(build.resolution)'
                 /\ ValidClosure(build.resolution.edges, build.resolution.requests)'
      BY <1>2, <2>1, <2>2, <2>3 DEF Sound, LockMatches, Parses
    <2> QED BY <1>2, <2>3 DEF ResolutionIsSound, Sound
  <1> QED BY <1>3, <1>4, <1>5, <1>6 DEF BuildInv

LEMMA LockfileStepsKeep ==
    ASSUME BuildInv, CompareLock \/ WriteLock \/ CheckLock
    PROVE  BuildInv'
  <1>1. build \in Builds /\ lockfile \in Lockfiles
    BY DEF BuildInv, BuildTypeOK
  <1>2. CASE CompareLock
    <2>1. /\ At("apply") /\ (Goto("succeeded") \/ Goto("write"))
          /\ UNCHANGED <<walk, catalog, manifest, config, lockfile>> /\ UNCHANGED solverVars
      BY <1>2 DEF CompareLock, Files, Project, World, projectVars
    <2> QED BY <1>1, <2>1, EndingKeeps DEF At
  <1>3. CASE WriteLock
    <2>1. /\ At("write") /\ Goto("succeeded") /\ lockfile' = build.resolution
          /\ UNCHANGED <<walk, catalog, manifest, config>> /\ UNCHANGED solverVars
      BY <1>3 DEF WriteLock, Project, World, projectVars
    <2>2. build.resolution \in Lockfiles
      BY <1>1 DEF Builds
    <2> QED BY <2>1, <2>2, EndingKeeps DEF At
  <1>4. CASE CheckLock
    <2>1. /\ At("apply") /\ (Goto("succeeded") \/ build' = [Idle EXCEPT !.phase = "failed"])
          /\ UNCHANGED <<walk, catalog, manifest, config, lockfile>> /\ UNCHANGED solverVars
      BY <1>4 DEF CheckLock, Files, Project, World, projectVars
    <2>2. walk = NoWalk
      BY <2>1, QuietBuild DEF IsQuiet, At
    <2> QED BY <1>1, <2>1, <2>2, EndingKeeps, FailedBuild DEF At
  <1> QED BY <1>2, <1>3, <1>4

\* What others do leaves the build as it is.
Environment == \/ EditManifest \/ WithdrawSnapshot \/ DamageBlob \/ ReplaceLock
               \/ \E r \in Registries : AdoptSnapshot(r)

LEMMA EnvironmentKeeps ==
    ASSUME BuildInv, Environment
    PROVE  BuildInv'
  <1>1. UNCHANGED <<walk, catalog, build>> /\ UNCHANGED solverVars
    BY DEF Environment, EditManifest, WithdrawSnapshot, DamageBlob, ReplaceLock,
           AdoptSnapshot, Edit
  <1>2. BuildTypeOK
    BY DEF BuildInv
  <1>3. manifest' \in Manifests
    BY <1>2 DEF BuildTypeOK, Environment, EditManifest, WithdrawSnapshot, DamageBlob,
                ReplaceLock, AdoptSnapshot
  <1>4. config' \in [Registries -> Digests]
    BY <1>2 DEF BuildTypeOK, Environment, EditManifest, WithdrawSnapshot, DamageBlob,
                ReplaceLock, AdoptSnapshot
  <1>5. lockfile' \in Lockfiles
    <2>1. OtherLocks(catalog) \subseteq Lockfiles
      BY <1>2, BuildAssumption, OtherLocksShape DEF BuildTypeOK
    <2> QED BY <1>2, <2>1, NoLockShape DEF BuildTypeOK, Environment, EditManifest,
               WithdrawSnapshot, DamageBlob, ReplaceLock, AdoptSnapshot
  <1>6. BuildTypeOK'
    BY <1>1, <1>2, <1>3, <1>4, <1>5 DEF BuildTypeOK
  <1>7. WalkInv' /\ WalkIsOf'
    BY <1>1, WalkUnchanged, SameSearch DEF BuildInv, WalkIsOf, At
  <1>8. SolverInv' /\ SearchIsOf'
    BY <1>1, SameBuild, SameSearch DEF BuildInv, SearchIsOf, At, solverVars
  <1>9. LoadsLocked' /\ ResolutionIsSound'
    BY <1>1, SameBuild DEF BuildInv
  <1> QED BY <1>6, <1>7, <1>8, <1>9 DEF BuildInv
-----------------------------------------------------------------------------
(* The theorems. *)

LEMMA BuildsStart == Init => BuildInv
  <1> SUFFICES ASSUME Init PROVE BuildInv
    OBVIOUS
  <1>1. /\ SolverInit /\ walk = NoWalk /\ catalog \in Catalogs /\ manifest \in Manifests
        /\ config = [r \in Registries |-> 1] /\ lockfile = NoLock /\ build = Idle
    BY DEF Init
  <1>2. SolverInv /\ WalkInv /\ WalkIsOf
    BY <1>1, SolverStarts, NoWalkInv DEF WalkIsOf
  <1>3. Idle.phase = "idle"
    BY DEF Idle
  <1>4. BuildTypeOK
    BY <1>1, IdleShape, NoLockShape, BuildAssumption DEF BuildTypeOK
  <1>5. SearchIsOf
    BY <1>1, <1>3 DEF SearchIsOf, At, SolverInit, Failed
  <1>6. LoadsLocked /\ ResolutionIsSound
    BY <1>1, <1>3 DEF LoadsLocked, ResolutionIsSound, At
  <1> QED BY <1>2, <1>4, <1>5, <1>6 DEF BuildInv

LEMMA BuildStutters ==
    ASSUME BuildInv, UNCHANGED vars
    PROVE  BuildInv'
  <1>1. /\ UNCHANGED <<walk, build, catalog, manifest, config, lockfile>>
        /\ UNCHANGED solverVars
    BY DEF vars, projectVars
  <1>2. WalkInv' /\ WalkIsOf'
    BY <1>1, WalkUnchanged, SameSearch DEF BuildInv, WalkIsOf, At
  <1> QED BY <1>1, <1>2, WalkingKeeps

\* Every step of a build keeps the invariant, and is a step of the search of
\* RegistryResolution or leaves it alone.
LEMMA BuildStep ==
    ASSUME BuildInv, [Next]_vars
    PROVE  BuildInv' /\ [SolverNext]_solverVars
  <1>1. ASSUME NEW mode \in Modes, Start(mode)
        PROVE  BuildInv' /\ [SolverNext]_solverVars
    BY <1>1, StartKeeps DEF Start
  <1>2. CASE ReadPriorLock
    BY <1>2, ReadPriorLockKeeps DEF ReadPriorLock
  <1>3. ASSUME NEW r \in Registries, LoadFromCache(r) \/ LoadFromEndpoint(r) \/ LoadFails(r)
        PROVE  BuildInv' /\ [SolverNext]_solverVars
    BY <1>3, LoadsKeep DEF LoadFromCache, LoadFromEndpoint, LoadFails, Give_up, SolverNext
  <1>4. CASE StartSearch \/ Search \/ CycleFound \/ NoCycleFound
    BY <1>4, StartSearchKeeps, SearchKeepsBuild, CycleFoundKeeps, NoCycleFoundKeeps
  <1>5. CASE LookForCycles \/ Walk
    BY <1>5, LookForCyclesKeeps, WalkKeeps DEF LookForCycles, Walk
  <1>6. CASE SearchFound \/ SearchLacks
    BY <1>6, SearchFoundKeeps, SearchLacksKeeps DEF SearchFound, SearchLacks, SolverNext
  <1>7. CASE SearchFails \/ Abort
    BY <1>7, GivingUpKeeps DEF SearchFails, Abort, Give_up, IsQuiet, SolverNext
  <1>8. CASE ValidateLocked \/ TakeLocked \/ RefuseLocked
    BY <1>8, ValidateLockedKeeps, TakeLockedKeeps, RefuseLockedKeeps
       DEF ValidateLocked, TakeLocked, RefuseLocked
  <1>9. CASE CompareLock \/ WriteLock \/ CheckLock
    BY <1>9, LockfileStepsKeep DEF CompareLock, WriteLock, CheckLock
  <1>10. CASE Environment
    BY <1>10, EnvironmentKeeps DEF Environment, EditManifest, WithdrawSnapshot, DamageBlob,
                                  ReplaceLock, AdoptSnapshot, Edit
  <1>11. CASE UNCHANGED vars
    BY <1>11, BuildStutters DEF vars
  <1> QED BY <1>1, <1>2, <1>3, <1>4, <1>5, <1>6, <1>7, <1>8, <1>9, <1>10, <1>11
          DEF Next, Modes, Environment

\* Whatever the catalog, and whatever others do to the manifests, snapshots
\* and lockfile between the steps of a build, a build keeps its invariant.
THEOREM BuildInvariant == Spec => []BuildInv
  <1> QED BY BuildsStart, BuildStep, PTL DEF Spec

\* Types: the project's files and the record of the build
\* (resolve_input, prepare_registry_graph).
THEOREM BuildTypes == Spec => []BuildTypeOK
  <1>1. BuildInv => BuildTypeOK
    BY DEF BuildInv
  <1> QED BY <1>1, BuildInvariant, PTL

\* The searches of builds, with their walks for cycles, are behaviours of
\* the search of RegistryResolution, which decides at once whether there is
\* a cycle (prepare_registry_graph, solve_registry_constraints).
THEOREM BuildsSearch == Spec => SolverSpec
  <1>1. Init => SolverInit
    BY DEF Init
  <1> QED BY <1>1, BuildInvariant, BuildStep, PTL DEF Spec, SolverSpec

\* The selection of an update is the highest resolution of what it loaded
\* (solve_registry_constraints).
THEOREM BuildsSelectTheBest == Spec => []SelectionIsBest
  <1> QED BY BuildsSearch, SelectionsAreBest, PTL

\* An update that fails in its search has no resolution
\* (solve_registry_constraints).
THEOREM BuildsFailForReal == Spec => []FailureIsReal
  <1> QED BY BuildsSearch, FailuresAreReal, PTL

\* Walks stay in their graphs and find out exactly what they are for
\* (reject_registry_cycles, validate_locked_closure).
THEOREM BuildWalksAreExact == Spec => []WalksAreExact
  <1>1. ASSUME BuildInv PROVE WalksAreExact
    <2>1. WalkInv
      BY <1>1 DEF BuildInv
    <2>2. Ahead \subseteq DOMAIN walk.edges
      BY <2>1, AheadShape
    <2> QED BY <1>1, <2>2, SearchWalkIsExact, LockedWalkIsExact DEF WalksAreExact
  <1> QED BY <1>1, BuildInvariant, PTL

\* What a locked build takes over resolves its manifests, with nothing spare
\* (resolution_from_lock).
THEOREM LockedBuildsAreSound == Spec => []LockedBuildIsSound
  <1>1. ASSUME BuildInv, TookLock
        PROVE  LET selection == build.resolution.packages
                   locked == {<<k, selection[k]>> : k \in DOMAIN selection}
                   p == ProblemOf(build.roots, build.resolution.snapshots, locked)
               IN Resolves(p, selection) /\ NothingSpare(p, selection)
    <2> DEFINE selection == build.resolution.packages
               locked == {<<k, selection[k]>> : k \in DOMAIN selection}
    <2>1. Sound(build.resolution, build.roots)
      BY <1>1 DEF BuildInv, ResolutionIsSound, TookLock, At
    <2>2. build \in Builds /\ catalog \in Catalogs
      BY <1>1 DEF BuildInv, BuildTypeOK
    <2>3. build.resolution \in Lockfiles /\ build.roots \in SUBSET Requirement
      BY <2>2 DEF Builds
    <2>4. locked \in SUBSET (Packages \X Versions)
      BY <2>3, LockShape, SelectionShape
    <2>5. \A k \in DOMAIN selection : <<k, selection[k]>> \in locked
      OBVIOUS
    <2> HIDE DEF locked
    <2>6. Resolves(ProblemOf(build.roots, build.resolution.snapshots, locked), selection)
          /\ NothingSpare(ProblemOf(build.roots, build.resolution.snapshots, locked), selection)
      BY <2>1, <2>2, <2>3, <2>4, <2>5, SoundLocksResolve
    <2> QED BY <2>6 DEF locked
  <1>2. BuildInv => LockedBuildIsSound
    BY <1>1 DEF LockedBuildIsSound
  <1> QED BY <1>2, BuildInvariant, PTL

\* What an update writes is a lockfile the locked modes accept
\* (from_graph_root_with_registry, resolution_from_lock).
THEOREM UpdatedLocksAreAccepted == Spec => []UpdateLocksAreAccepted
  <1>1. BuildInv => UpdateLocksAreAccepted
    BY DEF BuildInv, ResolutionIsSound, Sound, UpdateLocksAreAccepted, Updated, At
  <1> QED BY <1>1, BuildInvariant, PTL
=============================================================================
