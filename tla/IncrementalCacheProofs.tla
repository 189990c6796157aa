----------------------- MODULE IncrementalCacheProofs -----------------------
(***************************************************************************)
(* The cache for every number of compiler invocations and cleans, every    *)
(* set of artifacts, every attempt limit, with any number of kills and     *)
(* with a file system that may refuse writes and renames.                  *)
(***************************************************************************)
EXTENDS IncrementalCacheProperties, Integers, FiniteSetTheorems, TLAPS

(* A complete entry is an entry.                                           *)
LEMMA WholeEntries ==
    /\ \A entry : Whole(entry) => entry \in Entry /\ entry.payload \in Artifact
    /\ \A artifact \in Artifact :
          LET entry == [metadata |-> artifact, payload |-> artifact]
          IN  Whole(entry) /\ entry \in Place
    /\ ~Whole(Absent)
BY PlaceAssumption DEF Whole, Entry, Place

(* Where a read can lead, and what it can report.                          *)
LEMMA ResumeFacts ==
    ASSUME NEW at \in Reads, NEW result \in {"hit", "missing", "invalid"}
    PROVE  /\ Resume(at, result) \in {"done", "compile", "check", "unstage", "publish",
                                      "detach", "retry"}
           /\ Verdict(at, result) \in {"working", "hit", "reused", "error"}
           /\ Verdict(at, result) # "working" => Resume(at, result) \in {"done", "unstage"}
           /\ Resume(at, result) = "done" => at = "lookup"
           /\ at = "lookup" => Resume(at, result) \in {"done", "compile"}
           /\ Resume(at, result) = "compile" => at = "lookup"
           /\ Verdict(at, result) = "hit" => at = "lookup" /\ result = "hit"
           /\ Verdict(at, result) = "reused" => result = "hit" /\ at # "validate"
BY DEF Resume, Verdict, Reads

(* A read of an entry changes nothing on the disk.                         *)
LEMMA ReadsKeepInv ==
    ASSUME CacheInv, refused' \in 0..MaxRefusals, NEW c \in Compilers,
           StatEntry(c) \/ ReadMetadata(c) \/ ReadPayload(c)
    PROVE  CacheInv'
<1> USE DEF CacheInv
<1>1. UNCHANGED disk /\ UNCHANGED <<built, attempts>> /\ pc[c] \in Reads
  BY DEF StatEntry, ReadMetadata, ReadPayload
<1>2. ASSUME NEW result \in {"hit", "missing", "invalid"}, Conclude(c, result),
             UNCHANGED seen \/ (\E a \in Artifact : seen' = [seen EXCEPT ![c] = a])
      PROVE  CacheInv'
  <2> DEFINE to == Resume(pc[c], result)
             told == Verdict(pc[c], result)
  <2>1. /\ pc' = [pc EXCEPT ![c] = to]
        /\ outcome' = [outcome EXCEPT ![c] = told]
        /\ reading' = [reading EXCEPT ![c] = "entry"]
    BY <1>2 DEF Conclude, Report, Goto
  <2>2. /\ to \in {"done", "compile", "check", "unstage", "publish", "detach", "retry"}
        /\ told \in {"working", "hit", "reused", "error"}
        /\ told # "working" => to \in {"done", "unstage"}
        /\ to = "done" => pc[c] = "lookup"
        /\ pc[c] = "lookup" => to \in {"done", "compile"}
        /\ to = "compile" => pc[c] = "lookup"
    BY <1>1, ResumeFacts
  <2> HIDE DEF to, told
  <2>3. CacheTypeOK'
    BY <1>1, <1>2, <2>1, <2>2 DEF CacheTypeOK, disk, Process, Reads
  <2>4. SiblingsOwned'
    BY <1>1, <2>1, <2>2 DEF SiblingsOwned, CacheTypeOK, disk, Process, Loop, Staging,
       Publishing, Reads
  <2>5. ReadersBound'
    BY <1>1, <1>2, <2>1, <2>2 DEF ReadersBound, CacheTypeOK, disk, Process, Reads
  <2>6. ReportedOnce'
    BY <1>1, <2>1, <2>2 DEF ReportedOnce, CacheTypeOK, Process, Reads
  <2>7. QED
    BY <2>3, <2>4, <2>5, <2>6
<1>3. CASE StatEntry(c) /\ UNCHANGED <<pc, outcome>>
  <2>1. (reading' = [reading EXCEPT ![c] = "metadata"] /\ UNCHANGED seen) \/ CacheInv'
    BY <1>2, <1>3 DEF StatEntry
  <2>2. QED
    BY <1>1, <1>3, <2>1
       DEF CacheTypeOK, SiblingsOwned, ReadersBound, ReportedOnce, disk, Process
<1>4. CASE StatEntry(c) /\ ~UNCHANGED <<pc, outcome>>
  BY <1>2, <1>4 DEF StatEntry
<1>5. CASE ReadMetadata(c) /\ Conclude(c, "invalid")
  BY <1>2, <1>5 DEF ReadMetadata
<1>6. CASE ReadMetadata(c) /\ ~Conclude(c, "invalid")
  <2>1. /\ EntryRead(c) \in Entry /\ EntryRead(c).metadata \in Artifact
        /\ seen' = [seen EXCEPT ![c] = EntryRead(c).metadata]
        /\ reading' = [reading EXCEPT ![c] = "payload"]
        /\ UNCHANGED <<pc, outcome>>
    BY <1>6 DEF ReadMetadata
  <2>2. CacheTypeOK' /\ SiblingsOwned' /\ ReportedOnce'
    BY <1>1, <2>1 DEF CacheTypeOK, SiblingsOwned, ReportedOnce, disk, Process
  <2>3. ReadersBound'
    BY <1>1, <2>1 DEF CacheTypeOK, ReadersBound, disk, Process, EntryRead, Whole
  <2>4. QED
    BY <2>2, <2>3
<1>7. CASE ReadPayload(c)
  BY <1>2, <1>7 DEF ReadPayload
<1>8. QED
  BY <1>3, <1>4, <1>5, <1>6, <1>7

(* Compiling and creating the directories.                                 *)
LEMMA PreparationKeepsInv ==
    ASSUME CacheInv, refused' \in 0..MaxRefusals, NEW c \in Compilers,
           Compile(c) \/ EnsureNamespace(c) \/ EnsureShard(c) \/ Stage(c)
    PROVE  CacheInv'
<1> USE DEF CacheInv, CacheTypeOK, SiblingsOwned, ReadersBound, ReportedOnce, Process, Reads,
            Loop, Staging, Publishing, Goto, Report
<1>1. CASE Compile(c)
  BY <1>1 DEF Compile, disk
<1>2. CASE EnsureNamespace(c)
  BY <1>2 DEF EnsureNamespace
<1>3. CASE EnsureShard(c)
  BY <1>3 DEF EnsureShard
<1>4. CASE Stage(c)
  BY <1>4 DEF Stage, Entry, Place
<1>5. QED
  BY <1>1, <1>2, <1>3, <1>4

(* Writing the two files, and every way out of publish.                    *)
LEMMA WritesKeepInv ==
    ASSUME CacheInv, refused' \in 0..MaxRefusals, NEW c \in Compilers,
           WritePayload(c) \/ WriteMetadata(c) \/ Retry(c) \/ Unstage(c) \/ IoFails(c) \/ Crash(c)
    PROVE  CacheInv'
<1> USE DEF CacheInv, CacheTypeOK, SiblingsOwned, ReadersBound, ReportedOnce, Process, Reads,
            Loop, Staging, Publishing, Goto, Report
<1>1. CASE WritePayload(c)
  BY <1>1 DEF WritePayload, Write, Entry, Place
<1>2. CASE WriteMetadata(c)
  <2>1. (SiblingsOwned /\ ReadersBound /\ ReportedOnce)'
    BY <1>2 DEF WriteMetadata, Write, Entry, Place
  <2>2. CacheTypeOK'
    BY <1>2 DEF WriteMetadata, Write, Entry, Place
  <2>3. QED
    BY <2>1, <2>2
<1>3. CASE Retry(c)
  <2> DEFINE next == attempts[c] + 1
  <2>1. MaxAttempts \in Nat /\ attempts[c] \in 0..MaxAttempts /\ attempts[c] # MaxAttempts
    BY <1>3, CacheAssumption DEF Retry
  <2>2. next \in 0..MaxAttempts /\ (next < MaxAttempts => next # MaxAttempts)
    BY <2>1
  <2>3. /\ attempts' = [attempts EXCEPT ![c] = next]
        /\ pc[c] = "retry" /\ UNCHANGED <<disk, reading, seen, built>>
        /\ \/ /\ next < MaxAttempts
              /\ pc' = [pc EXCEPT ![c] = "check"] /\ UNCHANGED outcome
           \/ /\ pc' = [pc EXCEPT ![c] = "unstage"]
              /\ outcome' = [outcome EXCEPT ![c] = "error"]
    BY <1>3 DEF Retry
  <2> HIDE DEF next
  <2>4. CacheTypeOK' /\ ReportedOnce'
    BY <2>2, <2>3 DEF disk
  <2>5. SiblingsOwned' /\ ReadersBound'
    BY <2>3 DEF disk
  <2>6. QED
    BY <2>4, <2>5
<1>4. CASE Unstage(c)
  BY <1>4 DEF Unstage, Place
<1>5. CASE IoFails(c)
  BY <1>5 DEF IoFails, disk
<1>6. CASE Crash(c)
  BY <1>6 DEF Crash, disk
<1>7. QED
  BY <1>1, <1>2, <1>3, <1>4, <1>5, <1>6

(* The renames: an entry is moved aside, published, or leaves with all.    *)
LEMMA RenamesKeepInv ==
    ASSUME CacheInv, refused' \in 0..MaxRefusals,
           \/ \E c \in Compilers : Detach(c) \/ Discard(c) \/ Publish(c)
           \/ \E k \in Cleaners : StatNamespace(k) \/ DetachNamespace(k)
    PROVE  CacheInv'
<1> USE PlaceAssumption, CacheAssumption, WholeEntries
    DEF CacheInv, CacheTypeOK, SiblingsOwned, ReadersBound, ReportedOnce, Process, Reads,
        Loop, Staging, Publishing, Goto, Report
<1>1. ASSUME NEW c \in Compilers, Detach(c)
      PROVE  CacheInv'
  BY <1>1 DEF Detach, Place
<1>2. ASSUME NEW c \in Compilers, Discard(c)
      PROVE  CacheInv'
  BY <1>2 DEF Discard, Place
<1>3. ASSUME NEW c \in Compilers, Publish(c)
      PROVE  CacheInv'
  BY <1>3 DEF Publish, Place
<1>4. ASSUME NEW k \in Cleaners, StatNamespace(k)
      PROVE  CacheInv'
  BY <1>4 DEF StatNamespace, disk
<1>5. ASSUME NEW k \in Cleaners, DetachNamespace(k)
      PROVE  CacheInv'
  BY <1>5 DEF DetachNamespace, disk, Place
<1>6. QED
  BY <1>1, <1>2, <1>3, <1>4, <1>5

(* Every step keeps the invariant.                                         *)
LEMMA StepKeepsInv == CacheInv /\ [Next]_vars => CacheInv'
<1> SUFFICES ASSUME CacheInv, [Next]_vars PROVE CacheInv'
  OBVIOUS
<1>1. CASE UNCHANGED vars
  BY <1>1 DEF vars, disk, CacheInv, CacheTypeOK, SiblingsOwned, ReadersBound, ReportedOnce
<1>2. refused \in 0..MaxRefusals
  BY DEF CacheInv, CacheTypeOK
<1>3. ASSUME NEW c \in Compilers, CompilerStep(c), UNCHANGED refused
      PROVE  CacheInv'
  BY <1>2, <1>3, ReadsKeepInv, PreparationKeepsInv, WritesKeepInv, RenamesKeepInv DEF CompilerStep
<1>4. ASSUME NEW c \in Compilers, IoFails(c)
      PROVE  CacheInv'
  <2>1. refused' \in 0..MaxRefusals
    BY <1>2, <1>4, CacheAssumption DEF IoFails
  <2>2. QED
    BY <1>4, <2>1, WritesKeepInv
<1>5. ASSUME NEW k \in Cleaners, CleanerStep(k), UNCHANGED refused
      PROVE  CacheInv'
  BY <1>2, <1>5, RenamesKeepInv DEF CleanerStep
<1>6. QED
  BY <1>1, <1>3, <1>4, <1>5 DEF Next

(* The inductive invariant holds of every behaviour.                       *)
THEOREM CacheInvariant == Spec => []CacheInv
<1>1. Init => CacheInv
  BY CacheAssumption, PlaceAssumption
     DEF Init, CacheInv, CacheTypeOK, SiblingsOwned, ReadersBound, ReportedOnce, Process, Place,
         Loop, Staging, Publishing, Reads
<1>2. QED
  BY <1>1, StepKeepsInv, PTL DEF Spec

(* The state of the cache is always well typed, the attempt limit is kept  *)
(* and nothing is left below a namespace that is gone.                     *)
THEOREM CacheTyped == Spec => []CacheTypeOK
BY CacheInvariant, PTL DEF CacheInv

(* Every return of publish has removed its siblings, for any number of     *)
(* invocations, cleans and kills of others.                                *)
THEOREM NothingLeftBehind == Spec => []NoLitter
<1>1. CacheInv => NoLitter
  BY DEF CacheInv, SiblingsOwned, NoLitter, Staging, Loop
<1>2. QED
  BY <1>1, CacheInvariant, PTL

(* A step that changes the final path empties it or fills it whole.        *)
LEMMA FinalChanges ==
    ASSUME CacheInv, [Next]_vars
    PROVE  final' # final => final' = Absent \/ Whole(final')
<1>1. ASSUME NEW c \in Compilers, Publish(c)
      PROVE  final' = final \/ Whole(final')
  BY <1>1, WholeEntries DEF Publish, CacheInv, SiblingsOwned, Loop, Publishing
<1>2. ASSUME NEW c \in Compilers, Detach(c)
      PROVE  final' = final \/ final' = Absent
  BY <1>2 DEF Detach
<1>3. ASSUME NEW k \in Cleaners, StatNamespace(k) \/ DetachNamespace(k)
      PROVE  final' = final \/ final' = Absent
  BY <1>3 DEF StatNamespace, DetachNamespace, disk
<1>4. ASSUME NEW c \in Compilers, CompilerStep(c) \/ IoFails(c), ~Publish(c), ~Detach(c)
      PROVE  final' = final
  BY <1>4 DEF CompilerStep, StatEntry, ReadMetadata, ReadPayload, Compile, EnsureNamespace,
     EnsureShard, Stage, WritePayload, WriteMetadata, Write, Discard, Retry, Unstage, IoFails,
     Crash, disk
<1>5. QED
  BY <1>1, <1>2, <1>3, <1>4 DEF Next, CleanerStep, vars, disk

(* Readers never find a partial entry that a writer has put there.         *)
THEOREM NoPartialEntry == Spec => OnlyWholeEntriesAppear
<1>1. CacheInv /\ [Next]_vars => [final' # final => final' = Absent \/ Whole(final')]_vars
  BY FinalChanges
<1>2. QED
  BY <1>1, CacheInvariant, PTL DEF Spec, OnlyWholeEntriesAppear

-----------------------------------------------------------------------------
(* Refinement of the artifact store.                                         *)

(* What a reader finds whole at the final path is the entry of the slot.   *)
LEMMA VisibleFacts ==
    /\ Whole(final) => Visible = final.payload /\ Visible # Absent
    /\ ~Whole(final) => Visible = Absent
BY WholeEntries, CacheAssumption DEF Visible

(* What an invocation has taken is fixed by its outcome.                   *)
LEMMA TakenFacts ==
    ASSUME NEW c \in Compilers
    PROVE  /\ outcome[c] = "hit" => Taken(c) = seen[c]
           /\ outcome[c] = "published" => Taken(c) = built[c]
           /\ outcome[c] \notin {"hit", "published"} => Taken(c) = Absent
           /\ outcome[c] = "error" => Use(c) = "without"
           /\ outcome[c] # "error" => Use(c) = outcome[c]
BY DEF Taken, Use

(* A step of one invocation that reports nothing is invisible, if the slot *)
(* keeps its content.                                                      *)
LEMMA SilentStep ==
    ASSUME CacheInv, UNCHANGED outcome, Visible' = Visible,
           \A c \in Compilers : outcome[c] # "working" => seen'[c] = seen[c] /\ built'[c] = built[c]
    PROVE  UNCHANGED Store!vars
<1>1. ASSUME NEW c \in Compilers
      PROVE  Use(c)' = Use(c) /\ Taken(c)' = Taken(c)
  BY <1>1 DEF Use, Taken
<1>2. QED
  BY <1>1 DEF Store!vars

(* A step by which one working invocation reports its outcome.             *)
LEMMA ReportingStep ==
    ASSUME CacheInv, NEW c \in Compilers, NEW result,
           outcome[c] = "working", outcome' = [outcome EXCEPT ![c] = result],
           UNCHANGED <<seen, built>>
    PROVE  Store!Settle(c, Use(c)', Taken(c)')
<1>1. ASSUME NEW d \in Compilers, d # c
      PROVE  Use(d)' = Use(d) /\ Taken(d)' = Taken(d)
  BY <1>1 DEF Use, Taken, CacheInv, CacheTypeOK, Process
<1>2. Use(c) = "working"
  BY DEF Use
<1>3. QED
  BY <1>1, <1>2 DEF Store!Settle

(* The reads: a hit in lookup takes the entry of the slot, a hit later     *)
(* reuses it.                                                              *)
LEMMA ReadsRefine ==
    ASSUME CacheInv, NEW c \in Compilers, StatEntry(c) \/ ReadMetadata(c) \/ ReadPayload(c)
    PROVE  [Store!Next]_(Store!vars)
<1>1. UNCHANGED disk /\ UNCHANGED built /\ pc[c] \in Reads /\ outcome[c] = "working"
  BY DEF StatEntry, ReadMetadata, ReadPayload, CacheInv, ReportedOnce, CacheTypeOK, Process, Reads
<1>2. Visible' = Visible
  BY <1>1 DEF Visible, disk
<1>3. CASE UNCHANGED outcome
  <2>1. ASSUME NEW d \in Compilers, outcome[d] # "working"
        PROVE  seen'[d] = seen[d] /\ built'[d] = built[d]
    BY <1>1, <2>1 DEF StatEntry, ReadMetadata, ReadPayload, CacheInv, CacheTypeOK
  <2>2. QED
    BY <1>2, <1>3, <2>1, SilentStep
<1>4. ASSUME NEW result \in {"hit", "missing", "invalid"}, Conclude(c, result),
             UNCHANGED seen, ~UNCHANGED outcome, result = "hit" => ReadPayload(c) /\ PayloadMatches(c)
      PROVE  Store!Next
  <2> DEFINE told == Verdict(pc[c], result)
  <2>1. outcome' = [outcome EXCEPT ![c] = told]
    BY <1>4 DEF Conclude, Report
  <2>2. /\ told \in {"working", "hit", "reused", "error"}
        /\ told = "hit" => pc[c] = "lookup" /\ result = "hit"
        /\ told = "reused" => result = "hit" /\ pc[c] # "validate"
    BY <1>1, ResumeFacts
  <2> HIDE DEF told
  <2>3. told # "working"
    BY <1>1, <1>4, <2>1 DEF CacheInv, CacheTypeOK, Process
  <2>4. outcome'[c] = told
    BY <2>1 DEF CacheInv, CacheTypeOK, Process
  <2>5. UNCHANGED <<seen, built>>
    BY <1>1, <1>4
  <2>6. Store!Settle(c, Use(c)', Taken(c)')
    BY <1>1, <2>1, <2>5, ReportingStep
  <2>7. CASE told = "error"
    <3>1. Use(c)' = "without" /\ Taken(c)' = Absent
      BY <2>4, <2>7 DEF Use, Taken
    <3>2. QED
      BY <1>2, <2>6, <3>1 DEF Store!Next, Store!GoWithout
  <2>8. CASE told \in {"hit", "reused"}
    <3>1. final \in Entry /\ final.payload = seen[c] /\ reading[c] = "payload"
      BY <1>4, <2>2, <2>8 DEF PayloadMatches, EntryRead, ReadPayload
    <3>2. Whole(final)
      BY <1>1, <2>2, <2>8, <3>1 DEF CacheInv, ReadersBound, Whole, Entry
    <3>3. Visible = seen[c] /\ Visible # Absent
      BY <3>1, <3>2, VisibleFacts
    <3>4. CASE told = "hit"
      <4>1. Use(c)' = "hit" /\ Taken(c)' = Visible
        BY <2>4, <2>5, <3>3, <3>4 DEF Use, Taken
      <4>2. QED
        BY <1>2, <2>6, <3>3, <4>1 DEF Store!Next, Store!Hit
    <3>5. CASE told = "reused"
      <4>1. Use(c)' = "reused" /\ Taken(c)' = Absent
        BY <2>4, <3>5 DEF Use, Taken
      <4>2. QED
        BY <1>2, <2>6, <3>3, <4>1 DEF Store!Next, Store!Reuse
    <3>6. QED
      BY <2>8, <3>4, <3>5
  <2>9. QED
    BY <2>2, <2>3, <2>7, <2>8
<1>5. CASE ~UNCHANGED outcome
  <2>1. CASE StatEntry(c)
    BY <1>4, <1>5, <2>1 DEF StatEntry
  <2>2. CASE ReadMetadata(c)
    BY <1>4, <1>5, <2>2 DEF ReadMetadata
  <2>3. CASE ReadPayload(c)
    BY <1>4, <1>5, <2>3 DEF ReadPayload
  <2>4. QED
    BY <2>1, <2>2, <2>3
<1>6. QED
  BY <1>3, <1>5

(* Detach may take a valid entry away: the slot is emptied, never changed. *)
LEMMA EvictRefines ==
    ASSUME CacheInv, UNCHANGED <<seen, built>>, final' \in {final, Absent},
           \A c \in Compilers : outcome'[c] = outcome[c]
    PROVE  [Store!Next]_(Store!vars)
<1>1. ASSUME NEW c \in Compilers
      PROVE  Use(c)' = Use(c) /\ Taken(c)' = Taken(c)
  BY <1>1 DEF Use, Taken
<1>2. Visible' = Visible \/ Visible' = Absent
  BY WholeEntries DEF Visible
<1>3. QED
  BY <1>1, <1>2 DEF Store!Next, Store!Evict, Store!vars

(* Publishing fills the empty slot with the artifact of the invocation.    *)
LEMMA PublishRefines ==
    ASSUME CacheInv, NEW c \in Compilers, Publish(c)
    PROVE  [Store!Next]_(Store!vars)
<1>1. CASE UNCHANGED <<final, outcome>>
  BY <1>1, EvictRefines DEF Publish
<1>2. CASE ~UNCHANGED <<final, outcome>>
  <2>1. /\ temporary[c] # Absent /\ final = Absent /\ final' = temporary[c]
        /\ outcome' = [outcome EXCEPT ![c] = "published"]
        /\ UNCHANGED <<seen, built>>
        /\ pc[c] = "publish"
    BY <1>2 DEF Publish, Report
  <2>2. outcome[c] = "working" /\ outcome'[c] = "published"
    BY <2>1 DEF CacheInv, CacheTypeOK, ReportedOnce, Process
  <2>3. final' = [metadata |-> built[c], payload |-> built[c]] /\ built[c] \in Artifact
    BY <2>1 DEF CacheInv, SiblingsOwned, Loop, Publishing
  <2>4. Visible = Absent
    BY <2>1, VisibleFacts, WholeEntries
  <2>5. Visible' = built[c]
    <3>1. Whole(final)'
      BY <2>3 DEF Whole
    <3>2. QED
      BY <2>3, <3>1 DEF Visible
  <2>6. Store!Settle(c, Use(c)', Taken(c)')
    BY <2>1, <2>2, ReportingStep
  <2>7. Use(c)' = "published" /\ Taken(c)' = built[c]
    BY <2>1, <2>2 DEF Use, Taken
  <2>8. Store!Publish(c)
    BY <2>3, <2>4, <2>5, <2>6, <2>7 DEF Store!Publish
  <2>9. QED
    BY <2>8 DEF Store!Next
<1>3. QED
  BY <1>1, <1>2

(* Every other step of an invocation is silent or gives the cache up.      *)
LEMMA OtherStepsRefine ==
    ASSUME CacheInv, NEW c \in Compilers,
           \/ Compile(c) \/ EnsureNamespace(c) \/ EnsureShard(c) \/ Stage(c)
           \/ WritePayload(c) \/ WriteMetadata(c) \/ Discard(c) \/ Retry(c) \/ Unstage(c)
           \/ IoFails(c) \/ Crash(c)
    PROVE  [Store!Next]_(Store!vars)
<1>1. UNCHANGED <<final, seen>>
  BY DEF Compile, EnsureNamespace, EnsureShard, Stage, WritePayload, WriteMetadata, Write,
         Discard, Retry, Unstage, IoFails, Crash, disk
<1>2. Visible' = Visible
  BY <1>1 DEF Visible
<1>3. CASE UNCHANGED outcome
  <2>1. ASSUME NEW d \in Compilers, outcome[d] # "working"
        PROVE  seen'[d] = seen[d] /\ built'[d] = built[d]
    <3>1. CASE Compile(c)
      <4>1. outcome[c] = "working" /\ d # c
        BY <2>1, <3>1 DEF Compile, CacheInv, ReportedOnce
      <4>2. QED
        BY <1>1, <3>1, <4>1 DEF Compile, CacheInv, CacheTypeOK
    <3>2. CASE ~Compile(c)
      BY <1>1, <3>2 DEF EnsureNamespace, EnsureShard, Stage, WritePayload, WriteMetadata, Write,
         Discard, Retry, Unstage, IoFails, Crash
    <3>3. QED
      BY <3>1, <3>2
  <2>2. QED
    BY <1>2, <1>3, <2>1, SilentStep
<1>4. CASE ~UNCHANGED outcome
  <2>1. /\ outcome' = [outcome EXCEPT ![c] = "error"]
        /\ UNCHANGED built
        /\ pc[c] \notin {"done", "unstage", "crashed"}
    BY <1>4 DEF Compile, EnsureNamespace, EnsureShard, Stage, WritePayload, WriteMetadata, Write,
       Discard, Retry, Unstage, IoFails, Crash, Report
  <2>2. outcome[c] = "working" /\ outcome'[c] = "error"
    BY <2>1 DEF CacheInv, CacheTypeOK, ReportedOnce, Process
  <2>3. Store!Settle(c, Use(c)', Taken(c)')
    BY <1>1, <2>1, <2>2, ReportingStep
  <2>4. Use(c)' = "without" /\ Taken(c)' = Absent
    BY <2>2 DEF Use, Taken
  <2>5. QED
    BY <1>2, <2>3, <2>4 DEF Store!Next, Store!GoWithout
<1>5. QED
  BY <1>3, <1>4

(* Whatever invocations, cleans and kills interleave: a hit is the entry   *)
(* of the slot at that moment, and the slot is never overwritten.          *)
THEOREM CacheImplementsArtifactStore == Spec => ImplementsArtifactStore
<1>1. Init => Store!Init
  <2>1. ASSUME Init
        PROVE  Visible \in Artifact \cup {Absent}
    BY <2>1, WholeEntries DEF Visible
  <2>2. ASSUME Init, NEW c \in Compilers
        PROVE  Use(c) = "working" /\ Taken(c) = Absent
    BY <2>2 DEF Init, Use, Taken, Process
  <2>3. QED
    BY <2>1, <2>2 DEF Store!Init
<1>2. ASSUME CacheInv, [Next]_vars
      PROVE  [Store!Next]_(Store!vars)
  <2>1. ASSUME NEW c \in Compilers, CompilerStep(c) \/ IoFails(c)
        PROVE  [Store!Next]_(Store!vars)
    <3>1. CASE StatEntry(c) \/ ReadMetadata(c) \/ ReadPayload(c)
      BY <1>2, <3>1, ReadsRefine
    <3>2. CASE Detach(c)
      BY <1>2, <3>2, EvictRefines DEF Detach
    <3>3. CASE Publish(c)
      BY <1>2, <3>3, PublishRefines
    <3>4. QED
      BY <1>2, <2>1, <3>1, <3>2, <3>3, OtherStepsRefine DEF CompilerStep
  <2>2. ASSUME NEW k \in Cleaners, StatNamespace(k) \/ DetachNamespace(k)
        PROVE  [Store!Next]_(Store!vars)
    <3>1. /\ UNCHANGED <<seen, built>>
          /\ final' \in {final, Absent}
          /\ outcome' = outcome \/ \E result : outcome' = [outcome EXCEPT ![k] = result]
      BY <2>2 DEF StatNamespace, DetachNamespace, Report, disk
    <3>2. \A c \in Compilers : outcome'[c] = outcome[c]
      BY <1>2, <2>2, <3>1, CacheAssumption DEF CacheInv, CacheTypeOK, Process
    <3>3. QED
      BY <1>2, <3>1, <3>2, EvictRefines
  <2>3. CASE UNCHANGED vars
    BY <1>2, <2>3, EvictRefines DEF vars, disk
  <2>4. QED
    BY <1>2, <2>1, <2>2, <2>3 DEF Next, CleanerStep
<1>3. QED
  BY <1>1, <1>2, CacheInvariant, PTL DEF Spec, Store!Spec, ImplementsArtifactStore
-----------------------------------------------------------------------------
(* The winner remains.                                                       *)

\* Nothing but the invocations themselves has touched the cache.
Undisturbed == refused = 0 /\ \A k \in Cleaners : outcome[k] # "cleaned"

\* Whoever publishes then still has what it publishes ...
StagedKept ==
    Undisturbed => \A c \in Compilers :
        pc[c] \in Loop \cup {"payload", "metadata"} => temporary[c] # Absent

\* ... and once the cache has been of use, an entry that is gone is with
\* somebody who has yet to publish.
WinnerKept ==
    Undisturbed /\ (\E c \in Compilers : outcome[c] \in {"hit", "published", "reused"})
        => \/ Whole(final)
           \/ /\ final = Absent
              /\ \E c \in Compilers : pc[c] \in {"discard", "publish", "crashed"}

\* A clean ends with its report.
CleanedOnce == \A k \in Cleaners : outcome[k] = "cleaned" => pc[k] = "done"

WinnerInv == CleanedOnce /\ StagedKept /\ WinnerKept

(* A read that finds an entry has found a complete one.                    *)
LEMMA ReadsFind ==
    ASSUME CacheInv, NEW c \in Compilers, StatEntry(c) \/ ReadMetadata(c) \/ ReadPayload(c)
    PROVE  /\ UNCHANGED disk /\ pc[c] \in Reads
           /\ \A d \in Process \ {c} : pc'[d] = pc[d] /\ outcome'[d] = outcome[d]
           /\ pc'[c] \in Loop => pc[c] \in Loop
           /\ pc'[c] \notin {"payload", "metadata"}
           /\ outcome'[c] \in {"hit", "published", "reused"} => Whole(final)
<1> USE DEF CacheInv, CacheTypeOK, Process
<1>1. UNCHANGED disk /\ pc[c] \in Reads /\ outcome[c] = "working"
  BY DEF StatEntry, ReadMetadata, ReadPayload, ReportedOnce, Reads
<1>2. ASSUME NEW result \in {"hit", "missing", "invalid"}, Conclude(c, result),
             result = "hit" => ReadPayload(c) /\ PayloadMatches(c)
      PROVE  /\ \A d \in Process \ {c} : pc'[d] = pc[d] /\ outcome'[d] = outcome[d]
             /\ pc'[c] \in Loop => pc[c] \in Loop
             /\ pc'[c] \notin {"payload", "metadata"}
             /\ outcome'[c] \in {"hit", "published", "reused"} => Whole(final)
  <2> DEFINE to == Resume(pc[c], result)
             told == Verdict(pc[c], result)
  <2>1. pc' = [pc EXCEPT ![c] = to] /\ outcome' = [outcome EXCEPT ![c] = told]
    BY <1>2 DEF Conclude, Report, Goto
  <2>2. /\ to \in {"done", "compile", "check", "unstage", "publish", "detach", "retry"}
        /\ told \in {"working", "hit", "reused", "error"}
        /\ pc[c] = "lookup" => to \in {"done", "compile"}
        /\ told = "hit" => pc[c] = "lookup" /\ result = "hit"
        /\ told = "reused" => result = "hit" /\ pc[c] # "validate"
    BY <1>1, ResumeFacts
  <2> HIDE DEF to, told
  <2>3. told \in {"hit", "reused"} => Whole(final)
    <3> SUFFICES ASSUME told \in {"hit", "reused"} PROVE Whole(final)
      OBVIOUS
    <3>1. final \in Entry /\ final.payload = seen[c] /\ reading[c] = "payload"
      BY <1>2, <2>2 DEF PayloadMatches, EntryRead, ReadPayload
    <3>2. QED
      BY <1>1, <2>2, <3>1 DEF ReadersBound, Whole, Entry
  <2>4. pc'[c] = to /\ outcome'[c] = told
    BY <2>1
  <2>5. to \in Loop => pc[c] \in Loop
    BY <1>1, <2>2 DEF Loop, Reads
  <2>6. QED
    BY <2>1, <2>2, <2>3, <2>4, <2>5
<1>3. CASE UNCHANGED <<pc, outcome>>
  BY <1>1, <1>3 DEF Reads
<1>4. CASE ~UNCHANGED <<pc, outcome>>
  <2>1. CASE StatEntry(c)
    BY <1>1, <1>2, <1>4, <2>1 DEF StatEntry
  <2>2. CASE ReadMetadata(c)
    BY <1>1, <1>2, <1>4, <2>2 DEF ReadMetadata
  <2>3. CASE ReadPayload(c)
    BY <1>1, <1>2, <1>4, <2>3 DEF ReadPayload
  <2>4. QED
    BY <2>1, <2>2, <2>3
<1>5. QED
  BY <1>1, <1>3, <1>4

(* What is published is complete.                                          *)
LEMMA PublishedWhole ==
    ASSUME CacheInv, NEW c \in Compilers, pc[c] = "publish", temporary[c] # Absent
    PROVE  Whole(temporary[c])
BY WholeEntries DEF CacheInv, SiblingsOwned, Loop, Publishing

LEMMA WinnerNext ==
    ASSUME CacheInv, WinnerInv, [Next]_vars
    PROVE  WinnerInv'
<1> USE DEF CacheInv, CacheTypeOK, Process, WinnerInv
<1>1. CASE UNCHANGED vars
  BY <1>1 DEF vars, disk, CleanedOnce, StagedKept, WinnerKept, Undisturbed
<1>2. ASSUME NEW c \in Compilers, IoFails(c)
      PROVE  WinnerInv'
  BY <1>2, CacheAssumption DEF IoFails, Report, Goto, CleanedOnce, StagedKept, WinnerKept, Undisturbed
<1>3. ASSUME NEW k \in Cleaners, CleanerStep(k), UNCHANGED refused
      PROVE  WinnerInv'
  <2>1. CleanedOnce'
    BY <1>3, CacheAssumption
       DEF CleanerStep, StatNamespace, DetachNamespace, Report, Goto, CleanedOnce
  <2>2. CASE UNCHANGED disk /\ outcome'[k] # "cleaned"
    <3>1. /\ \A c \in Compilers : pc'[c] = pc[c] /\ outcome'[c] = outcome[c]
          /\ \A j \in Cleaners \ {k} : outcome'[j] = outcome[j]
          /\ outcome[k] = "cleaned" => outcome'[k] = "cleaned"
      BY <1>3, <2>2, CacheAssumption
         DEF CleanerStep, StatNamespace, DetachNamespace, Report, Goto, CleanedOnce
    <3>2. Undisturbed' => Undisturbed
      BY <1>3, <2>2, <3>1 DEF Undisturbed
    <3>3. QED
      BY <2>1, <2>2, <3>1, <3>2 DEF disk, StagedKept, WinnerKept
  <2>3. CASE outcome'[k] = "cleaned"
    BY <2>1, <2>3 DEF StagedKept, WinnerKept, Undisturbed
  <2>4. QED
    BY <1>3, <2>2, <2>3 DEF CleanerStep, StatNamespace, DetachNamespace, Report
<1>4. ASSUME NEW c \in Compilers, CompilerStep(c), UNCHANGED refused
      PROVE  WinnerInv'
  <2>1. \A k \in Cleaners : outcome'[k] = outcome[k] /\ pc'[k] = pc[k]
    BY <1>4, CacheAssumption
       DEF CompilerStep, StatEntry, ReadMetadata, ReadPayload, Conclude, Compile,
           EnsureNamespace, EnsureShard, Stage, WritePayload, WriteMetadata, Write, Detach,
           Discard, Publish, Retry, Unstage, Crash, Report, Goto
  <2>2. Undisturbed' = Undisturbed
    BY <1>4, <2>1 DEF Undisturbed
  <2>3. SUFFICES ASSUME Undisturbed PROVE StagedKept' /\ WinnerKept'
    BY <2>1, <2>2 DEF CleanedOnce, StagedKept, WinnerKept
  <2> USE DEF Goto, Report
  <2>4. CASE StatEntry(c) \/ ReadMetadata(c) \/ ReadPayload(c)
    <3>1. StagedKept'
      BY <2>2, <2>3, <2>4, ReadsFind DEF StagedKept, disk
    <3>2. WinnerKept'
      BY <2>2, <2>3, <2>4, ReadsFind DEF WinnerKept, disk, Reads
    <3>3. QED
      BY <3>1, <3>2
  <2>5. CASE Compile(c) \/ EnsureNamespace(c) \/ EnsureShard(c) \/ Stage(c)
    <3>1. /\ UNCHANGED final /\ pc[c] \notin {"discard", "publish", "crashed"}
          /\ \A d \in Compilers \ {c} : /\ pc'[d] = pc[d] /\ outcome'[d] = outcome[d]
                                        /\ temporary'[d] = temporary[d]
          /\ outcome'[c] \in {outcome[c], "error"}
      BY <2>5 DEF Compile, EnsureNamespace, EnsureShard, Stage, disk
    <3>2. pc'[c] \in Loop \cup {"payload", "metadata"} => temporary'[c] # Absent
      BY <2>5, PlaceAssumption DEF Compile, EnsureNamespace, EnsureShard, Stage, disk, Loop, Entry
    <3>3. StagedKept'
      BY <2>2, <2>3, <3>1, <3>2 DEF StagedKept
    <3>4. WinnerKept'
      BY <2>2, <2>3, <3>1 DEF WinnerKept
    <3>5. QED
      BY <3>3, <3>4
  <2>6. CASE WritePayload(c) \/ WriteMetadata(c)
    <3>1. /\ UNCHANGED final /\ pc[c] \notin {"discard", "publish", "crashed"}
          /\ \A d \in Compilers \ {c} : /\ pc'[d] = pc[d] /\ outcome'[d] = outcome[d]
                                        /\ temporary'[d] = temporary[d]
          /\ outcome'[c] \in {outcome[c], "error"}
      BY <2>6 DEF WritePayload, WriteMetadata, Write
    <3>2. pc'[c] \in Loop \cup {"payload", "metadata"} => temporary'[c] # Absent
      <4>1. built[c] \in Artifact /\ temporary[c] # Absent
        BY <2>3, <2>6 DEF WritePayload, WriteMetadata, SiblingsOwned, Publishing, StagedKept
      <4>2. [metadata |-> Unusable, payload |-> built[c]] # Absent
            /\ [metadata |-> built[c], payload |-> built[c]] # Absent
        BY <4>1, PlaceAssumption DEF Entry
      <4>3. QED
        BY <2>6, <4>1, <4>2 DEF WritePayload, WriteMetadata, Write
    <3>3. StagedKept'
      BY <2>2, <2>3, <3>1, <3>2 DEF StagedKept
    <3>4. WinnerKept'
      BY <2>2, <2>3, <3>1 DEF WinnerKept
    <3>5. QED
      BY <3>3, <3>4
  <2>7. CASE Detach(c)
    <3>1. StagedKept'
      BY <2>2, <2>3, <2>7 DEF Detach, StagedKept, Loop
    <3>2. WinnerKept'
      BY <2>2, <2>3, <2>7 DEF Detach, WinnerKept
    <3>3. QED
      BY <3>1, <3>2
  <2>8. CASE Discard(c)
    <3>1. StagedKept'
      BY <2>2, <2>3, <2>8 DEF Discard, StagedKept, Loop
    <3>2. WinnerKept'
      BY <2>2, <2>3, <2>8 DEF Discard, WinnerKept
    <3>3. QED
      BY <3>1, <3>2
  <2>9. CASE Publish(c)
    <3>1. pc[c] = "publish" /\ temporary[c] # Absent
      BY <2>3, <2>9 DEF Publish, StagedKept, Loop
    <3>2. CASE final = Absent
      <4>1. Whole(final)'
        BY <2>9, <3>1, <3>2, PublishedWhole DEF Publish, Whole
      <4>2. StagedKept'
        BY <2>2, <2>3, <2>9, <3>1, <3>2 DEF Publish, StagedKept, Loop
      <4>3. QED
        BY <4>1, <4>2 DEF WinnerKept
    <3>3. CASE final # Absent
      <4>1. /\ UNCHANGED <<final, temporary, outcome>>
            /\ \A d \in Compilers \ {c} : pc'[d] = pc[d]
        BY <2>9, <3>3, <3>1 DEF Publish
      <4>2. StagedKept'
        BY <2>2, <2>3, <3>1, <4>1 DEF StagedKept
      <4>3. WinnerKept'
        BY <2>2, <2>3, <3>3, <4>1 DEF WinnerKept
      <4>4. QED
        BY <4>2, <4>3
    <3>4. QED
      BY <3>2, <3>3
  <2>10. CASE Retry(c) \/ Unstage(c) \/ Crash(c)
    <3>1. /\ UNCHANGED final
          /\ \A d \in Compilers \ {c} : /\ pc'[d] = pc[d] /\ outcome'[d] = outcome[d]
                                        /\ temporary'[d] = temporary[d]
          /\ outcome'[c] \in {outcome[c], "error"}
          /\ pc[c] \in {"discard", "publish", "crashed"} => pc'[c] = "crashed"
      BY <2>10 DEF Retry, Unstage, Crash, disk
    <3>2. pc'[c] \in Loop \cup {"payload", "metadata"} => temporary'[c] # Absent
      BY <2>3, <2>10 DEF Retry, Unstage, Crash, disk, Loop, StagedKept
    <3>3. StagedKept'
      BY <2>2, <2>3, <3>1, <3>2 DEF StagedKept
    <3>4. WinnerKept'
      BY <2>2, <2>3, <3>1 DEF WinnerKept
    <3>5. QED
      BY <3>3, <3>4
  <2>11. QED
    BY <1>4, <2>4, <2>5, <2>6, <2>7, <2>8, <2>9, <2>10 DEF CompilerStep
<1>5. QED
  BY <1>1, <1>2, <1>3, <1>4 DEF Next

(* However invocations evict each other's entries, one remains for the     *)
(* next (publish), for any number of them and any attempt limit.           *)
THEOREM AWinnerRemains == Spec => []WinnerRemains
<1>1. Init => WinnerInv
  BY CacheAssumption DEF Init, WinnerInv, CleanedOnce, StagedKept, WinnerKept, Process, Loop
<1>2. CacheInv /\ WinnerInv /\ [Next]_vars => WinnerInv'
  BY WinnerNext
<1>3. WinnerInv => WinnerRemains
  BY DEF WinnerInv, WinnerKept, Undisturbed, WinnerRemains
<1>4. QED
  BY CacheInvariant, <1>1, <1>2, <1>3, PTL DEF Spec

-----------------------------------------------------------------------------
(* The rounds of the publication loop that an invocation gives up.         *)

\* The round of c is lost, whatever the others do from now on: what it has found
\* at the final path is gone, or is not what it has begun to read.
Lost(c) ==
    \/ pc[c] = "retry"
    \/ pc[c] \in {"detach", "contended"} /\ final = Absent
    \/ pc[c] = "check" /\ reading[c] # "entry" /\ final = Absent
    \/ pc[c] = "contended" /\ reading[c] = "payload" /\ final.payload # seen[c]

Rounds(c) == attempts[c] + IF Lost(c) THEN 1 ELSE 0

\* Entries that are or may yet be at the final path: no step makes them more.
Unpublished == {d \in Compilers : outcome[d] # "published"}
Chances == Cardinality(Unpublished) + IF final = Absent THEN 0 ELSE 1

\* Once an invocation has seen the final path empty, no damaged entry returns.
SettledPath ==
    \A c \in Compilers : pc[c] \in {"discard", "publish", "contended"}
                             => final = Absent \/ Whole(final)

\* A round is lost to a refusal or to an entry that has been taken away ...
LostToEntries ==
    \A c \in Unpublished :
        Rounds(c) + Chances <= Cardinality(Compilers) + 1 + refused

\* ... by a clean, or by another invocation that has yet to publish.
RoundsBound ==
    \A c \in Compilers :
        Rounds(c) + 1 <= Cardinality(Compilers) + Cardinality(Cleaners) + refused

RoundsInv == SettledPath /\ LostToEntries /\ RoundsBound

LEMMA Numbers ==
    ASSUME CacheInv
    PROVE  /\ Cardinality(Compilers) \in Nat /\ Cardinality(Cleaners) \in Nat
           /\ refused \in Nat /\ Chances \in Nat
           /\ \A c \in Compilers : attempts[c] \in Nat /\ Rounds(c) \in Nat
           /\ IsFiniteSet(Unpublished) /\ Cardinality(Unpublished) \in Nat
           /\ Cardinality(Unpublished) <= Cardinality(Compilers)
<1>1. /\ Cardinality(Compilers) \in Nat /\ Cardinality(Cleaners) \in Nat
      /\ IsFiniteSet(Unpublished) /\ Cardinality(Unpublished) \in Nat
      /\ Cardinality(Unpublished) <= Cardinality(Compilers)
  <2>1. Unpublished \in SUBSET Compilers
    BY DEF Unpublished
  <2>2. QED
    BY <2>1, FiniteInvocations, FS_CardinalityType, FS_Subset
<1>2. refused \in Nat /\ \A c \in Compilers : attempts[c] \in Nat
  BY CacheAssumption DEF CacheInv, CacheTypeOK
<1>3. QED
  BY <1>1, <1>2 DEF Chances, Rounds

(* A step that leaves the final path and the publications alone and makes  *)
(* no round more lost, unless the file system has refused something.       *)
LEMMA QuietStep ==
    ASSUME CacheInv, CacheInv', RoundsInv, SettledPath',
           UNCHANGED final, Unpublished' = Unpublished,
           refused' \in {refused, refused + 1},
           \A d \in Compilers : Rounds(d)' <= Rounds(d) + (refused' - refused)
    PROVE  RoundsInv'
<1>1. Chances' = Chances
  BY DEF Chances
<1>2. \A d \in Compilers : Rounds(d) \in Nat /\ Rounds(d)' \in Nat
  BY Numbers DEF Rounds, CacheInv, CacheTypeOK
<1>3. refused' \in Nat /\ refused \in Nat /\ Chances \in Nat
      /\ Cardinality(Compilers) \in Nat /\ Cardinality(Cleaners) \in Nat
  BY Numbers
<1>4. LostToEntries'
  BY <1>1, <1>2, <1>3 DEF RoundsInv, LostToEntries, Unpublished
<1>5. RoundsBound'
  BY <1>2, <1>3 DEF RoundsInv, RoundsBound
<1>6. QED
  BY <1>4, <1>5 DEF RoundsInv

(* No read loses a round that was not lost before.                         *)
LEMMA ReadsLoseNothing ==
    ASSUME CacheInv, SettledPath, NEW c \in Compilers,
           StatEntry(c) \/ ReadMetadata(c) \/ ReadPayload(c)
    PROVE  /\ UNCHANGED <<final, attempts>>
           /\ \A d \in Compilers \ {c} : Lost(d)' = Lost(d)
           /\ Lost(c)' => Lost(c)
           /\ SettledPath' /\ Unpublished' = Unpublished
<1> USE DEF CacheInv, CacheTypeOK, Process
<1>1. /\ UNCHANGED <<final, attempts>> /\ pc[c] \in Reads /\ outcome[c] = "working"
      /\ \A d \in Process \ {c} : pc'[d] = pc[d] /\ outcome'[d] = outcome[d]
      /\ \A d \in Compilers \ {c} : reading'[d] = reading[d] /\ seen'[d] = seen[d]
  BY DEF StatEntry, ReadMetadata, ReadPayload, ReportedOnce, Reads, disk, Conclude, Report, Goto
<1>2. \A d \in Compilers \ {c} : Lost(d)' = Lost(d)
  BY <1>1 DEF Lost
<1>3. ASSUME NEW result \in {"hit", "missing", "invalid"}, Conclude(c, result),
             result = "missing" => StatEntry(c) /\ EntryRead(c) = Absent,
             result = "invalid" => \/ StatEntry(c) /\ EntryRead(c) = NotDirectory
                                   \/ ReadMetadata(c) /\ ~(EntryRead(c) \in Entry /\ EntryRead(c).metadata \in Artifact)
                                   \/ ReadPayload(c) /\ ~PayloadMatches(c)
      PROVE  /\ Lost(c)' => Lost(c)
             /\ pc'[c] \in {"discard", "publish", "contended"} => final = Absent
             /\ outcome'[c] # "published"
  <2> DEFINE to == Resume(pc[c], result)
             told == Verdict(pc[c], result)
  <2>1. pc'[c] = to /\ outcome'[c] = told /\ reading'[c] = "entry"
    BY <1>3 DEF Conclude, Report, Goto
  <2>2. /\ told # "published"
        /\ to \in {"done", "compile", "check", "unstage", "publish", "detach", "retry"}
        /\ to = "publish" => pc[c] = "check" /\ result = "missing"
        /\ to = "detach" => pc[c] = "check" /\ result = "invalid"
        /\ to = "retry" => pc[c] = "contended" /\ result # "hit"
    BY <1>1 DEF Resume, Verdict, Reads
  <2> HIDE DEF to, told
  <2>3. to = "publish" => final = Absent
    BY <1>3, <2>2 DEF EntryRead
  <2>4. ASSUME to = "detach", final = Absent
        PROVE  Lost(c)
    BY <1>3, <2>2, <2>4, CacheAssumption DEF EntryRead, Lost, StatEntry, ReadMetadata, ReadPayload
  <2>5. ASSUME to = "retry", final # Absent
        PROVE  Lost(c)
    <3>1. Whole(final) /\ pc[c] = "contended" /\ EntryRead(c) = final
      BY <2>2, <2>5 DEF SettledPath, EntryRead
    <3>2. final \in Entry /\ final.metadata \in Artifact /\ final # NotDirectory
      BY <3>1, PlaceAssumption DEF Whole, Entry
    <3>3. ReadPayload(c) /\ ~PayloadMatches(c)
      BY <1>3, <2>2, <2>5, <3>1, <3>2
    <3>4. QED
      BY <3>1, <3>2, <3>3 DEF PayloadMatches, ReadPayload, Lost
  <2>6. Lost(c)' => Lost(c)
    <3>1. CASE to = "detach"
      BY <1>1, <2>1, <2>4, <3>1 DEF Lost
    <3>2. CASE to = "retry"
      BY <2>2, <2>5, <3>2 DEF Lost
    <3>3. CASE to \notin {"detach", "retry"}
      BY <2>1, <2>2, <3>3 DEF Lost
    <3>4. QED
      BY <3>1, <3>2, <3>3
  <2>7. QED
    BY <2>1, <2>2, <2>3, <2>6
<1>4. ASSUME UNCHANGED <<pc, outcome>>,
             \/ StatEntry(c) /\ EntryRead(c) # Absent /\ reading'[c] = "metadata"
             \/ /\ ReadMetadata(c) /\ reading'[c] = "payload"
                /\ EntryRead(c) \in Entry /\ seen'[c] = EntryRead(c).metadata
      PROVE  /\ Lost(c)' => Lost(c)
             /\ pc'[c] \in {"discard", "publish", "contended"}
                   => pc[c] \in {"discard", "publish", "contended"}
             /\ outcome'[c] # "published"
  <2>1. Lost(c)' => Lost(c)
    <3>1. pc[c] \in {"check", "contended"} => final # Absent
      BY <1>4, PlaceAssumption DEF EntryRead
    <3>2. pc[c] = "contended" /\ ReadMetadata(c) => final.payload = final.metadata
      BY <3>1 DEF SettledPath, Whole
    <3>3. pc[c] = "contended" /\ ReadMetadata(c) => final.payload = seen'[c]
      BY <1>4, <3>2 DEF EntryRead, StatEntry, ReadMetadata
    <3>4. QED
      BY <1>1, <1>4, <3>1, <3>3 DEF Lost, Reads
  <2>2. QED
    BY <1>1, <1>4, <2>1
<1>5. /\ Lost(c)' => Lost(c)
      /\ pc'[c] \in {"discard", "publish", "contended"}
            => final = Absent \/ pc[c] \in {"discard", "publish", "contended"}
      /\ outcome'[c] # "published"
  <2>1. CASE StatEntry(c)
    BY <1>3, <1>4, <2>1 DEF StatEntry
  <2>2. CASE ReadMetadata(c)
    BY <1>3, <1>4, <2>2 DEF ReadMetadata
  <2>3. CASE ReadPayload(c)
    BY <1>3, <2>3 DEF ReadPayload
  <2>4. QED
    BY <2>1, <2>2, <2>3
<1>6. SettledPath'
  BY <1>1, <1>5 DEF SettledPath
<1>7. Unpublished' = Unpublished
  BY <1>1, <1>5 DEF Unpublished
<1>8. QED
  BY <1>1, <1>2, <1>5, <1>6, <1>7

(* Every other step of an invocation that leaves the final path alone.     *)
LEMMA OtherStepsLoseNothing ==
    ASSUME CacheInv, SettledPath, NEW c \in Compilers, UNCHANGED final,
           \/ Compile(c) \/ EnsureNamespace(c) \/ EnsureShard(c) \/ Stage(c)
           \/ WritePayload(c) \/ WriteMetadata(c)
           \/ Detach(c) \/ Discard(c) \/ Publish(c) \/ Unstage(c) \/ Crash(c)
    PROVE  /\ UNCHANGED attempts
           /\ \A d \in Compilers \ {c} : Lost(d)' = Lost(d)
           /\ Lost(c)' => Lost(c)
           /\ SettledPath' /\ Unpublished' = Unpublished
<1> USE DEF CacheInv, CacheTypeOK, Process, Goto, Report
<1>1. /\ UNCHANGED attempts
      /\ \A d \in Process \ {c} : pc'[d] = pc[d] /\ outcome'[d] = outcome[d]
      /\ UNCHANGED <<reading, seen>>
  BY DEF Compile, EnsureNamespace, EnsureShard, Stage, WritePayload, WriteMetadata, Write,
         Detach, Discard, Publish, Unstage, Crash, disk
<1>2. \A d \in Compilers \ {c} : Lost(d)' = Lost(d)
  BY <1>1 DEF Lost
<1>3. CASE Compile(c) \/ EnsureNamespace(c) \/ EnsureShard(c) \/ Stage(c) \/ WritePayload(c)
             \/ WriteMetadata(c) \/ Unstage(c) \/ Crash(c)
  <2>1. pc'[c] \in {"namespace", "shard", "stage", "payload", "metadata", "validate", "unstage",
                   "done", "crashed"}
        /\ outcome'[c] \in {outcome[c], "error"}
    BY <1>3 DEF Compile, EnsureNamespace, EnsureShard, Stage, WritePayload, WriteMetadata, Write,
                Unstage, Crash
  <2>2. outcome'[c] # outcome[c] => outcome[c] = "working"
    BY <1>3 DEF Compile, Stage, WritePayload, WriteMetadata, Write, EnsureNamespace, EnsureShard,
                Unstage, Crash, ReportedOnce
  <2>3. ~Lost(c)' /\ SettledPath'
    BY <1>1, <2>1 DEF Lost, SettledPath
  <2>4. Unpublished' = Unpublished
    BY <1>1, <2>1, <2>2 DEF Unpublished
  <2>5. QED
    BY <1>1, <1>2, <2>3, <2>4
<1>4. CASE Detach(c)
  <2>1. final = Absent \/ (final # Absent /\ final' = Absent)
    BY <1>4 DEF Detach
  <2>2. final = Absent /\ pc'[c] = "retry" /\ UNCHANGED outcome /\ pc[c] = "detach"
    BY <1>4, <2>1 DEF Detach
  <2>3. QED
    BY <1>1, <1>2, <2>2 DEF Lost, SettledPath, Unpublished
<1>5. CASE Discard(c)
  <2>1. pc[c] = "discard" /\ pc'[c] = "publish" /\ UNCHANGED outcome
    BY <1>5 DEF Discard
  <2>2. QED
    BY <1>1, <1>2, <2>1 DEF Lost, SettledPath, Unpublished
<1>6. CASE Publish(c)
  <2>1. ~(temporary[c] # Absent /\ final = Absent)
    BY <1>6 DEF Publish
  <2>2. /\ pc[c] = "publish" /\ UNCHANGED outcome /\ reading[c] = "entry"
        /\ \/ pc'[c] = "failed"
           \/ pc'[c] = "contended" /\ final # Absent
    BY <1>6, <2>1 DEF Publish, ReadersBound, Reads
  <2>3. QED
    BY <1>1, <1>2, <2>2 DEF Lost, SettledPath, Unpublished
<1>7. QED
  BY <1>3, <1>4, <1>5, <1>6

(* A retry turns a lost round into one that has been given up.             *)
LEMMA RetryCounts ==
    ASSUME CacheInv, SettledPath, NEW c \in Compilers, Retry(c)
    PROVE  /\ UNCHANGED final
           /\ \A d \in Compilers : Rounds(d)' <= Rounds(d)
           /\ SettledPath' /\ Unpublished' = Unpublished
<1> USE DEF CacheInv, CacheTypeOK, Process, Goto, Report
<1>1. /\ UNCHANGED <<final, reading, seen>> /\ pc[c] = "retry" /\ pc'[c] \in {"check", "unstage"}
      /\ attempts' = [attempts EXCEPT ![c] = @ + 1]
      /\ \A d \in Process \ {c} : pc'[d] = pc[d] /\ outcome'[d] = outcome[d]
      /\ outcome[c] = "working" /\ outcome'[c] \in {"working", "error"}
  BY DEF Retry, disk, ReportedOnce
<1>2. \A d \in Compilers \ {c} : Rounds(d)' = Rounds(d)
  BY <1>1 DEF Rounds, Lost
<1>3. Lost(c) /\ ~Lost(c)' /\ attempts'[c] = attempts[c] + 1
  <2>1. reading[c] = "entry"
    BY <1>1 DEF ReadersBound, Reads
  <2>2. QED
    BY <1>1, <2>1 DEF Lost
<1>4. Rounds(c)' = Rounds(c) /\ \A d \in Compilers : Rounds(d) \in Nat
  BY <1>3, Numbers DEF Rounds
<1>5. SettledPath' /\ Unpublished' = Unpublished
  BY <1>1 DEF SettledPath, Unpublished
<1>6. \A d \in Compilers : Rounds(d)' <= Rounds(d)
  BY <1>2, <1>4
<1>7. QED
  BY <1>1, <1>5, <1>6

(* What the file system refuses costs one round at most.                   *)
LEMMA RefusalCounts ==
    ASSUME CacheInv, SettledPath, NEW c \in Compilers, IoFails(c)
    PROVE  /\ UNCHANGED final /\ refused' = refused + 1
           /\ \A d \in Compilers : Rounds(d)' <= Rounds(d) + 1
           /\ SettledPath' /\ Unpublished' = Unpublished
<1> USE DEF CacheInv, CacheTypeOK, Process, Goto, Report
<1>1. /\ UNCHANGED <<final, reading, seen, attempts>> /\ refused' = refused + 1
      /\ \A d \in Process \ {c} : pc'[d] = pc[d] /\ outcome'[d] = outcome[d]
      /\ outcome[c] = "working" /\ outcome'[c] \in {"working", "error"}
      /\ pc[c] = "publish" \/ pc'[c] \in {"unstage", "failed"}
      /\ pc'[c] \in {"unstage", "failed", "contended"}
  BY DEF IoFails, disk, ReportedOnce
<1>2. \A d \in Compilers : Rounds(d)' <= attempts[d] + 1 /\ Rounds(d) >= attempts[d]
                           /\ Rounds(d) \in Nat
  BY <1>1, Numbers DEF Rounds
<1>3. SettledPath' /\ Unpublished' = Unpublished
  BY <1>1 DEF SettledPath, Unpublished
<1>4. \A d \in Compilers : Rounds(d)' <= Rounds(d) + 1
  BY <1>1, <1>2, Numbers DEF Rounds
<1>5. QED
  BY <1>1, <1>3, <1>4

(* A publication spends the chance that its invocation was.                *)
LEMMA PublicationKeepsRounds ==
    ASSUME CacheInv, CacheInv', RoundsInv, NEW c \in Compilers, Publish(c), final' # final,
           UNCHANGED refused
    PROVE  RoundsInv'
<1> USE DEF CacheInv, CacheTypeOK, Process, Goto, Report
<1>1. /\ UNCHANGED <<reading, seen, attempts>> /\ pc[c] = "publish" /\ pc'[c] = "done"
      /\ final = Absent /\ final' # Absent /\ final' = temporary[c]
      /\ \A d \in Process \ {c} : pc'[d] = pc[d] /\ outcome'[d] = outcome[d]
      /\ outcome[c] = "working" /\ outcome'[c] = "published"
  BY DEF Publish, ReportedOnce
<1>2. \A d \in Compilers : Lost(d)' => Lost(d)
  BY <1>1, PlaceAssumption DEF Lost
<1>3. \A d \in Compilers : Rounds(d)' <= Rounds(d)
  BY <1>1, <1>2, Numbers DEF Rounds
<1>4. Unpublished' = Unpublished \ {c} /\ c \in Unpublished
  BY <1>1 DEF Unpublished
<1>5. Chances' = Chances
  <2>1. Cardinality(Unpublished') = Cardinality(Unpublished) - 1
    BY <1>4, Numbers, FS_RemoveElement
  <2>2. QED
    BY <1>1, <2>1, Numbers DEF Chances
<1>6. SettledPath'
  BY <1>1, PublishedWhole DEF SettledPath, Whole
<1>7. \A d \in Compilers : Rounds(d)' \in Nat /\ Rounds(d) \in Nat
  BY <1>1, Numbers DEF Rounds
<1>8. LostToEntries'
  <2> SUFFICES ASSUME NEW d \in Unpublished'
               PROVE  Rounds(d)' + Chances' <= Cardinality(Compilers) + 1 + refused'
    BY DEF LostToEntries
  <2>1. d \in Unpublished /\ d \in Compilers
    BY <1>4 DEF Unpublished
  <2>2. Rounds(d) + Chances <= Cardinality(Compilers) + 1 + refused
    BY <2>1 DEF RoundsInv, LostToEntries
  <2>3. QED
    BY <1>3, <1>5, <1>7, <2>1, <2>2, Numbers
<1>9. RoundsBound'
  BY <1>3, <1>7, Numbers DEF RoundsInv, RoundsBound
<1>10. QED
  BY <1>6, <1>8, <1>9 DEF RoundsInv

(* Taking an entry away loses the round of others, but it spends a chance, *)
(* and whoever does so cleans or has yet to publish.                       *)
LEMMA RemovalKeepsRounds ==
    ASSUME CacheInv, CacheInv', RoundsInv, final # Absent, final' = Absent,
           UNCHANGED <<attempts, refused, reading, seen>>,
           \A d \in Compilers : outcome'[d] = outcome[d],
           \/ /\ Cleaners # {} /\ \A d \in Compilers : pc'[d] = pc[d]
           \/ \E c \in Compilers : /\ pc[c] = "detach" /\ pc'[c] = "discard"
                                  /\ \A d \in Compilers \ {c} : pc'[d] = pc[d]
    PROVE  RoundsInv'
<1>1. Chances' = Chances - 1 /\ Unpublished' = Unpublished
  <2>1. Unpublished' = Unpublished
    BY DEF Unpublished
  <2>2. QED
    BY <2>1, Numbers DEF Chances
<1>2. SettledPath'
  BY DEF SettledPath
<1>3. \A d \in Compilers : Rounds(d)' \in Nat /\ Rounds(d) \in Nat /\ Rounds(d)' <= Rounds(d) + 1
  BY Numbers DEF Rounds
<1>4. LostToEntries'
  <2> SUFFICES ASSUME NEW d \in Unpublished'
               PROVE  Rounds(d)' + Chances' <= Cardinality(Compilers) + 1 + refused'
    BY DEF LostToEntries
  <2>1. d \in Unpublished /\ d \in Compilers
    BY <1>1 DEF Unpublished
  <2>2. Rounds(d) + Chances <= Cardinality(Compilers) + 1 + refused
    BY <2>1 DEF RoundsInv, LostToEntries
  <2>3. QED
    BY <1>1, <1>3, <2>1, <2>2, Numbers
<1>5. ASSUME NEW d \in Compilers
      PROVE  Rounds(d)' + 1 <= Cardinality(Compilers) + Cardinality(Cleaners) + refused
  <2>1. CASE Rounds(d)' <= Rounds(d)
    BY <1>3, <2>1, Numbers DEF RoundsInv, RoundsBound
  <2>2. CASE Lost(d)'
    <3>1. pc'[d] \in {"retry", "detach", "contended", "check"}
      BY <2>2 DEF Lost
    <3>2. outcome[d] = "working" /\ d \in Unpublished
      <4>1. pc[d] = pc'[d] \/ pc[d] = "detach"
        OBVIOUS
      <4>2. pc[d] \notin {"done", "unstage", "crashed"}
        BY <3>1, <4>1
      <4>3. QED
        BY <4>2 DEF CacheInv, ReportedOnce, Unpublished
    <3>3. Rounds(d)' + Chances' <= Cardinality(Compilers) + 1 + refused
      BY <1>1, <1>4, <3>2 DEF LostToEntries
    <3>4. Chances' = Cardinality(Unpublished)
      BY <1>1, Numbers DEF Chances
    <3>5. CASE Cleaners # {}
      <4>1. Cardinality(Unpublished) >= 1 /\ Cardinality(Cleaners) >= 1
        BY <3>2, <3>5, Numbers, FS_EmptySet, FiniteInvocations
      <4>2. QED
        BY <1>3, <3>3, <3>4, <4>1, Numbers
    <3>6. CASE \E c \in Compilers : pc[c] = "detach" /\ pc'[c] = "discard"
      <4>1. PICK c \in Compilers : pc[c] = "detach" /\ pc'[c] = "discard"
        BY <3>6
      <4>2. c # d /\ c \in Unpublished
        BY <3>1, <4>1 DEF CacheInv, ReportedOnce, Unpublished
      <4>3. Cardinality(Unpublished) >= 2
        <5>1. Cardinality(Unpublished \ {c}) = Cardinality(Unpublished) - 1
              /\ IsFiniteSet(Unpublished \ {c})
          BY <4>2, Numbers, FS_RemoveElement
        <5>2. Cardinality(Unpublished \ {c}) \in Nat \ {0}
          BY <3>2, <4>2, <5>1, FS_EmptySet, FS_CardinalityType
        <5>3. QED
          BY <5>1, <5>2, Numbers
      <4>4. /\ Cardinality(Cleaners) \in Nat /\ Cardinality(Compilers) \in Nat
            /\ refused \in Nat /\ Rounds(d)' \in Nat /\ Cardinality(Unpublished) \in Nat
        BY <1>3, Numbers
      <4>5. QED
        BY <3>3, <3>4, <4>3, <4>4
    <3>7. QED
      BY <3>5, <3>6
  <2>3. CASE ~Lost(d)'
    BY <2>1, <2>3, Numbers DEF Rounds
  <2>4. QED
    BY <2>2, <2>3
<1>6. QED
  BY <1>2, <1>4, <1>5 DEF RoundsInv, RoundsBound

LEMMA RoundsNext ==
    ASSUME CacheInv, RoundsInv, [Next]_vars
    PROVE  RoundsInv'
<1>1. CacheInv' /\ SettledPath
  BY StepKeepsInv DEF RoundsInv
<1>2. CASE UNCHANGED vars
  BY <1>2 DEF vars, disk, RoundsInv, SettledPath, LostToEntries, RoundsBound, Unpublished,
              Chances, Rounds, Lost
<1>3. ASSUME NEW c \in Compilers, IoFails(c)
      PROVE  RoundsInv'
  <2>1. refused' - refused = 1
    BY <1>3, Numbers, RefusalCounts, <1>1
  <2>2. QED
    BY <1>1, <1>3, <2>1, RefusalCounts, QuietStep
<1>4. ASSUME NEW c \in Compilers, CompilerStep(c), UNCHANGED refused
      PROVE  RoundsInv'
  <2>1. refused' - refused = 0 /\ \A d \in Compilers : Rounds(d) \in Nat /\ Rounds(d) + 0 = Rounds(d)
    BY <1>4, Numbers
  <2>2. ASSUME UNCHANGED attempts, \A d \in Compilers : Lost(d)' => Lost(d)
        PROVE  \A d \in Compilers : Rounds(d)' <= Rounds(d)
    BY <2>2, Numbers DEF Rounds
  <2>3. CASE StatEntry(c) \/ ReadMetadata(c) \/ ReadPayload(c)
    <3>1. UNCHANGED <<final, attempts>> /\ SettledPath' /\ Unpublished' = Unpublished
          /\ \A d \in Compilers : Lost(d)' => Lost(d)
      BY <1>1, <2>3, ReadsLoseNothing
    <3>2. QED
      BY <1>1, <1>4, <2>1, <2>2, <3>1, QuietStep
  <2>4. CASE Retry(c)
    BY <1>1, <1>4, <2>1, <2>4, RetryCounts, QuietStep
  <2>5. CASE Publish(c) /\ final' # final
    BY <1>1, <1>4, <2>5, PublicationKeepsRounds
  <2>6. CASE Detach(c) /\ final' # final
    <3>1. /\ final # Absent /\ final' = Absent /\ UNCHANGED <<attempts, refused, reading, seen, outcome>>
          /\ pc[c] = "detach" /\ pc' = [pc EXCEPT ![c] = "discard"]
      BY <1>4, <2>6 DEF Detach, Goto
    <3>2. pc'[c] = "discard" /\ \A d \in Compilers \ {c} : pc'[d] = pc[d]
      BY <3>1 DEF CacheInv, CacheTypeOK, Process
    <3>3. QED
      BY <1>1, <3>1, <3>2, RemovalKeepsRounds
  <2>7. CASE /\ UNCHANGED final
             /\ \/ Compile(c) \/ EnsureNamespace(c) \/ EnsureShard(c) \/ Stage(c)
                \/ WritePayload(c) \/ WriteMetadata(c)
                \/ Detach(c) \/ Discard(c) \/ Publish(c) \/ Unstage(c) \/ Crash(c)
    <3>1. UNCHANGED attempts /\ SettledPath' /\ Unpublished' = Unpublished
          /\ \A d \in Compilers : Lost(d)' => Lost(d)
      BY <1>1, <2>7, OtherStepsLoseNothing
    <3>2. QED
      BY <1>1, <1>4, <2>1, <2>2, <2>7, <3>1, QuietStep
  <2>8. final' # final => Publish(c) \/ Detach(c)
    BY <1>4 DEF CompilerStep, StatEntry, ReadMetadata, ReadPayload, Compile, EnsureNamespace,
       EnsureShard, Stage, WritePayload, WriteMetadata, Write, Discard, Retry, Unstage, Crash, disk
  <2>9. QED
    BY <1>4, <2>3, <2>4, <2>5, <2>6, <2>7, <2>8 DEF CompilerStep
<1>5. ASSUME NEW k \in Cleaners, CleanerStep(k), UNCHANGED refused
      PROVE  RoundsInv'
  <2>1. /\ UNCHANGED <<attempts, refused, reading, seen>>
        /\ \A d \in Compilers : pc'[d] = pc[d] /\ outcome'[d] = outcome[d]
        /\ final' = final \/ final' = Absent
    BY <1>5, CacheAssumption DEF CleanerStep, StatNamespace, DetachNamespace, Report, Goto, disk,
       CacheInv, CacheTypeOK, Process
  <2>2. CASE UNCHANGED final
    <3>1. SettledPath' /\ Unpublished' = Unpublished /\ \A d \in Compilers : Rounds(d)' = Rounds(d)
      BY <1>1, <2>1, <2>2 DEF SettledPath, Unpublished, Rounds, Lost
    <3>2. \A d \in Compilers : Rounds(d)' <= Rounds(d) + (refused' - refused)
      BY <2>1, <3>1, Numbers
    <3>3. QED
      BY <1>1, <2>1, <2>2, <3>1, <3>2, QuietStep
  <2>3. CASE final # Absent /\ final' = Absent
    BY <1>1, <2>1, <2>3, RemovalKeepsRounds
  <2>4. QED
    BY <2>1, <2>2, <2>3
<1>6. QED
  BY <1>2, <1>3, <1>4, <1>5 DEF Next

(* The publication loop is lock-free (CacheStore::publish): for any number *)
(* of invocations and cleans, each round that is given up is charged to an *)
(* entry that another one has taken away or to a refused operation, and    *)
(* there are only so many entries to take away.                            *)
THEOREM RoundsAreLostToOthers == Spec => []RoundsLostToOthers
<1>1. Init => RoundsInv
  <2> SUFFICES ASSUME Init PROVE RoundsInv
    OBVIOUS
  <2>1. CacheInv
    BY CacheAssumption, PlaceAssumption
       DEF Init, CacheInv, CacheTypeOK, SiblingsOwned, ReadersBound, ReportedOnce, Process, Place,
           Loop, Staging, Publishing, Reads
  <2>2. \A c \in Compilers : Rounds(c) = 0 /\ pc[c] = "lookup"
    BY DEF Init, Rounds, Lost, Process
  <2>3. Chances <= Cardinality(Compilers) + 1 /\ refused = 0
    BY <2>1, Numbers DEF Chances, Init
  <2>4. \A c \in Compilers : 1 <= Cardinality(Compilers)
    BY <2>1, Numbers, FS_EmptySet, FiniteInvocations
  <2>5. QED
    BY <2>1, <2>2, <2>3, <2>4, Numbers
       DEF RoundsInv, SettledPath, LostToEntries, RoundsBound, Unpublished
<1>2. CacheInv /\ RoundsInv /\ [Next]_vars => RoundsInv'
  BY RoundsNext
<1>3. CacheInv /\ RoundsInv => RoundsLostToOthers
  BY Numbers DEF RoundsInv, RoundsBound, Rounds, RoundsLostToOthers
<1>4. QED
  BY CacheInvariant, <1>1, <1>2, <1>3, PTL DEF Spec
=============================================================================
