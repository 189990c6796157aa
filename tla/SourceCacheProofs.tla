-------------------------- MODULE SourceCacheProofs --------------------------
(***************************************************************************)
(* The registry source cache for every number of builds, providers and     *)
(* kills, every attempt limit and every state in which the cache is found. *)
(***************************************************************************)
EXTENDS SourceCacheProperties, TLAPS

USE DEF choices

(* A verified source is an entry, and no other place is one.               *)
LEMMA VerifiedFacts ==
    /\ \A p \in Provider : Verified(SourceOf(p)) /\ SourceOf(p) \in Place
                               /\ SourceOf(p) # Absent /\ SourceOf(p) \in Entry
    /\ \A entry : Verified(entry) => /\ entry \in Entry /\ entry \in Place
                                     /\ entry.owner \in Provider /\ entry.tree = "whole"
    /\ \A entry \in Entry : entry.owner \in Provider /\ entry.tree = "whole" => Verified(entry)
    /\ ~Verified(Absent) /\ ~Verified(NotDirectory)
    /\ Absent \notin Entry /\ NotDirectory \notin Entry
    /\ Absent \in Place
BY SourceAssumption DEF Verified, SourceOf, Entry, Place

(* Where a lookup leads, whatever it finds.                                *)
LEMMA ResumeFacts ==
    ASSUME NEW at \in Lookups, NEW result \in {"hit", "missing", "corrupt"}
    PROVE  /\ Resume(at, result) \in {"discover", "fetch", "archive", "stage", "unstage",
                                      "publish", "detach"}
           /\ Resume(at, result) \in {"discover", "archive"} => result = "hit"
           /\ at # "check" => Resume(at, result) \notin {"publish", "detach"}
           /\ at = "check" => Resume(at, result) \in {"unstage", "publish", "detach"}
           /\ Resume(at, result) = "publish" => result = "missing"
           /\ Resume(at, result) = "detach" => result = "corrupt"
BY DEF Resume, Lookups

(* What a conclusion reports.                                              *)
LEMMA ConcludeFacts ==
    ASSUME NEW b \in Builds, NEW result \in {"hit", "missing", "corrupt"}, Conclude(b, result)
    PROVE  /\ pc' = [pc EXCEPT ![b] = Resume(pc[b], result)]
           /\ reading' = [reading EXCEPT ![b] = "entry"]
           /\ result = "hit" => outcome' = [outcome EXCEPT ![b] = "verified"]
           /\ result # "hit" => \/ outcome' = outcome
                                \/ /\ pc[b] = "confirm"
                                   /\ outcome' = [outcome EXCEPT ![b] = "error"]
BY DEF Conclude, Goto

(* A lookup changes nothing on the disk.                                   *)
LEMMA LookupsKeepInv ==
    ASSUME SourceInv, NEW b \in Builds, StatSource(b) \/ ReadMetadata(b) \/ ReadTree(b)
    PROVE  SourceInv'
<1> USE DEF SourceInv
<1>1. UNCHANGED disk /\ UNCHANGED <<choices, attempts, modules>> /\ pc[b] \in Lookups
  BY DEF StatSource, ReadMetadata, ReadTree
<1>2. ASSUME NEW result \in {"hit", "missing", "corrupt"}, Conclude(b, result),
             result = "hit" => Verified(source)
      PROVE  SourceInv'
  <2> DEFINE to == Resume(pc[b], result)
  <2>1. /\ pc' = [pc EXCEPT ![b] = to]
        /\ reading' = [reading EXCEPT ![b] = "entry"]
        /\ result = "hit" => outcome' = [outcome EXCEPT ![b] = "verified"]
        /\ result # "hit" => \/ outcome' = outcome
                             \/ /\ pc[b] = "confirm"
                                /\ outcome' = [outcome EXCEPT ![b] = "error"]
    BY <1>2, ConcludeFacts
  <2>2. /\ to \in {"discover", "fetch", "archive", "stage", "unstage", "publish", "detach"}
        /\ to \in {"discover", "archive"} => result = "hit"
        /\ pc[b] # "check" => to \notin {"publish", "detach"}
        /\ pc[b] = "check" => to \in {"unstage", "publish", "detach"}
    BY <1>1, ResumeFacts
  <2> HIDE DEF to
  <2>3. Typed'
    BY <1>1, <2>1, <2>2 DEF Typed, disk
  <2>4. SiblingsOwned'
    BY <1>1, <2>1, <2>2 DEF SiblingsOwned, Typed, disk, Archiving, Publishing, Lookups
  <2>5. ReadersBound'
    BY <1>1, <2>1, <2>2 DEF ReadersBound, Typed, disk, Lookups
  <2>6. TrustedOnceVerified'
    BY <1>1, <1>2, <2>1, <2>2 DEF TrustedOnceVerified, SiblingsOwned, Typed, disk, Lookups,
       Archiving, Publishing
  <2>7. LimitKept'
    BY <1>1, <1>2, <2>1 DEF LimitKept, Typed, Lookups
  <2>8. QED
    BY <2>3, <2>4, <2>5, <2>6, <2>7
<1>3. CASE StatSource(b)
  <2>1. CASE Conclude(b, "missing") \/ Conclude(b, "corrupt")
    BY <1>2, <2>1
  <2>2. CASE reading' = [reading EXCEPT ![b] = "metadata"] /\ UNCHANGED <<pc, outcome>>
    BY <1>1, <2>2 DEF Typed, SiblingsOwned, ReadersBound, TrustedOnceVerified, LimitKept,
       disk, Archiving, Publishing
  <2>3. QED
    BY <1>3, <2>1, <2>2 DEF StatSource
<1>4. CASE ReadMetadata(b)
  <2>1. CASE Conclude(b, "corrupt")
    BY <1>2, <2>1
  <2>2. CASE /\ source \in Entry /\ source.owner = provider[b]
             /\ reading' = [reading EXCEPT ![b] = "tree"] /\ UNCHANGED <<pc, outcome>>
    BY <1>1, <2>2 DEF Typed, SiblingsOwned, ReadersBound, TrustedOnceVerified, LimitKept,
       disk, Archiving, Publishing
  <2>3. QED
    BY <1>4, <2>1, <2>2 DEF ReadMetadata
<1>5. CASE ReadTree(b)
  <2>1. CASE source \in Entry /\ source.tree = "whole"
    <3>1. source.owner \in Provider
      BY <1>1, <1>5, <2>1, VerifiedFacts DEF ReadersBound, ReadTree, Typed
    <3>2. QED
      BY <1>2, <1>5, <2>1, <3>1, VerifiedFacts DEF ReadTree
  <2>2. CASE ~(source \in Entry /\ source.tree = "whole")
    BY <1>2, <1>5, <2>2 DEF ReadTree
  <2>3. QED
    BY <2>1, <2>2
<1>6. QED
  BY <1>3, <1>4, <1>5

(* Fetching and staging: nothing shared is written.                        *)
LEMMA StagingKeepsInv ==
    ASSUME SourceInv, NEW b \in Builds,
           Fetch(b) \/ Stage(b) \/ WriteMetadata(b) \/ Unstage(b)
    PROVE  SourceInv'
<1> USE VerifiedFacts
    DEF SourceInv, Typed, SiblingsOwned, ReadersBound, TrustedOnceVerified, LimitKept,
        Lookups, Archiving, Publishing, Goto, Report, Fail, Refuse, decisions
<1>1. CASE Fetch(b)
  <2>1. CASE pc' = [pc EXCEPT ![b] = "recheck"] /\ UNCHANGED outcome
    BY <1>1, <2>1 DEF Fetch, disk
  <2>2. CASE Fail(b)
    BY <1>1, <2>2 DEF Fetch, disk
  <2>3. CASE Refuse(b)
    BY <1>1, <2>3 DEF Fetch, disk
  <2>4. QED
    BY <1>1, <2>1, <2>2, <2>3 DEF Fetch
<1>2. CASE Stage(b)
  BY <1>2 DEF Stage, Place, Entry
<1>3. CASE WriteMetadata(b)
  BY <1>3 DEF WriteMetadata
<1>4. CASE Unstage(b)
  BY <1>4 DEF Unstage
<1>5. QED
  BY <1>1, <1>2, <1>3, <1>4

(* A round of the loop is given up.                                        *)
LEMMA RetryKeepsInv ==
    ASSUME SourceInv, NEW b \in Builds, Retry(b)
    PROVE  SourceInv'
<1> DEFINE next == attempts[b] + 1
<1>1. /\ attempts' = [attempts EXCEPT ![b] = next]
      /\ pc[b] = "retry" /\ UNCHANGED <<disk, reading, choices, modules>>
      /\ \/ /\ next < MaxAttempts
            /\ pc' = [pc EXCEPT ![b] = "check"] /\ UNCHANGED outcome
         \/ /\ pc' = [pc EXCEPT ![b] = "unstage"]
            /\ outcome' = [outcome EXCEPT ![b] = "error"]
  BY DEF Retry, Goto, Fail, Report
<1>2. attempts \in [Builds -> 0..MaxAttempts] /\ attempts[b] # MaxAttempts
  BY <1>1 DEF SourceInv, Typed, LimitKept
<1>3. next \in 0..MaxAttempts /\ (next < MaxAttempts => next # MaxAttempts)
  BY <1>2, SourceAssumption
<1> HIDE DEF next
<1>4. Typed' /\ LimitKept'
  BY <1>1, <1>2, <1>3 DEF SourceInv, Typed, LimitKept, disk, Lookups
<1>5. SiblingsOwned' /\ ReadersBound' /\ TrustedOnceVerified'
  BY <1>1 DEF SourceInv, Typed, SiblingsOwned, ReadersBound, TrustedOnceVerified,
     Archiving, Publishing, disk, Lookups
<1>6. QED
  BY <1>4, <1>5 DEF SourceInv

(* Publishing the archive.                                                 *)
LEMMA ArchivingKeepsInv ==
    ASSUME SourceInv, NEW b \in Builds,
           \/ CheckArchive(b) \/ ArchiveExists(b) \/ DetachArchive(b)
           \/ CopyArchive(b) \/ RenameArchive(b)
    PROVE  SourceInv'
<1> USE VerifiedFacts
    DEF SourceInv, Typed, SiblingsOwned, ReadersBound, TrustedOnceVerified, LimitKept,
        Lookups, Archiving, Publishing, Goto, decisions, ArchiveState
<1>1. CASE CheckArchive(b)
  BY <1>1 DEF CheckArchive, AfterArchive, disk
<1>2. CASE ArchiveExists(b)
  BY <1>2 DEF ArchiveExists, disk
<1>3. CASE DetachArchive(b)
  <2>1. Typed' /\ LimitKept'
    BY <1>3 DEF DetachArchive
  <2>2. SiblingsOwned'
    BY <1>3 DEF DetachArchive
  <2>3. ReadersBound' /\ TrustedOnceVerified'
    BY <1>3 DEF DetachArchive
  <2>4. QED
    BY <2>1, <2>2, <2>3
<1>4. CASE CopyArchive(b)
  BY <1>4 DEF CopyArchive
<1>5. CASE RenameArchive(b)
  BY <1>5 DEF RenameArchive, AfterArchive
<1>6. QED
  BY <1>1, <1>2, <1>3, <1>4, <1>5

(* Detaching and publishing a source.                                      *)
LEMMA PublicationKeepsInv ==
    ASSUME SourceInv, NEW b \in Builds, Detach(b) \/ Discard(b) \/ Publish(b)
    PROVE  SourceInv'
<1> USE VerifiedFacts
    DEF SourceInv, Typed, SiblingsOwned, ReadersBound, TrustedOnceVerified, LimitKept,
        Lookups, Archiving, Publishing, Goto, Report, Fail, Refuse, decisions
<1>1. CASE Detach(b)
  <2>1. CASE source = Absent
    BY <1>1, <2>1 DEF Detach
  <2>2. CASE source # Absent
    <3>1. /\ source' = Absent /\ aside' = [aside EXCEPT ![b] = "source"]
          /\ pc[b] = "detach" /\ pc' = [pc EXCEPT ![b] = "discard"]
          /\ UNCHANGED <<archive, staging, copying, decisions, outcome>>
      BY <1>1, <2>2 DEF Detach
    <3>2. Typed' /\ LimitKept'
      BY <3>1
    <3>3. SiblingsOwned'
      BY <3>1
    <3>4. ReadersBound' /\ TrustedOnceVerified'
      BY <3>1
    <3>5. QED
      BY <3>2, <3>3, <3>4
  <2>3. QED
    BY <2>1, <2>2
<1>2. CASE Discard(b)
  BY <1>2 DEF Discard
<1>3. CASE Publish(b) /\ source = Absent
  <2>1. /\ source' = SourceOf(provider[b]) /\ provider[b] \in Provider
        /\ staging' = [staging EXCEPT ![b] = Absent]
        /\ pc' = [pc EXCEPT ![b] = "confirm"]
        /\ UNCHANGED <<archive, copying, aside, decisions, outcome>>
    BY <1>3 DEF Publish
  <2>2. Verified(source') /\ source' \in Place
    BY <2>1
  <2>3. reading[b] = "entry"
    BY <1>3 DEF Publish
  <2>4. Typed' /\ LimitKept'
    BY <1>3, <2>1, <2>2 DEF Publish
  <2>5. SiblingsOwned'
    BY <1>3, <2>1 DEF Publish
  <2>6. ReadersBound'
    BY <2>1, <2>2, <2>3
  <2>7. TrustedOnceVerified'
    BY <1>3, <2>1, <2>2 DEF Publish
  <2>8. QED
    BY <2>4, <2>5, <2>6, <2>7
<1>4. CASE Publish(b) /\ source # Absent
  <2>1. Typed' /\ LimitKept'
    BY <1>4 DEF Publish
  <2>2. SiblingsOwned'
    BY <1>4 DEF Publish
  <2>3. ReadersBound'
    BY <1>4 DEF Publish
  <2>4. TrustedOnceVerified'
    BY <1>4 DEF Publish
  <2>5. QED
    BY <2>1, <2>2, <2>3, <2>4
<1>5. QED
  BY <1>1, <1>2, <1>3, <1>4

(* Reading the package, and what the environment does.                     *)
LEMMA EndingsKeepInv ==
    ASSUME SourceInv, NEW b \in Builds,
           Discover(b) \/ ReadPackages(b) \/ IoFails(b) \/ Crash(b)
    PROVE  SourceInv'
<1> USE VerifiedFacts
    DEF SourceInv, Typed, SiblingsOwned, ReadersBound, TrustedOnceVerified, LimitKept,
        Lookups, Archiving, Publishing, Goto, Report, Fail, Refuse, decisions, disk
<1>1. CASE Discover(b)
  BY <1>1 DEF Discover
<1>2. CASE ReadPackages(b)
  BY <1>2 DEF ReadPackages
<1>3. CASE IoFails(b)
  BY <1>3 DEF IoFails
<1>4. CASE Crash(b)
  BY <1>4 DEF Crash
<1>5. QED
  BY <1>1, <1>2, <1>3, <1>4

(* Every step keeps the invariant.                                         *)
LEMMA StepKeepsInv == SourceInv /\ [Next]_vars => SourceInv'
<1> SUFFICES ASSUME SourceInv, [Next]_vars PROVE SourceInv'
  OBVIOUS
<1>1. CASE UNCHANGED vars
  BY <1>1 DEF vars, disk, SourceInv, Typed, SiblingsOwned, ReadersBound,
     TrustedOnceVerified, LimitKept, Archiving, Publishing
<1>2. ASSUME NEW b \in Builds, Step(b)
      PROVE  SourceInv'
  BY <1>2, LookupsKeepInv, StagingKeepsInv, RetryKeepsInv, ArchivingKeepsInv, PublicationKeepsInv,
     EndingsKeepInv DEF Step
<1>3. QED
  BY <1>1, <1>2 DEF Next

(* The inductive invariant holds of every behaviour.                       *)
THEOREM SourceInvariant == Spec => []SourceInv
<1>1. Init => SourceInv
  <2>1. InOrder \in BOOLEAN
    BY DEF InOrder
  <2>2. QED
    BY <2>1, SourceAssumption, VerifiedFacts
       DEF Init, SourceInv, Typed, SiblingsOwned, ReadersBound, TrustedOnceVerified,
           LimitKept, Archiving, Publishing, Lookups
<1>2. QED
  BY <1>1, StepKeepsInv, PTL DEF Spec

(* The state of the source cache is always well typed, and the publication *)
(* loop keeps its attempt limit.                                           *)
THEOREM SourcesTyped == Spec => []SourceTypeOK
<1>1. SourceInv => SourceTypeOK
  BY DEF SourceInv, SourceTypeOK
<1>2. QED
  BY <1>1, SourceInvariant, PTL

(* A build that ends, on whatever path, has removed all of its siblings.   *)
THEOREM NothingIsLeft == Spec => []NothingLeft
<1>1. SourceInv => NothingLeft
  BY DEF SourceInv, SiblingsOwned, NothingLeft, Archiving, Publishing
<1>2. QED
  BY <1>1, SourceInvariant, PTL

(* What appears at the content address is a verified source, whoever is    *)
(* killed meanwhile.                                                       *)
THEOREM OnlyVerifiedAppears == Spec => OnlyVerifiedSourcesAppear
<1>1. ASSUME SourceInv, [Next]_vars
      PROVE  source' # source => source' = Absent \/ Verified(source')
  <2>1. ASSUME NEW b \in Builds, Publish(b)
        PROVE  source' = source \/ Verified(source')
    BY <1>1, <2>1, VerifiedFacts
       DEF Publish, SourceInv, Typed, SiblingsOwned, Publishing
  <2>2. ASSUME NEW b \in Builds, Detach(b)
        PROVE  source' = source \/ source' = Absent
    BY <2>2 DEF Detach
  <2>3. ASSUME NEW b \in Builds, Step(b), ~Publish(b), ~Detach(b)
        PROVE  source' = source
    BY <2>3 DEF Step, StatSource, ReadMetadata, ReadTree, Fetch, Stage, WriteMetadata,
       CheckArchive, ArchiveExists, DetachArchive, CopyArchive, RenameArchive, Discard, Retry,
       Unstage, Discover, ReadPackages, IoFails, Crash, disk
  <2>4. QED
    BY <1>1, <2>1, <2>2, <2>3 DEF Next, vars, disk
<1>2. SourceInv /\ [Next]_vars => [source' # source => source' = Absent \/ Verified(source')]_vars
  BY <1>1
<1>3. QED
  BY <1>2, SourceInvariant, PTL DEF Spec, OnlyVerifiedSourcesAppear

(* A damaged tree is never compiled, even after the entry was replaced.    *)
THEOREM DamageIsNeverCompiled == Spec => NeverCompilesDamage
<1> DEFINE Sound == \A b \in Builds : outcome'[b] = "compiled" /\ outcome[b] # "compiled"
                             => source \in Entry /\ source.tree = "whole"
<1>1. ASSUME SourceInv, [Next]_vars
      PROVE  Sound
  <2>1. ASSUME NEW b \in Builds, ReadPackages(b)
        PROVE  Sound
    BY <1>1, <2>1, VerifiedFacts
       DEF ReadPackages, Report, SourceInv, Typed, TrustedOnceVerified
  <2>2. ASSUME NEW b \in Builds, StatSource(b) \/ ReadMetadata(b) \/ ReadTree(b)
        PROVE  Sound
    BY <1>1, <2>2 DEF StatSource, ReadMetadata, ReadTree, Conclude, SourceInv, Typed
  <2>3. ASSUME NEW b \in Builds, Step(b), ~ReadPackages(b), ~StatSource(b), ~ReadMetadata(b),
               ~ReadTree(b)
        PROVE  Sound
    BY <1>1, <2>3 DEF Step, Fetch, Stage, WriteMetadata, CheckArchive, ArchiveExists,
       DetachArchive, CopyArchive, RenameArchive, Detach, Discard, Publish, Retry, Unstage,
       Discover, IoFails, Crash, Fail, Refuse, Report, SourceInv, Typed
  <2>4. QED
    BY <1>1, <2>1, <2>2, <2>3 DEF Next, vars
<1>2. SourceInv /\ [Next]_vars => [Sound]_vars
  BY <1>1
<1>3. QED
  BY <1>2, SourceInvariant, PTL DEF Spec, NeverCompilesDamage

-----------------------------------------------------------------------------
(* An undamaged cache of one provider.                                       *)

(* What is at the content address is what every build looks for.           *)
LEMMA OrderFacts ==
    ASSUME SourceInv, InOrder, NEW b \in Builds, source # Absent
    PROVE  /\ source = SourceOf(provider[b]) /\ provider[b] \in Provider
           /\ source.owner = provider[b] /\ source.tree = "whole" /\ source \in Entry
           /\ Verified(source) /\ source # NotDirectory
<1>1. provider[b] \in Provider
  BY DEF SourceInv, Typed
<1>2. source = SourceOf(provider[b])
  BY DEF InOrder
<1>3. QED
  BY <1>1, <1>2, VerifiedFacts DEF SourceOf

(* Every lookup finds nothing, or the source it looks for.                 *)
LEMMA LookupsUndisturbed ==
    ASSUME SourceInv, undamaged, UndamagedInv, NEW b \in Builds,
           StatSource(b) \/ ReadMetadata(b) \/ ReadTree(b)
    PROVE  \A d \in Builds : Undisturbed(d)'
<1>1. UNCHANGED disk /\ UNCHANGED <<choices, attempts, modules>> /\ pc[b] \in Lookups
  BY DEF StatSource, ReadMetadata, ReadTree
<1>2. /\ source = Absent \/ Verified(source)
      /\ \A d \in Builds : Undisturbed(d)
      /\ source # Absent => /\ source \in Entry /\ source.tree = "whole"
                            /\ source.owner = provider[b] /\ source # NotDirectory
  BY OrderFacts, VerifiedFacts DEF UndamagedInv
<1>3. CASE /\ source # Absent /\ UNCHANGED <<pc, outcome>>
           /\ \E part \in {"metadata", "tree"} : reading' = [reading EXCEPT ![b] = part]
  BY <1>1, <1>2, <1>3 DEF Undisturbed, disk
<1>4. CASE source = Absent /\ Conclude(b, "missing")
  <2>1. pc' = [pc EXCEPT ![b] = Resume(pc[b], "missing")]
        /\ reading' = [reading EXCEPT ![b] = "entry"]
        /\ UNCHANGED outcome
    BY <1>2, <1>4, ConcludeFacts DEF Undisturbed
  <2>2. Resume(pc[b], "missing") \in {"fetch", "stage", "publish"}
    BY <1>1, <1>2, <1>4 DEF Resume, Lookups, Undisturbed
  <2>3. QED
    BY <1>1, <1>2, <1>4, <2>1, <2>2 DEF Undisturbed, disk, SourceInv, Typed
<1>5. CASE source # Absent /\ Conclude(b, "hit")
  <2>1. /\ pc' = [pc EXCEPT ![b] = Resume(pc[b], "hit")]
        /\ reading' = [reading EXCEPT ![b] = "entry"]
        /\ outcome' = [outcome EXCEPT ![b] = "verified"]
    BY <1>5, ConcludeFacts
  <2>2. Resume(pc[b], "hit") \in {"discover", "archive", "unstage"}
    BY <1>1 DEF Resume, Lookups
  <2>3. QED
    BY <1>1, <1>2, <1>5, <2>1, <2>2 DEF Undisturbed, disk, SourceInv, Typed
<1>6. CASE StatSource(b)
  <2>1. CASE source = Absent
    <3>1. Conclude(b, "missing")
      BY <1>6, <2>1, SourceAssumption DEF StatSource
    <3>2. QED
      BY <1>4, <2>1, <3>1
  <2>2. CASE source # Absent
    <3>1. reading' = [reading EXCEPT ![b] = "metadata"] /\ UNCHANGED <<pc, outcome>>
      BY <1>2, <1>6, <2>2 DEF StatSource
    <3>2. QED
      BY <1>3, <2>2, <3>1
  <2>3. QED
    BY <2>1, <2>2
<1>7. CASE ReadMetadata(b)
  <2>1. source # Absent
    BY <1>2, <1>7 DEF ReadMetadata, Undisturbed
  <2>2. QED
    BY <1>2, <1>3, <1>7, <2>1 DEF ReadMetadata
<1>8. CASE ReadTree(b)
  <2>1. source # Absent
    BY <1>2, <1>8 DEF ReadTree, Undisturbed
  <2>2. QED
    BY <1>2, <1>5, <1>8, <2>1 DEF ReadTree
<1>9. QED
  BY <1>6, <1>7, <1>8

(* The other steps: a rename is only lost to a source that stays.          *)
LEMMA StepsUndisturbed ==
    ASSUME SourceInv, undamaged, UndamagedInv, NEW b \in Builds, Step(b)
    PROVE  \A d \in Builds : Undisturbed(d)'
<1>1. /\ source = Absent \/ Verified(source)
      /\ \A d \in Builds : Undisturbed(d)
      /\ Absent # NotDirectory
      /\ DOMAIN pc = Builds /\ DOMAIN reading = Builds /\ DOMAIN attempts = Builds
      /\ DOMAIN outcome = Builds /\ DOMAIN modules = Builds /\ DOMAIN aside = Builds
  BY SourceAssumption, OrderFacts, VerifiedFacts DEF UndamagedInv, SourceInv, Typed
<1> USE DEF Undisturbed, Goto, Report, Fail, Refuse,
    decisions, disk
<1>2. CASE Publish(b)
  <2>1. source = Absent => Verified(staging[b]) /\ staging[b] # Absent
    BY <1>2, VerifiedFacts DEF Publish, SourceInv, Typed, SiblingsOwned, Publishing
  <2>2. source # NotDirectory
    BY <1>1, VerifiedFacts
  <2>3. QED
    BY <1>1, <1>2, <2>1, <2>2 DEF Publish
<1>3. CASE Retry(b)
  <2>1. attempts[b] = 0 /\ source # Absent
    BY <1>1, <1>3 DEF Retry
  <2>2. MaxAttempts > 1 => attempts[b] + 1 < MaxAttempts
    BY <2>1
  <2>3. QED
    BY <1>1, <1>3, <2>1, <2>2 DEF Retry
\* A step to a place where nothing is published, read or moved away.
<1>4. ASSUME NEW l, l \notin {"detach", "publish", "retry", "confirm", "discover", "read"},
             pc' = [pc EXCEPT ![b] = l],
             UNCHANGED <<source, reading, attempts, modules, outcome>>,
             \/ aside' = aside
             \/ \E held \in {"archive", "nothing"} : aside' = [aside EXCEPT ![b] = held]
      PROVE  \A d \in Builds : Undisturbed(d)'
  <2> SUFFICES ASSUME NEW d \in Builds
               PROVE  Undisturbed(d)'
    OBVIOUS
  <2>1. /\ pc'[d] = pc[d] \/ pc'[d] = l
        /\ aside'[d] \in {aside[d], "archive", "nothing"}
    BY <1>1, <1>4
  <2>2. QED
    BY <1>1, <1>4, <2>1
<1>5. CASE Fetch(b)
  <2>1. CASE Fail(b) \/ Refuse(b)
    BY <1>1, <1>5, <2>1 DEF Fetch
  <2>2. CASE Goto(b, "recheck") /\ UNCHANGED outcome
    BY <1>4, <1>5, <2>2 DEF Fetch
  <2>3. QED
    BY <1>5, <2>1, <2>2 DEF Fetch
<1>6. CASE Stage(b) \/ WriteMetadata(b)
  BY <1>4, <1>6 DEF Stage, WriteMetadata
<1>7. CASE Unstage(b)
  BY <1>1, <1>7 DEF Unstage
<1>8. CASE CheckArchive(b) \/ RenameArchive(b)
  <2>1. AfterArchive(b) \in {"discover", "check"}
    BY DEF AfterArchive
  <2>2. AfterArchive(b) = "discover" => source # Absent
    BY <1>1, <1>8 DEF AfterArchive, CheckArchive, RenameArchive, SourceInv,
       TrustedOnceVerified, Archiving
  <2>3. CASE CheckArchive(b)
    BY <1>1, <2>1, <2>2, <2>3 DEF CheckArchive
  <2>4. CASE RenameArchive(b)
    BY <1>1, <2>1, <2>2, <2>4 DEF RenameArchive
  <2>5. QED
    BY <1>8, <2>3, <2>4
<1>9. CASE ArchiveExists(b) \/ DetachArchive(b) \/ CopyArchive(b)
  <2>1. CASE ArchiveExists(b) \/ CopyArchive(b)
    BY <1>4, <2>1 DEF ArchiveExists, CopyArchive
  <2>2. CASE DetachArchive(b)
    BY <1>4, <2>2 DEF DetachArchive
  <2>3. QED
    BY <1>9, <2>1, <2>2
<1>10. CASE Detach(b) \/ Discard(b)
  <2>1. ~Detach(b)
    BY <1>1 DEF Detach
  <2>2. aside[b] = "archive"
    BY <1>1, <1>10, <2>1 DEF Discard, SourceInv, Typed, SiblingsOwned
  <2>3. Goto(b, "copy") /\ aside' = [aside EXCEPT ![b] = "nothing"]
    BY <1>10, <2>1, <2>2 DEF Discard
  <2>4. UNCHANGED <<source, reading, attempts, modules, outcome>>
    BY <1>10, <2>1 DEF Discard
  <2>5. QED
    BY <1>4, <2>3, <2>4
<1>11. CASE Discover(b)
  BY <1>1, <1>11, VerifiedFacts DEF Discover
<1>12. CASE ReadPackages(b)
  BY <1>1, <1>12, VerifiedFacts DEF ReadPackages
<1>13. CASE IoFails(b)
  BY <1>1, <1>13 DEF IoFails
<1>14. CASE Crash(b)
  <2>1. Goto(b, "crashed") /\ UNCHANGED <<disk, decisions, outcome>>
    BY <1>14 DEF Crash
  <2>2. QED
    BY <1>4, <2>1
<1>15. QED
  BY <1>2, <1>3, <1>5, <1>6, <1>7, <1>8, <1>9, <1>10, <1>11, <1>12, <1>13, <1>14,
     LookupsUndisturbed DEF Step

(* The content address keeps what all builds look for, if anything.        *)
LEMMA OrderKept ==
    ASSUME SourceInv, undamaged, UndamagedInv, NEW b \in Builds, Step(b)
    PROVE  InOrder' /\ UNCHANGED choices /\ (source # Absent => source' = source)
<1>1. CASE Publish(b)
  <2>1. source' = source \/ source' = SourceOf(provider[b])
    BY <1>1 DEF Publish, SourceInv, SiblingsOwned, Publishing
  <2>2. UNCHANGED choices /\ (source # Absent => source' = source)
    BY <1>1 DEF Publish, decisions
  <2>3. QED
    BY <2>1, <2>2 DEF UndamagedInv, InOrder
<1>2. CASE ~Publish(b)
  <2>1. ~Detach(b)
    BY DEF UndamagedInv, Undisturbed, Detach
  <2>2. UNCHANGED source /\ UNCHANGED choices
    BY <1>2, <2>1 DEF Step, StatSource, ReadMetadata, ReadTree, Fetch, Stage, WriteMetadata,
       CheckArchive, ArchiveExists, DetachArchive, CopyArchive, RenameArchive, Discard, Retry,
       Unstage, Discover, ReadPackages, IoFails, Crash, disk, decisions
  <2>3. QED
    BY <2>2 DEF UndamagedInv, InOrder
<1>3. QED
  BY <1>1, <1>2

(* Everything the properties of an undamaged cache need is inductive.      *)
THEOREM UndamagedInvariant == Spec => []UndamagedInv
<1>1. Init => UndamagedInv
  BY SourceAssumption DEF Init, UndamagedInv, Undisturbed
<1>2. ASSUME SourceInv, UndamagedInv, [Next]_vars
      PROVE  UndamagedInv'
  <2>1. CASE UNCHANGED vars
    BY <1>2, <2>1 DEF UndamagedInv, InOrder, Undisturbed, vars, disk
  <2>2. ASSUME NEW b \in Builds, Step(b)
        PROVE  UndamagedInv'
    <3>1. CASE undamaged
      BY <1>2, <2>2, <3>1, StepsUndisturbed, OrderKept DEF UndamagedInv
    <3>2. CASE ~undamaged
      <4>1. UNCHANGED undamaged
        BY <2>2 DEF Step, StatSource, ReadMetadata, ReadTree, Fetch, Stage, WriteMetadata,
           CheckArchive, ArchiveExists, DetachArchive, CopyArchive, RenameArchive, Detach, Discard,
           Publish, Retry, Unstage, Discover, ReadPackages, IoFails, Crash, decisions
      <4>2. QED
        BY <3>2, <4>1 DEF UndamagedInv
    <3>3. QED
      BY <3>1, <3>2
  <2>3. QED
    BY <1>2, <2>1, <2>2 DEF Next
<1>3. QED
  BY <1>1, <1>2, SourceInvariant, PTL DEF Spec

(* In a cache that was found undamaged by builds that all select the same  *)
(* provider, no source that has been published is ever moved or replaced.  *)
THEOREM SourcesAreKept == Spec => SourcesStay
<1>1. ASSUME SourceInv, UndamagedInv, [Next]_vars
      PROVE  undamaged /\ source # Absent => source' = source
  <2>1. CASE UNCHANGED vars
    BY <2>1 DEF vars, disk
  <2>2. CASE Next
    BY <1>1, <2>2, OrderKept DEF Next
  <2>3. QED
    BY <1>1, <2>1, <2>2
<1>2. SourceInv /\ UndamagedInv /\ [Next]_vars
          => [undamaged /\ source # Absent => source' = source]_vars
  BY <1>1
<1>3. QED
  BY <1>2, SourceInvariant, UndamagedInvariant, PTL DEF Spec, SourcesStay

(* In such a cache every build that is not frozen compiles the package it  *)
(* has verified, all of its modules included, whoever it races with.       *)
THEOREM OnlineBuildsSucceed == Spec => []OnlineBuildsCompile
<1>1. UndamagedInv => OnlineBuildsCompile
  BY DEF UndamagedInv, Undisturbed, OnlineBuildsCompile
<1>2. QED
  BY <1>1, UndamagedInvariant, PTL
-----------------------------------------------------------------------------
(* A source remains.                                                         *)

\* A build that has yet to publish, or that the file system has kept from it.
Holds(b) ==
    \/ pc[b] \in {"publish", "crashed"} \/ outcome[b] = "refused"
    \/ pc[b] = "discard" /\ aside[b] = "source"

RefusalEnds ==
    \A b \in Builds : outcome[b] = "refused" => pc[b] \in {"unstage", "done", "crashed"}

\* A source that has been of use is there, or somebody will bring it back.
SourceKept ==
    (\E b \in Builds : outcome[b] \in {"verified", "compiled"})
        => Verified(source) \/ \E b \in Builds : Holds(b)

\* What a step of one build does to all this.
Keeps(b) ==
    /\ \A d \in Builds \ {b} :
          pc'[d] = pc[d] /\ aside'[d] = aside[d] /\ outcome'[d] = outcome[d]
    /\ Verified(source) => Verified(source') \/ Holds(b)'
    /\ Holds(b) /\ (source = Absent \/ Verified(source)) => Holds(b)' \/ Verified(source')
    /\ outcome'[b] \in {"verified", "compiled"} =>
          outcome[b] \in {"verified", "compiled"} \/ Verified(source')
    /\ outcome'[b] = "refused" => pc'[b] \in {"unstage", "done", "crashed"}

LEMMA LookupsKeepSource ==
    ASSUME SourceInv, RefusalEnds, NEW b \in Builds,
           StatSource(b) \/ ReadMetadata(b) \/ ReadTree(b)
    PROVE  Keeps(b)
<1> USE DEF SourceInv, Typed, Keeps, Holds, RefusalEnds
<1>1. UNCHANGED disk /\ pc[b] \in Lookups /\ outcome[b] # "refused"
  BY DEF StatSource, ReadMetadata, ReadTree, Lookups
<1>2. ASSUME NEW result \in {"hit", "missing", "corrupt"}, Conclude(b, result),
             result = "hit" => Verified(source)
      PROVE  Keeps(b)
  BY <1>1, <1>2, ConcludeFacts DEF disk, Lookups
<1>3. CASE UNCHANGED <<pc, outcome>>
  BY <1>1, <1>3 DEF disk, Lookups
<1>4. CASE StatSource(b)
  BY <1>2, <1>3, <1>4 DEF StatSource
<1>5. CASE ReadMetadata(b)
  BY <1>2, <1>3, <1>5 DEF ReadMetadata
<1>6. CASE ReadTree(b)
  <2>1. source \in Entry /\ source.tree = "whole" => Verified(source)
    <3>1. source \in Entry => Verified(source) \/ source.owner = provider[b]
      BY <1>1, <1>6 DEF ReadersBound, ReadTree
    <3>2. provider[b] \in Provider
      OBVIOUS
    <3>3. QED
      BY <3>1, <3>2, VerifiedFacts
  <2>2. QED
    BY <1>2, <1>6, <2>1 DEF ReadTree
<1>7. QED
  BY <1>4, <1>5, <1>6

LEMMA StepsKeepSource ==
    ASSUME SourceInv, RefusalEnds, NEW b \in Builds, Step(b)
    PROVE  Keeps(b)
<1> USE DEF SourceInv, Typed, Keeps, Holds, RefusalEnds, Goto, Report, Fail, Refuse, decisions, disk
<1>1. CASE StatSource(b) \/ ReadMetadata(b) \/ ReadTree(b)
  BY <1>1, LookupsKeepSource
<1>2. CASE Fetch(b)
  BY <1>2 DEF Fetch
<1>3. CASE Stage(b) \/ WriteMetadata(b) \/ Unstage(b)
  BY <1>3 DEF Stage, WriteMetadata, Unstage
<1>4. CASE CheckArchive(b) \/ ArchiveExists(b) \/ CopyArchive(b) \/ RenameArchive(b)
  BY <1>4 DEF CheckArchive, ArchiveExists, CopyArchive, RenameArchive, AfterArchive
<1>5. CASE DetachArchive(b)
  BY <1>5 DEF DetachArchive
<1>6. CASE Detach(b)
  BY <1>6 DEF Detach
<1>7. CASE Discard(b)
  BY <1>7 DEF Discard
<1>8. CASE Publish(b)
  <2>1. staging[b] = SourceOf(provider[b])
    BY <1>8 DEF Publish, SiblingsOwned, Publishing
  <2>2. Verified(staging[b])
    BY <2>1, VerifiedFacts
  <2>3. CASE source = Absent
    BY <1>8, <2>2, <2>3 DEF Publish, Verified
  <2>4. CASE source # Absent
    BY <1>8, <2>4 DEF Publish, Verified
  <2>5. QED
    BY <2>3, <2>4
<1>9. CASE Retry(b)
  BY <1>9 DEF Retry
<1>10. CASE Discover(b) \/ Crash(b)
  BY <1>10 DEF Discover, Crash
<1>11. CASE ReadPackages(b)
  BY <1>11 DEF ReadPackages, TrustedOnceVerified
<1>12. CASE IoFails(b)
  BY <1>12 DEF IoFails
<1>13. QED
  BY <1>1, <1>2, <1>3, <1>4, <1>5, <1>6, <1>7, <1>8, <1>9, <1>10, <1>11, <1>12 DEF Step

LEMMA SourceKeptNext ==
    ASSUME SourceInv, RefusalEnds, SourceKept, [Next]_vars
    PROVE  RefusalEnds' /\ SourceKept'
<1>1. CASE UNCHANGED vars
  BY <1>1 DEF vars, disk, RefusalEnds, SourceKept, Holds
<1>2. ASSUME NEW b \in Builds, Step(b)
      PROVE  RefusalEnds' /\ SourceKept'
  <2>1. Keeps(b)
    BY <1>2, StepsKeepSource
  <2>2. RefusalEnds'
    BY <2>1 DEF Keeps, RefusalEnds
  <2>3. ASSUME NEW d \in Builds, outcome'[d] \in {"verified", "compiled"}
        PROVE  Verified(source') \/ \E x \in Builds : Holds(x)'
    <3>1. CASE outcome[d] \in {"verified", "compiled"}
      <4>1. source = Absent \/ Verified(source)
        BY <3>1 DEF SourceInv, TrustedOnceVerified
      <4>2. CASE Verified(source)
        BY <2>1, <4>2 DEF Keeps
      <4>3. ASSUME NEW x \in Builds, Holds(x)
            PROVE  Verified(source') \/ \E y \in Builds : Holds(y)'
        <5>1. CASE x = b
          BY <2>1, <4>1, <4>3, <5>1 DEF Keeps
        <5>2. CASE x # b
          BY <2>1, <4>3, <5>2 DEF Keeps, Holds
        <5>3. QED
          BY <5>1, <5>2
      <4>4. QED
        BY <3>1, <4>2, <4>3 DEF SourceKept
    <3>2. CASE outcome[d] \notin {"verified", "compiled"}
      BY <2>1, <2>3, <3>2 DEF Keeps
    <3>3. QED
      BY <3>1, <3>2
  <2>4. QED
    BY <2>2, <2>3 DEF SourceKept, Verified
<1>3. QED
  BY <1>1, <1>2 DEF Next

(* However builds detach each other's sources, the next build finds one    *)
(* (materialize), for any number of builds, providers and rounds.          *)
THEOREM ASourceRemains == Spec => []SourceRemains
<1>1. Init => RefusalEnds /\ SourceKept
  BY DEF Init, RefusalEnds, SourceKept
<1>2. SourceInv /\ RefusalEnds /\ SourceKept /\ [Next]_vars => RefusalEnds' /\ SourceKept'
  BY SourceKeptNext
<1>3. RefusalEnds /\ SourceKept => SourceRemains
  BY DEF SourceKept, Holds, SourceRemains
<1>4. QED
  BY SourceInvariant, <1>1, <1>2, <1>3, PTL DEF Spec
=============================================================================
