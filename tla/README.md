# A TLA+ verification of the Salicin tool chain

Salicin is a systems language; this repository holds its compiler `salic`
(Rust), its libraries (Salicin), its C runtime and its documentation.  This
directory holds TLA+ models of the parts of the compiler whose correctness
depends on *when* things happen or on every order in which they may: the language
server with its threads and channels, the on-disk caches that concurrent
invocations share without locks, the search that resolves registry dependencies
with the builds that lock its result, and the ownership analysis with the cleanup
code that is emitted on its word.  Each model is checked by TLC on small instances, and its main
properties are proved with TLAPS for every value of the constants.

Contents: [1 The system](#1-the-system) · [2 Modules](#2-the-modules) ·
[3 Language server](#3-the-language-server) · [4 Artifact cache](#4-the-artifact-cache) ·
[5 Registry sources](#5-the-registry-source-cache) ·
[6 Registry resolution](#6-registry-resolution-and-locked-builds) ·
[7 Ownership](#7-ownership-and-drops) · [8 Runs](#8-the-runs) ·
[9 Proofs](#9-the-proofs) · [10 Disagreements](#10-disagreements-found) ·
[11 Not modelled](#11-what-is-not-modelled) · [12 Plan](#12-plan)

## 1 The system

### Inventory

Sources are below `compiler/src/` unless another directory is named.

| Component | State it keeps | Operations | What is hard about it | What makes it correct |
|---|---|---|---|---|
| Workspace session (`editor.rs`) | revision counter, baseline text, open overlays with client versions | open, change, save, close, update baseline, snapshot, accept_analysis | results return after arbitrary edits; counter limit | a result is accepted only for the text it was computed from; overlays hide the disk |
| Language server (`lsp.rs`) | lifecycle, waiting queries, requested and latest analysis, two channels | one handler per LSP message; reader, worker and main loop threads | three threads, coalescing, cancellation, reused ids, shutdown with work in flight, worker panic | one completion per request, from current text; no lost wakeup; diagnostics settle |
| Artifact cache (`incremental_cache.rs`) | LLVM-IR entries by fingerprint, temporary and invalid siblings | lookup, publish, clean | no lock: every step resolves a path that others rename; kills; full disks | only whole entries are visible; a hit is one entry; nothing is left behind |
| Cache root (`incremental_cache.rs`) | ownership marker | open | concurrent first use, leftovers of killed runs | never claims a user's directory, never refuses its own |
| Registry source cache (`registry_cache.rs`, `registry_project.rs`) | archives and extracted sources by archive digest | lookup, materialize | as above, and the entry names the snapshot that selected it, so builds evict each other | only verified trees appear and are compiled |
| Registry snapshots (`registry_project.rs`) | snapshot blobs by digest | load, publish_blob | refused writes, frozen mode | bytes are checked at every use |
| Registry resolution (`registry.rs`) | search stack, attempt counter | resolve, solve | backtracking, limit, prior lock preferences | the result is a closed, acyclic, preferred selection |
| Lock modes and lockfile (`lockfile.rs`, `main.rs`) | `salicin.lock` | read, compare, write, validate | concurrent update and locked builds | locked never reselects |
| Cleanup plans (`cleanup.rs`) | control-flow graph, move states, drop flags | dataflow fixpoint, verification | joins, loops, partial moves | every owned value is dropped exactly once |
| Cleanup planner (`codegen/cleanup_plan.rs`) | cursor, scopes, loop frames | walk of the typed tree | early exits through nested scopes | its plans verify |
| Ownership and flow (`codegen/flow.rs`, `places.rs`, `control.rs`) | alternative sets of uninitialised places | use, move, assign, join, widen, the check of loop-carried moves | the body is read once, loops included; 64-alternative limit | no use of a moved place is accepted |
| Drop flags (`codegen/emitter.rs`) | a flag for each place of an owned local | set, clear, conditional drop | partial moves, early exits through scopes | what is emitted drops each value once |
| Incremental inputs (`incremental.rs`) | none | fingerprint | – | equal inputs and only they have equal fingerprints |
| Manifests, modules, lexer, parser, formatter | none | pure functions | size | – |
| Type checking, compile-time evaluation, effects, async lowering, LLVM emission | analyzer tables | passes over one program | size | – |
| Command line (`main.rs`) | none of its own | build, run, test, cache clean, lsp | the order in which it reads what the caches return | compiles what it verified |
| Libraries (`library/`), runtime (`runtime/`) | – | language-level | – | – |

### How the components interact

```
 editor ──stdio──> reader ──events──> main loop <──events── worker
                                        │  owns                ^
                                        v                      │ jobs (snapshots)
                                   WorkspaceSession ───────────┘

 salic build/test ──> CacheStore::open ──> lookup ──miss──> compile ──> publish
 salic cache clean ─> CacheStore::open ──> clean            (one shared directory)

 salic build ──> prepare_registry_graph ──> materialize_provider per package
             ──> discover modules ──> read packages ──> compile
                                              (one shared registry cache)

 salic build ──> prepare_registry_graph
                   update: snapshots ──> search ──missing snapshot──> load it, repeat
                   locked: lockfile ──> its snapshots ──> check the closure
             ──> sources (above) ──> apply_lock_mode: write salicin.lock or compare

 function body ──lowering: FlowState──> typed tree ──cleanup planner──> plan ──verify──>
               emission with drop flags
```

The server's threads share nothing but two `mpsc` channels: the reader and the
worker send events to the main loop, the main loop sends snapshots to the worker.
Compiler processes share nothing but directories, and use no locks: their only
atomic operation is `rename`.

## 2 The modules

| Module | What it is |
|---|---|
| `WorkspaceSession` | the session of `editor.rs`: state and operations |
| `WorkspaceSnapshots` | the session with the snapshots in flight; the revision gate |
| `QueryService` | *abstract*: what the server promises about requests, without threads |
| `LspServer` | the server: reader, worker, main loop, every handler; extends `WorkspaceSession` |
| `LspServerProperties` | its properties, inductive invariant, fairness and refinement mapping |
| `ArtifactStore` | *abstract*: a slot with at most one complete artifact |
| `IncrementalCache` | lookup, publish and clean, one action for each file-system step |
| `IncrementalCacheProperties` | its properties, invariant and refinement mapping |
| `CacheRoot` | the claiming and recognition of a cache root, with its properties |
| `SourceCache` | registry sources: lookup, materialize, and the build that reads the result |
| `SourceCacheProperties` | its properties and invariants |
| `RegistryResolution` | the backtracking search of `registry.rs`, one action for each way a call goes on, and what a resolution is |
| `DependencyVisit` | the depth-first walk over selected packages, call by call, and what the walks are to find out |
| `RegistryBuilds` | builds in the update, locked and frozen modes, composed with the search and the walk; the lockfile, the snapshots, and what changes them |
| `OwnershipFlow` | the ownership analysis reading an arbitrary body part by part |
| `OwnershipRuns` | the verification of an accepted body's cleanup plan, its drop flags, and its execution; extends `OwnershipFlow` |
| `MC…` | model values, small clients and symmetry for TLC; each instantiated by one or more `.cfg` |
| `…Proofs` | theorems and their proofs |

Definitions keep the source's names where they have one.  A definition that
begins with *Variant:* in its comment is a mutated form of the definition below
it (a dropped guard, a missing reset); no specification uses one.  They show
that each property depends on the code: with the variant in the definition's
place TLC finds the property violated.

## 3 The language server

**State.** `revision`, `baseline`, `openDocuments` are the session's fields;
`lifecycle`, `latestAnalysis`, `requestedAnalysis`, `pendingQueries` the server's;
`events` and `jobs` the two channels (FIFO, unbounded); `worker` the worker's
place and the snapshot in its hands; `step` says whether the main loop receives its
next event or is in the middle of a handler that has yet to `schedule` an analysis;
`replies` and `published` are what has been written to the client, `status` whether
`run` has returned and how.

**Actions.** `ReadMessage`/`ReadEnd` are the reader's sends; `TakeSnapshot`,
`StartAnalysis`, `FinishAnalysis`, `AnalysisPanics` the worker's receive,
coalescing (`try_recv` until empty), send and death; each alternative of
`HandleMessage` is one complete handler of `handle_message` or
`handle_notification`, its replies, invalidations and scheduling included, and
`DropAnalysis`/`AcceptAndPublish` are `accept_and_publish`.  The main loop is one
thread, and its handlers touch state no other thread reads but the channel `jobs`, so a
handler is one step up to its send.  Most handlers change nothing another action or
property tells apart before they send.  An accepted edit does: `Synchronize` gives the
session its new revision and refuses the superseded queries, `ScheduleSynchronized`
sends the snapshot, and the worker may drain its channel and start between the two.

**Abstractions.**

* Messages are classes: a method, an id, a document, a version, a text.  What the
  JSON layer refuses is `unparsable` or `invalid`; requests whose method the
  dispatch does not know (an `exit` or `didOpen` *with* an id, too) are
  `unknownRequest`, and unknown notifications (`initialize` without id) are
  `unknownNotification`; synchronizations with bad parameters are `malformedSync`;
  every parameter the validation of a query refuses is an unknown document.
* The five navigation requests are two classes, `navigation` and `rename`; the
  result of a query is an `Answer` that records the revision of the analysis it is
  computed from, or a failure particular to the query, which is computed from the
  same analysis and counted as an `Answer`, too.
* The reader's pipe and the event channel are one FIFO.  A failing write of the
  server's output is not modelled: `run` returns at once in that case.
* The session id inside a snapshot id is omitted: a server has one session.
* `Err(_) => Ok(1)` of the main loop cannot happen: the worker's thread keeps a
  sender until it ends, and the reader ends with an event that stops the loop.

**Properties** (`LspServerProperties`).  `CompletedOnce`: no request is completed
twice, and what waits is not completed, though four handlers remove and complete
queries and ids are reused.  `PendingAreCurrent`: what waits was asked about the
current text.  `NoLostWakeup`: what waits is scheduled, and what is scheduled is
on its way while the worker lives – through coalescing, stale completions and
edits.  `SnapshotsFaithful`: comparing revisions compares texts.
`AnalysesStartCurrent`: however many edits are queued, the worker starts with the
current text, or with the one before while the main loop is between an edit and its
send.  `AnswersCurrent`, `PublishedCurrent`: nothing obsolete is answered from or
published, and diagnostics never go back.
`ShutdownIsFinal`: after shutdown no query is answered, not even by an analysis
that was under way (its diagnostics are still published, as in the code).
`ImplementsQueryService`: the server refines `QueryService`, in which an edit
refuses older queries in the same step.  `EveryRequestCompletes`,
`DiagnosticsSettle`: liveness.

**Fairness.** `WF(MainLoop)` and `WF(Worker)`: both are threads that block only on
a channel and are scheduled by the operating system.  None is assumed of the
reader (the client owes nothing), and the run that has the liveness properties,
`lsp_lifecycle`, excludes panics: after a
panic in `analyze` later queries wait for ever, which the code accepts and this
model has (`AnalysisPanics`).

## 4 The artifact cache

**State.** `final`, `temporary[c]`, `invalid[c]` are what is at the entry's path and
at the invocation's private siblings: an entry (which artifact its metadata
describe, which its payload is, either possibly `Unusable`), something that is not
a directory, or nothing.  `tree` is the existing prefix of the directory path.
`pc`, `reading`, `seen`, `built`, `attempts` and `outcome` are the invocation's;
`refused` counts the operations the file system has refused.

**Actions.** One per file-system call that resolves a path others may rename:
`StatEntry`, `ReadMetadata`, `ReadPayload` for each of the five places that read an
entry (lookup, the validation of the staged entry, the loop's check, and the two
second looks after a failed rename); `EnsureNamespace`, `EnsureShard`, `Stage`,
`WritePayload`, `WriteMetadata`; `Detach`, `Discard`, `Publish`, `Retry`, `Unstage`
(the guard); `StatNamespace`, `DetachNamespace` for `cache clean`; `IoFails` and
`Crash` for refused calls and kills.

**Abstractions.** One fingerprint (entries of others only share the directories).
The compiler is not assumed to be deterministic: invocations may build different
artifacts for a fingerprint.  Damage is only there at the start, in every form.
Removal is best effort in the code and succeeds here.  What a clean has moved aside
is out of everybody's reach and not tracked.  The intermediate failures of
`ensure_owned_directory_path` are a failing `Stage`.

**Properties.** `ImplementsArtifactStore`: the cache refines `ArtifactStore` – a
hit is the entry of the very moment the payload is read, an entry is only ever
published into an empty slot.  `OnlyWholeEntriesAppear`, `NoLitter`,
`RoundsLostToOthers` (a round of the publication loop is only lost to somebody
else's progress or to a refused rename), `WinnerRemains` (writers with stale verdicts evict each other,
but an entry remains).  `CacheRoot`: `ClaimsOnlyItsOwn`, `OwnedRootOpens`,
`NoMarkerLeft`.

## 5 The registry source cache

**State.** `archive` and `source` at the content addresses of one archive digest;
`staging`, `copying`, `aside` the private siblings of each build; `provider` the
identity – registry, snapshot, name, version, digest – a build has selected:
builds with different snapshots select different providers with the same archive
and contend for one address.  `pc`, `reading`, `attempts`, `modules`, `outcome` are
the build's; it ends once it has read its sources.

**Actions.** `StatSource`, `ReadMetadata`, `ReadTree` for the four lookups
(`lookup`, `recheck`, `check`, `confirm`; `Resume` says where each leads); `Fetch`;
`Stage`, `WriteMetadata`; the steps of `publish_verified_archive`; `Detach`,
`Discard`, `Publish`, `Retry`, `Unstage` of the publication loop; `Discover` and
`ReadPackages` of the build; `IoFails`, `Crash`.

**Abstractions.** A tree is `whole` or `damaged`; whole trees of one digest are
equal, so reading the tree and the manifest is one step.  Shard directories are
never removed and left out.  Staging is validated by the step that completes it.
The update and locked modes do the same here (`b \notin Frozen`).

**Properties.** `OnlyVerifiedSourcesAppear`, `NeverCompilesDamage`, `NothingLeft`,
`SourceRemains`; and for a cache that was found in order (nothing but the source that
all builds look for; the auxiliary variable `undamaged` records it at the start):
`SourcesStay` (nobody evicts) and `OnlineBuildsCompile` (every build that is neither
frozen nor refused by the file system compiles the whole package – provided
`MaxAttempts > 1`, since a lost rename takes a second round).  With two providers the
latter fails, see section 10.

## 6 Registry resolution and locked builds

**State.** `RegistryResolution`: `problem` is what `resolve_registry_dependencies` is
given (the roots, the snapshots, the releases locked before), `frames` the calls of
`solve_registry_constraints` that have not returned (constraints, partial selection,
the package decided and its untried releases, the last error), `attempts` the
counter, `answer` the result.  `RegistryBuilds` adds the project (`manifest`,
`config`), the snapshots that endpoints hold (`published`) and that lie intact in
the cache (`cached`), `catalog` (what each snapshot lists), `lockfile`, and `build`,
the build that runs with its phase, mode and what it has read.  `walk` is the
depth-first visit of `reject_registry_cycles` or `validate_locked_closure`
(`DependencyVisit`): the graph, where it starts, `path` (the calls that have not
returned: the code's `visiting`) and `visited`.

**Actions.** Of the search: `RejectConflict`, `RejectCycle`, `Succeed`,
`RejectMissing`, `ChoosePackage` for a call that begins; `SkipRelease`,
`ExceedLimit`, `RefuseRelease`, `TryRelease`, `Exhaust` for its loop over candidates.
Of a walk: `EnterPackage`, `MeetCycle`, `LeavePackage`, `CompleteWalk`, in any order of
the dependencies.
Of a build: `ReadPriorLock`, `LoadFromCache`/`LoadFromEndpoint`/`LoadFails` for each
snapshot, `StartSearch`, `LookForCycles` (a call of the search that has selected
everything walks over it) with `CycleFound` or `NoCycleFound`, `SearchFound`,
`SearchLacks` (the search is repeated with the snapshot it missed), `SearchFails`;
`ValidateLocked` with `TakeLocked` or `RefuseLocked`; then `CompareLock` and
`WriteLock`, or `CheckLock` in the locked modes; `Abort` for kills and errors.  The
environment edits manifests, adopts another snapshot, withdraws one from its endpoint,
damages a cached blob, and replaces the lockfile, *between any two steps of a build
that touch a file*: a second build that writes the lockfile is one of these.

**Abstractions.** A requirement is a set of versions; packages are numbered in key
order (`BTreeMap`), versions in SemVer order.  Edges lead to packages, since a
lockfile has one version of each (`validate_registry_lock_graph`).  What a lockfile
says of local packages is left out.  Publishing a blob is one step (it is a rename);
the sources of the selected packages are section 5.  Which of several missing
registries an error names is left open (the code names the first).  The environment
does nothing during a search or a walk, which work in memory alone: what happens to a
file then cannot be told from the same before, nor a kill then from one before.

**Properties.** `SelectionIsBest`: what is found resolves the problem, has nothing
spare, and no resolution has a higher release where the search decided.
`FailureIsReal`: an error other than the attempt limit means that nothing resolves
the problem.  `WalksAreExact`: in whatever order it visits, a walk never leaves its
graph (the code indexes `selected`) and finds a cycle exactly if some packages all
depend on one of themselves; in the locked modes it finds every package of the lockfile
exactly if the roots lead to all of them.  `LockedBuildIsSound`: a locked build, which never
searches, compiles packages that resolve its manifests.  `UpdateLocksAreAccepted`: what
an update writes is accepted by the locked modes.  `HighestGraph` fails, see section 10.

## 7 Ownership and drops

**State.** `OwnershipFlow` reads a function body that is not known before: `code` is
the parts read so far, `open` the constructs that have not ended with the flows they
keep (a `LoopFrame`'s breaks and continues among them), `flow` the `FlowState` –
alternatives of uninitialised *keys* – and `verdict` the analyzer's answer.
`OwnershipRuns` adds whether the plan of the accepted body verifies (`verified`) and
the execution of its code: `pc`, `live` (which leaves hold a value) and `flags` (the
drop flags that are set).

**Actions.** `LowerUse`, `LowerMove`, `LowerAssign`; a beginning, middle and end for
each of block, `if`, `while`, `do`-`while` and `loop`; `LowerBreak`, `LowerContinue`,
`LowerReturn`; `Accept`.  `Emit` computes the plan's move states over the body's
control-flow graph until no edge changes them (`Propagated`, `Settled`: the queue of
`MoveStateAnalysis::compute` is empty) and checks every move and assignment
(`Verifies`: `verify_stable_move_state`).  `RunMove`, `RunAssign`, `RunBlock`, `RunExit`,
`RunOther` run the emitted code with every outcome of every condition.  So TLC
enumerates every body of bounded length, and every execution of each.

**Keys.** A place is the set of its leaves, the parts without parts; that is how the
plan and the emitted code split every value.  The analysis splits differently
(`append_leaf_keys`, here `Keys`): structs and arrays into their leaves, but a tuple
stays one key, while `lower_place` gives its fields keys of their own when they are
named.  The constant `Tuples` says which places are tuples.  So a move of `t.0` adds a
key that a use of `t` does not ask for, and the other way round.

**Abstractions.** A block declares one local and
initialises it.  Parameters are initialised on entry.  Left out: tuples of one field
(tuple and field would be the same set of leaves), loans, matches, closures, temporaries, enum discriminants, types with a `drop` of their own (which
may not be moved in part), conditions that move, and what follows an exit in its
block, which never runs.  A body whose plan does not verify is not emitted by the
code; it is run here all the same, to see what the analysis alone is worth.

**Properties.** `UsesAreInitialized`: no accepted body reads or moves a place whose
value has gone, on any path and in any round of its loops – although the analysis
reads a loop once and widens its alternatives.  It holds of the analysis alone, with
two exceptions, both in section 10: a `continue` in the condition of a `do`-`while`
(`ResumesCondition`), and a place that overlaps a key the body moves without asking
for it, that is, a tuple of which the body moves a field or a field of a tuple that it
moves (`Unseen`).  In a body whose plan verifies no move takes what has gone, with no
exception.
`DroppedExactlyOnce`: in emitted code an assignment drops exactly what its place
holds, leaving a scope (by its end, `break`, `continue` or `return`) drops exactly
what its locals hold, and nothing is left behind.  The drop flags follow what the analysis
holds (`whole`: is the assigned local complete?), so it has similar exceptions:
`ResumesCondition`, and a body that assigns part of a local and moves a field of a tuple
outside that part (`CompletesTuple`).  `ScopeExitDropsOnce`, the part of it that the
language definition promises, without the exceptions, fails.

## 8 The runs

| Run | Instance | States | Shows |
|---|---|---|---|
| `snapshots` | an editable and a read-only document, 2 texts, 2 versions, 4 revisions | 20 116 | gate, overlays, read-only documents |
| `lsp_editing` | 1 document, 2 texts, 6 messages, 3 revisions, 1 id, panic | 5.6 M | once-only completion, wakeups, currency |
| `lsp_lifecycle` | 2 documents, every method, 4 messages, 2 revisions, fair, no panic | 396 k | types, refusals, shutdown, refinement of `QueryService`, completion, settling |
| `cache_sharing` | 3 writers, 1 clean, 2 artifacts, one kill, one refused operation, limit 5 | 2.5 M | refinement of `ArtifactStore`, litter, wholeness, eviction, the attempt limit |
| `root_open` | 3 openers, one kill, refused calls, every kind of root | 605 | claiming |
| `sources_sharing` | 3 builds (1 frozen), 2 providers, one kill, refused calls, limit 2 | 875 k | verification, litter, eviction, success in an undamaged cache |
| `registry_builds` | 4 packages in 2 registries, 2 releases each, 2 snapshots of each registry, 27 catalogs, 5 manifests, 2 builds, 2 edits, limit 5 | 2.8 M | resolution, failure, the walks, locked builds, the lockfile |
| `ownership` | a struct parameter, a block's tuple, all bodies of up to 7 parts that name both and a field of each and use the tuple, widening at 1 | 2.4 M | uses, drops |

Four more runs, `cache_first_wins`, `sources_incomplete`, `registry_highest` and
`ownership_tuples`, each show a disagreement between a document and the code
(section 10).

**Bounds.** `MaxMessages` bounds what the client sends, `RevisionLimit` stands for
`u64::MAX` (so that the refusal at the limit happens), `MaxAttempts` for
`MAX_PUBLICATION_ATTEMPTS`, `MaxCrashes` how many processes are killed and
`MaxRefusals` how many operations of the artifact cache the file system refuses.  They are
enough for the interesting cases: three revisions are one in the worker's hands,
one queued behind it and one newer; six messages are start, open, query, and three
disturbances; three writers are one that publishes, one that evicts it, and one
that meets both; two cleans and two writers race over one namespace; one kill
leaves siblings in every state beside a survivor.  `MaxBuilds` and `MaxEdits`: an
update writes what a locked build takes, with two changes before, between or during
them.  `AttemptLimit` is 5: most of the catalogs are resolved or refuted within it
(backtracking over two packages takes four attempts), some are not.  `MaxParts`:
seven parts are a loop in a block, or a loop with a branch in it, and two or three
things done inside and after; `MaxAlternatives` is 1, so that widening happens where
two different flows meet first – the code's 64 are only exceeded after seven independent branches.
One field that is named and one that is not are enough for partial moves, of the
struct and of the tuple; the double drop of `ownership_tuples` takes four parts and both
fields.  Symmetry is used only where the
checked formulas are symmetric and never with liveness.  Each run has the deadlock
check on unless the system may stop: the caches' processes end (`CHECK_DEADLOCK
FALSE`), the server's end is an explicit stutter.

## 9 The proofs

| Theorems | Module | From |
|---|---|---|
| `GateIsSound`, `SnapshotsTyped` | `WorkspaceSnapshotsProofs` | a mutation advances the revision (`MutationAdvances`), so the current revision belongs to the current state alone |
| `OverlaysHide`, `DependenciesAreUntouched` | `WorkspaceSnapshotsProofs` | a mutation changes one document (`MutationIsLocal`) |
| `ServerInvariant` and eight properties | `LspServerProofs` | `ServerInv` |
| `ShutdownStaysFinal` | `LspServerProofs` | `ServerInv`, `NoneWaits` |
| `ServerImplementsQueryService` | `LspServerProofs` | `ServerInv` |
| `CacheInvariant`, `CacheTyped`, `NothingLeftBehind`, `NoPartialEntry`, `CacheImplementsArtifactStore` | `IncrementalCacheProofs` | `CacheInv` |
| `AWinnerRemains` | `IncrementalCacheProofs` | `CacheInv`, `WinnerInv` |
| `RoundsAreLostToOthers` | `IncrementalCacheProofs` | `RoundsInv` |
| `SourceInvariant`, `SourcesTyped`, `NothingIsLeft`, `OnlyVerifiedAppears`, `DamageIsNeverCompiled` | `SourceCacheProofs` | `SourceInv` |
| `UndamagedInvariant`, `SourcesAreKept`, `OnlineBuildsSucceed` | `SourceCacheProofs` | `SourceInv`, `UndamagedInv` |
| `ASourceRemains` | `SourceCacheProofs` | `SourceInv`, `RefusalEnds`, `SourceKept` |
| `SolverInvariant`, `FailuresAreReal`, `SelectionsAreBest` | `RegistryProofs` | `SolverInv` |
| `BuildInvariant`, `BuildTypes`, `BuildWalksAreExact`, `LockedBuildsAreSound`, `UpdatedLocksAreAccepted` | `RegistryProofs` | `BuildInv` |
| `BuildsSearch`, `BuildsSelectTheBest`, `BuildsFailForReal` | `RegistryProofs` | `BuildInv`, `SolverInv` |
| `RootInvariant`, `RootTyped`, `OnlyItsOwnIsClaimed`, `OwnedRootIsOpened`, `NothingOfTheMarkerLeft` | `CacheRootProofs` | `RootInv` |
| `OwnershipInvariant`, `UsesAreSound`, `DropsAreExact` | `OwnershipProofs` | `OwnershipInv` |

The proofs assume only the named `ASSUME`s of the modules: constants have the
types the code gives them, and the special values (`Nothing`, `Absent`, …) differ
from the data.  The sets of processes, documents, texts, artifacts, providers, packages and
registries are arbitrary, and so are the limits; only the invocations of the artifact
cache are finitely many (`FiniteInvocations`), because their rounds are counted.
`BuildAssumption` says what is enumerated for builds: manifests are sets of
requirements, snapshots list releases, and lockfiles that others leave have the form
the parser gives every lockfile (`IsLockfile`) – their content is arbitrary.  The search
is proved correct for every problem (`SolverSpec` is handed any), and `BuildsSearch`
proves that what builds do to it, with its walks in between, is such a search.
`OwnershipAssumption` says what places are: locals share no leaf, every place is part
of a local, its leaves are places, and two places are nested or apart, as the fields
of values are.  Which places are tuples is arbitrary, and a tuple's key does not nest with
those of its fields; `KeysAssumption` says that the keys of a place cover it, which holds
of every finite set of leaves.  The limit of alternatives and the length of bodies are arbitrary.

**Why the invariants need strengthening.** `CompletedOnce` is not inductive: a
message might be handled twice.  `EventTickets` says that tickets in the channel are
increasing and newer than the last one handled.  `NoLostWakeup` needs
`RequestedIsCurrent` (every edit reschedules) and `WorkerDiscipline` (the newest
queued snapshot is the last one announced, and so is the one in the worker's hands when
it has drained the channel), which is exactly what coalescing relies on.  `Announced` is
the current revision, or the one before while an edit is still to be sent; `EditToSend`
says that no query waits then, which is why none is left without an analysis.  For the cache, a
hit reads metadata and payload apart: `ReadersBound` says that a damaged entry was
there from the start, so the metadata a reader has seen either still belong to it or
the entry is whole by now; `SiblingsOwned` says what each place of `publish` holds.
`SourceInv` has the same two parts, `TrustedOnceVerified` (once somebody has
verified a source, nothing damaged is at the address any more: only whole trees
appear, and damage that has gone does not come back) and `LimitKept`.
`UndamagedInv` adds that with one provider whatever is at the address is what
everybody looks for, so that nobody reaches the eviction, and a source that has been
met is still there.  `RootInv` says that only somebody who has opened the root, hence
one that carries the marker, ever fills it.

That something remains when all invocations have ended is a fact about each of them:
once the cache has been of use, an entry that is not at its path is with somebody who
has yet to publish (`WinnerKept`, `SourceKept`), so that it cannot be missing when
nobody has anything left to do.  `StagedKept` says that whoever is to publish still
has what it publishes.

That backtracking passes over no solution is an invariant about what is *not* on the
stack any more: every resolution that agrees with a frame's partial selection takes
one of the releases the frame has left, or the one its callee is trying (`Chain`,
which links each frame to the next).  A frame that is exhausted has therefore no
resolution that agrees with it, and the first frame agrees with all.  The same fact
gives the order: a release above the one selected has been tried, so no resolution
that agrees with the earlier decisions takes it.  That nothing spare is selected
needs that every selected package was required by what was selected before it.

`WalkInv` is what a depth-first search keeps, for both walks at once: what has been
visited depends on nothing else and has no cycle (`VisitedOK`: a package is finished
when everything it depends on is, so a cycle would have had one of its members on the
path when another was looked at, which is what `MeetCycle` sees), `path` is a chain of
dependencies without repetition (`PathOK`), and every closed set with the starting
points holds all of both (`ReachedIn`).  So a walk that completes has visited the least
closed set, and one that meets a package on its path has the rest of the path as its
cycle.  `BuildInv` adds what the walk, the search and the resolution of a build are *of*
(`WalkIsOf`, `SearchIsOf`, `LoadsLocked`, `ResolutionIsSound`): the digests, roots and
lockfile it has read, however often the files have changed since.  A lockfile that
matches (`LockMatches`) and whose walk is exact is a resolution; an update's lockfile
matches because it was made from one.

`RoundsInv` counts.  `Rounds` adds to the rounds an invocation has given up the one it
has lost already, whatever the others do (what it found is gone).  Such a round costs the
cache one of its `Chances` – entries at the path, or still to be published – or was
refused (`LostToEntries`); an invocation that has published has met no more than these
and the cleans (`RoundsBound`).  That damage does not come back once a path was seen
empty (`SettledPath`) is why a found entry can only go by somebody's progress.

That a body is read once, from left to right, and then runs in any way its loops allow
is the difficulty of the ownership proofs: the analysis has long forgotten what it held
where control comes back to.  The proof remembers it.  A body has an *annotation*
(`Annotates`): a note for each of its points, of whether it is reached, what surely
holds a value there and what has been declared.  Each part needs of its note what the
analysis has checked (`PartOK`, which excepts what `Unseen` does), and each edge brings at least what the note it leads to
says (`EdgesOK`).  While constructs are open some of their edges are missing; for those
the flows that their frames keep stand (`FrameOK`): the entry of a loop for the way back
to its beginning, `breaks` for the way past it, the flow of a then branch for the way
past the `if`.  Reading a part adds the note of the point behind it and the edges that
now have an end (`NewWays`, `NewLeads`), and each kind of step has a lemma that says
that the flow the analysis goes on with is weak enough for all of them: a join
with widening keeps everything that is missing in one of its flows (`JoinFlow`,
`NormalizeKeeps`), and `reject_loop_carried_moves` sees to it that a way back
brings what the entry held (`NotCarried`).  Only the `continue` in a `do`-`while`'s
condition has nothing that stands for it.  The flows are about keys and the notes about
leaves, which for a tuple are not the same.  `AllMoved` closes the gap: the analysis holds
a key to be missing only if the body has moved it, so what a place has lost without one of
its own keys missing lies in a moved key that overlaps it, one of `Unseen`.  `Followed` ties notes and execution: in a
body without open constructs every successor of a part is one its notes know of.

A settled plan needs no induction either: whatever states are unchanged by propagation
are closed under every edge (`PlanFollowed`), so the execution agrees with them from the
entry on (`PlanBegins`, `Agrees`).  The third part of `OwnershipInv` is about the
emitted code: the drop flags are places that hold a value as a whole, and no leaf that
holds one is without its flag (`FlagsFollow`, excepting what `ResumesCondition` and
`CompletesTuple` do), from which `DropsAreExact` follows.

The inductive invariants of the components were checked with TLC before they were
proved, but for `OwnershipInv`, which asks for an annotation and cannot be evaluated:
the two properties it gives were.

**Only model-checked.** Liveness and fairness (`EveryRequestCompletes`,
`DiagnosticsSettle`), which this prover does not reach.  Every other property of the
passing runs is a theorem.  What is not proved is that `MoveStates` exists, that is,
that the propagation ends, which is an induction over data: `Emit` requires that its
states are settled, and TLC computes them for every body it reads.

## 10 Disagreements found

Four runs are expected to be violated by what the code does.

1. `cache_first_wins`: `docs/project/incremental-cache.md:108` says the first valid
   publication wins; a writer with a stale verdict renames the valid winner away.
2. `sources_incomplete`: `docs/project/registry-source-contract.md:29` says verified
   roots are compiled as ordinary libraries.  Two builds whose snapshots select the
   same archive evict each other's source entry.  A build that looks for `src/`
   (`main.rs:1235`) in the gap between the eviction and the republication takes the
   package for one without modules and, since the root is back when it is read,
   compiles its root module alone.
3. `registry_highest`: `docs/project/dependency-resolution.md:56` says that an update
   yields the highest graph.  The snapshot of a registry that only a dependency names
   is loaded when its absence is the error the whole search ends with
   (`registry_project.rs:88`).  If a lower release of the depending package resolves
   without it, the search succeeds first, and the higher one is passed over although
   its registry is configured.
4. `ownership_tuples`: `docs/language/specification.md:538` says "Lexical scope exit drops
   each still-initialized owned value exactly once".  In `do { let mut t = (a, b);
   consume(t.0); t.1 = c }` the move marks the key of `t.0`, the assignment asks whether
   `t` is complete by its only key (`places.rs:461`), which is not marked, and so sets the
   flags of the whole tuple (`emitter.rs:1381`).  The end of the block drops `t.0` a second
   time.  The plan verifies: the assignment overwrites what is there.

Further observations, which the models contain and no run is spent on:

* `docs/project/lsp-transport.md:69` says every accepted revision is analysed, but the
  worker skips those that are overtaken (as `docs/project/lsp-diagnostics.md:58` says).
* `docs/project/incremental-cache.md:145` says that a missing namespace is cleaned
  successfully; of two concurrent cleans that have both seen it, the later one fails.
* `docs/project/registry-source-contract.md:154` says `--frozen` succeeds only with
  valid archive bytes; a valid source entry is used without looking at the archive.
* After a panic of the worker every later query waits for ever (`lsp.rs:145`).
* `publish_verified_archive` may move a valid archive aside that another build has
  published between its two looks (`registry_cache.rs:799` and `:802`), so a frozen
  build may fail beside an updating one although nothing was damaged.
* An assignment is classified by the flow on the first pass through a loop.
  `reject_loop_carried_moves` lets a back edge through on which everything is
  initialised, also when the entry had it moved; so in `consume(x); loop { x = make() }`
  the assignment is said to initialise, the plan's move states say it may overwrite, and
  verification (`cleanup.rs`) refuses a legal program with an internal error.  TLC
  finds this in four parts when asked whether accepted bodies verify.
* A `continue` in the condition of a `do`-`while` leads to the condition, which
  `lower_while` has begun to read without that flow (`ResumesCondition`).  The analysis
  alone then accepts a condition that moves a value in each of its rounds.  Verification
  refuses moves of what is gone, but not uses, which the plan does not have: in
  `move left; do { left = new; if c { move right } } while { use left; pair = new;
  move left; continue }`, of twelve parts, the entry of the loop has `left` moved, so
  that the way back is not said to carry a move, the plan verifies, and the second
  round of the condition uses what the first has moved.  TLC finds it in a larger
  instance than `ownership`, which excepts such bodies from `UsesAreInitialized` and
  `DroppedExactlyOnce`.
* The analysis accepts a use of a tuple after one of its fields has been moved, and of a
  field after the tuple has been moved, although `docs/language/specification.md:530`
  says that "A moved binding cannot be read, moved, or borrowed again" and the aggregate
  "cannot be used as a whole until reinitialized"; it compares keys, and neither has the
  other's.  Verification refuses such *moves* with an internal error, but sees no uses;
  `UsesAreInitialized` excepts them (`Unseen`).
* The drop flags that `cleanup.rs` computes (`DropFlagAnalysis`) are used by nobody: the
  emitter keeps flags of its own for each slot, which are the ones modelled.

## 11 What is not modelled

Parsing, formatting, module and type checking, compile-time evaluation, effect and
async lowering and code generation are pure functions of one program and make up
most of the code; their models would be the
language definition, and a small instance of one would say little about it.  Of the
parts that are modelled, the following is left out: the archive format and the text
of lockfile, manifests and snapshots; the entries of local packages in a lockfile;
the private file of `publish_blob`; in ownership, loans, matches, closures,
temporaries, enum discriminants and tuples of one field.
`PROJECT.json` lists every component with its status and reason, and every
hazard with the properties that watch it, or the reason why none does.

## 12 Plan

Done: session and snapshots → server → its properties, refinement and proofs →
artifact cache and proofs → cache root and proofs → source cache and proofs →
resolution and proofs → update, locked and frozen builds, and proofs → ownership, plan
verification, drop flags and execution, and proofs.

Next, in this order:

1. `OwnershipFlow` with matches over an enum of two variants (a join of more than two
   flows, payloads that may be moved) and with loans: shared and exclusive borrows that
   end at the last use or at their scope.
2. `OwnershipRuns` with temporaries and the discriminants of `cleanup.rs`; the planner's
   scopes as a structure of its own rather than the body's.
3. `RegistryBuilds` with the entries of local packages, and with two builds at once.
4. The library's vector (growth, removal while it is iterated over) and the async
   executor's queue.

Bounds for these: one enum with two variants and one payload each; two loans; two
builds; three tasks.
