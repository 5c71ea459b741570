# A verification development of packwright-mcp

packwright-mcp is a stdio MCP server and a CLI that author, review, commit and
build Minecraft datapacks and resource packs. This directory holds TLA+ models
of the parts whose correctness depends on the order of steps, the TLC
configurations that check them, and proofs checked by TLAPS. Every definition is
translated from the source; `PROJECT.json` names the lines it stands for.
Paths below are relative to the repository.

## 1. The system

| Component | State it keeps | Operations | Hard because |
|---|---|---|---|
| In-process path locks (`src/core/locks.ts`) | the map `pathLocks` from a path to the last promise queued on it | `withPathLock`, `withPathLocks` | calls queue, overlap and delete the map entry in any order |
| File transaction (`src/visual/transaction.ts`) | `.stage` and `.backup` files and a journal in `.packwright/transactions`; in memory, the identities of the files it made | `commitFileTransaction`, `rollback` | other programs write, calls fail, the process dies between any two file-system calls |
| Guarded single-file writes (`src/core/files.ts`, `authoring.ts`, `build.ts`, `src/visual/project.ts`) | hidden `.tmp`, backup and quarantine files | `upsertResource`, `deleteResource`, `attachVisualProject`, `buildDatapack`, `createDatapack` | the lock holds in one process only; hash preconditions are checked before and after the rename |
| Process runner (`src/runtime/process.ts`) | one subprocess, two kinds of timers | `runProcess` | abort, deadline, exit and the force-kill timer race |
| Visual workflow (`src/visual/workflow.ts`) | per-operation memory; receipts in the workspace | attach, upsert spec, import texture, compile, connect, render, capture, revise, commit, inspect | evidence must stay bound to what was compiled, proposed and reviewed while files change |
| Workflow state store (`src/visual/workflow-state.ts`) | one JSON file per project in the cache | `read`, `update` | `update` is a read and a later rename without a lock between processes |
| Run store (`src/visual/run-store.ts`) | content-addressed runs, revisions, artifacts | `createRun`, `createRevision`, `put*` | publication by rename, concurrent identical writers |
| Service (`src/service.ts`) and MCP surface (`src/mcp`) | none of their own | dispatch, `buildProject` | `buildProject` checks, scans, rescans and installs two archives |
| Runtime cache and setup (`src/minecraft/cache.ts`, `client-runtime*.ts`) | downloaded and verified runtimes | prepare, verify, reuse | partial downloads, several processes, verdicts that are remembered |
| Client capture (`src/minecraft/client-capture*.ts`) and the capture mod (`src/capture-mod`) | a staged game directory; a tick-driven coordinator | plan, launch, capture, collect | timeouts, reloads and disconnects in every phase, two languages and a file protocol |
| Language-server validation (`src/validation/spyglass.ts`) | one server process per validation, pending requests, a write queue | validate | cancellation, timeouts and the server's exit against late answers |
| Workspace, stable reads, scans (`src/core/workspace.ts`, `stable-file.ts`, `scanner.ts`) | snapshots in memory | resolve, read, scan, recheck | files change under a read |
| Compiler, asset graph, renderer, review profiles, validation, version data | none | pure functions | size, not order |

How they interact: an MCP tool calls the service, which calls the core authoring
functions or the visual workflow. Every mutation of a project takes the
project's path lock; a commit and a project build then take the locks of the
files they write and run a file transaction. The workflow keeps its large data
in the run store, its pointers in the workflow state store, and the proof of a
commit (the receipt) in the workspace, installed as the last file of the
commit's own transaction. Capture, command validation and game tests start
subprocesses through the process runner.

What makes each correct is stated as the properties below; `PROJECT.json`
"hazards" lists what can go wrong, at its line, with the properties that would
catch it.

## 2. Modules

| Module | Models | Runs |
|---|---|---|
| `PathLocks`, `MCPathLocks` | `src/core/locks.ts` | `PathLocks` |
| `PathLocksProofs` | theorems about `PathLocks` | |
| `FileTransaction` | `src/visual/transaction.ts` | `FileTransaction` |
| `AtomicReplacement` | what a file transaction promises | (property `AllOrNothing`) |
| `FileTransactionProofs` | theorems about `FileTransaction`, the refinement included | |
| `ProcessRunner` | `src/runtime/process.ts` | `ProcessRunner`, `ProcessRunnerGroup` |
| `ProcessRunnerProofs` | theorems about `ProcessRunner` | |
| `ResourceFile`, `MCResourceFile` | the guarded single-file writes | `ResourceFile` |
| `ResourceFileProofs` | theorems about `ResourceFile` | |
| `VisualCommit`, `MCVisualCommit` | one revision in `workflow.ts` and `workflow-state.ts`, `buildProject` of `service.ts` | `VisualCommit`, `VisualCommitPair`, `VisualCommitDrift` |
| `VisualCommitProofs` | theorems about `VisualCommit` | |
| `ImmutableStore` | what the run store promises | (property `Publishes`) |
| `RunStore` | `src/visual/run-store.ts` | (part of `RevisionHistory`) |
| `RevisionHistory`, `MCRevisionHistory` | many revisions in `workflow.ts` and `workflow-state.ts`, over `RunStore` | `RevisionHistory` |
| `RevisionHistoryProofs` | theorems about `RunStore` and `RevisionHistory`, the refinement of `ImmutableStore` included | |
| `ClientRuntime` | which artifacts make up the client runtime (`client-runtime.ts`, `client-runtime-setup.ts`) | (part of `RuntimeCache`) |
| `RuntimeCache`, `MCRuntimeCache` | `src/minecraft/cache.ts` and the setup of the client runtime | `RuntimeCache` |
| `RuntimeCacheProofs` | theorems about `RuntimeCache` | |
| `ClientCapturePlan` | `src/visual/client-capture-plan.ts` | (part of `ClientCapture`) |
| `ClientCaptureProtocol` | the schemas of plans in `src/minecraft/client-capture-protocol.ts` | (part of `ClientCapture`) |
| `ClientCaptureReport` | the schemas of reports there, and the evidence made of them | (part of `ClientCapture`) |
| `ClientCapture`, `MCClientCapture` | one capture call: `workflow.ts`, `client-capture.ts`, and the coordinator and fixtures of `src/capture-mod` | `ClientCapture`, `CaptureRederived` |
| `ClientCaptureInvariants` | the inductive invariants and the terms that the proofs about `ClientCapture` are written in | |
| `ClientCaptureProofs` | theorems about `ClientCapture` | |

**PathLocks.** A promise is the set of the calls that must release before it
resolves, so `previous.then(() => current)` is `previous \cup {call}` and the
absent map entry is `{}`. `Ask` is the synchronous part of `withPathLock`,
`Grant` the continuation after `await previous`, `Release` one `finally` block.

**FileTransaction.** A file is named by who made it, which is what the code's
device/inode comparison tells apart; an in-place edit is one more bit. `pc` is
the next file-system call and `k` the item it is for. `Throw` is any failure or
abort before `commitComplete`, `TornWrite` a write that fails after creating
its file, `ParentChanged` a directory swapped under the transaction, `Crash` the
death of the process. `AtomicReplacement` is the promise to the caller, for the
destinations nobody else writes: the old files are kept until everything new is
installed; an ordinary error changes nothing; success installs everything.

**ProcessRunner.** One leader and one helper of its process group; what they do
with SIGTERM is chosen at the start and the rest is interleaving. `Start` is
everything up to the deadline's timer in one step: nothing between the first look at
the signal (line 57) and the second (line 113) gives way to other code, so no abort
can come in between and the second look is not modelled. `LeaderIsDoomed` is about the
two kills that abort and deadline make of one call: the second overwrites the handle
of the first's force-kill timer, and still a leader that is alive has a SIGKILL
coming. The call has a `timeoutMs`; without one nothing forces it to settle.

**ResourceFile.** A file is its content, because the preconditions are SHA-256
hashes. All calls name one path, each in a process (`Home`); calls of one process
exclude each other, as PathLocks shows, and those of two processes do not.
`Decision` is what a call makes of the file it finds, for each of the four kinds.
`Fail` lets any file-system call fail, with the catch block the code has there.

**VisualCommit.** `state` is the revision's record in the state file, `receipts`
and `journals` the files in the workspace, `packs` and `dest` what is edited.
`job[p]` is the operation process `p` is in. Each step is one await at which
something else can happen: `Load`/`Reconcile` (`loadRevision`), `Fetch`/`Save`
(`update`), `Prepare`/`Compiled` (`ensureCompiled`), and so on to `Install`. The
file transaction is one step here with the outcomes that `FileTransaction`
shows: installed, untouched, or broken off with a journal (`InstallBreaks`).
Any thrown error is "refused", `transaction_recovery_required` included. A
client capture is taken to be required by the configuration, which is the
stricter of the two cases the code has.

**RunStore and RevisionHistory.** An entry of the store is named by what its
hash stands for: a revision by the sequence of what led to it, a compiled
artifact by its specification and texture. An entry is written in parts
(`WritePart`) to a temporary name, and published by one rename or link; a
writer that finds the name taken reads what is there and compares: of a directory
the content only (`CompareDirectory`), where a reader compares the manifest too
(`VerifyDirectory`). `visible[e]` is what a reader finds at a name; `Tamper` alters
the content or the manifest. `RevisionHistory` runs the
operations of the workflow over it: each looks up its revision, reads and writes entries in
the order of the code (`Leave` is where it is through with them, or gives up),
and then updates the state file, which several processes replace. Any call may fail
and a process may die between any two steps. What one revision
does after its compilation is in `VisualCommit`.

**ClientRuntime and RuntimeCache.** `ClientRuntime` has the rules, classifiers and
natives of the version metadata as operators: `Artifacts(platform)` is what the
manifest of a platform lists. A classifier is what the code reads of it: a system, an
architecture, or that it is one of `natives-linux`, `natives-macos` and
`natives-windows`, which are for x86_64; any other that tells no architecture
(`natives-macos-patch`) is listed on all of them (`ArchitectureOf`). `RuntimeCache` runs setups and status calls of
several processes over one cache. A file has an inode and a version, as the
identity that the verdict cache compares has them; `Lstat`, `Open` and `Close`
are the looks that `verifyCachedArtifact` takes, between which others may
change the file. `Fetch` is a verified download renamed into place; the pool
of `runPool` is `Take`, `Work`, `WorkFails` and `PoolEnds`, where
workers go on after another failed. `Stop` is the death of a setup.

**ClientCapture.** `ClientCapturePlan` makes the scenes of a request as
the planner does, as a set of records; scenes are told apart by what they
show (subject, pose, hands, environment, camera by name) and by what binds
them to each other (comparisons, controls, authority). `ClientCaptureProtocol`
is the parser's view of the same plan, written from the schemas, and
`ClientCaptureReport` the report, the evidence and the measurements.
`ClientCapture` composes them with three actors. The host goes through the call (`pc`
is its next await) from the probes of Java and the session over the plan,
staging and launch to the verification of the output, the stored evidence and
the recorded state. The coordinator of the mod (`client`) loads the world,
prepares one scene after another, waits for what the server has staged, counts
ticks and frames, takes the photograph and writes the report and the
sentinel. `world` is what the integrated server has set up and what of it the client has
received: packets may be late. `views[i].differs` says in what the client's
world differed from the plan when photograph `i` was taken, which the code
cannot see and the properties can. The hands are set on the client at once and
taken as local, so that they are right by construction: what the server writes to
hands, head, chest and slot 0 besides (`CaptureCoordinator.java:1459`, `1517`,
`SceneFixtureExecutor.java:240`, `449`), which may come late like the rest, is not
modelled. What `EvidenceShowsThePlan` says of the environment, the subject
and what is around it does not rest on this. The order in which the scenes of a plan are
taken is a parameter (`InOrder`): the model knows the scenes of a plan as a set,
and no property depends on which of them comes first.

## 3. What the runs check

* `PathLocks`: type invariant; mutual exclusion per path; a call waits only for
  paths that sort after what it holds; the map forgets no waiting call and keeps
  no dead entry; every call returns.
* `FileTransaction`: type invariant; whatever has been changed is in a whole
  journal until success (`ChangesAreJournalled`); an ordinary error means
  undone; success means installed; the last name of an original goes only after
  all destinations are installed; no work of other programs is destroyed;
  the refinement `AllOrNothing`.
* `ProcessRunner`: type invariant; no abort is missed; the call settles; a
  cancelled or timed-out group is terminated, with helpers that obey SIGTERM.
* `ResourceFile`: type invariant; at most one of the calls that expect a version
  replaces it (`OneWinner`); a refused call leaves the file in place
  (`NeverMissing`); no content is destroyed that the caller did not name
  (`NothingLost`).
* `VisualCommit` (one process): type invariant; a receipt binds a passing capture
  of its own proposal and a ready render (`InstalledIsReviewed`); the record
  belongs together (`RecordCoheres`); a retry confirms (`RetryConfirms`).
* `VisualCommitPair` (two processes that overwrite each other's state): one
  receipt for a proposal (`OneReceiptEach`) and success reports what was accepted
  (`SuccessIsWhatWasAccepted`).
* `RevisionHistory`: type invariant, which says that no call of the store outlives its
  operation; the state names only entries that are whole, with all their
  ancestors and artifacts (`IndexedIsPublished`); textures are inherited along
  the lineage and by nothing else (`TexturesAreCurrent`); success never rests on
  what was altered in an entry that was read, or in the content of one that was put
  (`NothingFromAltered`; what is put again over an altered manifest succeeds, as in the
  code, and is refused when it is loaded); the store implements
  `ImmutableStore` (`Publishes`).
* `RuntimeCache`: type invariant, which says that no download goes on outside
  the pool; a remembered verdict that would be used is right
  (`RememberedVerdictsAreRight`); what is recorded was prepared and verified
  (`RecordIsBacked`); an undisturbed setup leaves everything ready and keeps what
  was recorded before (`SuccessMeansReady`); the libraries of a manifest
  agree in the system and the architecture that their classifiers tell, whichever
  setup wrote it over another's (`OneNativeArchitecture`).
* `ClientCapture`: the protocol accepts every plan that the planner makes
  (`PlansAreAccepted`); a recorded capture is of every planned scene, and no
  photograph shows the environment or the subject of an earlier scene
  (`EvidenceShowsThePlan`); what a call recorded is verified by what the workflow
  makes of it again, and a complete report of an undisturbed call is recorded and
  judged as planned (`RecordedIsVerified` and `CompleteIsRecorded`, together
  `UndisturbedEvidenceVerifies`); every call ends (`EveryCaptureEnds`).

Three runs show where the code and its documentation part:

* `ProcessRunnerGroup`: a leader that exits with a code on SIGTERM shields a
  helper that ignores it from SIGKILL (`src/runtime/process.ts:94`, comment at 48).
* `VisualCommitDrift`: after a commit an edited output locks the revision out of
  the remedy the documentation names (`src/visual/workflow.ts:1362`,
  `docs/troubleshooting.md:148`).
* `CaptureRederived`: a placeable without an interaction, captured with
  `includeDebugHitboxViews`, is planned without such views but with a control
  that only they bring; the verification takes the option from the views, makes
  another plan and calls the stored one stale, after the session and for ever
  (`src/visual/workflow.ts:1966`, `src/visual/client-capture-plan.ts:1258` and
  `1294`, `docs/mcp-reference.md:120`).

Two narrower observations are in the models without a run of their own: a torn
journal write leaves a partial journal behind an ordinary error
(`TornWrite`, `src/visual/transaction.ts:516`), and a project build is of what
is scanned after the readiness check, whatever was edited in between
(`src/service.ts:1203`). `PlansAreAccepted` and `UndisturbedEvidenceVerifies`
name their exceptions: a state's name that is too long in the id of a scene
(refused after the preflight), one that ends in an underscore (the label of its
blob is refused after the session) or in a dash (recorded, and never
verified: `src/visual/workflow.ts:379` against the replacement at 3184).

### Bounds

* `PathLocks`: three calls over three paths, one of which all three want: a
  cycle of waiting calls could close, and a map entry is deleted by one call while
  a second is in its critical section and a third arrives.
* `FileTransaction`: `N = 4`, replacements and creations each with and without a
  concurrent writer. The loops have no memory beyond the item before, and the
  theorems hold for every `N`.
* `ProcessRunner`: no bound is needed, the timers and processes are finite.
* `ResourceFile`: three calls, two in one process, and another program; two
  calls race for one version, the third follows on what either or the other
  program left. The theorems hold for any number.
* `VisualCommit`: `Edits = 2` (an edit that leaves the compiled artifact as it is
  and one that changes it), `MaxReceipts = 2` (a second proposal after a first
  commit), `MaxJournals = 1`. The pair run has `Edits = 0` and no journal: its
  question is the lost update, which needs the state file, two captures and
  two commits but no edit of the packs. `Reports` has two passing reports, so
  that the accepted one and another one differ, and in the solo runs a failing one.
* `RevisionHistory`: revisions of at most two steps (`MaxLength = 2`: a
  specification and one import or repair, so that a revision has a parent, a
  texture that is inherited and one that is not), three operations of one process and one
  import of another (`MaxCalls`), which is enough for a repeated upsert or
  repair of what has a life already, for two writers of one entry and for a lost
  update; one alteration (`MaxAlterations = 1`), of the content or of the manifest of the
  revision that everything else builds on.
* `RuntimeCache`: a setup at the level that prepares everything and one that
  prepares less, on two architectures of one system; five libraries: natives of another system,
  of either architecture and of any, and one that a rule excludes; two workers in the pool (the
  code has more, and a worker only ever meets one failed other); one change by
  others, of a file that all levels use; two status calls, so that a verdict is
  remembered.
* `ClientCapture`: 26 requests, at least one for each profile, strategy and
  option of the planner, with two states where it makes scenes of them; one late,
  faulty or edited thing per call (`MaxEvents = 1`), besides cancellation, timeouts,
  failures of the mod and the death of the client, which are not bounded.

`CHECK_DEADLOCK FALSE` stands where the modelled activity ends: all calls
returned, the transaction over, the subprocess settled, the operations and setups that
`MaxCalls` and `MaxRuns` allow done, the capture ended.

### Fairness

Safety runs assume none. `PathLocks` assumes that a started call keeps being
scheduled: promise continuations always run, and every task in the repository
settles. `ProcessRunner` assumes that armed timers fire, signals are delivered
and Node reports an exit; nobody has to abort and no process has to finish by
itself. The force-kill timers are unreferenced, but the open pipes of the child
keep the event loop alive while the call is pending. `ClientCapture` assumes
that the host goes on (`HostStep`) and that the process runner settles
at its timeout or on an abort (`RunnerStep`). `ProcessRunner` shows this as long as no
helper of the client outlives it with the output pipes open: one that ignores SIGTERM,
beside a client that exits with a code, keeps the call pending (`ProcessRunnerGroup`),
and `EveryCaptureEnds` does not cover that. Nothing is assumed of the mod, the
integrated server or Minecraft itself.

## 4. What is proved

TLAPS proves the following for every value of the constants, from the
assumptions named in each module.

* `PathLocksProofs` (an injective order of the paths, `RankAssumption`):
  `TypeCorrect`, `Excludes`, `NoCircularWait`, `MapIsExact`. Mutual exclusion
  is not inductive: it rests on the promise chain. The invariant `IInv` says that
  the promises on a path grow by one call at a time, so that of two calls that
  asked for it one is in the other's `previous`, and that the map's promise
  contains every call that has not released.
* `FileTransactionProofs` (`N` positive): `TypeCorrect`, `JournalledAlways`,
  `ErrorIsUndone`, `SuccessIsInstalled`, `OriginalsOutlive`, `ForeignWorkIsKept`
  and `Refinement`. `IInv` says for each step of the program which items lie behind it and
  what that means for their destination, backup and stage: in installation the
  items before `k` are installed, in rollback those after `k` are undone or
  `failed` is set. The refinement maps the steps onto `AtomicReplacement` and
  needs one destination nobody else writes (`Untouched # {}`).
* `ResourceFileProofs` (`RequestsAssumption`, the shape of a request):
  `TypeCorrect`, `NoLostUpdate`, `RefusalRestores`, `NoContentLost`. The key is
  `ClaimInv`: a version that nobody writes again is either at the path or in the
  hands of exactly one call, because `rename` takes it from the path. `HeldInv`
  says that past its check a call holds what its caller expects; `GapInv` names the
  steps at which the path may be missing.
* `VisualCommitProofs` (`MayAssumption`, `BoundsAssumption`, `ArtsAssumption`,
  `NoneAssumption`): `TypeCorrect`, `OnlyReviewedIsInstalled`, `InstalledOnce`,
  `SuccessIsAccepted`, for any number of processes that run any operations and
  overwrite each other's state file. Nothing in `IInv` is about the state file,
  because any process may have replaced it; it says what a commit carries in its
  own memory: past `accept` a passing capture of the proposal it names, past
  `recheck` a ready render, at `committed` a receipt that exists. Every action is
  shown to be a `Turn`: it moves one job, keeps the receipts there are, and
  reports success of a commit only from `committed`. `RecordBelongsTogether` and
  `RetryIsConfirmed` are about the state file, for processes that take turns
  (`alone`: none starts while another is at work). They rest on a second
  invariant, `AloneInv`: at most one process is active, and what it holds in
  memory at each of its awaits is what the record says (`LoneInv`). The retry
  needs in addition that a receipt found by `Reconcile` is the one of the state's own
  proposal and capture, and that a confirmed retry writes nothing new.
* `ProcessRunnerProofs` (which reactions leader and helper may have):
  `TypeCorrect` and `AskedMeansDoomed`. The lemma `KillArms` shows that `kill` leaves a
  timer armed whenever the leader is alive; `EndsInv`, that a leader whose end Node has
  seen is not alive, is what makes `Close` safe and a spent timer harmless.
* `RevisionHistoryProofs` (`AllEntriesAssumption`: the store may hold any entry
  an operation can make; names, `None` and `NoEntry` are told apart):
  `TypeCorrect`, `IndexedIsWhole`, `TexturesCurrent`, `SuccessUsesNothingAltered`
  and `StoreIsImmutable`. What an operation relies on (`Relying`) is every part of an
  entry that it reads and the content of one that it puts. `StoreInv` says that an entry is absent or whole at its
  name, that what a writer has staged is of its own entry, and that of the
  writers of one entry at most one has linked it and still changes its mode; a
  name is therefore never published twice, and no step of a reader or writer
  changes what is published. `StoreIsImmutable` maps the steps onto
  `ImmutableStore` one by one: only `LinkFile` and `RenameDirectory` publish, only
  `Tamper` alters, everything else stutters. The invariant of the operations says
  what each holds between its awaits: the entries that it has put are whole, and
  their ancestors and artifacts before them.
* `RuntimeCacheProofs` (readers are no setups, values told apart):
  `TypeCorrect`, `VerdictsAreRight`, `RecordBacked`, `SuccessIsReady`, for any
  number of setups, readers, platforms, workers and edits. A version of a file never
  comes back, so what was true of an identity stays true of it (`Told`,
  `VerdictInv`); a verification that looks at a file before and after its read (`HashInv`)
  learns something of one identity only. `DoneInv` names for each step of a setup what is
  verified and recorded as long as nobody disturbs it, `RecordInv` and
  `PreparedInv` what stays even then. `OneArchitecture` needs of the steps only that
  the manifest is the one of some setup's platform (`ManifestInv`); the rest is about
  `ClassifierMatches`. It rests on one assumption on the version metadata,
  `PathsAssumption`: what is published under the path of a classified library is that
  library. The metadata are external and pinned by hash, and TLC evaluates the
  assumption on the libraries of the run. Nothing is assumed of the classifiers: what
  tells no architecture is on every class path, in the model as in the code.
* `ClientCaptureProofs` (`OrderAssumption`: a plan has each of its scenes once, in
  any order; `FieldsAssumption`: the fields of a request, as the schemas of its
  parts bound them; `NoValueAssumption`: `NoValue` is none of the values it is told
  from): `EvidenceIsOfThePlan`, `UndisturbedVerifies` and `PlansAccepted`, for any
  requests and any number of late packets, edits and faults. `CallInv` ties the place of the host to the process: what it
  keeps comes from a process that ended by itself after a complete report.
  `SceneInv` ties the coordinator to its photographs: the number of views is the number
  of scenes behind it, the hands are those of the scene from the moment it is prepared,
  and the frame that counts last shows what the plan wants (`ShotShows`). The
  subject of a scene that is neither in the hands nor spawned is read back at the origin; where scenes
  spawn their subject or have an entity for their target the origin is never set at all
  (`OriginIsClear`), which follows from what the protocol accepts as the
  strategy of a representation.

  `UndisturbedVerifies` proves both halves of `UndisturbedEvidenceVerifies`. The
  first (`RecordedEvidenceVerifies`) needs of the planner, for every request it does not refuse, that the scenes show the options
  again: requests that differ in the settled ticks only are lowered from the same
  descriptions (`Lowers`, which `RequestPlannable` gives), whose kinds the options decide,
  and every required scene settles as asked for (`OptionsShow`). So the plan made again is the
  stored one (`Replanned`), and what is left to refuse it are the exceptions
  that the property names. The second (`CompleteIsRecorded`) needs that the verifier
  accepts the report which the mod writes of an accepted plan (`ReportIsFit`).
  `CountInv` says of each view how many ticks it settled and how many frames it
  waited for, which is what the verifier recounts from the scene; that a scene
  of the plan is for the target its fixture is put up for, and animated only in
  the hands (`Aimed`, `Fit`), makes what the mod reads back agree with what the
  verifier expects; `UnreadyIsCritical` says that only a critical measurement of an
  authoritative scene makes the verdict a failure. `CalmInv` says that as long as no
  event has happened the host holds what is on the disk.

  `PlansAccepted` is about two large computations, the planner and the schema of the
  plan, and about no step: it holds of every request that is not refused,
  whatever it declares, in both directions (a plan is refused if and only if the name of a state
  is too long in the id of a scene). The planner describes scenes, lowers them and adds
  measurement controls. `LaidAccepted` says once what descriptions must be like for
  the result to be accepted: each can be shown and is linked (`Drawn`, `Linked`), ids
  tell them apart (`Keyed`), anchors and controlled scenes are there
  (`Supported`), aids have a twin that shows the same (`Twin`), and they are at most
  64 with their controls. `ItemsPlannable`, `BlocksPlannable`, `HeadwearPlannable`,
  `EntitiesPlannable` and `PlaceablesPlannable` show that the descriptions
  of every target are so, group by group: the scenes of a group are ready, told apart
  by their base, and no more than the schema of the request allows (at most 32
  states, 4 biomes, 8 ticks, 3 counts). That 64 scenes suffice for 32 states and every
  option at once is part of the result. The headwear has in addition all the evidence that its
  schema asks for. A request is taken as its own schema parses it; the bounds that the
  proof turned out to need (poses, attachments, ticks, biomes, counts)
  are those of the declaration schemas and are part of `RepresentationAccepted`
  and `FieldsAssumption`.

Each proof shows `Init => IInv`, `IInv /\ [Next]_vars => IInv'` with one step
per action, and `IInv => Inv`. The inductive invariants hold under TLC on the small
instances too.

The proofs found two places where a model said too much. `SuccessMeansReady` was
false for two setups that prepare the capture runtime on different platforms: the
second one rewrites the manifest that the first has just written
(`WriteManifest`), which is now a disturbance like any other change of a file.
And some definitions had `CASE` arms that overlapped, where TLC takes the first and the
logic takes any; they are chains of `IF` now, in the order of the code.

Only model-checked:

* liveness (`EveryCallReturns`, `AlwaysSettles`, `GroupTerminated`,
  `EveryCaptureEnds`), which the prover cannot treat under fairness;
* the three runs that show a violation.

`ENABLED`, induction over data and recursive operators also stay with TLC.

## 5. What is not modelled

* Symbolic links and path resolution (`src/core/workspace.ts`): every name is
  taken to resolve to itself; a directory swapped under a file transaction is.
* File modes, `fsync` and what a power failure does to data not yet on disk: a
  crash loses memory and nothing else.
* Pure functions (compiler, renderer, asset graph, validation, schemas of tool
  arguments): an artifact is a value named by its content. Of the capture
  planner and protocol, which are modelled, the numbers are left out: cameras,
  transforms, pixel masks, sizes and the arithmetic of measurements.
* `createDatapack`, which claims a new directory; the language-server client of
  `src/validation/spyglass.ts`; the staging of a private game directory; command
  validation and game tests, which are calls of the process runner.
* The conversion of state files of older versions.
* Formatting, diffs, diagnostics and the MCP surface.

## 6. Plan

Done, in this order: `PathLocks`, `FileTransaction` over `AtomicReplacement`,
`ProcessRunner`, `VisualCommit` and `ResourceFile`; `RunStore` over
`ImmutableStore` and `RevisionHistory`; `ClientRuntime` and `RuntimeCache`;
`ClientCapture` with its planner and protocol. Every safety property, action
property and refinement that a passing run checks is proved.

To model next: `PackCreation` (`createDatapack` claims a directory by `mkdir`,
writes `pack.mcmeta` last and removes only what it made), the language-server
client (pending requests, timers and the write queue against the server's
exit), and the stable file read and the scan snapshot, which the models take as one step.
