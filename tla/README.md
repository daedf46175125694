# SciGuard Autopilot in TLA+

SciGuard watches a scientific data catalog (DataHub), confirms an incident, places controls
on the affected assets, proposes a repair, and lets the assets resume only after the repair
was published, verified, approved, applied and verified again. This directory specifies the
parts of the program where the order of steps matters: TLA+ modules translated from the
source, TLC configurations that check them on small instances, and TLAPS proofs.

Paths below are relative to `src/`. `PROJECT.json` maps every definition to the lines it
models.

## 1. The system

One FastAPI process (`api/main.py`) serves all clients. `POST /api/runs` spawns a thread that
executes `SciGuardRuntime.run_live`; every other endpoint is a synchronous handler that
FastAPI runs on a pool of worker threads. What they share is the run store on disk, the
DataHub catalog, the Git repository of the repair, and the staging directory. The only lock
in the program is `RunStore._lock`, and it spans single operations of the store, never a
handler.

| Component | State it keeps | Operations | Talks to | What is hard |
|---|---|---|---|---|
| Run store (`api/run_store.py`) | one directory per incident: `events.jsonl`, `manifest.json` with digest and count; `_active_incident` in memory | `start_run`, `append_event`, `finish_run`, `fail_run`, `update_state`, `delete_run`, reads | the file system | crash or failed write between two files; unlocked `get_manifest`; restart adopts a RUNNING manifest; racing recorders |
| Event recorder (`core/events.py`) | the list it loaded, so its next sequence number | `emit`, `load_events`, `validate_event_stream` | `append_event` as callback | the list is stale when another recorder appended |
| Live run (`api/main.py:173`, `api/runtime.py:429`) | the state machine and the plan, in memory | `run_live`, then `finish_run` or `fail_run` | store, DataHub, MCP | any of its calls may raise; the effects it had stay in DataHub, and the run must still end |
| Event stream, SSE (`api/main.py:279`) | cursor | poll manifest, poll events, yield, return | store, client | two reads that do not belong together; reconnection |
| Repair handlers (`api/runtime.py:235-420`) | none: the latest bundle is read back from the stream | publish, verify, approve, apply | Git or GitHub, pytest, staging directory, Decision Log, store | check-then-act over external systems without a lock; abandoned handlers; two commits |
| Recovery (`api/runtime.py:784`, `core/recovery.py`) | history, state and policy as properties of the control asset in DataHub | re-verify, evaluate, release the assets, report | verifier, DataHub, native Incident, store | read-modify-write of the history; one recorder for the whole handler; requests after the resolution |
| Catalog enforcement (`core/enforcement.py`) | tags and properties of the controlled assets and native ML projections | `enforce`, `mirror_native_projection_state` | DataHub | several non-atomic writes per asset; two incidents on one asset |
| Reset (`core/reset.py`) | - | `reset_incident_metadata` | DataHub, then `delete_run` | failure half way and retry |
| Incident and Decision Log writer (`datahub_client/incident_writer.py`) | native entities | raise, note, update status, write log | DataHub | written before the event that announces it |
| Pipeline controller (`core/pipeline_controller.py`) | none: reads the persisted controls | `publish`, `execute` | DataHub | obeys whatever a half-finished writer left |
| GitHub provider and verification (`core/github_*.py`) | none of their own; remote branch, pull request, Check Runs | `publish`, `verify` | GitHub | POSTs with an unclear outcome; retries; people, the base branch and CI move between any two requests |
| Local provider (`core/change_provider.py`) | none; branches, HEAD and working tree of a shared repository | `publish` | Git | a command fails and the rollback runs; two incidents share the tree |
| Application (`core/application.py`) | release directory, receipt file | `apply` | Git, staging directory | crash between the two |
| Incident state machine (`core/incident_state.py`) | none: a fold over the stream | `transition`, `replay_state` | - | order of the events that several handlers wrote |
| Field impact, policy, reality check, sentinel, coordinator, investigator, profiles | none | pure functions | readers | coverage of cases; order of a graph traversal |
| Public live sandbox (`web/worker/live-sandbox.ts`) | one stored value with all runs, sessions and idempotency keys | create, stream and execute, reset | Durable Object storage | interleaving at awaits; stale sweep against a live executor |
| Redaction, context building, tool gate, narration | none | pure functions, one provider call | - | text, not order |
| Readers, UI, evaluation, scripts, data generation | none of their own | - | - | pure I/O or presentation |

What makes each correct: the store loses no acknowledged event, shows every client one
contiguous append-only stream per run, has at most one live run, and ends every run it
started; the stream delivers each event once and all of them; the repair handlers release
only what was published, verified and approved, at that very commit; recovery releases
controls only after an applied repair and with the evidence the policy asks for, and reports
what it did; enforcement and reset leave the catalog in a state from which they can be
repeated; a live run controls what the drifted field reaches and nothing else, and its stream
explains what it did; both change providers issue a receipt only for the exact repair that is
on the branch, whatever failed before.

## 2. Modules

| Module | Models | Relation to the others |
|---|---|---|
| `RunStore` | the run store, the run thread, the handlers as far as they use the store, faults, restart | - |
| `EventLog` | what the store promises: one live run, one append-only log per run, removal only after the end | `RunStore` implements it through the mapping `Promise` |
| `EventStream` | the SSE coroutine and its client | extends `RunStore`; every store step is a step of the composition |
| `IncidentState` | the transition table, `replay_state`, and the lifecycle as an abstract specification | `LiveRun` implements it through `Replay(stream)` |
| `LiveRun` | `run_live`: detection, investigation, impact, decisions, native artifacts, enforcement, guard | extends `IncidentState`; an append is one step, as `RunStore` justifies |
| `RepairLifecycle` | publish, verify, approve, apply and recover racing over stream, Git, staging and DataHub | starts where `LiveRun` ends |
| `ChangeProvider` | what a change publisher promises, whatever repository is behind it | implemented by the next two |
| `GitHubRepair` | publication on GitHub and the collection of hosted checks, request by request | the inside of publish and verify of `RepairLifecycle` |
| `LocalRepair` | local publication with its rollback, and staging application, command by command | the inside of publish and apply of `RepairLifecycle` |
| `Publication` | the runtime with one of the two providers | extends `GitHubRepair`, instantiates `LocalRepair` |
| `RecoveryPolicy` | the decision of `RecoveryController.evaluate` as a function | used by `RepairLifecycle` and `CatalogControl` |
| `CatalogControl` | enforcement, release and reset of the controls in DataHub, write by write | sees the run store as one status per incident |
| `LiveSandbox` | the public sandbox: create, stream and execute, reset | separate deployment, shares nothing with the others |
| `MC...` | symmetry, small catalogs, a later starting point for the recovery runs | extend the modules above |
| `...Proofs` | theorems about `RunStore`, `EventStream`, `LiveRun` with `IncidentState`, `RepairLifecycle`, `LocalRepair`, `Publication` with `GitHubRepair`, `CatalogControl`, `LiveSandbox` | extend those modules |

### RunStore

A directory is the set of what exists in it (`files[i]`), with the contents of the two files
(`events[i]`, `manifest[i]`). `start_run`, `append_event` and `delete_run` write several files
under the lock; each file is a step, and `lock` names the operation that is half done. The
single-file operations are one step. Digest and count of a manifest are the stream they were
computed from (`bound`), since a collision of SHA-256 is not modelled. An event is its
sequence number and the run (first, second, ... under that id) its emitter was admitted to.

`WriteError`, `FirstWriteError`, `FailRunError` and `Crash` are the faults: every write goes
through a temporary file and a rename, so a fault leaves the old or the new content and
possibly the temporary, which later keeps `rmdir` from removing the directory. `Restart` is
`RunStore.__init__`. The variable `torn` records which ids a fault cut an operation short on;
no action reads it.

### EventStream

`server` holds the locals of the coroutine: its position, the cursor, the events read in this
round (`batch`) and whether the manifest read in this round was terminal (`over`). It reads
the manifest without the lock (`ReadManifest`) and the events with it (`ReadEvents`), goes
through them one by one (`Skip` what is not past the cursor, `Yield` the rest), and returns if
the manifest was terminal. `Drop` loses the connection at any point; `Connect` reconnects with
the last sequence number received (`LastEventId`). A round that finds no run ends the stream
with an error frame (`ReportMissing`: only `FileNotFoundError` is caught). One that finds files
that contradict each other raises `RunStoreIntegrityError`, which nothing catches: the
connection breaks without a frame (`BreakConnection`) and the client reconnects, since an
`EventSource` gives up only when it is closed (`web/app/CommandCenter.tsx:1118`). `atEnd` and `run` are history: how many events
that manifest binds, and which run the client follows.

### IncidentState and LiveRun

`Replay` is `replay_state` as a recursive function: the state, or `Invalid` where the code
raises. `LifecycleSpec` is the lifecycle alone.

`LiveRun` has one action per read that may see something new, per write to DataHub and per
append; `pc` is the place in `run_live` and `left` what the current loop has still to handle.
`Raise` ends the run anywhere, and an append may end it after its event is in the stream
(`Emit`): that is what `RunStore` shows of a failed manifest write. Inputs are the catalog
(lineage, hop distances, roles), whether the flagship drift is present, and what the two
evidence workers return, degraded results included. `TraceHit` follows the downstream hits by
distance and reads the field lineage of one hit at a time; `Ingest` replaces the upstream
lineage of a dataset in between. `PassOver`, `TagAsset` and `ControlAsset` are `enforce`, with the
tag and the properties of a dataset as one step each, since `CatalogControl` has every write.

`trace_field_impact` handles each hit once, in the order of its distance, so it finds every
path whose distances grow and may miss one that goes through an edge between equal distances
or back. The code does not say that it finds those, so `ConeIsControlled` claims closure under
edges of growing distance, and `ControlsAreExplained` that what is found is fed by some path.

### RepairLifecycle

A request has a program counter between its external call, the Decision Log write and each
append. The four repair handlers read a fresh recorder before each append, so an append
always fits; `recover` keeps the recorder it loaded first (`seen`), so `EmitStale` succeeds
only while nobody else appended. `BeginRecover` is one step for the recorder, the bundle and
the approval check that `recover` reads: if the stream grows between those reads, the first
append of `recover` is refused and nothing has been written. `Leave` abandons a request at
any step (an exception or a crash). `Operate` is a person with a shell in the repair
repository. The evaluation is `ReadControl`, `WriteControl`, one `WriteAsset` per controlled
asset, and then the event. The module starts when the live run has completed with the
proposed bundle in its stream.

### GitHubRepair

The remote state is the head of the base branch, the repair branch, the pull requests and the
attempts of the workflow run. An action is one request that reads or changes them, with the
checks the code makes on its answer; immutable objects are read in the action that uses them.
`Leave` ends a worker before any request: an error that is raised, a time-out, which nothing
catches (`core/github_provider.py:428`), or the death of the process. `PostRefLost` and
`PostPullUnclear` are POSTs that took effect although their answer says otherwise. A retry
looks the branch up first and adopts it if it holds exactly the repair. `MergeIntoBase` and
`Intervene` are other people: they move the base, amend, extend or delete the branch, and close
the pull request. `StartWorkflow` to `RerunJobs` are the CI service, whose jobs can be run again
while a worker collects the results.

### LocalRepair

The variables are the branches, what is checked out, the changes of the working tree (`tree`),
those of them in the index (`staged`), the release directories and the receipt files. An action
is one Git command or file operation. A command of the try block of `publish` that fails
(`Raise`) starts the rollback (`Reset`, `CheckoutMain`, `DeleteBranch`), whose commands can fail
too (`Leave`); `Crash` kills the process. `git reset --hard` restores what is under version
control; the tests and the rollback plan of a bundle are new files (`Artifacts \ Tracked`) and
stay in the tree if the failure comes before `git add`. `Status` then refuses every bundle, and
`CheckHead` every application, until somebody removes them; nothing in the code does. A receipt file exists (`OpenReceipt`) before its content does (`WriteReceipt`).

Bundles of different incidents share the repository. `spilled` records whose publication failed
before its `git add`. Three more history variables say where the code promises nothing: `shared` (two publications changed the tree at once, so that
`git add --all` may commit both), `stranded` (a rollback was itself interrupted) and `deleted`
(a rollback after the commit took a branch away, possibly one whose receipt another worker had
just issued). After two publications shared the tree they are followed to their end, nothing is
published any more, and nothing is applied while they are in the tree.

### Publication

`provider` is chosen at the start and never changes. `BeginPublish` of `GitHubRepair` needs a
bundle without a receipt, so that a publication that failed is asked for again.
`ChangeProvider` is the "same receipt semantics" that `core/change_provider.py` asks for: a
receipt is issued while the branch holds the commit it names, that commit is exactly the
bundle's artifacts, and as long as nobody deletes the branch all receipts name one commit.

### CatalogControl

DataHub has no transactions: each helper of `metadata_writer.py` reads one aspect of one
entity and emits it, which is one step (`Write`). `request[x]` holds the datasets, native
entities and artifacts that operation `x` has still to go through and, in `todo`, the writes
left on the one it is at; `Abandon` is an exception or a crash between any two of them. `EnforceAsset`,
`MirrorNative`, `ReleaseAsset`, `ResetNative`, `ResetArtifact` and `ResetDataset` are one round
each of the loops: what a round reads before its writes (the history, the owner of a native
entity) is read in that step, as in the code. The order of the entities of one kind is left
open, except that reset takes the control asset last (`NextDatasets`). Enforcement writes all the
properties of an entity in one emission, so those that reset finds on an entity that names an
incident, and removes, are all of them. The status of the run in the run store guards
recovery, repair steps and reset.

Publish, verify, approve and apply look at nothing in the catalog and write the Decision Log
(`BeginRepair`; which of them the bundle allows is left to `RepairLifecycle`). Since a run stays
completed until `delete_run`, they do so also after a reset that stopped half-way: if that reset
had already cleaned the control asset, the log is back and no reset is accepted any more, with
one operation at a time. `OwnershipOutlivesReset` therefore excepts the log (with it TLC refutes
the property in 19 states), and `NoOrphans` speaks of resets that complete.

An enforcement that fails before it reaches the control asset leaves marks that no reset
accepts, since reset asks the control asset who owns it; and a recovery that is requested
between an abandoned reset and its retry writes RESOLVED and ALLOW to assets that the first
attempt had already cleaned, and the retry skips them because they name no incident. The code
promises nothing about either, so the properties speak of completed runs and of assets with
an owner (`LocalPipelineController.from_datahub` refuses an asset without one).

### LiveSandbox

The Durable Object delivers no event while a storage operation is pending, so a handler's
`get`, what it computes, and its `put` are one step. Handlers interleave where they wait for
anything else: the pause before each event (`Emit`), the pause between polls (`Poll`), and the
digest at the end of a run (`AwaitDigest`, `Complete`), which lies between a `get` and a `put`.
A runtime that resolves the digest without running anything else has only the behaviours in
which `Complete` follows `AwaitDigest` at once. The variable `overwritten` records that
something was stored in between; then the model stops, and the properties are claimed up to
there. Without that condition TLC finds events missing from another run, a reset run that
returns, and attempts that no longer count.

The sending loop of a stream is the recursive function `SendAvailable`: it starts behind the
client's cursor and sends each stored event once; the client's cursor moves with it.

Time is two marks over the order of creation: which runs are older than 20 s (`stale`) and
which attempts older than 10 min (`old`). `StreamError` is the catch block, which also a
stream that only reads can reach; it may fail a run that is still executing or is COMPLETED.
An executor whose run was timed out goes on and completes it. No document says that a
sandbox run keeps the status it ended with, so neither is claimed or refuted.

## 3. What the runs check

| Run | States | Shows |
|---|---|---|
| `run_store` | 1.9 M | `SingleActiveRun`, `NoAcknowledgedEventLost`, `Contiguous`, `UntornIsReadable`, `HistoryIsFinal` and the refinement of `EventLog` for two ids that are reset and started again under two handlers, with a failed write and two crashes |
| `event_stream` | 130 k | `PrefixReceived`, `CompleteOnReturn` over a drop, a failed write, a crash and a second run; `RunsTerminate`: every run ends while the process lives; `StreamEnds`: a client that follows it learns so, unless a write failed half-way and left files that no round can read |
| `live_run` | 2.4 M | `ConeIsControlled`, `ControlsAreExplained`, `EffectsAreReported`, `StreamReplays` and the refinement of `IncidentState` wherever the run stops |
| `repair_lifecycle` | 3.1 M | `DeployedIsAccountable`, `ResolvedAfterApplied`, `ResolutionIsReported`, `ResumeHasEvidence`: two workers, two commits and an operator from the proposal on; two recoveries that race after the repair was applied |
| `publication` | 2.3 M | `PassIsBacked`, `RollbackLeavesOnlyNewFiles`, `LocalReceiptHasRelease`; both providers implement `ChangeProvider`; `PublicationRecovers` |
| `catalog_control` | 3.2 M | `ReleasedOnOwnEvidence`, `NoOrphans`, `OwnershipOutlivesReset` for two incidents on three assets, one operation at a time, stopped anywhere and retried |
| `live_sandbox` | 3.3 M | `OneRunning`, `EachEventOnce`, `CompletedIsWhole`, `RateLimited`, `OneRunPerKey`, `GoneStaysGone` |
| `store_foreign`, `failed_check_unlocked`, `resume_not_consecutive`, `reset_not_retryable`, `cross_incident` | violated | see below |

Every passing run also checks the type invariant of its module. Bounds, and why they are
enough:

- Store and stream. Two ids are needed for the single active run, one id suffices for
  everything that concerns one directory, and two runs under an id are needed for a reset under
  a working handler; a third run or id adds no new kind of overlap because the lock separates
  operations. Two events make a stream with a gap, a duplicate and a lost tail possible. Two
  crashes cover a fault during the restarted process; one write error covers each write.
- `live_run`. Six assets and two fields; every subset of eight lineage edges, among them a path
  of three steps, an edge that makes two hits equally distant, and a back edge; two rows, one
  of them in the batch; three tables of roles, one without a rule for an affected asset; drift or
  none; one ingestion, while the lineage is followed.
- `repair_lifecycle`. Two workers are needed for every race between handlers; two commits for a
  verification of one and an approval of the other. From `Init` a stream is followed up to seven
  events (`Horizon`), which holds the path to a resolution when the approval authorizes
  production; the second starting point, `AppliedInit`, has room for two evaluations.
  `CleanRuns = 2` is the value of `domain_profiles/polymer.yaml`.
- `publication`. On GitHub two workers publish and one of them verifies; three commits, so that
  a retry, a rival and a person can each create one; two required checks and two attempts of the
  workflow, so that one attempt can mix with the next; one merge into the base, one intervention
  and one failed request. Locally two bundles, each with a patch of a tracked file and a new file,
  share the tree and two calls fail, the second one in the rollback.
- `catalog_control`. One operation at a time (`cross_incident` shows what two do); the assets are
  the control asset, one with a native projection, and one more whose writes can come before
  or after; the second incident overlaps the first in the control asset only; three evaluations
  allow a failing one before two clean ones.
- `live_sandbox`. Three runs where the object keeps two, so that a run is trimmed while it
  executes; a limit of one attempt per session and two per address, so that both bind; two
  events, so that one can be missing; one poll per reader, since a reader that polls again does
  what one that reconnects with its cursor does; one failed storage call.

`CHECK_DEADLOCK FALSE` is set everywhere because the bounds end the behaviours, and because a
run, a publication or a store with nothing to do may rest.

### Disagreements between the documents and the code

- `LiveEventsFromThisRun`: `docs/architecture.md:67` says LIVE means the current execution
  produced the evidence shown. A handler admitted to a completed run, overtaken by a reset
  and a new start of the same id, appends its event to the new run if the number fits.
- `FailedCheckLocks`: `docs/architecture.md:265` says failed checks stay locked, and line 47 that
  RESOLVED is terminal. A recovery requested after the resolution is still admitted (the
  bundle stays APPLIED); a failing evaluation moves the control asset to AT_RISK but leaves
  policy ALLOW with no actions.
- `ResumeIsConsecutive`: `docs/architecture.md:266` asks for two consecutive clean runs. Two
  evaluations that overlap lose one history update; the lost one can be the failing one.
- `PartialResetCanBeRetried`: `core/reset.py:128` says a failed partial reset can be retried
  because the control asset is cleaned last. Its properties are removed before its tags; if the
  second write fails the retry is refused and the tag stays. `OwnershipOutlivesReset` is the
  part of the comment that holds: the properties and the native Incident do go first.
- `CrossIncidentStaysLocked`: `docs/architecture.md:265` says cross-incident state stays
  locked. `evaluate` compares the incident id when it reads the control asset and not when it
  writes it; a run that takes the asset in between is released by the other incident's
  evaluation. (A reset has the same gap between choosing the datasets and cleaning them.)

## 4. Fairness

`Fairness` of `RunStore` is weak fairness of the steps inside the lock and of the run thread.
Inside the lock nothing waits except for the local disk, and the operating system schedules
the thread. That `run_live` itself returns or raises is an assumption: `ThreadStep` is fair,
and the bound on events stands for the finite work of a run. No fairness is assumed for
clients, faults or restarts. `StreamFairness` adds that the event loop resumes the coroutine
while its client is connected, strong fairness for the step that needs the lock (other
threads take it again and again but always release it), and that the client reconnects.
`RunsTerminate` and `StreamEnds` except the behaviours in which the process dies
(`deaths > 0`), because a run whose process died stays RUNNING in the code. `StreamEnds` also excepts a run whose
files contradict each other: after a write that failed between the events and the manifest
`fail_run` ends the run, but every round breaks the connection before it returns, and the client
reconnects for ever. TLC refutes the property without that exception.

`PublicationFairness` is weak fairness of one disjunction: somebody keeps asking for a
publication that failed, and at least one worker has its requests answered. It says nothing
of people, the CI service or single workers. `PublicationRecovers` then says that the bundle
gets its receipt unless the base moved or somebody touched the branch; in those cases the code
may refuse for good.

## 5. What is proved

Every theorem holds for all values of the constants that satisfy the named assumption of its
module, so for any number of workers, bundles, assets, events, faults and retries.

| Module | Theorems | Inductive invariant |
|---|---|---|
| `RunStoreProofs` | `TypeCorrect`, `OneActiveRun`, `AcknowledgedEventsStay`, `StreamsContiguous`, `EndedRunsStay`, `UntornRunsAreReadable`, `RunStoreImplementsEventLog` | `StoreInvariant` (`StoreSafe`), `DirectoryInvariant` |
| `EventStreamProofs` | `ClientHasAPrefix`, `ReturnedStreamsAreComplete` | `StoreInvariant /\ StreamInvariant` (`StreamSafe`) |
| `LiveRunProofs` | `ReplayRejectsForGood` (the reducer); `LiveRunTypeCorrect`, `LiveRunConeIsControlled`, `LiveRunControlsAreExplained`, `LiveRunEffectsAreReported`, `StreamReplaysTheRun`, `LiveRunImplementsIncidentState` | `TypeInv`, `ReportInv`, `ConeInv`, `ControlInv`, `ReachInv`, `ResolveInv`, `PlanInv` |
| `RepairLifecycleProofs` | `TypesHold`, `DeploymentIsAccountable`, `ResolutionFollowsApplication`, `ResolutionFollowsReport`, `ResumeFollowsEvidence` | `LifecycleInv` (`LifecycleInvHolds`) |
| `LocalRepairProofs` | `RollbacksLeaveOnlyNewFiles`, `LocalReceiptsHaveReleases`, `LocalProviderImplementsChangeProvider`, of `LocalRepair` alone | `Inv /\ RenamedFirst /\ LocalReceiptHasRelease` (`LocalInvariant`) |
| `PublicationProofs` | `GitHubTypeCorrect`, `PassReceiptsAreBacked`, `GitHubImplementsChangeProvider`; the three of `LocalRepairProofs`, of the composed runtime | `Inv` (`GitHubInvariant`); that of `LocalRepair`, through `LocalPart` |
| `CatalogControlProofs` | `TypesHold`; with one operation at a time `ReleaseFollowsOwnEvidence`, `CompletedResetLeavesNothing`, `ResetCanBeRetried` | `TypeInv`; `CatalogInv` (`CatalogInvHolds`) |
| `LiveSandboxProofs` | `SandboxTypeCorrect`, `OneRunExecutes`, `EventsAreOnce`, `CompletedStreamsAreWhole`, `SessionsAreLimited`, `KeysNameOneRun`, `RemovedRunsStayGone` | `SandboxInvariant` (`SandboxSafe`) |

None of the safety properties is inductive; what the invariants add is what the code relies on
without saying so:

- `StoreInvariant`: while an operation holds the lock, what it has already written and what it
  still has to write (`LockInvariant`); the holder of the lock is the emitter in the middle of
  it (`ThreadHolder`); a run thread exists only for the RUNNING manifest of the last run of its
  id (`ThreadInvariant`); an event names a run that was started (`RunNumbers`). The refinement of
  `EventLog` and `HistoryIsFinal` are step lemmas under it: the manifest write is the commit point.
- `DirectoryInvariant`: what the holder of the lock finds in a directory that no fault has hit
  (`HeldDirectory`), so that every other such directory is absent or complete (`Settled`).
- `StreamInvariant`: the client has the events up to its cursor (`Numbered`); what is left of the
  batch goes on from there without a gap (`BatchFits`); both are where their numbers say in the
  event file (`EventsInPlace`); what the manifest of the round binds is still to be read, in the
  batch, or received (`NothingMissed`).
- `LiveRunProofs`: the trace has followed every edge out of a tainted field to the hits already
  handled, all of which are at most as distant as those pending (`TraceInv`); every decided
  asset is still in the loop or already written (`ControlInv`); the tainted fields are reached in
  as many steps as hits were handled (`ReachInv`); only the effect of the step in progress is not
  reported (`ReportInv`). Facts about the recursive functions `Replay` and `Reached` are
  inductions over their length, by `NatInd`: the library's well-founded order of the naturals
  gives every nonempty set of them a least element.
- `Inv` of `PublicationProofs` (about `GitHubRepair`): what a worker carries was really read or issued (`Held`); a
  concluded attempt has no pending job, and succeeded only with all of them (`Concluded`); an open
  pull request shows the branch, and until somebody deletes the branch it holds the commit of
  every receipt or something that is no repair (`Published`).
- `LifecycleInv`: every lifecycle event of the stream rests on the events before it, for one commit
  (`StreamFounded`); a handler works on a bundle that the stream shows until it holds the next
  one, which rests on the stream as it is (`Rests`), and this stays true while others append,
  because streams only grow; a recovery that decided RESUME has the evidence when it writes and
  its report when it goes on (`Resumes`). `EvidenceCovers` is the counting argument behind
  `ResumeHasEvidence`: each clean evaluation in the history, and each recovery whose evidence is in
  the stream and whose history is not yet written, has an evidence event of its own. Recoveries that
  overlap lose updates, which lowers the left-hand side only.
- `Inv` of `LocalRepairProofs`: unless the tree is shared, at most one worker is in it, branch,
  HEAD and tree are those of the command it is at, and receipts hold (`Alone`, `Stage`); unless a
  rollback was stranded too, whoever left a branch at its base, staged changes or changed tracked
  files is still at work (`Clean`); a release directory
  is renamed into place before its receipt is opened (`RenamedFirst`).
- `TypeInv`, `CatalogInv`: an entity that names an incident has all its keys (`Whole`), and they are
  what the run of that incident wrote there (`Belongs`); what each operation has written and has
  still to write, whatever write it stops at (`Running`, `Recovering`, `Resetting`); an asset that
  is allowed has evidence of its own incident and is not of a live run (`AllowedIsOwn`); a native
  entity names an incident only together with a dataset (`Anchored`).
- `SandboxInvariant`: `Valid` of the stored value and of any value a stream read before its
  digest (one RUNNING run, idempotency keys that point back), and, until the end of a run overwrites
  a change, `Fits`: one executor per started run whose step count is the number of stored
  events, clients that hold a piece of them, and attempts that cover every recent run of a
  session.

Assumptions: `ConstantsAssumption` (bounds are naturals, markers are outside the sets),
`DropsAssumption`, `LiveRunAssumption` (the named assets exist and differ, finitely many, and
`Source` is at distance 0), `GitHubRepairAssumption` and `LocalRepairAssumption` (`None` and `Main`
are no commits or bundles), `PublicationAssumption`, `LifecycleAssumption` (`None` is no commit),
`PolicyAssumption` (at least one clean run is asked for), `CatalogAssumption` (every plan contains
the control asset, and datasets and native entities are disjoint), `SandboxAssumption` and
`AbsentAssumption`. TLC evaluates each of them in a run.

The theorems about `CatalogInv` have one hypothesis more, `OneAtATime`: at most one operation is
served at a time, as in the run `catalog_control`; how often it is abandoned and what follows it is
open. The hypothesis is needed: for two operations that overlap `cross_incident` refutes a claim of
this kind, and under its constants TLC refutes `ReleasedOnOwnEvidence`, `NoOrphans` and
`OwnershipOutlivesReset` as well (a reset chooses the datasets before it cleans them, and a repair
step writes the Decision Log of a run that a reset deletes). The types
hold for any number of operations.

Every safety invariant and every action property of the passing runs is proved. Only
model-checked: liveness (`RunsTerminate`, `StreamEnds`, `PublicationRecovers`), which is out of the
prover's reach. What a recursive definition computes for every input is proved only where an
induction over the naturals suffices (`Replay`, `Reached`).

## 6. Not modelled

The rows without a module in `PROJECT.json` give the reason for each. In short: pure functions
over text (redaction, context, patches, narration), the user interface, the evaluation and
the scripts have no state whose order could go wrong. The readers are represented by what
they return, as inputs of `LiveRun`; their paging and the MCP session are not. Of the Sentinel's
rules only the unit change is an input of `LiveRun`.

Some behaviour is modelled and nothing is claimed about it, because no document says what
should hold: a recovered incident's manifest says RESOLVED while its stream replays to
QUARANTINED (`recover` emits no transition); the Decision Log that a repair step writes after a
reset has cleaned the control asset; the new files that a failed local publication leaves and
every later one refuses; an enforcement that fails before the control asset
knows the others; two incidents that share a repair repository; a reader of the sandbox whose
failed call marks an executing run FAILED.

## 7. Plan

1. `CatalogControl` with several operations at a time: which part of `CatalogInv` survives, and
   theorems about it; the dataset that a racing enforcement leaves to a reset.
2. `RepairLifecycle` with the refined publication and application in place of its single steps.
3. The remaining rules of the Sentinel and the hypotheses of other profiles as operators.
4. Patch application as an operator over line sequences, against a reference definition.
