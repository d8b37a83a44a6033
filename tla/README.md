# DocuAgent's task delivery in TLA+

DocuAgent interviews its user, draws an architecture, and turns the confirmed
architecture into code and documents. One Python process serves a browser client;
every request runs on a thread of its own (`ThreadingHTTPServer`), calls models
for minutes, and keeps its state in JSON files below `.docuagent/` that are read
and rewritten whole. There is no lock around most of these files, a stream may be
closed by the client at any moment, and the process may die between any two
writes. This directory specifies the parts of the program where that matters,
checks them with TLC and proves, with TLAPS, the invariants of eight of them and
three of the refinements.

All paths below are relative to `docuagent/` of the repository.

## The system

| Component | Source | State | Operations | Modules |
|---|---|---|---|---|
| Execution jobs | `task_jobs.py` | table of job handles in memory, `execution-jobs.json` | begin, finish, cancel, reconcile | JobLedger, ExecutionJobs, ExecutionJobsProofs |
| Workspace locks | `agents.py`, `task_generate.py`, `microtask.py` | `locks.json` | clear, acquire, release | WorkspaceLocks, WorkspaceLocksProofs |
| Work items | `task_generate.py`, `task_verify.py`, `task_patch.py`, `task_state.py` | `tasks.json` and the copies requests hold, `apply-mode.json`, stale modules | wave, retry, resume, repair, verify, apply (three routes), reject, cancel, closed streams | TaskState, TaskFlow, TaskLifecycle, TaskFlowProofs |
| Documentation task | `task_docs.py`, part of `task_state.py` and `error_nodes.py` | `documentation_task` of `tasks.json`, one `AI_ARCH.md` per directory, the documentation error node | register, sync, retry, mark dirty | DocSync, DocSyncProofs |
| File application, sandbox, snapshots | `workspace.py`, `sandbox.py`, `task_patch.py`, `snapshots.py` | project files, sandbox and its base, patches, at most 30 snapshots | generate, settle, land, apply, roll back, take and restore a snapshot, commit | FileLanding, FileLandingProofs |
| Agent loop | `agent_tools.py`, parts of `task_verify.py` and `task_generate.py` | transcript, counters, sandbox, checkpoint | rounds of tools, reminders, limits, checkpoint, resume, fallback, repair round | AgentLoop, AgentLoopProofs |
| Model client | `llm_client.py` | one request | retries of three kinds, rejection of tools | ModelClient |
| Interview and architecture | `main.py`, `main_routes_bootstrap.py`, `core.py`, `architecture_delta.py`, `architecture_preflight.py` | `bootstrap.json`, `architecture.json`, its history, `stale.json` | start, answer, revise, settle, confirm, finalize, reopen, node and edge operations, requirement and model edits, undo, clear | ArchitectureGraph, Studio, ProjectLifecycle, StudioProofs |
| Work plan, micro tasks, error nodes | `task_plan.py`, `orchestrate.py`, `microtask.py`, `error_nodes.py` | `tasks.json` as a plan, `error_nodes.json` | derive, plan, orchestrate, merge, confirm, append, reconcile | WorkPlan, Studio, StudioProofs |
| Contracts | `contract_registry.py`, `contract_lint.py`, `core.py`, `task_patch.py`, `importscan.py`, `scaffold.py`, `codeintel/symbol_index.py` | `contracts.json`, its lock file, notes about upstream changes | create, import, lint, land, promote, apply deltas, reconcile, announce | Contracts, ContractRegistry, ContractRegistryProofs |

`PROJECT.json` lists the remaining parts (plugins, telemetry, editor services,
desktop shell, frontend, ...) with the reason each is left out.

How they interact: a wave derives the work items from the architecture, marks
the stale ones, resets what a dead run left (`recover_stale_running` asks the job
table which tasks are alive), takes the locks of the ready tasks, registers a job
and starts one agent per task on a worker thread. In automatic mode an agent's
sandbox lands in the project and is verified there, with one repair round; in
review mode it becomes a patch the user applies, hunk by hunk if wanted. Every
landing registers files with the documentation task, and the delivery status is
derived from both. Before all this the interview draws the architecture, the user
settles its open claims and confirms it; every later edit writes flags, history,
document, draft and plan one after another. Each landed patch also rewrites the
contract registry with the exports its lint found, and leaves notes with the
modules that build on an interface that is stale.

What makes this hard: requests work for minutes on a stale copy of `tasks.json`;
cancellation and closed streams reach workers late; a restart finds statuses only
the dead run would have changed; half-applied patches; a documentation batch
spread over many files; error nodes and the task kept in two files; three places
that count retries; one architecture kept in a draft, a document and a history;
checkpoints of an agent whose project is edited meanwhile; a lock file that
outlives its maker.

## Modules

**JobLedger** is what a reader of `execution-jobs.json` may rely on: a job is
opened once, never again after it was closed, and keeps its outcome, except that a
completed job may become a cancelled one. **ExecutionJobs** models `task_jobs.py`
step by step: `begin_job`, `finish_job` and `cancel_jobs` under `_LOCK`,
`reconcile_jobs` without it, and in `finish_job` the assignment of the status
(`FinishStatus`) and the look for a stop request (`FinishCancelled`), which are not
under the lock either. Each file read, table read, file write and access to a field
of a handle that another thread may write is a step; history is trimmed to
`MAX_JOB_HISTORY`; a restart loses the table only.

**WorkspaceLocks** models `locks.json`: a wave clears the file, acquires in plan
order from its own copy, works, and releases; a resumed task and a micro task
acquire one lock. Read and write are separate steps, so requests overwrite each
other as in the code.

**TaskState** holds the functions over one document `tasks.json`, named as in
`task_state.py` and `task_generate.py` (`ready_tasks`, `recover_stale_running`,
`mark_stale_tasks`, `register_documentation_task`, `update_delivery_status`, ...).
**TaskFlow** runs requests over it. A request has a copy `mem[r]`, the tasks it
runs, an agent phase for each, and a job. What follows each other at once in the
code is one step; the job registry, the work of agents and the writes of project
files are steps of their own. `landed`, `current` and `drift` record what reached
the project and what the documents do not cover yet; they are read by the properties
and by guards that stand for file comparisons. `waived` records the tasks that were
called applied while nothing of theirs was written, which two routes allow: an empty
choice of hunks (`ApplyNoHunk`), and files that an earlier patch of the task left in
`applied_files` (`AcceptedEarlier`). **TaskLifecycle** is the abstract life of a
work item, which `tasks.json` implements.

**DocSync** details what TaskFlow's `SyncDocs` does in one step: the retry loop
of `sync_docs` with its copy (`mem`), the copy `_sync_docs_once` reads (`seen`),
the directories still to describe (`todo`), the texts made so far (`made`,
`sound`), the batch write with rollback, and the error node. A document is
`fresh` when it is true of its directory's code and of the documents below.

**FileLanding** follows one agent's files: the sandbox is made from the project or
from HEAD, changed in one or two rounds, and lands directly or as a patch. Each
file is written by a step of its own, a failing write starts the rollback, and the
contract registry comes last. A text is the set of changes it contains, so that a
lost change is a missing element. Snapshots are taken, trimmed and restored where
the routes do.

**AgentLoop** is one task's agent in the native and the legacy protocol: a round
of tool calls, the guards each tool asks (scope, documents read first, version
read), the counters that end it, the checkpoint, and what a stop, a crash, a
resumption, the fallback and the repair round make of them. What a sandbox is made
from, and what a checkpoint is compared with (`Source`), is the project in a plain
directory and HEAD in a git repository, where the user edits and commits. It is
composed with **ModelClient**, the retries of one request, nested as in
`llm_client.py`.

**ArchitectureGraph** holds the functions over an architecture: typed edges and
their normalisation, cycles of the build order, simplification, migration,
readiness, owners of files, what an edit makes stale, the classified difference. A
module has texts (responsibility, brief, path, needs_ui) and a label (name and
verification): the comparison reports both, `_stale_after_edit` looks at the texts
only.
**WorkPlan** extends it with the functions over `tasks.json` as a plan.
**Studio** runs the requests over the six files: a request reads, may wait for a
model with its copies (`call`), then has a list of writes (`pending`) that
`WriteNext` performs one by one and `Crash` cuts short. **ProjectLifecycle** is the
abstract promise, by kind of request: only an interview, a revision or a reopening
leads to the review, only a confirmation of what the review shows leads from there
to `ready`, only from there is it built, and an edit changes what is drawn but
never the phase. So what is built was confirmed, but for the user's own edits
since. Studio implements it.

**Contracts** holds the functions over `contracts.json`: what normalises, one
delta and a batch, reconciliation with the symbol index, the classified
difference, the impact projection, the lint of a patch, the exports promoted by a
landing, and the registries of created and imported projects.
**ContractRegistry** is the life of the file: creation and import; landings and
reconciliations, which read the registry for the lint, read it again to merge and
write it last, without the lock and without a look at what it has become
(FileLanding has the parts of that write); and `apply_deltas_atomically` step by
step: the lock file is created, found old, removed by a waiter, and the holder
reads, compares, writes and releases, or dies. A file that cannot be read counts as
an empty registry (`ReadFails`), as in `_read_contracts`. Two history variables say
when nothing is promised: `robbed`, a live lock was removed; `misled`, who works
from a registry that is not the one on disk.

| Action | Code |
|---|---|
| TaskFlow `StartWave`, `Begin`, `Save`, `Finish` | `_generate_wave_events` |
| `Propose`, `Fail`, `Stopped` | `generate_one_task`, `stream_generate_one_task` |
| `Complete`, `Land`, `MainPasses`, `MainFails` | `_complete_sandbox_task`, `_apply_sandbox_to_main`, `_repair_sandbox_once` |
| `StartRetry`, `StartReverify`, `StartResume`, `StartRepair`, `HandOff` | `retry_task`, `resume_task`, `repair_task` |
| `StartVerify`, `Read`, `Judged`, `VerifySync`, `VerifyStream` | `verify_task`, `stream_verify_task` |
| `StartApply`, `ApplyAll`, `ApplySome`, `ApplyNoHunk`, `ApplyNone`, `ApplyFails`, `HunkRaises` | `apply_task_patch`, `apply_task_partial`, `apply_task_hunks` |
| `CloseWave`, `Gone`, `CloseVerify` | `GeneratorExit` in the streams |
| DocSync `Attempt`, `Make`, `Commit`, `CommitFails`, `Synced`, `Failed`, `Blocked` | `sync_docs`, `generate_document_tree`, `apply_text_files_atomic`, `_finish_documentation_sync` |
| FileLanding `Generate`, `Settle`, `ApplySandbox`, `ApplyPatch`, `WriteFile`, `RollBack` | `create_sandbox`, `make_patch_entries`, `apply_sandbox`, `apply_text_files_atomic` |
| AgentLoop `Start`, `Resume`, `Repair`, `LoopStep` | `create_sandbox`, `restore_checkpoint_sandbox`, `_stream_native_tool_loop`, `_stream_legacy_tool_loop`, `resume_task`, `_repair_sandbox_once` |
| Studio `StartBootstrap` ... `FinalizeBootstrap`, `UpdateArchitectureNodes`, `UndoArchitecture`, ... | the handlers of the same names |
| ContractRegistry `Begin`, `CheckPatch`, `MergeDelta`, `WriteLanding`, `GiveUp`, `Deliver` | creation and import routes, the lint of `apply_task_patch`, `_merge_contract_delta`, `apply_text_files_atomic`, `_deliver_upstream_change_notice` |
| `ReadToReconcile`, `Resolve` | `apply_reconcile_to_contracts`, `resolve_node_attachment` |
| `Call`, `Acquire`, `SeeOld`, `Reap`, `TimeOut`, `Read`, `ReadFails`, `Commit`, `Release` | `apply_deltas_atomically`, `_acquire_lock`, `_read_contracts` |

Every definition's lines are in the `map` of `PROJECT.json`.

## Runs

| Run | Shows | Instance |
|---|---|---|
| `jobs_overlap` | no interleaving records a live job as ended | 2 jobs, 2 requests, 1 stop, 1 restart |
| `jobs_single` | with one request at a time: leftovers are orphaned first, every job is closed, the file implements JobLedger | 3 jobs, history of 2, a stop request, 2 restarts |
| `locks_wave` | one wave's tasks share no file; locks are recorded and given back | 3 tasks on overlapping files, 2 restarts |
| `flow_gate` | delivery is never ready over undocumented code; applied means landed, unless the user took nothing of the patch; dependencies come to that first; one recovery reaches all that dead generation left; TaskLifecycle is implemented | 2 dependent tasks, 1 request at a time, repairs, file errors, closed streams, 1 restart |
| `flow_rest` | every request is answered and leaves nothing "at work"; TaskLifecycle with both modes and edits | 2 tasks, no crash |
| `docs_sync` | synced means fresh documents, blocked means shown, every sync ends | root/a/b and root/c, 2 retries, 2 changes, cut batches, 1 restart |
| `landing` | a landing is all or nothing, overwrites no edit it could have seen, and can be undone | an automatic and a reviewed task over 2 files and the registry, 1 act of the user, 1 fault |
| `agent` | an agent keeps its saved work, never goes on from reads of another version than its sandbox has, writes informed, is done only if it wrote, does not stall for ever | 2 sources, 2 documents, 1 detailed round, limits of 2, 1 edit; a plain directory or a git repository |
| `studio` | an edit is never seen without its flags, unless it is of a name or a verification; undo restores; draft and document agree; failures are shown; ProjectLifecycle is implemented | 4 module ids, 4 drafts, any 2 requests from 3 phases, a stop before any write |
| `contracts` | sections under the lock do not overlap while no live lock is removed; a write builds on what is on disk unless its writer was misled by a landing or a failed read; a stale interface is announced to its owner and to those who build on it through modules that export something or use a shared entry, and to nobody else; no call waits for ever | 3 modules and the shared kernel, 4 files, 3 symbols, 2 writers, 2 patches, 3 batches, 2 calls, 1 crash, 1 failed read, 1 landing or reconciliation |
| `studio_stale` | the disagreement on stale flags below | as `studio` |
| `contracts_unreadable` | the registry that can never be read again, below | as `contracts` |

The bounds: two requests are enough for a lost update, a third only repeats it; two
tasks with one dependency give every order of dependent work; the tree has a chain
of three and a sibling, so that a cut batch can leave each level behind; retries are
those of the code (one of each kind in AgentLoop: a second only repeats the loop).
Two requests make a pair of one that leaves something behind and one that finds it;
`studio` starts in the middle of a project's life (new, confirmed, built) so that
two are enough to reach every handler. One landing may begin before, within or after
the section of a writer and write before, within or after it; two landings at a time
overwrite each other as a landing and a batch do, and are covered by the proof only.
Two calls compete for the lock, and one death leaves it; reads fail in `contracts`
only (`MaxMisreads`), since the other configurations ask about something else. In
`agent`, `MCInit` lets a git repository meet services of one format only: what a
sandbox is made from does not depend on how the answers are written. The number of
requests of one kind in a run is not bounded: statuses and copies are finite.
`OneAtATime` says the client waits for an answer, as the frontend does, or has given
the request up (a closed stream whose workers are still busy counts as given up).
The type invariants of FileLanding, AgentLoop, Studio and ContractRegistry hold in
`landing.cfg`, `agent.cfg`, `studio.cfg` and `contracts.cfg` when `TypeOK` is added
to them. `CHECK_DEADLOCK FALSE` stands where a project is finished: nothing need
happen any more.

Fairness is weak fairness of the steps of a request already started: model calls
and commands have time-outs, so a started step ends. `jobs_single` also needs
strong fairness of taking `_LOCK` in `finish_job`, since other requests take it
again and again; Python's lock does not starve a waiter under this load.
The agent's loop is fair as a whole: its thread goes on, and `llm_client.py` gives
every request a time-out. In ContractRegistry a thread in a call goes on, since it
sleeps and looks again and blocks on nothing; the fairness is written out because
the call is always able to go on, and TLC evaluates `ENABLED` of a whole batch
slowly. Nothing is assumed of the client: no request need ever be sent.

## Proofs

Each component has a module of proofs beside its own; every theorem is for every
value of the constants that its `ASSUME` admits. Where a theorem assumes more than
the types of the constants, TLC has a run or a configuration that breaks the
property without the assumption, or the reason is given here.

**ExecutionJobsProofs.** `JobsTypeCorrect` and `JobsLiveNotOrphaned` need nothing:
the invariant relates a handle to what the file and every copy a request holds
say of the job; a live job was registered before its first record, and the table a
reconciliation compares with is read after the file. `JobsRestartClassified`,
`JobsOrphanIsForeign` and the refinement `JobsKeepLedger` are for one client
(`Client = {c}`) with any number of stop requests, jobs and restarts; with two
clients `jobs_overlap` breaks them. `SingleInv` says who holds `_LOCK`, that the
file did not move under a reader (`NothingMoved`), and what the record of the own
job and those of all others may say: the status of the handle, or what that was
before `finish_job` turned it into `cancelled` (`Agrees`).

**WorkspaceLocksProofs.** `LocksTypeCorrect` and `GrantsAreDisjoint` need nothing:
while a request acquires, its own copy contains the files of all it granted,
whatever happens to the file. `OneRequestIsRecorded` and `OneRequestIsExclusive`
are for one request at a time, which `locks_shared` shows to be needed.

**TaskFlowProofs.** `FlowTypeCorrect`, `AppliedLands`, `DependenciesLandFirst` and
`RecoveryReachesAll` hold for overlapping requests, failing writes and any number
of restarts. Both of the middle ones speak of what was `Decided`: a part of it
went to the project, or its user took nothing of its patch (`waived`). The
invariant is `TypeOK`, `CopiesSound` (the file *and every stale copy* call a task
applied or verified only if it was decided; this is why writing a copy back is
harmless), `AgentsSound` and `MineSound` (an agent at work, or about to start, has
what it depends on), `OneTask` (verification and application are of one task) and
`JobsOver` (no idle request has a job, so nothing running is taken for alive). The
first lemmas show that each function over the document keeps soundness.

Its second part is about one request thread, `Request = {r}`: two threads
lose each other's updates. `Shape` says that the copy of the request at work is one
move of the abstract life of a work item ahead of the file, and from it follows the
refinement `LifecycleIsKept`. `RestsClean` also assumes `Undisturbed`: no write
fails, nobody dies, no stream is closed and no repair is asked for (`flow_handoff`
and `flow_stuck` show what each of them leaves behind). `DeliveryIsDocumented`
assumes instead that every result is reviewed and nobody edits the architecture,
the two requests named in the table below; failures, closed streams and restarts
are allowed. Its invariant (`Sincere`) says of the file and of the copy that what
the documents do not cover keeps the gate closed, by the documentation task or by
a task that is not done.

**DocSyncProofs.** `DocsTypeCorrect` for all constants; `SyncedDocumentsAreFresh`
and `BlockedDocumentationIsShown` under `Sequential`: requests follow each other,
edits go through the agent, and the project was documented at first (each of the
three is needed, see the table below). The invariant says that the recorded changes
account for every document that is out of date (`Covered`), that a batch contains
them all and its texts are true (`BatchSound`: deepest first, so whatever lies
below was made before or is fresh on disk), that nothing is out of date once the
batch is written, and that the error node is written first (`NodeFirst`).

**FileLandingProofs.** `LandingTypeCorrect` and `LandingsKeepEdits` need nothing:
`SandboxInv` relates what a landing is about to write and what it replaces to the
base of its sandbox or of its patch. `LandingIsAtomic` assumes `Quiet` (nobody
snapshots, restores, commits or applies while a landing writes) and `Calm` (no
micro task is sandboxed meanwhile): `FreshInv` follows the change of the present
round through every file, sandbox, snapshot and the branch, and shows that it is
nowhere but in the task's own files; `RegistryInv` that one landing at a time has
the registry open. `LandingsCanBeUndone` assumes `Quiet` and `Serial` (nobody else
snapshots while a snapshot is made). `landing_parallel` and the lock-free routes of
`task_patch.py` and `snapshots.py` show that the code does not see to any of the
three. In looking for the
invariants TLC found that, with more acts of the user than the run allows, a
restored snapshot brings entries of a refused patch back into the registry, and
that a patch between a task's snapshot and its landing takes the snapshot's worth
away: `AllOrNothing` speaks of the registry when the landing gives up, and `Quiet`
keeps patches and restorations out of both intervals.

**AgentLoopProofs.** `AgentTypeCorrect` and `WorkSurvives` need nothing. The other
three assume `Steady`, a service that does not answer a request with tools in prose
and then reject the next (`agent_fallback` shows what happens otherwise). `FitInv`
says that the rounds in memory and those in the checkpoint were read from what they
stand beside (`FitTo`: in a git repository that is HEAD, not what the user edits),
and that an execution with a round of its own behind it has its own checkpoint
(`OwnCheckpoint`), which is what the legacy loop falls back on.
`NothingIsWrittenUnread` also assumes `Documented`, every directory has its
`AI_ARCH.md` from the start: `restore_checkpoint_sandbox` compares the digests of
the files there were, so a document the user adds between a checkpoint and its
resumption is never asked for, and what the checkpoint holds goes on unread. What
the folds over the calls of a round and the rounds of a history compute is proved by
induction (`StepsExist`, `StaysIn`): `Induction` takes a set in place of a
predicate, since the library's rule has an operator as its parameter.

**ContractRegistryProofs.** `RegistryTypeCorrect`, `SectionsAreHeld`,
`BatchesBuildOnDisk`, `WritesBuildOnDisk` and `UpstreamIsTold` hold for any number
of writers, deaths, landings and reconciliations, modules and symbols; the
assumptions only give the constants their types, say that the modules are finitely
many, and keep `Null` apart from everything else. The invariant of
the lock is `SectionIsHeld`, conditional on `robbed`. `ReadIsCurrent` says that
what a writer works from is what is on disk and what its agent expected, unless it
was misled; `MergeIsCurrent` that what a landing is about to write adds to what is
on disk, or moves nothing but its stamps, unless it was misled; `NoneBefore` (nobody
calls before there is a project) is for the first write of the file.
`BatchesBuildOnDisk` shows besides that a batch misleads no other batch, so that
the reservation of `RegistrySteps` hides only the removal of a live lock, reads that
fail, and writers that do not take the lock. `WritesBuildOnDisk`, which is
`RegistrySteps` as a whole, also needs the
registry to keep its keys apart (`Sound`: one entry per id), whether it can be read
or not: a landing persists a registry that nothing normalised, and only because it
leaves an export alone that its module already has does the difference by id, in
which `contracts_delta` speaks, say what happened. A batch that fails half-way is
followed through the recursive function of `ApplyBatch` by the induction of
AgentLoopProofs (`StaysIn`), stated here again. `UpstreamIsTold` compares the search
of `impact_for_roots`, a bounded number of rounds, with the least set that has the
stale owners and everybody who builds on a member, where a module that exports
nothing builds on the shared entries it uses only: the others are not told
(`contracts_impact`, below). Each round is inside every such
set; and as each takes a module not seen before (`SearchGrows`), after as many
rounds as there are modules what was seen is closed itself (`SearchEnds`).

**StudioProofs.** `StudioTypeCorrect` and `UndoGivesBack` hold however requests
overlap. `OneArchitectureKept`, `FailuresAreShown` and the refinement
`LifeOfAProject` assume `~ Overlap`, nothing is served while another request waits
for a model: with `Overlap = TRUE` the run `studio` breaks the first and the last,
and with three requests (a wave that fails, a micro task that waits with that plan,
a retry meanwhile) the second. A request writes its files one by one, so
the invariant speaks of what each file will say when all that is pending is written
(`Will`): a single write changes none of it, and every request is judged once,
when it begins to write (`Fine`). `Settled` says that the copies of the waiting
request will be current (`CallCurrent`), that draft and document of a built project
(`Built`) and plan and error nodes (`Agree`) will agree. For `LifeOfAProject`,
`Tells` says of each kind of request what it may still make of the draft (`Part`)
and of the document (`Rest`), beside the draft and the document there are: none but
an interview, a reopening and an edit changes what is shown in more than its claims.

`EditsAreFlagged` compares paths along edges, which decide what is flagged, with
paths along dependencies, which decide what is out of date. `SearchGrows` shows that
a search which has not found all it can find has found another module in each round,
so that `ReachedFrom`, a bounded number of rounds, is the least closed set
(`ReachedIsLeast`). Of the edges that `break_build_order_cycles` drops,
`BreakingLeavesNoCycle` shows that each would close a cycle: the recursive function
that keeps or drops one edge after the other in their order is the only set that
holds an edge exactly when it closes no cycle with those kept before it
(`SolutionIsOne`). `SimplifyingKeepsPaths` shows that whatever the canvas hides
leaves a path. Together they give `CoverInv`: in every architecture in a file, in
the history, in a pending write or in the copies of a waiting request, each
dependency has a path of edges, unless dependencies and edges form a cycle
(`Covered`). `FlagInv` says of the rest of an edit's writes that the flags on what
depends on the edit are there or come first, and that the draft is not written
before the document (`LeadsTo`), so that the canvas never shows the new architecture
without them. What the theorem leaves out is in the property: an edit of a name or a
verification alone is reported as a change and flags nothing. Two assumptions
besides `~ Overlap`: the bounds on the number of modules are positive (the code's
are 3 and more), and no module is both an entry and a composition root (`Entry \cap
Composer = {}`). A module can be both by its names and paths in the code;
simplification then hides every load order of it, whether something else leads to
its target or not.

Only model-checked: liveness (`JobIsClosed`, `WorkIsReleased`, `RequestEnds`,
`SyncEnds`, `StallEnds`, `CallEnds`), which is out of the prover's reach, as it
needs `ENABLED`.

## Where code and words differ

Two runs show a property violated that the repository states:

- `studio_stale`: `update_module_requirement` "marks the edited module plus every
  build-order dependent stale, which blocks their tasks until re-confirmed", but
  every edit writes the whole set of flags and takes the earlier ones away.
- `contracts_unreadable`: `normalize_contracts` is to reject ambiguous entries "at
  persistence time", but a landing persists the merged registry without
  normalising it. A package whose `__all__` hands on a symbol it imports adds a
  second export of that name; from then on `read_contracts` raises.

Further configurations of this directory, each violating the property it names:

| Configuration | Property | What happens |
|---|---|---|
| `flow_handoff` | RestIsClean | "A worker must never stay stuck in running", but `repair_task` returns on a handoff without writing `tasks.json`. |
| `flow_stuck` | CutOffIsRecovered | Recovery resets `running` only; a task left `verifying` by a closed stream (or `applying` by a dead process) is refused by every operation. |
| `flow_zombie` | OneAgentPerTask | A running task seen by a new wave "is a zombie", but a closed stream ends its job before its workers stop, and the next wave starts a second agent. |
| `flow_unapplied` | AppliedIsCurrent | `retry_task` takes a patch and an old verification output for a landed patch. |
| `locks_shared` | Exclusive | `clear_locks` at the start of a wave drops the locks of others. |
| `docs_edited` | SyncedIsFresh | An edit during a sync is overwritten by the copy the sync writes back. |
| `landing_review` | PatchesProtect | A patch is compared with the project as it was when the patch was made, not when the agent's sandbox was: what reached the project in between is dropped. |
| `landing_parallel` | AllOrNothing | A snapshot restored, or another patch applied, while a landing writes its files mixes the two. |
| `agent_fallback` | NoStaleReads | A service answers a request with tools in prose and rejects the next one: the legacy loop then loads the checkpoint, which the native loop had discarded because the user has edited what it read, without comparing it again. |
| `contracts_reap` | NoWriteIsLost | Two waiters find the dead lock old; the second removes the fresh lock of the first, and a write is lost, which the comment above `apply_deltas_atomically` excludes. |
| `contracts_impact` | EveryConsumerTold | `impact_for_roots` is to "propagate changes at `roots` to every downstream consumer", but the graph it searches has the dependencies of modules that export something: one without exports is never told, and cuts the chain. |
| `contracts_owner` | OwnerIsKey | A delta that adds a term or a schema of another owner takes it over and keeps the id that names the old one, though "id/type/owner ARE the entry's key". |
| `contracts_draft` | ProjectHasRegistry | Two functions of one name in an imported project: the draft of the registry does not normalise, and the project has an architecture but no registry. |

`landing_micro.cfg` checks the invariants of `landing` for a micro task, and passes.

The following are stated in the modules too; take the configuration named, with
the change named, to see them violated.

| Property | Configuration | What happens |
|---|---|---|
| TaskFlow ReadyMeansDocumented | `flow_gate` with `"edit"` | `mark_architecture_docs_dirty` derives the delivery status before it sets the documentation pending. |
| TaskFlow ReadyMeansDocumented | `flow_gate` with `"retry"`, `"reject"`, `"mode"`, `"cancel"` | A second landing with nothing new replaces `code_changed_files` by an empty list; the task is skipped by `register_completed_documentation`. |
| TaskFlow ReadyMeansVerified | `flow_gate` | `applied` counts as done for the delivery. |
| TaskFlow DependenciesVerified | `flow_gate` | `ready_tasks` accepts applied dependencies; README.md says applied and verified. |
| TaskFlow LandsInAutoOnly | `flow_rest` | The apply mode is read before verification and repair; a switch to review comes too late. |
| TaskFlow StaleIsTemporary | `flow_rest` | A task blocked by a stale mark is not unblocked when the mark is cleared. |
| ExecutionJobs OrphanIsForeign | `jobs_overlap` | `reconcile_jobs` says it orphans jobs of another process instance, but compares no owner; overlapping requests orphan a job of this process. |
| WorkspaceLocks NotSelfBlocked | `locks_wave` | A stale entry of a task blocks the same task. |
| DocSync SyncedIsFresh | `docs_sync` with `DirectEdits = TRUE` | Node and edge edits on the graph never mark the documents. |
| DocSync SyncedIsFresh | `docs_sync` with `Undocumented = {"b"}` | A directory made by hand has no document and is in no list of changes; a batch cut after its document was written leaves its parent stale. |
| Studio PlanIsOrdered | `studio` | `depends_on` may stay cyclic (a drawn cycle, or a merge of the ends of a chain): only edges are made acyclic, the items are derived from `depends_on` and wait for each other for ever. |
| Studio FailedTurnKeepsItsQuestion | `studio` with `MaxRequests = 3` | "A failed call must not consume the turn", but after a failed last profile answer the interview has no question and accepts no answer. |
| Studio OneArchitecture | `studio` with `Overlap = TRUE` | An edit served while another request waits for a model is overwritten by its copies. |

Found while modelling, and part of the modules' actions without a property:

- `finish_job` writes `completed` into the handle before it looks for a stop
  request. A cancel that falls in between records `completed`, and `finish_job`
  `cancelled` after it: who read the file in between saw an outcome that was not
  final.
- A task can be applied with nothing written. `apply_task_hunks` with an empty list
  of hunks writes the old text back and counts the file as accepted;
  `apply_task_partial` counts a file as accepted that an earlier patch of the task
  left in `applied_files`, which no new generation empties, and does not write it.
  Its dependents are generated all the same.
- In a git repository an agent's sandbox is a worktree of HEAD, and its checkpoint is
  compared with a new worktree of HEAD. "All previously observed source must still
  match; never continue from stale reads" (`restore_checkpoint_sandbox`) holds of
  what is committed: an edit the user has not committed between a stop and the
  resumption is not noticed. `NoStaleReads` compares with the sandbox.
- A new name or a new verification of a module is reported as a change of it
  (`SEMANTIC_MODULE_FIELDS`), and flags neither the module nor what depends on it.
- An interview begun over an old project leaves its `architecture.json` where it is.
  Reopening the new draft once it is `ready` takes the old document in its place.
- A landing writes the registry it merged from an earlier read, without the lock
  and without a guard for that file: a batch, or another landing, committed in
  between is lost. A batch without an expected hash that meets a `contracts.json` it
  cannot read replaces it by one built on an empty registry. A landing in a project
  without a registry writes none.
- A requirement edit changes the object it read, so the history entry it pushes
  already holds the edit when there is no separate draft or document;
  `UndoRestores` leaves this case out. Undo pops the history before it writes, and
  neither it nor a requirement edit brings the plan up to date. A model's edit in
  the review pushes the old document, so that its undo drops the draft.
- Edits in the ready phase are built without another confirmation; a model's edit
  drops the claims; requirement and model edits make an `architecture.json` in the
  interview; deleting nodes may empty the architecture outside the review.
- A load order that runs against a dependency takes the dependency's own edge away:
  normalisation breaks the cycle of the two by the order of names, and what depends
  on an edited module is then not always flagged. TLC found it on the draft
  `Against` while the invariant of `EditIsFlagged` was prepared, which had excluded
  cycles of dependencies only; it now excludes those with edges as well.
- Two modules that depend on each other cannot be merged; a merge loses the files
  of its sources, a split gives both halves all files.
- A micro task declares the plan confirmed, appends to a stale copy, and an
  exception in its generation skips its last write; a plan derived anew drops it.
- `merge_planned_modules` does not look for ids that collide.
- The server has no route for `/api/tasks/confirm`, which the frontend posts
  (`frontend/src/api/tasks.ts:57`).
- A module whose own interface is stale is told so as a "direct dependency"; the
  note comes back at each landing, since nothing clears the mark; reconciliation
  never sets it, as the comment at `core.py:126` says it does. A module without
  exports puts no limit on what is imported from it. `apply_deltas_atomically` and
  `apply_reconcile_to_contracts` have no caller outside the tests yet: the runs
  show what they offer one.

## Not modelled

TaskFlow: the direct fallback of generation (without a sandbox) is merged with the
sandbox landing; `DependsOn` is constant, though an edit may change it; which
tasks a wave is granted is any subset of the ready ones (that it is a good one is
WorkspaceLocks'); micro tasks are not requests of TaskFlow; file errors outside
the handlers that expect them occur where `IOFails` is set.

DocSync leaves out the delivery status, directories of dependent modules (they
are rewritten too, which only adds to the batch), the ignore list, a failing
write in `_finish_documentation_sync`, an edit of a module none of whose code
ever landed, and the proposal of `sync_architecture_from_tasks` to rewrite the
architecture.

FileLanding leaves out permissions, links, the size limits of snapshots and the
ids that repeat within a second. Under `Quiet`, `Serial` and `Calm` nobody
snapshots, restores, commits, applies or copies the project while a landing
writes; the table above says what happens otherwise.

AgentLoop keeps of an execution the last rounds, the rounds since a write and the
repetitions of the last call; tools that change nothing are one tool; the wording
of prompts and reminders, token budgets and the step log are left out. ModelClient
leaves out the image request and the plain stream, which are sent once.

Studio serves one request at a time (`Overlap = FALSE`), as the client does; a merge
takes one source and a target; a module has at most one task; groups, reasons, what
an edge says, layout and the version number are left out; a module's name and
verification are one version number, its responsibility, brief, path and `needs_ui`
another, so that a new path counts as a change rather than a move, and a rename
makes no module an entry or a composition root; `set_interview_mode`, the aspects of
the interview, triage of errors and the finalization of imported projects (which
needs the external `docuagent_pro`) are left out. A load order is a `blocks` edge;
the code also knows one by its label. With several composition roots the order of a
Python set decides which edges simplification drops: `GraphAssumption` allows one
root.

ContractRegistry does not count time: a lock may be found old and a waiter may give
up at any moment, which covers every real timing. Entries of one id are told apart
by their content. Recipes, aliases and `consumes` are left out, and so are files
other than Python, which the lint skips. A note names all stale entries (the code:
the first three). A read that fails does so for reasons outside the model, at any
moment: being unreadable is no state of the file, except for a registry that does
not normalise. `contracts_reap` drops the reservations of `RegistrySteps` about
`robbed` and `misled`.

Contents of prompts, patches and documents, layout, formatting and logging are
data. Components marked `not_modelled` in `PROJECT.json` say why.

## Plan

1. The request table of the language-server bridge (`codeintel/lsp_bridge.py`):
   answers that come late, out of order or never.
2. Layout differences and tool policies as operators, checked against set
   definitions.
3. Several tasks per module in WorkPlan, and micro tasks as requests of TaskFlow.
