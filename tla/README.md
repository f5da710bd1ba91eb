# Bitloops daemon: TLA+ models, checks and proofs

This directory models the part of Bitloops that must not lose work: the queues
between the short-lived producers (agent hooks, Git hooks, the file watcher, the
CLI) and the long-lived daemon that turns what they report into an up-to-date
index of the repository. Paths below are relative to `src/bitloops/src/` unless
they start with `src/`.

## 1. Inventory

Bitloops is a CLI and a daemon. Agent hooks and Git hooks are processes of a few
milliseconds; they only write a row into the repository's SQLite runtime file and
exit. The daemon polls these rows, replays or executes them, and may be killed and
restarted at any moment. Everything shared is in SQLite, one transaction at a time.

| Part | State | Operations | What makes it correct |
|---|---|---|---|
| Agent lifecycle spool (`host/runtime_store/repo_lifecycle_spool.rs`, `.../worker/lifecycle_spool.rs`) | table `agent_lifecycle_spool_jobs` (sequence, status, attempts, available_at), a legacy table | hook insert, legacy migration on open, claim of the head, replay, delete, requeue with backoff, dead-letter, recovery at start | strict sequence order, one row running, at-least-once, bounded retries, no head stuck for ever |
| DevQL task queue (`daemon/tasks/queue.rs`, `coordinator.rs`, `coordinator/state.rs`, `worker/execution.rs`) | persisted task list, paused repos, spawned executions | enqueue with coalescing, scheduling by lane, completion, failure, requeue, cancel, pause, resume, pruning by policy, retention, recovery | one running task per lane, policy barrier, coalescing never weakens accepted work, every task ends |
| DevQL producer spool (`host/devql/producer_spool/*`, `.../worker/spool.rs`) | table `devql_producer_spool_jobs` | enqueue with dedupe and merge, claim with admission, policy pruning and derivation guards, delete, requeue, recovery | one running job per repo, no produced work lost, no duplicate pending rows |
| Worker loop (`.../worker/activation.rs`, `reconcile.rs`) | what one cycle has read so far | recover, reconcile policy, claim spool jobs, schedule tasks | jobs and conflicting tasks never run together; edits reach the index; the policy reaches the index |
| File watcher (`host/devql/watch.rs`, `capture.rs`) | batch of changed paths | collect, flush as a path sync or as a checkout sync | an edit is never dropped between batch and spool |
| Post-commit hook (`host/checkpoints/strategy/manual_commit/...`) | none | spool refresh, derivation, ingest, in this order | derivation sees the refreshed state |
| Sync execution (`host/devql/commands_sync/orchestrator.rs`, `exclusion_reconcile.rs`) | current-state rows, policy fingerprint | read policy and tree, write rows, record fingerprint | the recorded policy is the applied one |
| Capability events (`daemon/capability_events/*`) | per repo a log of sync generations, per consumer a cursor and run rows | record a generation and schedule runs, force or clear a run, claim, plan, complete, retry, retention, recovery | one run at a time, the cursor never passes what a consumer has seen nor goes back, a lane that lags has a run or a reason |
| Enrichment workplane (`daemon/enrichment/*`, `host/runtime_store/repo_workplane/*`) | mailbox rows with leases, clone rebuild job | enqueue with dedupe, lease a batch, compute, the two commit protocols, retry, lease expiry, pruning, retry of failed rows, restart | no enqueued artefact is lost, committed embeddings reach a rebuild, every row settles |
| Init runtime (`daemon/init_runtime/*`) | the document of init sessions | start a session, handle the update of a task, stage the ingest, enqueue follow-up syncs, derive and record the status | no session is stranded, a completed session is complete and indexed with every bootstrap |
| Checkpoint sessions and strategies (`host/checkpoints/*`) | session phases | turn and commit events | not modelled yet, see section 2 |
| Supervisor and service files, config reload, auth, ingestion and query, inference, capability packs, adapters, API and CLI plumbing, telemetry | - | - | not modelled, see section 8 |

How they interact: hooks and the watcher write to the two spools from their own
processes. The daemon's worker claims spool rows and turns most of them into tasks
of the task queue; the CLI and the init runtime enqueue tasks directly. The worker
and the task executions touch the two stores in separate transactions, so what was
read in one is stale in the next. A sync that completes records a generation, which
schedules runs of the current-state consumers; their work fills the mailboxes of the
enrichment workplane. Every change of a task is published, after the queue's lock is
released, to the init runtime, which may enqueue the next task of its session.

The hard behaviours are the interleavings of hook processes, worker, spawned runs
and executions; a crash between any two transactions; statements that fail and are
only logged; guards computed from an earlier read; coalescing of requests of
different strength; and the policy file, which changes under everything.
`PROJECT.json` lists these hazards at the lines where they bite, with the
properties that cover each.

## 2. Plan

Done: the lifecycle spool, the task queue, the producer spool, the composition of
the last two in the worker loop, the capability events, the semantic mailboxes of the
enrichment workplane, the init runtime, and for each of them the proof of every
invariant its runs check (section 7). Next, in order:

1. Two-repo instances of `ProducerSpool` and `DaemonWorker`, the latter for the
   `reconcile_blocked` hazard (one repo's pending policy sync holds back every repo's
   spool), and post-merge and pre-push payloads in the composition. The theorems
   already cover any number of repos; the instances are for the liveness question.
2. The control document of the enrichment workplane (pause, resume, readiness), whose
   load and save from two processes may lose an update.
3. `SessionPhase` of the checkpoint strategy, and the watcher's registration, restart
   tokens, git-lock deferral and rescan.

## 3. Modules

| Module | Models | Built on |
|---|---|---|
| `FifoDelivery` | abstract specification: durable FIFO queue, at-least-once delivery, dead letters | |
| `LifecycleSpool` | agent lifecycle spool, hooks, worker, recovery, and the mapping of its table to `FifoDelivery` | `INSTANCE FifoDelivery` |
| `LifecycleSpoolProofs` | its theorems, the refinement of `FifoDelivery` among them | `LifecycleSpool` |
| `TaskQueue` | DevQL task queue and executions | |
| `TaskQueueProofs` | its theorems | `TaskQueue` |
| `ProducerSpool` | DevQL producer spool and spawned runs | |
| `ProducerSpoolProofs` | its theorems | `ProducerSpool` |
| `DaemonWorker` | worker loop, watcher, post-commit hook, sync execution, policy | `INSTANCE TaskQueue`, `INSTANCE ProducerSpool` |
| `DaemonWorkerProofs` | its theorems | `DaemonWorker` |
| `CapabilityEvents` | generation log, cursors and runs of the current-state consumers | |
| `CapabilityEventsProofs` | its theorems | `CapabilityEvents` |
| `SemanticMailbox` | mailboxes, leases and commits of the enrichment workplane, the clone rebuild | |
| `SemanticMailboxProofs` | its theorems | `SemanticMailbox` |
| `InitRuntime` | one init session over a task queue | |
| `InitRuntimeProofs` | its theorems | `InitRuntime` |
| `MC*` | instances for TLC | |

Each of the two queue modules separates what an operation does to its own store
(`EnqueueStep`, `StartTasks`, `CompleteStep`, `ClaimStep`, `RecoverStep`, ...) from
the action around it, which adds the history variables and `UNCHANGED`.
`DaemonWorker` composes the same store steps, so the composition and the
component runs check one text. Definitions commented "Slip:" are plausible
mistakes in that code, each the mutated form of the definition after it; no
specification uses them.

### LifecycleSpool
`spool` is the table, one row per hook invocation; `sequence` is the
AUTOINCREMENT key and `ready` says whether `available_at_unix` has passed.
`hook[j]` follows `enqueue_lifecycle_job_hook_safe_at`: the open, which migrates
the legacy table, and the insert are two transactions. `worker` holds the claimed
record with the attempt count it read. `ClaimNextLifecycleJob` takes the oldest
active row and nothing when that row is running or in backoff.
`DeleteLifecycleJob`, `MarkLifecycleJobFailed` and `RequeueLifecycleJob` settle
the row, `SettleFault` is the settling statement returning an error through `?`.
`RecoverFault` is the recovery that `activate_worker` only logs. `applied` is
history.

### TaskQueue
`tasks[t]` is the record of the t-th submitted task. Ids are submission order,
which is also the order of the persisted vector, so "the first task such that" is
the least id. `exec[t]` is the spawned execution with the mode and paths it
captured when it started: a merge after the start changes the record and not the
execution. `Subsumes` and `Extends` are the two searches of
`merge_existing_task`, `KeepDistinctProducerSources` its producer rule,
`Startable` and `NextRunnable` are `next_runnable_task_indexes_blocking_repo_ids`.
Every mutation ends in `PruneTerminalTasks`, as `save_state` does. `demand[t]` is
history: the requests that were answered with task t.

`ConstantsAssumption` says two things of requests: a request has a sync mode
exactly when it is a sync, and a policy request is a full sync. The second is what
the only caller with that source does (`worker/reconcile.rs`). It matters: the
second search of `merge_existing_task` would keep the old source for a policy
request that names paths, and the barrier would not apply to it.

### ProducerSpool
`jobs[j]` is the j-th inserted row. `job_id` is a random UUID, so where the code
orders by it the choice is open. `Claim` is
`claim_next_producer_spool_jobs_excluding`: prune by policy, drop the derivations
of failed commits, skip what is held or conflicts, at most one row per repo,
smallest sort key first. The running tasks, blocked repos and derivation guards are
parameters of the claim: the module allows any, `DaemonWorker` supplies the ones the
worker read. `unserved` is history: items (key and path) that were produced and that
no run has taken on since.

### DaemonWorker
One action per access of a store: `ReconcileCheck`, `ReconcilePrune`,
`ReconcilePromote`, `LoadState`, `ClaimJobs`, `ListRunningSpoolRepos`, `StartTasks`
are one cycle. Spool runs (`RunnerStep`) and executions (`ExecStep`) interleave
with them. `reading[t]` is what an execution read at its start (paths and policy),
`index` the paths with current-state rows, `stored` the recorded fingerprint, as the
policy it is the fingerprint of. `owed` is history: edits no sync has read.

### CapabilityEvents
`generations[r]` is the log of repo r, a generation kept as its
`requires_full_reconcile` bit; `cursor[l]` is the lane's last applied generation,
a lane being a repo and a consumer; `runs` are the run rows in submission order.
`RecordGeneration` is `record_sync_generation` with `ensure_consumer_run` for every
consumer. The spawned task of a run goes through `exec[i].phase`: claimed, planned
(the log is read again), ok or error, then the completion transaction. A fault of the
claim, the completion or the recovery is only logged. `applied` and `dropped` are
history: what each consumer was shown, and the lanes whose latest generations no run
carries. A generation recorded after a running run made its plan is such a case: the
code schedules nothing for it until the next generation.

### SemanticMailbox
`rows` are the mailbox rows, one per artefact and mailbox plus the backfill rows,
with status, attempts, payload and lease token; `worker[w]` is the batch a worker
holds, of which only the token binds it to the rows. The summary mailbox commits
results, follow-ups and acknowledgements in one transaction; an embedding batch first
writes the relational store and then finalises the rows, and the two may be separated
by a crash, a fault or the expiry of the lease. `rebuild` is the clone rebuild job.
`wanted`, `shed` and `missed` are history: what was enqueued, what the code drops by
design (an enqueue that meets a leased or failed row of its key, a payload overwritten
by a late finalisation, a pruned row), and the rebuild signals that can get lost.

### InitRuntime
`session` is the document of one init session, `tasks` its task records, `starting`
what `start_session` has still to do. `calls[th]` is the stack of
`handle_task_update` calls thread th is in: the first transaction (`Apply`), the
staged ingest (`StageIngest`, `IngestStaged`) and `maybe_enqueue_follow_up_sync`
(`CheckFollowUp`, `EnqueueFollowUp`, `SetFollowUp`). The enqueue publishes the new
task in the same thread, so calls nest. Threads are the task executions, the worker
and the API; a call's steps interleave with those of the others. The update of a task
that has not ended changes nothing but the time unless a follow-up sync is due, so
it is a call only then; a call that finds it due later is one of `Progress`.
`polls[p]` is a poll, in the API or in the process of `bitloops status`:
`current_session_view` reads the document (`ReadSession`), the workplane statistics
(`LoadStats`), the tasks and the lanes (`LoadTasks`), and records a terminal status
in a later transaction (`RecordStatus`), each time of the session as it is by then.
Calls, executions, crashes and other polls come in between, and a poll may stop
anywhere (`Abandon`). The tasks are loaded in one step although the code loads them one
after the other: a status is recorded only when they have all ended, and an ended task
stays ended. Only a follow-up sync may still be queued, and it can count only beside a
bootstrap that the document the poll holds has already numbered. What the code derives
from the progress of the lanes is one bit, `behind`, chosen anew by each poll: a selected
embedding lane lacks artefacts and has no job for them and no failed one. It waits, and
so does the session (`LaneWaits`). `maybe_enqueue_follow_up_sync` also reads the
document first and the tasks later; the model gives that window to the gap between
`CheckFollowUp` and `EnqueueFollowUp`, which is open to the same steps.
`fate`, `covered`, `missed` and `overtaken` are history.

## 4. Runs

| Run | Shows |
|---|---|
| `lifecycle_spool` | Three hooks, two crashes, two failed statements. Only the head runs (`RunningIsHead`), a claimed record is never stale (`ClaimStillHeld`), attempts beyond the budget are owed to crashes (`RetryBudget`), a row leaves only after success (`LeavesOnlyAfterSuccess`), the whole implements `FifoDelivery`, and every job is deleted or dead-lettered unless a failed statement leaves the head running without a worker (`SettlesUnlessHeadStuck`). |
| `task_queue_coalescing` | Requests of one repo over three lanes, every pending class and an init session that defers retention, through merges, starts, requeues, cancels, pauses, pruning, a schema rebuild, a crash and a logged error: one running task per lane, the policy barrier, no execution of a task that is not running, accepted work stays covered, and nothing waits for ever behind the barrier, the ingest-after-sync rule, a lane or a crash (`EveryTaskEnds`). |
| `producer_spool` | Watcher batches and a derivation of one repo with policy edits, retries, a crash, a failed statement and a sync task that may run beside the claim: one running job, no work lost, no duplicate pending row. |
| `daemon_convergence` | A file edit and a commit's refresh, derivation and ingest travel through spool and queue into syncs while a crash and a failed statement or recovery interleave: `NoEditForgotten`, `AdmissionExcludes`. |
| `daemon_liveness` | Two edits of a file, a manual full sync, a policy edit and a crash: `EveryEditIsRead`, and again `NoEditForgotten`, now with policy edits and policy syncs. |
| `capability_events` | Two generations, two consumers, forced and cleared runs, failing consumers, crashes and failed statements: `SingleFlight`, `CursorTruthful`, `CursorNeverRegresses`, `ClaimedRunHasWork`, `RetryBudget`, `LagIsExplained`, and `EveryRunEnds` unless a failed statement leaves a run without its task. |
| `semantic_mailbox_embedding` | Two workers on the code embeddings: `NoWorkLost`, `RebuildOwed` and `EveryItemSettles` across an expired lease, a fault between the two commits, a crash or a retry request. |
| `semantic_mailbox_summary` | The summary mailbox feeding the embeddings of the summaries, with one worker each: `NoWorkLost`, `RebuildOwed`. |
| `init_runtime` | Three selections, two calls at once or a call and a poll: `NoStrandedSession`, `CompletedIsTrue` and `CompletedCovers` across a crash, a failed statement or task, a cancel or a requeue. |

Some properties have exceptions, each a named predicate or a history variable, and
each a thing the code does: `StuckHead` and `StuckRun` (a failed statement leaves a
row running until the next start), `dropped` and `shed` (above), the two `missed`,
`Forgotten` (after a failure was recorded the session no longer protects its tasks;
once retention dropped the failed one, a later poll may find the session completed)
and `ReplacedFailure` (a thread checked that a follow-up sync is due, the follow-up
another thread had enqueued failed, and the first thread then replaces its id; if its
own sync ends before the id is stored, neither the failure nor the completion shows
and the session waits for ever). Two more of `InitRuntime` belong to the poll:

- `StillOwed` of `CompletedCovers`. A poll reads the document while the initial sync
  runs. The sync ends, its end is handled with a bootstrap not ready, and a follow-up
  sync is now required; then the bootstrap ends. The poll loads its tasks by the old
  document, finds all of them completed and no follow-up required, and records a
  completion although a follow-up sync is due. Nothing takes that status back. What
  holds, and is checked and proved, is that the follow-up sync is made all the same:
  once the session is quiescent the bootstraps are covered, unless a task failed. The
  history variable `overtaken` marks a completion recorded this way.
- `behind` of `NoStrandedSession`. A row of an embedding lane that was pruned, or
  dropped at its enqueue because the row of another session had failed, leaves the lane
  with progress to make and no job to make it. The session then waits until something
  else enqueues the artefact. `init_runtime/tests.rs:2890` says that a session waits for such a
  lane; that the wait may have no end is what the exception names.

They are as narrow as the check allows, and a reader
who changes the code should see them shrink.

Three runs are expected to end in a counterexample. Each states what a document, a
comment or a test of the repository says and shows what the code does:

- `lifecycle_spool_legacy`: the legacy table is copied on every open and never
  emptied, so a legacy job that was replayed and deleted comes back and is replayed
  again.
- `daemon_derivation`: the guards that hold a derivation back while its commit's
  sync is queued or running come from a task state read before the claim. A refresh
  job that enqueues the sync and deletes its row between the two lets the derivation
  through.
- `daemon_policy_race`: a sync that is not a policy sync records the policy as it is
  at the end although it read the tree under the policy at its start. An edit of the
  policy in between counts as applied, and rows of the excluded path stay.

## 5. Bounds

The bounds are constants named `Max*` and appear in guards only.

- Lifecycle spool: a budget of 2 attempts distinguishes a first failure from the
  last, 3 jobs give a head, a successor and a late insert, 2 crashes allow a crash
  during the recovery from a crash.
- Task queue: 2 tasks suffice for a merge, a busy lane or a barrier conflict, since
  each property relates two tasks and a merge adds none; the theorems remove the
  bound.
  `MaxTerminal = 1` makes retention drop tasks (the code keeps 64).
- Producer spool: 3 rows, one running, one pending with the same key and one other;
  the clock has 2 values with a backoff of 1, so a row is in backoff and out of it.
  One repo: rows of different repos meet only in the batch of a claim, which takes
  one of each.
- Daemon: in `daemon_liveness` 2 edits of a path, so that one may precede and one
  follow each read, with one manual sync, one policy edit and one crash; in
  `daemon_convergence` an edit of one path and a commit of another, with one crash and
  one fault. `MaxTime = 0` in the liveness and finding runs switches retries off. The
  claim batch limit is above the number of repos and is never reached.
- Capability events: 2 generations let one be recorded while a run carries the other,
  3 runs give each consumer one and a successor; 2 attempts tell a retry from a
  failure; 2 upsets (requests, clears, crashes, faults) meet each other.
- Semantic mailboxes: 2 artefacts, so that a backfill can be split and a batch can
  hold a part of it; 2 enqueues; one upset; `BatchSize = 1` makes every second row a
  chunk of its own and 2 attempts tell a retry from a failure.
- Init runtime: 5 tasks allow two follow-up syncs after a sync and two bootstraps.
  `MaxCalls = 2` counts calls and polls together: two racing threads, one nested call,
  or one poll beside a call. One poller; the proofs allow any set of them. One upset: a
  crash, a cancel, a requeue, or a failed statement, task or consumer run. The
  selections are a sync with an ingest and a bootstrap, a sync with both, and an ingest
  with one. Retention drops no task of the session during a call or a poll: the code
  keeps the last 64 ended tasks, and so many do not end within one.

Deadlock checking is off because every system here may run out of bounded work.

## 6. Fairness

Weak fairness only, and only for what the code drives by itself: `run_loop` polls
for ever (claim, schedule, every step of a cycle), a spawned run or execution
returns, timers fire (backoff, debounce, clock), and the service manager starts a
daemon that is down. Nothing is assumed of users, hooks, handlers' verdicts, faults
or crashes. `daemon_liveness` has no failed statement: after one that is only logged a
row stays running until the next start. The other liveness properties allow faults and
name that case instead.
`EveryEditIsRead` counts an edit as settled when the sync that was to read it ends
as failed, which the user sees in the task list; the code does not retry it. An edit
of an excluded path may be dropped. Leases expire by the clock, so their expiry is
fair; the workers of the enrichment pools poll.

## 7. Proofs

Every invariant and every action property that the passing runs check is a theorem,
and so is the refinement of `FifoDelivery`: for every value of the constants that
meets the named assumptions, every obligation checked by TLAPS (SMT, Zenon and LS4).
Each module proves one inductive invariant, `IInv`. Below: what `IInv` adds to the property, and why the
property is not inductive without it.

The `ASSUME`s of the modules say what kind of values the constants are. Three
assumptions say more.
- `NoLegacyTable` (lifecycle spool): the runtime file has no legacy table. With one,
  copied rows bring their own statuses and attempt counts, and
  `lifecycle_spool_legacy` shows what becomes of them.
- `CommitNamesFiles` (producer spool, for `NoProducedWorkLost` only): two refreshes
  with the same key name the same files. A hook lists the files of its commit with
  `git diff-tree`. When that fails, the hook of a post-commit goes on with an empty
  list; two such hooks for one commit of which one fails are outside the theorem.
- `Repos # {}` (`DaemonAssumption`): a daemon without a repository has nothing to do.

`LifecycleSpoolProofs` proves `TypeOK`, `RunningIsHead`, `ClaimStillHeld`,
`RetryBudget` and `LeavesOnlyAfterSuccess`. The invariant adds three facts.
`SequencesDistinct`: sequences of present rows are fresh and distinct; without it
"oldest" does not name one row. `BudgetByStatus`: how far a row of each status may be
into its budget; the budget alone is not inductive, because a running row of a dead
daemon may be claimed once more. `SuccessWasApplied`: the row about to be deleted was
replayed. `SpoolImplementsFifoDelivery` proves the refinement step by step: an insert
is an arrival at the tail, a delete is the delivery of the head, the last failure a
dead letter of the head, everything else a stutter. The table is a set of rows
numbered with gaps and the abstract queue a sequence, so the mapping orders the
active rows by rank; `PositionIsBijection`, `InsertAppends` and
`RemoveOldestLeavesTail` say that a new largest number extends that sequence at its
end and that removing the smallest leaves its tail.

`TaskQueueProofs` proves `TypeOK`, `OneRunningPerLane`, `PolicySyncRunsAlone`,
`ExecutionsAreRunning` and `AcceptedWorkStaysCovered`. The invariant adds
`FreshIds` (an id not handed out yet carries no record and no demand, so a new task
starts clean), `WellFormed` (a live task has a sync mode exactly when it is a sync,
so that a merged ingest is compared with what was asked) and `PathsUntouched` (while
an execution captured a path sync, its record is still a path sync, so turning it
into a repair after a schema rebuild only strengthens it). The lemmas
`PruneKeeps` and `MergedRecordKeeps` say what retention and a merge may change;
`PolicySyncRunsAlone` rests on the merge leaving a running task's source alone.

`ProducerSpoolProofs` proves `TypeOK`, `OneRunningJobPerRepo`, `RefreshesPendingRow`
and `NoProducedWorkLost`. `FreshSlots` lets a new row start clean, and
`RunnerHasItsRow` says that a run works on the payload of the row it claimed: a
merge never touches a running row. `RowsWithinProduction` says that a row of a
replaced kind names no file that its commit does not name, so that replacing its
payload loses nothing. `UnservedIsHeld` is `NoProducedWorkLost` without its exception
for excluded work: such work stays in its row until a prune takes it out of the row
and of the history at once.

`DaemonWorkerProofs` proves `TypeOK`, `AdmissionExcludes` and `NoEditForgotten` of
the composition. `AdmissionExcludes` is about a claim and a scheduler of which each
decides on an earlier read of the other's store. It holds because those reads
are never too small (`ClaimKnowsTasks`, `StartKnowsJobs`): tasks and rows end behind
the worker's back, but only the worker itself makes them running, in a later step of
the same cycle. `ExecOwnsRunning` and `RunnerOwnsRunning` tie spawned work to a
running record of a live daemon. For `NoEditForgotten` the delicate steps are those
that move an edit between the stores. A row that carries an edit is deleted only after
its sync was enqueued, and that may be merged into a sync already in the queue. While a
row that feeds a sync is running no sync of its repo runs (`AdmissionExcludes` again),
so the sync it is merged into is queued and has yet to read. `ExecWithinRecord` says
that an execution reads no more than its record targets, so that a requeue, or the
restart after a crash, reads again what the lost execution had read.
`LoadsFromProducers` gives the rows the shapes that these arguments need. The proof showed a gap in
the first statement of the property: an edit made while its file was excluded may be
pruned, and when the policy goes back to what it was before any cycle has seen it
change, no sync reads that edit. `EditPolicy` therefore drops such edits from `owed`.

`CapabilityEventsProofs` proves `TypeOK`, `SingleFlight`, `CursorTruthful`,
`ClaimedRunHasWork`, `LagIsExplained`, `RetryBudget` and `CursorNeverRegresses`.
`PlanStillFits` is what a run relies on between its plan and its completion, while
generations are recorded and lanes cleared: its range starts at the cursor, and it
ends where the log ends or its lane is named in `dropped`. `ActiveRunHasWork` is why a
plan never finds nothing; `BudgetByStatus` and `FreshIds` are as above.

`SemanticMailboxProofs` proves `TypeOK`, `NoWorkLost` and `RebuildOwed`.
`BatchesFit` accounts for a batch while others may take its rows away: every row it
still holds by token is within its ids, and what it will not commit is in the rest
that its finalisation puts back. `RowsCarryWork`, `OneEmbeddingBackfill` and
`SummariesFirst` say which rows can exist side by side. `EveryEmbeddingOwed` is
`RebuildOwed` with the mailboxes told apart: a repeated summary batch finds its
embeddings fresh and signals nothing, so only a row of the code mailbox can still bring
a signal. In the attempt to prove it, `RebuildOwed` turned out false with two upsets,
one more than the run allows: the rebuild signal of a batch that is interrupted between
its two commits can be lost for good, when its rows are gone or come back as fresh. The
code does that, and the model now names it (`Interrupted`, one of the exceptions of
`missed`).

`InitRuntimeProofs` proves `TypeOK`, `NoStrandedSession`, `CompletedIsTrue` and
`CompletedCovers`, for any number of tasks, of calls at once, of polls and of upsets,
where the run has five, two, one and one. Four facts carry it. `CompletionsSeen`: a task that
completed has its call on the way, or its completion is numbered in the session, or
`missed` says why not. `IngestIsStaged` and `DueIsChecked`: after the initial sync the
ingest is listed or a call is about to stage it, and a follow-up sync that is due will
be looked for, by a call on its way or by the one that the end of an active sync will
make (or a failure was replaced, the exception of `NoStrandedSession`). The second is the hard one, because a thread may have checked, found nothing
and returned before another makes the follow-up due: what makes it due is itself the
first step of a call that checks after it. `LateIsNumberedLater`: a bootstrap
that no sync's completion found ready has a larger number than every sync, which is
what `NeedsFollowUp` compares. `CallsFit` and `CalledOnce` say what a call may rely on
from one transaction to the next while other threads run (the task it is about has not
changed its end, its completion is not numbered yet, nobody else stages the ingest);
`SessionTruthful`, `FatesRecorded`, `ListedTasks`, `RolesFilled`, `StartListed` and
`NothingBeforeStart` tie the document to the tasks it lists. For the end of a session,
quiescence then leaves only listed tasks that completed, all numbered, and nothing
due.
What a poll has read is old when it is used, so it has an invariant of its own,
`PollsFit`: what its document notes of a task is still true of it, whether or not the
session has moved on, and a bootstrap that no sync covered has in that document, too,
the larger number. It is kept because no step of another actor takes anything back
(`Forward`, proved action by action: the session keeps its task ids but for the
follow-up sync, ends of tasks are final, what is covered stays covered).
`CoveredOrOvertaken` is the inductive form of `CompletedCovers`: a recorded
completion was covered, or the poll's document was older than the end of the initial
sync. That the follow-up sync is then made is not a matter of the poll: it follows from
`DueIsChecked` and `LateIsNumberedLater` at quiescence (`OwedIsMade`).

Only model-checked: liveness under fairness, which is out of the proof system's
reach: `SettlesUnlessHeadStuck`, `EveryTaskEnds`, `EveryEditIsRead`, `EveryRunEnds`
and `EveryItemSettles`.

## 8. Abstractions and what is not modelled

- Payloads, snapshots, progress, timestamps, results, logs and wording are left
  out. A commit stands for the post-commit snapshot, and for the set of commits an
  ingest names.
- An execution reads policy and tree in one step and writes the index in one step
  at its end. A real sync visits paths one after the other; the window between the
  read and the write is kept, the order inside it is not.
- A failed statement leaves the store unchanged: each is one transaction.
- In `DaemonWorker` no repo is paused, there are no init sessions, the lifecycle
  spool is empty, the producers are enabled, and post-merge and pre-push payloads are
  not produced. The watcher is its batch and the two ways it flushes. A file edit is
  noticed by the watcher in the same step.
- In `CapabilityEvents` a consumer's own work is an outcome, and which files and
  artefacts a generation lists is left out. In `SemanticMailbox` readiness, pause,
  worker budgets and the priority among mailboxes are open choices; an artefact id is
  derived from its content, so a committed result stays fresh. In `InitRuntime` there is
  one session, the queue is reduced to the kinds and statuses of its tasks,
  consumer runs and enrichment of the session are one external `work`, and of the
  progress of the lanes only `behind` is kept. A poll that could not record anything
  is followed no further than that.
- What the bounds hide: with `MaxTasks = 2` `EveryTaskEnds` cannot show a stream of new
  syncs that keeps an ingest waiting for ever. With `MaxGenerations = 2` `EveryRunEnds`
  cannot show a stream of syncs that postpones a retry, although the refresh of a
  queued run resets its timestamp (`capability_events/queue.rs:252`). Requests are finite in every run,
  and these properties are about what becomes of them after the last one.
- `AcceptedWorkStaysCovered` is about the record of a task. A request merged into a
  running task is in the record, while the execution keeps the mode it captured
  (`tasks/queue.rs:98`).
- Not modelled: operating-system process control and service files (their effect is
  crash and restart), config reload and auth (no shared queue state), the contents of
  ingestion, queries, parsing and inference (data transformations whose outcome the
  queues see as success or failure), API and CLI plumbing, telemetry. They make up
  most of the source: parsers and adapters per language and agent, SQL per storage
  backend, commands and their output. Their behaviour is sequential and depends on
  data that a model would have to repeat rather than abstract. The components of plan
  items 1 to 3 are not modelled yet.
