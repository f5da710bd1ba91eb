---------------------------- MODULE DaemonWorker -----------------------------
(***************************************************************************)
(* The daemon's DevQL worker loop, composed of the task queue (TaskQueue)  *)
(* and the producer spool (ProducerSpool), with the processes around it:   *)
(* the file watcher and the post-commit hook that feed the spool, the CLI  *)
(* that enqueues directly, the executions that read the working tree and   *)
(* write the index, and edits of the repo policy.                          *)
(*                                                                         *)
(* Source: daemon/tasks/coordinator/worker/{activation,reconcile,spool,    *)
(* execution}.rs, host/devql/commands_sync/orchestrator.rs,                *)
(* host/devql/watch.rs and the post-commit hook of                         *)
(* host/checkpoints/strategy/manual_commit.                                *)
(*                                                                         *)
(* The worker is one tokio task; between its reads and its writes of the   *)
(* two SQLite stores the spawned runs, the other processes and the         *)
(* executions interleave, so each store access is a step of its own.  The  *)
(* lifecycle spool is empty, no repo is paused and the sync and ingest     *)
(* producers are enabled here.                                             *)
(***************************************************************************)
EXTENDS Integers, FiniteSets

CONSTANTS
    Repos, Paths, Commits, NoCommit, NoPath,
    CommitRepo,      \* the repo of each commit
    CommitPaths,     \* the files of each commit
    ManualModes,     \* sync modes the CLI asks for
    Excludable,      \* paths a policy edit may exclude
    MaxTerminal, Backoff,
    MaxTasks, MaxJobs, MaxTime, MaxCrashes, MaxFaults,
    MaxEdits,        \* bound: file edits
    MaxManual,       \* bound: CLI requests
    MaxPolicyEdits   \* bound: policy edits

ASSUME DaemonAssumption ==
    /\ Repos # {}
    /\ MaxTasks \in Nat /\ MaxJobs \in Nat /\ Backoff \in Nat
    /\ CommitRepo \in [Commits -> Repos]
    /\ CommitPaths \in [Commits -> SUBSET Paths]
    /\ ManualModes \subseteq {"auto", "full", "repair"}
    /\ Excludable \subseteq Paths
    /\ MaxEdits \in Nat /\ MaxManual \in Nat /\ MaxPolicyEdits \in Nat

VARIABLES
    tasks, nextId, endings, exec,        \* TaskQueue
    jobs, nextJob, now, policy, runner,  \* ProducerSpool
    up, crashes, faults,                 \* of both
    worker,   \* the worker loop and what it read in this cycle
    hook,     \* the post-commit hook of each commit
    buffer,   \* per repo, the paths in the watcher's batch
    reading,  \* per task, what its execution read: paths, policy, or nothing
    index,    \* per repo, the paths with rows in the current state
    stored,   \* per repo, the policy recorded with the last sync
    owed,     \* history: file edits no sync has read and no policy excused
    budget    \* how many edits, CLI requests and policy edits are left

queueVars == <<tasks, nextId, endings, exec>>
spoolVars == <<jobs, nextJob, runner>>
dataVars == <<reading, index, stored>>
vars == <<queueVars, spoolVars, now, policy, up, crashes, faults,
          worker, hook, buffer, dataVars, owed, budget>>

TQ == INSTANCE TaskQueue WITH
        Sessions <- {}, NoSession <- "none", Requests <- {}, paused <- {}, sessions <- {},
        demand <- [t \in 1 .. MaxTasks |-> {}]
PS == INSTANCE ProducerSpool WITH
        Productions <- {}, RunningTasks <- {}, unserved <- {}

TaskIds == 1 .. MaxTasks
JobIds == 1 .. MaxJobs

\* A spool payload, and the request that enqueues a task.
Spooled(r, kind, source, mode, paths, c) ==
    [repo |-> r, kind |-> kind, source |-> source, mode |-> mode, paths |-> paths, commit |-> c]
TaskRequest(r, kind, source, mode, paths, c) ==
    [repo |-> r, kind |-> kind, source |-> source, mode |-> mode, paths |-> paths,
     commit |-> c, session |-> "none"]

EnqueueTask(req) == \E t \in TaskIds : TQ!EnqueueStep(req, t)

NotReading == [paths |-> {}, excluded |-> {}]
CycleStart == [pc |-> "check", todo |-> Repos, repo |-> {}, promote |-> FALSE,
               blocked |-> FALSE, running |-> {}, held |-> {}, dropped |-> {},
               spoolRepos |-> {}]

Init ==
    /\ tasks = [t \in TaskIds |-> TQ!NoTask]
    /\ nextId = 1
    /\ endings = 0
    /\ exec = [t \in TaskIds |-> TQ!NoExec]
    /\ jobs = [j \in JobIds |-> PS!NoRow]
    /\ nextJob = 1
    /\ now = 0
    /\ policy = [r \in Repos |-> {}]
    /\ runner = [j \in JobIds |-> PS!NoRunner]
    /\ up = TRUE
    /\ crashes = 0
    /\ faults = 0
    /\ worker = CycleStart
    /\ hook = [c \in Commits |-> "none"]
    /\ buffer = [r \in Repos |-> {}]
    /\ reading = [t \in TaskIds |-> NotReading]
    /\ index = [r \in Repos |-> Paths]
    /\ stored = [r \in Repos |-> {}]
    /\ owed = {}
    /\ budget = [edits |-> MaxEdits, manual |-> MaxManual, policy |-> MaxPolicyEdits]

(***************************************************************************)
(* Producers.                                                              *)
(***************************************************************************)
EditFile(r, p) ==
    /\ budget.edits > 0
    /\ budget' = [budget EXCEPT !.edits = @ - 1]
    /\ owed' = owed \cup {[repo |-> r, path |-> p]}
    /\ buffer' = [buffer EXCEPT ![r] = @ \cup {p}]
    /\ UNCHANGED <<queueVars, spoolVars, now, policy, up, crashes, faults, worker, hook, dataVars>>

\* run_notify_loop flushes its batch: the paths the policy lets through, or
\* within the window after a branch change a full sync.
FlushPaths(r) ==
    /\ IF buffer[r] \subseteq policy[r] THEN UNCHANGED <<jobs, nextJob>>
       ELSE PS!EnqueueJobStep(
              Spooled(r, "sync", "watcher", "paths", buffer[r] \ policy[r], NoCommit))
FlushAsCheckout(r) ==
    PS!EnqueueJobStep(Spooled(r, "sync", "post_checkout", "full", {}, NoCommit))

WatcherFlush(r) ==
    /\ buffer[r] # {}
    /\ FlushPaths(r) \/ FlushAsCheckout(r)
    /\ buffer' = [buffer EXCEPT ![r] = {}]
    /\ UNCHANGED <<queueVars, runner, now, policy, up, crashes, faults, worker, hook, dataVars,
                   owed, budget>>

\* post_commit: refresh, then derivation, then ingest, each spooled in turn.
HookSpools(c, from, to, load) ==
    /\ hook[c] = from
    /\ PS!EnqueueJobStep(load)
    /\ hook' = [hook EXCEPT ![c] = to]

PostCommit(c) ==
    LET r == CommitRepo[c]
    IN  /\ \/ HookSpools(c, "none", "refreshed",
                         Spooled(r, "post_commit", "post_commit", "none", CommitPaths[c], c))
           \/ HookSpools(c, "refreshed", "derived",
                         Spooled(r, "derivation", "post_commit", "none", {}, c))
           \/ HookSpools(c, "derived", "done",
                         Spooled(r, "ingest", "post_commit", "none", {}, c))
        /\ UNCHANGED <<queueVars, runner, now, policy, up, crashes, faults, worker, buffer,
                       dataVars, owed, budget>>

\* devql tasks enqueue, over the daemon's API
ManualSync(r, mode) ==
    /\ up
    /\ budget.manual > 0
    /\ budget' = [budget EXCEPT !.manual = @ - 1]
    /\ EnqueueTask(TaskRequest(r, "sync", "manual", mode, {}, NoCommit))
    /\ UNCHANGED <<endings, exec, spoolVars, now, policy, up, crashes, faults, worker, hook,
                   buffer, dataVars, owed>>

\* An edit made while its file was excluded may have been dropped by now and is
\* excused: only a reconcile, if a cycle sees the policy differ, would read it.
EditPolicy(r) ==
    /\ budget.policy > 0
    /\ budget' = [budget EXCEPT !.policy = @ - 1]
    /\ \E S \in SUBSET Excludable : S # policy[r] /\ policy' = [policy EXCEPT ![r] = S]
    /\ owed' = {e \in owed : e.repo = r => e.path \notin policy[r]}
    /\ UNCHANGED <<queueVars, spoolVars, now, up, crashes, faults, worker, hook, buffer,
                   dataVars>>

(***************************************************************************)
(* One worker cycle: reconcile each repo's policy, claim spool jobs unless *)
(* a policy sync is due, start tasks.                                      *)
(***************************************************************************)
At(pc) == up /\ worker.pc = pc
workerOnly == <<spoolVars, now, policy, up, crashes, faults, hook, buffer, dataVars, owed, budget>>

\* After the last repo: claim, or skip the claim.
Advance(w) ==
    IF w.todo # {} THEN [w EXCEPT !.pc = "check"]
    ELSE [w EXCEPT !.pc = IF w.blocked THEN "list" ELSE "load", !.blocked = FALSE]

\* ensure_scope_exclusion_reconcile_for_repo: what it reads
ReconcileCheck(r) ==
    /\ At("check")
    /\ r \in worker.todo
    /\ LET blocking == TQ!PolicyBlocked(r)
           needed   == stored[r] # policy[r]
           rest     == [worker EXCEPT !.todo = @ \ {r}]
       IN  worker' = IF blocking \/ needed
                     THEN [rest EXCEPT !.pc = "prune", !.repo = {r}, !.promote = ~blocking,
                                       !.blocked = TRUE]
                     ELSE Advance(rest)
    /\ UNCHANGED <<queueVars, workerOnly>>

\* prune_excluded_path_sync_tasks_for_repo
ReconcilePrune(r) ==
    /\ At("prune")
    /\ r \in worker.repo
    /\ TQ!PruneExcludedStep(r, policy[r])
    /\ worker' = IF worker.promote THEN [worker EXCEPT !.pc = "promote"]
                 ELSE Advance([worker EXCEPT !.repo = {}])
    /\ UNCHANGED <<nextId, exec, workerOnly>>

\* ... and the policy sync it enqueues
ReconcilePromote(r) ==
    /\ At("promote")
    /\ r \in worker.repo
    /\ EnqueueTask(TaskRequest(r, "sync", "policy", "full", {}, NoCommit))
    /\ worker' = Advance([worker EXCEPT !.repo = {}, !.promote = FALSE])
    /\ UNCHANGED <<endings, exec, workerOnly>>

\* schedule_pending_producer_spool_jobs reads the task state ...
RunningNow == {[repo |-> tasks[t].repo, kind |-> tasks[t].kind, policy |-> TQ!IsPolicySync(t)] :
                  t \in {u \in TaskIds : tasks[u].status = "running"}}
SyncsOfCommits(statuses) ==
    {[repo |-> tasks[t].repo, commit |-> tasks[t].commit] :
        t \in {u \in TaskIds : /\ tasks[u].kind = "sync" /\ tasks[u].source = "post_commit"
                               /\ tasks[u].commit # NoCommit
                               /\ tasks[u].status \in statuses}}

LoadState ==
    /\ At("load")
    /\ worker' = [worker EXCEPT !.pc = "claim", !.running = RunningNow,
                                !.held = SyncsOfCommits({"queued", "running"}),
                                !.dropped = SyncsOfCommits({"failed", "cancelled"})]
    /\ UNCHANGED <<queueVars, workerOnly>>

\* Slip: the running tasks are not handed to the claim.
ClaimIgnoringTasks ==
    /\ At("claim")
    /\ PS!ClaimStep({}, {}, worker.held, worker.dropped)
    /\ worker' = [worker EXCEPT !.pc = "list", !.running = {}, !.held = {}, !.dropped = {}]
    /\ UNCHANGED <<queueVars, nextJob, now, policy, up, crashes, faults, hook, buffer, dataVars,
                   owed, budget>>

\* ... and claims with it in a later transaction.
ClaimJobs ==
    /\ At("claim")
    /\ PS!ClaimStep({}, worker.running, worker.held, worker.dropped)
    /\ worker' = [worker EXCEPT !.pc = "list", !.running = {}, !.held = {}, !.dropped = {}]
    /\ UNCHANGED <<queueVars, nextJob, now, policy, up, crashes, faults, hook, buffer, dataVars,
                   owed, budget>>

\* schedule_pending_tasks reads the repos with running spool jobs ...
ListRunningSpoolRepos ==
    /\ At("list")
    /\ worker' = [worker EXCEPT !.pc = "start",
                                !.spoolRepos = {r \in Repos : PS!RepoHasRunningJob(r)}]
    /\ UNCHANGED <<queueVars, workerOnly>>

\* Slip: the scheduler ignores the spool.
StartTasksIgnoringSpool ==
    /\ At("start")
    /\ TQ!StartTasks(TQ!NextRunnable({}))
    /\ worker' = CycleStart
    /\ UNCHANGED <<nextId, endings, workerOnly>>

\* ... and starts what the queue selects in the other repos.
StartTasks ==
    /\ At("start")
    /\ TQ!StartTasks(TQ!NextRunnable(worker.spoolRepos))
    /\ worker' = CycleStart
    /\ UNCHANGED <<nextId, endings, workerOnly>>

WorkerStep ==
    \/ \E r \in Repos : ReconcileCheck(r) \/ ReconcilePrune(r) \/ ReconcilePromote(r)
    \/ LoadState \/ ClaimJobs \/ ListRunningSpoolRepos \/ StartTasks

(***************************************************************************)
(* run_producer_spool_job                                                  *)
(***************************************************************************)
runnerOnly == <<endings, exec, nextJob, now, policy, up, crashes, worker, hook, buffer, dataVars,
                owed, budget>>

\* The task each payload is turned into; a refresh whose paths are all
\* excluded, and the inline payloads, enqueue none.
Effect(load) ==
    LET paths == load.paths \ policy[load.repo]
    IN  CASE load.kind = "sync" ->
                EnqueueTask(TaskRequest(load.repo, "sync", load.source, load.mode, load.paths,
                                        NoCommit))
          [] load.kind = "ingest" ->
                EnqueueTask(TaskRequest(load.repo, "ingest", load.source, "none", {},
                                        load.commit))
          [] load.kind = "post_commit" /\ paths # {} ->
                EnqueueTask(TaskRequest(load.repo, "sync", "post_commit", "paths", paths,
                                        load.commit))
          [] OTHER -> UNCHANGED <<tasks, nextId>>

ProcessOk(j) ==
    /\ PS!ProcessOkStep(j)
    /\ Effect(runner[j].load)
    /\ UNCHANGED <<jobs, faults, runnerOnly>>

ProcessErr(j) ==
    /\ PS!ProcessErrStep(j)
    /\ UNCHANGED <<tasks, nextId, jobs, faults, runnerOnly>>

SettleJob(j) ==
    /\ PS!DeleteStep(j) \/ PS!RequeueJobStep(j)
    /\ UNCHANGED <<tasks, nextId, faults, runnerOnly>>

\* A failed delete is requeued, a failed requeue leaves the row running.
SettleFault(j) ==
    /\ runner[j].phase \in {"done", "failed"}
    /\ faults < MaxFaults
    /\ runner[j].phase = "done" => now + Backoff <= MaxTime
    /\ faults' = faults + 1
    /\ runner' = [runner EXCEPT ![j] = IF @.phase = "done" THEN [@ EXCEPT !.phase = "failed"]
                                       ELSE PS!NoRunner]
    /\ UNCHANGED <<tasks, nextId, jobs, runnerOnly>>

RunnerStep(j) == ProcessOk(j) \/ ProcessErr(j) \/ SettleJob(j) \/ SettleFault(j)

(***************************************************************************)
(* run_task.  An execution reads the policy and the working tree once its  *)
(* schema is ready and writes the index when it completes.                 *)
(***************************************************************************)
execOnly == <<nextId, spoolVars, now, policy, up, worker, hook, buffer, budget>>

Entry(r, S) == [repo : {r}, path : S]
IsSync(t) == tasks[t].kind = "sync"
Targets(mode, paths) == IF mode = "paths" THEN paths ELSE Paths

\* purge_scope_excluded_repo_data and execute_sync_inner up to the manifest
BeginWork(t) ==
    /\ TQ!BeginStep(t) \/ TQ!BeginAfterRebuildStep(t)
    /\ IF IsSync(t)
       THEN LET r == tasks[t].repo
                S == Targets(exec'[t].mode, exec'[t].paths) \ policy[r]
            IN  /\ reading' = [reading EXCEPT ![t] = [paths |-> S, excluded |-> policy[r]]]
                /\ owed' = owed \ Entry(r, S)
                /\ index' = IF TQ!IsPolicySync(t)
                            THEN [index EXCEPT ![r] = @ \ policy[r]] ELSE index
       ELSE UNCHANGED <<reading, owed, index>>
    /\ UNCHANGED <<endings, stored, crashes, faults, execOnly>>

\* write_sync_completed records the policy the purge used, or, for a sync of
\* any other source, the policy as it is now.
FingerprintOf(t) ==
    IF TQ!IsPolicySync(t) THEN reading[t].excluded ELSE policy[tasks[t].repo]

CompleteTask(t) ==
    /\ TQ!CompleteStep(t)
    /\ IF IsSync(t)
       THEN LET r == tasks[t].repo
            IN  /\ index' = [index EXCEPT ![r] = IF exec[t].mode = "paths"
                                                 THEN @ \cup reading[t].paths
                                                 ELSE reading[t].paths]
                /\ stored' = [stored EXCEPT ![r] = FingerprintOf(t)]
       ELSE UNCHANGED <<index, stored>>
    /\ reading' = [reading EXCEPT ![t] = NotReading]
    /\ UNCHANGED <<owed, crashes, faults, execOnly>>

\* The edits a task was to read are reported by its error.
FailTask(t) ==
    /\ TQ!FailStep(t)
    /\ reading' = [reading EXCEPT ![t] = NotReading]
    /\ owed' = IF IsSync(t) /\ exec[t].phase = "started"
               THEN owed \ Entry(tasks[t].repo, Targets(exec[t].mode, exec[t].paths))
               ELSE owed
    /\ UNCHANGED <<index, stored, crashes, faults, execOnly>>

\* A read that does not reach the index is owed again.
Forget(S) ==
    /\ reading' = [t \in TaskIds |-> IF t \in S THEN NotReading ELSE reading[t]]
    /\ owed' = owed \cup UNION {Entry(tasks[t].repo, reading[t].paths) : t \in S}

RequeueTask(t) ==
    /\ crashes < MaxCrashes
    /\ crashes' = crashes + 1
    /\ TQ!RequeueStep(t)
    /\ Forget({t})
    /\ UNCHANGED <<endings, index, stored, faults, execOnly>>

AbortTask(t) ==
    /\ exec[t].phase # "none"
    /\ faults < MaxFaults
    /\ faults' = faults + 1
    /\ exec' = [exec EXCEPT ![t] = TQ!NoExec]
    /\ Forget({t})
    /\ UNCHANGED <<tasks, endings, index, stored, crashes, execOnly>>

ExecStep(t) ==
    BeginWork(t) \/ CompleteTask(t) \/ FailTask(t) \/ RequeueTask(t) \/ AbortTask(t)

(***************************************************************************)
(* Time, crash and activate_worker, which recovers first the tasks, then   *)
(* the spool, and only logs a failure of either.                           *)
(***************************************************************************)
Tick ==
    /\ PS!TickStep
    /\ UNCHANGED <<queueVars, spoolVars, policy, up, crashes, faults, worker, hook, buffer,
                   dataVars, owed, budget>>

Crash ==
    /\ up
    /\ crashes < MaxCrashes
    /\ crashes' = crashes + 1
    /\ up' = FALSE
    /\ exec' = [t \in TaskIds |-> TQ!NoExec]
    /\ runner' = [j \in JobIds |-> PS!NoRunner]
    /\ worker' = [CycleStart EXCEPT !.pc = "recover_tasks"]
    /\ Forget(TaskIds)
    /\ UNCHANGED <<tasks, nextId, endings, jobs, nextJob, now, policy, faults, hook, buffer,
                   index, stored, budget>>

RecoverTasks ==
    /\ ~up
    /\ worker.pc = "recover_tasks"
    /\ \/ TQ!RecoverStep /\ UNCHANGED faults
       \/ faults < MaxFaults /\ faults' = faults + 1 /\ UNCHANGED tasks
    /\ worker' = [worker EXCEPT !.pc = "recover_spool"]
    /\ UNCHANGED <<nextId, endings, exec, spoolVars, now, policy, up, crashes, hook, buffer,
                   dataVars, owed, budget>>

RecoverSpool ==
    /\ ~up
    /\ worker.pc = "recover_spool"
    /\ \/ PS!RecoverStep /\ UNCHANGED faults
       \/ faults < MaxFaults /\ faults' = faults + 1 /\ UNCHANGED jobs
    /\ up' = TRUE
    /\ worker' = CycleStart
    /\ UNCHANGED <<queueVars, nextJob, runner, now, policy, crashes, hook, buffer, dataVars,
                   owed, budget>>

Next ==
    \/ \E r \in Repos, p \in Paths : EditFile(r, p)
    \/ \E r \in Repos : WatcherFlush(r) \/ EditPolicy(r)
    \/ \E c \in Commits : PostCommit(c)
    \/ \E r \in Repos, mode \in ManualModes : ManualSync(r, mode)
    \/ WorkerStep
    \/ \E j \in JobIds : RunnerStep(j)
    \/ \E t \in TaskIds : ExecStep(t)
    \/ Tick \/ Crash \/ RecoverTasks \/ RecoverSpool

Spec == Init /\ [][Next]_vars

(***************************************************************************)
(* Fairness: the loop polls and never returns, the spawned runs and        *)
(* executions end, the watcher's debounce window closes, the clock runs    *)
(* and a daemon that is down is started again.  Nothing obliges the user.  *)
(***************************************************************************)
FairSpec ==
    /\ Spec
    /\ WF_vars(WorkerStep)
    /\ \A j \in JobIds : WF_vars(RunnerStep(j))
    /\ \A t \in TaskIds : WF_vars(ExecStep(t))
    /\ \A r \in Repos : WF_vars(WatcherFlush(r))
    /\ WF_vars(Tick)
    /\ WF_vars(RecoverTasks \/ RecoverSpool)
-----------------------------------------------------------------------------
(* Properties *)

TypeOK ==
    /\ tasks \in [TaskIds -> TQ!Task]
    /\ exec \in [TaskIds -> TQ!Exec]
    /\ jobs \in [JobIds -> PS!Row]
    /\ runner \in [JobIds -> PS!Runner]
    /\ policy \in [Repos -> SUBSET Paths]
    /\ index \in [Repos -> SUBSET Paths]
    /\ stored \in [Repos -> SUBSET Paths]
    /\ buffer \in [Repos -> SUBSET Paths]
    /\ owed \subseteq [repo : Repos, path : Paths]
    /\ worker.pc \in {"check", "prune", "promote", "load", "claim", "list", "start",
                      "recover_tasks", "recover_spool"}

(***************************************************************************)
(* The admission boundary: while a spool job is running, no task that it   *)
(* conflicts with runs in its repo.  The claim checks tasks it read        *)
(* earlier, and the scheduler checks jobs it read earlier; neither may let *)
(* the other start a conflicting piece of work in between, nor may a crash *)
(* or a recovery of one store without the other.                           *)
(***************************************************************************)
AdmissionExcludes ==
    \A j \in JobIds, t \in TaskIds :
        (jobs[j].status = "running" /\ tasks[t].status = "running") =>
            ~PS!Conflicts(jobs[j].load, [repo |-> tasks[t].repo, kind |-> tasks[t].kind,
                                         policy |-> TQ!IsPolicySync(t)])

\* Row j will still be turned into a sync that reads p.
JobCovers(j, r, p) ==
    /\ jobs[j].load.repo = r
    /\ \/ jobs[j].load.kind = "sync" /\ p \in Targets(jobs[j].load.mode, jobs[j].load.paths)
       \/ jobs[j].load.kind = "post_commit" /\ p \in jobs[j].load.paths
    /\ \/ jobs[j].status = "pending"
       \/ jobs[j].status = "running" /\ runner[j].phase # "done"

\* Task t will still read p.
TaskCovers(t, r, p) ==
    /\ tasks[t].repo = r
    /\ IsSync(t)
    /\ \/ /\ tasks[t].status = "queued" \/ (tasks[t].status = "running" /\ exec[t].phase = "none")
          /\ p \in Targets(tasks[t].mode, tasks[t].paths)
       \/ exec[t].phase = "started" /\ p \in Targets(exec[t].mode, exec[t].paths)

(***************************************************************************)
(* No file edit is forgotten: an edit that no sync has read is in the      *)
(* watcher's batch, in a spool row not yet turned into a task, or in a     *)
(* sync that has yet to read the tree.  In particular it is never merged   *)
(* into a sync that has already read, and no crash between the stores      *)
(* drops it.  An edit of a file the policy excludes may be dropped.        *)
(***************************************************************************)
NoEditForgotten ==
    \A e \in owed :
        \/ e.path \in policy[e.repo] \cup buffer[e.repo]
        \/ \E j \in JobIds : JobCovers(j, e.repo, e.path)
        \/ \E t \in TaskIds : TaskCovers(t, e.repo, e.path)

(***************************************************************************)
(* Every file edit is eventually read by a sync, or by a sync that ends in *)
(* an error the user can see, unless the policy excludes its file, however *)
(* a manual sync, a change of the policy and a restart come in between.    *)
(* (The run has no failed statement: one can leave the row of an ended job *)
(* running, which holds the later jobs of its repo until a restart.)       *)
(***************************************************************************)
EveryEditIsRead ==
    \A r \in Repos, p \in Paths :
        ([repo |-> r, path |-> p] \in owed)
            ~> ([repo |-> r, path |-> p] \notin owed \/ p \in policy[r])

(***************************************************************************)
(* An incomplete post-commit sync blocks the derivation of its commit:     *)
(* while the derivation is processed, no sync of the commit's snapshot is  *)
(* queued or running.                                                      *)
(***************************************************************************)
DerivationFollowsRefresh ==
    \A j \in JobIds :
        (runner[j].phase = "processing" /\ runner[j].load.kind = "derivation") =>
            [repo |-> runner[j].load.repo, commit |-> runner[j].load.commit]
                \notin SyncsOfCommits({"queued", "running"})

(***************************************************************************)
(* The index follows the policy: once the recorded policy is the current   *)
(* one and no sync is queued or running, the index holds no excluded path. *)
(***************************************************************************)
RecordedPolicyIsApplied ==
    \A r \in Repos :
        (stored[r] = policy[r] /\ ~TQ!SyncLive(r)) => index[r] \cap policy[r] = {}
=============================================================================
