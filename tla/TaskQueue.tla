------------------------------ MODULE TaskQueue ------------------------------
(***************************************************************************)
(* The DevQL task queue of the daemon: the persisted task list, how an     *)
(* enqueue coalesces into it, which tasks a scheduling pass starts, and    *)
(* how the spawned executions finish, fail, are requeued or die with the   *)
(* daemon.                                                                 *)
(*                                                                         *)
(* Source: daemon/tasks/queue.rs, daemon/tasks/coordinator.rs,             *)
(* daemon/tasks/coordinator/state.rs and                                   *)
(* daemon/tasks/coordinator/worker/{activation,execution}.rs.              *)
(*                                                                         *)
(* Every mutation runs under the coordinator lock and one SQLite           *)
(* transaction (mutate_state), so it is one atomic step.  A task id is its *)
(* position in the order of submission, which is also the order of the     *)
(* task vector: "the first task such that" is the least id.  The snapshot  *)
(* of a sync is kept as its commit, an ingest specification as the commit  *)
(* it names; progress, timestamps and results are left out.                *)
(***************************************************************************)
EXTENDS Integers, FiniteSets

CONSTANTS
    Repos, Paths, Commits, Sessions,
    NoCommit,      \* no post_commit_snapshot, or an ingest without commits
    NoSession,     \* no init_session_id
    Requests,      \* the enqueue calls callers make
    MaxTasks,      \* bound: tasks ever submitted
    MaxTerminal,   \* MAX_TERMINAL_TASKS
    Excludable,    \* paths a repo policy may exclude
    MaxCrashes,    \* bound: crashes, and executions cancelled by a shutdown
    MaxFaults      \* bound: errors that are only logged

TaskIds == 1 .. MaxTasks
Kinds == {"sync", "ingest", "embeddings", "summary"}
Sources == {"init", "manual", "watcher", "post_commit", "post_merge",
            "post_checkout", "policy"}
SyncModes == {"auto", "full", "paths", "repair", "validate"}
Modes == SyncModes \cup {"none"}
Live == {"queued", "running"}
Terminal == {"completed", "failed", "cancelled"}
Statuses == Live \cup Terminal \cup {"absent"}

Request == [repo : Repos, kind : Kinds, source : Sources, mode : Modes,
            paths : SUBSET Paths, commit : Commits \cup {NoCommit},
            session : Sessions \cup {NoSession}]

ASSUME ConstantsAssumption ==
    /\ Requests \subseteq Request
    /\ \A req \in Requests : req.kind = "sync" <=> req.mode # "none"
    /\ \A req \in Requests : req.source = "policy" => req.mode = "full"
    /\ Repos # {}
    /\ NoCommit \notin Commits
    /\ NoSession \notin Sessions
    /\ MaxTasks \in Nat
    /\ MaxTerminal \in Nat
    /\ Excludable \subseteq Paths
    /\ MaxCrashes \in Nat
    /\ MaxFaults \in Nat

VARIABLES
    tasks,     \* the persisted task records
    nextId,    \* the next task id
    endings,   \* how many tasks became terminal: orders them by updated_at
    paused,    \* repos whose control is paused
    sessions,  \* init sessions without a terminal status
    exec,      \* the spawned execution of each task, with the spec it captured
    up,        \* the daemon process is up
    demand,    \* history: the requests answered with each live task
    crashes,   \* how many crashes and shutdown cancellations happened
    faults     \* how many logged errors happened

vars == <<tasks, nextId, endings, paused, sessions, exec, up, demand, crashes, faults>>

Task == [repo : Repos, kind : Kinds, source : Sources, mode : Modes,
         paths : SUBSET Paths, commit : Commits \cup {NoCommit},
         session : Sessions \cup {NoSession}, status : Statuses, ended : Nat]
Exec == [phase : {"none", "started", "working"}, mode : Modes, paths : SUBSET Paths]

NoTask == [repo |-> CHOOSE r \in Repos : TRUE, kind |-> "sync", source |-> "manual",
           mode |-> "none", paths |-> {}, commit |-> NoCommit, session |-> NoSession,
           status |-> "absent", ended |-> 0]
NoExec == [phase |-> "none", mode |-> "none", paths |-> {}]

Init ==
    /\ tasks = [t \in TaskIds |-> NoTask]
    /\ nextId = 1
    /\ endings = 0
    /\ paused = {}
    /\ sessions = Sessions
    /\ exec = [t \in TaskIds |-> NoExec]
    /\ up = TRUE
    /\ demand = [t \in TaskIds |-> {}]
    /\ crashes = 0
    /\ faults = 0

IsLive(t) == tasks[t].status \in Live
IsPolicySync(t) == tasks[t].kind = "sync" /\ tasks[t].source = "policy"

(***************************************************************************)
(* save_state: every mutation ends by dropping all but the MaxTerminal     *)
(* last finished tasks, sparing those of unfinished init sessions.         *)
(***************************************************************************)
FinishedAfter(ts, u, t) ==
    ts[u].ended > ts[t].ended \/ (ts[u].ended = ts[t].ended /\ u < t)

Prunable(ts) == {t \in TaskIds : ts[t].status \in Terminal /\ ts[t].session \notin sessions}

PruneTerminalTasks(ts) ==
    [t \in TaskIds |->
        IF t \in Prunable(ts)
           /\ Cardinality({u \in Prunable(ts) : FinishedAfter(ts, u, t)}) >= MaxTerminal
        THEN NoTask ELSE ts[t]]

(***************************************************************************)
(* merge_existing_task                                                     *)
(***************************************************************************)
FullLike == {"auto", "full"}
WeakerThanRepair == {"auto", "full", "paths"}
StrongerThanPaths == {"auto", "full", "repair"}
BackgroundSources == {"watcher", "post_checkout", "post_commit", "post_merge"}

KeepDistinctProducerSources(t, req) ==
    LET existing == tasks[t].source
        incoming == req.source
    IN  /\ existing # incoming
        /\ {existing, incoming} \subseteq BackgroundSources
        /\ ~(existing = "post_checkout" /\ incoming = "watcher" /\ tasks[t].mode \in FullLike)
        /\ ~(/\ existing = "watcher" /\ incoming = "post_checkout"
             /\ tasks[t].mode = "paths" /\ req.mode \in StrongerThanPaths)

MergeSyncModes(existing, incoming) ==
    IF "repair" \in {existing, incoming} THEN "repair"
    ELSE IF "full" \in {existing, incoming} THEN "full"
    ELSE IF existing = "auto" THEN "auto"
    ELSE incoming

\* Repo, lane, session and snapshot agree.
SameSlot(t, req) ==
    /\ IsLive(t)
    /\ tasks[t].repo = req.repo
    /\ tasks[t].kind = req.kind
    /\ tasks[t].session = req.session
    /\ tasks[t].commit = req.commit

SyncCompatible(t, req) ==
    /\ req.kind = "sync"
    /\ SameSlot(t, req)
    /\ ~KeepDistinctProducerSources(t, req)

\* Slip: a policy sync may coalesce into a running sync.
SubsumesRunning(t, req) ==
    /\ SyncCompatible(t, req)
    /\ req.mode # "validate"
    /\ \/ tasks[t].mode = "repair"
       \/ tasks[t].mode \in FullLike /\ req.mode \in WeakerThanRepair
       \/ /\ tasks[t].mode = "paths" /\ tasks[t].status = "queued"
          /\ req.mode \in StrongerThanPaths

\* The first search: an existing sync at least as strong, or queued paths
\* that the incoming sync subsumes.
Subsumes(t, req) ==
    /\ SyncCompatible(t, req)
    /\ req.mode # "validate"
    /\ req.source = "policy" => tasks[t].status = "queued"
    /\ \/ tasks[t].mode = "repair"
       \/ tasks[t].mode \in FullLike /\ req.mode \in WeakerThanRepair
       \/ /\ tasks[t].mode = "paths" /\ tasks[t].status = "queued"
          /\ req.mode \in StrongerThanPaths

\* The second search: queued paths extended by incoming paths.
Extends(t, req) ==
    /\ SyncCompatible(t, req)
    /\ req.mode = "paths"
    /\ tasks[t].mode = "paths"
    /\ tasks[t].status = "queued"

SameIngest(t, req) == req.kind = "ingest" /\ SameSlot(t, req)

\* The first task of the vector with the property, if any.
First(S) == {t \in S : \A u \in S : t <= u}

MergedMode(t, req) ==
    LET merged == MergeSyncModes(tasks[t].mode, req.mode)
        useIncomingSource ==
            \/ req.source = "policy"
            \/ /\ tasks[t].source # "policy" /\ tasks[t].mode = "paths"
               /\ req.mode \in StrongerThanPaths
    IN  [tasks[t] EXCEPT !.mode = merged,
                         !.paths = IF merged = "paths" THEN @ ELSE {},
                         !.source = IF useIncomingSource THEN req.source ELSE @]

\* Slip: the incoming paths replace the queued ones.
MergedPathsReplaced(t, req) == [tasks[t] EXCEPT !.paths = req.paths]

MergedPaths(t, req) == [tasks[t] EXCEPT !.paths = @ \cup req.paths]

NewTask(req) ==
    [repo |-> req.repo, kind |-> req.kind, source |-> req.source, mode |-> req.mode,
     paths |-> req.paths, commit |-> req.commit, session |-> req.session,
     status |-> "queued", ended |-> 0]

\* The task an incoming request coalesces into, if any.
MergeTarget(req) ==
    LET ingest == {t \in TaskIds : SameIngest(t, req)}
        first  == {t \in TaskIds : Subsumes(t, req)}
        second == {t \in TaskIds : Extends(t, req)}
    IN  IF req.kind = "ingest" THEN First(ingest)
        ELSE IF first # {} THEN First(first) ELSE First(second)

MergedRecord(t, req) ==
    CASE SameIngest(t, req) -> tasks[t]
      [] Subsumes(t, req) -> MergedMode(t, req)
      [] OTHER -> MergedPaths(t, req)

\* DevqlTaskCoordinator::enqueue: task t answers req.
EnqueueStep(req, t) ==
    \/ /\ t \in MergeTarget(req)
       /\ tasks' = PruneTerminalTasks([tasks EXCEPT ![t] = MergedRecord(t, req)])
       /\ UNCHANGED nextId
    \/ /\ MergeTarget(req) = {}
       /\ t = nextId
       /\ tasks' = PruneTerminalTasks([tasks EXCEPT ![t] = NewTask(req)])
       /\ nextId' = nextId + 1

Enqueue(req) ==
    /\ up
    /\ \E t \in TaskIds :
          /\ EnqueueStep(req, t)
          /\ demand' = [demand EXCEPT ![t] = @ \cup {req}]
    /\ UNCHANGED <<endings, paused, sessions, exec, up, crashes, faults>>

(***************************************************************************)
(* next_runnable_task_indexes_blocking_repo_ids                            *)
(***************************************************************************)
PolicyBlocked(r) == \E t \in TaskIds : tasks[t].repo = r /\ IsLive(t) /\ IsPolicySync(t)
SyncLive(r) == \E t \in TaskIds : tasks[t].repo = r /\ IsLive(t) /\ tasks[t].kind = "sync"
RepoRunning(r) == \E t \in TaskIds : tasks[t].repo = r /\ tasks[t].status = "running"
SameLane(t, u) == tasks[t].repo = tasks[u].repo /\ tasks[t].kind = tasks[u].kind
LaneRunning(t) == \E u \in TaskIds : SameLane(t, u) /\ tasks[u].status = "running"

IsGitHookSync(t) ==
    /\ tasks[t].kind = "sync"
    /\ tasks[t].source \in {"post_checkout", "post_commit", "post_merge"}
    /\ tasks[t].mode # "validate"

PendingClass(t) ==
    CASE IsPolicySync(t) -> 0
      [] IsGitHookSync(t) -> 1
      [] tasks[t].kind \in {"embeddings", "summary"} -> 3
      [] tasks[t].kind = "sync" /\ ~IsPolicySync(t) /\ tasks[t].mode = "validate" -> 4
      [] OTHER -> 2

\* pending_sort_key
SortsBefore(t, u) ==
    \/ PendingClass(t) < PendingClass(u)
    \/ PendingClass(t) = PendingClass(u) /\ t <= u

\* Slip: the running-lane check is dropped.
StartableInBusyLane(t, blocked) ==
    /\ tasks[t].status = "queued"
    /\ tasks[t].repo \notin paused \cup blocked
    /\ PolicyBlocked(tasks[t].repo) => IsPolicySync(t)
    /\ tasks[t].kind = "ingest" => ~SyncLive(tasks[t].repo)
    /\ IsPolicySync(t) => ~RepoRunning(tasks[t].repo)

Startable(t, blocked) ==
    /\ tasks[t].status = "queued"
    /\ tasks[t].repo \notin paused \cup blocked
    /\ PolicyBlocked(tasks[t].repo) => IsPolicySync(t)
    /\ tasks[t].kind = "ingest" => ~SyncLive(tasks[t].repo)
    /\ IsPolicySync(t) => ~RepoRunning(tasks[t].repo)
    /\ ~LaneRunning(t)

NextRunnable(blocked) ==
    {t \in TaskIds :
        /\ Startable(t, blocked)
        /\ \A u \in TaskIds : (Startable(u, blocked) /\ SameLane(t, u)) => SortsBefore(t, u)}

\* schedule_pending_tasks: start every selected task and spawn its execution.
StartTasks(S) ==
    /\ tasks' = PruneTerminalTasks(
                  [t \in TaskIds |->
                     IF t \in S THEN [tasks[t] EXCEPT !.status = "running"] ELSE tasks[t]])
    /\ exec' = [t \in TaskIds |->
                  IF t \in S THEN [phase |-> "started", mode |-> tasks[t].mode,
                                   paths |-> tasks[t].paths]
                  ELSE exec[t]]

SchedulePendingTasks(blocked) ==
    /\ up
    /\ NextRunnable(blocked) # {}
    /\ StartTasks(NextRunnable(blocked))
    /\ UNCHANGED <<nextId, endings, paused, sessions, up, demand, crashes, faults>>

(***************************************************************************)
(* Executions (run_task).                                                  *)
(***************************************************************************)
\* prepare_sync_execution_schema; a rebuilt remote schema turns a path sync
\* into a repair, in the execution and, by update_sync_mode, in the record.
BeginStep(t) ==
    /\ exec[t].phase = "started"
    /\ exec' = [exec EXCEPT ![t].phase = "working"]
    /\ UNCHANGED tasks

BeginAfterRebuildStep(t) ==
    /\ exec[t].phase = "started"
    /\ tasks[t].kind = "sync"
    /\ exec[t].mode = "paths"
    /\ exec' = [exec EXCEPT ![t] = [phase |-> "working", mode |-> "repair", paths |-> {}]]
    /\ tasks' = PruneTerminalTasks([tasks EXCEPT ![t].mode = "repair", ![t].paths = {}])

BeginWork(t) ==
    /\ BeginStep(t) \/ BeginAfterRebuildStep(t)
    /\ UNCHANGED <<nextId, endings, paused, sessions, up, demand, crashes, faults>>

\* Slip: off by one in the ending stamp.
EndTaskStampedEarly(t, status) ==
    /\ tasks' = PruneTerminalTasks([tasks EXCEPT ![t].status = status,
                                                 ![t].ended = endings - 1])
    /\ endings' = endings + 1

EndTask(t, status) ==
    /\ tasks' = PruneTerminalTasks([tasks EXCEPT ![t].status = status,
                                                 ![t].ended = endings + 1])
    /\ endings' = endings + 1

\* finish_sync_task_completed and its three siblings
CompleteStep(t) ==
    /\ exec[t].phase = "working"
    /\ EndTask(t, "completed")
    /\ exec' = [exec EXCEPT ![t] = NoExec]

\* finish_task_failed, from either phase
FailStep(t) ==
    /\ exec[t].phase # "none"
    /\ EndTask(t, "failed")
    /\ exec' = [exec EXCEPT ![t] = NoExec]

FinishTask(t) ==
    /\ CompleteStep(t) \/ FailStep(t)
    /\ demand' = [demand EXCEPT ![t] = {}]
    /\ UNCHANGED <<nextId, paused, sessions, up, crashes, faults>>

\* finish_task_failed with a cancelled join error
RequeueStep(t) ==
    /\ exec[t].phase # "none"
    /\ tasks' = PruneTerminalTasks([tasks EXCEPT ![t].status = "queued"])
    /\ exec' = [exec EXCEPT ![t] = NoExec]

RequeueAfterCancelledJoin(t) ==
    /\ crashes < MaxCrashes
    /\ crashes' = crashes + 1
    /\ RequeueStep(t)
    /\ UNCHANGED <<nextId, endings, paused, sessions, up, demand, faults>>

\* An error that run_task only logs (a config, progress or finish error):
\* the execution is gone and the task stays running.
ExecutionAborts(t) ==
    /\ exec[t].phase # "none"
    /\ faults < MaxFaults
    /\ faults' = faults + 1
    /\ exec' = [exec EXCEPT ![t] = NoExec]
    /\ UNCHANGED <<tasks, nextId, endings, paused, sessions, up, demand, crashes>>

(***************************************************************************)
(* Control operations.                                                     *)
(***************************************************************************)
\* Slip: a running task may be cancelled too.
CancelLiveTask(t) ==
    /\ up
    /\ IsLive(t)
    /\ EndTask(t, "cancelled")
    /\ demand' = [demand EXCEPT ![t] = {}]
    /\ UNCHANGED <<nextId, paused, sessions, exec, up, crashes, faults>>

CancelTask(t) ==
    /\ up
    /\ tasks[t].status = "queued"
    /\ EndTask(t, "cancelled")
    /\ demand' = [demand EXCEPT ![t] = {}]
    /\ UNCHANGED <<nextId, paused, sessions, exec, up, crashes, faults>>

PauseRepo(r) ==
    /\ up
    /\ paused' = paused \cup {r}
    /\ tasks' = PruneTerminalTasks(tasks)
    /\ UNCHANGED <<nextId, endings, sessions, exec, up, demand, crashes, faults>>

ResumeRepo(r) ==
    /\ up
    /\ paused' = paused \ {r}
    /\ tasks' = PruneTerminalTasks(tasks)
    /\ UNCHANGED <<nextId, endings, sessions, exec, up, demand, crashes, faults>>

\* prune_excluded_path_sync_tasks_for_repo: queued path syncs lose the
\* excluded paths; one left with none is cancelled.
TargetsPaths(t, r) ==
    /\ tasks[t].repo = r
    /\ tasks[t].status = "queued"
    /\ tasks[t].kind = "sync"
    /\ tasks[t].mode = "paths"

Emptied(r, excluded) ==
    {t \in TaskIds : TargetsPaths(t, r) /\ tasks[t].paths \subseteq excluded}

PruneExcludedStep(r, excluded) ==
    LET emptied == Emptied(r, excluded)
    IN  /\ tasks' = PruneTerminalTasks(
                      [t \in TaskIds |->
                         IF t \in emptied
                         THEN [tasks[t] EXCEPT !.paths = {}, !.status = "cancelled",
                                               !.ended = endings + 1]
                         ELSE IF TargetsPaths(t, r)
                         THEN [tasks[t] EXCEPT !.paths = @ \ excluded]
                         ELSE tasks[t]])
        /\ endings' = IF emptied = {} THEN endings ELSE endings + 1

PruneExcludedPathSyncTasks(r, excluded) ==
    /\ up
    /\ \E t \in TaskIds : TargetsPaths(t, r) /\ tasks[t].paths \cap excluded # {}
    /\ PruneExcludedStep(r, excluded)
    /\ demand' = [t \in TaskIds |-> IF t \in Emptied(r, excluded) THEN {} ELSE demand[t]]
    /\ UNCHANGED <<nextId, paused, sessions, exec, up, crashes, faults>>

\* The init runtime records a terminal status for the session.
EndSession(s) ==
    /\ s \in sessions
    /\ sessions' = sessions \ {s}
    /\ UNCHANGED <<tasks, nextId, endings, paused, exec, up, demand, crashes, faults>>

(***************************************************************************)
(* Crash and restart.  activate_worker requeues what was running; when     *)
(* that fails it only logs.                                                *)
(***************************************************************************)
Crash ==
    /\ up
    /\ crashes < MaxCrashes
    /\ crashes' = crashes + 1
    /\ up' = FALSE
    /\ exec' = [t \in TaskIds |-> NoExec]
    /\ UNCHANGED <<tasks, nextId, endings, paused, sessions, demand, faults>>

\* Slip: recovery leaves the status alone.
RecoverKeepingStatus == tasks' = PruneTerminalTasks(tasks)

RecoverStep ==
    tasks' = PruneTerminalTasks(
               [t \in TaskIds |->
                  IF tasks[t].status = "running"
                  THEN [tasks[t] EXCEPT !.status = "queued"] ELSE tasks[t]])

RecoverRunningTasks ==
    /\ ~up
    /\ up' = TRUE
    /\ RecoverStep
    /\ UNCHANGED <<nextId, endings, paused, sessions, exec, demand, crashes, faults>>

RecoverFault ==
    /\ ~up
    /\ faults < MaxFaults
    /\ faults' = faults + 1
    /\ up' = TRUE
    /\ UNCHANGED <<tasks, nextId, endings, paused, sessions, exec, demand, crashes>>

ExecStep(t) ==
    \/ BeginWork(t) \/ FinishTask(t)
    \/ RequeueAfterCancelledJoin(t) \/ ExecutionAborts(t)

Next ==
    \/ \E req \in Requests : Enqueue(req)
    \/ \E blocked \in SUBSET Repos : SchedulePendingTasks(blocked)
    \/ \E t \in TaskIds : ExecStep(t)
    \/ \E t \in TaskIds : CancelTask(t)
    \/ \E r \in Repos : PauseRepo(r) \/ ResumeRepo(r)
    \/ \E r \in Repos, excluded \in SUBSET Excludable : PruneExcludedPathSyncTasks(r, excluded)
    \/ \E s \in Sessions : EndSession(s)
    \/ Crash \/ RecoverRunningTasks \/ RecoverFault

Spec == Init /\ [][Next]_vars

(***************************************************************************)
(* Fairness: the worker loop polls, spawned executions run to an end and   *)
(* a daemon that is down is started again.                                 *)
(***************************************************************************)
FairSpec ==
    /\ Spec
    /\ WF_vars(SchedulePendingTasks({}))
    /\ \A t \in TaskIds : WF_vars(ExecStep(t))
    /\ WF_vars(RecoverRunningTasks \/ RecoverFault)
-----------------------------------------------------------------------------
(* Properties *)

TypeOK ==
    /\ tasks \in [TaskIds -> Task]
    /\ nextId \in 1 .. (MaxTasks + 1)
    /\ endings \in Nat
    /\ paused \subseteq Repos
    /\ sessions \subseteq Sessions
    /\ exec \in [TaskIds -> Exec]
    /\ up \in BOOLEAN
    /\ demand \in [TaskIds -> SUBSET Requests]
    /\ crashes \in 0 .. MaxCrashes
    /\ faults \in 0 .. MaxFaults

(***************************************************************************)
(* At most one task runs per lane (repo, kind), whatever enqueues,         *)
(* merges, requeues, crashes and failed recoveries happen.                 *)
(***************************************************************************)
OneRunningPerLane ==
    \A t, u \in TaskIds :
        (tasks[t].status = "running" /\ tasks[u].status = "running" /\ SameLane(t, u)) => t = u

(***************************************************************************)
(* The repo policy barrier: while a sync that applies a changed repo       *)
(* policy runs, no other task of any kind runs in that repo.               *)
(***************************************************************************)
PolicySyncRunsAlone ==
    \A t, u \in TaskIds :
        (/\ tasks[t].status = "running" /\ IsPolicySync(t)
         /\ tasks[u].status = "running" /\ tasks[u].repo = tasks[t].repo) => t = u

(***************************************************************************)
(* Only a running task of a live daemon has an execution: a task that is   *)
(* queued again, cancelled, finished or pruned is never still executing,   *)
(* so no task is executed twice at once.                                   *)
(***************************************************************************)
ExecutionsAreRunning ==
    \A t \in TaskIds : exec[t].phase # "none" => up /\ tasks[t].status = "running"

\* The record of task t includes the work request req asked for.
Covers(t, req) ==
    /\ tasks[t].repo = req.repo
    /\ tasks[t].kind = req.kind
    /\ tasks[t].commit = req.commit
    /\ req.source = "policy" => tasks[t].source = "policy"
    /\ CASE req.mode = "full"   -> tasks[t].mode \in {"full", "repair"}
         [] req.mode = "auto"   -> tasks[t].mode \in {"auto", "full", "repair"}
         [] req.mode = "paths"  -> \/ tasks[t].mode \in {"auto", "full", "repair"}
                                   \/ /\ tasks[t].mode = "paths"
                                      /\ req.paths \subseteq tasks[t].paths \cup Excludable
         [] OTHER -> tasks[t].mode = req.mode

(***************************************************************************)
(* Coalescing never weakens accepted work: as long as the task a caller    *)
(* was answered with is queued or running, its record includes everything  *)
(* the caller asked for, however many other requests were merged into it   *)
(* and whatever requeue, recovery or mode change it went through.          *)
(***************************************************************************)
AcceptedWorkStaysCovered ==
    \A t \in TaskIds : IsLive(t) => \A req \in demand[t] : Covers(t, req)

(***************************************************************************)
(* Every queued task of a repo that is not paused eventually reaches an    *)
(* end: neither the policy barrier, the ingest-after-sync rule, the lane   *)
(* order nor a crash leaves it waiting for ever.  The one exception is an  *)
(* error that is only logged: it leaves a Running task until a restart.    *)
(***************************************************************************)
EveryTaskEnds ==
    \A t \in TaskIds :
        IsLive(t) ~> (~IsLive(t) \/ tasks[t].repo \in paused \/ faults > 0)
=============================================================================
