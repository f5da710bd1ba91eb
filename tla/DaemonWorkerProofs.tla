------------------------- MODULE DaemonWorkerProofs -------------------------
(***************************************************************************)
(* Proofs about DaemonWorker for any repos, files, commits and policies,   *)
(* any number of tasks, jobs, edits and policy edits, and any number of    *)
(* crashes and failed statements.                                          *)
(***************************************************************************)
EXTENDS DaemonWorker, TLAPS

(***************************************************************************)
(* The inductive invariant.                                                *)
(***************************************************************************)
CommitKey == [repo : Repos, commit : Commits \cup {NoCommit}]

TasksTyped == tasks \in [TaskIds -> TQ!Task]
JobsTyped == jobs \in [JobIds -> PS!Row]
PolicyTyped == policy \in [Repos -> SUBSET Paths]

QueueTyped ==
    /\ TasksTyped
    /\ exec \in [TaskIds -> TQ!Exec]
    /\ nextId \in Nat /\ endings \in Nat

SpoolTyped ==
    /\ JobsTyped
    /\ runner \in [JobIds -> PS!Runner]
    /\ nextJob \in Nat /\ now \in Nat

DataTyped ==
    /\ PolicyTyped
    /\ index \in [Repos -> SUBSET Paths]
    /\ stored \in [Repos -> SUBSET Paths]
    /\ buffer \in [Repos -> SUBSET Paths]
    /\ owed \subseteq [repo : Repos, path : Paths]
    /\ reading \in [TaskIds -> [paths : SUBSET Paths, excluded : SUBSET Paths]]

Cycle == [pc : {"check", "prune", "promote", "load", "claim", "list", "start",
                "recover_tasks", "recover_spool"},
          todo : SUBSET Repos, repo : SUBSET Repos, promote : BOOLEAN, blocked : BOOLEAN,
          running : SUBSET [repo : Repos, kind : TQ!Kinds, policy : BOOLEAN],
          held : SUBSET CommitKey, dropped : SUBSET CommitKey, spoolRepos : SUBSET Repos]

WorkerTyped == up \in BOOLEAN /\ worker \in Cycle

\* Tasks and rows not yet inserted are absent.
TaskSlotsFree == \A t \in TaskIds : t >= nextId => tasks[t].status = "absent"
JobSlotsFree == \A j \in JobIds : j >= nextJob => jobs[j].status = "absent"

\* Spawned work belongs to a running record of a live daemon, and works on
\* the payload in the row.
ExecOwnsRunning ==
    \A t \in TaskIds : exec[t].phase # "none" => up /\ tasks[t].status = "running"
RunnerOwnsRunning ==
    \A j \in JobIds :
        runner[j].phase # "none" =>
            up /\ jobs[j].status = "running" /\ jobs[j].load = runner[j].load

\* What the worker read earlier in its cycle is not less than what holds now:
\* only the worker itself makes tasks and rows running.
ClaimKnowsTasks == worker.pc = "claim" => RunningNow \subseteq worker.running
StartKnowsJobs ==
    worker.pc = "start" =>
        \A j \in JobIds :
            jobs[j].status = "running" => jobs[j].load.repo \in worker.spoolRepos

\* Rows come from this composition's producers: a refresh names files of its
\* commit only.
LoadsFromProducers ==
    \A j \in JobIds :
        jobs[j].status # "absent" =>
            /\ jobs[j].load.source \in {"watcher", "post_checkout", "post_commit"}
            /\ jobs[j].load.kind \in {"sync", "ingest", "post_commit", "derivation"}
            /\ jobs[j].load.kind = "post_commit" =>
                 /\ jobs[j].load.commit \in Commits
                 /\ jobs[j].load.paths \subseteq CommitPaths[jobs[j].load.commit]

\* An execution reads no more than its record targets, so that a requeue or a
\* restart reads it again.
ExecWithinRecord ==
    \A t \in TaskIds :
        /\ (exec[t].phase # "none" /\ IsSync(t)) =>
             /\ Targets(exec[t].mode, exec[t].paths) \subseteq Targets(tasks[t].mode, tasks[t].paths)
             /\ reading[t].paths \subseteq Targets(tasks[t].mode, tasks[t].paths)
        /\ reading[t].paths # {} => exec[t].phase = "working" /\ IsSync(t)

IInv ==
    /\ QueueTyped
    /\ SpoolTyped
    /\ DataTyped
    /\ WorkerTyped
    /\ TaskSlotsFree
    /\ JobSlotsFree
    /\ ExecOwnsRunning
    /\ RunnerOwnsRunning
    /\ ClaimKnowsTasks
    /\ StartKnowsJobs
    /\ AdmissionExcludes
    /\ LoadsFromProducers
    /\ ExecWithinRecord
    /\ NoEditForgotten

-----------------------------------------------------------------------------
(* The task queue's steps *)

\* No task but those running before is running, and none of them became
\* another task.
NoTaskStarted ==
    \A t \in TaskIds :
        tasks'[t].status = "running" =>
            /\ tasks[t].status = "running"
            /\ tasks'[t].repo = tasks[t].repo
            /\ tasks'[t].kind = tasks[t].kind
            /\ tasks'[t].source = tasks[t].source

\* Task t still does what it did, or more.
Grows(t) ==
    /\ tasks'[t].status = tasks[t].status
    /\ tasks'[t].repo = tasks[t].repo
    /\ tasks'[t].kind = tasks[t].kind
    /\ Targets(tasks[t].mode, tasks[t].paths) \subseteq Targets(tasks'[t].mode, tasks'[t].paths)

Unfinished(t) == tasks[t].status \in {"queued", "running"}

LEMMA NoTaskTyped == TQ!NoTask \in TQ!Task /\ TQ!NoTask.status = "absent"
<1>1. (CHOOSE r \in Repos : TRUE) \in Repos
  BY DaemonAssumption
<1> QED BY <1>1 DEF TQ!NoTask, TQ!Task, TQ!Kinds, TQ!Sources, TQ!Modes, TQ!Statuses

(***************************************************************************)
(* save_state drops terminal records only.                                 *)
(***************************************************************************)
LEMMA PruneSpares ==
    ASSUME NEW ts, NEW t \in TaskIds
    PROVE  \/ TQ!PruneTerminalTasks(ts)[t] = ts[t]
           \/ /\ TQ!PruneTerminalTasks(ts)[t] = TQ!NoTask
              /\ ts[t].status \in TQ!Terminal
BY DEF TQ!PruneTerminalTasks, TQ!Prunable, TQ!TaskIds, TaskIds

LEMMA PruneTyped ==
    ASSUME NEW ts \in [TaskIds -> TQ!Task]
    PROVE  TQ!PruneTerminalTasks(ts) \in [TaskIds -> TQ!Task]
BY NoTaskTyped, PruneSpares DEF TQ!PruneTerminalTasks, TQ!TaskIds, TaskIds

\* What a step that saves ts, a table in which the tasks of S have changed,
\* leaves of the rest.
LEMMA SaveEffect ==
    ASSUME NEW ts \in [TaskIds -> TQ!Task], tasks' = TQ!PruneTerminalTasks(ts)
    PROVE  /\ TasksTyped'
           /\ \A t \in TaskIds : tasks'[t].status = "running" => tasks'[t] = ts[t]
           /\ \A t \in TaskIds : ts[t].status \in {"queued", "running", "absent"} => tasks'[t] = ts[t]
           /\ \A t \in TaskIds : tasks'[t].status # "absent" => tasks'[t] = ts[t]
<1>1. TasksTyped'
  BY PruneTyped DEF TasksTyped
<1>2. \A t \in TaskIds : \/ tasks'[t] = ts[t]
                         \/ tasks'[t] = TQ!NoTask /\ ts[t].status \in TQ!Terminal
  BY PruneSpares
<1> QED BY <1>1, <1>2, NoTaskTyped DEF TQ!Terminal

(***************************************************************************)
(* What merge_existing_task makes of the record it finds.                  *)
(***************************************************************************)
LEMMA MergedRecordGrows ==
    ASSUME TasksTyped, NEW req \in TQ!Request, NEW t \in TQ!MergeTarget(req)
    PROVE  LET rec == TQ!MergedRecord(t, req)
           IN  /\ t \in TaskIds /\ Unfinished(t)
               /\ rec \in TQ!Task
               /\ rec.status = tasks[t].status
               /\ rec.repo = tasks[t].repo /\ rec.repo = req.repo
               /\ rec.kind = tasks[t].kind /\ rec.kind = req.kind
               /\ tasks[t].status = "running" => rec.source = tasks[t].source
               /\ Targets(tasks[t].mode, tasks[t].paths) \subseteq Targets(rec.mode, rec.paths)
               /\ req.kind = "sync" =>
                    Targets(req.mode, req.paths) \subseteq Targets(rec.mode, rec.paths)
<1> DEFINE rec == TQ!MergedRecord(t, req)
           G == /\ rec \in TQ!Task
                /\ rec.status = tasks[t].status
                /\ rec.repo = tasks[t].repo
                /\ rec.kind = tasks[t].kind
                /\ tasks[t].status = "running" => rec.source = tasks[t].source
                /\ Targets(tasks[t].mode, tasks[t].paths) \subseteq Targets(rec.mode, rec.paths)
                /\ req.kind = "sync" =>
                     Targets(req.mode, req.paths) \subseteq Targets(rec.mode, rec.paths)
<1>1. t \in TaskIds /\ (TQ!SameIngest(t, req) \/ TQ!Subsumes(t, req) \/ TQ!Extends(t, req))
  BY DEF TQ!MergeTarget, TQ!First, TQ!TaskIds, TaskIds
<1>2. TQ!SameSlot(t, req)
  BY <1>1 DEF TQ!SameIngest, TQ!Subsumes, TQ!Extends, TQ!SyncCompatible
<1>3. /\ Unfinished(t) /\ tasks[t].repo = req.repo /\ tasks[t].kind = req.kind
  BY <1>2 DEF TQ!SameSlot, TQ!IsLive, TQ!Live, Unfinished
<1> DEFINE old == tasks[t]
<1>4. /\ old \in TQ!Task
      /\ old.paths \subseteq Paths /\ req.paths \subseteq Paths
      /\ req.source \in TQ!Sources /\ req.mode \in TQ!Modes /\ req.paths \in SUBSET Paths
      /\ \A m \in TQ!Modes, S \in SUBSET Paths : Targets(m, S) \subseteq Paths
  BY <1>1 DEF TasksTyped, TQ!Task, TQ!Request, Targets
<1>5. ASSUME TQ!SameIngest(t, req) PROVE G
  <2>1. req.kind # "sync" /\ ~TQ!Subsumes(t, req)
    BY <1>5 DEF TQ!SameIngest, TQ!Subsumes, TQ!SyncCompatible
  <2>2. rec = tasks[t]
    BY <1>5, <2>1 DEF TQ!MergedRecord
  <2> QED BY <1>3, <1>4, <2>1, <2>2
<1>6. ASSUME TQ!Subsumes(t, req) PROVE G
  <2>1. req.kind = "sync"
    BY <1>6 DEF TQ!Subsumes, TQ!SyncCompatible
  <2>2. rec = TQ!MergedMode(t, req)
    BY <1>6, <2>1 DEF TQ!MergedRecord, TQ!SameIngest
  <2> DEFINE mode == TQ!MergeSyncModes(old.mode, req.mode)
             paths == IF mode = "paths" THEN old.paths ELSE {}
             source == IF \/ req.source = "policy"
                          \/ /\ old.source # "policy" /\ old.mode = "paths"
                             /\ req.mode \in TQ!StrongerThanPaths
                       THEN req.source ELSE old.source
  <2>3. rec = [old EXCEPT !.mode = mode, !.paths = paths, !.source = source]
    BY <2>2 DEF TQ!MergedMode
  <2>4. mode \in {"auto", "full", "repair"}
    BY <1>6 DEF TQ!Subsumes, TQ!MergeSyncModes, TQ!FullLike, TQ!WeakerThanRepair, TQ!StrongerThanPaths
  <2>5. mode \in TQ!Modes /\ paths \in SUBSET Paths /\ source \in TQ!Sources
    BY <1>4, <2>4 DEF TQ!Modes, TQ!SyncModes, TQ!Task
  <2>6. old.status = "running" => source = old.source
    BY <1>6 DEF TQ!Subsumes, TQ!FullLike
  <2> HIDE DEF mode, paths, source
  <2>7. /\ rec \in TQ!Task /\ rec.status = old.status /\ rec.repo = old.repo
        /\ rec.kind = old.kind /\ rec.source = source /\ rec.mode = mode
    <3> HIDE DEF rec, old
    <3> QED BY ONLY <1>4, <2>3, <2>5 DEF TQ!Task
  <2>8. Targets(rec.mode, rec.paths) = Paths
    BY <2>4, <2>7 DEF Targets
  <2>9. Targets(old.mode, old.paths) \subseteq Paths /\ Targets(req.mode, req.paths) \subseteq Paths
    BY <1>4 DEF TQ!Task, Targets
  <2> QED BY <2>6, <2>7, <2>8, <2>9
<1>7. ASSUME TQ!Extends(t, req), ~TQ!Subsumes(t, req) PROVE G
  <2>1. req.kind = "sync" /\ req.mode = "paths" /\ old.mode = "paths"
    BY <1>7 DEF TQ!Extends, TQ!SyncCompatible
  <2>2. rec = [old EXCEPT !.paths = old.paths \cup req.paths]
    BY <1>7, <2>1 DEF TQ!MergedRecord, TQ!SameIngest, TQ!MergedPaths
  <2>3. old.paths \cup req.paths \in SUBSET Paths
    BY <1>4
  <2>4. /\ rec \in TQ!Task /\ rec.status = old.status /\ rec.repo = old.repo
        /\ rec.kind = old.kind /\ rec.source = old.source /\ rec.mode = old.mode
        /\ rec.paths = old.paths \cup req.paths
    <3> HIDE DEF rec, old
    <3> QED BY ONLY <1>4, <2>2, <2>3 DEF TQ!Task
  <2>5. /\ Targets(old.mode, old.paths) \subseteq Targets(rec.mode, rec.paths)
        /\ Targets(req.mode, req.paths) \subseteq Targets(rec.mode, rec.paths)
    BY <2>1, <2>4 DEF Targets
  <2> QED BY <2>4, <2>5
<1>8. G
  BY <1>1, <1>5, <1>6, <1>7
<1> QED BY <1>1, <1>3, <1>8

(***************************************************************************)
(* An enqueue disturbs no task, and a task that will start later or is     *)
(* running answers it.                                                     *)
(***************************************************************************)
Answered(req) ==
    \E t \in TaskIds :
        /\ tasks'[t].status \in {"queued", "running"}
        /\ tasks'[t].repo = req.repo
        /\ tasks'[t].kind = req.kind
        /\ Targets(req.mode, req.paths) \subseteq Targets(tasks'[t].mode, tasks'[t].paths)

LEMMA EnqueueEffect ==
    ASSUME TasksTyped, TaskSlotsFree, nextId \in Nat,
           NEW req \in TQ!Request, EnqueueTask(req)
    PROVE  /\ TasksTyped' /\ TaskSlotsFree' /\ nextId' \in Nat
           /\ NoTaskStarted
           /\ \A t \in TaskIds : Unfinished(t) => Grows(t)
           /\ req.kind = "sync" => Answered(req)
<1>1. PICK t \in TaskIds : TQ!EnqueueStep(req, t)
  BY DEF EnqueueTask
<1>2. CASE t \in TQ!MergeTarget(req)
  <2> DEFINE rec == TQ!MergedRecord(t, req)
             ts == [tasks EXCEPT ![t] = rec]
  <2>1. tasks' = TQ!PruneTerminalTasks(ts) /\ nextId' = nextId
    BY <1>1, <1>2 DEF TQ!EnqueueStep
  <2>2. /\ Unfinished(t)
        /\ rec \in TQ!Task /\ rec.status = tasks[t].status
        /\ rec.repo = tasks[t].repo /\ rec.repo = req.repo
        /\ rec.kind = tasks[t].kind /\ rec.kind = req.kind
        /\ tasks[t].status = "running" => rec.source = tasks[t].source
        /\ Targets(tasks[t].mode, tasks[t].paths) \subseteq Targets(rec.mode, rec.paths)
        /\ req.kind = "sync" => Targets(req.mode, req.paths) \subseteq Targets(rec.mode, rec.paths)
    BY <1>2, MergedRecordGrows
  <2> HIDE DEF rec
  <2>3. ts \in [TaskIds -> TQ!Task]
    BY <2>2 DEF TasksTyped
  <2>4. ts[t] = rec /\ \A u \in TaskIds : u # t => ts[u] = tasks[u]
    BY DEF TasksTyped
  <2> HIDE DEF ts
  <2>5. /\ TasksTyped'
        /\ \A u \in TaskIds : tasks'[u].status = "running" => tasks'[u] = ts[u]
        /\ \A u \in TaskIds :
             ts[u].status \in {"queued", "running", "absent"} => tasks'[u] = ts[u]
    BY <2>1, <2>3, SaveEffect
  <2>6. TaskSlotsFree'
    BY <2>1, <2>2, <2>4, <2>5 DEF TaskSlotsFree, Unfinished
  <2>7. NoTaskStarted
    BY <2>2, <2>4, <2>5 DEF NoTaskStarted
  <2>8. \A u \in TaskIds : Unfinished(u) => Grows(u)
    BY <2>2, <2>4, <2>5 DEF Unfinished, Grows
  <2>9. tasks'[t] = rec
    BY <2>2, <2>4, <2>5 DEF Unfinished
  <2>10. req.kind = "sync" => Answered(req)
    BY <2>2, <2>9 DEF Answered, Unfinished
  <2> QED BY <2>1, <2>5, <2>6, <2>7, <2>8, <2>10
<1>3. CASE t \notin TQ!MergeTarget(req)
  <2> DEFINE rec == TQ!NewTask(req)
             ts == [tasks EXCEPT ![t] = rec]
  <2>1. /\ tasks' = TQ!PruneTerminalTasks(ts) /\ nextId' = nextId + 1
        /\ t = nextId
    BY <1>1, <1>3 DEF TQ!EnqueueStep
  <2>2. /\ rec \in TQ!Task /\ rec.status = "queued" /\ rec.repo = req.repo
        /\ rec.kind = req.kind /\ rec.mode = req.mode /\ rec.paths = req.paths
    BY DEF TQ!NewTask, TQ!Task, TQ!Request, TQ!Statuses, TQ!Live
  <2> HIDE DEF rec
  <2>3. ts \in [TaskIds -> TQ!Task]
    BY <2>2 DEF TasksTyped
  <2>4. ts[t] = rec /\ \A u \in TaskIds : u # t => ts[u] = tasks[u]
    BY DEF TasksTyped
  <2> HIDE DEF ts
  <2>5. /\ TasksTyped'
        /\ \A u \in TaskIds : tasks'[u].status = "running" => tasks'[u] = ts[u]
        /\ \A u \in TaskIds :
             ts[u].status \in {"queued", "running", "absent"} => tasks'[u] = ts[u]
    BY <2>1, <2>3, SaveEffect
  <2>6. tasks[t].status = "absent"
    BY <2>1 DEF TaskSlotsFree
  <2>7. TaskSlotsFree'
    BY <2>1, <2>4, <2>5, DaemonAssumption DEF TaskSlotsFree, TaskIds
  <2>8. NoTaskStarted
    BY <2>2, <2>4, <2>5 DEF NoTaskStarted
  <2>9. \A u \in TaskIds : Unfinished(u) => Grows(u)
    BY <2>2, <2>4, <2>5, <2>6 DEF Unfinished, Grows
  <2>10. tasks'[t] = rec
    BY <2>2, <2>4, <2>5
  <2>11. Answered(req)
    BY <2>2, <2>10 DEF Answered
  <2> QED BY <2>1, <2>5, <2>7, <2>8, <2>9, <2>11
<1> QED BY <1>2, <1>3

(***************************************************************************)
(* The other steps of the queue change the records of some tasks and leave *)
(* every other live one as it was.                                         *)
(***************************************************************************)
LEMMA SameGrows ==
    ASSUME NEW t \in TaskIds, tasks'[t] = tasks[t]
    PROVE  Grows(t)
BY DEF Grows

LEMMA EndEffect ==
    ASSUME TasksTyped, TaskSlotsFree, endings \in Nat, nextId' = nextId,
           NEW t \in TaskIds, Unfinished(t), NEW status \in {"completed", "failed"},
           TQ!EndTask(t, status)
    PROVE  /\ TasksTyped' /\ TaskSlotsFree' /\ endings' \in Nat
           /\ NoTaskStarted
           /\ \A u \in TaskIds : u # t /\ Unfinished(u) => Grows(u)
<1> DEFINE rec == [tasks[t] EXCEPT !.status = status, !.ended = endings + 1]
           ts == [tasks EXCEPT ![t] = rec]
<1>1. tasks' = TQ!PruneTerminalTasks(ts) /\ endings' = endings + 1
  BY DEF TQ!EndTask
<1>2. rec \in TQ!Task /\ rec.status = status
  <2>1. tasks[t] \in TQ!Task /\ status \in TQ!Statuses /\ endings + 1 \in Nat
    BY DEF TasksTyped, TQ!Statuses, TQ!Terminal
  <2> QED BY ONLY <2>1 DEF TQ!Task
<1> HIDE DEF rec
<1>3. ts \in [TaskIds -> TQ!Task]
  BY <1>2 DEF TasksTyped
<1>4. ts[t] = rec /\ \A u \in TaskIds : u # t => ts[u] = tasks[u]
  BY DEF TasksTyped
<1> HIDE DEF ts
<1>5. /\ TasksTyped'
      /\ \A u \in TaskIds : tasks'[u].status = "running" => tasks'[u] = ts[u]
      /\ \A u \in TaskIds : ts[u].status \in {"queued", "running", "absent"} => tasks'[u] = ts[u]
  BY <1>1, <1>3, SaveEffect
<1>6. TaskSlotsFree'
  BY <1>4, <1>5 DEF TaskSlotsFree, Unfinished
<1>7. NoTaskStarted
  BY <1>2, <1>4, <1>5 DEF NoTaskStarted
<1>8. \A u \in TaskIds : u # t /\ Unfinished(u) => Grows(u)
  BY <1>4, <1>5, SameGrows DEF Unfinished
<1> QED BY <1>1, <1>5, <1>6, <1>7, <1>8

LEMMA RequeueEffect ==
    ASSUME TasksTyped, TaskSlotsFree, nextId' = nextId,
           NEW t \in TaskIds, Unfinished(t), TQ!RequeueStep(t)
    PROVE  /\ TasksTyped' /\ TaskSlotsFree'
           /\ NoTaskStarted
           /\ \A u \in TaskIds : u # t /\ Unfinished(u) => Grows(u)
           /\ tasks'[t].status = "queued" /\ tasks'[t].repo = tasks[t].repo
           /\ tasks'[t].kind = tasks[t].kind
           /\ tasks'[t].mode = tasks[t].mode /\ tasks'[t].paths = tasks[t].paths
<1> DEFINE rec == [tasks[t] EXCEPT !.status = "queued"]
           ts == [tasks EXCEPT ![t] = rec]
<1>1. tasks' = TQ!PruneTerminalTasks(ts)
  BY DEF TQ!RequeueStep
<1>2. /\ rec \in TQ!Task /\ rec.status = "queued" /\ rec.repo = tasks[t].repo
      /\ rec.kind = tasks[t].kind /\ rec.mode = tasks[t].mode /\ rec.paths = tasks[t].paths
  <2>1. tasks[t] \in TQ!Task
    BY DEF TasksTyped
  <2> QED BY ONLY <2>1 DEF TQ!Task, TQ!Statuses, TQ!Live
<1> HIDE DEF rec
<1>3. ts \in [TaskIds -> TQ!Task]
  BY <1>2 DEF TasksTyped
<1>4. ts[t] = rec /\ \A u \in TaskIds : u # t => ts[u] = tasks[u]
  BY DEF TasksTyped
<1> HIDE DEF ts
<1>5. /\ TasksTyped'
      /\ \A u \in TaskIds : tasks'[u].status = "running" => tasks'[u] = ts[u]
      /\ \A u \in TaskIds : ts[u].status \in {"queued", "running", "absent"} => tasks'[u] = ts[u]
  BY <1>1, <1>3, SaveEffect
<1>6. TaskSlotsFree'
  BY <1>4, <1>5 DEF TaskSlotsFree, Unfinished
<1>7. NoTaskStarted
  BY <1>2, <1>4, <1>5 DEF NoTaskStarted
<1>8. \A u \in TaskIds : u # t /\ Unfinished(u) => Grows(u)
  BY <1>4, <1>5, SameGrows DEF Unfinished
<1>9. tasks'[t] = rec
  BY <1>2, <1>4, <1>5
<1> QED BY <1>2, <1>5, <1>6, <1>7, <1>8, <1>9

LEMMA RebuildEffect ==
    ASSUME TasksTyped, TaskSlotsFree, nextId' = nextId,
           NEW t \in TaskIds, Unfinished(t), TQ!BeginAfterRebuildStep(t)
    PROVE  /\ TasksTyped' /\ TaskSlotsFree'
           /\ NoTaskStarted
           /\ \A u \in TaskIds : Unfinished(u) => Grows(u)
           /\ tasks'[t].mode = "repair"
<1> DEFINE rec == [tasks[t] EXCEPT !.mode = "repair", !.paths = {}]
           ts == [tasks EXCEPT ![t] = rec]
<1>1. tasks' = TQ!PruneTerminalTasks(ts)
  BY DEF TQ!BeginAfterRebuildStep, TasksTyped, TQ!Task
<1>2. /\ rec \in TQ!Task /\ rec.status = tasks[t].status /\ rec.repo = tasks[t].repo
      /\ rec.kind = tasks[t].kind /\ rec.source = tasks[t].source /\ rec.mode = "repair"
  <2>1. tasks[t] \in TQ!Task
    BY DEF TasksTyped
  <2> QED BY ONLY <2>1 DEF TQ!Task, TQ!Modes, TQ!SyncModes
<1>3. Targets(tasks[t].mode, tasks[t].paths) \subseteq Targets(rec.mode, rec.paths)
  <2>1. tasks[t].paths \subseteq Paths
    BY DEF TasksTyped, TQ!Task
  <2> HIDE DEF rec
  <2> QED BY <1>2, <2>1 DEF Targets
<1> HIDE DEF rec
<1>4. ts \in [TaskIds -> TQ!Task]
  BY <1>2 DEF TasksTyped
<1>5. ts[t] = rec /\ \A u \in TaskIds : u # t => ts[u] = tasks[u]
  BY DEF TasksTyped
<1> HIDE DEF ts
<1>6. /\ TasksTyped'
      /\ \A u \in TaskIds : tasks'[u].status = "running" => tasks'[u] = ts[u]
      /\ \A u \in TaskIds : ts[u].status \in {"queued", "running", "absent"} => tasks'[u] = ts[u]
  BY <1>1, <1>4, SaveEffect
<1>7. TaskSlotsFree'
  BY <1>5, <1>6 DEF TaskSlotsFree, Unfinished
<1>8. NoTaskStarted
  BY <1>2, <1>5, <1>6 DEF NoTaskStarted
<1>9. tasks'[t] = rec
  BY <1>2, <1>5, <1>6 DEF Unfinished
<1>10. \A u \in TaskIds : u # t /\ Unfinished(u) => Grows(u)
  BY <1>5, <1>6, SameGrows DEF Unfinished
<1>11. Grows(t)
  BY <1>2, <1>3, <1>9 DEF Grows
<1> QED BY <1>2, <1>6, <1>7, <1>8, <1>9, <1>10, <1>11

LEMMA StartEffect ==
    ASSUME TasksTyped, TaskSlotsFree, nextId' = nextId,
           NEW blocked, TQ!StartTasks(TQ!NextRunnable(blocked))
    PROVE  /\ TasksTyped' /\ TaskSlotsFree'
           /\ \A t \in TQ!NextRunnable(blocked) :
                /\ t \in TaskIds
                /\ tasks[t].status = "queued" /\ tasks'[t].status = "running"
                /\ tasks[t].repo \notin blocked
                /\ tasks'[t].repo = tasks[t].repo /\ tasks'[t].kind = tasks[t].kind
                /\ tasks'[t].mode = tasks[t].mode /\ tasks'[t].paths = tasks[t].paths
           /\ \A t \in TaskIds \ TQ!NextRunnable(blocked) :
                /\ Unfinished(t) => Grows(t)
                /\ tasks'[t].status = "running" => tasks'[t] = tasks[t]
<1> DEFINE S == TQ!NextRunnable(blocked)
           ts == [t \in TaskIds |->
                    IF t \in S THEN [tasks[t] EXCEPT !.status = "running"] ELSE tasks[t]]
<1>1. tasks' = TQ!PruneTerminalTasks(ts)
  BY DEF TQ!StartTasks, TQ!TaskIds, TaskIds
<1>2. \A t \in S : t \in TaskIds /\ tasks[t].status = "queued" /\ tasks[t].repo \notin blocked
  BY DEF TQ!NextRunnable, TQ!Startable, TQ!TaskIds, TaskIds
<1> HIDE DEF S
<1>3. \A t \in S : /\ ts[t] \in TQ!Task /\ ts[t].status = "running"
                   /\ ts[t].repo = tasks[t].repo /\ ts[t].kind = tasks[t].kind
                   /\ ts[t].mode = tasks[t].mode /\ ts[t].paths = tasks[t].paths
  <2> SUFFICES ASSUME NEW t \in S
               PROVE  /\ ts[t] \in TQ!Task /\ ts[t].status = "running"
                      /\ ts[t].repo = tasks[t].repo /\ ts[t].kind = tasks[t].kind
                      /\ ts[t].mode = tasks[t].mode /\ ts[t].paths = tasks[t].paths
    OBVIOUS
  <2>1. ts[t] = [tasks[t] EXCEPT !.status = "running"]
    BY <1>2
  <2>2. tasks[t] \in TQ!Task
    BY <1>2 DEF TasksTyped
  <2> HIDE DEF ts
  <2> QED BY ONLY <2>1, <2>2 DEF TQ!Task, TQ!Statuses, TQ!Live
<1>4. \A t \in TaskIds \ S : ts[t] = tasks[t]
  OBVIOUS
<1>5. ts \in [TaskIds -> TQ!Task]
  <2>1. \A t \in TaskIds : ts[t] \in TQ!Task
    BY <1>3, <1>4 DEF TasksTyped
  <2> QED BY <2>1
<1> HIDE DEF ts
<1>6. /\ TasksTyped'
      /\ \A u \in TaskIds : tasks'[u].status = "running" => tasks'[u] = ts[u]
      /\ \A u \in TaskIds : ts[u].status \in {"queued", "running", "absent"} => tasks'[u] = ts[u]
  BY <1>1, <1>5, SaveEffect
<1>7. \A t \in S : tasks'[t] = ts[t]
  BY <1>2, <1>3, <1>6
<1>8. TaskSlotsFree'
  BY <1>2, <1>4, <1>6 DEF TaskSlotsFree
<1>9. \A t \in TaskIds \ S : /\ Unfinished(t) => Grows(t)
                             /\ tasks'[t].status = "running" => tasks'[t] = tasks[t]
  BY <1>4, <1>6, SameGrows DEF Unfinished
<1> QED BY <1>2, <1>3, <1>6, <1>7, <1>8, <1>9 DEF S

LEMMA RecoverTasksEffect ==
    ASSUME TasksTyped, TaskSlotsFree, nextId' = nextId, TQ!RecoverStep
    PROVE  /\ TasksTyped' /\ TaskSlotsFree'
           /\ NoTaskStarted
           /\ \A t \in TaskIds :
                Unfinished(t) =>
                  /\ tasks'[t].status = "queued" /\ tasks'[t].repo = tasks[t].repo
                  /\ tasks'[t].kind = tasks[t].kind
                  /\ tasks'[t].mode = tasks[t].mode /\ tasks'[t].paths = tasks[t].paths
<1> DEFINE ts == [t \in TaskIds |->
                    IF tasks[t].status = "running"
                    THEN [tasks[t] EXCEPT !.status = "queued"] ELSE tasks[t]]
<1>1. tasks' = TQ!PruneTerminalTasks(ts)
  BY DEF TQ!RecoverStep, TQ!TaskIds, TaskIds
<1>2. \A t \in TaskIds :
        /\ ts[t] \in TQ!Task
        /\ ts[t].status = IF tasks[t].status = "running" THEN "queued" ELSE tasks[t].status
        /\ ts[t].repo = tasks[t].repo /\ ts[t].kind = tasks[t].kind
        /\ ts[t].mode = tasks[t].mode /\ ts[t].paths = tasks[t].paths
  <2> SUFFICES ASSUME NEW t \in TaskIds
               PROVE  /\ ts[t] \in TQ!Task
                      /\ ts[t].status = IF tasks[t].status = "running" THEN "queued"
                                        ELSE tasks[t].status
                      /\ ts[t].repo = tasks[t].repo /\ ts[t].kind = tasks[t].kind
                      /\ ts[t].mode = tasks[t].mode /\ ts[t].paths = tasks[t].paths
    OBVIOUS
  <2>1. ts[t] = IF tasks[t].status = "running"
                THEN [tasks[t] EXCEPT !.status = "queued"] ELSE tasks[t]
    OBVIOUS
  <2>2. tasks[t] \in TQ!Task
    BY DEF TasksTyped
  <2> HIDE DEF ts
  <2> QED BY ONLY <2>1, <2>2 DEF TQ!Task, TQ!Statuses, TQ!Live
<1>3. ts \in [TaskIds -> TQ!Task]
  BY <1>2
<1> HIDE DEF ts
<1>4. /\ TasksTyped'
      /\ \A u \in TaskIds : tasks'[u].status = "running" => tasks'[u] = ts[u]
      /\ \A u \in TaskIds : ts[u].status \in {"queued", "running", "absent"} => tasks'[u] = ts[u]
  BY <1>1, <1>3, SaveEffect
<1>5. TaskSlotsFree' /\ NoTaskStarted
  BY <1>2, <1>4 DEF TaskSlotsFree, NoTaskStarted
<1> QED BY <1>2, <1>4, <1>5 DEF Unfinished

\* The excluded paths leave the queued path syncs of repo r, and nothing else
\* changes.
LosesOnly(t, r, excluded) ==
    /\ tasks[t].status = "queued" /\ tasks[t].repo = r
    /\ \A p \in Targets(tasks[t].mode, tasks[t].paths) \ excluded :
         /\ tasks'[t].status = "queued"
         /\ tasks'[t].repo = tasks[t].repo
         /\ tasks'[t].kind = tasks[t].kind
         /\ p \in Targets(tasks'[t].mode, tasks'[t].paths)

LEMMA PruneExcludedEffect ==
    ASSUME TasksTyped, TaskSlotsFree, endings \in Nat, nextId' = nextId,
           NEW r, NEW excluded, TQ!PruneExcludedStep(r, excluded)
    PROVE  /\ TasksTyped' /\ TaskSlotsFree' /\ endings' \in Nat
           /\ NoTaskStarted
           /\ \A t \in TaskIds : Unfinished(t) => Grows(t) \/ LosesOnly(t, r, excluded)
<1> DEFINE emptied == TQ!Emptied(r, excluded)
           ts == [t \in TaskIds |->
                    IF t \in emptied
                    THEN [tasks[t] EXCEPT !.paths = {}, !.status = "cancelled",
                                          !.ended = endings + 1]
                    ELSE IF TQ!TargetsPaths(t, r)
                    THEN [tasks[t] EXCEPT !.paths = @ \ excluded]
                    ELSE tasks[t]]
<1>1. tasks' = TQ!PruneTerminalTasks(ts) /\ endings' \in Nat
  <2>1. tasks' = TQ!PruneTerminalTasks(ts)
    BY Zenon DEF TQ!PruneExcludedStep, TQ!TaskIds, TaskIds
  <2>2. endings' = IF emptied = {} THEN endings ELSE endings + 1
    BY DEF TQ!PruneExcludedStep
  <2> HIDE DEF ts, emptied
  <2> QED BY <2>1, <2>2
<1>2. \A t \in emptied : TQ!TargetsPaths(t, r) /\ tasks[t].paths \subseteq excluded
  BY DEF TQ!Emptied
<1>3. \A t \in TaskIds : TQ!TargetsPaths(t, r) =>
        /\ tasks[t].status = "queued" /\ tasks[t].mode = "paths" /\ tasks[t].repo = r
  BY DEF TQ!TargetsPaths
<1> HIDE DEF emptied
<1>4. \A t \in TaskIds :
        /\ ts[t] \in TQ!Task
        /\ t \in emptied => ts[t].status = "cancelled"
        /\ (t \notin emptied /\ TQ!TargetsPaths(t, r)) =>
             /\ ts[t].status = tasks[t].status /\ ts[t].repo = tasks[t].repo
             /\ ts[t].kind = tasks[t].kind /\ ts[t].mode = tasks[t].mode
             /\ ts[t].paths = tasks[t].paths \ excluded
        /\ ~TQ!TargetsPaths(t, r) => ts[t] = tasks[t]
  <2> SUFFICES ASSUME NEW t \in TaskIds
               PROVE  /\ ts[t] \in TQ!Task
                      /\ t \in emptied => ts[t].status = "cancelled"
                      /\ (t \notin emptied /\ TQ!TargetsPaths(t, r)) =>
                           /\ ts[t].status = tasks[t].status /\ ts[t].repo = tasks[t].repo
                           /\ ts[t].kind = tasks[t].kind /\ ts[t].mode = tasks[t].mode
                           /\ ts[t].paths = tasks[t].paths \ excluded
                      /\ ~TQ!TargetsPaths(t, r) => ts[t] = tasks[t]
    OBVIOUS
  <2>1. tasks[t] \in TQ!Task
    BY DEF TasksTyped
  <2>2. CASE t \in emptied
    <3>1. ts[t] = [tasks[t] EXCEPT !.paths = {}, !.status = "cancelled", !.ended = endings + 1]
      BY <2>2
    <3>2. TQ!TargetsPaths(t, r) /\ endings + 1 \in Nat
      BY <1>2, <2>2
    <3> HIDE DEF ts
    <3> QED BY ONLY <2>1, <2>2, <3>1, <3>2 DEF TQ!Task, TQ!Statuses, TQ!Terminal
  <2>3. CASE t \notin emptied /\ TQ!TargetsPaths(t, r)
    <3>1. ts[t] = [tasks[t] EXCEPT !.paths = tasks[t].paths \ excluded]
      BY <2>3
    <3> HIDE DEF ts
    <3> QED BY ONLY <2>1, <2>3, <3>1 DEF TQ!Task
  <2>4. CASE t \notin emptied /\ ~TQ!TargetsPaths(t, r)
    BY <2>1, <2>4
  <2> QED BY <1>2, <2>2, <2>3, <2>4
<1>5. ts \in [TaskIds -> TQ!Task]
  <2>1. \A t \in TaskIds : ts[t] \in TQ!Task
    BY ONLY <1>4
  <2> QED BY ONLY <2>1
<1> HIDE DEF ts
<1>6. /\ TasksTyped'
      /\ \A u \in TaskIds : tasks'[u].status = "running" => tasks'[u] = ts[u]
      /\ \A u \in TaskIds : ts[u].status \in {"queued", "running", "absent"} => tasks'[u] = ts[u]
  BY <1>1, <1>5, SaveEffect
<1>7. TaskSlotsFree'
  BY <1>2, <1>3, <1>4, <1>6 DEF TaskSlotsFree
<1>8. NoTaskStarted
  <2> SUFFICES ASSUME NEW t \in TaskIds, tasks'[t].status = "running"
               PROVE  ts[t] = tasks[t] /\ tasks'[t] = ts[t]
    BY DEF NoTaskStarted
  <2> QED BY <1>3, <1>4, <1>6
<1>9. ASSUME NEW t \in TaskIds, Unfinished(t)
      PROVE  Grows(t) \/ LosesOnly(t, r, excluded)
  <2>1. CASE ~TQ!TargetsPaths(t, r)
    BY <1>4, <1>6, <1>9, <2>1, SameGrows DEF Unfinished
  <2>2. CASE TQ!TargetsPaths(t, r) /\ t \in emptied
    <3>1. Targets(tasks[t].mode, tasks[t].paths) \ excluded = {}
      BY <1>2, <1>3, <2>2 DEF Targets
    <3> QED BY <1>3, <2>2, <3>1 DEF LosesOnly
  <2>3. CASE TQ!TargetsPaths(t, r) /\ t \notin emptied
    <3>1. tasks'[t] = ts[t] /\ ts[t].status = "queued"
      BY <1>3, <1>4, <1>6, <2>3
    <3> QED BY <1>3, <1>4, <2>3, <3>1 DEF LosesOnly, Targets
  <2> QED BY <2>1, <2>2, <2>3
<1> QED BY <1>1, <1>6, <1>7, <1>8, <1>9

-----------------------------------------------------------------------------
(* The producer spool's steps *)

Kept(j) == jobs[j].status \in {"pending", "running"}

\* No row but those running before is running, and none of them changed.
NoJobClaimed ==
    \A j \in JobIds : jobs'[j].status = "running" => jobs[j].status = "running" /\ jobs'[j] = jobs[j]

\* The paths a payload makes some sync read.
LoadTargets(load) ==
    IF load.kind = "sync" THEN Targets(load.mode, load.paths)
    ELSE IF load.kind = "post_commit" THEN load.paths ELSE {}

LEMMA JobCoversMeans ==
    ASSUME NEW j \in JobIds, NEW r, NEW p
    PROVE  JobCovers(j, r, p) <=>
             /\ jobs[j].load.repo = r
             /\ p \in LoadTargets(jobs[j].load)
             /\ \/ jobs[j].status = "pending"
                \/ jobs[j].status = "running" /\ runner[j].phase # "done"
BY DEF JobCovers, LoadTargets

\* A row of this composition's producers (LoadsFromProducers says it of all).
FromProducer(load) ==
    /\ load.source \in {"watcher", "post_checkout", "post_commit"}
    /\ load.kind \in {"sync", "ingest", "post_commit", "derivation"}
    /\ load.kind = "post_commit" =>
         load.commit \in Commits /\ load.paths \subseteq CommitPaths[load.commit]

\* Row j still asks for what it did, or more.
JobGrows(j) ==
    /\ jobs'[j].status = jobs[j].status
    /\ jobs'[j].load.repo = jobs[j].load.repo
    /\ LoadTargets(jobs[j].load) \subseteq LoadTargets(jobs'[j].load)

LEMMA NoRowTyped == PS!NoRow \in PS!Row /\ PS!NoRow.status = "absent"
<1>1. (CHOOSE r \in Repos : TRUE) \in Repos
  BY DaemonAssumption
<1> QED
  BY <1>1 DEF PS!NoRow, PS!Row, PS!AnyPayload, PS!Payload, PS!PayloadKinds, PS!Sources, PS!Modes

LEMMA NoRunnerTyped == PS!NoRunner \in PS!Runner /\ PS!NoRunner.phase = "none"
<1>1. (CHOOSE r \in Repos : TRUE) \in Repos
  BY DaemonAssumption
<1> QED
  BY <1>1 DEF PS!NoRunner, PS!Runner, PS!AnyPayload, PS!Payload, PS!PayloadKinds, PS!Sources,
              PS!Modes

(***************************************************************************)
(* A refresh of a pending row unites the paths, and a commit's refresh is  *)
(* always of the commit's files.                                           *)
(***************************************************************************)
LEMMA MergedPayloadGrows ==
    ASSUME NEW old \in PS!Payload, NEW load \in PS!Payload, FromProducer(old), FromProducer(load),
           PS!DedupeKey(old) = PS!DedupeKey(load),
           load.kind = "post_commit" => load.paths = CommitPaths[load.commit]
    PROVE  LET new == PS!MergePendingPayload(old, load)
           IN  /\ new \in PS!Payload /\ FromProducer(new)
               /\ new.repo = load.repo /\ new.repo = old.repo
               /\ LoadTargets(old) \subseteq LoadTargets(new)
               /\ LoadTargets(load) \subseteq LoadTargets(new)
<1> DEFINE new == PS!MergePendingPayload(old, load)
           G == /\ new \in PS!Payload /\ FromProducer(new)
                /\ new.repo = load.repo
                /\ LoadTargets(old) \subseteq LoadTargets(new)
                /\ LoadTargets(load) \subseteq LoadTargets(new)
<1>1. /\ old.repo = load.repo /\ old.kind = load.kind /\ old.source = load.source
      /\ old.mode = load.mode /\ old.commit = load.commit
  BY DEF PS!DedupeKey
<1>2. ASSUME old.kind = "sync", old.mode = "paths" PROVE G
  <2>1. new = [load EXCEPT !.paths = load.paths \cup old.paths]
    BY <1>2 DEF PS!MergePendingPayload
  <2>2. /\ new \in PS!Payload /\ new.repo = load.repo /\ new.kind = "sync"
        /\ new.mode = "paths" /\ new.source = load.source
        /\ new.paths = load.paths \cup old.paths
    <3> HIDE DEF new
    <3> QED BY <1>1, <1>2, <2>1 DEF PS!Payload
  <2> HIDE DEF new
  <2> QED BY <1>1, <1>2, <2>2 DEF FromProducer, LoadTargets, Targets
<1>3. ASSUME ~(old.kind = "sync" /\ old.mode = "paths") PROVE G
  <2>1. new = load
    BY <1>3 DEF PS!MergePendingPayload, FromProducer
  <2>2. LoadTargets(old) \subseteq LoadTargets(load)
    BY <1>1, <1>3 DEF LoadTargets, Targets, FromProducer
  <2> HIDE DEF new
  <2> QED BY <2>1, <2>2
<1>4. G
  BY <1>2, <1>3
<1> QED BY <1>1, <1>4

LEMMA EnqueueJobEffect ==
    ASSUME JobsTyped, JobSlotsFree, LoadsFromProducers, now \in Nat, nextJob \in Nat,
           NEW load \in PS!Payload, FromProducer(load),
           load.kind = "post_commit" => load.paths = CommitPaths[load.commit],
           PS!EnqueueJobStep(load)
    PROVE  /\ JobsTyped' /\ JobSlotsFree' /\ LoadsFromProducers' /\ nextJob' \in Nat
           /\ NoJobClaimed
           /\ \A j \in JobIds : Kept(j) => JobGrows(j)
           /\ \A j \in JobIds : jobs[j].status = "running" => jobs'[j] = jobs[j]
           /\ \E j \in JobIds : /\ jobs'[j].status = "pending"
                                /\ jobs'[j].load.repo = load.repo
                                /\ LoadTargets(load) \subseteq LoadTargets(jobs'[j].load)
<1>0. \A j \in JobIds : jobs[j].status # "absent" => FromProducer(jobs[j].load)
  BY DEF LoadsFromProducers, FromProducer
<1>1. ASSUME NEW j \in PS!OldestSubmitted(PS!PendingDeduped(load)),
             jobs' = [jobs EXCEPT ![j].load = PS!MergePendingPayload(@, load), ![j].avail = now],
             nextJob' = nextJob
      PROVE  /\ JobsTyped' /\ JobSlotsFree' /\ LoadsFromProducers'
             /\ NoJobClaimed
             /\ \A k \in JobIds : Kept(k) => JobGrows(k)
             /\ \A k \in JobIds : jobs[k].status = "running" => jobs'[k] = jobs[k]
             /\ jobs'[j].status = "pending"
             /\ jobs'[j].load.repo = load.repo
             /\ LoadTargets(load) \subseteq LoadTargets(jobs'[j].load)
  <2>1. j \in JobIds /\ jobs[j].status = "pending" /\ PS!DedupeKey(jobs[j].load) = PS!DedupeKey(load)
    BY DEF PS!OldestSubmitted, PS!PendingDeduped, PS!JobIds, JobIds
  <2> DEFINE new == PS!MergePendingPayload(jobs[j].load, load)
             row == [jobs[j] EXCEPT !.load = new, !.avail = now]
  <2>2. jobs[j] \in PS!Row /\ jobs[j].load \in PS!Payload /\ FromProducer(jobs[j].load)
    BY <1>0, <2>1 DEF JobsTyped, PS!Row
  <2>3. /\ new \in PS!Payload /\ FromProducer(new)
        /\ new.repo = load.repo /\ new.repo = jobs[j].load.repo
        /\ LoadTargets(jobs[j].load) \subseteq LoadTargets(new)
        /\ LoadTargets(load) \subseteq LoadTargets(new)
    BY <2>1, <2>2, MergedPayloadGrows
  <2> HIDE DEF new
  <2>4. row \in PS!Row /\ row.status = jobs[j].status /\ row.load = new
    BY ONLY <2>2, <2>3, now \in Nat DEF PS!Row
  <2>5. jobs' = [jobs EXCEPT ![j] = row]
    BY <1>1, <2>1 DEF JobsTyped, PS!Row, new
  <2> HIDE DEF row
  <2>6. jobs'[j] = row /\ \A k \in JobIds : k # j => jobs'[k] = jobs[k]
    BY <2>1, <2>5 DEF JobsTyped
  <2>7. JobsTyped'
    BY <2>1, <2>4, <2>5 DEF JobsTyped
  <2>8. JobSlotsFree'
    BY <1>1, <2>1, <2>6 DEF JobSlotsFree
  <2>9. LoadsFromProducers'
    BY <1>0, <2>3, <2>4, <2>6 DEF LoadsFromProducers, FromProducer
  <2>10. NoJobClaimed /\ \A k \in JobIds : jobs[k].status = "running" => jobs'[k] = jobs[k]
    BY <2>1, <2>4, <2>6 DEF NoJobClaimed
  <2>11. \A k \in JobIds : Kept(k) => JobGrows(k)
    BY <2>3, <2>4, <2>6 DEF Kept, JobGrows
  <2> QED BY <2>1, <2>3, <2>4, <2>6, <2>7, <2>8, <2>9, <2>10, <2>11
<1>2. ASSUME nextJob \in JobIds,
             jobs' = [jobs EXCEPT ![nextJob] = [load |-> load, status |-> "pending",
                                                avail |-> now, submitted |-> now]],
             nextJob' = nextJob + 1
      PROVE  /\ JobsTyped' /\ JobSlotsFree' /\ LoadsFromProducers'
             /\ NoJobClaimed
             /\ \A k \in JobIds : Kept(k) => JobGrows(k)
             /\ \A k \in JobIds : jobs[k].status = "running" => jobs'[k] = jobs[k]
             /\ jobs'[nextJob].status = "pending"
             /\ jobs'[nextJob].load = load
  <2> DEFINE row == [load |-> load, status |-> "pending", avail |-> now, submitted |-> now]
  <2>1. row \in PS!Row /\ row.status = "pending" /\ row.load = load
    BY DEF PS!Row
  <2> HIDE DEF row
  <2>2. jobs'[nextJob] = row /\ \A k \in JobIds : k # nextJob => jobs'[k] = jobs[k]
    BY <1>2 DEF JobsTyped, row
  <2>3. jobs[nextJob].status = "absent"
    BY <1>2 DEF JobSlotsFree
  <2>4. JobsTyped'
    BY <1>2, <2>1 DEF JobsTyped, row
  <2>5. JobSlotsFree'
    BY <1>2, <2>2, DaemonAssumption DEF JobSlotsFree, JobIds
  <2>6. LoadsFromProducers'
    BY <1>0, <2>1, <2>2 DEF LoadsFromProducers, FromProducer
  <2>7. NoJobClaimed /\ \A k \in JobIds : jobs[k].status = "running" => jobs'[k] = jobs[k]
    BY <2>1, <2>2, <2>3 DEF NoJobClaimed
  <2>8. \A k \in JobIds : Kept(k) => JobGrows(k)
    BY <2>2, <2>3 DEF Kept, JobGrows
  <2> QED BY <2>1, <2>2, <2>4, <2>5, <2>6, <2>7, <2>8
<1>3. CASE \E j \in PS!OldestSubmitted(PS!PendingDeduped(load)) :
              /\ jobs' = [jobs EXCEPT ![j].load = PS!MergePendingPayload(@, load), ![j].avail = now]
              /\ UNCHANGED nextJob
  <2>1. PICK j \in PS!OldestSubmitted(PS!PendingDeduped(load)) :
              /\ jobs' = [jobs EXCEPT ![j].load = PS!MergePendingPayload(@, load), ![j].avail = now]
              /\ UNCHANGED nextJob
    BY <1>3
  <2>2. j \in JobIds
    BY DEF PS!OldestSubmitted, PS!PendingDeduped, PS!JobIds, JobIds
  <2> QED BY <1>1, <2>1, <2>2
<1>4. CASE /\ nextJob \in JobIds
           /\ jobs' = [jobs EXCEPT ![nextJob] = [load |-> load, status |-> "pending",
                                                 avail |-> now, submitted |-> now]]
           /\ nextJob' = nextJob + 1
  BY <1>2, <1>4
<1> QED BY <1>3, <1>4 DEF PS!EnqueueJobStep, PS!JobIds, JobIds

\* Pruning takes excluded paths only, and a pending row at most disappears.
LosesExcluded(j) ==
    \A p \in LoadTargets(jobs[j].load) \ policy[jobs[j].load.repo] :
        /\ jobs'[j].status # "absent"
        /\ jobs'[j].load.repo = jobs[j].load.repo
        /\ p \in LoadTargets(jobs'[j].load)

(***************************************************************************)
(* prune_excluded_paths_from_payload                                       *)
(***************************************************************************)
LEMMA PrunedLoad ==
    ASSUME PolicyTyped, NEW load \in PS!Payload, FromProducer(load)
    PROVE  LET new == [load EXCEPT !.paths = PS!PrunedPaths(load)]
           IN  /\ new \in PS!Payload /\ FromProducer(new)
               /\ new.repo = load.repo /\ new.kind = load.kind
               /\ LoadTargets(load) \ policy[load.repo] \subseteq LoadTargets(new)
               /\ PS!PrunedAway(load) => LoadTargets(load) \subseteq policy[load.repo]
<1> DEFINE paths == PS!PrunedPaths(load)
           new == [load EXCEPT !.paths = paths]
<1>1. paths \in SUBSET Paths /\ paths \subseteq load.paths
  BY DEF PS!PrunedPaths, PS!Payload
<1>2. LoadTargets(load) \ policy[load.repo] \subseteq
        (IF load.kind = "sync" THEN Targets(load.mode, paths)
         ELSE IF load.kind = "post_commit" THEN paths ELSE {})
  BY DEF LoadTargets, Targets, PS!PrunedPaths, PS!CarriesPaths
<1>3. PS!PrunedAway(load) => LoadTargets(load) \subseteq policy[load.repo]
  BY DEF LoadTargets, Targets, PS!PrunedAway, PS!CarriesPaths, FromProducer
<1> HIDE DEF paths
<1>4. /\ new \in PS!Payload /\ new.repo = load.repo /\ new.kind = load.kind
      /\ new.mode = load.mode /\ new.source = load.source /\ new.commit = load.commit
      /\ new.paths = paths
  BY ONLY <1>1, load \in PS!Payload DEF PS!Payload
<1> HIDE DEF new
<1>5. FromProducer(new)
  BY <1>1, <1>4 DEF FromProducer
<1>6. LoadTargets(load) \ policy[load.repo] \subseteq LoadTargets(new)
  BY <1>2, <1>4 DEF LoadTargets
<1>7. /\ new \in PS!Payload /\ FromProducer(new)
      /\ new.repo = load.repo /\ new.kind = load.kind
      /\ LoadTargets(load) \ policy[load.repo] \subseteq LoadTargets(new)
      /\ PS!PrunedAway(load) => LoadTargets(load) \subseteq policy[load.repo]
  BY <1>3, <1>4, <1>5, <1>6
<1> QED BY <1>7 DEF new, paths

\* What a row that may be pruned away becomes.
Pruned(j, row) ==
    /\ row \in PS!Row
    /\ row.status # "absent" =>
         /\ FromProducer(row.load)
         /\ row.status = jobs[j].status
         /\ row.load.repo = jobs[j].load.repo /\ row.load.kind = jobs[j].load.kind
         /\ LoadTargets(jobs[j].load) \ policy[jobs[j].load.repo] \subseteq LoadTargets(row.load)
    /\ (row.status = "absent" /\ jobs[j].status # "absent") =>
         LoadTargets(jobs[j].load) \subseteq policy[jobs[j].load.repo]

LEMMA PrunedRowEffect ==
    ASSUME JobsTyped, PolicyTyped, LoadsFromProducers, NEW j \in JobIds
    PROVE  /\ Pruned(j, PS!PrunedRow(j))
           /\ jobs[j].status # "pending" => PS!PrunedRow(j) = jobs[j]
           /\ PS!PrunedRow(j).status # "absent" => PS!PrunedRow(j).status = jobs[j].status
           /\ (jobs[j].status = "pending" /\ ~PS!PrunedAway(jobs[j].load)) =>
                PS!PrunedRow(j).status = "pending"
<1>1. jobs[j] \in PS!Row
  BY DEF JobsTyped
<1>2. CASE jobs[j].status # "pending"
  <2>1. PS!PrunedRow(j) = jobs[j]
    BY <1>2 DEF PS!PrunedRow
  <2>2. jobs[j].status # "absent" => FromProducer(jobs[j].load)
    BY DEF LoadsFromProducers, FromProducer
  <2> QED BY <1>1, <1>2, <2>1, <2>2 DEF Pruned
<1>3. CASE jobs[j].status = "pending" /\ PS!PrunedAway(jobs[j].load)
  <2>1. PS!PrunedRow(j) = PS!NoRow
    BY <1>3 DEF PS!PrunedRow
  <2>2. FromProducer(jobs[j].load) /\ jobs[j].load \in PS!Payload
    BY <1>1, <1>3 DEF LoadsFromProducers, FromProducer, PS!Row
  <2>3. LoadTargets(jobs[j].load) \subseteq policy[jobs[j].load.repo]
    BY <1>3, <2>2, PrunedLoad
  <2> QED BY <1>3, <2>1, <2>3, NoRowTyped DEF Pruned
<1>4. CASE jobs[j].status = "pending" /\ ~PS!PrunedAway(jobs[j].load)
  <2> DEFINE new == [jobs[j].load EXCEPT !.paths = PS!PrunedPaths(jobs[j].load)]
  <2>1. FromProducer(jobs[j].load) /\ jobs[j].load \in PS!Payload
    BY <1>1, <1>4 DEF LoadsFromProducers, FromProducer, PS!Row
  <2>2. /\ new \in PS!Payload /\ FromProducer(new)
        /\ new.repo = jobs[j].load.repo /\ new.kind = jobs[j].load.kind
        /\ LoadTargets(jobs[j].load) \ policy[jobs[j].load.repo] \subseteq LoadTargets(new)
    BY <2>1, PrunedLoad
  <2>3. PS!PrunedRow(j) = [jobs[j] EXCEPT !.load = new]
    BY <1>1, <1>4 DEF PS!PrunedRow, PS!Row, PS!Payload
  <2> HIDE DEF new
  <2>4. /\ PS!PrunedRow(j) \in PS!Row /\ PS!PrunedRow(j).status = jobs[j].status
        /\ PS!PrunedRow(j).load = new
    BY ONLY <1>1, <2>2, <2>3 DEF PS!Row
  <2> QED BY <1>4, <2>2, <2>4 DEF Pruned
<1> QED BY <1>2, <1>3, <1>4

(***************************************************************************)
(* The claim: it starts rows that conflict with no task it was given, in   *)
(* repos with no running row, and drops excluded paths only.               *)
(***************************************************************************)
LEMMA ClaimEffect ==
    ASSUME JobsTyped, JobSlotsFree, LoadsFromProducers, PolicyTyped, nextJob' = nextJob,
           runner \in [JobIds -> PS!Runner],
           NEW running, NEW held, NEW dropped, PS!ClaimStep({}, running, held, dropped)
    PROVE  /\ JobsTyped' /\ JobSlotsFree' /\ LoadsFromProducers'
           /\ runner' \in [JobIds -> PS!Runner]
           /\ \A j \in JobIds :
                \/ /\ runner'[j] = runner[j]
                   /\ jobs'[j].status = "running" => jobs[j].status = "running" /\ jobs'[j] = jobs[j]
                \/ /\ jobs[j].status = "pending" /\ jobs'[j].status = "running"
                   /\ runner'[j] = [phase |-> "processing", load |-> jobs'[j].load]
                   /\ jobs'[j].load.repo = jobs[j].load.repo
                   /\ jobs'[j].load.kind = jobs[j].load.kind
                   /\ \A task \in running : ~PS!Conflicts(jobs[j].load, task)
           /\ \A j \in JobIds : jobs[j].status = "running" => jobs'[j] = jobs[j]
           /\ \A j \in JobIds : jobs[j].status = "pending" => LosesExcluded(j)
<1>1. PICK S \in PS!Selections(PS!Claimable({}, running, held, dropped)) :
        /\ jobs' = [j \in JobIds |->
                      IF j \in PS!Abandoned({}, running, dropped) THEN PS!NoRow
                      ELSE IF j \in S THEN [PS!PrunedRow(j) EXCEPT !.status = "running"]
                      ELSE PS!PrunedRow(j)]
        /\ runner' = [j \in JobIds |->
                        IF j \in S THEN [phase |-> "processing", load |-> PS!PrunedRow(j).load]
                        ELSE runner[j]]
  BY DEF PS!ClaimStep, PS!JobIds, JobIds
<1> DEFINE A == PS!Abandoned({}, running, dropped)
<1>2. \A j \in S : /\ j \in JobIds /\ j \notin A
                   /\ jobs[j].status = "pending" /\ ~PS!PrunedAway(jobs[j].load)
                   /\ \A task \in running : ~PS!Conflicts(jobs[j].load, task)
  BY DEF PS!Selections, PS!Claimable, PS!Due, PS!Abandoned, PS!DerivationIn, PS!JobIds, JobIds
<1>3. \A j \in A : jobs[j].status = "pending" /\ jobs[j].load.kind = "derivation"
  BY DEF PS!Abandoned, PS!Due, PS!DerivationIn
<1> HIDE DEF A
<1>4. ASSUME NEW j \in JobIds, j \in A
      PROVE  /\ jobs'[j] = PS!NoRow /\ runner'[j] = runner[j] /\ LosesExcluded(j)
             /\ jobs[j].status = "pending"
  <2>1. LoadTargets(jobs[j].load) = {}
    BY <1>3, <1>4 DEF LoadTargets
  <2> QED BY <1>1, <1>2, <1>3, <1>4, <2>1 DEF LosesExcluded, A
<1>5. ASSUME NEW j \in S
      PROVE  /\ j \in JobIds
             /\ jobs'[j] \in PS!Row /\ jobs'[j].status = "running" /\ FromProducer(jobs'[j].load)
             /\ runner'[j] = [phase |-> "processing", load |-> jobs'[j].load]
             /\ runner'[j] \in PS!Runner
             /\ jobs'[j].load.repo = jobs[j].load.repo /\ jobs'[j].load.kind = jobs[j].load.kind
             /\ LosesExcluded(j)
  <2>1. j \in JobIds /\ j \notin A /\ jobs[j].status = "pending" /\ ~PS!PrunedAway(jobs[j].load)
    BY <1>2
  <2> DEFINE row == PS!PrunedRow(j)
  <2>2. Pruned(j, row) /\ row.status = "pending"
    BY <2>1, PrunedRowEffect
  <2>3. jobs'[j] = [row EXCEPT !.status = "running"]
    BY <1>1, <2>1 DEF A
  <2>4. runner'[j] = [phase |-> "processing", load |-> row.load]
    BY <1>1, <2>1
  <2> HIDE DEF row
  <2>5. row \in PS!Row
    BY <2>2 DEF Pruned
  <2>6. jobs'[j] \in PS!Row /\ jobs'[j].status = "running" /\ jobs'[j].load = row.load
    BY ONLY <2>3, <2>5 DEF PS!Row
  <2>7. row.load \in PS!Payload
    BY <2>5 DEF PS!Row
  <2>8. runner'[j] \in PS!Runner
    BY <2>4, <2>7 DEF PS!Runner
  <2> QED BY <2>1, <2>2, <2>4, <2>6, <2>8 DEF Pruned, LosesExcluded
<1>6. ASSUME NEW j \in JobIds, j \notin A, j \notin S
      PROVE  /\ jobs'[j] = PS!PrunedRow(j) /\ runner'[j] = runner[j]
             /\ Pruned(j, jobs'[j])
             /\ jobs[j].status # "pending" => jobs'[j] = jobs[j]
             /\ jobs'[j].status # "absent" => jobs'[j].status = jobs[j].status
  <2>1. jobs'[j] = PS!PrunedRow(j) /\ runner'[j] = runner[j]
    BY <1>1, <1>6 DEF A
  <2> QED BY <2>1, PrunedRowEffect
<1>7. JobsTyped'
  <2>1. \A j \in JobIds : jobs'[j] \in PS!Row
    BY <1>4, <1>5, <1>6, NoRowTyped DEF Pruned
  <2>2. jobs' = [j \in JobIds |-> jobs'[j]]
    BY <1>1
  <2> QED BY <2>1, <2>2 DEF JobsTyped
<1>8. runner' \in [JobIds -> PS!Runner]
  <2>1. \A j \in JobIds : runner'[j] \in PS!Runner
    BY <1>4, <1>5, <1>6
  <2>2. runner' = [j \in JobIds |-> runner'[j]]
    BY <1>1
  <2> QED BY <2>1, <2>2
<1>9. JobSlotsFree'
  BY <1>2, <1>3, <1>4, <1>6 DEF JobSlotsFree
<1>10. LoadsFromProducers'
  <2>1. \A j \in JobIds : jobs'[j].status # "absent" => FromProducer(jobs'[j].load)
    BY <1>4, <1>5, <1>6, NoRowTyped DEF Pruned
  <2> QED BY <2>1 DEF LoadsFromProducers, FromProducer
<1>11. ASSUME NEW j \in JobIds
       PROVE  /\ \/ /\ runner'[j] = runner[j]
                    /\ jobs'[j].status = "running" => jobs[j].status = "running" /\ jobs'[j] = jobs[j]
                 \/ /\ jobs[j].status = "pending" /\ jobs'[j].status = "running"
                    /\ runner'[j] = [phase |-> "processing", load |-> jobs'[j].load]
                    /\ jobs'[j].load.repo = jobs[j].load.repo
                    /\ jobs'[j].load.kind = jobs[j].load.kind
                    /\ \A task \in running : ~PS!Conflicts(jobs[j].load, task)
              /\ jobs[j].status = "running" => jobs'[j] = jobs[j]
              /\ jobs[j].status = "pending" => LosesExcluded(j)
  <2>1. CASE j \in A
    BY <1>4, <2>1, NoRowTyped
  <2>2. CASE j \in S
    BY <1>2, <1>5, <2>2
  <2>3. CASE j \notin A /\ j \notin S
    BY <1>6, <2>3 DEF Pruned, LosesExcluded
  <2> QED BY <2>1, <2>2, <2>3
<1> QED BY <1>7, <1>8, <1>9, <1>10, <1>11

(***************************************************************************)
(* recover_running_producer_spool_jobs                                     *)
(***************************************************************************)
LEMMA RecoverSpoolEffect ==
    ASSUME JobsTyped, JobSlotsFree, LoadsFromProducers, PolicyTyped, nextJob' = nextJob,
           now \in Nat, PS!RecoverStep
    PROVE  /\ JobsTyped' /\ JobSlotsFree' /\ LoadsFromProducers'
           /\ \A j \in JobIds : jobs'[j].status # "running"
           /\ \A j \in JobIds : Kept(j) => LosesExcluded(j)
<1>0. jobs' = [j \in JobIds |->
               IF jobs[j].status = "running"
               THEN IF PS!PrunedAway(jobs[j].load) THEN PS!NoRow
                    ELSE [jobs[j] EXCEPT !.status = "pending", !.avail = now,
                                         !.load.paths = PS!PrunedPaths(jobs[j].load)]
               ELSE PS!PrunedRow(j)]
  BY DEF PS!RecoverStep, PS!JobIds, JobIds
<1>1. ASSUME NEW j \in JobIds
      PROVE  /\ jobs'[j] \in PS!Row
             /\ jobs'[j].status # "running"
             /\ jobs'[j].status # "absent" =>
                  jobs[j].status # "absent" /\ FromProducer(jobs'[j].load)
             /\ Kept(j) => LosesExcluded(j)
  <2>0. jobs[j] \in PS!Row
    BY DEF JobsTyped
  <2>1. CASE jobs[j].status # "running"
    <3>1. jobs'[j] = PS!PrunedRow(j)
      BY <1>0, <2>1
    <3> QED BY <2>0, <2>1, <3>1, PrunedRowEffect DEF Pruned, LosesExcluded, Kept
  <2>2. CASE jobs[j].status = "running" /\ PS!PrunedAway(jobs[j].load)
    <3>1. jobs'[j] = PS!NoRow
      BY <1>0, <2>2
    <3>2. FromProducer(jobs[j].load) /\ jobs[j].load \in PS!Payload
      BY <2>0, <2>2 DEF LoadsFromProducers, FromProducer, PS!Row
    <3>3. LoadTargets(jobs[j].load) \subseteq policy[jobs[j].load.repo]
      BY <2>2, <3>2, PrunedLoad
    <3> QED BY <3>1, <3>3, NoRowTyped DEF LosesExcluded
  <2>3. CASE jobs[j].status = "running" /\ ~PS!PrunedAway(jobs[j].load)
    <3> DEFINE new == [jobs[j].load EXCEPT !.paths = PS!PrunedPaths(jobs[j].load)]
    <3>1. FromProducer(jobs[j].load) /\ jobs[j].load \in PS!Payload
      BY <2>0, <2>3 DEF LoadsFromProducers, FromProducer, PS!Row
    <3>2. /\ new \in PS!Payload /\ FromProducer(new)
          /\ new.repo = jobs[j].load.repo
          /\ LoadTargets(jobs[j].load) \ policy[jobs[j].load.repo] \subseteq LoadTargets(new)
      BY <3>1, PrunedLoad
    <3>3. jobs'[j] = [jobs[j] EXCEPT !.status = "pending", !.avail = now, !.load = new]
      BY <1>0, <2>0, <2>3 DEF PS!Row, PS!Payload
    <3> HIDE DEF new
    <3>4. jobs'[j] \in PS!Row /\ jobs'[j].status = "pending" /\ jobs'[j].load = new
      BY ONLY <2>0, <3>2, <3>3, now \in Nat DEF PS!Row
    <3> QED BY <2>3, <3>2, <3>4 DEF LosesExcluded
  <2> QED BY <2>1, <2>2, <2>3
<1>2. JobsTyped'
  <2>1. jobs' = [j \in JobIds |-> jobs'[j]]
    BY <1>0
  <2> QED BY <1>1, <2>1 DEF JobsTyped
<1>3. JobSlotsFree'
  BY <1>1 DEF JobSlotsFree
<1>4. LoadsFromProducers'
  BY <1>1 DEF LoadsFromProducers, FromProducer
<1> QED BY <1>1, <1>2, <1>3, <1>4

-----------------------------------------------------------------------------
(* What most steps keep *)

\* An edit that no sync has read is on its way to one.
Covered(r, p) ==
    \/ p \in policy[r] \cup buffer[r]
    \/ \E j \in JobIds : JobCovers(j, r, p)
    \/ \E t \in TaskIds : TaskCovers(t, r, p)

LEMMA CoveredMeans == NoEditForgotten <=> \A e \in owed : Covered(e.repo, e.path)
BY DEF NoEditForgotten, Covered

LEMMA TaskCoverStays ==
    ASSUME ExecOwnsRunning, NEW t \in TaskIds, NEW r, NEW p, TaskCovers(t, r, p),
           exec'[t] = exec[t], Unfinished(t) => Grows(t)
    PROVE  TaskCovers(t, r, p)'
BY DEF ExecOwnsRunning, TaskCovers, IsSync, Unfinished, Grows

LEMMA JobCoverStays ==
    ASSUME NEW j \in JobIds, NEW r, NEW p, JobCovers(j, r, p),
           runner'[j].phase = "done" => runner[j].phase = "done",
           Kept(j) => JobGrows(j)
    PROVE  JobCovers(j, r, p)'
<1>1. /\ jobs[j].load.repo = r
      /\ p \in LoadTargets(jobs[j].load)
      /\ \/ jobs[j].status = "pending"
         \/ jobs[j].status = "running" /\ runner[j].phase # "done"
  BY JobCoversMeans
<1>2. /\ jobs'[j].load.repo = r
      /\ p \in LoadTargets(jobs'[j].load)
      /\ jobs'[j].status = jobs[j].status
  BY <1>1 DEF Kept, JobGrows
<1> QED BY <1>1, <1>2 DEF JobCovers, LoadTargets

\* Work that nobody started conflicts no more than it did.
LEMMA AdmissionStays ==
    ASSUME AdmissionExcludes, NoTaskStarted, NoJobClaimed
    PROVE  AdmissionExcludes'
<1> SUFFICES ASSUME NEW j \in JobIds, NEW t \in TaskIds,
                    jobs'[j].status = "running", tasks'[t].status = "running"
             PROVE  ~PS!Conflicts(jobs'[j].load,
                                  [repo |-> tasks'[t].repo, kind |-> tasks'[t].kind,
                                   policy |-> tasks'[t].kind = "sync"
                                              /\ tasks'[t].source = "policy"])
  BY DEF AdmissionExcludes, TQ!IsPolicySync
<1>1. jobs[j].status = "running" /\ jobs'[j] = jobs[j]
  BY DEF NoJobClaimed
<1>2. /\ tasks[t].status = "running" /\ tasks'[t].repo = tasks[t].repo
      /\ tasks'[t].kind = tasks[t].kind /\ tasks'[t].source = tasks[t].source
  BY DEF NoTaskStarted
<1> QED BY <1>1, <1>2 DEF AdmissionExcludes, TQ!IsPolicySync

\* What a step that neither starts nor ends spawned work keeps of the
\* invariant.
LEMMA QuietStep ==
    ASSUME ExecOwnsRunning, RunnerOwnsRunning, AdmissionExcludes, ExecWithinRecord,
           up' = up, exec' = exec, reading' = reading,
           NoTaskStarted, \A t \in TaskIds : tasks[t].status = "running" => Grows(t),
           NoJobClaimed,
           \A j \in JobIds :
               runner'[j].phase # "none" =>
                   /\ runner[j].phase # "none" /\ runner'[j].load = runner[j].load
                   /\ jobs'[j] = jobs[j]
    PROVE  ExecOwnsRunning' /\ RunnerOwnsRunning' /\ AdmissionExcludes' /\ ExecWithinRecord'
<1>1. ExecOwnsRunning'
  BY DEF ExecOwnsRunning, Grows
<1>2. RunnerOwnsRunning'
  BY DEF RunnerOwnsRunning
<1>3. AdmissionExcludes'
  BY AdmissionStays
<1>4. ExecWithinRecord'
  <2> SUFFICES ASSUME NEW t \in TaskIds
               PROVE  /\ (exec[t].phase # "none" /\ tasks'[t].kind = "sync") =>
                           /\ Targets(exec[t].mode, exec[t].paths)
                                \subseteq Targets(tasks'[t].mode, tasks'[t].paths)
                           /\ reading[t].paths \subseteq Targets(tasks'[t].mode, tasks'[t].paths)
                      /\ reading[t].paths # {} =>
                           exec[t].phase = "working" /\ tasks'[t].kind = "sync"
    BY DEF ExecWithinRecord, IsSync
  <2>1. exec[t].phase # "none" => Grows(t)
    BY DEF ExecOwnsRunning
  <2> QED BY <2>1 DEF ExecWithinRecord, IsSync, Grows
<1> QED BY <1>1, <1>2, <1>3, <1>4

LEMMA RunningNowShrinks ==
    ASSUME NoTaskStarted PROVE RunningNow' \subseteq RunningNow
BY DEF NoTaskStarted, RunningNow, TQ!IsPolicySync

LEMMA KnowledgeStays ==
    ASSUME ClaimKnowsTasks, StartKnowsJobs, NoTaskStarted, NoJobClaimed,
           worker' = worker \/ worker'.pc \notin {"claim", "start"}
    PROVE  ClaimKnowsTasks' /\ StartKnowsJobs'
<1>1. ClaimKnowsTasks'
  BY RunningNowShrinks DEF ClaimKnowsTasks
<1>2. StartKnowsJobs'
  BY DEF StartKnowsJobs, NoJobClaimed
<1> QED BY <1>1, <1>2

\* Steps that leave the queue, or the spool, alone.
LEMMA QueueSame ==
    ASSUME UNCHANGED queueVars
    PROVE  /\ QueueTyped => QueueTyped'
           /\ TaskSlotsFree => TaskSlotsFree'
           /\ NoTaskStarted
           /\ \A t \in TaskIds : Grows(t)
BY DEF queueVars, QueueTyped, TasksTyped, TaskSlotsFree, NoTaskStarted, Grows

LEMMA SpoolSame ==
    ASSUME UNCHANGED <<jobs, nextJob>>
    PROVE  /\ JobsTyped => JobsTyped'
           /\ JobSlotsFree => JobSlotsFree'
           /\ LoadsFromProducers => LoadsFromProducers'
           /\ NoJobClaimed
           /\ \A j \in JobIds : JobGrows(j)
BY DEF JobsTyped, JobSlotsFree, LoadsFromProducers, NoJobClaimed, JobGrows

LEMMA CoverStays ==
    ASSUME ExecOwnsRunning, exec' = exec, NEW r, NEW p, Covered(r, p),
           p \in policy[r] \cup buffer[r] => Covered(r, p)',
           \A t \in TaskIds : Unfinished(t) => Grows(t),
           \A j \in JobIds : Kept(j) => JobGrows(j),
           \A j \in JobIds : runner'[j].phase = "done" => runner[j].phase = "done"
    PROVE  Covered(r, p)'
<1>1. CASE \E t \in TaskIds : TaskCovers(t, r, p)
  BY <1>1, TaskCoverStays DEF Covered
<1>2. CASE \E j \in JobIds : JobCovers(j, r, p)
  BY <1>2, JobCoverStays DEF Covered
<1> QED BY <1>1, <1>2 DEF Covered

LEMMA CoveredNext ==
    ASSUME \A e \in owed' : Covered(e.repo, e.path)'
    PROVE  NoEditForgotten'
BY DEF NoEditForgotten, Covered

-----------------------------------------------------------------------------
(* The producers keep the invariant. *)

LEMMA EditFileKeeps ==
    ASSUME IInv, NEW r \in Repos, NEW p \in Paths, EditFile(r, p)
    PROVE  IInv'
<1> USE DEF IInv
<1>1. /\ owed' = owed \cup {[repo |-> r, path |-> p]}
      /\ buffer' = [buffer EXCEPT ![r] = @ \cup {p}]
      /\ UNCHANGED <<queueVars, spoolVars, now, policy, up, worker, dataVars>>
  BY DEF EditFile
<1>2. /\ QueueTyped' /\ TaskSlotsFree' /\ NoTaskStarted
      /\ \A t \in TaskIds : Grows(t)
  BY <1>1, QueueSame
<1>3. /\ JobsTyped' /\ JobSlotsFree' /\ LoadsFromProducers' /\ NoJobClaimed
      /\ \A j \in JobIds : JobGrows(j)
  BY <1>1, SpoolSame DEF spoolVars, SpoolTyped
<1>4. SpoolTyped' /\ WorkerTyped'
  BY <1>1, <1>3 DEF spoolVars, SpoolTyped, WorkerTyped
<1>5. DataTyped'
  BY <1>1 DEF DataTyped, PolicyTyped, dataVars
<1>6. ExecOwnsRunning' /\ RunnerOwnsRunning' /\ AdmissionExcludes' /\ ExecWithinRecord'
  BY <1>1, <1>2, <1>3, QuietStep DEF queueVars, spoolVars, dataVars
<1>7. ClaimKnowsTasks' /\ StartKnowsJobs'
  BY <1>1, <1>2, <1>3, KnowledgeStays
<1>8. NoEditForgotten'
  <2> SUFFICES ASSUME NEW e \in owed' PROVE Covered(e.repo, e.path)'
    BY CoveredNext
  <2>1. CASE e \in owed
    <3>1. Covered(e.repo, e.path) /\ e.repo \in Repos
      BY <2>1, CoveredMeans DEF DataTyped
    <3>2. e.path \in policy[e.repo] \cup buffer[e.repo] => Covered(e.repo, e.path)'
      BY <1>1, <3>1 DEF Covered, DataTyped
    <3>3. exec' = exec /\ runner' = runner
      BY <1>1 DEF queueVars, spoolVars
    <3> QED BY <1>2, <1>3, <3>1, <3>2, <3>3, CoverStays
  <2>2. CASE e = [repo |-> r, path |-> p]
    BY <1>1, <2>2 DEF Covered, DataTyped
  <2> QED BY <1>1, <2>1, <2>2
<1> QED BY <1>2, <1>3, <1>4, <1>5, <1>6, <1>7, <1>8

\* A step that only spools a payload.
LEMMA SpoolingKeeps ==
    ASSUME IInv, NEW load \in PS!Payload, FromProducer(load),
           load.kind = "post_commit" => load.paths = CommitPaths[load.commit],
           PS!EnqueueJobStep(load),
           UNCHANGED <<queueVars, runner, now, policy, up, worker, dataVars>>
    PROVE  /\ QueueTyped' /\ SpoolTyped' /\ WorkerTyped' /\ TaskSlotsFree' /\ JobSlotsFree'
           /\ ExecOwnsRunning' /\ RunnerOwnsRunning' /\ ClaimKnowsTasks' /\ StartKnowsJobs'
           /\ AdmissionExcludes' /\ LoadsFromProducers' /\ ExecWithinRecord'
           /\ exec' = exec /\ runner' = runner
           /\ \A t \in TaskIds : Grows(t)
           /\ \A j \in JobIds : Kept(j) => JobGrows(j)
           /\ \E j \in JobIds : /\ jobs'[j].status = "pending"
                                /\ jobs'[j].load.repo = load.repo
                                /\ LoadTargets(load) \subseteq LoadTargets(jobs'[j].load)
<1> USE DEF IInv
<1>1. /\ QueueTyped' /\ TaskSlotsFree' /\ NoTaskStarted
      /\ \A t \in TaskIds : Grows(t)
  BY QueueSame
<1>2. /\ JobsTyped' /\ JobSlotsFree' /\ LoadsFromProducers' /\ nextJob' \in Nat
      /\ NoJobClaimed
      /\ \A j \in JobIds : Kept(j) => JobGrows(j)
      /\ \A j \in JobIds : jobs[j].status = "running" => jobs'[j] = jobs[j]
      /\ \E j \in JobIds : /\ jobs'[j].status = "pending"
                           /\ jobs'[j].load.repo = load.repo
                           /\ LoadTargets(load) \subseteq LoadTargets(jobs'[j].load)
  BY EnqueueJobEffect DEF SpoolTyped
<1>3. SpoolTyped' /\ WorkerTyped'
  BY <1>2 DEF SpoolTyped, WorkerTyped
<1>4. ExecOwnsRunning' /\ RunnerOwnsRunning' /\ AdmissionExcludes' /\ ExecWithinRecord'
  <2>1. exec' = exec /\ reading' = reading
    BY DEF queueVars, dataVars
  <2>2. \A j \in JobIds : runner[j].phase # "none" => jobs'[j] = jobs[j]
    BY <1>2 DEF RunnerOwnsRunning
  <2> QED BY <1>1, <1>2, <2>1, <2>2, QuietStep
<1>5. ClaimKnowsTasks' /\ StartKnowsJobs'
  BY <1>1, <1>2, KnowledgeStays
<1>6. exec' = exec /\ runner' = runner
  BY DEF queueVars
<1> QED BY <1>1, <1>2, <1>3, <1>4, <1>5, <1>6

LEMMA WatcherFlushKeeps ==
    ASSUME IInv, NEW r \in Repos, WatcherFlush(r)
    PROVE  IInv'
<1> USE DEF IInv
<1>1. /\ FlushPaths(r) \/ FlushAsCheckout(r)
      /\ buffer' = [buffer EXCEPT ![r] = {}]
      /\ UNCHANGED <<queueVars, runner, now, policy, up, worker, dataVars, owed>>
  BY DEF WatcherFlush
<1>2. DataTyped'
  BY <1>1 DEF DataTyped, PolicyTyped, dataVars
<1>3. CASE buffer[r] \subseteq policy[r] /\ UNCHANGED <<jobs, nextJob>>
  <2>1. /\ QueueTyped' /\ TaskSlotsFree' /\ NoTaskStarted
        /\ \A t \in TaskIds : Grows(t)
    BY <1>1, QueueSame
  <2>2. /\ JobsTyped' /\ JobSlotsFree' /\ LoadsFromProducers' /\ NoJobClaimed
        /\ \A j \in JobIds : JobGrows(j)
    BY <1>3, SpoolSame DEF SpoolTyped
  <2>3. SpoolTyped' /\ WorkerTyped'
    BY <1>1, <1>3, <2>2 DEF SpoolTyped, WorkerTyped
  <2>4. exec' = exec /\ reading' = reading /\ runner' = runner
    BY <1>1 DEF queueVars, dataVars
  <2>5. ExecOwnsRunning' /\ RunnerOwnsRunning' /\ AdmissionExcludes' /\ ExecWithinRecord'
    BY <1>1, <1>3, <2>1, <2>2, <2>4, QuietStep
  <2>6. ClaimKnowsTasks' /\ StartKnowsJobs'
    BY <1>1, <2>1, <2>2, KnowledgeStays
  <2>7. NoEditForgotten'
    <3> SUFFICES ASSUME NEW e \in owed' PROVE Covered(e.repo, e.path)'
      BY CoveredNext
    <3>1. Covered(e.repo, e.path) /\ e.repo \in Repos
      BY <1>1, CoveredMeans DEF DataTyped
    <3>2. e.path \in policy[e.repo] \cup buffer[e.repo] => Covered(e.repo, e.path)'
      BY <1>1, <1>3, <3>1 DEF Covered, DataTyped
    <3> QED BY <2>1, <2>2, <2>4, <3>1, <3>2, CoverStays
  <2> QED BY <1>2, <2>1, <2>2, <2>3, <2>5, <2>6, <2>7
<1>4. ASSUME NEW load \in PS!Payload, FromProducer(load), load.kind # "post_commit",
             load.repo = r, buffer[r] \ policy[r] \subseteq LoadTargets(load),
             PS!EnqueueJobStep(load)
      PROVE  IInv'
  <2>1. /\ QueueTyped' /\ SpoolTyped' /\ WorkerTyped' /\ TaskSlotsFree' /\ JobSlotsFree'
        /\ ExecOwnsRunning' /\ RunnerOwnsRunning' /\ ClaimKnowsTasks' /\ StartKnowsJobs'
        /\ AdmissionExcludes' /\ LoadsFromProducers' /\ ExecWithinRecord'
        /\ exec' = exec /\ runner' = runner
        /\ \A t \in TaskIds : Grows(t)
        /\ \A j \in JobIds : Kept(j) => JobGrows(j)
        /\ \E j \in JobIds : /\ jobs'[j].status = "pending"
                             /\ jobs'[j].load.repo = load.repo
                             /\ LoadTargets(load) \subseteq LoadTargets(jobs'[j].load)
    BY <1>1, <1>4, SpoolingKeeps
  <2>2. NoEditForgotten'
    <3> SUFFICES ASSUME NEW e \in owed' PROVE Covered(e.repo, e.path)'
      BY CoveredNext
    <3>1. Covered(e.repo, e.path) /\ e.repo \in Repos
      BY <1>1, CoveredMeans DEF DataTyped
    <3>2. ASSUME e.path \in policy[e.repo] \cup buffer[e.repo] PROVE Covered(e.repo, e.path)'
      <4>1. CASE e.path \in policy[e.repo] \/ e.repo # r
        BY <1>1, <3>1, <3>2, <4>1 DEF Covered, DataTyped
      <4>2. CASE e.path \notin policy[e.repo] /\ e.repo = r
        <5>1. e.path \in LoadTargets(load)
          BY <1>4, <3>2, <4>2
        <5>2. PICK j \in JobIds : /\ jobs'[j].status = "pending"
                                  /\ jobs'[j].load.repo = load.repo
                                  /\ LoadTargets(load) \subseteq LoadTargets(jobs'[j].load)
          BY <2>1
        <5>3. JobCovers(j, e.repo, e.path)'
          BY <1>4, <4>2, <5>1, <5>2 DEF JobCovers, LoadTargets
        <5> QED BY <5>3 DEF Covered
      <4> QED BY <4>1, <4>2
    <3> QED BY <2>1, <3>1, <3>2, CoverStays
  <2> QED BY <1>2, <2>1, <2>2
<1>5. CASE FlushPaths(r) /\ ~(buffer[r] \subseteq policy[r])
  <2> DEFINE load == Spooled(r, "sync", "watcher", "paths", buffer[r] \ policy[r], NoCommit)
  <2>1. PS!EnqueueJobStep(load)
    BY <1>5 DEF FlushPaths
  <2>2. load \in PS!Payload
    BY DEF Spooled, PS!Payload, PS!PayloadKinds, PS!Sources, PS!Modes, DataTyped
  <2>3. /\ FromProducer(load) /\ load.kind # "post_commit" /\ load.repo = r
        /\ LoadTargets(load) = buffer[r] \ policy[r]
    BY DEF Spooled, FromProducer, LoadTargets, Targets
  <2> QED BY <1>4, <2>1, <2>2, <2>3
<1>6. CASE FlushAsCheckout(r)
  <2> DEFINE load == Spooled(r, "sync", "post_checkout", "full", {}, NoCommit)
  <2>1. PS!EnqueueJobStep(load)
    BY <1>6 DEF FlushAsCheckout
  <2>2. load \in PS!Payload
    BY DEF Spooled, PS!Payload, PS!PayloadKinds, PS!Sources, PS!Modes
  <2>3. /\ FromProducer(load) /\ load.kind # "post_commit" /\ load.repo = r
        /\ LoadTargets(load) = Paths
    BY DEF Spooled, FromProducer, LoadTargets, Targets
  <2>4. buffer[r] \ policy[r] \subseteq Paths
    BY DEF DataTyped
  <2> QED BY <1>4, <2>1, <2>2, <2>3, <2>4
<1> QED BY <1>1, <1>3, <1>5, <1>6 DEF FlushPaths

LEMMA PostCommitKeeps ==
    ASSUME IInv, NEW c \in Commits, PostCommit(c)
    PROVE  IInv'
<1> USE DEF IInv
<1> DEFINE r == CommitRepo[c]
<1>1. r \in Repos /\ CommitPaths[c] \in SUBSET Paths
  BY DaemonAssumption
<1>2. UNCHANGED <<queueVars, runner, now, policy, up, worker, buffer, dataVars, owed>>
  BY DEF PostCommit
<1>3. ASSUME NEW load \in PS!Payload, FromProducer(load),
             load.kind = "post_commit" => load.paths = CommitPaths[load.commit],
             PS!EnqueueJobStep(load)
      PROVE  IInv'
  <2>1. /\ QueueTyped' /\ SpoolTyped' /\ WorkerTyped' /\ TaskSlotsFree' /\ JobSlotsFree'
        /\ ExecOwnsRunning' /\ RunnerOwnsRunning' /\ ClaimKnowsTasks' /\ StartKnowsJobs'
        /\ AdmissionExcludes' /\ LoadsFromProducers' /\ ExecWithinRecord'
        /\ exec' = exec /\ runner' = runner
        /\ \A t \in TaskIds : Grows(t)
        /\ \A j \in JobIds : Kept(j) => JobGrows(j)
    BY <1>2, <1>3, SpoolingKeeps
  <2>2. DataTyped'
    BY <1>2 DEF DataTyped, PolicyTyped, dataVars
  <2>3. NoEditForgotten'
    <3> SUFFICES ASSUME NEW e \in owed' PROVE Covered(e.repo, e.path)'
      BY CoveredNext
    <3>1. Covered(e.repo, e.path)
      BY <1>2, CoveredMeans
    <3>2. e.path \in policy[e.repo] \cup buffer[e.repo] => Covered(e.repo, e.path)'
      BY <1>2 DEF Covered
    <3> QED BY <2>1, <3>1, <3>2, CoverStays
  <2> QED BY <2>1, <2>2, <2>3
<1>4. ASSUME NEW kind \in {"post_commit", "derivation", "ingest"}, NEW paths \in SUBSET Paths,
             kind = "post_commit" => paths = CommitPaths[c],
             PS!EnqueueJobStep(Spooled(r, kind, "post_commit", "none", paths, c))
      PROVE  IInv'
  <2> DEFINE load == Spooled(r, kind, "post_commit", "none", paths, c)
  <2>1. load \in PS!Payload
    BY <1>1 DEF Spooled, PS!Payload, PS!PayloadKinds, PS!Sources, PS!Modes
  <2>2. /\ FromProducer(load)
        /\ load.kind = "post_commit" => load.paths = CommitPaths[load.commit]
    BY <1>4 DEF Spooled, FromProducer
  <2> QED BY <1>3, <1>4, <2>1, <2>2
<1>5. \/ PS!EnqueueJobStep(Spooled(r, "post_commit", "post_commit", "none", CommitPaths[c], c))
      \/ PS!EnqueueJobStep(Spooled(r, "derivation", "post_commit", "none", {}, c))
      \/ PS!EnqueueJobStep(Spooled(r, "ingest", "post_commit", "none", {}, c))
  BY DEF PostCommit, HookSpools
<1> HIDE DEF r
<1> QED BY <1>1, <1>4, <1>5

\* A step that only enqueues a task, or that leaves the queue alone and changes
\* nothing else but the worker's own state.
LEMMA QueueingKeeps ==
    ASSUME IInv, QueueTyped', TaskSlotsFree', WorkerTyped', NoTaskStarted,
           \A t \in TaskIds : Unfinished(t) => Grows(t),
           UNCHANGED <<exec, spoolVars, policy, up, buffer, dataVars, owed>>, now' \in Nat,
           ClaimKnowsTasks', StartKnowsJobs'
    PROVE  IInv'
<1> USE DEF IInv
<1>1. /\ JobsTyped' /\ JobSlotsFree' /\ LoadsFromProducers' /\ NoJobClaimed
      /\ \A j \in JobIds : JobGrows(j)
  BY SpoolSame DEF spoolVars, SpoolTyped
<1>2. SpoolTyped'
  BY <1>1 DEF spoolVars, SpoolTyped
<1>3. DataTyped'
  BY DEF DataTyped, PolicyTyped, dataVars
<1>4. ExecOwnsRunning' /\ RunnerOwnsRunning' /\ AdmissionExcludes' /\ ExecWithinRecord'
  <2>1. \A t \in TaskIds : tasks[t].status = "running" => Grows(t)
    BY DEF Unfinished
  <2> QED BY <1>1, <2>1, QuietStep DEF spoolVars, dataVars
<1>5. NoEditForgotten'
  <2> SUFFICES ASSUME NEW e \in owed' PROVE Covered(e.repo, e.path)'
    BY CoveredNext
  <2>1. Covered(e.repo, e.path)
    BY CoveredMeans
  <2>2. e.path \in policy[e.repo] \cup buffer[e.repo] => Covered(e.repo, e.path)'
    BY DEF Covered
  <2> QED BY <1>1, <2>1, <2>2, CoverStays DEF spoolVars
<1> QED BY <1>1, <1>2, <1>3, <1>4, <1>5

LEMMA ManualSyncKeeps ==
    ASSUME IInv, NEW r \in Repos, NEW mode \in ManualModes, ManualSync(r, mode)
    PROVE  IInv'
<1> USE DEF IInv
<1> DEFINE req == TaskRequest(r, "sync", "manual", mode, {}, NoCommit)
<1>1. req \in TQ!Request
  BY DaemonAssumption
     DEF TaskRequest, TQ!Request, TQ!Kinds, TQ!Sources, TQ!Modes, TQ!SyncModes
<1>2. EnqueueTask(req) /\ UNCHANGED <<endings, exec, spoolVars, now, policy, up, worker, buffer,
                                      dataVars, owed>>
  BY DEF ManualSync
<1> HIDE DEF req
<1>3. /\ TasksTyped' /\ TaskSlotsFree' /\ nextId' \in Nat /\ NoTaskStarted
      /\ \A t \in TaskIds : Unfinished(t) => Grows(t)
  BY <1>1, <1>2, EnqueueEffect DEF QueueTyped
<1>4. QueueTyped' /\ WorkerTyped' /\ now' \in Nat
  BY <1>2, <1>3 DEF QueueTyped, WorkerTyped, SpoolTyped
<1>5. NoJobClaimed
  BY <1>2, SpoolSame DEF spoolVars
<1>6. ClaimKnowsTasks' /\ StartKnowsJobs'
  BY <1>2, <1>3, <1>5, KnowledgeStays
<1> QED BY <1>2, <1>3, <1>4, <1>6, QueueingKeeps

LEMMA TickKeeps ==
    ASSUME IInv, Tick
    PROVE  IInv'
<1> USE DEF IInv
<1>1. /\ now' = now + 1
      /\ UNCHANGED <<queueVars, spoolVars, policy, up, worker, buffer, dataVars, owed>>
  BY DEF Tick, PS!TickStep
<1>2. /\ QueueTyped' /\ TaskSlotsFree' /\ NoTaskStarted
      /\ \A t \in TaskIds : Grows(t)
  BY <1>1, QueueSame
<1>3. WorkerTyped' /\ now' \in Nat /\ NoJobClaimed
  BY <1>1, SpoolSame DEF WorkerTyped, SpoolTyped, spoolVars
<1>4. ClaimKnowsTasks' /\ StartKnowsJobs'
  BY <1>1, <1>2, <1>3, KnowledgeStays
<1>5. exec' = exec
  BY <1>1 DEF queueVars
<1> QED BY <1>1, <1>2, <1>3, <1>4, <1>5, QueueingKeeps

\* Only edits of files the old policy lets through stay owed, and a new policy
\* leaves what covers them alone.
LEMMA EditPolicyKeeps ==
    ASSUME IInv, NEW r \in Repos, EditPolicy(r)
    PROVE  IInv'
<1> USE DEF IInv
<1>1. PICK S \in SUBSET Excludable : policy' = [policy EXCEPT ![r] = S]
  BY DEF EditPolicy
<1>2. /\ owed' = {e \in owed : e.repo = r => e.path \notin policy[r]}
      /\ UNCHANGED <<queueVars, spoolVars, now, up, worker, buffer, dataVars>>
  BY DEF EditPolicy
<1>3. /\ QueueTyped' /\ TaskSlotsFree' /\ NoTaskStarted
      /\ \A t \in TaskIds : Grows(t)
  BY <1>2, QueueSame
<1>4. /\ JobsTyped' /\ JobSlotsFree' /\ LoadsFromProducers' /\ NoJobClaimed
      /\ \A j \in JobIds : JobGrows(j)
  BY <1>2, SpoolSame DEF spoolVars, SpoolTyped
<1>5. SpoolTyped' /\ WorkerTyped'
  BY <1>2, <1>4 DEF spoolVars, SpoolTyped, WorkerTyped
<1>6. DataTyped'
  <2>1. S \in SUBSET Paths
    BY DaemonAssumption
  <2> QED BY <1>1, <1>2, <2>1 DEF DataTyped, PolicyTyped, dataVars
<1>7. ExecOwnsRunning' /\ RunnerOwnsRunning' /\ AdmissionExcludes' /\ ExecWithinRecord'
  BY <1>2, <1>3, <1>4, QuietStep DEF queueVars, spoolVars, dataVars
<1>8. ClaimKnowsTasks' /\ StartKnowsJobs'
  BY <1>2, <1>3, <1>4, KnowledgeStays
<1>9. NoEditForgotten'
  <2> SUFFICES ASSUME NEW e \in owed' PROVE Covered(e.repo, e.path)'
    BY CoveredNext
  <2>1. /\ e \in owed /\ e.repo \in Repos /\ Covered(e.repo, e.path)
        /\ e.repo = r => e.path \notin policy[r]
    BY <1>2, CoveredMeans DEF DataTyped
  <2>2. e.path \in policy[e.repo] \cup buffer[e.repo] => Covered(e.repo, e.path)'
    BY <1>1, <1>2, <2>1 DEF Covered, DataTyped, PolicyTyped
  <2>3. exec' = exec /\ runner' = runner
    BY <1>2 DEF queueVars, spoolVars
  <2> QED BY <1>3, <1>4, <2>1, <2>2, <2>3, CoverStays
<1> QED BY <1>3, <1>4, <1>5, <1>6, <1>7, <1>8, <1>9

-----------------------------------------------------------------------------
(* The worker cycle keeps the invariant. *)

\* A worker step that changes nothing but what the worker knows.
LEMMA ReadingStepKeeps ==
    ASSUME IInv, UNCHANGED <<queueVars, workerOnly>>, WorkerTyped',
           ClaimKnowsTasks', StartKnowsJobs'
    PROVE  IInv'
<1> USE DEF IInv
<1>1. /\ QueueTyped' /\ TaskSlotsFree' /\ NoTaskStarted
      /\ \A t \in TaskIds : Grows(t)
  BY QueueSame
<1>2. /\ UNCHANGED <<exec, spoolVars, policy, up, buffer, dataVars, owed>>
      /\ now' \in Nat
  BY DEF queueVars, workerOnly, SpoolTyped
<1> QED BY <1>1, <1>2, QueueingKeeps

LEMMA AdvanceTyped ==
    ASSUME NEW w \in Cycle
    PROVE  /\ Advance(w) \in Cycle
           /\ Advance(w).pc \in {"check", "list", "load"}
<1>1. CASE w.todo # {}
  BY <1>1 DEF Advance, Cycle
<1>2. CASE w.todo = {}
  BY <1>2 DEF Advance, Cycle
<1> QED BY <1>1, <1>2

LEMMA ReconcileCheckKeeps ==
    ASSUME IInv, NEW r \in Repos, ReconcileCheck(r)
    PROVE  IInv'
<1> USE DEF IInv
<1> DEFINE blocking == TQ!PolicyBlocked(r)
           rest == [worker EXCEPT !.todo = @ \ {r}]
           go == [rest EXCEPT !.pc = "prune", !.repo = {r}, !.promote = ~blocking,
                              !.blocked = TRUE]
<1>1. UNCHANGED <<queueVars, workerOnly>> /\ (worker' = go \/ worker' = Advance(rest))
  BY DEF ReconcileCheck
<1>2. worker \in Cycle
  BY DEF WorkerTyped
<1>3. rest \in Cycle
  BY <1>2 DEF Cycle
<1>4. (~blocking) \in BOOLEAN
  BY DEF TQ!PolicyBlocked
<1>5. go \in Cycle /\ go.pc = "prune"
  <2> HIDE DEF rest, blocking
  <2> QED BY <1>3, <1>4 DEF Cycle
<1>6. /\ Advance(rest) \in Cycle
      /\ Advance(rest).pc \in {"check", "list", "load"}
  BY <1>3, AdvanceTyped
<1> HIDE DEF rest, go
<1>7. WorkerTyped' /\ worker'.pc \notin {"claim", "start"}
  BY <1>1, <1>5, <1>6 DEF WorkerTyped, workerOnly
<1>8. NoTaskStarted /\ NoJobClaimed
  BY <1>1, QueueSame, SpoolSame DEF workerOnly, spoolVars
<1>9. ClaimKnowsTasks' /\ StartKnowsJobs'
  BY <1>7, <1>8, KnowledgeStays
<1> QED BY <1>1, <1>7, <1>9, ReadingStepKeeps

LEMMA ReconcilePruneKeeps ==
    ASSUME IInv, NEW r \in Repos, ReconcilePrune(r)
    PROVE  IInv'
<1> USE DEF IInv
<1>1. /\ worker.pc = "prune" /\ TQ!PruneExcludedStep(r, policy[r])
      /\ UNCHANGED <<nextId, exec, spoolVars, now, policy, up, buffer, dataVars, owed>>
      /\ \/ worker' = [worker EXCEPT !.pc = "promote"]
         \/ worker' = Advance([worker EXCEPT !.repo = {}])
  BY DEF ReconcilePrune, At, workerOnly
<1>2. /\ TasksTyped' /\ TaskSlotsFree' /\ endings' \in Nat /\ NoTaskStarted
      /\ \A t \in TaskIds : Unfinished(t) => Grows(t) \/ LosesOnly(t, r, policy[r])
  BY <1>1, PruneExcludedEffect DEF QueueTyped
<1>3. QueueTyped'
  BY <1>1, <1>2 DEF QueueTyped
<1>4. /\ JobsTyped' /\ JobSlotsFree' /\ LoadsFromProducers' /\ NoJobClaimed
      /\ \A j \in JobIds : JobGrows(j)
  BY <1>1, SpoolSame DEF spoolVars, SpoolTyped
<1>5. SpoolTyped' /\ DataTyped'
  BY <1>1, <1>4 DEF spoolVars, SpoolTyped, DataTyped, PolicyTyped, dataVars
<1>6. WorkerTyped' /\ worker'.pc \notin {"claim", "start"}
  <2>1. [worker EXCEPT !.pc = "promote"] \in Cycle /\ [worker EXCEPT !.repo = {}] \in Cycle
    BY DEF WorkerTyped, Cycle
  <2> QED BY <1>1, <2>1, AdvanceTyped DEF WorkerTyped, Cycle
<1>7. ClaimKnowsTasks' /\ StartKnowsJobs'
  BY <1>2, <1>4, <1>6, KnowledgeStays
<1>8. ExecOwnsRunning' /\ RunnerOwnsRunning' /\ AdmissionExcludes' /\ ExecWithinRecord'
  <2>1. \A t \in TaskIds : tasks[t].status = "running" => Grows(t)
    BY <1>2 DEF Unfinished, LosesOnly
  <2> QED BY <1>1, <1>2, <1>4, <2>1, QuietStep DEF spoolVars, dataVars
<1>9. NoEditForgotten'
  <2> SUFFICES ASSUME NEW e \in owed' PROVE Covered(e.repo, e.path)'
    BY CoveredNext
  <2>1. Covered(e.repo, e.path)
    BY <1>1, CoveredMeans
  <2>2. CASE e.path \in policy[e.repo] \cup buffer[e.repo]
    BY <1>1, <2>2 DEF Covered
  <2>3. CASE \E j \in JobIds : JobCovers(j, e.repo, e.path)
    BY <1>1, <1>4, <2>3, JobCoverStays DEF Covered, spoolVars
  <2>4. ASSUME NEW t \in TaskIds, TaskCovers(t, e.repo, e.path), e.path \notin policy[e.repo]
        PROVE  TaskCovers(t, e.repo, e.path)'
    <3>1. Unfinished(t)
      BY <2>4 DEF TaskCovers, ExecOwnsRunning, Unfinished
    <3>2. CASE Grows(t)
      BY <1>1, <2>4, <3>2, TaskCoverStays
    <3>3. CASE LosesOnly(t, r, policy[r])
      <4>1. exec[t].phase = "none" /\ tasks[t].status = "queued" /\ e.repo = r
        BY <2>4, <3>3 DEF LosesOnly, ExecOwnsRunning, TaskCovers, QueueTyped, TQ!Exec
      <4>2. e.path \in Targets(tasks[t].mode, tasks[t].paths) \ policy[r]
        BY <2>4, <4>1 DEF TaskCovers
      <4> QED BY <2>4, <3>3, <4>1, <4>2 DEF LosesOnly, TaskCovers, IsSync
    <3> QED BY <1>2, <3>1, <3>2, <3>3
  <2> QED BY <2>1, <2>2, <2>3, <2>4 DEF Covered
<1> QED BY <1>2, <1>3, <1>4, <1>5, <1>6, <1>7, <1>8, <1>9

LEMMA ReconcilePromoteKeeps ==
    ASSUME IInv, NEW r \in Repos, ReconcilePromote(r)
    PROVE  IInv'
<1> USE DEF IInv
<1> DEFINE req == TaskRequest(r, "sync", "policy", "full", {}, NoCommit)
           w == [worker EXCEPT !.repo = {}, !.promote = FALSE]
<1>1. req \in TQ!Request
  BY DEF TaskRequest, TQ!Request, TQ!Kinds, TQ!Sources, TQ!Modes, TQ!SyncModes
<1>2. /\ EnqueueTask(req) /\ worker' = Advance(w)
      /\ UNCHANGED <<endings, exec, spoolVars, now, policy, up, buffer, dataVars, owed>>
  BY DEF ReconcilePromote, workerOnly
<1> HIDE DEF req
<1>3. /\ TasksTyped' /\ TaskSlotsFree' /\ nextId' \in Nat /\ NoTaskStarted
      /\ \A t \in TaskIds : Unfinished(t) => Grows(t)
  BY <1>1, <1>2, EnqueueEffect DEF QueueTyped
<1>4. QueueTyped' /\ now' \in Nat /\ NoJobClaimed
  BY <1>2, <1>3, SpoolSame DEF QueueTyped, SpoolTyped, spoolVars
<1>5. w \in Cycle
  BY DEF WorkerTyped, Cycle
<1> HIDE DEF w
<1>6. WorkerTyped' /\ worker'.pc \notin {"claim", "start"}
  BY <1>2, <1>5, AdvanceTyped DEF WorkerTyped
<1>7. ClaimKnowsTasks' /\ StartKnowsJobs'
  BY <1>3, <1>4, <1>6, KnowledgeStays
<1> QED BY <1>2, <1>3, <1>4, <1>6, <1>7, QueueingKeeps

LEMMA LoadStateKeeps ==
    ASSUME IInv, LoadState
    PROVE  IInv'
<1> USE DEF IInv
<1>1. /\ UNCHANGED <<queueVars, workerOnly>>
      /\ worker' = [worker EXCEPT !.pc = "claim", !.running = RunningNow,
                                  !.held = SyncsOfCommits({"queued", "running"}),
                                  !.dropped = SyncsOfCommits({"failed", "cancelled"})]
  BY DEF LoadState
<1>2. RunningNow \in SUBSET [repo : Repos, kind : TQ!Kinds, policy : BOOLEAN]
  <2> SUFFICES ASSUME NEW t \in TaskIds
               PROVE  [repo |-> tasks[t].repo, kind |-> tasks[t].kind,
                       policy |-> TQ!IsPolicySync(t)]
                        \in [repo : Repos, kind : TQ!Kinds, policy : BOOLEAN]
    BY DEF RunningNow
  <2>1. tasks[t] \in TQ!Task
    BY DEF QueueTyped, TasksTyped
  <2>2. TQ!IsPolicySync(t) \in BOOLEAN
    BY DEF TQ!IsPolicySync
  <2> QED BY <2>1, <2>2 DEF TQ!Task
<1>3. \A statuses : SyncsOfCommits(statuses) \in SUBSET CommitKey
  BY DEF SyncsOfCommits, CommitKey, QueueTyped, TasksTyped, TQ!Task
<1>4. worker' \in Cycle /\ worker'.pc = "claim" /\ worker'.running = RunningNow
  <2> DEFINE now1 == RunningNow
             held1 == SyncsOfCommits({"queued", "running"})
             dropped1 == SyncsOfCommits({"failed", "cancelled"})
  <2>1. worker \in Cycle /\ now1 \in SUBSET [repo : Repos, kind : TQ!Kinds, policy : BOOLEAN]
        /\ held1 \in SUBSET CommitKey /\ dropped1 \in SUBSET CommitKey
    BY <1>2, <1>3 DEF WorkerTyped
  <2>2. worker' = [worker EXCEPT !.pc = "claim", !.running = now1, !.held = held1,
                                 !.dropped = dropped1]
    BY <1>1
  <2> HIDE DEF now1, held1, dropped1
  <2>3. worker' \in Cycle /\ worker'.pc = "claim" /\ worker'.running = now1
    BY ONLY <2>1, <2>2 DEF Cycle
  <2> QED BY <2>3 DEF now1
<1>5. RunningNow' = RunningNow
  BY <1>1 DEF RunningNow, TQ!IsPolicySync, queueVars
<1>6. WorkerTyped' /\ ClaimKnowsTasks' /\ StartKnowsJobs'
  BY <1>1, <1>4, <1>5 DEF WorkerTyped, workerOnly, ClaimKnowsTasks, StartKnowsJobs
<1> QED BY <1>1, <1>6, ReadingStepKeeps

LEMMA ListRunningSpoolReposKeeps ==
    ASSUME IInv, ListRunningSpoolRepos
    PROVE  IInv'
<1> USE DEF IInv
<1> DEFINE S == {r \in Repos : PS!RepoHasRunningJob(r)}
<1>1. UNCHANGED <<queueVars, workerOnly>> /\ worker' = [worker EXCEPT !.pc = "start",
                                                                      !.spoolRepos = S]
  BY DEF ListRunningSpoolRepos
<1>2. \A j \in JobIds : jobs[j].status = "running" => jobs[j].load.repo \in S
  BY DEF PS!RepoHasRunningJob, PS!JobIds, JobIds, SpoolTyped, JobsTyped, PS!Row, PS!Payload
<1>3. S \in SUBSET Repos
  OBVIOUS
<1> HIDE DEF S
<1>4. worker' \in Cycle /\ worker'.pc = "start" /\ worker'.spoolRepos = S
  BY <1>1, <1>3 DEF WorkerTyped, Cycle
<1>5. WorkerTyped' /\ ClaimKnowsTasks' /\ StartKnowsJobs'
  BY <1>1, <1>2, <1>4 DEF WorkerTyped, workerOnly, spoolVars, ClaimKnowsTasks, StartKnowsJobs
<1> QED BY <1>1, <1>5, ReadingStepKeeps

\* A claimed row conflicts with no task the worker read as running, and those
\* are all that run now.
LEMMA ClaimJobsKeeps ==
    ASSUME IInv, ClaimJobs
    PROVE  IInv'
<1> USE DEF IInv
<1>1. /\ up /\ worker.pc = "claim"
      /\ PS!ClaimStep({}, worker.running, worker.held, worker.dropped)
      /\ worker' = [worker EXCEPT !.pc = "list", !.running = {}, !.held = {}, !.dropped = {}]
      /\ UNCHANGED <<queueVars, nextJob, now, policy, up, buffer, dataVars, owed>>
  BY DEF ClaimJobs, At
<1>2. /\ JobsTyped' /\ JobSlotsFree' /\ LoadsFromProducers'
      /\ runner' \in [JobIds -> PS!Runner]
      /\ \A j \in JobIds :
           \/ /\ runner'[j] = runner[j]
              /\ jobs'[j].status = "running" => jobs[j].status = "running" /\ jobs'[j] = jobs[j]
           \/ /\ jobs[j].status = "pending" /\ jobs'[j].status = "running"
              /\ runner'[j] = [phase |-> "processing", load |-> jobs'[j].load]
              /\ jobs'[j].load.repo = jobs[j].load.repo
              /\ jobs'[j].load.kind = jobs[j].load.kind
              /\ \A task \in worker.running : ~PS!Conflicts(jobs[j].load, task)
      /\ \A j \in JobIds : jobs[j].status = "running" => jobs'[j] = jobs[j]
      /\ \A j \in JobIds : jobs[j].status = "pending" => LosesExcluded(j)
  BY <1>1, ClaimEffect DEF SpoolTyped, DataTyped
<1>3. /\ QueueTyped' /\ TaskSlotsFree' /\ NoTaskStarted
      /\ \A t \in TaskIds : Grows(t)
      /\ tasks' = tasks /\ exec' = exec
  BY <1>1, QueueSame DEF queueVars
<1>4. SpoolTyped' /\ DataTyped'
  BY <1>1, <1>2 DEF SpoolTyped, DataTyped, PolicyTyped, dataVars
<1>5. worker' \in Cycle /\ worker'.pc = "list"
  BY <1>1 DEF WorkerTyped, Cycle
<1>6. WorkerTyped' /\ ClaimKnowsTasks' /\ StartKnowsJobs'
  BY <1>1, <1>5 DEF WorkerTyped, ClaimKnowsTasks, StartKnowsJobs
<1>7. ExecOwnsRunning' /\ ExecWithinRecord'
  BY <1>1, <1>3 DEF ExecOwnsRunning, ExecWithinRecord, IsSync, dataVars
<1>8. RunnerOwnsRunning'
  <2> SUFFICES ASSUME NEW j \in JobIds, runner'[j].phase # "none"
               PROVE  up /\ jobs'[j].status = "running" /\ jobs'[j].load = runner'[j].load
    BY <1>1 DEF RunnerOwnsRunning
  <2>1. CASE runner'[j] = runner[j]
    BY <1>2, <2>1 DEF RunnerOwnsRunning
  <2>2. CASE jobs'[j].status = "running" /\ runner'[j] = [phase |-> "processing",
                                                          load |-> jobs'[j].load]
    BY <1>1, <2>2
  <2> QED BY <1>2, <2>1, <2>2
<1>9. AdmissionExcludes'
  <2> SUFFICES ASSUME NEW j \in JobIds, NEW t \in TaskIds,
                      jobs'[j].status = "running", tasks[t].status = "running"
               PROVE  ~PS!Conflicts(jobs'[j].load, [repo |-> tasks[t].repo, kind |-> tasks[t].kind,
                                                    policy |-> TQ!IsPolicySync(t)])
    BY <1>3 DEF AdmissionExcludes, TQ!IsPolicySync
  <2>1. CASE jobs[j].status = "running" /\ jobs'[j] = jobs[j]
    BY <2>1 DEF AdmissionExcludes
  <2>2. CASE /\ jobs'[j].load.repo = jobs[j].load.repo
             /\ jobs'[j].load.kind = jobs[j].load.kind
             /\ \A task \in worker.running : ~PS!Conflicts(jobs[j].load, task)
    <3>1. [repo |-> tasks[t].repo, kind |-> tasks[t].kind, policy |-> TQ!IsPolicySync(t)]
            \in worker.running
      BY <1>1 DEF ClaimKnowsTasks, RunningNow
    <3> QED BY <2>2, <3>1 DEF PS!Conflicts, PS!AdmissionKinds
  <2> QED BY <1>2, <2>1, <2>2
<1>10. NoEditForgotten'
  <2> SUFFICES ASSUME NEW e \in owed' PROVE Covered(e.repo, e.path)'
    BY CoveredNext
  <2>1. Covered(e.repo, e.path)
    BY <1>1, CoveredMeans
  <2>2. CASE e.path \in policy[e.repo] \cup buffer[e.repo]
    BY <1>1, <2>2 DEF Covered
  <2>3. ASSUME NEW j \in JobIds, JobCovers(j, e.repo, e.path), e.path \notin policy[e.repo]
        PROVE  JobCovers(j, e.repo, e.path)'
    <3>1. /\ jobs[j].load.repo = e.repo
          /\ e.path \in LoadTargets(jobs[j].load)
          /\ \/ jobs[j].status = "pending"
             \/ jobs[j].status = "running" /\ runner[j].phase # "done"
      BY <2>3, JobCoversMeans
    <3>2. CASE jobs[j].status = "running"
      <4>1. jobs'[j] = jobs[j] /\ runner'[j] = runner[j]
        BY <1>2, <3>2
      <4> QED BY <2>3, <4>1 DEF JobCovers
    <3>3. CASE jobs[j].status = "pending"
      <4>1. /\ jobs'[j].status # "absent"
            /\ jobs'[j].load.repo = e.repo
            /\ e.path \in LoadTargets(jobs'[j].load)
        BY <1>2, <2>3, <3>1, <3>3 DEF LosesExcluded
      <4>2. jobs'[j].status \in {"pending", "running"}
        BY <1>2, <4>1 DEF JobsTyped, PS!Row
      <4>3. jobs'[j].status = "running" => runner'[j].phase # "done"
        BY <1>2, <3>3
      <4> QED BY <4>1, <4>2, <4>3 DEF JobCovers, LoadTargets
    <3> QED BY <3>1, <3>2, <3>3
  <2>4. CASE \E t \in TaskIds : TaskCovers(t, e.repo, e.path)
    BY <1>3, <2>4, TaskCoverStays DEF Covered
  <2> QED BY <2>1, <2>2, <2>3, <2>4 DEF Covered
<1> QED BY <1>2, <1>3, <1>4, <1>6, <1>7, <1>8, <1>9, <1>10

\* A started task is in no repo the worker read as having a running row, and
\* no row has started running since.
LEMMA StartTasksKeeps ==
    ASSUME IInv, StartTasks
    PROVE  IInv'
<1> USE DEF IInv
<1> DEFINE S == TQ!NextRunnable(worker.spoolRepos)
<1>1. /\ up /\ worker.pc = "start"
      /\ TQ!StartTasks(S) /\ worker' = CycleStart
      /\ UNCHANGED <<nextId, endings, spoolVars, now, policy, up, buffer, dataVars, owed>>
  BY DEF StartTasks, At, workerOnly
<1>2. /\ TasksTyped' /\ TaskSlotsFree'
      /\ \A t \in S :
           /\ t \in TaskIds
           /\ tasks[t].status = "queued" /\ tasks'[t].status = "running"
           /\ tasks[t].repo \notin worker.spoolRepos
           /\ tasks'[t].repo = tasks[t].repo /\ tasks'[t].kind = tasks[t].kind
           /\ tasks'[t].mode = tasks[t].mode /\ tasks'[t].paths = tasks[t].paths
      /\ \A t \in TaskIds \ S : /\ Unfinished(t) => Grows(t)
                                /\ tasks'[t].status = "running" => tasks'[t] = tasks[t]
  BY <1>1, StartEffect DEF QueueTyped
<1>3. /\ \A t \in S : exec'[t] = [phase |-> "started", mode |-> tasks[t].mode,
                                  paths |-> tasks[t].paths]
      /\ \A t \in TaskIds \ S : exec'[t] = exec[t]
  BY <1>1, <1>2 DEF TQ!StartTasks, TQ!TaskIds, TaskIds
<1> HIDE DEF S
<1>0. \A t \in S : /\ exec'[t].phase = "started" /\ exec'[t].mode = tasks[t].mode
                   /\ exec'[t].paths = tasks[t].paths /\ exec'[t] \in TQ!Exec
  <2> SUFFICES ASSUME NEW t \in S
               PROVE  /\ exec'[t].phase = "started" /\ exec'[t].mode = tasks[t].mode
                      /\ exec'[t].paths = tasks[t].paths /\ exec'[t] \in TQ!Exec
    OBVIOUS
  <2> DEFINE mode == tasks[t].mode
             paths == tasks[t].paths
  <2>1. exec'[t] = [phase |-> "started", mode |-> mode, paths |-> paths]
    BY <1>3
  <2>2. mode \in TQ!Modes /\ paths \in SUBSET Paths
    BY <1>2 DEF QueueTyped, TasksTyped, TQ!Task
  <2> HIDE DEF mode, paths
  <2>3. /\ exec'[t].phase = "started" /\ exec'[t].mode = mode
        /\ exec'[t].paths = paths /\ exec'[t] \in TQ!Exec
    BY ONLY <2>1, <2>2 DEF TQ!Exec
  <2> QED BY <2>3 DEF mode, paths
<1>4. QueueTyped'
  <2>1. \A t \in TaskIds : exec'[t] \in TQ!Exec
    BY <1>0, <1>3 DEF QueueTyped
  <2>2. exec' = [t \in TaskIds |-> exec'[t]]
    BY <1>1 DEF TQ!StartTasks, TQ!TaskIds, TaskIds
  <2> QED BY <1>1, <1>2, <2>1, <2>2 DEF QueueTyped
<1>5. /\ JobsTyped' /\ JobSlotsFree' /\ LoadsFromProducers'
      /\ jobs' = jobs /\ runner' = runner
  BY <1>1, SpoolSame DEF spoolVars, SpoolTyped
<1>6. SpoolTyped' /\ DataTyped'
  BY <1>1, <1>5 DEF spoolVars, SpoolTyped, DataTyped, PolicyTyped, dataVars
<1>7. WorkerTyped' /\ ClaimKnowsTasks' /\ StartKnowsJobs'
  BY <1>1 DEF WorkerTyped, Cycle, CycleStart, ClaimKnowsTasks, StartKnowsJobs
<1>8. ExecOwnsRunning'
  BY <1>1, <1>2, <1>3 DEF ExecOwnsRunning, Unfinished, Grows
<1>9. RunnerOwnsRunning'
  BY <1>1, <1>5 DEF RunnerOwnsRunning
<1>10. AdmissionExcludes'
  <2> SUFFICES ASSUME NEW j \in JobIds, NEW t \in TaskIds,
                      jobs[j].status = "running", tasks'[t].status = "running"
               PROVE  ~PS!Conflicts(jobs[j].load,
                                    [repo |-> tasks'[t].repo, kind |-> tasks'[t].kind,
                                     policy |-> tasks'[t].kind = "sync"
                                                /\ tasks'[t].source = "policy"])
    BY <1>5 DEF AdmissionExcludes, TQ!IsPolicySync
  <2>1. CASE t \in S
    BY <1>1, <1>2, <2>1 DEF StartKnowsJobs, PS!Conflicts
  <2>2. CASE t \notin S
    BY <1>2, <2>2 DEF AdmissionExcludes, TQ!IsPolicySync
  <2> QED BY <2>1, <2>2
<1>11. ExecWithinRecord'
  <2> SUFFICES ASSUME NEW t \in TaskIds
               PROVE  /\ (exec'[t].phase # "none" /\ tasks'[t].kind = "sync") =>
                           /\ Targets(exec'[t].mode, exec'[t].paths)
                                \subseteq Targets(tasks'[t].mode, tasks'[t].paths)
                           /\ reading[t].paths \subseteq Targets(tasks'[t].mode, tasks'[t].paths)
                      /\ reading[t].paths # {} =>
                           exec'[t].phase = "working" /\ tasks'[t].kind = "sync"
    BY <1>1 DEF ExecWithinRecord, IsSync, dataVars
  <2>1. CASE t \in S
    <3>1. reading[t].paths = {}
      BY <1>2, <2>1 DEF ExecOwnsRunning, ExecWithinRecord
    <3> QED BY <1>0, <1>2, <2>1, <3>1
  <2>2. CASE t \notin S
    <3>1. exec[t].phase # "none" => Grows(t)
      BY <1>2, <2>2 DEF ExecOwnsRunning, Unfinished
    <3> QED BY <1>3, <2>2, <3>1 DEF ExecWithinRecord, IsSync, Grows
  <2> QED BY <2>1, <2>2
<1>12. NoEditForgotten'
  <2> SUFFICES ASSUME NEW e \in owed' PROVE Covered(e.repo, e.path)'
    BY CoveredNext
  <2>1. Covered(e.repo, e.path)
    BY <1>1, CoveredMeans
  <2>2. CASE e.path \in policy[e.repo] \cup buffer[e.repo]
    BY <1>1, <2>2 DEF Covered
  <2>3. CASE \E j \in JobIds : JobCovers(j, e.repo, e.path)
    BY <1>5, <2>3 DEF Covered, JobCovers
  <2>4. ASSUME NEW t \in TaskIds, TaskCovers(t, e.repo, e.path)
        PROVE  TaskCovers(t, e.repo, e.path)'
    <3>1. CASE t \in S
      <4>1. e.path \in Targets(tasks[t].mode, tasks[t].paths)
        BY <1>2, <2>4, <3>1 DEF TaskCovers, ExecOwnsRunning
      <4> QED BY <1>0, <1>2, <2>4, <3>1, <4>1 DEF TaskCovers, IsSync
    <3>2. CASE t \notin S
      BY <1>2, <1>3, <2>4, <3>2, TaskCoverStays
    <3> QED BY <3>1, <3>2
  <2> QED BY <2>1, <2>2, <2>3, <2>4 DEF Covered
<1> QED BY <1>2, <1>4, <1>5, <1>6, <1>7, <1>8, <1>9, <1>10, <1>11, <1>12

-----------------------------------------------------------------------------
(* The spool runs keep the invariant. *)

\* What a run makes of its payload: the queue takes on every path the policy
\* lets through.
LEMMA EffectKeeps ==
    ASSUME IInv, NEW j \in JobIds, runner[j].phase # "none", Effect(runner[j].load),
           UNCHANGED <<endings, exec>>
    PROVE  /\ QueueTyped' /\ TaskSlotsFree' /\ NoTaskStarted
           /\ \A t \in TaskIds : Unfinished(t) => Grows(t)
           /\ \A p \in LoadTargets(jobs[j].load) \ policy[jobs[j].load.repo] :
                \E t \in TaskIds :
                    /\ tasks'[t].status \in {"queued", "running"}
                    /\ tasks'[t].repo = jobs[j].load.repo
                    /\ tasks'[t].kind = "sync"
                    /\ p \in Targets(tasks'[t].mode, tasks'[t].paths)
<1> USE DEF IInv
<1> DEFINE load == jobs[j].load
           paths == load.paths \ policy[load.repo]
<1>1. /\ runner[j].load = load /\ load \in PS!Payload
      /\ load.source \in {"watcher", "post_checkout", "post_commit"}
      /\ load.kind \in {"sync", "ingest", "post_commit", "derivation"}
  BY DEF RunnerOwnsRunning, LoadsFromProducers, SpoolTyped, JobsTyped, PS!Row
<1>2. /\ load.repo \in Repos /\ load.mode \in TQ!Modes /\ load.paths \in SUBSET Paths
      /\ load.commit \in Commits \cup {NoCommit} /\ paths \in SUBSET Paths
  BY <1>1 DEF PS!Payload, PS!Modes, TQ!Modes, TQ!SyncModes
<1> HIDE DEF paths
<1>3. ASSUME NEW req \in TQ!Request, EnqueueTask(req), req.repo = load.repo,
             req.kind = "sync" =>
               LoadTargets(load) \ policy[load.repo] \subseteq Targets(req.mode, req.paths),
             req.kind # "sync" => LoadTargets(load) = {}
      PROVE  /\ QueueTyped' /\ TaskSlotsFree' /\ NoTaskStarted
             /\ \A t \in TaskIds : Unfinished(t) => Grows(t)
             /\ \A p \in LoadTargets(load) \ policy[load.repo] :
                  \E t \in TaskIds :
                      /\ tasks'[t].status \in {"queued", "running"}
                      /\ tasks'[t].repo = load.repo
                      /\ tasks'[t].kind = "sync"
                      /\ p \in Targets(tasks'[t].mode, tasks'[t].paths)
  <2>1. /\ TasksTyped' /\ TaskSlotsFree' /\ nextId' \in Nat
        /\ NoTaskStarted
        /\ \A t \in TaskIds : Unfinished(t) => Grows(t)
        /\ req.kind = "sync" => Answered(req)
    BY <1>3, EnqueueEffect DEF QueueTyped
  <2>2. QueueTyped'
    BY <2>1 DEF QueueTyped
  <2>3. ASSUME NEW p \in LoadTargets(load) \ policy[load.repo]
        PROVE  \E t \in TaskIds :
                   /\ tasks'[t].status \in {"queued", "running"}
                   /\ tasks'[t].repo = load.repo
                   /\ tasks'[t].kind = "sync"
                   /\ p \in Targets(tasks'[t].mode, tasks'[t].paths)
    <3>1. req.kind = "sync" /\ p \in Targets(req.mode, req.paths)
      BY <1>3, <2>3
    <3>2. PICK t \in TaskIds :
              /\ tasks'[t].status \in {"queued", "running"}
              /\ tasks'[t].repo = req.repo
              /\ tasks'[t].kind = req.kind
              /\ Targets(req.mode, req.paths) \subseteq Targets(tasks'[t].mode, tasks'[t].paths)
      BY <2>1, <3>1 DEF Answered
    <3> QED BY <1>3, <3>1, <3>2
  <2> QED BY <2>1, <2>2, <2>3
<1>4. CASE load.kind = "sync"
  <2> DEFINE req == TaskRequest(load.repo, "sync", load.source, load.mode, load.paths, NoCommit)
  <2>1. EnqueueTask(req)
    BY <1>1, <1>4 DEF Effect
  <2>2. req \in TQ!Request
    BY <1>1, <1>2 DEF TaskRequest, TQ!Request, TQ!Kinds, TQ!Sources
  <2>3. req.repo = load.repo /\ req.kind = "sync" /\ Targets(req.mode, req.paths) = LoadTargets(load)
    BY <1>4 DEF TaskRequest, LoadTargets
  <2> HIDE DEF req
  <2> QED BY <1>3, <2>1, <2>2, <2>3
<1>5. CASE load.kind = "ingest"
  <2> DEFINE req == TaskRequest(load.repo, "ingest", load.source, "none", {}, load.commit)
  <2>1. EnqueueTask(req)
    BY <1>1, <1>5 DEF Effect
  <2>2. req \in TQ!Request
    BY <1>1, <1>2 DEF TaskRequest, TQ!Request, TQ!Kinds, TQ!Sources, TQ!Modes
  <2>3. req.repo = load.repo /\ req.kind = "ingest" /\ LoadTargets(load) = {}
    BY <1>5 DEF TaskRequest, LoadTargets
  <2> HIDE DEF req
  <2> QED BY <1>3, <2>1, <2>2, <2>3
<1>6. CASE load.kind = "post_commit" /\ paths # {}
  <2> DEFINE req == TaskRequest(load.repo, "sync", "post_commit", "paths", paths, load.commit)
  <2>1. EnqueueTask(req)
    BY <1>1, <1>6 DEF Effect, paths
  <2>2. req \in TQ!Request
    BY <1>1, <1>2 DEF TaskRequest, TQ!Request, TQ!Kinds, TQ!Sources, TQ!Modes, TQ!SyncModes
  <2>3. /\ req.repo = load.repo /\ req.kind = "sync"
        /\ Targets(req.mode, req.paths) = LoadTargets(load) \ policy[load.repo]
    BY <1>6 DEF TaskRequest, LoadTargets, Targets, paths
  <2> HIDE DEF req
  <2> QED BY <1>3, <2>1, <2>2, <2>3
<1>7. CASE load.kind = "derivation" \/ (load.kind = "post_commit" /\ paths = {})
  <2>1. UNCHANGED <<tasks, nextId>>
    BY <1>1, <1>7 DEF Effect, paths
  <2>2. LoadTargets(load) \ policy[load.repo] = {}
    BY <1>7 DEF LoadTargets, paths
  <2> QED BY <2>1, <2>2, QueueSame DEF queueVars
<1> QED BY <1>1, <1>4, <1>5, <1>6, <1>7

\* A step of run j that leaves its row as it is.
LEMMA RunnerStepKeeps ==
    ASSUME IInv, NEW j \in JobIds, runner[j].phase # "none",
           NEW rec \in PS!Runner, rec.phase # "none" => rec.load = runner[j].load,
           runner' = [runner EXCEPT ![j] = rec],
           QueueTyped', TaskSlotsFree', NoTaskStarted,
           \A t \in TaskIds : Unfinished(t) => Grows(t),
           UNCHANGED <<exec, jobs, nextJob, now, policy, up, worker, buffer, dataVars, owed>>,
           NoEditForgotten'
    PROVE  IInv'
<1> USE DEF IInv
<1>1. /\ JobsTyped' /\ JobSlotsFree' /\ LoadsFromProducers' /\ NoJobClaimed
  BY SpoolSame DEF SpoolTyped
<1>2. SpoolTyped' /\ DataTyped' /\ WorkerTyped'
  BY <1>1 DEF SpoolTyped, DataTyped, PolicyTyped, dataVars, WorkerTyped
<1>3. ExecOwnsRunning' /\ RunnerOwnsRunning' /\ AdmissionExcludes' /\ ExecWithinRecord'
  <2>1. \A t \in TaskIds : tasks[t].status = "running" => Grows(t)
    BY DEF Unfinished
  <2>2. \A k \in JobIds : runner'[k].phase # "none" =>
            runner[k].phase # "none" /\ runner'[k].load = runner[k].load /\ jobs'[k] = jobs[k]
    BY DEF SpoolTyped
  <2>3. exec' = exec /\ reading' = reading /\ up' = up
    BY DEF dataVars
  <2> QED BY <1>1, <2>1, <2>2, <2>3, QuietStep
<1>4. ClaimKnowsTasks' /\ StartKnowsJobs'
  BY <1>1, KnowledgeStays
<1> QED BY <1>1, <1>2, <1>3, <1>4

\* While the row of a payload that feeds a sync is running, no sync of its repo
\* runs: the task that answers it has yet to start, and to read.
LEMMA ProcessOkKeeps ==
    ASSUME IInv, NEW j \in JobIds, ProcessOk(j)
    PROVE  IInv'
<1> USE DEF IInv
<1> DEFINE rec == [runner[j] EXCEPT !.phase = "done"]
<1>1. /\ runner[j].phase = "processing" /\ runner' = [runner EXCEPT ![j] = rec]
      /\ Effect(runner[j].load)
      /\ UNCHANGED <<endings, exec, jobs, nextJob, now, policy, up, worker, buffer, dataVars, owed>>
  BY DEF ProcessOk, PS!ProcessOkStep, runnerOnly
<1>2. /\ QueueTyped' /\ TaskSlotsFree' /\ NoTaskStarted
      /\ \A t \in TaskIds : Unfinished(t) => Grows(t)
      /\ \A p \in LoadTargets(jobs[j].load) \ policy[jobs[j].load.repo] :
           \E t \in TaskIds :
               /\ tasks'[t].status \in {"queued", "running"}
               /\ tasks'[t].repo = jobs[j].load.repo
               /\ tasks'[t].kind = "sync"
               /\ p \in Targets(tasks'[t].mode, tasks'[t].paths)
  BY <1>1, EffectKeeps
<1>3. rec \in PS!Runner /\ rec.load = runner[j].load /\ rec.phase = "done"
  BY DEF SpoolTyped, PS!Runner
<1> HIDE DEF rec
<1>4. NoEditForgotten'
  <2> SUFFICES ASSUME NEW e \in owed' PROVE Covered(e.repo, e.path)'
    BY CoveredNext
  <2>1. Covered(e.repo, e.path)
    BY <1>1, CoveredMeans
  <2>2. CASE e.path \in policy[e.repo] \cup buffer[e.repo]
    BY <1>1, <2>2 DEF Covered
  <2>3. CASE \E t \in TaskIds : TaskCovers(t, e.repo, e.path)
    BY <1>1, <1>2, <2>3, TaskCoverStays DEF Covered
  <2>4. ASSUME NEW k \in JobIds, JobCovers(k, e.repo, e.path), e.path \notin policy[e.repo]
        PROVE  Covered(e.repo, e.path)'
    <3>1. CASE k # j
      <4>1. runner'[k] = runner[k] /\ jobs'[k] = jobs[k]
        BY <1>1, <3>1 DEF SpoolTyped
      <4>2. JobCovers(k, e.repo, e.path)'
        BY <2>4, <4>1 DEF JobCovers
      <4> QED BY <4>2 DEF Covered
    <3>2. CASE k = j
      <4>1. /\ jobs[j].load.repo = e.repo
            /\ e.path \in LoadTargets(jobs[j].load)
        BY <2>4, <3>2, JobCoversMeans
      <4>2. PICK t \in TaskIds :
               /\ tasks'[t].status \in {"queued", "running"}
               /\ tasks'[t].repo = jobs[j].load.repo
               /\ tasks'[t].kind = "sync"
               /\ e.path \in Targets(tasks'[t].mode, tasks'[t].paths)
        BY <1>2, <2>4, <4>1
      <4>3. jobs[j].status = "running" /\ jobs[j].load.kind \in {"sync", "post_commit"}
        BY <1>1, <4>1 DEF RunnerOwnsRunning, LoadTargets
      <4>4. tasks'[t].status # "running"
        <5>1. SUFFICES ASSUME tasks'[t].status = "running" PROVE FALSE
          OBVIOUS
        <5>2. /\ tasks[t].status = "running" /\ tasks[t].repo = jobs[j].load.repo
              /\ tasks[t].kind = "sync"
          BY <1>2, <4>2, <5>1 DEF NoTaskStarted
        <5>3. ~PS!Conflicts(jobs[j].load, [repo |-> tasks[t].repo, kind |-> tasks[t].kind,
                                           policy |-> TQ!IsPolicySync(t)])
          BY <4>3, <5>2 DEF AdmissionExcludes
        <5>4. PS!AdmissionKinds(jobs[j].load) = {"sync"}
          BY <4>3 DEF PS!AdmissionKinds
        <5> QED BY <5>2, <5>3, <5>4 DEF PS!Conflicts
      <4>5. TaskCovers(t, e.repo, e.path)'
        BY <4>1, <4>2, <4>4 DEF TaskCovers, IsSync
      <4> QED BY <4>5 DEF Covered
    <3> QED BY <3>1, <3>2
  <2> QED BY <2>1, <2>2, <2>3, <2>4 DEF Covered
<1> QED BY <1>1, <1>2, <1>3, <1>4, RunnerStepKeeps

\* A run that fails, or whose settling fails, keeps what its row covers.
LEMMA FailedRunKeeps ==
    ASSUME IInv, NEW j \in JobIds, runner[j].phase # "none",
           NEW rec \in PS!Runner, rec.phase \in {"none", "failed"},
           rec.phase # "none" => rec.load = runner[j].load,
           runner' = [runner EXCEPT ![j] = rec],
           UNCHANGED <<queueVars, jobs, nextJob, now, policy, up, worker, buffer, dataVars, owed>>
    PROVE  IInv'
<1> USE DEF IInv
<1>1. /\ QueueTyped' /\ TaskSlotsFree' /\ NoTaskStarted
      /\ \A t \in TaskIds : Grows(t)
  BY QueueSame
<1>2. \A k \in JobIds : JobGrows(k)
  BY SpoolSame
<1>3. exec' = exec /\ \A k \in JobIds : runner'[k].phase = "done" => runner[k].phase = "done"
  BY DEF queueVars, SpoolTyped
<1>4. NoEditForgotten'
  <2> SUFFICES ASSUME NEW e \in owed' PROVE Covered(e.repo, e.path)'
    BY CoveredNext
  <2>1. Covered(e.repo, e.path)
    BY CoveredMeans
  <2>2. e.path \in policy[e.repo] \cup buffer[e.repo] => Covered(e.repo, e.path)'
    BY DEF Covered
  <2> QED BY <1>1, <1>2, <1>3, <2>1, <2>2, CoverStays
<1> QED BY <1>1, <1>3, <1>4, RunnerStepKeeps

LEMMA ProcessErrKeeps ==
    ASSUME IInv, NEW j \in JobIds, ProcessErr(j)
    PROVE  IInv'
<1> DEFINE rec == [runner[j] EXCEPT !.phase = "failed"]
<1>1. /\ runner[j].phase # "none" /\ runner' = [runner EXCEPT ![j] = rec]
      /\ UNCHANGED <<queueVars, jobs, nextJob, now, policy, up, worker, buffer, dataVars, owed>>
  BY DEF ProcessErr, PS!ProcessErrStep, runnerOnly, queueVars
<1>2. rec \in PS!Runner /\ rec.load = runner[j].load /\ rec.phase = "failed"
  BY DEF IInv, SpoolTyped, PS!Runner
<1> HIDE DEF rec
<1> QED BY <1>1, <1>2, FailedRunKeeps

LEMMA SettleFaultKeeps ==
    ASSUME IInv, NEW j \in JobIds, SettleFault(j)
    PROVE  IInv'
<1> DEFINE rec == IF runner[j].phase = "done" THEN [runner[j] EXCEPT !.phase = "failed"]
                  ELSE PS!NoRunner
<1>1. /\ runner[j].phase # "none" /\ runner' = [runner EXCEPT ![j] = rec]
      /\ UNCHANGED <<queueVars, jobs, nextJob, now, policy, up, worker, buffer, dataVars, owed>>
  BY DEF SettleFault, runnerOnly, queueVars
<1>2. /\ rec \in PS!Runner /\ rec.phase \in {"none", "failed"}
      /\ rec.phase # "none" => rec.load = runner[j].load
  <2>1. CASE runner[j].phase = "done"
    BY <2>1 DEF IInv, SpoolTyped, PS!Runner
  <2>2. CASE runner[j].phase # "done"
    BY <2>2, NoRunnerTyped
  <2> QED BY <2>1, <2>2
<1> HIDE DEF rec
<1> QED BY <1>1, <1>2, FailedRunKeeps

\* Only the row of a run that is done, whose payload the queue has, disappears.
LEMMA SettleJobKeeps ==
    ASSUME IInv, NEW j \in JobIds, SettleJob(j)
    PROVE  IInv'
<1> USE DEF IInv
<1> DEFINE back == [jobs[j] EXCEPT !.status = "pending", !.avail = now + Backoff]
<1>1. /\ runner' = [runner EXCEPT ![j] = PS!NoRunner]
      /\ \/ runner[j].phase = "done" /\ jobs' = [jobs EXCEPT ![j] = PS!NoRow]
         \/ runner[j].phase = "failed" /\ jobs' = [jobs EXCEPT ![j] = back]
      /\ UNCHANGED <<queueVars, nextJob, now, policy, up, worker, buffer, dataVars, owed>>
  BY DEF SettleJob, PS!DeleteStep, PS!RequeueJobStep, runnerOnly, queueVars
<1>2. back \in PS!Row /\ back.status = "pending" /\ back.load = jobs[j].load
  <2>1. jobs[j] \in PS!Row /\ now + Backoff \in Nat
    BY DaemonAssumption DEF SpoolTyped, JobsTyped
  <2> QED BY ONLY <2>1 DEF PS!Row
<1> HIDE DEF back
<1>3. jobs[j].status = "running"
  BY <1>1 DEF RunnerOwnsRunning
<1>4. /\ \A k \in JobIds : k # j => jobs'[k] = jobs[k] /\ runner'[k] = runner[k]
      /\ runner'[j] = PS!NoRunner
      /\ (runner[j].phase = "done" /\ jobs'[j] = PS!NoRow) \/ jobs'[j] = back
  BY <1>1 DEF SpoolTyped, JobsTyped
<1>5. /\ QueueTyped' /\ TaskSlotsFree' /\ NoTaskStarted
      /\ \A t \in TaskIds : Grows(t)
  BY <1>1, QueueSame
<1>6. SpoolTyped' /\ DataTyped' /\ WorkerTyped'
  <2>1. jobs' \in [JobIds -> PS!Row] /\ runner' \in [JobIds -> PS!Runner]
    BY <1>1, <1>2, NoRowTyped, NoRunnerTyped DEF SpoolTyped, JobsTyped
  <2> QED
    BY <1>1, <2>1 DEF SpoolTyped, JobsTyped, DataTyped, PolicyTyped, dataVars, WorkerTyped
<1>7. JobSlotsFree' /\ LoadsFromProducers' /\ NoJobClaimed
  <2>1. JobSlotsFree'
    BY <1>1, <1>3, <1>4, NoRowTyped DEF JobSlotsFree
  <2>2. LoadsFromProducers'
    BY <1>2, <1>3, <1>4, NoRowTyped DEF LoadsFromProducers
  <2>3. NoJobClaimed
    BY <1>2, <1>4, NoRowTyped DEF NoJobClaimed
  <2> QED BY <2>1, <2>2, <2>3
<1>8. ExecOwnsRunning' /\ RunnerOwnsRunning' /\ AdmissionExcludes' /\ ExecWithinRecord'
  <2>1. \A k \in JobIds : runner'[k].phase # "none" =>
            runner[k].phase # "none" /\ runner'[k].load = runner[k].load /\ jobs'[k] = jobs[k]
    BY <1>4, NoRunnerTyped
  <2>2. exec' = exec /\ reading' = reading /\ up' = up
    BY <1>1 DEF queueVars, dataVars
  <2> QED BY <1>5, <1>7, <2>1, <2>2, QuietStep
<1>9. ClaimKnowsTasks' /\ StartKnowsJobs'
  BY <1>1, <1>5, <1>7, KnowledgeStays
<1>10. NoEditForgotten'
  <2> SUFFICES ASSUME NEW e \in owed' PROVE Covered(e.repo, e.path)'
    BY CoveredNext
  <2>1. Covered(e.repo, e.path)
    BY <1>1, CoveredMeans
  <2>2. CASE e.path \in policy[e.repo] \cup buffer[e.repo]
    BY <1>1, <2>2 DEF Covered
  <2>3. ASSUME NEW k \in JobIds, JobCovers(k, e.repo, e.path)
        PROVE  JobCovers(k, e.repo, e.path)'
    BY <1>2, <1>3, <1>4, <2>3 DEF JobCovers
  <2>4. CASE \E t \in TaskIds : TaskCovers(t, e.repo, e.path)
    BY <1>1, <1>5, <2>4, TaskCoverStays DEF Covered, queueVars
  <2> QED BY <2>1, <2>2, <2>3, <2>4 DEF Covered
<1> QED BY <1>5, <1>6, <1>7, <1>8, <1>9, <1>10

-----------------------------------------------------------------------------
(* The executions keep the invariant. *)

\* A step of the executions that leaves the spool and the worker alone.
LEMMA ExecutionKeeps ==
    ASSUME IInv, QueueTyped', DataTyped', TaskSlotsFree', NoTaskStarted,
           \A u \in TaskIds : exec'[u].phase # "none" =>
               exec[u].phase # "none" /\ tasks'[u].status = "running",
           UNCHANGED <<spoolVars, now, up, worker>>,
           ExecWithinRecord', NoEditForgotten'
    PROVE  IInv'
<1> USE DEF IInv
<1>1. /\ JobsTyped' /\ JobSlotsFree' /\ LoadsFromProducers' /\ NoJobClaimed
  BY SpoolSame DEF spoolVars, SpoolTyped
<1>2. SpoolTyped' /\ WorkerTyped'
  BY <1>1 DEF spoolVars, SpoolTyped, WorkerTyped
<1>3. ExecOwnsRunning'
  BY DEF ExecOwnsRunning
<1>4. RunnerOwnsRunning'
  BY DEF RunnerOwnsRunning, spoolVars
<1>5. AdmissionExcludes'
  BY <1>1, AdmissionStays
<1>6. ClaimKnowsTasks' /\ StartKnowsJobs'
  BY <1>1, KnowledgeStays
<1> QED BY <1>1, <1>2, <1>3, <1>4, <1>5, <1>6

\* An execution that starts its work reads what its record covers of an owed
\* edit, but for what the policy excludes.
LEMMA BeginWorkKeeps ==
    ASSUME IInv, NEW t \in TaskIds, BeginWork(t)
    PROVE  IInv'
<1> USE DEF IInv
<1> DEFINE r == tasks[t].repo
           T == Targets(exec'[t].mode, exec'[t].paths)
           S == T \ policy[r]
<1>1. /\ TQ!BeginStep(t) \/ TQ!BeginAfterRebuildStep(t)
      /\ UNCHANGED <<endings, stored, nextId, spoolVars, now, policy, up, worker, buffer>>
  BY DEF BeginWork, execOnly
<1>2. /\ exec[t].phase = "started" /\ tasks[t].status = "running"
  BY <1>1 DEF TQ!BeginStep, TQ!BeginAfterRebuildStep, ExecOwnsRunning
<1>3. /\ QueueTyped' /\ TaskSlotsFree' /\ NoTaskStarted
      /\ \A u \in TaskIds : Unfinished(u) => Grows(u)
      /\ \A u \in TaskIds : u # t => exec'[u] = exec[u]
      /\ exec'[t].phase = "working"
      /\ IsSync(t) => /\ Targets(exec[t].mode, exec[t].paths) \subseteq T
                      /\ T \subseteq Targets(tasks'[t].mode, tasks'[t].paths)
  <2>1. CASE TQ!BeginStep(t)
    <3>1. tasks' = tasks /\ exec' = [exec EXCEPT ![t] = [exec[t] EXCEPT !.phase = "working"]]
      BY <2>1 DEF TQ!BeginStep
    <3>2. /\ QueueTyped'
          /\ \A u \in TaskIds : u # t => exec'[u] = exec[u]
          /\ exec'[t].phase = "working"
          /\ exec'[t].mode = exec[t].mode /\ exec'[t].paths = exec[t].paths
      BY <1>1, <3>1 DEF QueueTyped, TasksTyped, TQ!Exec
    <3>3. TaskSlotsFree' /\ NoTaskStarted /\ \A u \in TaskIds : Grows(u)
      BY <1>1, <3>1 DEF TaskSlotsFree, NoTaskStarted, Grows
    <3> QED BY <1>2, <3>1, <3>2, <3>3 DEF ExecWithinRecord
  <2>2. CASE TQ!BeginAfterRebuildStep(t)
    <3>1. exec' = [exec EXCEPT ![t] = [phase |-> "working", mode |-> "repair", paths |-> {}]]
      BY <2>2 DEF TQ!BeginAfterRebuildStep
    <3>2. /\ TasksTyped' /\ TaskSlotsFree' /\ NoTaskStarted
          /\ \A u \in TaskIds : Unfinished(u) => Grows(u)
          /\ tasks'[t].mode = "repair"
      BY <1>1, <1>2, <2>2, RebuildEffect DEF QueueTyped, Unfinished
    <3>3. exec' \in [TaskIds -> TQ!Exec]
      BY <3>1 DEF QueueTyped, TQ!Exec, TQ!Modes, TQ!SyncModes
    <3>4. QueueTyped'
      BY <1>1, <3>2, <3>3 DEF QueueTyped
    <3>5. /\ \A u \in TaskIds : u # t => exec'[u] = exec[u]
          /\ exec'[t].phase = "working" /\ exec'[t].mode = "repair"
      BY <3>1 DEF QueueTyped
    <3>6. exec[t].paths \subseteq Paths
      BY DEF QueueTyped, TQ!Exec
    <3> QED BY <3>2, <3>4, <3>5, <3>6 DEF Targets
  <2> QED BY <1>1, <2>1, <2>2
<1>4. T \subseteq Paths
  BY <1>3 DEF QueueTyped, TQ!Exec, Targets
<1>5. IsSync(t) => /\ reading' = [reading EXCEPT ![t] = [paths |-> S, excluded |-> policy[r]]]
                   /\ owed' = owed \ Entry(r, S)
                   /\ index' = index \/ index' = [index EXCEPT ![r] = @ \ policy[r]]
  BY Zenon DEF BeginWork
<1>6. ~IsSync(t) => UNCHANGED <<reading, owed, index>>
  BY DEF BeginWork
<1> HIDE DEF S, T
<1>7. r \in Repos /\ policy[r] \in SUBSET Paths
  BY DEF DataTyped, PolicyTyped, QueueTyped, TasksTyped, TQ!Task
<1>8. DataTyped'
  <2>1. CASE IsSync(t)
    <3>1. S \in SUBSET Paths
      BY <1>4 DEF S
    <3>2. reading' \in [TaskIds -> [paths : SUBSET Paths, excluded : SUBSET Paths]]
      BY <1>5, <1>7, <2>1, <3>1 DEF DataTyped
    <3>3. index' \in [Repos -> SUBSET Paths]
      BY <1>5, <1>7, <2>1 DEF DataTyped
    <3> QED BY <1>1, <1>5, <2>1, <3>2, <3>3 DEF DataTyped, PolicyTyped
  <2>2. CASE ~IsSync(t)
    BY <1>1, <1>6, <2>2 DEF DataTyped, PolicyTyped
  <2> QED BY <2>1, <2>2
<1>9. ExecWithinRecord'
  <2> SUFFICES ASSUME NEW u \in TaskIds
               PROVE  /\ (exec'[u].phase # "none" /\ tasks'[u].kind = "sync") =>
                           /\ Targets(exec'[u].mode, exec'[u].paths)
                                \subseteq Targets(tasks'[u].mode, tasks'[u].paths)
                           /\ reading'[u].paths \subseteq Targets(tasks'[u].mode, tasks'[u].paths)
                      /\ reading'[u].paths # {} =>
                           exec'[u].phase = "working" /\ tasks'[u].kind = "sync"
    BY DEF ExecWithinRecord, IsSync
  <2>1. CASE u # t
    <3>1. reading'[u] = reading[u] /\ exec'[u] = exec[u]
      BY <1>3, <1>5, <1>6, <2>1 DEF DataTyped
    <3>2. exec[u].phase # "none" => Grows(u)
      BY <1>3 DEF ExecOwnsRunning, Unfinished
    <3> QED BY <3>1, <3>2 DEF ExecWithinRecord, IsSync, Grows
  <2>2. CASE u = t /\ IsSync(t)
    <3>1. reading'[t].paths = S
      BY <1>5, <2>2 DEF DataTyped
    <3>2. Grows(t)
      BY <1>2, <1>3 DEF Unfinished
    <3> QED BY <1>3, <2>2, <3>1, <3>2 DEF S, T, Grows, IsSync
  <2>3. CASE u = t /\ ~IsSync(t)
    <3>1. reading'[t].paths = {}
      BY <1>2, <1>6, <2>3 DEF ExecWithinRecord
    <3>2. Grows(t)
      BY <1>2, <1>3 DEF Unfinished
    <3> QED BY <2>3, <3>1, <3>2 DEF Grows, IsSync
  <2> QED BY <2>1, <2>2, <2>3
<1>10. NoEditForgotten'
  <2> SUFFICES ASSUME NEW e \in owed' PROVE Covered(e.repo, e.path)'
    BY CoveredNext
  <2>1. e \in owed /\ Covered(e.repo, e.path)
    BY <1>5, <1>6, CoveredMeans
  <2>2. CASE e.path \in policy[e.repo] \cup buffer[e.repo]
    BY <1>1, <2>2 DEF Covered
  <2>3. CASE \E j \in JobIds : JobCovers(j, e.repo, e.path)
    BY <1>1, <2>3 DEF Covered, JobCovers, spoolVars
  <2>4. ASSUME NEW u \in TaskIds, TaskCovers(u, e.repo, e.path)
        PROVE  Covered(e.repo, e.path)'
    <3>1. CASE u # t
      <4>1. TaskCovers(u, e.repo, e.path)'
        BY <1>3, <2>4, <3>1, TaskCoverStays
      <4> QED BY <4>1 DEF Covered
    <3>2. CASE u = t
      <4>1. /\ IsSync(t) /\ e.repo = r
            /\ e.path \in Targets(exec[t].mode, exec[t].paths)
        BY <1>2, <2>4, <3>2 DEF TaskCovers
      <4>2. e.path \in T
        BY <1>3, <4>1
      <4>3. e \notin Entry(r, S)
        BY <1>5, <4>1
      <4>4. e \in [repo : Repos, path : Paths]
        BY <2>1 DEF DataTyped
      <4>5. e.path \notin S
        BY <4>1, <4>3, <4>4 DEF Entry
      <4>6. e.path \in policy[e.repo]
        BY <4>1, <4>2, <4>5 DEF S
      <4> QED BY <1>1, <4>6 DEF Covered
    <3> QED BY <3>1, <3>2
  <2> QED BY <2>1, <2>2, <2>3, <2>4 DEF Covered
<1>11. \A u \in TaskIds : exec'[u].phase # "none" =>
           exec[u].phase # "none" /\ tasks'[u].status = "running"
  BY <1>2, <1>3 DEF ExecOwnsRunning, Unfinished, Grows
<1> QED BY <1>1, <1>3, <1>8, <1>9, <1>10, <1>11, ExecutionKeeps

\* What the end of an execution, with status, leaves of the invariant.
LEMMA EndedExecution ==
    ASSUME IInv, NEW t \in TaskIds, exec[t].phase # "none",
           NEW status \in {"completed", "failed"}, TQ!EndTask(t, status),
           exec' = [exec EXCEPT ![t] = TQ!NoExec],
           reading' = [reading EXCEPT ![t] = NotReading], nextId' = nextId
    PROVE  /\ QueueTyped' /\ TaskSlotsFree' /\ NoTaskStarted /\ ExecWithinRecord'
           /\ reading' \in [TaskIds -> [paths : SUBSET Paths, excluded : SUBSET Paths]]
           /\ \A u \in TaskIds : u # t => exec'[u] = exec[u]
           /\ \A u \in TaskIds : u # t /\ Unfinished(u) => Grows(u)
           /\ \A u \in TaskIds : exec'[u].phase # "none" =>
                  exec[u].phase # "none" /\ tasks'[u].status = "running"
<1> USE DEF IInv
<1>1. /\ TasksTyped' /\ TaskSlotsFree' /\ endings' \in Nat /\ NoTaskStarted
      /\ \A u \in TaskIds : u # t /\ Unfinished(u) => Grows(u)
  BY EndEffect DEF QueueTyped, ExecOwnsRunning, Unfinished
<1>2. TQ!NoExec \in TQ!Exec /\ TQ!NoExec.phase = "none"
  BY DEF TQ!NoExec, TQ!Exec, TQ!Modes
<1>3. /\ exec'[t] = TQ!NoExec
      /\ \A u \in TaskIds : u # t => exec'[u] = exec[u]
      /\ exec' \in [TaskIds -> TQ!Exec]
  BY <1>2 DEF QueueTyped
<1>4. NotReading \in [paths : SUBSET Paths, excluded : SUBSET Paths] /\ NotReading.paths = {}
  BY DEF NotReading
<1>5. /\ reading'[t].paths = {}
      /\ \A u \in TaskIds : u # t => reading'[u] = reading[u]
      /\ reading' \in [TaskIds -> [paths : SUBSET Paths, excluded : SUBSET Paths]]
  BY <1>4 DEF DataTyped
<1>6. QueueTyped'
  BY <1>1, <1>3 DEF QueueTyped
<1>7. ExecWithinRecord'
  <2> SUFFICES ASSUME NEW u \in TaskIds
               PROVE  /\ (exec'[u].phase # "none" /\ tasks'[u].kind = "sync") =>
                           /\ Targets(exec'[u].mode, exec'[u].paths)
                                \subseteq Targets(tasks'[u].mode, tasks'[u].paths)
                           /\ reading'[u].paths \subseteq Targets(tasks'[u].mode, tasks'[u].paths)
                      /\ reading'[u].paths # {} =>
                           exec'[u].phase = "working" /\ tasks'[u].kind = "sync"
    BY DEF ExecWithinRecord, IsSync
  <2>1. CASE u = t
    BY <1>2, <1>3, <1>5, <2>1
  <2>2. CASE u # t
    <3>1. exec[u].phase # "none" => Grows(u)
      BY <1>1, <2>2 DEF ExecOwnsRunning, Unfinished
    <3> QED BY <1>3, <1>5, <2>2, <3>1 DEF ExecWithinRecord, IsSync, Grows
  <2> QED BY <2>1, <2>2
<1>8. \A u \in TaskIds : exec'[u].phase # "none" =>
          exec[u].phase # "none" /\ tasks'[u].status = "running"
  BY <1>1, <1>2, <1>3 DEF ExecOwnsRunning, Unfinished, Grows
<1> QED BY <1>1, <1>3, <1>5, <1>6, <1>7, <1>8

LEMMA CompleteTaskKeeps ==
    ASSUME IInv, NEW t \in TaskIds, CompleteTask(t)
    PROVE  IInv'
<1> USE DEF IInv
<1>1. /\ exec[t].phase = "working" /\ TQ!EndTask(t, "completed")
      /\ exec' = [exec EXCEPT ![t] = TQ!NoExec]
      /\ reading' = [reading EXCEPT ![t] = NotReading]
      /\ UNCHANGED <<owed, nextId, spoolVars, now, policy, up, worker, buffer>>
  BY DEF CompleteTask, TQ!CompleteStep, execOnly
<1>2. /\ QueueTyped' /\ TaskSlotsFree' /\ NoTaskStarted /\ ExecWithinRecord'
      /\ reading' \in [TaskIds -> [paths : SUBSET Paths, excluded : SUBSET Paths]]
      /\ \A u \in TaskIds : u # t => exec'[u] = exec[u]
      /\ \A u \in TaskIds : u # t /\ Unfinished(u) => Grows(u)
      /\ \A u \in TaskIds : exec'[u].phase # "none" =>
             exec[u].phase # "none" /\ tasks'[u].status = "running"
  <2>1. "completed" \in {"completed", "failed"} /\ exec[t].phase # "none"
    BY <1>1
  <2> QED BY <1>1, <2>1, EndedExecution
<1>3. index' \in [Repos -> SUBSET Paths] /\ stored' \in [Repos -> SUBSET Paths]
  <2>1. CASE IsSync(t)
    <3> DEFINE r == tasks[t].repo
               rows == IF exec[t].mode = "paths" THEN index[r] \cup reading[t].paths
                       ELSE reading[t].paths
    <3>1. /\ index' = [index EXCEPT ![r] = rows]
          /\ stored' = [stored EXCEPT ![r] = FingerprintOf(t)]
      BY <2>1 DEF CompleteTask, DataTyped
    <3>2. r \in Repos
      BY DEF QueueTyped, TasksTyped, TQ!Task
    <3>3. rows \in SUBSET Paths
      BY <3>2 DEF DataTyped
    <3>4. FingerprintOf(t) \in SUBSET Paths
      BY <3>2 DEF FingerprintOf, DataTyped, PolicyTyped
    <3> HIDE DEF rows
    <3> QED BY <3>1, <3>2, <3>3, <3>4 DEF DataTyped
  <2>2. CASE ~IsSync(t)
    BY <2>2 DEF CompleteTask, DataTyped
  <2> QED BY <2>1, <2>2
<1>4. DataTyped'
  BY <1>1, <1>2, <1>3 DEF DataTyped, PolicyTyped
<1>5. NoEditForgotten'
  <2> SUFFICES ASSUME NEW e \in owed' PROVE Covered(e.repo, e.path)'
    BY CoveredNext
  <2>1. Covered(e.repo, e.path)
    BY <1>1, CoveredMeans
  <2>2. CASE e.path \in policy[e.repo] \cup buffer[e.repo]
    BY <1>1, <2>2 DEF Covered
  <2>3. CASE \E j \in JobIds : JobCovers(j, e.repo, e.path)
    BY <1>1, <2>3 DEF Covered, JobCovers, spoolVars
  <2>4. ASSUME NEW u \in TaskIds, TaskCovers(u, e.repo, e.path)
        PROVE  TaskCovers(u, e.repo, e.path)'
    <3>1. u # t
      BY <1>1, <2>4 DEF TaskCovers, ExecOwnsRunning
    <3> QED BY <1>2, <2>4, <3>1, TaskCoverStays
  <2> QED BY <2>1, <2>2, <2>3, <2>4 DEF Covered
<1> QED BY <1>1, <1>2, <1>4, <1>5, ExecutionKeeps

LEMMA FailTaskKeeps ==
    ASSUME IInv, NEW t \in TaskIds, FailTask(t)
    PROVE  IInv'
<1> USE DEF IInv
<1>1. /\ exec[t].phase # "none" /\ TQ!EndTask(t, "failed")
      /\ exec' = [exec EXCEPT ![t] = TQ!NoExec]
      /\ reading' = [reading EXCEPT ![t] = NotReading]
      /\ owed' = IF IsSync(t) /\ exec[t].phase = "started"
                 THEN owed \ Entry(tasks[t].repo, Targets(exec[t].mode, exec[t].paths))
                 ELSE owed
      /\ UNCHANGED <<index, stored, nextId, spoolVars, now, policy, up, worker, buffer>>
  BY DEF FailTask, TQ!FailStep, execOnly
<1>2. /\ QueueTyped' /\ TaskSlotsFree' /\ NoTaskStarted /\ ExecWithinRecord'
      /\ reading' \in [TaskIds -> [paths : SUBSET Paths, excluded : SUBSET Paths]]
      /\ \A u \in TaskIds : u # t => exec'[u] = exec[u]
      /\ \A u \in TaskIds : u # t /\ Unfinished(u) => Grows(u)
      /\ \A u \in TaskIds : exec'[u].phase # "none" =>
             exec[u].phase # "none" /\ tasks'[u].status = "running"
  <2>1. "failed" \in {"completed", "failed"}
    OBVIOUS
  <2> QED BY <1>1, <2>1, EndedExecution
<1>3. DataTyped'
  BY <1>1, <1>2 DEF DataTyped, PolicyTyped
<1>4. NoEditForgotten'
  <2> SUFFICES ASSUME NEW e \in owed' PROVE Covered(e.repo, e.path)'
    BY CoveredNext
  <2>1. e \in owed /\ e \in [repo : Repos, path : Paths] /\ Covered(e.repo, e.path)
    BY <1>1, CoveredMeans DEF DataTyped
  <2>2. CASE e.path \in policy[e.repo] \cup buffer[e.repo]
    BY <1>1, <2>2 DEF Covered
  <2>3. CASE \E j \in JobIds : JobCovers(j, e.repo, e.path)
    BY <1>1, <2>3 DEF Covered, JobCovers, spoolVars
  <2>4. ASSUME NEW u \in TaskIds, TaskCovers(u, e.repo, e.path)
        PROVE  TaskCovers(u, e.repo, e.path)'
    <3>1. CASE u = t
      <4>1. /\ IsSync(t) /\ exec[t].phase = "started" /\ tasks[t].repo = e.repo
            /\ e.path \in Targets(exec[t].mode, exec[t].paths)
        BY <1>1, <2>4, <3>1 DEF TaskCovers, ExecOwnsRunning
      <4>2. e \in Entry(tasks[t].repo, Targets(exec[t].mode, exec[t].paths))
        BY <2>1, <4>1 DEF Entry
      <4> QED BY <1>1, <4>1, <4>2
    <3>2. CASE u # t
      BY <1>2, <2>4, <3>2, TaskCoverStays
    <3> QED BY <3>1, <3>2
  <2> QED BY <2>1, <2>2, <2>3, <2>4 DEF Covered
<1> QED BY <1>1, <1>2, <1>3, <1>4, ExecutionKeeps

\* A record names all that its execution was to read, or has read in vain.
LEMMA RecordCovers ==
    ASSUME IInv, NEW t \in TaskIds, NEW r, NEW p,
           TaskCovers(t, r, p) \/ (tasks[t].repo = r /\ p \in reading[t].paths)
    PROVE  /\ Unfinished(t) /\ tasks[t].repo = r /\ tasks[t].kind = "sync"
           /\ p \in Targets(tasks[t].mode, tasks[t].paths)
<1> USE DEF IInv
<1>1. CASE TaskCovers(t, r, p)
  <2>1. CASE exec[t].phase = "started" /\ p \in Targets(exec[t].mode, exec[t].paths)
    BY <1>1, <2>1 DEF TaskCovers, ExecOwnsRunning, ExecWithinRecord, Unfinished, IsSync
  <2> QED BY <1>1, <2>1 DEF TaskCovers, Unfinished, IsSync
<1>2. CASE tasks[t].repo = r /\ p \in reading[t].paths
  <2>1. exec[t].phase = "working" /\ tasks[t].kind = "sync"
    BY <1>2 DEF ExecWithinRecord, IsSync
  <2> QED BY <1>2, <2>1 DEF ExecWithinRecord, ExecOwnsRunning, Unfinished, IsSync
<1> QED BY <1>1, <1>2

\* The executions of S are gone; what they read is owed again, and their
\* records, which stay, cover it.
LEMMA ForgetKeeps ==
    ASSUME IInv, NEW S \in SUBSET TaskIds, Forget(S),
           \A u \in S : /\ exec'[u] = TQ!NoExec
                        /\ Unfinished(u) => /\ tasks'[u].status \in {"queued", "running"}
                                            /\ tasks'[u].repo = tasks[u].repo
                                            /\ tasks'[u].kind = tasks[u].kind
                                            /\ tasks'[u].mode = tasks[u].mode
                                            /\ tasks'[u].paths = tasks[u].paths,
           \A u \in TaskIds \ S : exec'[u] = exec[u] /\ (Unfinished(u) => Grows(u)),
           \A j \in JobIds : runner'[j].phase = "done" => runner[j].phase = "done",
           UNCHANGED <<jobs, policy, buffer, index, stored>>
    PROVE  DataTyped' /\ ExecWithinRecord' /\ NoEditForgotten'
<1> USE DEF IInv
<1>1. /\ reading' = [t \in TaskIds |-> IF t \in S THEN NotReading ELSE reading[t]]
      /\ owed' = owed \cup UNION {Entry(tasks[t].repo, reading[t].paths) : t \in S}
  BY DEF Forget
<1>2. /\ \A u \in S : reading'[u].paths = {}
      /\ \A u \in TaskIds \ S : reading'[u] = reading[u]
      /\ reading' \in [TaskIds -> [paths : SUBSET Paths, excluded : SUBSET Paths]]
  BY <1>1 DEF NotReading, DataTyped
<1>3. TQ!NoExec.phase = "none"
  BY DEF TQ!NoExec
<1>4. owed' \subseteq [repo : Repos, path : Paths]
  <2>1. ASSUME NEW t \in S
        PROVE  Entry(tasks[t].repo, reading[t].paths) \subseteq [repo : Repos, path : Paths]
    BY <2>1 DEF Entry, DataTyped, QueueTyped, TasksTyped, TQ!Task
  <2> QED BY <1>1, <2>1 DEF DataTyped
<1>5. DataTyped'
  BY <1>2, <1>4 DEF DataTyped, PolicyTyped
<1>6. ExecWithinRecord'
  <2> SUFFICES ASSUME NEW u \in TaskIds
               PROVE  /\ (exec'[u].phase # "none" /\ tasks'[u].kind = "sync") =>
                           /\ Targets(exec'[u].mode, exec'[u].paths)
                                \subseteq Targets(tasks'[u].mode, tasks'[u].paths)
                           /\ reading'[u].paths \subseteq Targets(tasks'[u].mode, tasks'[u].paths)
                      /\ reading'[u].paths # {} =>
                           exec'[u].phase = "working" /\ tasks'[u].kind = "sync"
    BY DEF ExecWithinRecord, IsSync
  <2>1. CASE u \in S
    BY <1>2, <1>3, <2>1
  <2>2. CASE u \notin S
    <3>1. exec[u].phase # "none" => Grows(u)
      BY <2>2 DEF ExecOwnsRunning, Unfinished
    <3> QED BY <1>2, <2>2, <3>1 DEF ExecWithinRecord, IsSync, Grows
  <2> QED BY <2>1, <2>2
<1>7. ASSUME NEW t \in S, NEW r, NEW p,
             TaskCovers(t, r, p) \/ (tasks[t].repo = r /\ p \in reading[t].paths)
      PROVE  TaskCovers(t, r, p)'
  <2>1. /\ Unfinished(t) /\ tasks[t].repo = r /\ tasks[t].kind = "sync"
        /\ p \in Targets(tasks[t].mode, tasks[t].paths)
    BY <1>7, RecordCovers
  <2> QED BY <1>3, <2>1 DEF TaskCovers, IsSync
<1>8. NoEditForgotten'
  <2> SUFFICES ASSUME NEW e \in owed' PROVE Covered(e.repo, e.path)'
    BY CoveredNext
  <2>1. CASE e \in UNION {Entry(tasks[t].repo, reading[t].paths) : t \in S}
    <3>1. PICK t \in S : e \in Entry(tasks[t].repo, reading[t].paths)
      BY <2>1
    <3>2. tasks[t].repo = e.repo /\ e.path \in reading[t].paths
      BY <3>1 DEF Entry
    <3>3. TaskCovers(t, e.repo, e.path)'
      BY <1>7, <3>2
    <3> QED BY <3>3 DEF Covered
  <2>2. CASE e \in owed
    <3>1. Covered(e.repo, e.path)
      BY <2>2, CoveredMeans
    <3>2. CASE e.path \in policy[e.repo] \cup buffer[e.repo]
      BY <3>2 DEF Covered
    <3>3. CASE \E j \in JobIds : JobCovers(j, e.repo, e.path)
      BY <3>3 DEF Covered, JobCovers
    <3>4. ASSUME NEW u \in TaskIds, TaskCovers(u, e.repo, e.path)
          PROVE  TaskCovers(u, e.repo, e.path)'
      <4>1. CASE u \in S
        BY <1>7, <3>4, <4>1
      <4>2. CASE u \notin S
        BY <3>4, <4>2, TaskCoverStays
      <4> QED BY <4>1, <4>2
    <3> QED BY <3>1, <3>2, <3>3, <3>4 DEF Covered
  <2> QED BY <1>1, <2>1, <2>2
<1> QED BY <1>5, <1>6, <1>8

LEMMA RequeueTaskKeeps ==
    ASSUME IInv, NEW t \in TaskIds, RequeueTask(t)
    PROVE  IInv'
<1> USE DEF IInv
<1>1. /\ exec[t].phase # "none" /\ TQ!RequeueStep(t) /\ Forget({t})
      /\ exec' = [exec EXCEPT ![t] = TQ!NoExec]
      /\ UNCHANGED <<endings, index, stored, nextId, spoolVars, now, policy, up, worker, buffer>>
  BY DEF RequeueTask, TQ!RequeueStep, execOnly
<1>2. Unfinished(t)
  BY <1>1 DEF ExecOwnsRunning, Unfinished
<1>3. /\ TasksTyped' /\ TaskSlotsFree' /\ NoTaskStarted
      /\ \A u \in TaskIds : u # t /\ Unfinished(u) => Grows(u)
      /\ tasks'[t].status = "queued" /\ tasks'[t].repo = tasks[t].repo
      /\ tasks'[t].kind = tasks[t].kind
      /\ tasks'[t].mode = tasks[t].mode /\ tasks'[t].paths = tasks[t].paths
  BY <1>1, <1>2, RequeueEffect DEF QueueTyped
<1>4. TQ!NoExec \in TQ!Exec /\ TQ!NoExec.phase = "none"
  BY DEF TQ!NoExec, TQ!Exec, TQ!Modes
<1>5. /\ exec'[t] = TQ!NoExec
      /\ \A u \in TaskIds : u # t => exec'[u] = exec[u]
      /\ QueueTyped'
  BY <1>1, <1>3, <1>4 DEF QueueTyped
<1>6. DataTyped' /\ ExecWithinRecord' /\ NoEditForgotten'
  <2>1. \A j \in JobIds : runner'[j].phase = "done" => runner[j].phase = "done"
    BY <1>1 DEF spoolVars
  <2>2. UNCHANGED <<jobs, policy, buffer, index, stored>> /\ {t} \in SUBSET TaskIds
    BY <1>1 DEF spoolVars
  <2> QED BY <1>1, <1>3, <1>5, <2>1, <2>2, ForgetKeeps
<1>7. \A u \in TaskIds : exec'[u].phase # "none" =>
          exec[u].phase # "none" /\ tasks'[u].status = "running"
  BY <1>3, <1>4, <1>5 DEF ExecOwnsRunning, Unfinished, Grows
<1> QED BY <1>1, <1>3, <1>5, <1>6, <1>7, ExecutionKeeps

LEMMA AbortTaskKeeps ==
    ASSUME IInv, NEW t \in TaskIds, AbortTask(t)
    PROVE  IInv'
<1> USE DEF IInv
<1>1. /\ exec[t].phase # "none" /\ Forget({t})
      /\ exec' = [exec EXCEPT ![t] = TQ!NoExec]
      /\ UNCHANGED <<tasks, endings, index, stored, nextId, spoolVars, now, policy, up, worker,
                     buffer>>
  BY DEF AbortTask, execOnly
<1>2. /\ TaskSlotsFree' /\ NoTaskStarted /\ \A u \in TaskIds : Grows(u)
  BY <1>1 DEF TaskSlotsFree, NoTaskStarted, Grows
<1>3. TQ!NoExec \in TQ!Exec /\ TQ!NoExec.phase = "none"
  BY DEF TQ!NoExec, TQ!Exec, TQ!Modes
<1>4. /\ exec'[t] = TQ!NoExec
      /\ \A u \in TaskIds : u # t => exec'[u] = exec[u]
      /\ QueueTyped'
  BY <1>1, <1>3 DEF QueueTyped, TasksTyped
<1>5. DataTyped' /\ ExecWithinRecord' /\ NoEditForgotten'
  <2>1. \A j \in JobIds : runner'[j].phase = "done" => runner[j].phase = "done"
    BY <1>1 DEF spoolVars
  <2>2. UNCHANGED <<jobs, policy, buffer, index, stored>> /\ {t} \in SUBSET TaskIds
    BY <1>1 DEF spoolVars
  <2>3. Unfinished(t) => tasks'[t].status \in {"queued", "running"}
    BY <1>1 DEF Unfinished
  <2> QED BY <1>1, <1>2, <1>4, <2>1, <2>2, <2>3, ForgetKeeps
<1>6. \A u \in TaskIds : exec'[u].phase # "none" =>
          exec[u].phase # "none" /\ tasks'[u].status = "running"
  BY <1>1, <1>3, <1>4 DEF ExecOwnsRunning
<1> QED BY <1>1, <1>2, <1>4, <1>5, <1>6, ExecutionKeeps

-----------------------------------------------------------------------------
(* Crash and recovery keep the invariant. *)

LEMMA CrashKeeps ==
    ASSUME IInv, Crash
    PROVE  IInv'
<1> USE DEF IInv
<1>1. /\ ~up'
      /\ exec' = [t \in TaskIds |-> TQ!NoExec]
      /\ runner' = [j \in JobIds |-> PS!NoRunner]
      /\ worker' = [CycleStart EXCEPT !.pc = "recover_tasks"]
      /\ Forget(TaskIds)
      /\ UNCHANGED <<tasks, nextId, endings, jobs, nextJob, now, policy, buffer, index, stored>>
  BY DEF Crash
<1>2. TQ!NoExec \in TQ!Exec /\ TQ!NoExec.phase = "none"
  BY DEF TQ!NoExec, TQ!Exec, TQ!Modes
<1>3. /\ QueueTyped' /\ TaskSlotsFree' /\ NoTaskStarted
      /\ \A t \in TaskIds : Grows(t) /\ exec'[t] = TQ!NoExec
  BY <1>1, <1>2 DEF QueueTyped, TasksTyped, TaskSlotsFree, NoTaskStarted, Grows
<1>4. /\ JobsTyped' /\ JobSlotsFree' /\ LoadsFromProducers' /\ NoJobClaimed
  BY <1>1, SpoolSame DEF SpoolTyped
<1>5. SpoolTyped' /\ \A j \in JobIds : runner'[j].phase = "none"
  BY <1>1, <1>4, NoRunnerTyped DEF SpoolTyped
<1>6. WorkerTyped' /\ worker'.pc \notin {"claim", "start"}
  BY <1>1 DEF WorkerTyped, Crash, CycleStart, Cycle
<1>7. ClaimKnowsTasks' /\ StartKnowsJobs' /\ AdmissionExcludes'
  BY <1>3, <1>4, <1>6, KnowledgeStays, AdmissionStays
<1>8. ExecOwnsRunning' /\ RunnerOwnsRunning'
  BY <1>2, <1>3, <1>5 DEF ExecOwnsRunning, RunnerOwnsRunning
<1>9. DataTyped' /\ ExecWithinRecord' /\ NoEditForgotten'
  <2>1. \A t \in TaskIds : Unfinished(t) => tasks'[t].status \in {"queued", "running"}
    BY <1>1 DEF Unfinished
  <2> QED BY <1>1, <1>3, <1>5, <2>1, ForgetKeeps
<1> QED BY <1>3, <1>4, <1>5, <1>6, <1>7, <1>8, <1>9

\* Every live record is queued again, or stays running with nothing that works
\* on it; either way it covers what it did.
LEMMA RecoverTasksKeeps ==
    ASSUME IInv, RecoverTasks
    PROVE  IInv'
<1> USE DEF IInv
<1>1. /\ ~up
      /\ TQ!RecoverStep \/ UNCHANGED tasks
      /\ worker' = [worker EXCEPT !.pc = "recover_spool"]
      /\ UNCHANGED <<nextId, endings, exec, spoolVars, now, policy, up, buffer, dataVars, owed>>
  BY DEF RecoverTasks
<1>2. /\ TasksTyped' /\ TaskSlotsFree' /\ NoTaskStarted
      /\ \A t \in TaskIds :
           Unfinished(t) =>
             /\ tasks'[t].status \in {"queued", "running"} /\ tasks'[t].repo = tasks[t].repo
             /\ tasks'[t].kind = tasks[t].kind
             /\ tasks'[t].mode = tasks[t].mode /\ tasks'[t].paths = tasks[t].paths
  <2>1. CASE TQ!RecoverStep
    BY <1>1, <2>1, RecoverTasksEffect DEF QueueTyped
  <2>2. CASE UNCHANGED tasks
    BY <1>1, <2>2 DEF QueueTyped, TasksTyped, TaskSlotsFree, NoTaskStarted, Unfinished
  <2> QED BY <1>1, <2>1, <2>2
<1>3. QueueTyped'
  BY <1>1, <1>2 DEF QueueTyped
<1>4. /\ JobsTyped' /\ JobSlotsFree' /\ LoadsFromProducers' /\ NoJobClaimed
      /\ \A j \in JobIds : JobGrows(j)
  BY <1>1, SpoolSame DEF spoolVars, SpoolTyped
<1>5. SpoolTyped' /\ DataTyped'
  BY <1>1, <1>4 DEF spoolVars, SpoolTyped, DataTyped, PolicyTyped, dataVars
<1>6. WorkerTyped' /\ worker'.pc \notin {"claim", "start"}
  BY <1>1 DEF WorkerTyped, Cycle
<1>7. ClaimKnowsTasks' /\ StartKnowsJobs' /\ AdmissionExcludes'
  BY <1>2, <1>4, <1>6, KnowledgeStays, AdmissionStays
<1>8. \A t \in TaskIds : exec[t].phase = "none" /\ reading[t].paths = {}
  BY <1>1 DEF ExecOwnsRunning, ExecWithinRecord
<1>9. ExecOwnsRunning' /\ RunnerOwnsRunning' /\ ExecWithinRecord'
  BY <1>1, <1>8 DEF ExecOwnsRunning, RunnerOwnsRunning, ExecWithinRecord, spoolVars, dataVars
<1>10. NoEditForgotten'
  <2> SUFFICES ASSUME NEW e \in owed' PROVE Covered(e.repo, e.path)'
    BY CoveredNext
  <2>1. Covered(e.repo, e.path)
    BY <1>1, CoveredMeans
  <2>2. CASE e.path \in policy[e.repo] \cup buffer[e.repo]
    BY <1>1, <2>2 DEF Covered
  <2>3. CASE \E j \in JobIds : JobCovers(j, e.repo, e.path)
    BY <1>1, <1>4, <2>3, JobCoverStays DEF Covered, spoolVars
  <2>4. ASSUME NEW t \in TaskIds, TaskCovers(t, e.repo, e.path)
        PROVE  TaskCovers(t, e.repo, e.path)'
    <3>1. /\ Unfinished(t) /\ tasks[t].repo = e.repo /\ tasks[t].kind = "sync"
          /\ e.path \in Targets(tasks[t].mode, tasks[t].paths)
      BY <2>4, RecordCovers
    <3> QED BY <1>1, <1>2, <1>8, <3>1 DEF TaskCovers, IsSync
  <2> QED BY <2>1, <2>2, <2>3, <2>4 DEF Covered
<1> QED BY <1>2, <1>3, <1>4, <1>5, <1>6, <1>7, <1>9, <1>10

LEMMA RecoverSpoolKeeps ==
    ASSUME IInv, RecoverSpool
    PROVE  IInv'
<1> USE DEF IInv
<1>1. /\ ~up /\ up' = TRUE
      /\ PS!RecoverStep \/ UNCHANGED jobs
      /\ worker' = CycleStart
      /\ UNCHANGED <<queueVars, nextJob, runner, now, policy, buffer, dataVars, owed>>
  BY DEF RecoverSpool
<1>2. /\ JobsTyped' /\ JobSlotsFree' /\ LoadsFromProducers' /\ NoJobClaimed
      /\ \A j \in JobIds : Kept(j) => LosesExcluded(j)
  <2>1. CASE PS!RecoverStep
    <3>1. /\ JobsTyped' /\ JobSlotsFree' /\ LoadsFromProducers'
          /\ \A j \in JobIds : jobs'[j].status # "running"
          /\ \A j \in JobIds : Kept(j) => LosesExcluded(j)
      BY <1>1, <2>1, RecoverSpoolEffect DEF SpoolTyped, DataTyped
    <3> QED BY <3>1 DEF NoJobClaimed
  <2>2. CASE UNCHANGED jobs
    <3>1. \A j \in JobIds : Kept(j) => LosesExcluded(j)
      BY <2>2 DEF Kept, LosesExcluded
    <3> QED BY <1>1, <2>2, <3>1, SpoolSame DEF SpoolTyped
  <2> QED BY <1>1, <2>1, <2>2
<1>3. /\ QueueTyped' /\ TaskSlotsFree' /\ NoTaskStarted
      /\ \A t \in TaskIds : Grows(t)
  BY <1>1, QueueSame
<1>4. SpoolTyped' /\ DataTyped'
  BY <1>1, <1>2 DEF SpoolTyped, DataTyped, PolicyTyped, dataVars
<1>5. WorkerTyped' /\ worker'.pc \notin {"claim", "start"}
  BY <1>1 DEF WorkerTyped, Cycle, CycleStart
<1>6. ClaimKnowsTasks' /\ StartKnowsJobs' /\ AdmissionExcludes'
  BY <1>2, <1>3, <1>5, KnowledgeStays, AdmissionStays
<1>7. /\ \A t \in TaskIds : exec[t].phase = "none" /\ reading[t].paths = {}
      /\ \A j \in JobIds : runner[j].phase = "none"
  BY <1>1 DEF ExecOwnsRunning, ExecWithinRecord, RunnerOwnsRunning
<1>8. ExecOwnsRunning' /\ RunnerOwnsRunning' /\ ExecWithinRecord'
  BY <1>1, <1>7
     DEF ExecOwnsRunning, RunnerOwnsRunning, ExecWithinRecord, queueVars, dataVars
<1>9. NoEditForgotten'
  <2> SUFFICES ASSUME NEW e \in owed' PROVE Covered(e.repo, e.path)'
    BY CoveredNext
  <2>1. Covered(e.repo, e.path)
    BY <1>1, CoveredMeans
  <2>2. CASE e.path \in policy[e.repo] \cup buffer[e.repo]
    BY <1>1, <2>2 DEF Covered
  <2>3. ASSUME NEW j \in JobIds, JobCovers(j, e.repo, e.path), e.path \notin policy[e.repo]
        PROVE  JobCovers(j, e.repo, e.path)'
    <3>1. /\ jobs[j].load.repo = e.repo
          /\ e.path \in LoadTargets(jobs[j].load)
          /\ Kept(j)
      BY <2>3, JobCoversMeans DEF Kept
    <3>2. /\ jobs'[j].status # "absent"
          /\ jobs'[j].load.repo = e.repo
          /\ e.path \in LoadTargets(jobs'[j].load)
      BY <1>2, <2>3, <3>1 DEF LosesExcluded
    <3>3. jobs'[j].status \in {"pending", "running"} /\ runner'[j].phase # "done"
      BY <1>1, <1>2, <1>7, <3>2 DEF JobsTyped, PS!Row
    <3> QED BY <3>2, <3>3 DEF JobCovers, LoadTargets
  <2>4. CASE \E t \in TaskIds : TaskCovers(t, e.repo, e.path)
    BY <1>1, <1>3, <2>4, TaskCoverStays DEF Covered, queueVars
  <2> QED BY <2>1, <2>2, <2>3, <2>4 DEF Covered
<1> QED BY <1>2, <1>3, <1>4, <1>5, <1>6, <1>8, <1>9

-----------------------------------------------------------------------------
(* The invariant is inductive. *)

LEMMA InitIInv == Init => IInv
<1> SUFFICES ASSUME Init PROVE IInv
  OBVIOUS
<1> USE DEF Init
<1>1. TQ!NoExec \in TQ!Exec /\ TQ!NoExec.phase = "none"
  BY DEF TQ!NoExec, TQ!Exec, TQ!Modes
<1>2. QueueTyped /\ TaskSlotsFree /\ \A t \in TaskIds : tasks[t].status = "absent"
  BY <1>1, NoTaskTyped DEF QueueTyped, TasksTyped, TaskSlotsFree
<1>3. SpoolTyped /\ JobSlotsFree /\ \A j \in JobIds : jobs[j].status = "absent"
  BY NoRowTyped, NoRunnerTyped DEF SpoolTyped, JobsTyped, JobSlotsFree
<1>4. DataTyped
  BY DEF DataTyped, PolicyTyped, NotReading
<1>5. WorkerTyped /\ worker.pc = "check"
  BY DEF WorkerTyped, Cycle, CycleStart
<1>6. ExecOwnsRunning /\ RunnerOwnsRunning /\ ExecWithinRecord
  BY <1>1, NoRunnerTyped DEF ExecOwnsRunning, RunnerOwnsRunning, ExecWithinRecord, NotReading
<1>7. ClaimKnowsTasks /\ StartKnowsJobs /\ AdmissionExcludes /\ LoadsFromProducers
  BY <1>3, <1>5 DEF ClaimKnowsTasks, StartKnowsJobs, AdmissionExcludes, LoadsFromProducers
<1>8. NoEditForgotten
  BY DEF NoEditForgotten
<1> QED BY <1>2, <1>3, <1>4, <1>5, <1>6, <1>7, <1>8 DEF IInv

LEMMA StutterKeeps ==
    ASSUME IInv, UNCHANGED vars
    PROVE  IInv'
<1> USE DEF IInv
<1>1. /\ UNCHANGED <<queueVars, workerOnly>> /\ worker' = worker
  BY DEF vars, workerOnly
<1>2. NoTaskStarted /\ NoJobClaimed
  BY <1>1, QueueSame, SpoolSame DEF workerOnly, spoolVars
<1>3. ClaimKnowsTasks' /\ StartKnowsJobs' /\ WorkerTyped'
  BY <1>1, <1>2, KnowledgeStays DEF WorkerTyped, workerOnly
<1> QED BY <1>1, <1>3, ReadingStepKeeps

LEMMA NextIInv == IInv /\ [Next]_vars => IInv'
<1> SUFFICES ASSUME IInv, [Next]_vars PROVE IInv'
  OBVIOUS
<1>1. ASSUME NEW r \in Repos, NEW p \in Paths, EditFile(r, p) PROVE IInv'
  BY <1>1, EditFileKeeps
<1>2. ASSUME NEW r \in Repos, WatcherFlush(r) \/ EditPolicy(r) PROVE IInv'
  BY <1>2, WatcherFlushKeeps, EditPolicyKeeps
<1>3. ASSUME NEW c \in Commits, PostCommit(c) PROVE IInv'
  BY <1>3, PostCommitKeeps
<1>4. ASSUME NEW r \in Repos, NEW mode \in ManualModes, ManualSync(r, mode) PROVE IInv'
  BY <1>4, ManualSyncKeeps
<1>5. CASE WorkerStep
  BY <1>5, ReconcileCheckKeeps, ReconcilePruneKeeps, ReconcilePromoteKeeps, LoadStateKeeps,
     ClaimJobsKeeps, ListRunningSpoolReposKeeps, StartTasksKeeps DEF WorkerStep
<1>6. ASSUME NEW j \in JobIds, RunnerStep(j) PROVE IInv'
  BY <1>6, ProcessOkKeeps, ProcessErrKeeps, SettleJobKeeps, SettleFaultKeeps DEF RunnerStep
<1>7. ASSUME NEW t \in TaskIds, ExecStep(t) PROVE IInv'
  BY <1>7, BeginWorkKeeps, CompleteTaskKeeps, FailTaskKeeps, RequeueTaskKeeps, AbortTaskKeeps
     DEF ExecStep
<1>8. CASE Tick \/ Crash \/ RecoverTasks \/ RecoverSpool
  BY <1>8, TickKeeps, CrashKeeps, RecoverTasksKeeps, RecoverSpoolKeeps
<1>9. CASE UNCHANGED vars
  BY <1>9, StutterKeeps
<1> QED BY <1>1, <1>2, <1>3, <1>4, <1>5, <1>6, <1>7, <1>8, <1>9 DEF Next

LEMMA Invariant == Spec => []IInv
BY InitIInv, NextIInv, PTL DEF Spec

(***************************************************************************)
(* The composition of the two stores with the worker and the producers is  *)
(* well typed in every reachable state.                                    *)
(***************************************************************************)
THEOREM DaemonTyped == Spec => []TypeOK
<1>1. IInv => TypeOK
  BY DEF IInv, QueueTyped, SpoolTyped, DataTyped, WorkerTyped, Cycle, TasksTyped, JobsTyped,
         PolicyTyped, TypeOK
<1> QED BY <1>1, Invariant, PTL

(***************************************************************************)
(* No task runs that a running spool job excludes in its repo, although    *)
(* the claim and the scheduler each decide on what they read earlier, and  *)
(* a crash may come between the recoveries of the two stores.              *)
(***************************************************************************)
THEOREM DaemonAdmissionExcludes == Spec => []AdmissionExcludes
<1>1. IInv => AdmissionExcludes
  BY DEF IInv
<1> QED BY <1>1, Invariant, PTL

(***************************************************************************)
(* A file edit that no sync has read and no policy excused is in the       *)
(* watcher's batch, in a spool row or in a task that will read it, however *)
(* coalescing, pruning, failed statements, requeues and crashes move it    *)
(* between the stores.                                                     *)
(***************************************************************************)
THEOREM DaemonNoEditForgotten == Spec => []NoEditForgotten
<1>1. IInv => NoEditForgotten
  BY DEF IInv
<1> QED BY <1>1, Invariant, PTL
=============================================================================
