--------------------------- MODULE TaskQueueProofs ---------------------------
(***************************************************************************)
(* The safety of the DevQL task queue, for any repos, paths, requests and  *)
(* bounds.                                                                 *)
(***************************************************************************)
EXTENDS TaskQueue, TLAPS

\* A live task has a sync mode exactly when it is a sync.
WellFormed ==
    \A t \in TaskIds : IsLive(t) => (tasks[t].kind = "sync" <=> tasks[t].mode # "none")

\* Ids not yet handed out carry nothing.
FreshIds ==
    \A t \in TaskIds : t >= nextId => tasks[t].status = "absent" /\ demand[t] = {}

\* A path sync is not changed under its execution.
PathsUntouched ==
    \A t \in TaskIds : (exec[t].phase # "none" /\ exec[t].mode = "paths") => tasks[t].mode = "paths"

IInv ==
    /\ TypeOK
    /\ FreshIds
    /\ WellFormed
    /\ PathsUntouched
    /\ ExecutionsAreRunning
    /\ OneRunningPerLane
    /\ PolicySyncRunsAlone
    /\ AcceptedWorkStaysCovered
-----------------------------------------------------------------------------
(* The helpers of the queue. *)

\* The empty record and the empty execution have their types.
LEMMA EmptyTyped ==
    NoTask \in Task /\ NoExec \in Exec /\ NoTask.status = "absent" /\ NoExec.phase = "none"
BY ConstantsAssumption DEF NoTask, NoExec, Task, Exec, Kinds, Sources, Modes, Statuses

\* prune_terminal_tasks keeps the type and touches terminal tasks only.
LEMMA PruneKeeps ==
    ASSUME NEW ts \in [TaskIds -> Task]
    PROVE  /\ PruneTerminalTasks(ts) \in [TaskIds -> Task]
           /\ \A t \in TaskIds :
                 \/ PruneTerminalTasks(ts)[t] = ts[t]
                 \/ ts[t].status \in Terminal /\ PruneTerminalTasks(ts)[t] = NoTask
<1>1. \A t \in TaskIds : t \in Prunable(ts) => ts[t].status \in Terminal
  BY DEF Prunable
<1> QED
  BY <1>1, EmptyTyped DEF PruneTerminalTasks

\* merge_sync_modes returns a mode.
LEMMA MergedModeTyped ==
    ASSUME NEW a \in Modes, NEW b \in Modes
    PROVE  MergeSyncModes(a, b) \in Modes
BY DEF MergeSyncModes, Modes, SyncModes

\* A merge keeps repo, kind, commit, session, status and ending of the task.
LEMMA MergedRecordKeeps ==
    ASSUME TypeOK, NEW t \in TaskIds, NEW req \in Requests
    PROVE  /\ MergedRecord(t, req) \in Task
           /\ MergedRecord(t, req).repo = tasks[t].repo
           /\ MergedRecord(t, req).kind = tasks[t].kind
           /\ MergedRecord(t, req).commit = tasks[t].commit
           /\ MergedRecord(t, req).status = tasks[t].status
<1> USE ConstantsAssumption DEF Request
<1>0. tasks[t] \in Task /\ req \in Request
  BY DEF TypeOK
<1>1. MergedMode(t, req) \in Task
  <2>1. MergeSyncModes(tasks[t].mode, req.mode) \in Modes
    BY <1>0, MergedModeTyped DEF Task
  <2> QED
    BY <1>0, <2>1 DEF MergedMode, Task
<1>2. MergedPaths(t, req) \in Task
  BY <1>0 DEF MergedPaths, Task
<1>3. /\ MergedMode(t, req).repo = tasks[t].repo
      /\ MergedMode(t, req).kind = tasks[t].kind
      /\ MergedMode(t, req).commit = tasks[t].commit
      /\ MergedMode(t, req).status = tasks[t].status
  BY <1>0 DEF MergedMode, Task
<1>4. /\ MergedPaths(t, req).repo = tasks[t].repo
      /\ MergedPaths(t, req).kind = tasks[t].kind
      /\ MergedPaths(t, req).commit = tasks[t].commit
      /\ MergedPaths(t, req).status = tasks[t].status
  BY <1>0 DEF MergedPaths, Task
<1> QED
  BY <1>0, <1>1, <1>2, <1>3, <1>4 DEF MergedRecord

\* What coalescing finds is a live task of the request's repo, kind and commit.
LEMMA MergeTargetMatches ==
    ASSUME NEW req \in Requests, NEW t \in MergeTarget(req)
    PROVE  /\ t \in TaskIds
           /\ SameSlot(t, req)
           /\ SameIngest(t, req) \/ Subsumes(t, req) \/ Extends(t, req)
BY DEF MergeTarget, First, SameIngest, Subsumes, Extends, SyncCompatible
-----------------------------------------------------------------------------
(* Two ways a step cannot hurt. *)

\* A step that starts nothing keeps the lanes and the policy barrier.
LEMMA NothingStarts ==
    ASSUME OneRunningPerLane, PolicySyncRunsAlone,
           \A t \in TaskIds : tasks'[t].status = "running" =>
              /\ tasks[t].status = "running"
              /\ tasks'[t].repo = tasks[t].repo
              /\ tasks'[t].kind = tasks[t].kind
              /\ tasks'[t].source = "policy" => tasks[t].source = "policy"
    PROVE  OneRunningPerLane' /\ PolicySyncRunsAlone'
<1>1. OneRunningPerLane'
  BY DEF OneRunningPerLane, SameLane
<1>2. PolicySyncRunsAlone'
  BY DEF PolicySyncRunsAlone, IsPolicySync
<1> QED
  BY <1>1, <1>2

\* A step that revives no task, and gives up no field or unexcluded path of a
\* live one, keeps accepted work covered.
LEMMA NothingWeakened ==
    ASSUME TypeOK, WellFormed, AcceptedWorkStaysCovered,
           \A t \in TaskIds : tasks'[t].status \in Live =>
              /\ tasks[t].status \in Live
              /\ tasks'[t].repo = tasks[t].repo
              /\ tasks'[t].kind = tasks[t].kind
              /\ tasks'[t].commit = tasks[t].commit
              /\ tasks'[t].source = tasks[t].source
              /\ tasks'[t].mode = tasks[t].mode
              /\ tasks[t].paths \subseteq tasks'[t].paths \cup Excludable
              /\ demand'[t] \subseteq demand[t]
    PROVE  WellFormed' /\ AcceptedWorkStaysCovered'
<1>1. WellFormed'
  BY DEF WellFormed, IsLive
<1>2. SUFFICES ASSUME NEW t \in TaskIds, tasks'[t].status \in Live, NEW req \in demand'[t]
               PROVE  Covers(t, req)'
  BY <1>1 DEF AcceptedWorkStaysCovered, IsLive
<1>3. Covers(t, req)
  BY <1>2 DEF AcceptedWorkStaysCovered, IsLive
<1>4. tasks[t].paths \subseteq tasks'[t].paths \cup Excludable
  BY <1>2
<1>5. req.paths \subseteq tasks[t].paths \cup Excludable
         => req.paths \subseteq tasks'[t].paths \cup Excludable
  BY <1>4
<1>6. /\ tasks'[t].repo = tasks[t].repo
      /\ tasks'[t].kind = tasks[t].kind
      /\ tasks'[t].commit = tasks[t].commit
      /\ tasks'[t].source = tasks[t].source
      /\ tasks'[t].mode = tasks[t].mode
  BY <1>2
<1> QED
  BY <1>3, <1>5, <1>6 DEF Covers
-----------------------------------------------------------------------------
(* Every action preserves the invariant. *)

LEMMA InitEstablishes == Init => IInv
<1> SUFFICES ASSUME Init PROVE IInv
  OBVIOUS
<1> USE ConstantsAssumption, EmptyTyped
<1>0. \A t \in TaskIds : tasks[t].status = "absent" /\ exec[t].phase = "none" /\ demand[t] = {}
  BY DEF Init, NoTask, NoExec
<1>1. TypeOK
  BY DEF Init, TypeOK
<1>2. FreshIds /\ WellFormed /\ PathsUntouched /\ ExecutionsAreRunning
  BY <1>0 DEF FreshIds, WellFormed, PathsUntouched, ExecutionsAreRunning, IsLive, Live
<1>3. OneRunningPerLane /\ PolicySyncRunsAlone /\ AcceptedWorkStaysCovered
  BY <1>0 DEF OneRunningPerLane, PolicySyncRunsAlone, AcceptedWorkStaysCovered, IsLive, Live
<1> QED
  BY <1>1, <1>2, <1>3 DEF IInv

\* A step whose new task table is a pruned ts that leaves live tasks as they
\* were or ends them, and whose executions are those of running tasks.
LEMMA QuietStep ==
    ASSUME IInv, NEW ts \in [TaskIds -> Task],
           tasks' = PruneTerminalTasks(ts) \/ tasks' = ts,
           \A t \in TaskIds : ts[t].status \in Live =>
              /\ tasks[t].status \in Live
              /\ ts[t].status = "running" => tasks[t].status = "running"
              /\ ts[t].repo = tasks[t].repo
              /\ ts[t].kind = tasks[t].kind
              /\ ts[t].commit = tasks[t].commit
              /\ ts[t].source = tasks[t].source
              /\ ts[t].mode = tasks[t].mode
              /\ tasks[t].paths \subseteq ts[t].paths \cup Excludable
              /\ demand'[t] \subseteq demand[t],
           \A t \in TaskIds : tasks[t].status = "absent" =>
              ts[t].status = "absent" /\ demand'[t] \subseteq demand[t],
           nextId' = nextId,
           \A t \in TaskIds : exec'[t].phase # "none" =>
              /\ exec[t].phase # "none"
              /\ exec'[t].mode = exec[t].mode
              /\ ts[t].status = "running"
              /\ up'
    PROVE  /\ tasks' \in [TaskIds -> Task]
           /\ FreshIds' /\ WellFormed' /\ PathsUntouched' /\ ExecutionsAreRunning'
           /\ OneRunningPerLane' /\ PolicySyncRunsAlone' /\ AcceptedWorkStaysCovered'
<1>1. /\ tasks' \in [TaskIds -> Task]
      /\ \A t \in TaskIds : tasks'[t] = ts[t] \/ (ts[t].status \in Terminal /\ tasks'[t] = NoTask)
  BY PruneKeeps
<1>2. \A t \in TaskIds : tasks'[t].status \in Live => tasks'[t] = ts[t]
  BY <1>1 DEF NoTask, Live
<1>3. OneRunningPerLane' /\ PolicySyncRunsAlone'
  <2>1. \A t \in TaskIds : tasks'[t].status = "running" =>
              /\ tasks[t].status = "running"
              /\ tasks'[t].repo = tasks[t].repo
              /\ tasks'[t].kind = tasks[t].kind
              /\ tasks'[t].source = "policy" => tasks[t].source = "policy"
    BY <1>2 DEF Live
  <2> QED
    BY <2>1, NothingStarts DEF IInv
<1>4. WellFormed' /\ AcceptedWorkStaysCovered'
  BY <1>2, NothingWeakened DEF IInv
<1>5. FreshIds'
  BY <1>1 DEF IInv, FreshIds, NoTask, Terminal
<1>6. ExecutionsAreRunning'
  BY <1>1 DEF ExecutionsAreRunning, Terminal
<1>7. PathsUntouched'
  BY <1>1 DEF IInv, PathsUntouched, ExecutionsAreRunning, Live, Terminal
<1> QED
  BY <1>1, <1>3, <1>4, <1>5, <1>6, <1>7

\* Covers, of a record.
Includes(rec, req) ==
    /\ req.source = "policy" => rec.source = "policy"
    /\ CASE req.mode = "full"   -> rec.mode \in {"full", "repair"}
         [] req.mode = "auto"   -> rec.mode \in {"auto", "full", "repair"}
         [] req.mode = "paths"  -> \/ rec.mode \in {"auto", "full", "repair"}
                                   \/ /\ rec.mode = "paths"
                                      /\ req.paths \subseteq rec.paths \cup Excludable
         [] OTHER -> rec.mode = req.mode

\* A merge covers the request and everything the task covered before.
LEMMA MergeCovers ==
    ASSUME IInv, NEW req \in Requests, NEW t \in MergeTarget(req),
           NEW old \in demand[t] \cup {req},
           NEW rec, rec = MergedRecord(t, req)
    PROVE  (rec.kind = "sync" <=> rec.mode # "none") /\ Includes(rec, old)
<1> USE DEF Includes
<1>1. /\ t \in TaskIds /\ SameSlot(t, req)
      /\ SameIngest(t, req) \/ Subsumes(t, req) \/ Extends(t, req)
  BY MergeTargetMatches
<1>2. tasks[t] \in Task /\ req \in Request /\ IsLive(t)
  BY <1>1, ConstantsAssumption DEF IInv, TypeOK, SameSlot
<1>3. tasks[t].kind = "sync" <=> tasks[t].mode # "none"
  BY <1>1, <1>2 DEF IInv, WellFormed
<1>4. req.kind = "sync" <=> req.mode # "none"
  BY ConstantsAssumption
<1>5. old \in demand[t] => Covers(t, old)
  BY <1>1, <1>2 DEF IInv, AcceptedWorkStaysCovered
<1>6. tasks[t].mode \in Modes /\ req.mode \in Modes /\ tasks[t].kind = req.kind
  BY <1>1, <1>2 DEF Task, Request, SameSlot
<1>7. CASE SameIngest(t, req)
  <2>1. rec = tasks[t] /\ req.mode = "none" /\ tasks[t].mode = "none"
    BY <1>3, <1>4, <1>6, <1>7 DEF MergedRecord, SameIngest, Subsumes, SyncCompatible
  <2>2. CASE old = req
    BY <2>1, <2>2, <1>3, ConstantsAssumption
  <2>3. CASE old \in demand[t]
    BY <2>1, <2>3, <1>3, <1>5 DEF Covers
  <2> QED
    BY <2>2, <2>3
<1>8. CASE ~SameIngest(t, req) /\ Subsumes(t, req)
  <2>1. rec = MergedMode(t, req)
    BY <1>8 DEF MergedRecord
  <2>2. /\ rec.mode = MergeSyncModes(tasks[t].mode, req.mode)
        /\ rec.kind = tasks[t].kind
        /\ rec.paths = IF rec.mode = "paths" THEN tasks[t].paths ELSE {}
        /\ req.source = "policy" => rec.source = "policy"
        /\ tasks[t].source = "policy" => rec.source = "policy"
    BY <2>1, <1>2 DEF MergedMode, Task
  <2>3. /\ req.mode # "validate"
        /\ \/ tasks[t].mode = "repair" /\ rec.mode = "repair"
           \/ tasks[t].mode \in FullLike /\ req.mode \in WeakerThanRepair
           \/ tasks[t].mode = "paths" /\ req.mode \in StrongerThanPaths
    BY <1>8, <2>2 DEF Subsumes, MergeSyncModes
  <2>4. rec.mode \in {"auto", "full", "repair"}
    BY <2>2, <2>3 DEF MergeSyncModes, FullLike, WeakerThanRepair, StrongerThanPaths
  <2>5. tasks[t].kind = "sync" /\ req.kind = "sync"
    BY <1>6, <1>8 DEF Subsumes, SyncCompatible
  <2>6. CASE old = req
    BY <2>2, <2>3, <2>4, <2>5, <2>6, <1>4, <1>6
       DEF MergeSyncModes, FullLike, WeakerThanRepair, StrongerThanPaths, Modes, SyncModes
  <2>7. CASE old \in demand[t]
    BY <2>2, <2>3, <2>4, <2>5, <2>7, <1>5, <1>6
       DEF Covers, MergeSyncModes, FullLike, WeakerThanRepair, StrongerThanPaths, Modes, SyncModes
  <2> QED
    BY <2>6, <2>7
<1>9. CASE ~SameIngest(t, req) /\ ~Subsumes(t, req) /\ Extends(t, req)
  <2>1. rec = MergedPaths(t, req) /\ req.mode = "paths" /\ tasks[t].mode = "paths"
    BY <1>9 DEF MergedRecord, Extends
  <2>2. /\ rec.mode = "paths" /\ rec.kind = "sync" /\ rec.source = tasks[t].source
        /\ rec.paths = tasks[t].paths \cup req.paths
    BY <2>1, <1>2, <1>3 DEF MergedPaths, Task
  <2>3. CASE old = req
    <3>1. req.source # "policy"
      BY <2>1, ConstantsAssumption
    <3> QED
      BY <2>1, <2>2, <2>3, <3>1
  <2>4. CASE old \in demand[t]
    BY <2>1, <2>2, <2>4, <1>5 DEF Covers
  <2> QED
    BY <2>3, <2>4
<1> QED
  BY <1>1, <1>7, <1>8, <1>9

\* Merging leaves running path syncs, and who is a running policy sync, alone.
LEMMA MergeSparesRunning ==
    ASSUME IInv, NEW req \in Requests, NEW t \in MergeTarget(req),
           tasks[t].status = "running"
    PROVE  /\ tasks[t].mode = "paths" => MergedRecord(t, req).mode = "paths"
           /\ MergedRecord(t, req).source = "policy" => tasks[t].source = "policy"
<1>1. /\ t \in TaskIds
      /\ SameIngest(t, req) \/ Subsumes(t, req) \/ Extends(t, req)
  BY MergeTargetMatches
<1>2. tasks[t] \in Task
  BY <1>1 DEF IInv, TypeOK
<1>3. CASE SameIngest(t, req)
  BY <1>3 DEF MergedRecord, SameIngest, Subsumes, SyncCompatible
<1>4. CASE ~SameIngest(t, req) /\ Subsumes(t, req)
  <2>1. MergedRecord(t, req) = MergedMode(t, req)
    BY <1>4 DEF MergedRecord
  <2>2. req.source # "policy" /\ tasks[t].mode # "paths"
    BY <1>4 DEF Subsumes, FullLike
  <2>3. MergedMode(t, req).source = "policy" => tasks[t].source = "policy"
    BY <1>2, <2>2 DEF MergedMode, Task
  <2> QED
    BY <2>1, <2>2, <2>3
<1>5. CASE ~SameIngest(t, req) /\ ~Subsumes(t, req) /\ Extends(t, req)
  BY <1>5 DEF Extends
<1> QED
  BY <1>1, <1>3, <1>4, <1>5

LEMMA EnqueueStepKeeps ==
    ASSUME IInv, NEW req \in Requests, Enqueue(req)
    PROVE  IInv'
<1>1. PICK t \in TaskIds :
        EnqueueStep(req, t) /\ demand' = [demand EXCEPT ![t] = @ \cup {req}]
  BY DEF Enqueue
<1>2. UNCHANGED <<endings, paused, sessions, exec, up, crashes, faults>>
  BY DEF Enqueue
<1>3. TypeOK /\ req \in Request
  BY ConstantsAssumption DEF IInv
<1>4. CASE t \in MergeTarget(req) /\ tasks' = PruneTerminalTasks([tasks EXCEPT ![t] = MergedRecord(t, req)])
           /\ UNCHANGED nextId
  <2> DEFINE ts == [tasks EXCEPT ![t] = MergedRecord(t, req)]
  <2>1. /\ MergedRecord(t, req) \in Task
        /\ MergedRecord(t, req).repo = tasks[t].repo
        /\ MergedRecord(t, req).kind = tasks[t].kind
        /\ MergedRecord(t, req).commit = tasks[t].commit
        /\ MergedRecord(t, req).status = tasks[t].status
    BY <1>3, MergedRecordKeeps
  <2>2. SameSlot(t, req) /\ tasks[t].status \in Live
    BY <1>4, MergeTargetMatches DEF SameSlot, IsLive
  <2>3. ts \in [TaskIds -> Task]
    BY <1>3, <2>1 DEF TypeOK
  <2>4. /\ ts[t] = MergedRecord(t, req)
        /\ \A u \in TaskIds : u # t => ts[u] = tasks[u]
    BY <1>3 DEF TypeOK
  <2>5. /\ tasks' \in [TaskIds -> Task]
        /\ \A u \in TaskIds : tasks'[u] = ts[u] \/ (ts[u].status \in Terminal /\ tasks'[u] = NoTask)
    BY <1>4, <2>3, PruneKeeps
  <2>6. /\ tasks'[t] = MergedRecord(t, req)
        /\ \A u \in TaskIds : u # t =>
              tasks'[u] = tasks[u] \/ (tasks[u].status \in Terminal /\ tasks'[u] = NoTask)
    BY <2>1, <2>2, <2>4, <2>5 DEF Live, Terminal
  <2>7. demand' \in [TaskIds -> SUBSET Requests]
        /\ demand'[t] = demand[t] \cup {req}
        /\ \A u \in TaskIds : u # t => demand'[u] = demand[u]
    BY <1>1, <1>3 DEF TypeOK
  <2>8. TypeOK'
    BY <1>2, <1>3, <1>4, <2>5, <2>7 DEF TypeOK
  <2>9. FreshIds'
    BY <1>4, <2>1, <2>2, <2>6, <2>7, EmptyTyped DEF IInv, FreshIds, Live, Terminal
  <2>10. WellFormed'
    <3>1. MergedRecord(t, req).kind = "sync" <=> MergedRecord(t, req).mode # "none"
      BY <1>4, MergeCovers
    <3> QED
      BY <2>6, <3>1, EmptyTyped DEF IInv, WellFormed, IsLive, Live
  <2>11. PathsUntouched' /\ ExecutionsAreRunning'
    <3>1. tasks[t].status = "running" /\ tasks[t].mode = "paths" => MergedRecord(t, req).mode = "paths"
      BY <1>4, MergeSparesRunning
    <3> QED
      BY <1>2, <2>1, <2>6, <3>1 DEF IInv, PathsUntouched, ExecutionsAreRunning, Terminal
  <2>12. OneRunningPerLane' /\ PolicySyncRunsAlone'
    <3>1. tasks[t].status = "running" /\ MergedRecord(t, req).source = "policy"
             => tasks[t].source = "policy"
      BY <1>4, MergeSparesRunning
    <3>2. \A u \in TaskIds : tasks'[u].status = "running" =>
              /\ tasks[u].status = "running"
              /\ tasks'[u].repo = tasks[u].repo
              /\ tasks'[u].kind = tasks[u].kind
              /\ tasks'[u].source = "policy" => tasks[u].source = "policy"
      BY <2>1, <2>6, <3>1, EmptyTyped
    <3> QED
      BY <3>2, NothingStarts DEF IInv
  <2>13. AcceptedWorkStaysCovered'
    <3>1. SUFFICES ASSUME NEW u \in TaskIds, tasks'[u].status \in Live, NEW old \in demand'[u]
                   PROVE  Covers(u, old)'
      BY DEF AcceptedWorkStaysCovered, IsLive
    <3>2. CASE u = t
      <4>1. old.repo = tasks[t].repo /\ old.kind = tasks[t].kind /\ old.commit = tasks[t].commit
        BY <2>2, <2>7, <3>1, <3>2
           DEF IInv, AcceptedWorkStaysCovered, Covers, SameSlot, IsLive
      <4> HIDE DEF ts
      <4>2. old \in demand[t] \cup {req}
        BY <2>7, <3>1, <3>2
      <4>3. Includes(MergedRecord(t, req), old)
        BY <1>4, <4>2, MergeCovers
      <4> QED
        BY <2>1, <2>6, <3>2, <4>1, <4>3 DEF Covers, Includes
    <3>3. CASE u # t
      <4>1. tasks'[u] = tasks[u] /\ demand'[u] = demand[u]
        BY <2>6, <2>7, <3>1, <3>3, EmptyTyped DEF Live
      <4>2. Covers(u, old)
        BY <3>1, <4>1 DEF IInv, AcceptedWorkStaysCovered, IsLive
      <4> QED
        BY <4>1, <4>2 DEF Covers
    <3> QED
      BY <3>2, <3>3
  <2> QED
    BY <2>8, <2>9, <2>10, <2>11, <2>12, <2>13 DEF IInv
<1>5. CASE t = nextId /\ tasks' = PruneTerminalTasks([tasks EXCEPT ![t] = NewTask(req)])
           /\ nextId' = nextId + 1
  <2> DEFINE ts == [tasks EXCEPT ![t] = NewTask(req)]
  <2>1. NewTask(req) \in Task /\ NewTask(req).status = "queued"
    BY <1>3 DEF NewTask, Task, Request, Statuses, Live
  <2>2. tasks[t].status = "absent" /\ demand[t] = {}
    BY <1>5, <1>3 DEF IInv, FreshIds, TypeOK, TaskIds
  <2>3. ts \in [TaskIds -> Task]
    BY <1>3, <2>1 DEF TypeOK
  <2>4. /\ tasks' \in [TaskIds -> Task]
        /\ \A u \in TaskIds : tasks'[u] = ts[u] \/ (ts[u].status \in Terminal /\ tasks'[u] = NoTask)
    BY <1>5, <2>3, PruneKeeps
  <2>5. /\ tasks'[t] = NewTask(req)
        /\ \A u \in TaskIds : u # t =>
              tasks'[u] = tasks[u] \/ (tasks[u].status \in Terminal /\ tasks'[u] = NoTask)
    BY <1>3, <2>1, <2>4 DEF TypeOK, Terminal
  <2>6. /\ demand' \in [TaskIds -> SUBSET Requests]
        /\ demand'[t] = {req}
        /\ \A u \in TaskIds : u # t => demand'[u] = demand[u]
    BY <1>1, <1>3, <2>2 DEF TypeOK
  <2>7. TypeOK'
    <3>1. nextId' \in 1 .. (MaxTasks + 1)
      BY <1>3, <1>5, ConstantsAssumption DEF TypeOK, TaskIds
    <3> QED
      BY <1>2, <1>3, <2>4, <2>6, <3>1 DEF TypeOK
  <2>8. FreshIds'
    <3>1. \A u \in TaskIds : u >= nextId' => u # t /\ u >= nextId
      BY <1>3, <1>5, ConstantsAssumption DEF TypeOK, TaskIds
    <3> QED
      BY <2>5, <2>6, <3>1, EmptyTyped DEF IInv, FreshIds, Terminal
  <2>9. WellFormed'
    <3>1. NewTask(req).kind = "sync" <=> NewTask(req).mode # "none"
      BY ConstantsAssumption DEF NewTask
    <3> QED
      BY <2>5, <3>1, EmptyTyped DEF IInv, WellFormed, IsLive, Live
  <2>10. PathsUntouched' /\ ExecutionsAreRunning'
    BY <1>2, <2>2, <2>5 DEF IInv, PathsUntouched, ExecutionsAreRunning, Terminal
  <2>11. OneRunningPerLane' /\ PolicySyncRunsAlone'
    <3>1. \A u \in TaskIds : tasks'[u].status = "running" => tasks'[u] = tasks[u]
      BY <2>1, <2>5, EmptyTyped
    <3> QED
      BY <3>1, NothingStarts DEF IInv
  <2>12. AcceptedWorkStaysCovered'
    <3>1. SUFFICES ASSUME NEW u \in TaskIds, tasks'[u].status \in Live, NEW old \in demand'[u]
                   PROVE  Covers(u, old)'
      BY DEF AcceptedWorkStaysCovered, IsLive
    <3>2. CASE u = t
      BY <2>5, <2>6, <3>1, <3>2 DEF Covers, NewTask
    <3>3. CASE u # t
      <4>1. tasks'[u] = tasks[u] /\ demand'[u] = demand[u]
        BY <2>5, <2>6, <3>1, <3>3, EmptyTyped DEF Live
      <4>2. Covers(u, old)
        BY <3>1, <4>1 DEF IInv, AcceptedWorkStaysCovered, IsLive
      <4> QED
        BY <4>1, <4>2 DEF Covers
    <3> QED
      BY <3>2, <3>3
  <2> QED
    BY <2>7, <2>8, <2>9, <2>10, <2>11, <2>12 DEF IInv
<1> QED
  BY <1>1, <1>4, <1>5 DEF EnqueueStep

\* The order of the pending tasks is antisymmetric.
LEMMA OneFirst ==
    ASSUME NEW t \in TaskIds, NEW u \in TaskIds, SortsBefore(t, u), SortsBefore(u, t)
    PROVE  t = u
<1>1. PendingClass(t) \in Nat /\ PendingClass(u) \in Nat
  BY DEF PendingClass
<1>2. t \in Nat /\ u \in Nat
  BY ConstantsAssumption DEF TaskIds
<1> QED
  BY <1>1, <1>2 DEF SortsBefore

\* schedule_pending_tasks starts at most one task per idle lane, and a policy
\* sync only alone.
LEMMA ScheduleKeeps ==
    ASSUME IInv, NEW blocked \in SUBSET Repos, SchedulePendingTasks(blocked)
    PROVE  IInv'
<1> DEFINE S == NextRunnable(blocked)
           ts == [t \in TaskIds |->
                    IF t \in S THEN [tasks[t] EXCEPT !.status = "running"] ELSE tasks[t]]
<1>1. /\ tasks' = PruneTerminalTasks(ts)
      /\ exec' = [t \in TaskIds |->
                    IF t \in S THEN [phase |-> "started", mode |-> tasks[t].mode,
                                     paths |-> tasks[t].paths]
                    ELSE exec[t]]
      /\ up
      /\ UNCHANGED <<nextId, endings, paused, sessions, up, demand, crashes, faults>>
  BY DEF SchedulePendingTasks, StartTasks
<1>2. TypeOK
  BY DEF IInv
<1>3. \A t \in S : /\ t \in TaskIds
                   /\ Startable(t, blocked)
                   /\ \A u \in TaskIds : (Startable(u, blocked) /\ SameLane(t, u)) => SortsBefore(t, u)
  BY DEF NextRunnable
<1>4. \A t \in S : tasks[t].status = "queued"
  BY <1>3 DEF Startable
<1>5. ts \in [TaskIds -> Task]
  BY <1>2 DEF TypeOK, Task, Statuses, Live
<1>6. \A t \in TaskIds : /\ ts[t].repo = tasks[t].repo
                         /\ ts[t].kind = tasks[t].kind
                         /\ ts[t].source = tasks[t].source
                         /\ ts[t].commit = tasks[t].commit
                         /\ ts[t].mode = tasks[t].mode
                         /\ ts[t].paths = tasks[t].paths
                         /\ ts[t].status = IF t \in S THEN "running" ELSE tasks[t].status
  BY <1>2 DEF TypeOK, Task
<1> HIDE DEF S, ts
<1>7. /\ tasks' \in [TaskIds -> Task]
      /\ \A t \in TaskIds : tasks'[t] = ts[t] \/ (ts[t].status \in Terminal /\ tasks'[t] = NoTask)
  BY <1>1, <1>5, PruneKeeps
<1>8. \A t \in TaskIds : tasks'[t].status \in Live => tasks'[t] = ts[t]
  BY <1>7, EmptyTyped DEF Live
<1>9. TypeOK'
  <2>1. exec' \in [TaskIds -> Exec]
    BY <1>1, <1>2 DEF TypeOK, Exec, Task
  <2> QED
    BY <1>1, <1>2, <1>7, <2>1 DEF TypeOK
<1>10. FreshIds'
  BY <1>1, <1>4, <1>6, <1>7, EmptyTyped DEF IInv, FreshIds, Terminal
<1>11. WellFormed' /\ AcceptedWorkStaysCovered'
  <2>1. \A t \in TaskIds : tasks'[t].status \in Live =>
              /\ tasks[t].status \in Live
              /\ tasks'[t].repo = tasks[t].repo
              /\ tasks'[t].kind = tasks[t].kind
              /\ tasks'[t].commit = tasks[t].commit
              /\ tasks'[t].source = tasks[t].source
              /\ tasks'[t].mode = tasks[t].mode
              /\ tasks[t].paths \subseteq tasks'[t].paths \cup Excludable
              /\ demand'[t] \subseteq demand[t]
    BY <1>1, <1>4, <1>6, <1>8 DEF Live
  <2> QED
    BY <2>1, NothingWeakened DEF IInv
<1>12. PathsUntouched' /\ ExecutionsAreRunning'
  <2>1. \A t \in TaskIds : exec'[t].phase # "none" => ts[t].status = "running"
    BY <1>1, <1>6 DEF IInv, ExecutionsAreRunning
  <2>2. \A t \in TaskIds : exec'[t].phase # "none" => tasks'[t] = ts[t]
    BY <2>1, <1>7 DEF Terminal
  <2>3. \A t \in TaskIds : (exec'[t].phase # "none" /\ exec'[t].mode = "paths") => tasks[t].mode = "paths"
    BY <1>1 DEF IInv, PathsUntouched
  <2> QED
    BY <1>1, <1>6, <2>1, <2>2, <2>3 DEF PathsUntouched, ExecutionsAreRunning
<1>13. \A t \in TaskIds : tasks'[t].status = "running" =>
              /\ t \in S \/ tasks[t].status = "running"
              /\ tasks'[t].repo = tasks[t].repo
              /\ tasks'[t].kind = tasks[t].kind
              /\ tasks'[t].source = tasks[t].source
  BY <1>6, <1>8 DEF Live
<1>14. \A t, u \in TaskIds :
          (/\ t \in S \/ tasks[t].status = "running"
           /\ u \in S \/ tasks[u].status = "running"
           /\ SameLane(t, u)) => t = u
  <2> SUFFICES ASSUME NEW t \in TaskIds, NEW u \in TaskIds,
                      t \in S \/ tasks[t].status = "running",
                      u \in S \/ tasks[u].status = "running",
                      SameLane(t, u)
               PROVE  t = u
    OBVIOUS
  <2>0. SameLane(u, t)
    BY DEF SameLane
  <2>1. CASE t \in S /\ u \in S
    BY <1>3, <2>0, <2>1, OneFirst
  <2>2. CASE t \in S /\ tasks[u].status = "running"
    BY <1>3, <2>2 DEF Startable, LaneRunning
  <2>3. CASE tasks[t].status = "running" /\ u \in S
    BY <1>3, <2>0, <2>3 DEF Startable, LaneRunning
  <2>4. CASE tasks[t].status = "running" /\ tasks[u].status = "running"
    BY <2>4 DEF IInv, OneRunningPerLane
  <2> QED
    BY <2>1, <2>2, <2>3, <2>4
<1>15. OneRunningPerLane'
  <2> SUFFICES ASSUME NEW t \in TaskIds, NEW u \in TaskIds,
                      tasks'[t].status = "running", tasks'[u].status = "running",
                      tasks'[t].repo = tasks'[u].repo, tasks'[t].kind = tasks'[u].kind
               PROVE  t = u
    BY DEF OneRunningPerLane, SameLane
  <2> QED
    BY <1>13, <1>14 DEF SameLane
<1>16. PolicySyncRunsAlone'
  <2>1. SUFFICES ASSUME NEW t \in TaskIds, NEW u \in TaskIds,
                        tasks'[t].status = "running", tasks'[u].status = "running",
                        tasks'[t].kind = "sync", tasks'[t].source = "policy",
                        tasks'[u].repo = tasks'[t].repo
                 PROVE  t = u
    BY DEF PolicySyncRunsAlone, IsPolicySync
  <2>2. /\ t \in S \/ tasks[t].status = "running"
        /\ u \in S \/ tasks[u].status = "running"
        /\ IsPolicySync(t)
        /\ tasks[u].repo = tasks[t].repo
    BY <1>13, <2>1 DEF IsPolicySync
  <2>3. PolicyBlocked(tasks[u].repo)
    BY <1>4, <2>2 DEF PolicyBlocked, IsLive, Live
  <2>4. u \in S => IsPolicySync(u) /\ SameLane(t, u)
    BY <1>3, <2>2, <2>3 DEF Startable, SameLane, IsPolicySync
  <2>5. CASE u \in S
    BY <1>14, <2>2, <2>4, <2>5
  <2>6. CASE u \notin S /\ t \in S
    <3>1. RepoRunning(tasks[t].repo)
      BY <2>2, <2>6 DEF RepoRunning
    <3> QED
      BY <1>3, <2>2, <2>6, <3>1 DEF Startable
  <2>7. CASE u \notin S /\ t \notin S
    BY <2>2, <2>7 DEF IInv, PolicySyncRunsAlone
  <2> QED
    BY <2>5, <2>6, <2>7
<1> QED
  BY <1>9, <1>10, <1>11, <1>12, <1>15, <1>16 DEF IInv

\* The executions: begin, complete, fail, requeue, abort.
LEMMA ExecKeeps ==
    ASSUME IInv, NEW t \in TaskIds, ExecStep(t)
    PROVE  IInv'
<1>1. TypeOK /\ tasks[t] \in Task /\ exec[t] \in Exec
  BY DEF IInv, TypeOK
<1>2. exec[t].phase # "none" /\ tasks[t].status = "running" /\ up
  BY <1>1 DEF IInv, ExecutionsAreRunning, ExecStep, BeginWork, BeginStep, BeginAfterRebuildStep,
              FinishTask, CompleteStep, FailStep, RequeueAfterCancelledJoin, RequeueStep,
              ExecutionAborts
<1>3. CASE BeginWork(t) /\ BeginStep(t)
  <2>1. /\ exec' = [exec EXCEPT ![t].phase = "working"]
        /\ UNCHANGED <<tasks, nextId, endings, paused, sessions, up, demand, crashes, faults>>
    BY <1>3 DEF BeginWork, BeginStep
  <2>2. TypeOK'
    BY <1>1, <2>1 DEF TypeOK, Exec
  <2>3. \A u \in TaskIds : exec'[u].phase # "none" =>
           exec[u].phase # "none" /\ exec'[u].mode = exec[u].mode
    BY <1>1, <1>2, <2>1 DEF TypeOK, Exec
  <2>4. \A u \in TaskIds : exec'[u].phase # "none" => tasks[u].status = "running" /\ up'
    BY <2>1, <2>3 DEF IInv, ExecutionsAreRunning
  <2> QED
    BY <1>1, <2>1, <2>2, <2>3, <2>4, QuietStep DEF IInv, TypeOK
<1>4. CASE BeginWork(t) /\ BeginAfterRebuildStep(t)
  <2> DEFINE ts == [tasks EXCEPT ![t].mode = "repair", ![t].paths = {}]
  <2>1. /\ exec' = [exec EXCEPT ![t] = [phase |-> "working", mode |-> "repair", paths |-> {}]]
        /\ tasks' = PruneTerminalTasks(ts)
        /\ tasks[t].kind = "sync" /\ exec[t].mode = "paths"
        /\ UNCHANGED <<nextId, endings, paused, sessions, up, demand, crashes, faults>>
    BY <1>4 DEF BeginWork, BeginAfterRebuildStep
  <2>2. ts \in [TaskIds -> Task]
    BY <1>1 DEF TypeOK, Task, Modes, SyncModes
  <2>3. /\ \A u \in TaskIds : u # t => ts[u] = tasks[u]
        /\ ts[t].repo = tasks[t].repo /\ ts[t].kind = tasks[t].kind
        /\ ts[t].source = tasks[t].source /\ ts[t].commit = tasks[t].commit
        /\ ts[t].status = "running" /\ ts[t].mode = "repair"
    BY <1>1, <1>2 DEF TypeOK, Task
  <2> HIDE DEF ts
  <2>4. /\ tasks' \in [TaskIds -> Task]
        /\ \A u \in TaskIds : tasks'[u] = ts[u] \/ (ts[u].status \in Terminal /\ tasks'[u] = NoTask)
    BY <2>1, <2>2, PruneKeeps
  <2>5. tasks'[t] = ts[t]
    BY <2>3, <2>4 DEF Terminal
  <2>6. \A u \in TaskIds : tasks'[u].status \in Live => tasks'[u] = ts[u]
    BY <2>4, EmptyTyped DEF Live
  <2>7. /\ exec' \in [TaskIds -> Exec]
        /\ exec'[t].mode = "repair"
        /\ \A u \in TaskIds : u # t => exec'[u] = exec[u]
    BY <1>1, <2>1 DEF TypeOK, Exec, Modes, SyncModes
  <2>8. TypeOK'
    BY <1>1, <2>1, <2>4, <2>7 DEF TypeOK
  <2>9. FreshIds'
    BY <1>2, <2>1, <2>3, <2>4, EmptyTyped DEF IInv, FreshIds, Terminal
  <2>10. WellFormed'
    BY <2>1, <2>3, <2>6 DEF IInv, WellFormed, IsLive, Live
  <2>11. PathsUntouched' /\ ExecutionsAreRunning'
    BY <1>2, <2>1, <2>3, <2>4, <2>5, <2>7 DEF IInv, PathsUntouched, ExecutionsAreRunning, Terminal
  <2>12. OneRunningPerLane' /\ PolicySyncRunsAlone'
    <3>1. \A u \in TaskIds : tasks'[u].status = "running" =>
              /\ tasks[u].status = "running"
              /\ tasks'[u].repo = tasks[u].repo
              /\ tasks'[u].kind = tasks[u].kind
              /\ tasks'[u].source = "policy" => tasks[u].source = "policy"
      BY <1>2, <2>3, <2>6 DEF Live
    <3> QED
      BY <3>1, NothingStarts DEF IInv
  <2>13. AcceptedWorkStaysCovered'
    <3>1. SUFFICES ASSUME NEW u \in TaskIds, tasks'[u].status \in Live, NEW req \in demand[u]
                   PROVE  Covers(u, req)'
      BY <2>1 DEF AcceptedWorkStaysCovered, IsLive
    <3>2. tasks'[u] = ts[u] /\ tasks[u].status \in Live
      BY <1>2, <2>3, <2>6, <3>1 DEF Live
    <3>3. Covers(u, req)
      BY <3>1, <3>2 DEF IInv, AcceptedWorkStaysCovered, IsLive
    <3>4. CASE u = t
      <4>1. tasks[t].mode = "paths"
        BY <1>2, <2>1 DEF IInv, PathsUntouched
      <4>2. req.mode = "paths"
        BY <3>3, <3>4, <4>1 DEF Covers
      <4> QED
        BY <2>3, <3>2, <3>3, <3>4, <4>2 DEF Covers
    <3>5. CASE u # t
      BY <2>3, <3>2, <3>3, <3>5 DEF Covers
    <3> QED
      BY <3>4, <3>5
  <2> QED
    BY <2>8, <2>9, <2>10, <2>11, <2>12, <2>13 DEF IInv
<1>5. CASE FinishTask(t)
  <2>1. PICK status \in {"completed", "failed"} :
          /\ tasks' = PruneTerminalTasks([tasks EXCEPT ![t].status = status, ![t].ended = endings + 1])
          /\ endings' = endings + 1
          /\ exec' = [exec EXCEPT ![t] = NoExec]
          /\ demand' = [demand EXCEPT ![t] = {}]
          /\ UNCHANGED <<nextId, paused, sessions, up, crashes, faults>>
    BY <1>5 DEF FinishTask, CompleteStep, FailStep, EndTask
  <2> DEFINE ts == [tasks EXCEPT ![t].status = status, ![t].ended = endings + 1]
  <2>2. /\ ts \in [TaskIds -> Task]
        /\ ts[t].status = status
        /\ \A u \in TaskIds : u # t => ts[u] = tasks[u]
    BY <1>1, <2>1 DEF TypeOK, Task, Statuses, Terminal
  <2>3. /\ exec' \in [TaskIds -> Exec] /\ exec'[t].phase = "none"
        /\ \A u \in TaskIds : u # t => exec'[u] = exec[u]
        /\ demand' \in [TaskIds -> SUBSET Requests] /\ demand'[t] = {}
        /\ \A u \in TaskIds : u # t => demand'[u] = demand[u]
    BY <1>1, <2>1, EmptyTyped DEF TypeOK
  <2> HIDE DEF ts
  <2>4. \A u \in TaskIds : exec'[u].phase # "none" =>
           /\ exec[u].phase # "none" /\ exec'[u].mode = exec[u].mode
           /\ ts[u].status = "running" /\ up'
    BY <2>1, <2>2, <2>3 DEF IInv, ExecutionsAreRunning
  <2>5. \A u \in TaskIds : ts[u].status \in Live => u # t
    BY <2>2 DEF Live
  <2>6. tasks' = PruneTerminalTasks(ts)
    BY <2>1 DEF ts
  <2>7. \A u \in TaskIds : tasks[u].status = "absent" => u # t
    BY <1>2
  <2>8. endings' \in Nat
    BY <1>1, <2>1 DEF TypeOK
  <2>9. UNCHANGED <<nextId, paused, sessions, up, crashes, faults>>
    BY <2>1
  <2>10. TypeOK' <=> tasks' \in [TaskIds -> Task]
    BY <1>1, <2>3, <2>8, <2>9 DEF TypeOK
  <2>11. \A u \in TaskIds : ts[u].status \in Live => ts[u] = tasks[u] /\ demand'[u] = demand[u]
    BY <2>2, <2>3, <2>5
  <2>12. \A u \in TaskIds : tasks[u].status = "absent" =>
              ts[u].status = "absent" /\ demand'[u] \subseteq demand[u]
    BY <2>2, <2>3, <2>7
  <2> QED
    BY <2>2, <2>4, <2>6, <2>9, <2>10, <2>11, <2>12, QuietStep DEF IInv
<1>6. CASE RequeueAfterCancelledJoin(t)
  <2> DEFINE ts == [tasks EXCEPT ![t].status = "queued"]
  <2>1. /\ tasks' = PruneTerminalTasks(ts)
        /\ exec' = [exec EXCEPT ![t] = NoExec]
        /\ crashes < MaxCrashes /\ crashes' = crashes + 1
        /\ UNCHANGED <<nextId, endings, paused, sessions, up, demand, faults>>
    BY <1>6 DEF RequeueAfterCancelledJoin, RequeueStep
  <2>2. /\ ts \in [TaskIds -> Task]
        /\ ts[t].status = "queued" /\ ts[t].repo = tasks[t].repo /\ ts[t].kind = tasks[t].kind
        /\ ts[t].commit = tasks[t].commit /\ ts[t].source = tasks[t].source
        /\ ts[t].mode = tasks[t].mode /\ ts[t].paths = tasks[t].paths
        /\ \A u \in TaskIds : u # t => ts[u] = tasks[u]
    BY <1>1 DEF TypeOK, Task, Statuses, Live
  <2>3. /\ exec' \in [TaskIds -> Exec] /\ exec'[t].phase = "none"
        /\ \A u \in TaskIds : u # t => exec'[u] = exec[u]
    BY <1>1, <2>1, EmptyTyped DEF TypeOK
  <2> HIDE DEF ts
  <2>4. \A u \in TaskIds : exec'[u].phase # "none" =>
           /\ exec[u].phase # "none" /\ exec'[u].mode = exec[u].mode
           /\ ts[u].status = "running" /\ up'
    BY <2>1, <2>2, <2>3 DEF IInv, ExecutionsAreRunning
  <2>5. crashes' \in 0 .. MaxCrashes
    BY <1>1, <2>1, ConstantsAssumption DEF TypeOK
  <2>6. TypeOK' <=> tasks' \in [TaskIds -> Task]
    BY <1>1, <2>1, <2>3, <2>5 DEF TypeOK
  <2>7. \A u \in TaskIds : ts[u].status \in Live =>
              /\ tasks[u].status \in Live
              /\ ts[u].status = "running" => tasks[u].status = "running"
              /\ ts[u].repo = tasks[u].repo
              /\ ts[u].kind = tasks[u].kind
              /\ ts[u].commit = tasks[u].commit
              /\ ts[u].source = tasks[u].source
              /\ ts[u].mode = tasks[u].mode
              /\ tasks[u].paths \subseteq ts[u].paths \cup Excludable
              /\ demand'[u] \subseteq demand[u]
    BY <1>2, <2>1, <2>2 DEF Live
  <2>8. \A u \in TaskIds : tasks[u].status = "absent" =>
              ts[u].status = "absent" /\ demand'[u] \subseteq demand[u]
    BY <1>2, <2>1, <2>2
  <2> QED
    BY <2>1, <2>2, <2>4, <2>6, <2>7, <2>8, QuietStep DEF IInv
<1>7. CASE ExecutionAborts(t)
  <2>1. /\ exec' = [exec EXCEPT ![t] = NoExec]
        /\ faults < MaxFaults /\ faults' = faults + 1
        /\ UNCHANGED <<tasks, nextId, endings, paused, sessions, up, demand, crashes>>
    BY <1>7 DEF ExecutionAborts
  <2>2. /\ exec' \in [TaskIds -> Exec] /\ exec'[t].phase = "none"
        /\ \A u \in TaskIds : u # t => exec'[u] = exec[u]
    BY <1>1, <2>1, EmptyTyped DEF TypeOK
  <2>3. TypeOK'
    BY <1>1, <2>1, <2>2, ConstantsAssumption DEF TypeOK
  <2>4. \A u \in TaskIds : exec'[u].phase # "none" =>
           /\ exec[u].phase # "none" /\ exec'[u].mode = exec[u].mode
           /\ tasks[u].status = "running" /\ up'
    BY <2>1, <2>2 DEF IInv, ExecutionsAreRunning
  <2> QED
    BY <1>1, <2>1, <2>3, <2>4, QuietStep DEF IInv, TypeOK
<1> QED
  BY <1>3, <1>4, <1>5, <1>6, <1>7 DEF ExecStep, BeginWork

\* cancel_task: only a queued task, which has no execution.
LEMMA CancelKeeps ==
    ASSUME IInv, NEW t \in TaskIds, CancelTask(t)
    PROVE  IInv'
<1> DEFINE ts == [tasks EXCEPT ![t].status = "cancelled", ![t].ended = endings + 1]
<1>1. TypeOK /\ tasks[t].status = "queued"
  BY DEF IInv, CancelTask
<1>2. /\ tasks' = PruneTerminalTasks(ts)
      /\ endings' = endings + 1
      /\ demand' = [demand EXCEPT ![t] = {}]
      /\ UNCHANGED <<nextId, paused, sessions, exec, up, crashes, faults>>
  BY DEF CancelTask, EndTask
<1>3. /\ ts \in [TaskIds -> Task]
      /\ ts[t].status = "cancelled"
      /\ \A u \in TaskIds : u # t => ts[u] = tasks[u]
  <2>1. tasks[t] \in Task /\ endings + 1 \in Nat /\ "cancelled" \in Statuses
    BY <1>1 DEF TypeOK, Statuses, Terminal
  <2>2. [tasks[t] EXCEPT !.status = "cancelled", !.ended = endings + 1] \in Task
    BY <2>1 DEF Task
  <2>3. [tasks[t] EXCEPT !.status = "cancelled", !.ended = endings + 1].status = "cancelled"
    BY <2>1 DEF Task
  <2>4. ts = [tasks EXCEPT ![t] = [tasks[t] EXCEPT !.status = "cancelled", !.ended = endings + 1]]
    BY <1>1, <2>1 DEF TypeOK, Task
  <2> QED
    BY <1>1, <2>2, <2>3, <2>4 DEF TypeOK
<1> HIDE DEF ts
<1>4. /\ demand' \in [TaskIds -> SUBSET Requests] /\ demand'[t] = {}
      /\ \A u \in TaskIds : u # t => demand'[u] = demand[u]
  BY <1>1, <1>2 DEF TypeOK
<1>5. \A u \in TaskIds : exec'[u].phase # "none" =>
         /\ exec[u].phase # "none" /\ exec'[u].mode = exec[u].mode
         /\ ts[u].status = "running" /\ up'
  BY <1>1, <1>2, <1>3 DEF IInv, ExecutionsAreRunning
<1>6. TypeOK' <=> tasks' \in [TaskIds -> Task]
  BY <1>1, <1>2, <1>4 DEF TypeOK
<1>7. \A u \in TaskIds : ts[u].status \in Live => ts[u] = tasks[u] /\ demand'[u] = demand[u]
  BY <1>3, <1>4 DEF Live
<1>8. \A u \in TaskIds : tasks[u].status = "absent" =>
            ts[u].status = "absent" /\ demand'[u] \subseteq demand[u]
  BY <1>1, <1>3, <1>4
<1> QED
  BY <1>2, <1>3, <1>5, <1>6, <1>7, <1>8, QuietStep DEF IInv

\* prune_excluded_path_sync_tasks_for_repo: queued path syncs only, and only
\* paths a policy may exclude.
LEMMA PruneExcludedKeeps ==
    ASSUME IInv, NEW r \in Repos, NEW excluded \in SUBSET Excludable,
           PruneExcludedPathSyncTasks(r, excluded)
    PROVE  IInv'
<1> DEFINE E == Emptied(r, excluded)
           ts == [t \in TaskIds |->
                    IF t \in E
                    THEN [tasks[t] EXCEPT !.paths = {}, !.status = "cancelled",
                                          !.ended = endings + 1]
                    ELSE IF TargetsPaths(t, r)
                    THEN [tasks[t] EXCEPT !.paths = @ \ excluded]
                    ELSE tasks[t]]
<1>1. TypeOK
  BY DEF IInv
<1>2. /\ tasks' = PruneTerminalTasks(ts)
      /\ endings' = IF E = {} THEN endings ELSE endings + 1
      /\ demand' = [t \in TaskIds |-> IF t \in E THEN {} ELSE demand[t]]
      /\ UNCHANGED <<nextId, paused, sessions, exec, up, crashes, faults>>
  BY DEF PruneExcludedPathSyncTasks, PruneExcludedStep
<1>3. \A t \in TaskIds : (t \in E \/ TargetsPaths(t, r)) => tasks[t].status = "queued"
  BY DEF Emptied, TargetsPaths
<1>4. ts \in [TaskIds -> Task]
  <2> SUFFICES ASSUME NEW t \in TaskIds PROVE ts[t] \in Task
    OBVIOUS
  <2>1. tasks[t] \in Task /\ endings + 1 \in Nat /\ "cancelled" \in Statuses
    BY <1>1 DEF TypeOK, Statuses, Terminal
  <2>2. [tasks[t] EXCEPT !.paths = {}, !.status = "cancelled", !.ended = endings + 1] \in Task
    BY <2>1 DEF Task
  <2>3. [tasks[t] EXCEPT !.paths = @ \ excluded] \in Task
    BY <2>1 DEF Task
  <2> QED
    BY <2>1, <2>2, <2>3
<1>5. \A t \in TaskIds :
        /\ t \in E => ts[t].status = "cancelled"
        /\ (t \notin E /\ TargetsPaths(t, r)) =>
              /\ ts[t].repo = tasks[t].repo /\ ts[t].kind = tasks[t].kind
              /\ ts[t].commit = tasks[t].commit /\ ts[t].source = tasks[t].source
              /\ ts[t].mode = tasks[t].mode /\ ts[t].status = tasks[t].status
              /\ ts[t].paths = tasks[t].paths \ excluded
        /\ (t \notin E /\ ~TargetsPaths(t, r)) => ts[t] = tasks[t]
  BY <1>1 DEF TypeOK, Task
<1> HIDE DEF ts, E
<1>6. /\ demand' \in [TaskIds -> SUBSET Requests]
      /\ \A t \in TaskIds : demand'[t] \subseteq demand[t]
  BY <1>1, <1>2 DEF TypeOK
<1>7. \A t \in TaskIds : exec'[t].phase # "none" =>
         /\ exec[t].phase # "none" /\ exec'[t].mode = exec[t].mode
         /\ ts[t].status = "running" /\ up'
  BY <1>2, <1>3, <1>5 DEF IInv, ExecutionsAreRunning
<1>8. TypeOK' <=> tasks' \in [TaskIds -> Task]
  BY <1>1, <1>2, <1>6 DEF TypeOK
<1>9. \A u \in TaskIds : ts[u].status \in Live =>
            /\ tasks[u].status \in Live
            /\ ts[u].status = "running" => tasks[u].status = "running"
            /\ ts[u].repo = tasks[u].repo
            /\ ts[u].kind = tasks[u].kind
            /\ ts[u].commit = tasks[u].commit
            /\ ts[u].source = tasks[u].source
            /\ ts[u].mode = tasks[u].mode
            /\ tasks[u].paths \subseteq ts[u].paths \cup Excludable
            /\ demand'[u] \subseteq demand[u]
  BY <1>5, <1>6 DEF Live
<1>10. \A u \in TaskIds : tasks[u].status = "absent" =>
            ts[u].status = "absent" /\ demand'[u] \subseteq demand[u]
  BY <1>3, <1>5, <1>6
<1> QED
  BY <1>2, <1>4, <1>7, <1>8, <1>9, <1>10, QuietStep DEF IInv

\* pause, resume, the end of an init session, crash and recovery.
LEMMA ControlKeeps ==
    ASSUME IInv,
           \/ \E r \in Repos : PauseRepo(r) \/ ResumeRepo(r)
           \/ \E s \in Sessions : EndSession(s)
           \/ Crash \/ RecoverRunningTasks \/ RecoverFault
    PROVE  IInv'
<1>1. TypeOK
  BY DEF IInv
<1>2. CASE \E r \in Repos : PauseRepo(r) \/ ResumeRepo(r)
  <2>1. /\ tasks' = PruneTerminalTasks(tasks) /\ paused' \subseteq Repos
        /\ UNCHANGED <<nextId, endings, sessions, exec, up, demand, crashes, faults>>
    BY <1>1, <1>2 DEF TypeOK, PauseRepo, ResumeRepo
  <2>2. TypeOK' <=> tasks' \in [TaskIds -> Task]
    BY <1>1, <2>1 DEF TypeOK
  <2>3. \A u \in TaskIds : exec'[u].phase # "none" => tasks[u].status = "running" /\ up'
    BY <2>1 DEF IInv, ExecutionsAreRunning
  <2> QED
    BY <1>1, <2>1, <2>2, <2>3, QuietStep DEF IInv, TypeOK
<1>3. CASE \E s \in Sessions : EndSession(s)
  <2>1. /\ sessions' \subseteq Sessions
        /\ UNCHANGED <<tasks, nextId, endings, paused, exec, up, demand, crashes, faults>>
    BY <1>1, <1>3 DEF TypeOK, EndSession
  <2>2. TypeOK'
    BY <1>1, <2>1 DEF TypeOK
  <2>3. \A u \in TaskIds : exec'[u].phase # "none" => tasks[u].status = "running" /\ up'
    BY <2>1 DEF IInv, ExecutionsAreRunning
  <2> QED
    BY <1>1, <2>1, <2>2, <2>3, QuietStep DEF IInv, TypeOK
<1>4. CASE Crash
  <2>1. /\ \A u \in TaskIds : exec'[u].phase = "none"
        /\ UNCHANGED <<tasks, nextId, demand>>
    BY <1>4, EmptyTyped DEF Crash
  <2>2. TypeOK'
    <3>1. exec' \in [TaskIds -> Exec] /\ up' \in BOOLEAN
      BY <1>4, EmptyTyped DEF Crash
    <3>2. crashes' \in 0 .. MaxCrashes
      BY <1>1, <1>4, ConstantsAssumption DEF TypeOK, Crash
    <3>3. UNCHANGED <<tasks, nextId, endings, paused, sessions, demand, faults>>
      BY <1>4 DEF Crash
    <3> QED
      BY <1>1, <3>1, <3>2, <3>3 DEF TypeOK
  <2> QED
    BY <1>1, <2>1, <2>2, QuietStep DEF IInv, TypeOK
<1>5. CASE RecoverRunningTasks
  <2> DEFINE ts == [t \in TaskIds |->
                      IF tasks[t].status = "running"
                      THEN [tasks[t] EXCEPT !.status = "queued"] ELSE tasks[t]]
  <2>1. /\ tasks' = PruneTerminalTasks(ts) /\ ~up /\ up'
        /\ UNCHANGED <<nextId, endings, paused, sessions, exec, demand, crashes, faults>>
    BY <1>5 DEF RecoverRunningTasks, RecoverStep
  <2>2. \A u \in TaskIds : exec'[u].phase = "none"
    BY <2>1 DEF IInv, ExecutionsAreRunning
  <2>3. ts \in [TaskIds -> Task]
    BY <1>1 DEF TypeOK, Task, Statuses, Live
  <2>4. \A u \in TaskIds :
          /\ tasks[u].status = "running" =>
                /\ ts[u].status = "queued"
                /\ ts[u].repo = tasks[u].repo /\ ts[u].kind = tasks[u].kind
                /\ ts[u].commit = tasks[u].commit /\ ts[u].source = tasks[u].source
                /\ ts[u].mode = tasks[u].mode /\ ts[u].paths = tasks[u].paths
          /\ tasks[u].status # "running" => ts[u] = tasks[u]
    BY <1>1 DEF TypeOK, Task
  <2> HIDE DEF ts
  <2>5. \A u \in TaskIds : ts[u].status \in Live =>
              /\ tasks[u].status \in Live
              /\ ts[u].status = "running" => tasks[u].status = "running"
              /\ ts[u].repo = tasks[u].repo
              /\ ts[u].kind = tasks[u].kind
              /\ ts[u].commit = tasks[u].commit
              /\ ts[u].source = tasks[u].source
              /\ ts[u].mode = tasks[u].mode
              /\ tasks[u].paths \subseteq ts[u].paths \cup Excludable
              /\ demand'[u] \subseteq demand[u]
    BY <2>1, <2>4 DEF Live
  <2>6. \A u \in TaskIds : tasks[u].status = "absent" =>
              ts[u].status = "absent" /\ demand'[u] \subseteq demand[u]
    BY <2>1, <2>4
  <2>7. TypeOK' <=> tasks' \in [TaskIds -> Task]
    BY <1>1, <2>1 DEF TypeOK
  <2> QED
    BY <2>1, <2>2, <2>3, <2>5, <2>6, <2>7, QuietStep DEF IInv
<1>6. CASE RecoverFault
  <2>1. ~up /\ UNCHANGED <<tasks, nextId, exec, demand>>
    BY <1>6 DEF RecoverFault
  <2>2. \A u \in TaskIds : exec'[u].phase = "none"
    BY <2>1 DEF IInv, ExecutionsAreRunning
  <2>3. TypeOK'
    BY <1>1, <1>6, ConstantsAssumption DEF TypeOK, RecoverFault
  <2> QED
    BY <1>1, <2>1, <2>2, <2>3, QuietStep DEF IInv, TypeOK
<1> QED
  BY <1>2, <1>3, <1>4, <1>5, <1>6

\* A step that changes nothing.
LEMMA StutterKeeps ==
    ASSUME IInv, UNCHANGED vars
    PROVE  IInv'
BY DEF IInv, vars, TypeOK, FreshIds, WellFormed, PathsUntouched, ExecutionsAreRunning,
       OneRunningPerLane, PolicySyncRunsAlone, AcceptedWorkStaysCovered, Covers, IsLive,
       IsPolicySync, SameLane
-----------------------------------------------------------------------------
(* The theorems. *)

\* IInv is inductive.
THEOREM QueueInvariant == Spec => []IInv
<1>1. Init => IInv
  BY InitEstablishes
<1>2. IInv /\ [Next]_vars => IInv'
  <2> SUFFICES ASSUME IInv, [Next]_vars PROVE IInv'
    OBVIOUS
  <2>1. CASE \E req \in Requests : Enqueue(req)
    BY <2>1, EnqueueStepKeeps
  <2>2. CASE \E blocked \in SUBSET Repos : SchedulePendingTasks(blocked)
    BY <2>2, ScheduleKeeps
  <2>3. CASE \E t \in TaskIds : ExecStep(t)
    BY <2>3, ExecKeeps
  <2>4. CASE \E t \in TaskIds : CancelTask(t)
    BY <2>4, CancelKeeps
  <2>5. CASE \E r \in Repos, excluded \in SUBSET Excludable : PruneExcludedPathSyncTasks(r, excluded)
    BY <2>5, PruneExcludedKeeps
  <2>6. CASE \/ \E r \in Repos : PauseRepo(r) \/ ResumeRepo(r)
             \/ \E s \in Sessions : EndSession(s)
             \/ Crash \/ RecoverRunningTasks \/ RecoverFault
    BY <2>6, ControlKeeps
  <2>7. CASE UNCHANGED vars
    BY <2>7, StutterKeeps
  <2> QED
    BY <2>1, <2>2, <2>3, <2>4, <2>5, <2>6, <2>7 DEF Next
<1> QED
  BY <1>1, <1>2, PTL DEF Spec

\* Every reachable queue state has its type, for every set of requests.
THEOREM QueueTypeOK == Spec => []TypeOK
<1>1. IInv => TypeOK
  BY DEF IInv
<1> QED
  BY <1>1, QueueInvariant, PTL

\* The scheduler never runs two tasks of one lane.
THEOREM QueueOneRunningPerLane == Spec => []OneRunningPerLane
<1>1. IInv => OneRunningPerLane
  BY DEF IInv
<1> QED
  BY <1>1, QueueInvariant, PTL

\* The policy barrier: a sync that applies a changed policy runs alone.
THEOREM QueuePolicyBarrier == Spec => []PolicySyncRunsAlone
<1>1. IInv => PolicySyncRunsAlone
  BY DEF IInv
<1> QED
  BY <1>1, QueueInvariant, PTL

\* No task that is queued, ended or pruned is still executing.
THEOREM QueueNoOrphanExecution == Spec => []ExecutionsAreRunning
<1>1. IInv => ExecutionsAreRunning
  BY DEF IInv
<1> QED
  BY <1>1, QueueInvariant, PTL

\* Coalescing never weakens work a caller was told is queued.
THEOREM QueueKeepsAcceptedWork == Spec => []AcceptedWorkStaysCovered
<1>1. IInv => AcceptedWorkStaysCovered
  BY DEF IInv
<1> QED
  BY <1>1, QueueInvariant, PTL
=============================================================================
