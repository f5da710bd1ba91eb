---------------------------- MODULE InitRuntime ----------------------------
(***************************************************************************)
(* One init session: the tasks that `bitloops init` enqueues, the ingest   *)
(* and the follow-up syncs that their completions stage, and the status    *)
(* the session reports and records.                                        *)
(*                                                                         *)
(* Source: daemon/init_runtime/.  Every change of a task is published by   *)
(* the thread that made it, after the queue's lock is released: it calls   *)
(* handle_task_update, which updates the session document, may enqueue a   *)
(* task (and so publishes again, one level deeper) and then writes the new *)
(* task's id into the session.  Each of these is a transaction of its own, *)
(* and the threads of the executions, the worker and the API interleave.   *)
(*                                                                         *)
(* The queue is the one of TaskQueue, kept to what the session sees: the   *)
(* kind and status of its tasks; Cancelled counts as failed, as in the     *)
(* code, and the order in which tasks start is left open.  `work` stands   *)
(* for the current-state consumers and the enrichment of the session; of   *)
(* the progress of the lanes a poll sees whether a selected embedding lane *)
(* is behind.  The lanes of a selected bootstrap are selected.  Wording    *)
(* and warnings are left out.                                              *)
(*                                                                         *)
(* A poll reads the document, the statistics, each task and the lanes one  *)
(* after the other and records the status later, while all this goes on.   *)
(***************************************************************************)
EXTENDS Integers, Sequences, FiniteSets, SequencesExt

CONSTANTS
    Selections,   \* what a session may be asked for
    MaxTasks,     \* bound: tasks of the session
    MaxCalls,     \* bound: handle_task_update calls, nested ones included, and polls at once
    Pollers,      \* bound: polls of the session at once
    MaxUpsets     \* bound: crashes, cancels, requeues, and failed tasks, runs and statements

Bootstraps == {"embeddings", "summary"}
Kinds == {"sync", "ingest"} \cup Bootstraps
Roles == {"initial", "followup", "ingest"} \cup Bootstraps

ASSUME ConstantsAssumption ==
    /\ Selections \subseteq [sync : BOOLEAN, ingest : BOOLEAN, bootstraps : SUBSET Bootstraps]
    /\ \A s \in Selections : s.sync \/ s.ingest
    /\ MaxTasks \in Nat \ {0} /\ MaxCalls \in Nat \ {0} /\ MaxUpsets \in Nat

TaskIds == 1 .. MaxTasks
NoId == 0

\* Threads that change tasks: the execution of each task, the worker loop,
\* which starts and recovers them, and the API, which cancels them.
Worker == MaxTasks + 1
Api == MaxTasks + 2
Threads == TaskIds \cup {Worker, Api}

VARIABLES
    selections,   \* selections of the session
    tasks,        \* the session's task records, by submission order
    starting,     \* start_session: what it still has to do, and the ids it has so far
    session,      \* the InitSessionRecord
    calls,        \* per thread: the handle_task_update calls it is in, innermost last
    work,         \* consumer runs and enrichment of the session
    polls,        \* per poller: what it has read so far
    up,           \* the daemon runs
    fate,         \* history: how each task ended
    covered,      \* history: bootstraps that were ready when a sync's completion was handled
    missed,       \* history: an update of a task never reached the session
    overtaken,    \* history: a completion was recorded from a document that the end of
                  \* the initial sync had overtaken
    upsets        \* how many of them happened

vars == <<selections, tasks, starting, session, calls, work, polls, up, fate, covered, missed,
          overtaken, upsets>>

\* What only polls write.
pollVars == <<polls, overtaken>>

Active == {"queued", "running"}
Ended == {"completed", "failed"}
Task == [kind : Kinds, status : {"absent", "pruned"} \cup Active \cup Ended]
NoTask == [kind |-> "sync", status |-> "absent"]

Steps == {"top", "embeddings", "summary", "store", "over"}

Session == [stored : BOOLEAN, id : [Roles -> TaskIds \cup {NoId}],
            terminal : [Roles -> {"none"} \cup Ended], seq : [Roles -> Nat], next : Nat,
            required : BOOLEAN, status : {"none"} \cup Ended]
NewSession == [stored |-> FALSE, id |-> [r \in Roles |-> NoId],
               terminal |-> [r \in Roles |-> "none"], seq |-> [r \in Roles |-> 0], next |-> 0,
               required |-> FALSE, status |-> "none"]

\* A call: where it is, the task it is about (until the first transaction
\* the published one, then the one it enqueued) and the published status.
Call == [at : {"apply", "stage", "staged", "check", "enqueue", "set"},
         task : TaskIds \cup {NoId}, status : {"none"} \cup Ended]

\* A poll: the document it read and the work it loaded after it; then the
\* status it derived, to be recorded, and whether it read the document before
\* the end of the initial sync was handled.
Poll == [at : {"idle", "stats", "tasks", "record"}, doc : Session,
         work : {"idle", "busy", "failed"}, status : {"none"} \cup Ended, early : BOOLEAN]
NoPoll == [at |-> "idle", doc |-> NewSession, work |-> "idle", status |-> "none", early |-> FALSE]

At(step) == [at |-> step, task |-> NoId, status |-> "none"]

Init ==
    /\ selections \in Selections
    /\ tasks = [t \in TaskIds |-> NoTask]
    /\ starting = [step |-> "top", id |-> NewSession.id]
    /\ session = NewSession
    /\ calls = [th \in Threads |-> <<>>]
    /\ work = "idle"
    /\ polls = [p \in Pollers |-> NoPoll]
    /\ up = TRUE
    /\ fate = [t \in TaskIds |-> "none"]
    /\ covered = {}
    /\ missed = FALSE
    /\ overtaken = FALSE
    /\ upsets = 0

Upset == upsets < MaxUpsets /\ upsets' = upsets + 1
Selected(b) == b \in selections.bootstraps

(***************************************************************************)
(* What a document d says of a role whose task was loaded: the record in   *)
(* the queue, else the terminal snapshot, else the recorded completion.    *)
(* The transactions load the tasks of the document they hold.              *)
(***************************************************************************)
LoadTaskById(t) == IF t = NoId \/ tasks[t].status = "pruned" THEN "none" ELSE tasks[t].status
Loaded(r) == LoadTaskById(session.id[r])

StatusIn(d, loaded, r) ==
    IF loaded # "none" THEN loaded
    ELSE IF d.terminal[r] # "none" THEN d.terminal[r]
    ELSE IF d.seq[r] > 0 THEN "completed" ELSE "none"
Status(r) == StatusIn(session, Loaded(r), r)

LatestSyncIn(d) == Max({d.seq["initial"], d.seq["followup"]})

BootstrapsReady == \A b \in selections.bootstraps : Status(b) = "completed"

\* embeddings_follow_up_pending, summaries_follow_up_pending
NeedsFollowUpIn(d, loaded, b) ==
    /\ d.required /\ Selected(b) /\ StatusIn(d, loaded, b) # "failed"
    /\ d.seq[b] > 0 /\ LatestSyncIn(d) > 0
    /\ d.seq[b] > LatestSyncIn(d)
NeedsFollowUp(b) == NeedsFollowUpIn(session, Loaded(b), b)

SyncTerminal == selections.sync => Status("initial") \in Ended

\* The guards of maybe_enqueue_follow_up_sync.  Slip: a session has one
\* follow-up sync.
FollowUpDueOnce ==
    /\ session.stored /\ session.required /\ SyncTerminal
    /\ \A r \in Roles : Status(r) # "failed"
    /\ session.id["followup"] = NoId
    /\ \E b \in Bootstraps : NeedsFollowUp(b)

FollowUpDue ==
    /\ session.stored /\ session.required /\ SyncTerminal
    /\ \A r \in Roles : Status(r) # "failed"
    /\ Loaded("followup") # "running"
    /\ \E b \in Bootstraps : NeedsFollowUp(b)

(***************************************************************************)
(* The queue's answer: a new task, or the active task it merges with *)
(* (a sync of the session with any active one, an ingest with an active    *)
(* ingest, a bootstrap with none).                                         *)
(***************************************************************************)
Unused == {t \in TaskIds : tasks[t].status = "absent"}
Mergeable(kind) ==
    {t \in TaskIds : kind \notin Bootstraps /\ tasks[t].kind = kind /\ tasks[t].status \in Active}

IsFirst(t, ids) == t \in ids /\ \A u \in ids : t <= u

\* enqueue_with_init_session, answered with task t
EnqueueTask(kind, t) ==
    IF Mergeable(kind) # {}
    THEN IsFirst(t, Mergeable(kind)) /\ UNCHANGED tasks
    ELSE /\ IsFirst(t, Unused)
         /\ tasks' = [tasks EXCEPT ![t] = [kind |-> kind, status |-> "queued"]]

(***************************************************************************)
(* start_session: the session is stored after its tasks are enqueued, so   *)
(* what is published of them before finds no session.                      *)
(***************************************************************************)
NextStep(step) ==
    CASE step = "top" -> "embeddings" [] step = "embeddings" -> "summary"
      [] step = "summary" -> "store" [] OTHER -> "over"

StartRole(step) ==
    CASE step = "top" -> IF selections.sync THEN "initial" ELSE "ingest" [] OTHER -> step

EnqueueInitial ==
    /\ up
    /\ starting.step \in {"top"} \cup Bootstraps
    /\ IF starting.step = "top" \/ Selected(starting.step)
       THEN \E t \in TaskIds :
              LET r == StartRole(starting.step)
              IN /\ EnqueueTask(IF r = "initial" THEN "sync" ELSE r, t)
                 /\ starting' = [step |-> NextStep(starting.step), id |-> [starting.id EXCEPT ![r] = t]]
       ELSE starting' = [starting EXCEPT !.step = NextStep(@)] /\ UNCHANGED tasks
    /\ UNCHANGED <<selections, session, calls, work, pollVars, up, fate, covered, missed, upsets>>

StoreSession ==
    /\ up
    /\ starting.step = "store"
    /\ starting' = [starting EXCEPT !.step = "over"]
    /\ session' = [session EXCEPT !.stored = TRUE, !.id = starting.id]
    /\ UNCHANGED <<selections, tasks, calls, work, pollVars, up, fate, covered, missed, upsets>>

\* A statement of start_session fails: the caller gets the error, no session
\* is stored and the tasks enqueued so far run without one.
StartFault ==
    /\ up
    /\ starting.step # "over"
    /\ Upset
    /\ starting' = [starting EXCEPT !.step = "over"]
    /\ UNCHANGED <<selections, tasks, session, calls, work, pollVars, up, fate, covered, missed>>

(***************************************************************************)
(* Changes of a task; the thread that makes one publishes it next.         *)
(***************************************************************************)
Idle(th) == calls[th] = <<>>
Room == Cardinality(UNION {{th} \X DOMAIN calls[th] : th \in Threads})
        + Cardinality({p \in Pollers : polls[p].at # "idle"}) < MaxCalls

PublishEnd(th, t, status) ==
    /\ Room
    /\ calls' = [calls EXCEPT ![th] = <<[at |-> "apply", task |-> t, status |-> status]>>]

\* Of a record that is not terminal the first transaction notes only the
\* time: the call changes something only if a follow-up sync is due.  If one
\* becomes due later, the call that is then late is one of Progress.
PublishLive(th) ==
    IF FollowUpDue' THEN Room /\ calls' = [calls EXCEPT ![th] = <<At("enqueue")>>]
    ELSE UNCHANGED calls

StartTask(t) ==
    /\ up /\ Idle(Worker)
    /\ tasks[t].status = "queued"
    /\ tasks' = [tasks EXCEPT ![t].status = "running"]
    /\ UNCHANGED <<selections, starting, session, work, pollVars, up, fate, covered, missed, upsets>>
    /\ PublishLive(Worker)

Executing(t) == up /\ Idle(t) /\ tasks[t].status = "running"

\* A progress update of a running task.
Progress(t) ==
    /\ Executing(t)
    /\ FollowUpDue
    /\ UNCHANGED <<selections, tasks, starting, session, work, pollVars, up, fate, covered, missed, upsets>>
    /\ PublishLive(t)

\* A sync hands its diff to the consumers before it is recorded as completed.
FinishTask(t, status) ==
    /\ Executing(t)
    /\ tasks' = [tasks EXCEPT ![t].status = status]
    /\ fate' = [fate EXCEPT ![t] = status]
    /\ \/ UNCHANGED work
       \/ tasks[t].kind = "sync" /\ status = "completed" /\ work # "failed" /\ work' = "busy"
    /\ PublishEnd(t, t, status)
    /\ IF status = "failed" THEN Upset ELSE UNCHANGED upsets
    /\ UNCHANGED <<selections, starting, session, pollVars, up, covered, missed>>

\* requeue_task_after_cancelled_join
RequeueTask(t) ==
    /\ Executing(t)
    /\ Upset
    /\ tasks' = [tasks EXCEPT ![t].status = "queued"]
    /\ UNCHANGED <<selections, starting, session, work, pollVars, up, fate, covered, missed>>
    /\ PublishLive(t)

CancelTask(t) ==
    /\ up /\ Idle(Api)
    /\ tasks[t].status = "queued"
    /\ Upset
    /\ tasks' = [tasks EXCEPT ![t].status = "failed"]
    /\ fate' = [fate EXCEPT ![t] = "failed"]
    /\ PublishEnd(Api, t, "failed")
    /\ UNCHANGED <<selections, starting, session, work, pollVars, up, covered, missed>>

\* Retention: enough other tasks ended after t, and no session without a
\* terminal status lists it.  (The code keeps 64; so many do not end while
\* start_session or a call runs.)
Protected(t) == session.stored /\ session.status = "none" /\ \E r \in Roles : session.id[r] = t

PruneTask(t) ==
    /\ tasks[t].status \in Ended
    /\ up /\ starting.step = "over" /\ \A th \in Threads : Idle(th)
    /\ \A p \in Pollers : polls[p].at = "idle"
    /\ ~Protected(t)
    /\ tasks' = [tasks EXCEPT ![t].status = "pruned"]
    /\ UNCHANGED <<selections, starting, session, calls, work, pollVars, up, fate, covered, missed, upsets>>

(***************************************************************************)
(* handle_task_update.  First transaction: the completion sequence, the    *)
(* terminal snapshot, and what the end of the initial sync asks for.       *)
(***************************************************************************)
Top(th) == Last(calls[th])
RolesOf(t) == IF session.stored THEN {r \in Roles : session.id[r] = t} ELSE {}

\* record_task_terminal_snapshot, record_task_completion_seq: the first role
\* that lists the task; only a follow-up sync is numbered again.
Numbered(r) ==
    \/ r = "ingest"
    \/ r = "followup" /\ session.terminal[r] = "completed"
    \/ r \notin {"ingest", "followup"} /\ session.seq[r] > 0

\* Slip: the number is given without being taken.
RecordWithoutAdvance(r, status) ==
    [session EXCEPT !.terminal[r] = status,
                    !.seq[r] = IF status # "completed" \/ Numbered(r) THEN @ ELSE session.next + 1]

Record(r, status) ==
    LET numbers == status = "completed" /\ ~Numbered(r)
    IN [session EXCEPT !.terminal[r] = status,
                       !.seq[r] = IF numbers THEN session.next + 1 ELSE @,
                       !.next = IF numbers THEN @ + 1 ELSE @]

\* Slip: a follow-up sync is asked for only when no bootstrap is ready.
LateIfNoneReady ==
    selections.bootstraps # {} /\ \A b \in selections.bootstraps : Status(b) # "completed"

\* session_requires_semantic_follow_up and not semantic_bootstraps_ready
BootstrapsLate == selections.bootstraps # {} /\ ~BootstrapsReady

StagesIngest(r, status) ==
    /\ r = "initial" /\ status = "completed"
    /\ selections.ingest /\ session.id["ingest"] = NoId

Goto(th, step) == calls' = [calls EXCEPT ![th][Len(calls[th])] = At(step)]
Return(th) == calls' = [calls EXCEPT ![th] = Front(@)]

Apply(th) ==
    LET c == Top(th)
    IN /\ calls[th] # <<>> /\ c.at = "apply"
       /\ IF RolesOf(c.task) = {}
          THEN /\ Goto(th, "check")
               /\ missed' = (missed \/ (~session.stored /\ c.status = "completed"))
               /\ UNCHANGED <<session, covered>>
          ELSE LET r == CHOOSE r \in RolesOf(c.task) : TRUE
                   late == r = "initial" /\ c.status = "completed" /\ BootstrapsLate
               IN /\ session' = [Record(r, c.status) EXCEPT !.required = @ \/ late]
                  /\ covered' = IF r \in {"initial", "followup"} /\ c.status = "completed"
                                THEN covered \cup {b \in Bootstraps : Status(b) = "completed"}
                                ELSE covered
                  /\ Goto(th, IF StagesIngest(r, c.status) THEN "stage" ELSE "check")
                  /\ UNCHANGED missed
       /\ UNCHANGED <<selections, tasks, starting, work, pollVars, up, fate, upsets>>

\* The enqueue publishes what it changed, in this thread, before it returns:
\* always a new task, a merged one only when its time of update has moved on.
Enqueued(th, t, next) ==
    LET outer == [calls[th] EXCEPT ![Len(calls[th])] = [At(next) EXCEPT !.task = t]]
        nested == FollowUpDue' /\ Room
    IN \/ nested /\ calls' = [calls EXCEPT ![th] = Append(outer, At("enqueue"))]
       \/ (~nested \/ tasks' = tasks) /\ calls' = [calls EXCEPT ![th] = outer]

StageIngest(th) ==
    /\ calls[th] # <<>> /\ Top(th).at = "stage"
    /\ UNCHANGED <<selections, starting, session, work, pollVars, up, fate, covered, missed, upsets>>
    /\ \E t \in TaskIds : EnqueueTask("ingest", t) /\ Enqueued(th, t, "staged")

IngestStaged(th) ==
    /\ calls[th] # <<>> /\ Top(th).at = "staged"
    /\ session' = [session EXCEPT !.id["ingest"] = Top(th).task, !.terminal["ingest"] = "none"]
    /\ Goto(th, "check")
    /\ UNCHANGED <<selections, tasks, starting, work, pollVars, up, fate, covered, missed, upsets>>

(***************************************************************************)
(* maybe_enqueue_follow_up_sync                                            *)
(***************************************************************************)
CheckFollowUp(th) ==
    /\ calls[th] # <<>> /\ Top(th).at = "check"
    /\ IF FollowUpDue THEN Goto(th, "enqueue") ELSE Return(th)
    /\ UNCHANGED <<selections, tasks, starting, session, work, pollVars, up, fate, covered, missed, upsets>>

EnqueueFollowUp(th) ==
    /\ calls[th] # <<>> /\ Top(th).at = "enqueue"
    /\ UNCHANGED <<selections, starting, session, work, pollVars, up, fate, covered, missed, upsets>>
    /\ \E t \in TaskIds : EnqueueTask("sync", t) /\ Enqueued(th, t, "set")

SetFollowUp(th) ==
    /\ calls[th] # <<>> /\ Top(th).at = "set"
    /\ session' = [session EXCEPT !.id["followup"] = Top(th).task, !.terminal["followup"] = "none"]
    /\ Return(th)
    /\ UNCHANGED <<selections, tasks, starting, work, pollVars, up, fate, covered, missed, upsets>>

\* A statement of a call fails; publish_tasks logs it and the caller goes on.
CallFault(th) ==
    /\ calls[th] # <<>>
    /\ Upset
    /\ Return(th)
    /\ missed' = TRUE
    /\ UNCHANGED <<selections, tasks, starting, session, work, pollVars, up, fate, covered>>

(***************************************************************************)
(* current_session_view: the status that a poll derives from what it has   *)
(* read, and records when it is a terminal one.                            *)
(***************************************************************************)
StatusSeen(v, r) == StatusIn(v.doc, v.load[r], r)

\* Slip: the ingest's failure is not looked at.
FatalFailureOfSyncs(v) == v.work = "failed" \/ \E r \in Roles \ {"ingest"} : v.load[r] = "failed"

FatalFailure(v) == v.work = "failed" \/ \E r \in Roles : v.load[r] = "failed"
RemainingWork(v) == v.work = "busy" \/ \E r \in Roles : v.load[r] \in Active

TopLevelTerminal(v) ==
    /\ selections.sync => StatusSeen(v, "initial") \in Ended
    /\ selections.ingest => StatusSeen(v, "ingest") \in Ended
BootstrapsTerminal(v) == \A b \in selections.bootstraps : StatusSeen(v, b) \in Ended

\* ..._bootstrap_outstanding_after_initial_sync
Outstanding(v, b) ==
    /\ Selected(b)
    /\ v.doc.seq["initial"] > 0 /\ v.doc.seq[b] = 0 /\ StatusSeen(v, b) # "failed"

FollowUpPending(v) ==
    /\ v.doc.required
    /\ \/ v.load["followup"] = "running"
       \/ \E b \in Bootstraps : Outstanding(v, b) \/ NeedsFollowUpIn(v.doc, v.load[b], b)

\* A lane waits for its bootstrap also when no follow-up sync is required.
\* behind: a selected embedding lane lacks artefacts and no job is left, nor
\* a failed one.
LaneWaits(v, behind) == behind \/ \E b \in Bootstraps : Outstanding(v, b)

Completed(v, behind) ==
    /\ ~FatalFailure(v)
    /\ TopLevelTerminal(v) /\ BootstrapsTerminal(v)
    /\ ~FollowUpPending(v)
    /\ v.work = "idle"
    /\ ~LaneWaits(v, behind)

Failed(v) == FatalFailure(v) /\ ~RemainingWork(v)

\* The steps of a poll, by the API or in a process of its own (`status`, also
\* while the daemon is down).  One that was not finished failed, or reported
\* a status that is not recorded.
ReadSession(p) ==
    /\ session.stored
    /\ polls[p].at = "idle" /\ Room
    /\ polls' = [polls EXCEPT ![p] = [NoPoll EXCEPT !.at = "stats",
                                                   !.doc = [session EXCEPT !.status = "none"]]]
    /\ UNCHANGED <<selections, tasks, starting, session, calls, work, up, fate, covered, missed,
                   overtaken, upsets>>

Abandon(p) ==
    /\ polls[p].at # "idle"
    /\ polls' = [polls EXCEPT ![p] = NoPoll]
    /\ UNCHANGED <<selections, tasks, starting, session, calls, work, up, fate, covered, missed,
                   overtaken, upsets>>

\* Busy work is not followed on: no status is recorded then.
LoadStats(p) ==
    /\ polls[p].at = "stats" /\ work # "busy"
    /\ polls' = [polls EXCEPT ![p].at = "tasks", ![p].work = work]
    /\ UNCHANGED <<selections, tasks, starting, session, calls, work, up, fate, covered, missed,
                   overtaken, upsets>>

\* The tasks are loaded one after the other.  A status is recorded only when
\* all have ended, which they stay, but for a follow-up sync still queued,
\* and that one counts only beside bootstraps noted in the document: so one
\* step gives what the loads give.  Then come the lanes and the status.
LoadTasks(p) ==
    LET v == [doc |-> polls[p].doc, work |-> polls[p].work,
              load |-> [r \in Roles |-> LoadTaskById(polls[p].doc.id[r])]]
    IN /\ polls[p].at = "tasks"
       /\ \E behind \in BOOLEAN, status \in Ended :
             /\ IF status = "completed" THEN Completed(v, behind) ELSE Failed(v)
             /\ polls' = [polls EXCEPT ![p] = [NoPoll EXCEPT !.at = "record", !.status = status,
                                                             !.early = v.doc.seq["initial"] = 0]]
       /\ UNCHANGED <<selections, tasks, starting, session, calls, work, up, fate, covered, missed,
                      overtaken, upsets>>

\* A later transaction, of the session as it is then.
RecordStatus(p) ==
    LET v == polls[p]
    IN /\ v.at = "record"
       /\ session' = [session EXCEPT !.status = v.status]
       /\ overtaken' = (overtaken \/ (v.status = "completed" /\ v.early /\ session.seq["initial"] > 0))
       /\ polls' = [polls EXCEPT ![p] = NoPoll]
       /\ UNCHANGED <<selections, tasks, starting, calls, work, up, fate, covered, missed, upsets>>

\* External: consumer runs and enrichment of the session drain or fail.
WorkEnds ==
    /\ up /\ work = "busy"
    /\ \/ work' = "idle" /\ UNCHANGED upsets
       \/ work' = "failed" /\ Upset
    /\ UNCHANGED <<selections, tasks, starting, session, calls, pollVars, up, fate, covered, missed>>

Crash ==
    /\ up
    /\ Upset
    /\ up' = FALSE
    /\ missed' = (missed \/ \E th \in Threads : calls[th] # <<>>)
    /\ calls' = [th \in Threads |-> <<>>]
    /\ starting' = [starting EXCEPT !.step = "over"]
    /\ UNCHANGED <<selections, tasks, session, work, pollVars, fate, covered>>

\* recover_running_tasks; what it changed is published by the worker.
Restart ==
    /\ ~up
    /\ up' = TRUE
    /\ tasks' = [t \in TaskIds |-> IF tasks[t].status = "running"
                                    THEN [tasks[t] EXCEPT !.status = "queued"] ELSE tasks[t]]
    /\ UNCHANGED <<selections, starting, session, work, pollVars, fate, covered, missed, upsets>>
    /\ IF tasks' = tasks THEN UNCHANGED calls ELSE PublishLive(Worker)

CallStep(th) ==
    \/ Apply(th) \/ StageIngest(th) \/ IngestStaged(th)
    \/ CheckFollowUp(th) \/ EnqueueFollowUp(th) \/ SetFollowUp(th)

Next ==
    \/ EnqueueInitial \/ StoreSession \/ StartFault
    \/ \E t \in TaskIds : \/ StartTask(t) \/ Progress(t) \/ RequeueTask(t)
                          \/ \E status \in Ended : FinishTask(t, status)
                          \/ CancelTask(t) \/ PruneTask(t)
    \/ \E th \in Threads : CallStep(th) \/ CallFault(th)
    \/ \E p \in Pollers :
          ReadSession(p) \/ Abandon(p) \/ LoadStats(p) \/ LoadTasks(p) \/ RecordStatus(p)
    \/ WorkEnds \/ Crash \/ Restart

Spec == Init /\ [][Next]_vars
-----------------------------------------------------------------------------
(* Properties *)

\* Types; completion numbers are taken from the session's counter.
TypeOK ==
    /\ selections \in Selections
    /\ tasks \in [TaskIds -> Task]
    /\ starting \in [step : Steps, id : [Roles -> TaskIds \cup {NoId}]]
    /\ session \in Session
    /\ \A r \in Roles : session.seq[r] <= session.next
    /\ calls \in [Threads -> Seq(Call)]
    /\ work \in {"idle", "busy", "failed"}
    /\ polls \in [Pollers -> Poll]
    /\ up \in BOOLEAN
    /\ fate \in [TaskIds -> {"none"} \cup Ended]
    /\ covered \subseteq Bootstraps
    /\ missed \in BOOLEAN
    /\ overtaken \in BOOLEAN
    /\ upsets \in 0 .. MaxUpsets

(***************************************************************************)
(* No session is stranded: when no task of it is active and no update is   *)
(* on its way, it reports a terminal status.  In particular every late     *)
(* bootstrap got its follow-up sync and the ingest was staged, whichever   *)
(* threads handled which updates in which order, and although the id of a  *)
(* follow-up sync is stored after the sync may have ended.  The exceptions *)
(* are an update that never reached the session (missed): its call failed, *)
(* a crash took it, or the task ended before start_session stored the      *)
(* session; and a failed follow-up sync whose id was replaced: a call that *)
(* checked before the failure enqueues another, and if that one ends       *)
(* before its id is stored, neither its completion nor the failure shows.  *)
(* And a selected lane that is behind: the rows of artefacts that it lacks *)
(* were pruned or never inserted, and the session waits for as long.       *)
(***************************************************************************)
Quiescent ==
    /\ up /\ starting.step = "over" /\ session.stored
    /\ \A t \in TaskIds : tasks[t].status \notin Active
    /\ \A th \in Threads : Idle(th)
    /\ work # "busy"

ReplacedFailure ==
    \E t \in TaskIds : tasks[t].kind = "sync" /\ fate[t] = "failed" /\ RolesOf(t) = {}

\* What a poll reads while nothing changes.
Fresh == [doc |-> session, work |-> work, load |-> [r \in Roles |-> Loaded(r)]]

NoStrandedSession ==
    Quiescent =>
        \A behind \in BOOLEAN :
            \/ Completed(Fresh, behind) \/ Failed(Fresh) \/ session.status # "none"
            \/ missed \/ ReplacedFailure \/ behind

(***************************************************************************)
(* A session recorded as completed is complete: every task it was asked    *)
(* for has ended as completed.  The exception is a failed task that the    *)
(* queue has dropped: after a failure was recorded the session no longer   *)
(* protects its tasks, and without the record a later poll may find the    *)
(* session completed.                                                      *)
(***************************************************************************)
Forgotten(r) ==
    LET t == session.id[r]
    IN t # NoId /\ fate[t] = "failed" /\ tasks[t].status = "pruned"

AskedFor ==
    selections.bootstraps \cup (IF selections.sync THEN {"initial"} ELSE {})
                          \cup (IF selections.ingest THEN {"ingest"} ELSE {})

CompletedIsTrue ==
    session.status = "completed" =>
        \A r \in AskedFor :
            session.id[r] # NoId /\ (fate[session.id[r]] = "completed" \/ Forgotten(r))

(***************************************************************************)
(* A completed session has indexed with every bootstrap: each one was      *)
(* ready when some sync of the session was handled as completed, or is     *)
(* ready while the completion of the initial sync is still on its way.     *)
(* The exception is a poll that read the document before the end of the    *)
(* initial sync was handled and the tasks after it: it records a           *)
(* completion although a follow-up sync is due.  That sync is still made:  *)
(* when the session is quiescent it has covered the bootstraps, unless a   *)
(* task of the session failed.                                             *)
(***************************************************************************)
StillOwed ==
    /\ overtaken /\ session.required
    /\ ~Quiescent \/ \E t \in TaskIds : fate[t] = "failed"

CompletedCovers ==
    (session.status = "completed" /\ selections.sync) =>
        \/ selections.bootstraps \subseteq covered
        \/ missed \/ \E r \in AskedFor : Forgotten(r)
        \/ \E th \in Threads : \E i \in DOMAIN calls[th] :
              calls[th][i].at = "apply" /\ calls[th][i].task = session.id["initial"]
        \/ StillOwed
=============================================================================
