---------------------------- MODULE ProducerSpool ----------------------------
(***************************************************************************)
(* The repo-local DevQL producer spool: the table that the file watcher    *)
(* and the Git hooks write to from their own processes, and that the       *)
(* daemon claims from, at most one job per repo at a time.                 *)
(*                                                                         *)
(* Source: host/devql/producer_spool/{enqueue,payload,queue,admission}.rs  *)
(* and daemon/tasks/coordinator/worker/spool.rs.                           *)
(*                                                                         *)
(* Enqueue, claim and recovery are BEGIN IMMEDIATE transactions and every  *)
(* other statement is a transaction of its own, so each is one step.  A    *)
(* job's slot is its order of insertion; its job_id is a random UUID, so a *)
(* tie that only job_id breaks is a free choice here.  commit stands for   *)
(* the sha (or, for a pre-push, the hash) that tells two hook jobs apart.  *)
(* Time is in units of one backoff-relevant tick.                          *)
(***************************************************************************)
EXTENDS Integers, FiniteSets

CONSTANTS
    Repos, Paths, Commits,
    NoCommit,      \* a payload that carries no commit
    NoPath,        \* stands for the whole payload of a job without paths
    Productions,   \* the payloads the producers enqueue
    Excludable,    \* paths a policy edit may exclude
    RunningTasks,  \* tasks that may be running when the daemon claims
    Backoff,       \* REQUEUE_BACKOFF_SECS
    MaxJobs,       \* bound: rows ever inserted
    MaxTime,       \* bound: the clock
    MaxCrashes,    \* bound: daemon crashes
    MaxFaults      \* bound: failed statements that are only logged

JobIds == 1 .. MaxJobs
PayloadKinds == {"sync", "ingest", "post_commit", "derivation", "post_merge",
                 "post_merge_sync", "post_merge_ingest", "pre_push"}
TaskKinds == {"sync", "ingest", "embeddings", "summary"}
Sources == {"watcher", "post_commit", "post_merge", "post_checkout", "policy", "hook"}
Modes == {"auto", "full", "paths", "repair", "validate", "none"}

Payload == [repo : Repos, kind : PayloadKinds, source : Sources, mode : Modes,
            paths : SUBSET Paths, commit : Commits \cup {NoCommit}]
RunningTask == [repo : Repos, kind : TaskKinds, policy : BOOLEAN]
\* What the task queue may know of: the commits that have a derivation.
CommitKeys == {[repo |-> load.repo, commit |-> load.commit] :
                  load \in {d \in Productions : d.kind = "derivation"}}

ASSUME SpoolAssumption ==
    /\ Repos # {}
    /\ Productions \subseteq Payload
    /\ RunningTasks \subseteq RunningTask
    /\ NoCommit \notin Commits
    /\ NoPath \notin Paths
    /\ Excludable \subseteq Paths
    /\ Backoff \in Nat /\ MaxJobs \in Nat /\ MaxTime \in Nat
    /\ MaxCrashes \in Nat /\ MaxFaults \in Nat

VARIABLES
    jobs,      \* the table: per slot a payload, its status and its times
    nextJob,   \* the next free slot
    now,       \* the clock
    policy,    \* per repo, the paths its policy file excludes
    runner,    \* per slot, the spawned run_producer_spool_job
    up,        \* the daemon is up
    unserved,  \* history: produced work that no run has taken on
    crashes,   \* how many crashes happened
    faults     \* how many logged failures happened

vars == <<jobs, nextJob, now, policy, runner, up, unserved, crashes, faults>>

\* The spool's key of a payload, and one piece of the work it stands for.
Key == [repo : Repos, kind : PayloadKinds, source : Sources, mode : Modes,
        commit : Commits \cup {NoCommit}]
Item == [key : Key, path : Paths \cup {NoPath}]

Row == [load : Payload, status : {"absent", "pending", "running"},
        avail : Nat, submitted : Nat]
Runner == [phase : {"none", "processing", "done", "failed"}, load : Payload]

AnyPayload == [repo |-> CHOOSE r \in Repos : TRUE, kind |-> "sync", source |-> "watcher",
               mode |-> "none", paths |-> {}, commit |-> NoCommit]
NoRow == [load |-> AnyPayload, status |-> "absent", avail |-> 0, submitted |-> 0]
NoRunner == [phase |-> "none", load |-> AnyPayload]

Init ==
    /\ jobs = [j \in JobIds |-> NoRow]
    /\ nextJob = 1
    /\ now = 0
    /\ policy = [r \in Repos |-> {}]
    /\ runner = [j \in JobIds |-> NoRunner]
    /\ up = TRUE
    /\ unserved = {}
    /\ crashes = 0
    /\ faults = 0

(***************************************************************************)
(* Payloads: payload.rs                                                    *)
(***************************************************************************)
CarriesPaths(load) ==
    \/ load.kind \in {"post_commit", "post_merge", "post_merge_sync"}
    \/ load.kind = "sync" /\ load.mode = "paths"

\* The dedupe_key each enqueue_spooled_* function builds, with the repo.
DedupeKey(load) ==
    [repo |-> load.repo, kind |-> load.kind, source |-> load.source, mode |-> load.mode,
     commit |-> load.commit]

Items(load) ==
    [key : {DedupeKey(load)}, path : IF CarriesPaths(load) THEN load.paths ELSE {NoPath}]

\* merge_pending_payload, for two payloads with the same key
MergePendingPayload(existing, incoming) ==
    IF \/ existing.kind = "sync" /\ existing.mode = "paths"
       \/ existing.kind = "post_merge_sync"
    THEN [incoming EXCEPT !.paths = @ \cup existing.paths]
    ELSE incoming

\* prune_excluded_paths_from_payload: the paths left, and whether any is.
PrunedPaths(load) == IF CarriesPaths(load) THEN load.paths \ policy[load.repo] ELSE load.paths
PrunedAway(load) == CarriesPaths(load) /\ load.paths \subseteq policy[load.repo]

(***************************************************************************)
(* Producers: enqueue.rs                                                   *)
(***************************************************************************)
\* Slip: a running row is refreshed as if it were pending.
DedupedWithRunning(load) ==
    {j \in JobIds : jobs[j].status # "absent" /\ DedupeKey(jobs[j].load) = DedupeKey(load)}

\* Slip: a row in backoff is not refreshed.
PendingDedupedDue(load) ==
    {j \in JobIds : /\ jobs[j].status = "pending" /\ jobs[j].avail <= now
                    /\ DedupeKey(jobs[j].load) = DedupeKey(load)}

\* load_pending_deduped_job
PendingDeduped(load) ==
    {j \in JobIds : jobs[j].status = "pending" /\ DedupeKey(jobs[j].load) = DedupeKey(load)}

\* ORDER BY submitted_at_unix, job_id: a tie is open.
OldestSubmitted(S) == {j \in S : \A k \in S : jobs[j].submitted <= jobs[k].submitted}

\* enqueue_job
EnqueueJobStep(load) ==
    \/ \E j \in OldestSubmitted(PendingDeduped(load)) :
          /\ jobs' = [jobs EXCEPT ![j].load = MergePendingPayload(@, load), ![j].avail = now]
          /\ UNCHANGED nextJob
    \/ /\ PendingDeduped(load) = {}
       /\ nextJob \in JobIds
       /\ jobs' = [jobs EXCEPT ![nextJob] = [load |-> load, status |-> "pending",
                                             avail |-> now, submitted |-> now]]
       /\ nextJob' = nextJob + 1

EnqueueJob(load) ==
    /\ EnqueueJobStep(load)
    /\ unserved' = unserved \cup Items(load)
    /\ UNCHANGED <<now, policy, runner, up, crashes, faults>>

(***************************************************************************)
(* Claim: queue.rs and admission.rs                                        *)
(***************************************************************************)
\* producer_spool_admission_class: the task lanes a payload feeds, or all
\* of them when the daemon does the work inline.
AdmissionKinds(load) ==
    CASE load.kind \in {"sync", "post_commit", "post_merge_sync"} -> {"sync"}
      [] load.kind \in {"ingest", "post_merge_ingest"} -> {"ingest"}
      [] load.kind = "post_merge" -> {"sync", "ingest"}
      [] load.kind \in {"derivation", "pre_push"} -> TaskKinds

\* producer_spool_payload_conflicts_with_running_task
Conflicts(load, task) ==
    task.repo = load.repo /\ (task.policy \/ task.kind \in AdmissionKinds(load))

DerivationIn(load, keys) ==
    load.kind = "derivation" /\ [repo |-> load.repo, commit |-> load.commit] \in keys

RepoHasRunningJob(r) == \E j \in JobIds : jobs[j].status = "running" /\ jobs[j].load.repo = r

\* Rows the claim looks at: pending, due, and left over by the prune.
Due(j, blocked, running) ==
    /\ jobs[j].status = "pending"
    /\ jobs[j].avail <= now
    /\ ~PrunedAway(jobs[j].load)
    /\ jobs[j].load.repo \notin blocked
    /\ \A task \in running : ~Conflicts(jobs[j].load, task)

Abandoned(blocked, running, dropped) ==
    {j \in JobIds : Due(j, blocked, running) /\ DerivationIn(jobs[j].load, dropped)}

\* Slip: the rows already running in the repo are not looked at.
ClaimableBesideRunning(blocked, running, held, dropped) ==
    {j \in JobIds :
        /\ Due(j, blocked, running)
        /\ ~DerivationIn(jobs[j].load, held \cup dropped)}

Claimable(blocked, running, held, dropped) ==
    {j \in JobIds :
        /\ Due(j, blocked, running)
        /\ ~DerivationIn(jobs[j].load, held \cup dropped)
        /\ ~RepoHasRunningJob(jobs[j].load.repo)}

\* producer_spool_claim_sort_key, without the random job_id
Priority(j) == IF jobs[j].load.kind = "derivation" THEN 1 ELSE 0
SortsAfter(j, k) ==
    \/ jobs[j].avail > jobs[k].avail
    \/ /\ jobs[j].avail = jobs[k].avail
       /\ \/ jobs[j].submitted > jobs[k].submitted
          \/ jobs[j].submitted = jobs[k].submitted /\ Priority(j) > Priority(k)

\* One first row of each repo that has one.  CLAIM_BATCH_LIMIT is above the
\* number of repos, so the batch never fills.
Selections(C) ==
    {S \in SUBSET C :
        /\ \A j \in S, k \in C :
              jobs[j].load.repo = jobs[k].load.repo =>
                  ~SortsAfter(j, k) /\ (k \in S => j = k)
        /\ \A k \in C : \E j \in S : jobs[j].load.repo = jobs[k].load.repo}

PrunedRow(j) ==
    IF jobs[j].status # "pending" THEN jobs[j]
    ELSE IF PrunedAway(jobs[j].load) THEN NoRow
    ELSE [jobs[j] EXCEPT !.load.paths = PrunedPaths(jobs[j].load)]

\* claim_next_producer_spool_jobs_excluding, and the spawn of each claimed job
ClaimStep(blocked, running, held, dropped) ==
    \E S \in Selections(Claimable(blocked, running, held, dropped)) :
        /\ jobs' = [j \in JobIds |->
                      IF j \in Abandoned(blocked, running, dropped) THEN NoRow
                      ELSE IF j \in S THEN [PrunedRow(j) EXCEPT !.status = "running"]
                      ELSE PrunedRow(j)]
        /\ runner' = [j \in JobIds |->
                        IF j \in S THEN [phase |-> "processing", load |-> PrunedRow(j).load]
                        ELSE runner[j]]

\* Work that a prune or an abandoned derivation gives up.
GivenUp(blocked, running, dropped) ==
    UNION {Items(jobs[j].load) : j \in Abandoned(blocked, running, dropped)}
PolicyDrops(item) == item.path \in policy[item.key.repo]

Claim(blocked, running, held, dropped) ==
    /\ up
    /\ ClaimStep(blocked, running, held, dropped)
    /\ unserved' = {item \in unserved :
                      /\ ~PolicyDrops(item)
                      /\ item \notin GivenUp(blocked, running, dropped)
                      /\ \A j \in JobIds :
                            runner'[j] # runner[j] => item \notin Items(runner'[j].load)}
    /\ UNCHANGED <<nextJob, now, policy, up, crashes, faults>>

(***************************************************************************)
(* Processing: worker/spool.rs                                             *)
(***************************************************************************)
\* process_producer_spool_job returns Ok, with its effect or because the
\* producer is switched off.
ProcessOkStep(j) ==
    /\ runner[j].phase = "processing"
    /\ runner' = [runner EXCEPT ![j].phase = "done"]

ProcessOk(j) ==
    /\ ProcessOkStep(j)
    /\ UNCHANGED <<jobs, nextJob, now, policy, up, unserved, crashes, faults>>

ProcessErrStep(j) ==
    /\ runner[j].phase = "processing"
    /\ now + Backoff <= MaxTime
    /\ runner' = [runner EXCEPT ![j].phase = "failed"]

ProcessErr(j) ==
    /\ ProcessErrStep(j)
    /\ unserved' = unserved \cup Items(runner[j].load)
    /\ UNCHANGED <<jobs, nextJob, now, policy, up, crashes, faults>>

\* delete_producer_spool_job
DeleteStep(j) ==
    /\ runner[j].phase = "done"
    /\ jobs' = [jobs EXCEPT ![j] = NoRow]
    /\ runner' = [runner EXCEPT ![j] = NoRunner]

DeleteProducerSpoolJob(j) ==
    /\ DeleteStep(j)
    /\ UNCHANGED <<nextJob, now, policy, up, unserved, crashes, faults>>

\* Slip: the backoff is subtracted.
RequeueBackdated(j) ==
    /\ runner[j].phase = "failed"
    /\ jobs' = [jobs EXCEPT ![j].status = "pending", ![j].avail = now - Backoff]
    /\ runner' = [runner EXCEPT ![j] = NoRunner]

\* Slip: a failed job is deleted.
RequeueDropped(j) ==
    /\ runner[j].phase = "failed"
    /\ jobs' = [jobs EXCEPT ![j] = NoRow]
    /\ runner' = [runner EXCEPT ![j] = NoRunner]

\* requeue_producer_spool_job
RequeueJobStep(j) ==
    /\ runner[j].phase = "failed"
    /\ jobs' = [jobs EXCEPT ![j].status = "pending", ![j].avail = now + Backoff]
    /\ runner' = [runner EXCEPT ![j] = NoRunner]

RequeueProducerSpoolJob(j) ==
    /\ RequeueJobStep(j)
    /\ UNCHANGED <<nextJob, now, policy, up, unserved, crashes, faults>>

\* The delete fails: the job is requeued although it succeeded.
DeleteFault(j) ==
    /\ runner[j].phase = "done"
    /\ faults < MaxFaults
    /\ now + Backoff <= MaxTime
    /\ faults' = faults + 1
    /\ runner' = [runner EXCEPT ![j].phase = "failed"]
    /\ UNCHANGED <<jobs, nextJob, now, policy, up, unserved, crashes>>

\* The requeue fails too: the row stays running and nobody works on it.
RequeueFault(j) ==
    /\ runner[j].phase = "failed"
    /\ faults < MaxFaults
    /\ faults' = faults + 1
    /\ runner' = [runner EXCEPT ![j] = NoRunner]
    /\ UNCHANGED <<jobs, nextJob, now, policy, up, unserved, crashes>>

(***************************************************************************)
(* The environment: time, policy edits, crash and restart.                 *)
(***************************************************************************)
\* Bound: the clock stops at MaxTime, and before a requeue would pass it.
TickStep ==
    /\ now < MaxTime
    /\ \A j \in JobIds : runner[j].phase = "failed" => now + 1 + Backoff <= MaxTime
    /\ now' = now + 1

Tick ==
    /\ TickStep
    /\ UNCHANGED <<jobs, nextJob, policy, runner, up, unserved, crashes, faults>>

EditPolicy(r) ==
    /\ \E S \in SUBSET Excludable : policy' = [policy EXCEPT ![r] = S]
    /\ UNCHANGED <<jobs, nextJob, now, runner, up, unserved, crashes, faults>>

Processing == {j \in JobIds : runner[j].phase = "processing"}

Crash ==
    /\ up
    /\ crashes < MaxCrashes
    /\ crashes' = crashes + 1
    /\ up' = FALSE
    /\ runner' = [j \in JobIds |-> NoRunner]
    /\ unserved' = unserved \cup UNION {Items(runner[j].load) : j \in Processing}
    /\ UNCHANGED <<jobs, nextJob, now, policy, faults>>

\* Slip: recovery prunes and leaves the running rows alone.
RecoverPruneOnly == jobs' = [j \in JobIds |-> PrunedRow(j)]

\* recover_running_producer_spool_jobs: requeue without backoff, then prune.
RecoverStep ==
    jobs' = [j \in JobIds |->
               IF jobs[j].status = "running"
               THEN IF PrunedAway(jobs[j].load) THEN NoRow
                    ELSE [jobs[j] EXCEPT !.status = "pending", !.avail = now,
                                         !.load.paths = PrunedPaths(jobs[j].load)]
               ELSE PrunedRow(j)]

RecoverRunningProducerSpoolJobs ==
    /\ ~up
    /\ up' = TRUE
    /\ RecoverStep
    /\ unserved' = {item \in unserved : ~PolicyDrops(item)}
    /\ UNCHANGED <<nextJob, now, policy, runner, crashes, faults>>

\* The recovery transaction fails and is only logged.
RecoverFault ==
    /\ ~up
    /\ faults < MaxFaults
    /\ faults' = faults + 1
    /\ up' = TRUE
    /\ UNCHANGED <<jobs, nextJob, now, policy, runner, unserved, crashes>>

RunnerStep(j) ==
    \/ ProcessOk(j) \/ ProcessErr(j)
    \/ DeleteProducerSpoolJob(j) \/ DeleteFault(j)
    \/ RequeueProducerSpoolJob(j) \/ RequeueFault(j)

Next ==
    \/ \E load \in Productions : EnqueueJob(load)
    \/ \E blocked \in SUBSET Repos, running \in SUBSET RunningTasks :
          \E held \in SUBSET CommitKeys : \E dropped \in SUBSET (CommitKeys \ held) :
             Claim(blocked, running, held, dropped)
    \/ \E j \in JobIds : RunnerStep(j)
    \/ \E r \in Repos : EditPolicy(r)
    \/ Tick \/ Crash \/ RecoverRunningProducerSpoolJobs \/ RecoverFault

Spec == Init /\ [][Next]_vars
-----------------------------------------------------------------------------
(* Properties *)

TypeOK ==
    /\ jobs \in [JobIds -> Row]
    /\ nextJob \in 1 .. (MaxJobs + 1)
    /\ now \in 0 .. MaxTime
    /\ policy \in [Repos -> SUBSET Paths]
    /\ runner \in [JobIds -> Runner]
    /\ up \in BOOLEAN
    /\ unserved \subseteq Item
    /\ crashes \in 0 .. MaxCrashes
    /\ faults \in 0 .. MaxFaults

(***************************************************************************)
(* The daemon claims at most one producer spool job per repo at a time:    *)
(* no two rows of a repo are running, through failures of the delete, the  *)
(* requeue and the recovery, and only a running row of a live daemon has   *)
(* a spawned run.                                                          *)
(***************************************************************************)
OneRunningJobPerRepo ==
    /\ \A j, k \in JobIds :
          (/\ jobs[j].status = "running" /\ jobs[k].status = "running"
           /\ jobs[j].load.repo = jobs[k].load.repo) => j = k
    /\ \A j \in JobIds : runner[j].phase # "none" => up /\ jobs[j].status = "running"

(***************************************************************************)
(* No produced work is lost: whatever a producer spooled, and no run has   *)
(* taken on since and no policy or abandoned commit has made obsolete, is  *)
(* in a row that is pending or that restart will make pending again, even  *)
(* when the same work was being processed while it was produced again.     *)
(***************************************************************************)
NoProducedWorkLost ==
    \A item \in unserved :
        \/ PolicyDrops(item)
        \/ \E j \in JobIds :
              /\ item \in Items(jobs[j].load)
              /\ \/ jobs[j].status = "pending"
                 \/ jobs[j].status = "running" /\ runner[j].phase \in {"none", "failed"}

(***************************************************************************)
(* The spool does not grow with repeated events: a producer that fires     *)
(* again while its job is pending refreshes that row, so two pending rows  *)
(* of the same key exist only after one of them was claimed.               *)
(***************************************************************************)
RefreshesPendingRow ==
    [][\A j, k \in JobIds :
         (/\ j # k
          /\ jobs'[j].status = "pending" /\ jobs'[k].status = "pending"
          /\ DedupeKey(jobs'[j].load) = DedupeKey(jobs'[k].load))
         => jobs[j].status # "absent" /\ jobs[k].status # "absent"]_vars
=============================================================================
