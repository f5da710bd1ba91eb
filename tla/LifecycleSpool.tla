--------------------------- MODULE LifecycleSpool ---------------------------
(***************************************************************************)
(* The agent lifecycle spool: the table agent_lifecycle_spool_jobs of the  *)
(* repo runtime SQLite file, the hook processes that insert into it and    *)
(* the daemon worker that claims its head, replays the hook and settles    *)
(* the row.                                                                *)
(*                                                                         *)
(* Source: host/runtime_store/repo_lifecycle_spool.rs and                  *)
(* daemon/tasks/coordinator/worker/lifecycle_spool.rs.                     *)
(*                                                                         *)
(* One job id stands for one hook invocation; payload and snapshots are    *)
(* opaque.  available_at_unix is kept as the one bit the claim reads: has  *)
(* the requeue backoff elapsed.  Every SQLite statement is atomic, and a   *)
(* crash of the daemon can fall between any two of them.                   *)
(***************************************************************************)
EXTENDS Integers, FiniteSets, Sequences

CONSTANTS
    Jobs,          \* job ids (uuid per hook invocation, or a legacy job id)
    NoJob,         \* the idle worker's job
    Legacy,        \* job ids in agent_lifecycle_stop_spool_jobs (older release)
    LegacyRow,     \* rowid, status and attempts of each legacy row
    MaxAttempts,   \* MAX_LIFECYCLE_JOB_ATTEMPTS
    MaxCrashes,    \* bound: daemon crashes
    MaxFaults      \* bound: SQLite statements that return an error

Active == {"pending", "running"}
Statuses == Active \cup {"failed"}

ASSUME ConstantsAssumption ==
    /\ NoJob \notin Jobs
    /\ Legacy \subseteq Jobs
    /\ LegacyRow \in [Legacy -> [rowid : Nat, status : Statuses, attempts : Nat]]
    /\ MaxAttempts \in Nat \ {0}
    /\ MaxCrashes \in Nat
    /\ MaxFaults \in Nat

VARIABLES
    spool,         \* the table: one row per job id, "absent" when not in it
    lastSequence,  \* SQLite's AUTOINCREMENT counter of the table
    hook,          \* progress of the hook process that owns each job
    daemon,        \* "down", "opened" (schema initialised) or "up"
    worker,        \* process_lifecycle_spool_once: phase and claimed record
    applied,       \* history: how often the handler ran to Ok for each job
    crashes,       \* how many crashes happened
    faults         \* how many statements failed

vars == <<spool, lastSequence, hook, daemon, worker, applied, crashes, faults>>

Row == [status : Statuses \cup {"absent"}, sequence : Nat, attempts : Nat,
        ready : BOOLEAN]
NoRow == [status |-> "absent", sequence |-> 0, attempts |-> 0, ready |-> FALSE]
Idle == [phase |-> "idle", job |-> NoJob, attempts |-> 0]

Init ==
    /\ spool = [j \in Jobs |-> NoRow]
    /\ lastSequence = 0
    /\ hook = [j \in Jobs |-> IF j \in Legacy THEN "done" ELSE "new"]
    /\ daemon = "down"
    /\ worker = Idle
    /\ applied = [j \in Jobs |-> 0]
    /\ crashes = 0
    /\ faults = 0

Present(j) == spool[j].status # "absent"
IsActive(j) == spool[j].status \in Active

(***************************************************************************)
(* migrate_legacy_lifecycle_stop_spool_jobs: INSERT OR IGNORE of every     *)
(* legacy row whose job id is not in the table now, in rowid order.        *)
(***************************************************************************)
ToCopy == {j \in Legacy : ~Present(j)}

MigrateLegacy ==
    /\ spool' = [j \in Jobs |->
                   IF j \in ToCopy
                   THEN [status   |-> LegacyRow[j].status,
                         sequence |-> lastSequence
                           + Cardinality({k \in ToCopy : LegacyRow[k].rowid <= LegacyRow[j].rowid}),
                         attempts |-> LegacyRow[j].attempts,
                         ready    |-> TRUE]
                   ELSE spool[j]]
    /\ lastSequence' = lastSequence + Cardinality(ToCopy)

(***************************************************************************)
(* Hook process.  enqueue_lifecycle_job_hook_safe_at opens the file (which *)
(* migrates) and then inserts; the two are separate transactions.  A hook  *)
(* whose insert meets an SQLite error reports it and the payload is gone.  *)
(***************************************************************************)
OpenHookSafeSqlite(j) ==
    /\ hook[j] = "new"
    /\ MigrateLegacy
    /\ hook' = [hook EXCEPT ![j] = "opened"]
    /\ UNCHANGED <<daemon, worker, applied, crashes, faults>>

InsertLifecycleJob(j) ==
    /\ hook[j] = "opened"
    /\ lastSequence' = lastSequence + 1
    /\ spool' = [spool EXCEPT ![j] = [status |-> "pending", sequence |-> lastSequence + 1,
                                      attempts |-> 0, ready |-> TRUE]]
    /\ hook' = [hook EXCEPT ![j] = "done"]
    /\ UNCHANGED <<daemon, worker, applied, crashes, faults>>

HookInsertFault(j) ==
    /\ hook[j] = "opened"
    /\ faults < MaxFaults
    /\ faults' = faults + 1
    /\ hook' = [hook EXCEPT ![j] = "error"]
    /\ UNCHANGED <<spool, lastSequence, daemon, worker, applied, crashes>>

(***************************************************************************)
(* Daemon start: the schema is initialised once per process (which         *)
(* migrates), then activate_worker recovers the rows a dead daemon left    *)
(* running.  A failed recovery is only logged; the worker starts anyway.   *)
(***************************************************************************)
InitialiseSchema ==
    /\ daemon = "down"
    /\ MigrateLegacy
    /\ daemon' = "opened"
    /\ UNCHANGED <<hook, worker, applied, crashes, faults>>

RecoverRunningJobs ==
    /\ daemon = "opened"
    /\ spool' = [j \in Jobs |->
                   IF spool[j].status = "running"
                   THEN [spool[j] EXCEPT !.status = "pending", !.ready = TRUE]
                   ELSE spool[j]]
    /\ daemon' = "up"
    /\ UNCHANGED <<lastSequence, hook, worker, applied, crashes, faults>>

RecoverFault ==
    /\ daemon = "opened"
    /\ faults < MaxFaults
    /\ faults' = faults + 1
    /\ daemon' = "up"
    /\ UNCHANGED <<spool, lastSequence, hook, worker, applied, crashes>>

(***************************************************************************)
(* The worker.                                                             *)
(***************************************************************************)
\* Slip: the availability test moved into the query, skipping a delayed head.
OldestAvailable(j) ==
    /\ IsActive(j)
    /\ spool[j].ready
    /\ \A k \in Jobs : IsActive(k) /\ spool[k].ready => spool[j].sequence <= spool[k].sequence

\* select_oldest_active_lifecycle_job: j is the row the query returns.
OldestActive(j) ==
    /\ IsActive(j)
    /\ \A k \in Jobs : IsActive(k) => spool[j].sequence <= spool[k].sequence

\* Slip: the record is loaded before the UPDATE, with the old attempt count.
ClaimLoadingBeforeUpdate(j) ==
    /\ daemon = "up"
    /\ worker.phase = "idle"
    /\ OldestActive(j)
    /\ spool[j].status # "running"
    /\ spool[j].ready
    /\ spool' = [spool EXCEPT ![j].status = "running", ![j].attempts = @ + 1]
    /\ worker' = [phase |-> "claimed", job |-> j, attempts |-> spool[j].attempts]
    /\ UNCHANGED <<lastSequence, hook, daemon, applied, crashes, faults>>

\* Slip: the budget is counted down from the inserted value.
ClaimCountingDown(j) ==
    /\ daemon = "up"
    /\ worker.phase = "idle"
    /\ OldestActive(j)
    /\ spool[j].status # "running"
    /\ spool[j].ready
    /\ spool' = [spool EXCEPT ![j].status = "running", ![j].attempts = @ - 1]
    /\ worker' = [phase |-> "claimed", job |-> j, attempts |-> spool[j].attempts - 1]
    /\ UNCHANGED <<lastSequence, hook, daemon, applied, crashes, faults>>

\* Slip: a job whose attempts are spent is not claimed again.
ClaimWithinBudget(j) ==
    /\ daemon = "up"
    /\ worker.phase = "idle"
    /\ OldestActive(j)
    /\ spool[j].status # "running"
    /\ spool[j].ready
    /\ spool[j].attempts < MaxAttempts
    /\ spool' = [spool EXCEPT ![j].status = "running", ![j].attempts = @ + 1]
    /\ worker' = [phase |-> "claimed", job |-> j, attempts |-> spool[j].attempts + 1]
    /\ UNCHANGED <<lastSequence, hook, daemon, applied, crashes, faults>>

\* A Running or not yet available head makes the claim return None.
ClaimNextLifecycleJob(j) ==
    /\ daemon = "up"
    /\ worker.phase = "idle"
    /\ OldestActive(j)
    /\ spool[j].status # "running"
    /\ spool[j].ready
    /\ spool' = [spool EXCEPT ![j].status = "running", ![j].attempts = @ + 1]
    /\ worker' = [phase |-> "claimed", job |-> j, attempts |-> spool[j].attempts + 1]
    /\ UNCHANGED <<lastSequence, hook, daemon, applied, crashes, faults>>

\* process_lifecycle_job replays the hook; the handler's outcome is external.
ProcessOk ==
    /\ worker.phase = "claimed"
    /\ worker' = [worker EXCEPT !.phase = "succeeded"]
    /\ applied' = [applied EXCEPT ![worker.job] = @ + 1]
    /\ UNCHANGED <<spool, lastSequence, hook, daemon, crashes, faults>>

ProcessErr ==
    /\ worker.phase = "claimed"
    /\ worker' = [worker EXCEPT !.phase = "errored"]
    /\ UNCHANGED <<spool, lastSequence, hook, daemon, applied, crashes, faults>>

DeleteLifecycleJob ==
    /\ worker.phase = "succeeded"
    /\ spool' = [spool EXCEPT ![worker.job] = NoRow]
    /\ worker' = Idle
    /\ UNCHANGED <<lastSequence, hook, daemon, applied, crashes, faults>>

\* Slip: off by one at the budget.
BudgetExceeded == worker.attempts > MaxAttempts

BudgetSpent == worker.attempts >= MaxAttempts

\* Slip: a job out of attempts is dropped rather than dead-lettered.
DropLifecycleJob ==
    /\ worker.phase = "errored"
    /\ BudgetSpent
    /\ spool' = [spool EXCEPT ![worker.job] = NoRow]
    /\ worker' = Idle
    /\ UNCHANGED <<lastSequence, hook, daemon, applied, crashes, faults>>

MarkLifecycleJobFailed ==
    /\ worker.phase = "errored"
    /\ BudgetSpent
    /\ spool' = [spool EXCEPT ![worker.job].status = "failed"]
    /\ worker' = Idle
    /\ UNCHANGED <<lastSequence, hook, daemon, applied, crashes, faults>>

RequeueLifecycleJob ==
    /\ worker.phase = "errored"
    /\ ~BudgetSpent
    /\ spool' = [spool EXCEPT ![worker.job].status = "pending", ![worker.job].ready = FALSE]
    /\ worker' = Idle
    /\ UNCHANGED <<lastSequence, hook, daemon, applied, crashes, faults>>

\* The settling statement fails: `?` leaves the row Running, the loop logs it.
SettleFault ==
    /\ worker.phase \in {"succeeded", "errored"}
    /\ faults < MaxFaults
    /\ faults' = faults + 1
    /\ worker' = Idle
    /\ UNCHANGED <<spool, lastSequence, hook, daemon, applied, crashes>>

\* REQUEUE_BACKOFF_SECS pass.
BackoffElapses(j) ==
    /\ spool[j].status = "pending"
    /\ ~spool[j].ready
    /\ spool' = [spool EXCEPT ![j].ready = TRUE]
    /\ UNCHANGED <<lastSequence, hook, daemon, worker, applied, crashes, faults>>

\* The daemon process dies at any point; only the SQLite file survives.
Crash ==
    /\ daemon # "down"
    /\ crashes < MaxCrashes
    /\ crashes' = crashes + 1
    /\ daemon' = "down"
    /\ worker' = Idle
    /\ UNCHANGED <<spool, lastSequence, hook, applied, faults>>

HookStep(j) == OpenHookSafeSqlite(j) \/ InsertLifecycleJob(j) \/ HookInsertFault(j)
DaemonStart == InitialiseSchema \/ RecoverRunningJobs \/ RecoverFault
Settle == DeleteLifecycleJob \/ MarkLifecycleJobFailed \/ RequeueLifecycleJob \/ SettleFault

Next ==
    \/ \E j \in Jobs : HookStep(j)
    \/ DaemonStart
    \/ \E j \in Jobs : ClaimNextLifecycleJob(j)
    \/ ProcessOk \/ ProcessErr
    \/ Settle
    \/ \E j \in Jobs : BackoffElapses(j)
    \/ Crash

Spec == Init /\ [][Next]_vars

(***************************************************************************)
(* Fairness: run_loop polls every two seconds, a started handler returns,  *)
(* and the service manager starts a daemon that is down.  Nothing is       *)
(* assumed of hooks, handler outcomes, faults or crashes.                  *)
(***************************************************************************)
FairSpec ==
    /\ Spec
    /\ WF_vars(DaemonStart)
    /\ WF_vars(\E j \in Jobs : ClaimNextLifecycleJob(j))
    /\ WF_vars(ProcessOk \/ ProcessErr)
    /\ WF_vars(Settle)
    /\ WF_vars(\E j \in Jobs : BackoffElapses(j))
-----------------------------------------------------------------------------
(* Properties *)

TypeOK ==
    /\ spool \in [Jobs -> Row]
    /\ lastSequence \in Nat
    /\ hook \in [Jobs -> {"new", "opened", "done", "error"}]
    /\ daemon \in {"down", "opened", "up"}
    /\ worker \in [phase : {"idle", "claimed", "succeeded", "errored"},
                   job : Jobs \cup {NoJob}, attempts : Nat]
    /\ applied \in [Jobs -> Nat]
    /\ crashes \in 0 .. MaxCrashes
    /\ faults \in 0 .. MaxFaults

(***************************************************************************)
(* Sequential FIFO processing across crashes, failed recoveries and        *)
(* concurrent hook inserts: a row is Running only while every row with a   *)
(* lower sequence is gone or dead-lettered, so no two rows are ever        *)
(* Running and no job overtakes an active earlier one.                     *)
(***************************************************************************)
RunningIsHead ==
    \A j, k \in Jobs :
        (spool[j].status = "running" /\ IsActive(k) /\ k # j)
            => spool[j].sequence < spool[k].sequence

(***************************************************************************)
(* The worker's claimed record is never stale: while it replays or settles *)
(* job j, j's row is the Running one with the attempt count it read, so    *)
(* the settling UPDATE/DELETE (keyed by job_id only) hits the claimed row. *)
(***************************************************************************)
ClaimStillHeld ==
    worker.phase # "idle" =>
        /\ daemon = "up"
        /\ worker.job \in Jobs
        /\ spool[worker.job].status = "running"
        /\ spool[worker.job].attempts = worker.attempts

(***************************************************************************)
(* The retry budget: every claim beyond MAX_LIFECYCLE_JOB_ATTEMPTS is owed *)
(* to a claim whose verdict a crash swallowed; a dead-lettered row spent   *)
(* its whole budget.                                                       *)
(***************************************************************************)
RetryBudget ==
    \A j \in Jobs :
        /\ j \notin Legacy => spool[j].attempts <= MaxAttempts + crashes
        /\ (spool[j].status = "failed" /\ j \notin Legacy) => spool[j].attempts >= MaxAttempts

(***************************************************************************)
(* At-least-once: a row leaves the table only after its handler returned   *)
(* Ok, and a dead-lettered row stays.                                      *)
(***************************************************************************)
LeavesOnlyAfterSuccess ==
    [][\A j \in Jobs :
        Present(j) => /\ spool'[j].status = "absent" => applied[j] > 0
                      /\ spool[j].status = "failed" => spool'[j] = spool[j]]_vars

(***************************************************************************)
(* A completed job stays completed: once the row of a successfully         *)
(* replayed job is deleted, the job never comes back into the table.       *)
(***************************************************************************)
CompletedStaysGone ==
    [][\A j \in Jobs :
        (applied[j] > 0 /\ ~Present(j)) => spool'[j].status = "absent"]_vars

\* A row is Running and no worker holds it: its settling or recovering
\* statement failed, and nothing but the next daemon start touches it.
StuckHead ==
    daemon = "up" /\ \E j \in Jobs : spool[j].status = "running" /\ worker.job # j

(***************************************************************************)
(* Every job in the table is eventually replayed to Ok and deleted, or     *)
(* dead-lettered: with handler errors, crashes and failed statements in    *)
(* any order, a head that neither retries nor fails is the only obstacle.  *)
(***************************************************************************)
SettlesUnlessHeadStuck ==
    \A j \in Jobs :
        Present(j) ~> (~Present(j) \/ spool[j].status = "failed" \/ StuckHead)

(***************************************************************************)
(* The refinement of FifoDelivery: the queue is the active rows in the     *)
(* order the claim's ORDER BY sequence visits them.                        *)
(***************************************************************************)
ActiveJobs == {j \in Jobs : IsActive(j)}
SequenceOf == [j \in Jobs |-> spool[j].sequence]

Position(A, seq, j) == Cardinality({k \in A : seq[k] <= seq[j]})
Ordered(A, seq) == [i \in 1 .. Cardinality(A) |-> CHOOSE j \in A : Position(A, seq, j) = i]
SpoolQueue == Ordered(ActiveJobs, SequenceOf)

DeadLetters == {j \in Jobs : spool[j].status = "failed"}

Fifo == INSTANCE FifoDelivery WITH
    Items <- Jobs,
    queue <- SpoolQueue,
    dead <- DeadLetters,
    delivered <- applied

(***************************************************************************)
(* The spool table, its claim and its settlement implement a durable FIFO  *)
(* queue with at-least-once delivery: claims, backoffs, recoveries and     *)
(* crashes are invisible, every other step is a step of that queue.        *)
(***************************************************************************)
ImplementsFifoDelivery == Fifo!FSpec
=============================================================================
