-------------------------- MODULE CapabilityEvents --------------------------
(***************************************************************************)
(* Current-state consumers.  A successful sync appends a generation to its *)
(* repo's log; every registered consumer has a cursor into the log and at  *)
(* most one active run per lane (repo and consumer) that carries the       *)
(* generations after the cursor to the consumer.  One run executes at a    *)
(* time in the whole daemon.                                               *)
(*                                                                         *)
(* Source: daemon/capability_events/.  The coordinator lock and BEGIN      *)
(* IMMEDIATE make each operation on the tables one step; the plan, the     *)
(* consumer's own work and the completion of a run are separate steps of a *)
(* spawned task.  A generation is kept as its requires_full_reconcile bit  *)
(* and its number; which files and artefacts it lists is left out.         *)
(***************************************************************************)
EXTENDS Integers, Sequences, FiniteSets

CONSTANTS
    Repos,           \* repositories
    NumConsumers,    \* cursor mailboxes registered with the capability host
    Blocking,        \* consumers with BlocksInitCompletion
    FollowUpDelta,   \* architecture_graph consumers (delta within a session)
    Forcible,        \* consumers a refresh request can force (CodeCity)
    MaxRunAttempts,  \* MAX_RUN_ATTEMPTS
    SpanThreshold,   \* FULL_RECONCILE_GENERATION_SPAN_THRESHOLD
    Retention,       \* terminal runs prune_terminal_runs keeps
    MaxGenerations,  \* bound: generations per repo
    MaxRuns,         \* bound: runs ever created
    MaxUpsets        \* bound: refresh requests, clears, crashes and failed statements

Consumers == 1 .. NumConsumers
Lanes == Repos \X Consumers
RunIds == 1 .. MaxRuns

ASSUME ConstantsAssumption ==
    /\ Repos # {}
    /\ NumConsumers \in Nat \ {0}
    /\ Blocking \subseteq Consumers
    /\ FollowUpDelta \subseteq Consumers
    /\ Forcible \subseteq Consumers
    /\ MaxRunAttempts \in Nat \ {0}
    /\ SpanThreshold \in Nat
    /\ Retention \in Nat
    /\ MaxGenerations \in Nat
    /\ MaxRuns \in Nat
    /\ MaxUpsets \in Nat

VARIABLES
    generations,   \* per repo: requires_full_reconcile of generation 1, 2, ...
    cursor,        \* per lane: last_applied_generation_seq, 0 for NULL or no row
    runs,          \* the run rows, in submission order
    nextRun,       \* the next run id
    endings,       \* stamps of completed_at_unix
    exec,          \* the spawned task of each run
    up,            \* the daemon's worker loop runs
    applied,       \* history: generations each consumer has been shown
    dropped,       \* history: lanes whose pending generations nothing carries
    crashes,       \* how many crashes happened
    upsets         \* how many requests, clears, crashes and failed statements happened

faultVars == <<crashes, upsets>>
tableVars == <<generations, cursor, runs, nextRun, endings>>
vars == <<tableVars, exec, up, applied, dropped, crashes, upsets>>

Active == {"queued", "running"}
Terminal == {"completed", "failed"}

\* due: updated_at_unix plus the retry backoff has passed.
Run == [lane : Lanes, status : Active \cup Terminal \cup {"absent"}, from : Nat, to : Nat,
        full : BOOLEAN, init : BOOLEAN, attempts : Nat, due : BOOLEAN, ended : Nat]

Exec == [phase : {"none", "claimed", "noop", "planned", "ok", "error"}, from : Nat, to : Nat]
NoExec == [phase |-> "none", from |-> 0, to |-> 0]

AnyLane == CHOOSE l \in Lanes : TRUE
NoRow == [lane |-> AnyLane, status |-> "absent", from |-> 0, to |-> 0, full |-> FALSE,
          init |-> FALSE, attempts |-> 0, due |-> FALSE, ended |-> 0]

Init ==
    /\ generations = [r \in Repos |-> <<>>]
    /\ cursor = [l \in Lanes |-> 0]
    /\ runs = [i \in RunIds |-> NoRow]
    /\ nextRun = 1
    /\ endings = 0
    /\ exec = [i \in RunIds |-> NoExec]
    /\ up = TRUE
    /\ applied = [l \in Lanes |-> {}]
    /\ dropped = {}
    /\ crashes = 0
    /\ upsets = 0

Latest(r) == Len(generations[r])
IsActive(i) == runs[i].status \in Active
ActiveIn(l) == {i \in RunIds : IsActive(i) /\ runs[i].lane = l}
QueuedIn(l) == {i \in ActiveIn(l) : runs[i].status = "queued"}
RunningIn(l) == {i \in ActiveIn(l) : runs[i].status = "running"}
Running == {i \in RunIds : runs[i].status = "running"}
Upset == upsets < MaxUpsets /\ upsets' = upsets + 1

\* retry_backoff_seconds is 0 up to the first attempt.
DueAtOnce(attempts) == attempts <= 1

\* prune_terminal_runs: only the Retention rows that ended last stay.
PruneTerminal(rows) ==
    [i \in RunIds |->
        IF /\ rows[i].status \in Terminal
           /\ Cardinality({j \in RunIds : rows[j].status \in Terminal
                                          /\ rows[j].ended > rows[i].ended}) >= Retention
        THEN NoRow ELSE rows[i]]

NewRun(l, from, to, full, init) ==
    [lane |-> l, status |-> "queued", from |-> from, to |-> to, full |-> full, init |-> init,
     attempts |-> 0, due |-> TRUE, ended |-> 0]

\* A queued run is pointed at the new range; updated_at_unix restarts its backoff.
Refreshed(run, from, to, init) ==
    [run EXCEPT !.from = from, !.to = to, !.init = @ \/ init, !.due = DueAtOnce(run.attempts)]

\* Slip: a run that is executing does not keep a lane from getting another one.
NeedsRunUnlessQueued(l) == QueuedIn(l) = {}

NeedsRun(l) == ActiveIn(l) = {}

(***************************************************************************)
(* record_sync_generation: append the generation and, for every consumer,  *)
(* ensure_consumer_run: refresh the queued run, leave a running one alone, *)
(* insert one otherwise.  A generation recorded after a running run's plan *)
(* was made is nobody's until the next one is recorded.                    *)
(***************************************************************************)
Fresh(r) == {c \in Consumers : NeedsRun(<<r, c>>)}

RecordGeneration(r, full, init) ==
    LET latest == Latest(r) + 1
        idOf(c) == nextRun + Cardinality({d \in Fresh(r) : d < c})
        forSession(c) == init /\ c \in Blocking
        missed == {l \in Lanes : /\ l[1] = r
                                 /\ QueuedIn(l) = {}
                                 /\ \E i \in RunningIn(l) : exec[i].phase # "claimed"}
    IN /\ up
       /\ latest <= MaxGenerations
       /\ nextRun + Cardinality(Fresh(r)) <= MaxRuns + 1
       /\ generations' = [generations EXCEPT ![r] = Append(@, full)]
       /\ runs' = PruneTerminal(
            [i \in RunIds |->
               IF \E c \in Fresh(r) : idOf(c) = i
               THEN LET c == CHOOSE c \in Fresh(r) : idOf(c) = i
                    IN NewRun(<<r, c>>, cursor[<<r, c>>], latest, FALSE, forSession(c))
               ELSE IF runs[i].status = "queued" /\ runs[i].lane[1] = r
               THEN Refreshed(runs[i], cursor[runs[i].lane], latest, forSession(runs[i].lane[2]))
               ELSE runs[i]])
       /\ nextRun' = nextRun + Cardinality(Fresh(r))
       /\ dropped' = (dropped \ {<<r, c>> : c \in Fresh(r)}) \cup missed
       /\ UNCHANGED <<cursor, endings, exec, up, applied, faultVars>>

\* Slip: no test for an empty log.
CanForceAlways(l) == l[2] \in Forcible

\* force_consumer_run refuses a repo without generations.
CanForce(l) == l[2] \in Forcible /\ Latest(l[1]) > 0

\* force_consumer_run: a full run from the last generation on; a running run is returned as is.
ForceConsumerRun(l) ==
    LET latest == Latest(l[1])
    IN /\ up
       /\ CanForce(l)
       /\ Upset
       /\ RunningIn(l) = {}
       /\ \/ /\ QueuedIn(l) # {}
             /\ runs' = [i \in RunIds |->
                           IF i \in QueuedIn(l)
                           THEN [Refreshed(runs[i], latest - 1, latest, FALSE) EXCEPT !.full = TRUE]
                           ELSE runs[i]]
             /\ UNCHANGED nextRun
          \/ /\ QueuedIn(l) = {}
             /\ nextRun <= MaxRuns
             /\ runs' = [runs EXCEPT ![nextRun] = NewRun(l, latest - 1, latest, TRUE, FALSE)]
             /\ nextRun' = nextRun + 1
       /\ dropped' = dropped \ {l}
       /\ UNCHANGED <<generations, cursor, endings, exec, up, applied, crashes>>

\* clear_queued_runs_for_repo, at the start of a policy sync of the repo.
ClearQueuedRuns(r) ==
    /\ up
    /\ Upset
    /\ runs' = [i \in RunIds |->
                  IF runs[i].status = "queued" /\ runs[i].lane[1] = r THEN NoRow ELSE runs[i]]
    /\ dropped' = dropped \cup {l \in Lanes : l[1] = r /\ QueuedIn(l) # {}}
    /\ UNCHANGED <<generations, cursor, nextRun, endings, exec, up, applied, crashes>>

(***************************************************************************)
(* launch_runnable_runs and the spawned task.                              *)
(***************************************************************************)
\* Slip: the running runs are not counted, only lanes are told apart.
ClaimablePerLane(i) ==
    /\ runs[i].status = "queued"
    /\ runs[i].due
    /\ RunningIn(runs[i].lane) = {}
    /\ \A j \in RunIds : (runs[j].status = "queued" /\ runs[j].due) => i <= j

\* Slip: a run whose attempts are spent is not claimed again.
ClaimableWithinBudget(i) ==
    /\ runs[i].status = "queued"
    /\ runs[i].due
    /\ runs[i].attempts < MaxRunAttempts
    /\ Running = {}
    /\ \A j \in RunIds : (runs[j].status = "queued" /\ runs[j].due) => i <= j

\* MAX_CONCURRENT_CURRENT_STATE_RUNS is 1 and counts the runs of every repo.
Claimable(i) ==
    /\ runs[i].status = "queued"
    /\ runs[i].due
    /\ Running = {}
    /\ \A j \in RunIds : (runs[j].status = "queued" /\ runs[j].due) => i <= j

LaunchRun(i) ==
    /\ up
    /\ Claimable(i)
    /\ runs' = [runs EXCEPT ![i].status = "running", ![i].attempts = @ + 1]
    /\ exec' = [exec EXCEPT ![i] = [phase |-> "claimed", from |-> runs[i].from, to |-> runs[i].to]]
    /\ UNCHANGED <<generations, cursor, nextRun, endings, up, applied, dropped, faultVars>>

\* The range a plan covers: a requested full run keeps its start, a delta run
\* starts at the cursor as it is now.
PlanFrom(i) ==
    LET latest == Latest(runs[i].lane[1])
    IN IF runs[i].full
       THEN IF runs[i].from <= latest - 1 THEN runs[i].from ELSE latest - 1
       ELSE cursor[runs[i].lane]

\* Slip: the plan keeps the range the run was submitted with.
PlanToSubmitted(i) == runs[i].to

PlanTo(i) == Latest(runs[i].lane[1])

PlanFull(i, large) ==
    LET l == runs[i].lane
        followUp == ~runs[i].full /\ runs[i].init /\ cursor[l] # 0 /\ l[2] \in FollowUpDelta
    IN \/ runs[i].full
       \/ cursor[l] = 0
       \/ ~followUp /\ \E g \in (PlanFrom(i) + 1) .. PlanTo(i) : generations[l[1]][g]
       \/ PlanTo(i) - cursor[l] > SpanThreshold
       \/ ~followUp /\ large

\* build_execution_plan; large: the change counts are above their thresholds.
BuildExecutionPlan(i, large) ==
    /\ exec[i].phase = "claimed"
    /\ IF PlanFrom(i) < PlanTo(i)
       THEN /\ runs' = [runs EXCEPT ![i].from = PlanFrom(i), ![i].to = PlanTo(i),
                                    ![i].full = PlanFull(i, large)]
            /\ exec' = [exec EXCEPT ![i] = [phase |-> "planned", from |-> PlanFrom(i), to |-> PlanTo(i)]]
       ELSE /\ exec' = [exec EXCEPT ![i].phase = "noop"]
            /\ UNCHANGED runs
    /\ UNCHANGED <<generations, cursor, nextRun, endings, up, applied, dropped, faultVars>>

\* The consumer returns Ok with the end of the range it was given; a full
\* reconcile rebuilds from the current state whatever its range.
ReconcileOk(i) ==
    /\ exec[i].phase = "planned"
    /\ exec' = [exec EXCEPT ![i].phase = "ok"]
    /\ applied' = [applied EXCEPT ![runs[i].lane] =
                     @ \cup (IF runs[i].full THEN 1 .. exec[i].to ELSE (exec[i].from + 1) .. exec[i].to)]
    /\ UNCHANGED <<tableVars, up, dropped, faultVars>>

\* The plan, the host or the consumer errs, or the consumer panics.
ReconcileErr(i) ==
    /\ exec[i].phase \in {"claimed", "planned"}
    /\ exec' = [exec EXCEPT ![i].phase = "error"]
    /\ UNCHANGED <<tableVars, up, applied, dropped, faultVars>>

\* Slip: one attempt too many.
BudgetExceeded(i) == runs[i].attempts > MaxRunAttempts

BudgetSpent(i) == runs[i].attempts >= MaxRunAttempts

\* Of an ended run only what the properties look at is kept; nothing reads its range.
EndRun(i, status) ==
    /\ runs' = PruneTerminal([runs EXCEPT ![i] =
                 [NoRow EXCEPT !.lane = runs[i].lane, !.status = status,
                               !.attempts = runs[i].attempts, !.ended = endings + 1]])
    /\ endings' = endings + 1

\* Slip: the cursor is moved to the generation that is the latest by now.
CursorToLatest(i) == Latest(runs[i].lane[1])

CursorAfter(i) == exec[i].to

(***************************************************************************)
(* apply_completion, one transaction.  Nothing re-schedules the lane: a    *)
(* terminal failure leaves the generations it carried to nobody.           *)
(***************************************************************************)
CompleteRun(i) ==
    /\ exec[i].phase \in {"noop", "ok"}
    /\ cursor' = IF exec[i].phase = "ok" THEN [cursor EXCEPT ![runs[i].lane] = CursorAfter(i)]
                                         ELSE cursor
    /\ EndRun(i, "completed")
    /\ exec' = [exec EXCEPT ![i] = NoExec]
    /\ UNCHANGED <<generations, nextRun, up, applied, dropped, faultVars>>

RetryRun(i) ==
    /\ exec[i].phase = "error"
    /\ ~BudgetSpent(i)
    /\ runs' = PruneTerminal([runs EXCEPT ![i].status = "queued",
                                          ![i].due = DueAtOnce(runs[i].attempts)])
    /\ exec' = [exec EXCEPT ![i] = NoExec]
    /\ dropped' = dropped \ {runs[i].lane}
    /\ UNCHANGED <<generations, cursor, nextRun, endings, up, applied, faultVars>>

\* Slip: a terminal failure sends the consumer back to the start of the log.
FailRunRewinding(i) ==
    /\ exec[i].phase = "error"
    /\ BudgetSpent(i)
    /\ EndRun(i, "failed")
    /\ exec' = [exec EXCEPT ![i] = NoExec]
    /\ dropped' = dropped \cup {runs[i].lane}
    /\ cursor' = [cursor EXCEPT ![runs[i].lane] = 0]
    /\ UNCHANGED <<generations, nextRun, up, applied, faultVars>>

FailRun(i) ==
    /\ exec[i].phase = "error"
    /\ BudgetSpent(i)
    /\ EndRun(i, "failed")
    /\ exec' = [exec EXCEPT ![i] = NoExec]
    /\ dropped' = dropped \cup {runs[i].lane}
    /\ UNCHANGED <<generations, cursor, nextRun, up, applied, faultVars>>

\* The completion cannot be persisted: logged, the row stays Running.
CompletionFault(i) ==
    /\ exec[i].phase \in {"noop", "ok", "error"}
    /\ Upset
    /\ exec' = [exec EXCEPT ![i] = NoExec]
    /\ UNCHANGED <<tableVars, up, applied, dropped, crashes>>

BackoffElapses(i) ==
    /\ runs[i].status = "queued"
    /\ ~runs[i].due
    /\ runs' = [runs EXCEPT ![i].due = TRUE]
    /\ UNCHANGED <<generations, cursor, nextRun, endings, exec, up, applied, dropped, faultVars>>

Crash ==
    /\ up
    /\ Upset
    /\ crashes' = crashes + 1
    /\ up' = FALSE
    /\ exec' = [i \in RunIds |-> NoExec]
    /\ UNCHANGED <<tableVars, applied, dropped>>

RecoverStep ==
    runs' = [i \in RunIds |->
               IF runs[i].status = "running"
               THEN [runs[i] EXCEPT !.status = "queued", !.due = DueAtOnce(runs[i].attempts)]
               ELSE runs[i]]

\* activate_worker: recover_running_runs, whose failure is only logged.
ActivateWorker ==
    /\ ~up
    /\ up' = TRUE
    /\ \/ RecoverStep /\ dropped' = dropped \ {runs[i].lane : i \in Running} /\ UNCHANGED upsets
       \/ Upset /\ UNCHANGED <<runs, dropped>>
    /\ UNCHANGED <<generations, cursor, nextRun, endings, exec, applied, crashes>>

ExecStep(i) ==
    \/ \E large \in BOOLEAN : BuildExecutionPlan(i, large)
    \/ ReconcileOk(i) \/ ReconcileErr(i)
    \/ CompleteRun(i) \/ RetryRun(i) \/ FailRun(i) \/ CompletionFault(i)

Next ==
    \/ \E r \in Repos, full \in BOOLEAN, init \in BOOLEAN : RecordGeneration(r, full, init)
    \/ \E l \in Lanes : ForceConsumerRun(l)
    \/ \E r \in Repos : ClearQueuedRuns(r)
    \/ \E i \in RunIds : LaunchRun(i) \/ ExecStep(i) \/ BackoffElapses(i)
    \/ Crash \/ ActivateWorker

Spec == Init /\ [][Next]_vars

(***************************************************************************)
(* Fairness: run_loop polls every WORKER_POLL_INTERVAL, a spawned task     *)
(* returns (a panic is caught), backoffs elapse and a daemon that is down  *)
(* is started again.  Nothing is assumed of syncs, requests, outcomes,     *)
(* faults or crashes.                                                      *)
(***************************************************************************)
FairSpec ==
    /\ Spec
    /\ WF_vars(\E i \in RunIds : LaunchRun(i))
    /\ \A i \in RunIds : WF_vars(ExecStep(i)) /\ WF_vars(BackoffElapses(i))
    /\ WF_vars(ActivateWorker)
-----------------------------------------------------------------------------
(* Properties *)

TypeOK ==
    /\ generations \in [Repos -> Seq(BOOLEAN)]
    /\ cursor \in [Lanes -> Nat]
    /\ runs \in [RunIds -> Run]
    /\ nextRun \in 1 .. (MaxRuns + 1)
    /\ endings \in Nat
    /\ exec \in [RunIds -> Exec]
    /\ up \in BOOLEAN
    /\ applied \in [Lanes -> SUBSET Nat]
    /\ dropped \subseteq Lanes
    /\ crashes \in Nat
    /\ upsets \in 0 .. MaxUpsets

(***************************************************************************)
(* Single flight: a lane never has two active runs, the daemon never has   *)
(* two running ones, and a task that is executing still owns a Running row *)
(* (so its completion, keyed by run_id only, hits the row it claimed).     *)
(* Syncs, refresh requests, clears, failed completions, crashes and failed *)
(* recoveries interleave with the execution.                               *)
(***************************************************************************)
SingleFlight ==
    /\ \A i, j \in RunIds : (IsActive(i) /\ IsActive(j) /\ i # j) => runs[i].lane # runs[j].lane
    /\ \A i, j \in Running : i = j
    /\ \A i \in RunIds : exec[i].phase # "none" => up /\ i \in Running

(***************************************************************************)
(* The cursor tells the truth: every generation up to last_applied_        *)
(* generation_seq has been shown to the consumer, although the plan reads  *)
(* the log again after the claim, generations are recorded while the       *)
(* consumer works, a forced run starts behind or ahead of the cursor and   *)
(* completions get lost between the consumer's work and the transaction.   *)
(***************************************************************************)
CursorTruthful == \A l \in Lanes : 1 .. cursor[l] \subseteq applied[l]

(***************************************************************************)
(* Every claimed run still has generations to apply, so a run that was     *)
(* scheduled is never completed as a no-op behind the back of its lane.    *)
(***************************************************************************)
ClaimedRunHasWork == \A i \in RunIds : exec[i].phase = "claimed" => PlanFrom(i) < PlanTo(i)

(***************************************************************************)
(* The retry budget: every claim beyond MAX_RUN_ATTEMPTS is owed to a      *)
(* verdict a crash swallowed, a retry keeps the attempts it has spent      *)
(* through refreshes and forced requests, and a failed run spent them all. *)
(***************************************************************************)
RetryBudget ==
    \A i \in RunIds :
        /\ runs[i].attempts <= MaxRunAttempts + crashes
        /\ runs[i].status = "failed" => runs[i].attempts >= MaxRunAttempts

(***************************************************************************)
(* A lane that lags has a reason: if generations are recorded beyond the   *)
(* cursor and no run is active, then the last run failed or was cleared,   *)
(* or the generation came in after a running run had made its plan.  In    *)
(* particular one recorded between the claim and the plan is carried.      *)
(***************************************************************************)
LagIsExplained ==
    \A l \in Lanes : (cursor[l] < Latest(l[1]) /\ ActiveIn(l) = {}) => l \in dropped

(***************************************************************************)
(* The cursor of a lane never moves back, whatever range the run that      *)
(* completes was submitted, refreshed or forced with.                      *)
(***************************************************************************)
CursorNeverRegresses == [][\A l \in Lanes : cursor[l] <= cursor'[l]]_vars

\* A Running row without a task: its completion or its recovery failed.
StuckRun == up /\ \E i \in Running : exec[i].phase = "none"

(***************************************************************************)
(* Every run that is scheduled ends, completed, failed or cleared, unless  *)
(* a Running row lost its task; then every consumer of every repo waits    *)
(* for the next daemon start.                                              *)
(***************************************************************************)
EveryRunEnds ==
    \A i \in RunIds : IsActive(i) ~> (~IsActive(i) \/ StuckRun)
=============================================================================
