------------------------ MODULE LifecycleSpoolProofs ------------------------
(***************************************************************************)
(* Proofs about LifecycleSpool for any set of jobs, any retry budget and   *)
(* any number of crashes and SQLite faults, on a runtime database that     *)
(* holds no legacy stop-spool table.                                       *)
(***************************************************************************)
EXTENDS LifecycleSpool, FiniteSetTheorems, FunctionTheorems, TLAPS

NoLegacyTable == Legacy = {}

\* AUTOINCREMENT: sequences of present rows are fresh and pairwise distinct,
\* and a job whose hook has not inserted is not in the table.
SequencesDistinct ==
    /\ \A j \in Jobs : Present(j) => spool[j].sequence \in 1 .. lastSequence
    /\ \A j, k \in Jobs :
         (Present(j) /\ Present(k) /\ spool[j].sequence = spool[k].sequence) => j = k
    /\ \A j \in Jobs : hook[j] # "done" => ~Present(j)

\* How far each row may be into its budget: only a crash lets a row whose
\* last claim got no verdict be claimed once more.
BudgetByStatus ==
    \A j \in Jobs :
        /\ spool[j].status = "absent" => spool[j].attempts = 0
        /\ spool[j].status = "pending" => spool[j].attempts < MaxAttempts + crashes
        /\ spool[j].status = "running" =>
             /\ spool[j].attempts <= MaxAttempts + crashes
             /\ daemon # "up" => spool[j].attempts < MaxAttempts + crashes
        /\ spool[j].status = "failed" =>
             spool[j].attempts \in MaxAttempts .. (MaxAttempts + crashes)

\* The row about to be deleted was replayed to Ok.
SuccessWasApplied == worker.phase = "succeeded" => applied[worker.job] > 0

IInv ==
    /\ TypeOK
    /\ SequencesDistinct
    /\ RunningIsHead
    /\ ClaimStillHeld
    /\ BudgetByStatus
    /\ SuccessWasApplied

(***************************************************************************)
(* With no legacy table, opening the file copies nothing.                  *)
(***************************************************************************)
LEMMA MigrateCopiesNothing ==
    ASSUME NoLegacyTable, TypeOK, MigrateLegacy
    PROVE  spool' = spool /\ lastSequence' = lastSequence
<1>1. ToCopy = {}
  BY DEF NoLegacyTable, ToCopy
<1>2. Cardinality({}) = 0
  BY FS_EmptySet
<1>3. lastSequence' = lastSequence
  BY <1>1, <1>2 DEF MigrateLegacy, TypeOK
<1>4. spool' = spool
  BY <1>1 DEF MigrateLegacy, TypeOK
<1> QED BY <1>3, <1>4

LEMMA InitEstablishes ==
    ASSUME NoLegacyTable
    PROVE  Init => IInv
<1> SUFFICES ASSUME Init PROVE IInv
  OBVIOUS
<1> USE ConstantsAssumption DEF Init
<1>1. TypeOK
  BY DEF TypeOK, Row, NoRow, Idle, Statuses, Active
<1>2. \A j \in Jobs : spool[j] = NoRow
  OBVIOUS
<1>3. SequencesDistinct /\ RunningIsHead /\ BudgetByStatus
  BY <1>2 DEF SequencesDistinct, RunningIsHead, BudgetByStatus, Present, IsActive, NoRow, Active
<1>4. ClaimStillHeld /\ SuccessWasApplied
  BY DEF ClaimStillHeld, SuccessWasApplied, Idle
<1> QED BY <1>1, <1>3, <1>4 DEF IInv

(***************************************************************************)
(* Type correctness of every step.                                         *)
(***************************************************************************)
LEMMA TypePreserved ==
    ASSUME NoLegacyTable, TypeOK, ClaimStillHeld, [Next]_vars
    PROVE  TypeOK'
<1> USE ConstantsAssumption DEF TypeOK, Statuses, Active
<1>1. ASSUME NEW j \in Jobs, HookStep(j) PROVE TypeOK'
  <2>1. CASE OpenHookSafeSqlite(j)
    BY <2>1, MigrateCopiesNothing DEF OpenHookSafeSqlite
  <2>2. CASE InsertLifecycleJob(j)
    BY <2>2 DEF InsertLifecycleJob, Row
  <2>3. CASE HookInsertFault(j)
    BY <2>3 DEF HookInsertFault
  <2> QED BY <1>1, <2>1, <2>2, <2>3 DEF HookStep
<1>2. ASSUME DaemonStart PROVE TypeOK'
  <2>1. CASE InitialiseSchema
    BY <2>1, MigrateCopiesNothing DEF InitialiseSchema
  <2>2. CASE RecoverRunningJobs
    <3>1. spool' \in [Jobs -> Row]
      <4>1. ASSUME NEW j \in Jobs
            PROVE  [spool[j] EXCEPT !.status = "pending", !.ready = TRUE] \in Row
        <5>1. spool[j] \in Row
          OBVIOUS
        <5> QED BY ONLY <5>1 DEF Row, Statuses, Active
      <4> QED BY <2>2, <4>1 DEF RecoverRunningJobs
    <3> QED BY <2>2, <3>1 DEF RecoverRunningJobs
  <2>3. CASE RecoverFault
    BY <2>3 DEF RecoverFault
  <2> QED BY <1>2, <2>1, <2>2, <2>3 DEF DaemonStart
<1>3. ASSUME NEW j \in Jobs, ClaimNextLifecycleJob(j) PROVE TypeOK'
  <2>1. spool' \in [Jobs -> Row]
    <3>1. /\ spool' = [spool EXCEPT ![j] = [status |-> "running", sequence |-> spool[j].sequence,
                                         attempts |-> spool[j].attempts + 1,
                                         ready |-> spool[j].ready]]
          /\ spool[j].sequence \in Nat /\ spool[j].attempts \in Nat
          /\ spool[j].ready \in BOOLEAN
      BY <1>3 DEF ClaimNextLifecycleJob, Row
    <3> QED BY ONLY <3>1, TypeOK DEF TypeOK, Row, Statuses, Active
  <2> QED BY <1>3, <2>1 DEF ClaimNextLifecycleJob, Row
<1>4. ASSUME ProcessOk PROVE TypeOK'
  BY <1>4 DEF ProcessOk, ClaimStillHeld
<1>5. ASSUME ProcessErr PROVE TypeOK'
  BY <1>5 DEF ProcessErr
<1>6. ASSUME Settle PROVE TypeOK'
  <2>1. CASE DeleteLifecycleJob
    BY <2>1 DEF DeleteLifecycleJob, NoRow, Row, Idle
  <2>2. CASE MarkLifecycleJobFailed
    <3>1. spool' \in [Jobs -> Row]
      <4>1. [spool[worker.job] EXCEPT !.status = "failed"] \in Row
        <5>1. spool[worker.job] \in Row
          BY <2>2 DEF MarkLifecycleJobFailed, ClaimStillHeld
        <5> QED BY ONLY <5>1 DEF Row, Statuses, Active
      <4>2. spool' = [spool EXCEPT ![worker.job] = [spool[worker.job] EXCEPT !.status = "failed"]]
        BY ONLY <2>2 DEF MarkLifecycleJobFailed
      <4> QED BY ONLY <4>1, <4>2, TypeOK DEF TypeOK
    <3> QED BY <2>2, <3>1 DEF MarkLifecycleJobFailed, Idle
  <2>3. CASE RequeueLifecycleJob
    <3>1. spool' \in [Jobs -> Row]
      <4>1. [spool[worker.job] EXCEPT !.status = "pending", !.ready = FALSE] \in Row
        <5>1. spool[worker.job] \in Row
          BY <2>3 DEF RequeueLifecycleJob, ClaimStillHeld
        <5> QED BY ONLY <5>1 DEF Row, Statuses, Active
      <4> QED BY <2>3, <4>1 DEF RequeueLifecycleJob, Row
    <3> QED BY <2>3, <3>1 DEF RequeueLifecycleJob, Idle
  <2>4. CASE SettleFault
    BY <2>4 DEF SettleFault, Idle
  <2> QED BY <1>6, <2>1, <2>2, <2>3, <2>4 DEF Settle
<1>7. ASSUME NEW j \in Jobs, BackoffElapses(j) PROVE TypeOK'
  <2>1. spool' \in [Jobs -> Row]
    <3>1. [spool[j] EXCEPT !.ready = TRUE] \in Row
      <4>1. spool[j] \in Row
        OBVIOUS
      <4> QED BY ONLY <4>1 DEF Row
    <3>2. spool' = [spool EXCEPT ![j] = [spool[j] EXCEPT !.ready = TRUE]]
      BY ONLY <1>7 DEF BackoffElapses
    <3> QED BY ONLY <3>1, <3>2, TypeOK DEF TypeOK
  <2> QED BY <1>7, <2>1 DEF BackoffElapses
<1>8. ASSUME Crash PROVE TypeOK'
  BY <1>8 DEF Crash, Idle
<1>9. ASSUME UNCHANGED vars PROVE TypeOK'
  BY <1>9 DEF vars
<1> QED BY <1>1, <1>2, <1>3, <1>4, <1>5, <1>6, <1>7, <1>8, <1>9 DEF Next

(***************************************************************************)
(* IInv is preserved.  One step per action; under it the conjuncts the     *)
(* action can disturb.                                                     *)
(***************************************************************************)
LEMMA StepPreserves ==
    ASSUME NoLegacyTable, IInv, [Next]_vars
    PROVE  IInv'
<1> USE ConstantsAssumption DEF Active
<1>0. TypeOK /\ TypeOK'
  BY TypePreserved DEF IInv
<1>a. ASSUME spool' = spool, lastSequence' = lastSequence, hook' = hook
      PROVE  SequencesDistinct' /\ RunningIsHead'
  BY <1>a DEF IInv, SequencesDistinct, RunningIsHead, Present, IsActive
<1>b. ASSUME spool' = spool, crashes' = crashes, daemon' = daemon \/ daemon' = "up"
      PROVE  BudgetByStatus'
  BY <1>b DEF IInv, BudgetByStatus
<1>1. ASSUME NEW j \in Jobs, OpenHookSafeSqlite(j) PROVE IInv'
  <2>1. spool' = spool /\ lastSequence' = lastSequence
    BY <1>0, <1>1, MigrateCopiesNothing DEF OpenHookSafeSqlite
  <2>2. SequencesDistinct'
    BY <1>0, <1>1, <2>1 DEF IInv, OpenHookSafeSqlite, SequencesDistinct, Present, TypeOK
  <2>3. RunningIsHead' /\ BudgetByStatus'
    BY <1>1, <1>b, <2>1 DEF IInv, OpenHookSafeSqlite, RunningIsHead, IsActive
  <2>4. ClaimStillHeld' /\ SuccessWasApplied'
    BY <1>1, <2>1 DEF IInv, OpenHookSafeSqlite, ClaimStillHeld, SuccessWasApplied
  <2> QED BY <1>0, <2>2, <2>3, <2>4 DEF IInv
<1>2. ASSUME NEW j \in Jobs, InsertLifecycleJob(j) PROVE IInv'
  <2> USE <1>0, <1>2 DEF IInv, InsertLifecycleJob, TypeOK
  <2>1. ~Present(j)
    BY DEF SequencesDistinct
  <2>2. /\ spool'[j] = [status |-> "pending", sequence |-> lastSequence + 1,
                        attempts |-> 0, ready |-> TRUE]
        /\ \A k \in Jobs : k # j => spool'[k] = spool[k]
    OBVIOUS
  <2>3. \A k \in Jobs : Present(k) => spool[k].sequence <= lastSequence
    BY DEF SequencesDistinct
  <2>4. SequencesDistinct'
    BY <2>2, <2>3 DEF SequencesDistinct, Present
  <2>5. RunningIsHead'
    BY <2>2, <2>3 DEF RunningIsHead, IsActive, Present, Row
  <2>6. BudgetByStatus'
    BY <2>2 DEF BudgetByStatus
  <2>7. ClaimStillHeld' /\ SuccessWasApplied'
    BY <2>1, <2>2 DEF ClaimStillHeld, SuccessWasApplied, Present
  <2> QED BY <2>4, <2>5, <2>6, <2>7
<1>3. ASSUME NEW j \in Jobs, HookInsertFault(j) PROVE IInv'
  <2>1. SequencesDistinct'
    BY <1>0, <1>3 DEF IInv, HookInsertFault, SequencesDistinct, Present, TypeOK
  <2>2. RunningIsHead' /\ BudgetByStatus'
    BY <1>3, <1>b DEF IInv, HookInsertFault, RunningIsHead, IsActive
  <2>3. ClaimStillHeld' /\ SuccessWasApplied'
    BY <1>3 DEF IInv, HookInsertFault, ClaimStillHeld, SuccessWasApplied
  <2> QED BY <1>0, <2>1, <2>2, <2>3 DEF IInv
<1>4. ASSUME InitialiseSchema PROVE IInv'
  <2>1. spool' = spool /\ lastSequence' = lastSequence
    BY <1>0, <1>4, MigrateCopiesNothing DEF InitialiseSchema
  <2>2. SequencesDistinct' /\ RunningIsHead'
    BY <1>4, <1>a, <2>1 DEF InitialiseSchema
  <2>3. BudgetByStatus'
    BY <1>4, <2>1 DEF IInv, BudgetByStatus, InitialiseSchema
  <2>4. ClaimStillHeld' /\ SuccessWasApplied'
    BY <1>4, <2>1 DEF IInv, InitialiseSchema, ClaimStillHeld, SuccessWasApplied
  <2> QED BY <1>0, <2>2, <2>3, <2>4 DEF IInv
<1>5. ASSUME RecoverRunningJobs PROVE IInv'
  <2>1. \A k \in Jobs :
           /\ spool'[k].sequence = spool[k].sequence
           /\ spool'[k].attempts = spool[k].attempts
           /\ spool'[k].status =
                IF spool[k].status = "running" THEN "pending" ELSE spool[k].status
    <3> SUFFICES ASSUME NEW k \in Jobs
                 PROVE  /\ spool'[k].sequence = spool[k].sequence
                        /\ spool'[k].attempts = spool[k].attempts
                        /\ spool'[k].status =
                             IF spool[k].status = "running" THEN "pending" ELSE spool[k].status
      OBVIOUS
    <3>1. spool[k] \in Row
      BY <1>0 DEF TypeOK
    <3>2. spool'[k] = IF spool[k].status = "running"
                      THEN [spool[k] EXCEPT !.status = "pending", !.ready = TRUE]
                      ELSE spool[k]
      BY <1>5 DEF RecoverRunningJobs
    <3> QED BY ONLY <3>1, <3>2 DEF Row
  <2>2. /\ daemon = "opened" /\ daemon' = "up"
        /\ UNCHANGED <<lastSequence, hook, worker, applied, crashes, faults>>
    BY <1>5 DEF RecoverRunningJobs
  <2>3. SequencesDistinct'
    BY <2>1, <2>2 DEF IInv, SequencesDistinct, Present
  <2>4. RunningIsHead'
    <3>1. \A k \in Jobs : spool'[k].status # "running"
      BY ONLY <2>1
    <3> QED BY ONLY <3>1 DEF RunningIsHead
  <2>5. BudgetByStatus'
    BY <2>1, <2>2 DEF IInv, BudgetByStatus
  <2>6. ClaimStillHeld' /\ SuccessWasApplied'
    BY <2>2 DEF IInv, ClaimStillHeld, SuccessWasApplied
  <2> QED BY <1>0, <2>3, <2>4, <2>5, <2>6 DEF IInv
<1>6. ASSUME RecoverFault PROVE IInv'
  <2>1. BudgetByStatus'
    BY <1>6, <1>b DEF RecoverFault
  <2>2. ClaimStillHeld' /\ SuccessWasApplied'
    BY <1>6 DEF IInv, RecoverFault, ClaimStillHeld, SuccessWasApplied
  <2> QED BY <1>0, <1>6, <1>a, <2>1, <2>2 DEF IInv, RecoverFault
<1>7. ASSUME NEW j \in Jobs, ClaimNextLifecycleJob(j) PROVE IInv'
  <2> USE <1>0, <1>7 DEF IInv, ClaimNextLifecycleJob, TypeOK
  <2>1. /\ \A k \in Jobs : k # j => spool'[k] = spool[k]
        /\ spool'[j].status = "running"
        /\ spool'[j].sequence = spool[j].sequence
        /\ spool'[j].attempts = spool[j].attempts + 1
    BY DEF Row
  <2>2. spool[j].status = "pending"
    BY DEF OldestActive, IsActive
  <2>3. SequencesDistinct'
    BY <2>1, <2>2 DEF SequencesDistinct, Present
  <2>4. \A k \in Jobs : (k # j /\ IsActive(k)) => spool[j].sequence < spool[k].sequence
    <3>1. \A k \in Jobs : IsActive(k) => Present(k) /\ spool[k].sequence \in Nat
      BY DEF IsActive, Present, Row
    <3>2. \A k \in Jobs : IsActive(k) => spool[j].sequence <= spool[k].sequence
      BY DEF OldestActive
    <3>3. \A k \in Jobs : IsActive(k) /\ k # j => spool[j].sequence # spool[k].sequence
      BY <3>1 DEF SequencesDistinct, OldestActive
    <3>4. spool[j].sequence \in Nat
      BY DEF Row
    <3> QED BY ONLY <3>1, <3>2, <3>3, <3>4
  <2>5. RunningIsHead'
    <3>1. \A k \in Jobs : k # j => spool[k].status # "running"
      BY <2>2, <2>4 DEF RunningIsHead, IsActive, Row
    <3>2. \A k \in Jobs : spool'[k].sequence = spool[k].sequence
      BY <2>1
    <3>3. \A k \in Jobs : k # j => (IsActive(k)' <=> IsActive(k)) /\ spool'[k].status # "running"
      BY <2>1, <3>1 DEF IsActive
    <3> QED BY ONLY <2>4, <3>2, <3>3 DEF RunningIsHead
  <2>6. BudgetByStatus'
    BY <2>1, <2>2 DEF BudgetByStatus, Row
  <2>7. ClaimStillHeld' /\ SuccessWasApplied'
    BY <2>1 DEF ClaimStillHeld, SuccessWasApplied
  <2> QED BY <2>3, <2>5, <2>6, <2>7
<1>8. ASSUME ProcessOk PROVE IInv'
  <2>1. SequencesDistinct' /\ RunningIsHead' /\ BudgetByStatus'
    BY <1>8, <1>a, <1>b DEF ProcessOk
  <2>2. ClaimStillHeld'
    BY <1>0, <1>8 DEF IInv, ProcessOk, ClaimStillHeld, TypeOK
  <2>3. SuccessWasApplied'
    BY <1>0, <1>8 DEF IInv, ProcessOk, ClaimStillHeld, SuccessWasApplied, TypeOK
  <2> QED BY <1>0, <2>1, <2>2, <2>3 DEF IInv
<1>9. ASSUME ProcessErr PROVE IInv'
  <2>1. SequencesDistinct' /\ RunningIsHead' /\ BudgetByStatus'
    BY <1>9, <1>a, <1>b DEF ProcessErr
  <2>2. ClaimStillHeld' /\ SuccessWasApplied'
    BY <1>0, <1>9 DEF IInv, ProcessErr, ClaimStillHeld, SuccessWasApplied, TypeOK
  <2> QED BY <1>0, <2>1, <2>2 DEF IInv
<1>10. ASSUME DeleteLifecycleJob PROVE IInv'
  <2> USE <1>0, <1>10 DEF IInv, DeleteLifecycleJob, TypeOK
  <2>1. /\ \A k \in Jobs : k # worker.job => spool'[k] = spool[k]
        /\ spool'[worker.job] = NoRow
    BY DEF ClaimStillHeld
  <2>2. SequencesDistinct'
    BY <2>1 DEF SequencesDistinct, Present, NoRow
  <2>3. RunningIsHead'
    BY <2>1 DEF RunningIsHead, IsActive, NoRow
  <2>4. BudgetByStatus'
    BY <2>1 DEF BudgetByStatus, NoRow
  <2>5. ClaimStillHeld' /\ SuccessWasApplied'
    BY DEF ClaimStillHeld, SuccessWasApplied, Idle
  <2> QED BY <2>2, <2>3, <2>4, <2>5
<1>11. ASSUME MarkLifecycleJobFailed PROVE IInv'
  <2> USE <1>0, <1>11 DEF IInv, MarkLifecycleJobFailed, TypeOK
  <2>1. /\ \A k \in Jobs : k # worker.job => spool'[k] = spool[k]
        /\ spool'[worker.job].status = "failed"
        /\ spool'[worker.job].sequence = spool[worker.job].sequence
        /\ spool'[worker.job].attempts = spool[worker.job].attempts
    BY DEF ClaimStillHeld, Row
  <2>2. SequencesDistinct'
    BY <2>1 DEF SequencesDistinct, Present, ClaimStillHeld
  <2>3. RunningIsHead'
    BY <2>1 DEF RunningIsHead, IsActive
  <2>4. BudgetByStatus'
    BY <2>1 DEF BudgetByStatus, BudgetSpent, ClaimStillHeld, Row
  <2>5. ClaimStillHeld' /\ SuccessWasApplied'
    BY DEF ClaimStillHeld, SuccessWasApplied, Idle
  <2> QED BY <2>2, <2>3, <2>4, <2>5
<1>12. ASSUME RequeueLifecycleJob PROVE IInv'
  <2> USE <1>0, <1>12 DEF IInv, RequeueLifecycleJob, TypeOK
  <2>1. /\ \A k \in Jobs : k # worker.job => spool'[k] = spool[k]
        /\ spool'[worker.job].status = "pending"
        /\ spool'[worker.job].sequence = spool[worker.job].sequence
        /\ spool'[worker.job].attempts = spool[worker.job].attempts
    BY DEF ClaimStillHeld, Row
  <2>2. SequencesDistinct'
    BY <2>1 DEF SequencesDistinct, Present, ClaimStillHeld
  <2>3. RunningIsHead'
    BY <2>1 DEF RunningIsHead, IsActive, ClaimStillHeld
  <2>4. BudgetByStatus'
    BY <2>1 DEF BudgetByStatus, BudgetSpent, ClaimStillHeld, Row
  <2>5. ClaimStillHeld' /\ SuccessWasApplied'
    BY DEF ClaimStillHeld, SuccessWasApplied, Idle
  <2> QED BY <2>2, <2>3, <2>4, <2>5
<1>13. ASSUME SettleFault PROVE IInv'
  <2>1. ClaimStillHeld' /\ SuccessWasApplied'
    BY <1>13 DEF SettleFault, ClaimStillHeld, SuccessWasApplied, Idle
  <2> QED BY <1>0, <1>13, <1>a, <1>b, <2>1 DEF IInv, SettleFault
<1>14. ASSUME NEW j \in Jobs, BackoffElapses(j) PROVE IInv'
  <2> USE <1>0, <1>14 DEF IInv, BackoffElapses, TypeOK
  <2>1. \A k \in Jobs : /\ spool'[k].status = spool[k].status
                         /\ spool'[k].sequence = spool[k].sequence
                         /\ spool'[k].attempts = spool[k].attempts
    BY DEF Row
  <2>2. SequencesDistinct' /\ RunningIsHead' /\ BudgetByStatus'
    BY <2>1 DEF SequencesDistinct, RunningIsHead, BudgetByStatus, Present, IsActive
  <2>3. ClaimStillHeld' /\ SuccessWasApplied'
    BY <2>1 DEF ClaimStillHeld, SuccessWasApplied
  <2> QED BY <2>2, <2>3
<1>15. ASSUME Crash PROVE IInv'
  <2>1. BudgetByStatus'
    BY <1>0, <1>15 DEF IInv, BudgetByStatus, Crash, TypeOK, Row
  <2>2. ClaimStillHeld' /\ SuccessWasApplied'
    BY <1>15 DEF Crash, ClaimStillHeld, SuccessWasApplied, Idle
  <2> QED BY <1>0, <1>15, <1>a, <2>1, <2>2 DEF IInv, Crash
<1>16. ASSUME UNCHANGED vars PROVE IInv'
  <2>1. ClaimStillHeld' /\ SuccessWasApplied'
    BY <1>16 DEF IInv, vars, ClaimStillHeld, SuccessWasApplied
  <2> QED BY <1>0, <1>16, <1>a, <1>b, <2>1 DEF IInv, vars
<1> QED
  BY <1>1, <1>2, <1>3, <1>4, <1>5, <1>6, <1>7, <1>8, <1>9, <1>10, <1>11, <1>12,
     <1>13, <1>14, <1>15, <1>16
  DEF Next, HookStep, DaemonStart, Settle

LEMMA Inductive ==
    ASSUME NoLegacyTable
    PROVE  Spec => []IInv
<1>1. Init => IInv
  BY InitEstablishes
<1>2. IInv /\ [Next]_vars => IInv'
  BY StepPreserves
<1> QED BY <1>1, <1>2, PTL DEF Spec

(***************************************************************************)
(* Type correctness of the spool, the hooks and the worker.                *)
(***************************************************************************)
THEOREM SpoolTypeOK ==
    ASSUME NoLegacyTable
    PROVE  Spec => []TypeOK
<1>1. IInv => TypeOK
  BY DEF IInv
<1> QED BY <1>1, Inductive, PTL

(***************************************************************************)
(* claim_next_lifecycle_job, recover_running_lifecycle_jobs and the        *)
(* concurrent hook inserts keep processing sequential and in enqueue       *)
(* order, whatever crashes and faults happen in between.                   *)
(***************************************************************************)
THEOREM SpoolIsSequentialFifo ==
    ASSUME NoLegacyTable
    PROVE  Spec => []RunningIsHead
<1>1. IInv => RunningIsHead
  BY DEF IInv
<1> QED BY <1>1, Inductive, PTL

(***************************************************************************)
(* The record process_lifecycle_spool_once holds is current until it       *)
(* settles.                                                                *)
(***************************************************************************)
THEOREM SpoolClaimStillHeld ==
    ASSUME NoLegacyTable
    PROVE  Spec => []ClaimStillHeld
<1>1. IInv => ClaimStillHeld
  BY DEF IInv
<1> QED BY <1>1, Inductive, PTL

(***************************************************************************)
(* fail_or_requeue_lifecycle_job spends exactly the budget; only crashes   *)
(* add claims to it.                                                       *)
(***************************************************************************)
THEOREM SpoolRetryBudget ==
    ASSUME NoLegacyTable
    PROVE  Spec => []RetryBudget
<1>1. IInv => RetryBudget
  <2> SUFFICES ASSUME IInv, NEW j \in Jobs
               PROVE  /\ spool[j].attempts <= MaxAttempts + crashes
                      /\ spool[j].status = "failed" => spool[j].attempts >= MaxAttempts
    BY DEF RetryBudget
  <2>1. spool[j].status \in {"pending", "running", "failed", "absent"}
    BY DEF IInv, TypeOK, Row, Statuses, Active
  <2>2. spool[j].attempts \in Nat /\ crashes \in Nat /\ MaxAttempts \in Nat
    BY ConstantsAssumption DEF IInv, TypeOK, Row
  <2> QED BY <2>1, <2>2 DEF IInv, BudgetByStatus
<1> QED BY <1>1, Inductive, PTL

(***************************************************************************)
(* At-least-once: delete_lifecycle_job only ever removes a replayed job,   *)
(* and nothing touches a dead letter.                                      *)
(***************************************************************************)
THEOREM SpoolLeavesOnlyAfterSuccess ==
    ASSUME NoLegacyTable
    PROVE  Spec => LeavesOnlyAfterSuccess
<1> DEFINE Step(j) == Present(j) => /\ spool'[j].status = "absent" => applied[j] > 0
                                    /\ spool[j].status = "failed" => spool'[j] = spool[j]
<1>1. ASSUME IInv, [Next]_vars, NEW j \in Jobs PROVE Step(j)
  <2> USE <1>1 DEF IInv, Present
  <2>0. TypeOK
    OBVIOUS
  <2>1. CASE spool' = spool
    BY <2>1
  <2>2. ASSUME NEW k \in Jobs, OpenHookSafeSqlite(k) PROVE Step(j)
    BY <2>0, <2>2, <2>1, MigrateCopiesNothing DEF OpenHookSafeSqlite
  <2>3. CASE InitialiseSchema
    BY <2>0, <2>3, <2>1, MigrateCopiesNothing DEF InitialiseSchema
  <2>4. ASSUME NEW k \in Jobs, InsertLifecycleJob(k) PROVE Step(j)
    BY <2>4 DEF InsertLifecycleJob, SequencesDistinct, TypeOK
  <2>5. CASE RecoverRunningJobs
    BY <2>5 DEF RecoverRunningJobs, TypeOK, Row
  <2>6. ASSUME NEW k \in Jobs, ClaimNextLifecycleJob(k) PROVE Step(j)
    BY <2>6 DEF ClaimNextLifecycleJob, OldestActive, IsActive, Active, TypeOK, Row
  <2>7. CASE DeleteLifecycleJob
    BY <2>7 DEF DeleteLifecycleJob, ClaimStillHeld, SuccessWasApplied, TypeOK
  <2>8. CASE MarkLifecycleJobFailed
    BY <2>8 DEF MarkLifecycleJobFailed, ClaimStillHeld, TypeOK, Row
  <2>9. CASE RequeueLifecycleJob
    BY <2>9 DEF RequeueLifecycleJob, ClaimStillHeld, TypeOK, Row
  <2>10. ASSUME NEW k \in Jobs, BackoffElapses(k) PROVE Step(j)
    BY <2>10 DEF BackoffElapses, TypeOK, Row
  <2>11. CASE \/ \E k \in Jobs : HookInsertFault(k)
              \/ RecoverFault \/ ProcessOk \/ ProcessErr \/ SettleFault \/ Crash
              \/ UNCHANGED vars
    BY <2>1, <2>11 DEF HookInsertFault, RecoverFault, ProcessOk, ProcessErr,
                       SettleFault, Crash, vars
  <2> QED
    BY <2>2, <2>3, <2>4, <2>5, <2>6, <2>7, <2>8, <2>9, <2>10, <2>11
    DEF Next, HookStep, DaemonStart, Settle
<1>2. IInv /\ [Next]_vars => [\A j \in Jobs : Step(j)]_vars
  BY <1>1
<1> QED BY <1>2, Inductive, PTL DEF Spec, LeavesOnlyAfterSuccess

-----------------------------------------------------------------------------
(* The refinement of FifoDelivery *)

\* Distinct sequences put the members of A in one order.
SequencedSet(A, seq) ==
    /\ IsFiniteSet(A)
    /\ \A j \in A : seq[j] \in Nat
    /\ \A j, k \in A : seq[j] = seq[k] => j = k

(***************************************************************************)
(* Distinct sequences give distinct positions, and every position from 1   *)
(* to the number of members is taken.                                      *)
(***************************************************************************)
LEMMA PositionIsBijection ==
    ASSUME NEW A, NEW seq, SequencedSet(A, seq)
    PROVE  /\ Cardinality(A) \in Nat
           /\ \A j \in A : Position(A, seq, j) \in 1 .. Cardinality(A)
           /\ \A j, k \in A : Position(A, seq, j) = Position(A, seq, k) => j = k
           /\ \A i \in 1 .. Cardinality(A) : \E j \in A : Position(A, seq, j) = i
<1> USE DEF SequencedSet
<1> DEFINE upTo(j) == {k \in A : seq[k] <= seq[j]}
           n == Cardinality(A)
<1>1. n \in Nat
  BY FS_CardinalityType
<1>2. \A j \in A : /\ upTo(j) \in SUBSET A
                   /\ IsFiniteSet(upTo(j))
                   /\ Cardinality(upTo(j)) \in Nat
                   /\ Cardinality(upTo(j)) <= n
  BY FS_Subset, FS_CardinalityType
<1>3. \A j \in A : Cardinality(upTo(j)) \in 1 .. n
  <2> SUFFICES ASSUME NEW j \in A PROVE Cardinality(upTo(j)) # 0
    BY <1>1, <1>2
  <2>1. j \in upTo(j)
    OBVIOUS
  <2> QED BY <1>2, <2>1, FS_EmptySet
<1>4. ASSUME NEW j \in A, NEW k \in A, seq[j] < seq[k]
      PROVE  Cardinality(upTo(j)) # Cardinality(upTo(k))
  <2>1. upTo(j) \in SUBSET upTo(k)
    BY <1>4
  <2>2. k \in upTo(k) /\ k \notin upTo(j)
    BY <1>4
  <2>3. IsFiniteSet(upTo(k))
    BY <1>2
  <2> HIDE DEF upTo
  <2> QED BY ONLY <2>1, <2>2, <2>3, FS_Subset
<1>5. \A j, k \in A : Cardinality(upTo(j)) = Cardinality(upTo(k)) => j = k
  <2> SUFFICES ASSUME NEW j \in A, NEW k \in A, j # k
               PROVE  Cardinality(upTo(j)) # Cardinality(upTo(k))
    OBVIOUS
  <2>1. seq[j] < seq[k] \/ seq[k] < seq[j]
    OBVIOUS
  <2> QED BY <1>4, <2>1
<1> DEFINE pos == [j \in A |-> Cardinality(upTo(j))]
<1>6. pos \in Injection(A, 1 .. n)
  BY <1>3, <1>5 DEF Injection, IsInjective
<1>7. IsFiniteSet(1 .. n) /\ Cardinality(1 .. n) = n
  BY <1>1, FS_Interval
<1>8. pos \in Surjection(A, 1 .. n)
  <2> HIDE DEF pos, upTo
  <2> QED BY <1>6, <1>7, FS_Injection
<1>9. \A i \in 1 .. n : \E j \in A : Cardinality(upTo(j)) = i
  BY <1>8 DEF Surjection
<1> QED BY <1>1, <1>3, <1>5, <1>9 DEF Position

(***************************************************************************)
(* Ordered lists each member of the set once, at its position.             *)
(***************************************************************************)
LEMMA OrderedListsEach ==
    ASSUME NEW A, NEW seq, SequencedSet(A, seq)
    PROVE  /\ Ordered(A, seq) \in Seq(A)
           /\ Len(Ordered(A, seq)) = Cardinality(A)
           /\ \A i \in 1 .. Cardinality(A) :
                /\ Ordered(A, seq)[i] \in A
                /\ Position(A, seq, Ordered(A, seq)[i]) = i
           /\ \A j \in A : Ordered(A, seq)[Position(A, seq, j)] = j
<1>1. /\ Cardinality(A) \in Nat
      /\ \A j \in A : Position(A, seq, j) \in 1 .. Cardinality(A)
      /\ \A j, k \in A : Position(A, seq, j) = Position(A, seq, k) => j = k
      /\ \A i \in 1 .. Cardinality(A) : \E j \in A : Position(A, seq, j) = i
  BY PositionIsBijection
<1>2. \A i \in 1 .. Cardinality(A) :
        /\ Ordered(A, seq)[i] \in A
        /\ Position(A, seq, Ordered(A, seq)[i]) = i
  BY <1>1 DEF Ordered
<1>3. Ordered(A, seq) \in [1 .. Cardinality(A) -> A]
  BY <1>2 DEF Ordered
<1> QED BY <1>1, <1>2, <1>3

(***************************************************************************)
(* Two listings agree when every position names the same member.           *)
(***************************************************************************)
LEMMA SameOrder ==
    ASSUME NEW A, NEW seq, NEW seq2, SequencedSet(A, seq),
           \A j \in A : seq2[j] = seq[j]
    PROVE  Ordered(A, seq2) = Ordered(A, seq)
<1>1. \A j \in A : Position(A, seq2, j) = Position(A, seq, j)
  <2> SUFFICES ASSUME NEW j \in A
               PROVE  {k \in A : seq2[k] <= seq2[j]} = {k \in A : seq[k] <= seq[j]}
    BY DEF Position
  <2> QED OBVIOUS
<1>2. SequencedSet(A, seq2)
  BY DEF SequencedSet
<1>3. \A i \in 1 .. Cardinality(A) : Ordered(A, seq2)[i] = Ordered(A, seq)[i]
  BY <1>1, <1>2, OrderedListsEach
<1> QED BY <1>3 DEF Ordered

(***************************************************************************)
(* AUTOINCREMENT: a row with a sequence above all others goes to the end.  *)
(***************************************************************************)
LEMMA InsertAppends ==
    ASSUME NEW A, NEW seq, NEW seq2, SequencedSet(A, seq),
           NEW x, x \notin A, seq2[x] \in Nat,
           \A j \in A : seq2[j] = seq[j] /\ seq[j] < seq2[x]
    PROVE  Ordered(A \cup {x}, seq2) = Append(Ordered(A, seq), x)
<1> DEFINE B == A \cup {x}
           n == Cardinality(A)
<1>1. IsFiniteSet(B) /\ Cardinality(B) = n + 1 /\ n \in Nat
  BY FS_AddElement, FS_CardinalityType DEF SequencedSet
<1>2. SequencedSet(B, seq2)
  BY <1>1 DEF SequencedSet
<1>3. \A j \in A : Position(B, seq2, j) = Position(A, seq, j)
  <2> SUFFICES ASSUME NEW j \in A
               PROVE  {k \in B : seq2[k] <= seq2[j]} = {k \in A : seq[k] <= seq[j]}
    BY DEF Position
  <2> QED BY DEF SequencedSet
<1>4. Position(B, seq2, x) = n + 1
  <2>1. {k \in B : seq2[k] <= seq2[x]} = B
    BY DEF SequencedSet
  <2> QED BY <1>1, <2>1 DEF Position
<1> DEFINE q == Ordered(A, seq)
           r == Ordered(B, seq2)
<1>5. /\ Len(q) = n /\ q \in Seq(A)
      /\ \A j \in A : q[Position(A, seq, j)] = j
  BY OrderedListsEach
<1>6. /\ Len(r) = n + 1 /\ r \in Seq(B)
      /\ \A i \in 1 .. n + 1 : r[i] \in B /\ Position(B, seq2, r[i]) = i
      /\ r[n + 1] = x
  <2>1. /\ r \in Seq(B) /\ Len(r) = Cardinality(B)
        /\ \A i \in 1 .. Cardinality(B) : r[i] \in B /\ Position(B, seq2, r[i]) = i
        /\ \A j \in B : r[Position(B, seq2, j)] = j
    BY <1>2, OrderedListsEach
  <2>2. x \in B
    OBVIOUS
  <2> HIDE DEF B, r
  <2> QED BY <1>1, <1>4, <2>1, <2>2
<1> HIDE DEF q, r
<1>7. \A i \in 1 .. n : r[i] = q[i]
  <2> SUFFICES ASSUME NEW i \in 1 .. n PROVE r[i] = q[i]
    OBVIOUS
  <2>1. i \in 1 .. n + 1 /\ i # n + 1
    BY <1>1
  <2>2. r[i] \in A
    BY <1>4, <1>6, <2>1
  <2> QED BY <1>3, <1>5, <1>6, <2>1, <2>2
<1>8. /\ Append(q, x) \in Seq(B) /\ Len(Append(q, x)) = n + 1
      /\ \A i \in 1 .. n + 1 : Append(q, x)[i] = IF i = n + 1 THEN x ELSE q[i]
  BY <1>1, <1>5
<1>9. r = Append(q, x)
  BY ONLY <1>1, <1>6, <1>7, <1>8
<1> QED BY <1>9 DEF q, r

(***************************************************************************)
(* The oldest row is the head, and without it the tail is left.            *)
(***************************************************************************)
LEMMA OldestIsHead ==
    ASSUME NEW A, NEW seq, SequencedSet(A, seq),
           NEW h \in A, \A j \in A : seq[h] <= seq[j]
    PROVE  /\ Position(A, seq, h) = 1
           /\ Ordered(A, seq) # <<>>
           /\ Head(Ordered(A, seq)) = h
<1>1. {k \in A : seq[k] <= seq[h]} = {h}
  BY DEF SequencedSet
<1>2. Position(A, seq, h) = 1
  BY <1>1, FS_Singleton DEF Position
<1>3. /\ Ordered(A, seq) \in Seq(A) /\ Ordered(A, seq)[1] = h
      /\ Len(Ordered(A, seq)) = Cardinality(A)
  BY <1>2, OrderedListsEach
<1>4. Cardinality(A) # 0 /\ Cardinality(A) \in Nat
  BY FS_EmptySet, FS_CardinalityType DEF SequencedSet
<1> QED BY <1>2, <1>3, <1>4

LEMMA RemoveOldestLeavesTail ==
    ASSUME NEW A, NEW seq, NEW seq2, SequencedSet(A, seq),
           NEW h \in A, \A j \in A : seq[h] <= seq[j],
           \A j \in A \ {h} : seq2[j] = seq[j]
    PROVE  Ordered(A \ {h}, seq2) = Tail(Ordered(A, seq))
<1> DEFINE B == A \ {h}
           n == Cardinality(A)
<1>1. IsFiniteSet(B) /\ Cardinality(B) = n - 1 /\ n \in Nat /\ n # 0
  BY FS_RemoveElement, FS_CardinalityType, FS_EmptySet DEF SequencedSet
<1>2. SequencedSet(B, seq2)
  BY <1>1 DEF SequencedSet
<1>3. \A j \in B : Position(B, seq2, j) = Position(A, seq, j) - 1
  <2> SUFFICES ASSUME NEW j \in B
               PROVE  Position(B, seq2, j) = Position(A, seq, j) - 1
    OBVIOUS
  <2> DEFINE upTo == {k \in A : seq[k] <= seq[j]}
  <2>1. {k \in B : seq2[k] <= seq2[j]} = upTo \ {h}
    OBVIOUS
  <2>2. h \in upTo
    OBVIOUS
  <2>3. IsFiniteSet(upTo)
    BY FS_Subset DEF SequencedSet
  <2> HIDE DEF upTo
  <2>4. Cardinality(upTo \ {h}) = Cardinality(upTo) - 1
    BY <2>2, <2>3, FS_RemoveElement
  <2> QED BY <2>1, <2>4 DEF Position, upTo
<1> DEFINE q == Ordered(A, seq)
           r == Ordered(B, seq2)
<1>4. /\ Len(q) = n /\ q \in Seq(A)
      /\ \A j \in A : q[Position(A, seq, j)] = j
      /\ \A j \in A : Position(A, seq, j) \in Nat
  BY OrderedListsEach, PositionIsBijection
<1>5. /\ Len(r) = n - 1 /\ r \in Seq(B)
      /\ \A i \in 1 .. n - 1 : r[i] \in B /\ Position(B, seq2, r[i]) = i
  BY <1>1, <1>2, OrderedListsEach
<1> HIDE DEF q, r
<1>6. \A i \in 1 .. n - 1 : r[i] = q[i + 1]
  <2> SUFFICES ASSUME NEW i \in 1 .. n - 1 PROVE r[i] = q[i + 1]
    OBVIOUS
  <2>1. r[i] \in B /\ Position(B, seq2, r[i]) = i
    BY <1>5
  <2>2. Position(A, seq, r[i]) = i + 1
    BY <1>3, <1>4, <2>1
  <2> QED BY <1>4, <2>1, <2>2
<1>7. /\ Tail(q) \in Seq(A) /\ Len(Tail(q)) = n - 1
      /\ \A i \in 1 .. n - 1 : Tail(q)[i] = q[i + 1]
  BY <1>1, <1>4
<1>8. r = Tail(q)
  BY ONLY <1>1, <1>5, <1>6, <1>7
<1> QED BY <1>8 DEF q, r

(***************************************************************************)
(* Active rows have distinct sequences below the AUTOINCREMENT counter, so *)
(* they are finitely many and in one order.                                *)
(***************************************************************************)
LEMMA ActiveRowsSequenced ==
    ASSUME IInv
    PROVE  SequencedSet(ActiveJobs, SequenceOf)
<1> USE DEF IInv, TypeOK
<1>1. \A j \in ActiveJobs : j \in Jobs /\ Present(j)
  BY DEF ActiveJobs, IsActive, Active, Present
<1>2. \A j \in ActiveJobs : SequenceOf[j] \in 1 .. lastSequence
  BY <1>1 DEF SequenceOf, SequencesDistinct
<1>3. \A j, k \in ActiveJobs : SequenceOf[j] = SequenceOf[k] => j = k
  BY <1>1 DEF SequenceOf, SequencesDistinct
<1>4. IsFiniteSet(ActiveJobs)
  <2> DEFINE f == [j \in ActiveJobs |-> SequenceOf[j]]
  <2>1. f \in Injection(ActiveJobs, 1 .. lastSequence)
    BY <1>2, <1>3 DEF Injection, IsInjective
  <2>2. IsFiniteSet(1 .. lastSequence)
    BY FS_Interval
  <2> QED BY <2>1, <2>2, FS_Injection
<1> QED BY <1>2, <1>3, <1>4 DEF SequencedSet

(***************************************************************************)
(* The job the worker replays or settles is the head of the queue.         *)
(***************************************************************************)
LEMMA ClaimedIsHead ==
    ASSUME IInv, worker.phase # "idle"
    PROVE  /\ worker.job \in ActiveJobs
           /\ \A k \in ActiveJobs : SequenceOf[worker.job] <= SequenceOf[k]
           /\ SpoolQueue # <<>>
           /\ Head(SpoolQueue) = worker.job
<1>1. worker.job \in Jobs /\ spool[worker.job].status = "running"
  BY DEF IInv, ClaimStillHeld
<1>2. worker.job \in ActiveJobs
  BY <1>1 DEF ActiveJobs, IsActive, Active
<1>3. \A k \in ActiveJobs : SequenceOf[worker.job] <= SequenceOf[k]
  <2> SUFFICES ASSUME NEW k \in ActiveJobs
               PROVE  spool[worker.job].sequence <= spool[k].sequence
    BY <1>1 DEF SequenceOf, ActiveJobs
  <2>1. k \in Jobs /\ IsActive(k)
    BY DEF ActiveJobs
  <2>2. spool[worker.job].sequence \in Nat /\ spool[k].sequence \in Nat
    BY <1>1, <2>1 DEF IInv, TypeOK, Row
  <2>3. k # worker.job => spool[worker.job].sequence < spool[k].sequence
    BY <1>1, <2>1 DEF IInv, RunningIsHead
  <2> QED BY <2>2, <2>3
<1> QED BY <1>2, <1>3, ActiveRowsSequenced, OldestIsHead DEF SpoolQueue

\* What the abstract queue does not see: no row changes its place in the
\* order, becomes active or dead, or is replayed.
Invisible ==
    /\ \A k \in Jobs : /\ spool'[k].status \in Active <=> spool[k].status \in Active
                       /\ spool'[k].status = "failed" <=> spool[k].status = "failed"
                       /\ spool'[k].sequence = spool[k].sequence
    /\ applied' = applied

LEMMA InvisibleIsStutter ==
    ASSUME Invisible
    PROVE  UNCHANGED Fifo!fvars
<1>1. ActiveJobs' = ActiveJobs
  BY DEF Invisible, ActiveJobs, IsActive
<1>2. SequenceOf' = SequenceOf
  BY DEF Invisible, SequenceOf
<1>3. DeadLetters' = DeadLetters
  BY DEF Invisible, DeadLetters
<1>4. SpoolQueue' = SpoolQueue
  BY <1>1, <1>2 DEF SpoolQueue
<1> QED BY <1>3, <1>4 DEF Fifo!fvars, Invisible

(***************************************************************************)
(* Each step of the spool is a step of the durable queue or invisible.     *)
(***************************************************************************)
LEMMA InsertIsAppend ==
    ASSUME IInv, NEW j \in Jobs, InsertLifecycleJob(j)
    PROVE  Fifo!Append1(j)
<1> USE DEF IInv, TypeOK, InsertLifecycleJob
<1>1. /\ spool'[j].status = "pending" /\ spool'[j].sequence = lastSequence + 1
      /\ \A k \in Jobs : k # j => spool'[k] = spool[k]
  OBVIOUS
<1>2. ~Present(j)
  BY DEF SequencesDistinct
<1>3. j \notin ActiveJobs
  BY <1>2 DEF ActiveJobs, IsActive, Active, Present
<1>4. ActiveJobs' = ActiveJobs \cup {j}
  BY <1>1 DEF ActiveJobs, IsActive, Active
<1>5. /\ SequenceOf'[j] = lastSequence + 1
      /\ \A k \in ActiveJobs : SequenceOf'[k] = SequenceOf[k]
  BY <1>1, <1>3 DEF SequenceOf, ActiveJobs
<1>6. \A k \in ActiveJobs : SequenceOf[k] < SequenceOf'[j]
  BY <1>5 DEF SequenceOf, SequencesDistinct, ActiveJobs, IsActive, Active, Present
<1>7. SpoolQueue' = Append(SpoolQueue, j)
  <2>1. SequenceOf'[j] \in Nat
    BY <1>5
  <2>2. Ordered(ActiveJobs \cup {j}, SequenceOf') = Append(Ordered(ActiveJobs, SequenceOf), j)
    BY ONLY <1>3, <1>5, <1>6, <2>1, ActiveRowsSequenced, InsertAppends, IInv
  <2> QED BY ONLY <1>4, <2>2 DEF SpoolQueue
<1>8. DeadLetters' = DeadLetters
  BY <1>1, <1>2 DEF DeadLetters, Present
<1> QED BY <1>7, <1>8 DEF Fifo!Append1

LEMMA DeleteIsRemoveHead ==
    ASSUME IInv, DeleteLifecycleJob
    PROVE  Fifo!RemoveHead
<1> USE DEF IInv, TypeOK, DeleteLifecycleJob
<1>1. worker.job \in Jobs /\ spool[worker.job].status = "running"
  BY DEF ClaimStillHeld
<1>2. /\ spool'[worker.job] = NoRow
      /\ \A k \in Jobs : k # worker.job => spool'[k] = spool[k]
  BY <1>1
<1>3. ActiveJobs' = ActiveJobs \ {worker.job}
  BY <1>1, <1>2 DEF ActiveJobs, IsActive, Active, NoRow
<1>4. \A k \in ActiveJobs \ {worker.job} : SequenceOf'[k] = SequenceOf[k]
  BY <1>2 DEF SequenceOf, ActiveJobs
<1>5. SpoolQueue' = Tail(SpoolQueue)
  BY <1>3, <1>4, ActiveRowsSequenced, ClaimedIsHead, RemoveOldestLeavesTail DEF SpoolQueue
<1>6. DeadLetters' = DeadLetters
  BY <1>1, <1>2 DEF DeadLetters, NoRow
<1>7. applied[worker.job] > 0
  BY DEF SuccessWasApplied
<1> QED BY <1>5, <1>6, <1>7, ClaimedIsHead DEF Fifo!RemoveHead

LEMMA FailIsDeadLetter ==
    ASSUME IInv, MarkLifecycleJobFailed
    PROVE  Fifo!DeadLetterHead
<1> USE DEF IInv, TypeOK, MarkLifecycleJobFailed
<1>1. worker.job \in Jobs /\ spool[worker.job].status = "running"
  BY DEF ClaimStillHeld
<1>2. /\ spool'[worker.job].status = "failed"
      /\ spool'[worker.job].sequence = spool[worker.job].sequence
      /\ \A k \in Jobs : k # worker.job => spool'[k] = spool[k]
  BY <1>1 DEF Row
<1>3. ActiveJobs' = ActiveJobs \ {worker.job}
  BY <1>1, <1>2 DEF ActiveJobs, IsActive, Active
<1>4. \A k \in ActiveJobs \ {worker.job} : SequenceOf'[k] = SequenceOf[k]
  BY <1>2 DEF SequenceOf, ActiveJobs
<1>5. SpoolQueue' = Tail(SpoolQueue)
  BY <1>3, <1>4, ActiveRowsSequenced, ClaimedIsHead, RemoveOldestLeavesTail DEF SpoolQueue
<1>6. DeadLetters' = DeadLetters \cup {worker.job}
  BY <1>1, <1>2 DEF DeadLetters
<1> QED BY <1>5, <1>6, ClaimedIsHead DEF Fifo!DeadLetterHead

LEMMA ReplayIsDelivery ==
    ASSUME IInv, ProcessOk
    PROVE  Fifo!DeliverHead
<1> USE DEF ProcessOk
<1>1. SpoolQueue' = SpoolQueue /\ DeadLetters' = DeadLetters
  BY DEF SpoolQueue, ActiveJobs, IsActive, SequenceOf, DeadLetters
<1> QED BY <1>1, ClaimedIsHead DEF Fifo!DeliverHead

LEMMA OtherStepsAreInvisible ==
    ASSUME NoLegacyTable, IInv
    PROVE  /\ \A j \in Jobs : /\ OpenHookSafeSqlite(j) => Invisible
                              /\ HookInsertFault(j) => Invisible
                              /\ ClaimNextLifecycleJob(j) => Invisible
                              /\ BackoffElapses(j) => Invisible
           /\ DaemonStart => Invisible
           /\ (ProcessErr \/ RequeueLifecycleJob \/ SettleFault \/ Crash) => Invisible
           /\ UNCHANGED vars => Invisible
<1>0. TypeOK
  BY DEF IInv
<1>1. ASSUME spool' = spool, applied' = applied PROVE Invisible
  BY <1>1 DEF Invisible
<1>2. ASSUME NEW j \in Jobs, OpenHookSafeSqlite(j) PROVE Invisible
  BY <1>0, <1>1, <1>2, MigrateCopiesNothing DEF OpenHookSafeSqlite
<1>3. ASSUME NEW j \in Jobs, ClaimNextLifecycleJob(j) PROVE Invisible
  <2>1. spool[j].status = "pending"
    BY <1>3 DEF ClaimNextLifecycleJob, OldestActive, IsActive, Active
  <2>2. /\ spool'[j].status = "running" /\ spool'[j].sequence = spool[j].sequence
        /\ \A k \in Jobs : k # j => spool'[k] = spool[k]
    BY <1>0, <1>3 DEF ClaimNextLifecycleJob, TypeOK, Row
  <2> QED BY <1>3, <2>1, <2>2 DEF Invisible, ClaimNextLifecycleJob, Active
<1>4. ASSUME NEW j \in Jobs, BackoffElapses(j) PROVE Invisible
  BY <1>0, <1>4 DEF BackoffElapses, Invisible, TypeOK, Row
<1>5. ASSUME RecoverRunningJobs PROVE Invisible
  <2> SUFFICES ASSUME NEW k \in Jobs
               PROVE  /\ spool'[k].status \in Active <=> spool[k].status \in Active
                      /\ spool'[k].status = "failed" <=> spool[k].status = "failed"
                      /\ spool'[k].sequence = spool[k].sequence
    BY <1>5 DEF Invisible, RecoverRunningJobs
  <2>1. spool[k] \in Row
    BY <1>0 DEF TypeOK
  <2>2. spool'[k] = IF spool[k].status = "running"
                    THEN [spool[k] EXCEPT !.status = "pending", !.ready = TRUE]
                    ELSE spool[k]
    BY <1>5 DEF RecoverRunningJobs
  <2> QED BY ONLY <2>1, <2>2 DEF Row, Active
<1>6. ASSUME RequeueLifecycleJob PROVE Invisible
  <2>1. worker.job \in Jobs /\ spool[worker.job].status = "running"
    BY <1>6 DEF IInv, ClaimStillHeld, RequeueLifecycleJob
  <2>2. /\ spool'[worker.job].status = "pending"
        /\ spool'[worker.job].sequence = spool[worker.job].sequence
        /\ \A k \in Jobs : k # worker.job => spool'[k] = spool[k]
    BY <1>0, <1>6, <2>1 DEF RequeueLifecycleJob, TypeOK, Row
  <2> QED BY <1>6, <2>1, <2>2 DEF Invisible, RequeueLifecycleJob, Active
<1>7. DaemonStart => Invisible
  BY <1>0, <1>1, <1>5, MigrateCopiesNothing DEF DaemonStart, InitialiseSchema, RecoverFault
<1> QED
  BY <1>1, <1>2, <1>3, <1>4, <1>6, <1>7
  DEF HookInsertFault, ProcessErr, SettleFault, Crash, vars

LEMMA StepSimulates ==
    ASSUME NoLegacyTable, IInv, [Next]_vars
    PROVE  [Fifo!FNext]_(Fifo!fvars)
<1>1. ASSUME NEW j \in Jobs, InsertLifecycleJob(j) PROVE Fifo!FNext
  BY <1>1, InsertIsAppend DEF Fifo!FNext
<1>2. CASE DeleteLifecycleJob
  BY <1>2, DeleteIsRemoveHead DEF Fifo!FNext
<1>3. CASE MarkLifecycleJobFailed
  BY <1>3, FailIsDeadLetter DEF Fifo!FNext
<1>4. CASE ProcessOk
  BY <1>4, ReplayIsDelivery DEF Fifo!FNext
<1>5. CASE Invisible
  BY <1>5, InvisibleIsStutter
<1> QED
  BY <1>1, <1>2, <1>3, <1>4, <1>5, OtherStepsAreInvisible
  DEF Next, HookStep, Settle

LEMMA InitSimulates ==
    ASSUME Init
    PROVE  Fifo!FInit
<1>1. \A j \in Jobs : spool[j] = NoRow
  BY DEF Init
<1>2. ActiveJobs = {} /\ DeadLetters = {}
  BY <1>1 DEF ActiveJobs, DeadLetters, IsActive, Active, NoRow
<1>3. SpoolQueue = <<>>
  BY <1>2, FS_EmptySet DEF SpoolQueue, Ordered
<1> QED BY <1>2, <1>3 DEF Fifo!FInit, Init

(***************************************************************************)
(* The SQLite table with its concurrent hook inserts, claims, retries,     *)
(* recoveries, failed statements and crashes is a durable FIFO queue with  *)
(* at-least-once delivery: hooks append, only the head is replayed, and it *)
(* leaves after a successful replay or as a dead letter.                   *)
(***************************************************************************)
THEOREM SpoolImplementsFifoDelivery ==
    ASSUME NoLegacyTable
    PROVE  Spec => ImplementsFifoDelivery
<1>1. Init => Fifo!FInit
  BY InitSimulates
<1>2. IInv /\ [Next]_vars => [Fifo!FNext]_(Fifo!fvars)
  BY StepSimulates
<1> QED BY <1>1, <1>2, Inductive, PTL DEF Spec, ImplementsFifoDelivery, Fifo!FSpec
=============================================================================
