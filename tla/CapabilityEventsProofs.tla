----------------------- MODULE CapabilityEventsProofs -----------------------
(***************************************************************************)
(* Proofs about CapabilityEvents for any repositories, consumers, retry    *)
(* budget, retention and number of generations, runs and upsets.           *)
(***************************************************************************)
EXTENDS CapabilityEvents, FiniteSetTheorems, TLAPS

\* A run id not handed out yet has no row.
FreshIds == \A i \in RunIds : i >= nextRun => ~IsActive(i)

CursorInLog == \A l \in Lanes : cursor[l] <= Latest(l[1])

\* An active run has something to do: its repo has generations, and a delta
\* run has some beyond its lane's cursor.  This is what makes a plan possible.
ActiveRunHasWork ==
    \A i \in RunIds : IsActive(i) =>
        /\ Latest(runs[i].lane[1]) > 0
        /\ runs[i].full \/ cursor[runs[i].lane] < Latest(runs[i].lane[1])

\* What an executing run may rely on after its plan, while generations are
\* recorded: its range reaches the end of the log or its lane is named in
\* dropped, a delta range is adjacent to the cursor, and the consumer that
\* returned Ok was shown all that the cursor will pass.
PlanFits(i) ==
    LET l == runs[i].lane
    IN /\ exec[i].phase # "noop"
       /\ exec[i].phase \in {"planned", "ok"} =>
            /\ cursor[l] <= exec[i].to
            /\ exec[i].to <= Latest(l[1])
            /\ exec[i].to = Latest(l[1]) \/ l \in dropped
       /\ (exec[i].phase = "planned" /\ ~runs[i].full) => exec[i].from <= cursor[l]
       /\ exec[i].phase = "ok" => 1 .. exec[i].to \subseteq applied[l]
PlanStillFits == \A i \in RunIds : PlanFits(i)

\* How far a row of each status may be into its budget: a crash lets a run
\* whose last claim got no verdict be claimed once more.
BudgetByStatus ==
    \A i \in RunIds :
        /\ runs[i].attempts <= MaxRunAttempts + crashes
        /\ runs[i].status = "queued" => runs[i].attempts < MaxRunAttempts + crashes
        /\ runs[i].status = "running" /\ ~up => runs[i].attempts < MaxRunAttempts + crashes
        /\ runs[i].status = "failed" => runs[i].attempts >= MaxRunAttempts

IInv ==
    /\ TypeOK
    /\ SingleFlight
    /\ CursorTruthful
    /\ LagIsExplained
    /\ FreshIds
    /\ CursorInLog
    /\ ActiveRunHasWork
    /\ PlanStillFits
    /\ BudgetByStatus

(***************************************************************************)
(* prune_terminal_runs forgets terminal rows only.                         *)
(***************************************************************************)
LEMMA PruneKeeps ==
    ASSUME NEW rows, NEW i \in RunIds
    PROVE  \/ PruneTerminal(rows)[i] = rows[i]
           \/ rows[i].status \in Terminal /\ PruneTerminal(rows)[i] = NoRow
BY DEF PruneTerminal

LEMMA NoRowIsRun == NoRow \in Run
<1>1. PICK r \in Repos : TRUE
  BY ConstantsAssumption
<1>2. <<r, 1>> \in Lanes
  BY ConstantsAssumption DEF Lanes, Consumers
<1>3. AnyLane \in Lanes
  BY <1>2 DEF AnyLane
<1> QED BY <1>3 DEF NoRow, Run

LEMMA PruneTyped ==
    ASSUME NEW rows \in [RunIds -> Run]
    PROVE  PruneTerminal(rows) \in [RunIds -> Run]
BY NoRowIsRun DEF PruneTerminal

(***************************************************************************)
(* record_sync_generation numbers the new runs of its consumers in         *)
(* sequence: the ids are handed out once and lie in the new part.          *)
(***************************************************************************)
NewId(r, c) == nextRun + Cardinality({d \in Fresh(r) : d < c})

LEMMA FreshFinite ==
    ASSUME NEW r \in Repos
    PROVE  /\ IsFiniteSet(Fresh(r))
           /\ Cardinality(Fresh(r)) \in Nat
<1>1. IsFiniteSet(1 .. NumConsumers)
  BY ConstantsAssumption, FS_Interval
<1>2. Fresh(r) \subseteq 1 .. NumConsumers
  BY DEF Fresh, Consumers
<1>3. IsFiniteSet(Fresh(r))
  BY <1>1, <1>2, FS_Subset
<1> QED BY <1>3, FS_CardinalityType

LEMMA NewIds ==
    ASSUME NEW r \in Repos, nextRun \in Nat
    PROVE  /\ \A c \in Fresh(r) : NewId(r, c) \in nextRun .. (nextRun + Cardinality(Fresh(r)) - 1)
           /\ \A c, d \in Fresh(r) : NewId(r, c) = NewId(r, d) => c = d
<1> DEFINE Below(c) == {d \in Fresh(r) : d < c}
<1>1. IsFiniteSet(Fresh(r)) /\ Cardinality(Fresh(r)) \in Nat
  BY FreshFinite
<1>2. \A c \in Fresh(r) : c \in Int
  BY ConstantsAssumption DEF Fresh, Consumers
<1>3. ASSUME NEW c \in Fresh(r)
      PROVE  /\ IsFiniteSet(Below(c))
             /\ Cardinality(Below(c)) \in Nat
             /\ Cardinality(Below(c)) < Cardinality(Fresh(r))
  <2>1. Below(c) \subseteq Fresh(r) /\ Below(c) # Fresh(r)
    BY <1>2
  <2> QED BY <1>1, <2>1, FS_Subset, FS_CardinalityType
<1>4. ASSUME NEW c \in Fresh(r), NEW d \in Fresh(r), c < d
      PROVE  Cardinality(Below(c)) < Cardinality(Below(d))
  <2>1. c \in Below(d) /\ c \notin Below(c)
    BY <1>2, <1>4
  <2>2. Below(c) \subseteq Below(d)
    BY <1>2, <1>4
  <2>3. Below(c) \in SUBSET Below(d) /\ Below(c) # Below(d)
    BY <2>1, <2>2
  <2>4. Cardinality(Below(c)) <= Cardinality(Below(d)) /\ Cardinality(Below(c)) # Cardinality(Below(d))
    BY <1>3, <2>3, FS_Subset
  <2> QED BY <1>3, <2>4
<1>5. \A c \in Fresh(r) : NewId(r, c) = nextRun + Cardinality(Below(c))
  BY DEF NewId
<1> HIDE DEF Below
<1>6. \A c \in Fresh(r) : NewId(r, c) \in nextRun .. (nextRun + Cardinality(Fresh(r)) - 1)
  BY <1>1, <1>3, <1>5
<1>7. \A c, d \in Fresh(r) : NewId(r, c) = NewId(r, d) => c = d
  BY <1>2, <1>3, <1>4, <1>5
<1> QED BY <1>6, <1>7

LEMMA InitEstablishes == Init => IInv
<1> SUFFICES ASSUME Init PROVE IInv
  OBVIOUS
<1> USE ConstantsAssumption DEF Init
<1>1. TypeOK
  <2>1. runs \in [RunIds -> Run]
    BY NoRowIsRun
  <2>2. exec \in [RunIds -> Exec]
    BY DEF NoExec, Exec
  <2> QED BY <2>1, <2>2 DEF TypeOK
<1>2. \A i \in RunIds : runs[i].status = "absent" /\ runs[i].attempts = 0 /\ exec[i].phase = "none"
  BY DEF NoRow, NoExec
<1>3. \A l \in Lanes : cursor[l] = 0 /\ Latest(l[1]) = 0
  BY DEF Latest, Lanes
<1>4. SingleFlight /\ FreshIds /\ ActiveRunHasWork /\ PlanStillFits /\ BudgetByStatus
  BY <1>2 DEF SingleFlight, FreshIds, ActiveRunHasWork, PlanStillFits, PlanFits, BudgetByStatus, IsActive,
              Active, Running
<1>5. CursorTruthful /\ LagIsExplained /\ CursorInLog
  BY <1>3 DEF CursorTruthful, LagIsExplained, CursorInLog
<1> QED BY <1>1, <1>4, <1>5 DEF IInv

(***************************************************************************)
(* Types.                                                                  *)
(***************************************************************************)
\* What TypeOK says of one row and of the numbers an action computes from it.
LEMMA TypeFacts ==
    ASSUME TypeOK
    PROVE  /\ \A r \in Repos : Latest(r) \in Nat
           /\ \A i \in RunIds :
                /\ runs[i] \in Run /\ exec[i] \in Exec
                /\ runs[i].lane \in Lanes
                /\ runs[i].lane[1] \in Repos /\ runs[i].lane[2] \in Consumers
                /\ cursor[runs[i].lane] \in Nat /\ Latest(runs[i].lane[1]) \in Nat
           /\ \A l \in Lanes : l[1] \in Repos /\ cursor[l] \in Nat /\ Latest(l[1]) \in Nat
<1>1. \A r \in Repos : Latest(r) \in Nat
  BY DEF TypeOK, Latest
<1>2. \A l \in Lanes : l[1] \in Repos /\ l[2] \in Consumers
  BY DEF Lanes
<1>3. \A i \in RunIds : runs[i] \in Run /\ runs[i].lane \in Lanes /\ exec[i] \in Exec
  BY DEF TypeOK, Run
<1>4. \A l \in Lanes : cursor[l] \in Nat
  BY DEF TypeOK
<1> QED BY <1>1, <1>2, <1>3, <1>4

LEMMA RefreshedTyped ==
    ASSUME NEW run \in Run, NEW from \in Nat, NEW to \in Nat, NEW init \in BOOLEAN
    PROVE  Refreshed(run, from, to, init) \in Run
<1> DEFINE i == run.init \/ init
<1> DEFINE d == DueAtOnce(run.attempts)
<1>1. i \in BOOLEAN /\ d \in BOOLEAN
  BY DEF DueAtOnce
<1>2. Refreshed(run, from, to, init) = [run EXCEPT !.from = from, !.to = to, !.init = i, !.due = d]
  BY DEF Refreshed
<1> HIDE DEF i, d
<1> QED BY ONLY <1>1, <1>2, run \in Run, from \in Nat, to \in Nat DEF Run

LEMMA NewRunTyped ==
    ASSUME NEW l \in Lanes, NEW from \in Nat, NEW to \in Nat, NEW full \in BOOLEAN, NEW init \in BOOLEAN
    PROVE  NewRun(l, from, to, full, init) \in Run
BY DEF NewRun, Run, Active

\* EndRun writes a typed terminal row.
EndedRow(i, status) ==
    [NoRow EXCEPT !.lane = runs[i].lane, !.status = status,
                  !.attempts = runs[i].attempts, !.ended = endings + 1]

LEMMA EndRunTyped ==
    ASSUME TypeOK, NEW i \in RunIds, NEW status \in Terminal, EndRun(i, status)
    PROVE  runs' \in [RunIds -> Run] /\ endings' \in Nat
<1>1. runs[i].lane \in Lanes /\ runs[i].attempts \in Nat /\ endings + 1 \in Nat
  BY DEF TypeOK, Run
<1>2. EndedRow(i, status) \in Run
  BY ONLY <1>1, NoRowIsRun, status \in Terminal DEF EndedRow, NoRow, Run, Terminal
<1>3. [runs EXCEPT ![i] = EndedRow(i, status)] \in [RunIds -> Run]
  BY <1>2 DEF TypeOK
<1>4. runs' = PruneTerminal([runs EXCEPT ![i] = EndedRow(i, status)])
  BY DEF EndRun, EndedRow
<1> QED BY <1>1, <1>3, <1>4, PruneTyped DEF EndRun

\* A claimed run can be planned: its range lies in the log.
LEMMA PlanTyped ==
    ASSUME TypeOK, ActiveRunHasWork, SingleFlight, NEW i \in RunIds, exec[i].phase = "claimed"
    PROVE  PlanFrom(i) \in Nat /\ PlanTo(i) \in Nat /\ PlanFrom(i) < PlanTo(i)
<1>1. IsActive(i)
  BY DEF SingleFlight, Running, IsActive, Active
<1>2. /\ Latest(runs[i].lane[1]) \in Nat /\ Latest(runs[i].lane[1]) > 0
      /\ cursor[runs[i].lane] \in Nat /\ runs[i].from \in Nat
      /\ runs[i].full \/ cursor[runs[i].lane] < Latest(runs[i].lane[1])
  BY <1>1, TypeFacts DEF ActiveRunHasWork, Run
<1> QED BY <1>2 DEF PlanFrom, PlanTo

LEMMA TypePreserved ==
    ASSUME TypeOK, ActiveRunHasWork, SingleFlight, [Next]_vars
    PROVE  TypeOK'
<1> USE ConstantsAssumption
<1>t. /\ generations \in [Repos -> Seq(BOOLEAN)] /\ cursor \in [Lanes -> Nat]
      /\ runs \in [RunIds -> Run] /\ nextRun \in 1 .. (MaxRuns + 1) /\ nextRun \in Nat /\ endings \in Nat
      /\ exec \in [RunIds -> Exec] /\ up \in BOOLEAN /\ applied \in [Lanes -> SUBSET Nat]
      /\ dropped \subseteq Lanes /\ crashes \in Nat /\ upsets \in 0 .. MaxUpsets
      /\ MaxRuns \in Nat /\ MaxUpsets \in Nat
  BY DEF TypeOK, ConstantsAssumption
<1>u. Upset => upsets' \in 0 .. MaxUpsets
  BY <1>t DEF Upset
<1>n. NoExec \in Exec
  BY DEF NoExec, Exec
<1>1. ASSUME NEW r \in Repos, NEW full \in BOOLEAN, NEW init \in BOOLEAN, RecordGeneration(r, full, init)
      PROVE  TypeOK'
  <2> DEFINE latest == Latest(r) + 1
  <2> DEFINE forSession(c) == init /\ c \in Blocking
  <2>1. latest \in Nat /\ \A c \in Consumers : forSession(c) \in BOOLEAN
    BY TypeFacts
  <2>2. \A i \in RunIds : runs[i] \in Run /\ runs[i].lane \in Lanes /\ runs[i].lane[2] \in Consumers
                          /\ cursor[runs[i].lane] \in Nat
    BY TypeFacts
  <2>3. \A c \in Fresh(r) : c \in Consumers /\ <<r, c>> \in Lanes /\ cursor[<<r, c>>] \in Nat
    BY <1>t DEF Fresh, Lanes
  <2>4. \A c \in Fresh(r) : NewRun(<<r, c>>, cursor[<<r, c>>], latest, FALSE, forSession(c)) \in Run
    BY <2>1, <2>3, NewRunTyped
  <2>5. \A i \in RunIds : Refreshed(runs[i], cursor[runs[i].lane], latest, forSession(runs[i].lane[2])) \in Run
    BY <2>1, <2>2, RefreshedTyped
  <2>6. runs' \in [RunIds -> Run]
    <3> DEFINE row(i) ==
          IF \E c \in Fresh(r) : NewId(r, c) = i
          THEN LET c == CHOOSE c \in Fresh(r) : NewId(r, c) = i
               IN NewRun(<<r, c>>, cursor[<<r, c>>], latest, FALSE, forSession(c))
          ELSE IF runs[i].status = "queued" /\ runs[i].lane[1] = r
          THEN Refreshed(runs[i], cursor[runs[i].lane], latest, forSession(runs[i].lane[2]))
          ELSE runs[i]
    <3>1. \A i \in RunIds : row(i) \in Run
      <4> TAKE i \in RunIds
      <4>1. CASE \E c \in Fresh(r) : NewId(r, c) = i
        <5>1. (CHOOSE c \in Fresh(r) : NewId(r, c) = i) \in Fresh(r)
          BY <4>1
        <5> QED BY <4>1, <5>1, <2>4
      <4>2. CASE ~\E c \in Fresh(r) : NewId(r, c) = i
        BY <4>2, <2>2, <2>5
      <4> QED BY <4>1, <4>2
    <3>2. runs' = PruneTerminal([i \in RunIds |-> row(i)])
      BY <1>1 DEF RecordGeneration, NewId
    <3> HIDE DEF row
    <3>3. [i \in RunIds |-> row(i)] \in [RunIds -> Run]
      BY <3>1
    <3> QED BY <3>2, <3>3, PruneTyped
  <2>7. generations' \in [Repos -> Seq(BOOLEAN)]
    BY <1>1, <1>t DEF RecordGeneration
  <2>8. nextRun' \in 1 .. (MaxRuns + 1)
    BY <1>1, <1>t, FreshFinite DEF RecordGeneration
  <2>9. dropped' \subseteq Lanes
    BY <1>1, <1>t, <2>3 DEF RecordGeneration
  <2> QED BY <1>1, <1>t, <2>6, <2>7, <2>8, <2>9 DEF RecordGeneration, TypeOK, faultVars
<1>2. ASSUME NEW l \in Lanes, ForceConsumerRun(l) PROVE TypeOK'
  <2>1. Latest(l[1]) \in Nat /\ Latest(l[1]) - 1 \in Nat
    BY <1>2, TypeFacts DEF ForceConsumerRun, CanForce
  <2>2. \A run \in Run : [Refreshed(run, Latest(l[1]) - 1, Latest(l[1]), FALSE) EXCEPT !.full = TRUE] \in Run
    <3> TAKE run \in Run
    <3>1. Refreshed(run, Latest(l[1]) - 1, Latest(l[1]), FALSE) \in Run
      BY <2>1, RefreshedTyped
    <3> QED BY ONLY <3>1 DEF Run
  <2>3. NewRun(l, Latest(l[1]) - 1, Latest(l[1]), TRUE, FALSE) \in Run
    BY <2>1, NewRunTyped
  <2>4. runs' \in [RunIds -> Run] /\ nextRun' \in 1 .. (MaxRuns + 1)
    <3>1. CASE runs' = [i \in RunIds |->
                          IF i \in QueuedIn(l)
                          THEN [Refreshed(runs[i], Latest(l[1]) - 1, Latest(l[1]), FALSE) EXCEPT !.full = TRUE]
                          ELSE runs[i]] /\ UNCHANGED nextRun
      BY <1>t, <2>2, <3>1
    <3>2. CASE /\ nextRun <= MaxRuns
               /\ runs' = [runs EXCEPT ![nextRun] = NewRun(l, Latest(l[1]) - 1, Latest(l[1]), TRUE, FALSE)]
               /\ nextRun' = nextRun + 1
      <4> DEFINE new == NewRun(l, Latest(l[1]) - 1, Latest(l[1]), TRUE, FALSE)
      <4>1. new \in Run /\ nextRun \in RunIds /\ runs' = [runs EXCEPT ![nextRun] = new]
        <5>1. nextRun \in RunIds
          BY <1>t, <3>2 DEF RunIds
        <5> QED BY <2>3, <3>2, <5>1
      <4> HIDE DEF new
      <4>2. runs' \in [RunIds -> Run]
        BY <1>t, <4>1
      <4>3. nextRun' \in 1 .. (MaxRuns + 1)
        <5>1. nextRun' = nextRun + 1 /\ nextRun <= MaxRuns
          BY <3>2
        <5> QED BY <1>t, <5>1
      <4> QED BY <4>2, <4>3
    <3> QED BY <1>2, <3>1, <3>2 DEF ForceConsumerRun
  <2>5. dropped' \subseteq Lanes
    BY <1>2, <1>t DEF ForceConsumerRun
  <2> QED BY <1>2, <1>t, <1>u, <2>4, <2>5 DEF ForceConsumerRun, TypeOK
<1>3. ASSUME NEW r \in Repos, ClearQueuedRuns(r) PROVE TypeOK'
  <2>1. runs' \in [RunIds -> Run] /\ dropped' \subseteq Lanes
    BY <1>3, <1>t, NoRowIsRun DEF ClearQueuedRuns
  <2> QED BY <1>3, <1>t, <1>u, <2>1 DEF ClearQueuedRuns, TypeOK
<1>4. ASSUME NEW i \in RunIds, LaunchRun(i) PROVE TypeOK'
  <2>1. runs[i] \in Run
    BY <1>t
  <2>2. [runs[i] EXCEPT !.status = "running", !.attempts = @ + 1] \in Run
    <3> DEFINE a == runs[i].attempts + 1
    <3>1. a \in Nat /\ [runs[i] EXCEPT !.status = "running", !.attempts = @ + 1]
                       = [runs[i] EXCEPT !.status = "running", !.attempts = a]
      BY <2>1 DEF Run
    <3> HIDE DEF a
    <3> QED BY ONLY <2>1, <3>1 DEF Run, Active
  <2>3. runs' = [runs EXCEPT ![i] = [runs[i] EXCEPT !.status = "running", !.attempts = @ + 1]]
    BY <1>4 DEF LaunchRun
  <2>4. runs' \in [RunIds -> Run]
    BY <1>t, <2>2, <2>3
  <2>5. exec' \in [RunIds -> Exec]
    BY <1>4, <1>t, <2>1 DEF LaunchRun, Exec, Run
  <2> QED BY <1>4, <1>t, <2>4, <2>5 DEF LaunchRun, TypeOK, faultVars
<1>5. ASSUME NEW i \in RunIds, NEW large \in BOOLEAN, BuildExecutionPlan(i, large) PROVE TypeOK'
  <2>1. runs[i] \in Run /\ exec[i] \in Exec
    BY <1>t
  <2>2. PlanFrom(i) \in Nat /\ PlanTo(i) \in Nat
    BY <1>5, PlanTyped DEF BuildExecutionPlan
  <2>3. PlanFull(i, large) \in BOOLEAN
    BY DEF PlanFull
  <2>4. runs' \in [RunIds -> Run]
    <3> DEFINE from == PlanFrom(i)
    <3> DEFINE to == PlanTo(i)
    <3> DEFINE full == PlanFull(i, large)
    <3>1. from \in Nat /\ to \in Nat /\ full \in BOOLEAN
      BY <2>2, <2>3
    <3>2. \/ runs' = [runs EXCEPT ![i] = [runs[i] EXCEPT !.from = from, !.to = to, !.full = full]]
          \/ runs' = runs
      BY <1>5 DEF BuildExecutionPlan
    <3> HIDE DEF from, to, full
    <3>3. [runs[i] EXCEPT !.from = from, !.to = to, !.full = full] \in Run
      BY ONLY <2>1, <3>1 DEF Run
    <3> QED BY <1>t, <3>2, <3>3
  <2>5. exec' \in [RunIds -> Exec]
    <3>1. [phase |-> "planned", from |-> PlanFrom(i), to |-> PlanTo(i)] \in Exec
      BY <2>2 DEF Exec
    <3>2. [exec[i] EXCEPT !.phase = "noop"] \in Exec
      BY ONLY <2>1 DEF Exec
    <3> QED BY <1>5, <1>t, <3>1, <3>2 DEF BuildExecutionPlan
  <2> QED BY <1>5, <1>t, <2>4, <2>5 DEF BuildExecutionPlan, TypeOK, faultVars
<1>6. ASSUME NEW i \in RunIds, ReconcileOk(i) PROVE TypeOK'
  <2>1. exec[i] \in Exec /\ runs[i].lane \in Lanes
    BY <1>t DEF Run
  <2>2. exec' \in [RunIds -> Exec]
    BY <1>6, <1>t, <2>1 DEF ReconcileOk, Exec
  <2>3. applied' \in [Lanes -> SUBSET Nat]
    <3>1. 1 .. exec[i].to \subseteq Nat /\ (exec[i].from + 1) .. exec[i].to \subseteq Nat
      BY <2>1 DEF Exec
    <3> QED BY <1>6, <1>t, <2>1, <3>1 DEF ReconcileOk
  <2> QED BY <1>6, <1>t, <2>2, <2>3 DEF ReconcileOk, TypeOK, tableVars, faultVars
<1>7. ASSUME NEW i \in RunIds, ReconcileErr(i) PROVE TypeOK'
  <2>1. exec' \in [RunIds -> Exec]
    BY <1>7, <1>t DEF ReconcileErr, Exec
  <2> QED BY <1>7, <1>t, <2>1 DEF ReconcileErr, TypeOK, tableVars, faultVars
<1>8. ASSUME NEW i \in RunIds, CompleteRun(i) PROVE TypeOK'
  <2>1. runs' \in [RunIds -> Run] /\ endings' \in Nat
    BY <1>8, EndRunTyped DEF CompleteRun, Terminal
  <2>2. exec[i].to \in Nat /\ runs[i].lane \in Lanes
    BY <1>t DEF Exec, Run
  <2> QED BY <1>8, <1>t, <1>n, <2>1, <2>2 DEF CompleteRun, CursorAfter, TypeOK, faultVars
<1>9. ASSUME NEW i \in RunIds, RetryRun(i) PROVE TypeOK'
  <2>1. runs[i] \in Run /\ DueAtOnce(runs[i].attempts) \in BOOLEAN
    BY <1>t DEF DueAtOnce
  <2>2. [runs[i] EXCEPT !.status = "queued", !.due = DueAtOnce(runs[i].attempts)] \in Run
    BY ONLY <2>1 DEF Run, Active
  <2>3. [runs EXCEPT ![i] = [runs[i] EXCEPT !.status = "queued", !.due = DueAtOnce(runs[i].attempts)]]
          \in [RunIds -> Run]
    BY <1>t, <2>2
  <2>4. runs' = PruneTerminal([runs EXCEPT ![i] = [runs[i] EXCEPT !.status = "queued",
                                                               !.due = DueAtOnce(runs[i].attempts)]])
    BY <1>9 DEF RetryRun
  <2>5. runs' \in [RunIds -> Run]
    BY <2>3, <2>4, PruneTyped
  <2> QED BY <1>9, <1>t, <1>n, <2>5 DEF RetryRun, TypeOK, faultVars
<1>10. ASSUME NEW i \in RunIds, FailRun(i) PROVE TypeOK'
  <2>1. runs' \in [RunIds -> Run] /\ endings' \in Nat
    BY <1>10, EndRunTyped DEF FailRun, Terminal
  <2>2. runs[i].lane \in Lanes
    BY <1>t DEF Run
  <2> QED BY <1>10, <1>t, <1>n, <2>1, <2>2 DEF FailRun, TypeOK, faultVars
<1>11. ASSUME NEW i \in RunIds, CompletionFault(i) PROVE TypeOK'
  BY <1>11, <1>t, <1>n, <1>u DEF CompletionFault, TypeOK, tableVars
<1>12. ASSUME NEW i \in RunIds, BackoffElapses(i) PROVE TypeOK'
  <2>1. runs[i] \in Run
    BY <1>t
  <2>2. [runs[i] EXCEPT !.due = TRUE] \in Run
    BY ONLY <2>1 DEF Run
  <2>3. runs' \in [RunIds -> Run]
    BY <1>12, <1>t, <2>2 DEF BackoffElapses
  <2> QED BY <1>12, <1>t, <2>3 DEF BackoffElapses, TypeOK, faultVars
<1>13. ASSUME Crash PROVE TypeOK'
  <2>1. exec' \in [RunIds -> Exec]
    BY <1>13, <1>n DEF Crash
  <2>2. crashes' \in Nat /\ up' \in BOOLEAN /\ upsets' \in 0 .. MaxUpsets
    <3>1. Upset /\ crashes' = crashes + 1 /\ up' = FALSE
      BY <1>13 DEF Crash
    <3>2. upsets' \in 0 .. MaxUpsets
      BY <1>u, <3>1
    <3>3. crashes' \in Nat
      BY <1>t, <3>1
    <3> QED BY <3>1, <3>2, <3>3
  <2>3. UNCHANGED <<generations, cursor, runs, nextRun, endings, applied, dropped>>
    BY <1>13 DEF Crash, tableVars
  <2> QED BY <1>t, <2>1, <2>2, <2>3 DEF TypeOK
<1>14. ASSUME ActivateWorker PROVE TypeOK'
  <2>1. CASE RecoverStep /\ dropped' = dropped \ {runs[i].lane : i \in Running} /\ UNCHANGED upsets
    <3>1. \A i \in RunIds : [runs[i] EXCEPT !.status = "queued", !.due = DueAtOnce(runs[i].attempts)] \in Run
      <4> TAKE i \in RunIds
      <4>1. runs[i] \in Run /\ DueAtOnce(runs[i].attempts) \in BOOLEAN
        BY <1>t DEF DueAtOnce
      <4> QED BY ONLY <4>1 DEF Run, Active
    <3>2. runs' \in [RunIds -> Run]
      BY <1>t, <2>1, <3>1 DEF RecoverStep
    <3> QED BY <1>14, <1>t, <2>1, <3>2 DEF ActivateWorker, TypeOK
  <2>2. CASE Upset /\ UNCHANGED <<runs, dropped>>
    BY <1>14, <1>t, <1>u, <2>2 DEF ActivateWorker, TypeOK
  <2> QED BY <1>14, <2>1, <2>2 DEF ActivateWorker
<1>15. ASSUME UNCHANGED vars PROVE TypeOK'
  BY <1>15, <1>t DEF vars, tableVars, TypeOK
<1> QED
  BY <1>1, <1>2, <1>3, <1>4, <1>5, <1>6, <1>7, <1>8, <1>9, <1>10, <1>11, <1>12, <1>13, <1>14, <1>15
  DEF Next, ExecStep

(***************************************************************************)
(* Steps that leave the tables alone but for the due flag: a consumer that *)
(* errs, a completion that fails, a backoff that elapses.                  *)
(***************************************************************************)
LEMMA RowsUntouched ==
    ASSUME IInv, TypeOK',
           UNCHANGED <<generations, cursor, nextRun, up, applied, dropped, crashes>>,
           \A k \in RunIds : /\ runs'[k].status = runs[k].status /\ runs'[k].lane = runs[k].lane
                             /\ runs'[k].full = runs[k].full /\ runs'[k].attempts = runs[k].attempts,
           \A k \in RunIds : \/ exec'[k] = exec[k]
                             \/ exec'[k].phase = "none"
                             \/ exec'[k].phase = "error" /\ exec[k].phase # "none"
    PROVE  IInv'
<1>1. \A k \in RunIds : IsActive(k)' <=> IsActive(k)
  BY DEF IsActive
<1>2. \A l \in Lanes : Latest(l[1])' = Latest(l[1]) /\ (ActiveIn(l) = {})' = (ActiveIn(l) = {})
  BY <1>1 DEF ActiveIn, Latest
<1>3. Running' = Running
  BY DEF Running
<1>4. SingleFlight'
  BY <1>1, <1>3 DEF IInv, SingleFlight
<1>5. CursorTruthful' /\ LagIsExplained' /\ FreshIds' /\ CursorInLog'
  BY <1>1, <1>2 DEF IInv, CursorTruthful, LagIsExplained, FreshIds, CursorInLog
<1>6. ActiveRunHasWork'
  BY <1>1 DEF IInv, ActiveRunHasWork, Latest
<1>7. PlanStillFits'
  BY DEF IInv, PlanStillFits, PlanFits, Latest
<1>8. BudgetByStatus'
  BY DEF IInv, BudgetByStatus
<1> QED BY <1>4, <1>5, <1>6, <1>7, <1>8 DEF IInv

(***************************************************************************)
(* Steps that end, return or hand over runs without scheduling new ones:   *)
(* no lane gets an active run it did not have.                             *)
(***************************************************************************)
NoNewRun ==
    /\ nextRun' = nextRun
    /\ \A k \in RunIds : IsActive(k)' => /\ IsActive(k)
                                         /\ runs'[k].lane = runs[k].lane
                                         /\ runs'[k].full = runs[k].full

LEMMA NoNewRunKeeps ==
    ASSUME IInv, NoNewRun, generations' = generations, cursor' = cursor
    PROVE  /\ FreshIds' /\ CursorInLog' /\ ActiveRunHasWork'
           /\ \A i, j \in RunIds : (IsActive(i)' /\ IsActive(j)' /\ i # j) => runs'[i].lane # runs'[j].lane
<1>1. \A r : Latest(r)' = Latest(r)
  BY DEF Latest
<1>2. FreshIds' /\ CursorInLog'
  BY <1>1 DEF IInv, NoNewRun, FreshIds, CursorInLog
<1>3. ActiveRunHasWork'
  BY <1>1 DEF IInv, NoNewRun, ActiveRunHasWork
<1>4. \A i, j \in RunIds : (IsActive(i)' /\ IsActive(j)' /\ i # j) => runs'[i].lane # runs'[j].lane
  BY DEF IInv, NoNewRun, SingleFlight
<1> QED BY <1>2, <1>3, <1>4

(***************************************************************************)
(* claim_next_run: nothing else runs, so the claimed run is the only one.  *)
(***************************************************************************)
LEMMA LaunchPreserves ==
    ASSUME IInv, TypeOK', NEW i \in RunIds, LaunchRun(i)
    PROVE  IInv'
<1>1. /\ runs[i].status = "queued" /\ up /\ Running = {} /\ runs[i].attempts \in Nat
      /\ \A k \in RunIds : exec[k].phase = "none"
  BY DEF LaunchRun, Claimable, IInv, SingleFlight, TypeOK, Run
<1>2. /\ runs'[i].status = "running" /\ runs'[i].attempts = runs[i].attempts + 1
      /\ runs'[i].lane = runs[i].lane /\ runs'[i].full = runs[i].full
      /\ \A k \in RunIds : k # i => runs'[k] = runs[k]
      /\ exec'[i].phase = "claimed"
      /\ \A k \in RunIds : k # i => exec'[k] = exec[k]
      /\ UNCHANGED <<generations, cursor, nextRun, up, applied, dropped, crashes>>
  BY DEF LaunchRun, IInv, TypeOK, Run, faultVars
<1>3. \A k \in RunIds : IsActive(k)' <=> IsActive(k)
  BY <1>1, <1>2 DEF IsActive, Active
<1>4. NoNewRun
  BY <1>2, <1>3 DEF NoNewRun
<1>5. SingleFlight'
  <2>1. Running' = {i}
    BY <1>1, <1>2 DEF Running
  <2> QED BY <1>1, <1>2, <1>4, <2>1, NoNewRunKeeps DEF SingleFlight
<1>6. CursorTruthful' /\ LagIsExplained'
  BY <1>2, <1>3 DEF IInv, CursorTruthful, LagIsExplained, ActiveIn, Latest
<1>7. PlanStillFits'
  BY <1>1, <1>2 DEF PlanStillFits, PlanFits
<1>8. BudgetByStatus'
  BY <1>1, <1>2, ConstantsAssumption DEF IInv, BudgetByStatus, TypeOK, ConstantsAssumption
<1> QED BY <1>2, <1>4, <1>5, <1>6, <1>7, <1>8, NoNewRunKeeps DEF IInv

(***************************************************************************)
(* build_execution_plan reads cursor and log again, so the range it fixes  *)
(* starts at the cursor and ends with the log.                             *)
(***************************************************************************)
LEMMA PlanPreserves ==
    ASSUME IInv, TypeOK', NEW i \in RunIds, NEW large \in BOOLEAN, BuildExecutionPlan(i, large)
    PROVE  IInv'
<1>1. /\ exec[i].phase = "claimed" /\ i \in Running /\ up
      /\ PlanFrom(i) < PlanTo(i)
      /\ PlanTo(i) = Latest(runs[i].lane[1])
      /\ ~PlanFull(i, large) => PlanFrom(i) = cursor[runs[i].lane]
      /\ runs[i].full => PlanFull(i, large)
      /\ cursor[runs[i].lane] <= Latest(runs[i].lane[1])
      /\ cursor[runs[i].lane] \in Nat /\ PlanTo(i) \in Nat
  <2>1. exec[i].phase = "claimed" /\ i \in Running /\ up
    BY DEF BuildExecutionPlan, IInv, SingleFlight
  <2>2. PlanFrom(i) < PlanTo(i) /\ PlanTo(i) \in Nat
    BY <2>1, PlanTyped DEF IInv
  <2>3. cursor[runs[i].lane] <= Latest(runs[i].lane[1]) /\ cursor[runs[i].lane] \in Nat
    BY TypeFacts DEF IInv, CursorInLog
  <2> QED BY <2>1, <2>2, <2>3 DEF PlanTo, PlanFrom, PlanFull
<1>2. /\ runs'[i].status = runs[i].status /\ runs'[i].attempts = runs[i].attempts
      /\ runs'[i].lane = runs[i].lane
      /\ runs'[i].full = PlanFull(i, large)
      /\ \A k \in RunIds : k # i => runs'[k] = runs[k]
      /\ exec'[i] = [phase |-> "planned", from |-> PlanFrom(i), to |-> PlanTo(i)]
      /\ \A k \in RunIds : k # i => exec'[k] = exec[k]
      /\ UNCHANGED <<generations, cursor, nextRun, up, applied, dropped, crashes>>
  <2>1. /\ runs \in [RunIds -> Run] /\ exec \in [RunIds -> Exec]
        /\ runs' = [runs EXCEPT ![i].from = PlanFrom(i), ![i].to = PlanTo(i),
                                ![i].full = PlanFull(i, large)]
        /\ exec' = [exec EXCEPT ![i] = [phase |-> "planned", from |-> PlanFrom(i), to |-> PlanTo(i)]]
        /\ UNCHANGED <<generations, cursor, nextRun, up, applied, dropped, faultVars>>
    BY <1>1 DEF BuildExecutionPlan, IInv, TypeOK
  <2> QED BY ONLY <2>1, i \in RunIds DEF Run, faultVars
<1>3. \A k \in RunIds : IsActive(k)' <=> IsActive(k)
  BY <1>2 DEF IsActive
<1>4. Running' = Running
  BY <1>2 DEF Running
<1>5. SingleFlight'
  BY <1>1, <1>2, <1>3, <1>4 DEF IInv, SingleFlight
<1>6. CursorTruthful' /\ LagIsExplained' /\ FreshIds' /\ CursorInLog'
  BY <1>2, <1>3 DEF IInv, CursorTruthful, LagIsExplained, FreshIds, CursorInLog, ActiveIn, Latest
<1>7. ActiveRunHasWork'
  BY <1>1, <1>2, <1>3 DEF IInv, ActiveRunHasWork, Latest
<1>8. PlanStillFits'
  <2>1. PlanFits(i)'
    <3>1. /\ exec'[i].phase = "planned" /\ exec'[i].to = PlanTo(i) /\ exec'[i].from = PlanFrom(i)
          /\ Latest(runs[i].lane[1])' = Latest(runs[i].lane[1])
      BY <1>2 DEF Latest
    <3> QED BY <1>1, <1>2, <3>1 DEF PlanFits
  <2>2. \A k \in RunIds : k # i => PlanFits(k)'
    BY <1>2 DEF IInv, PlanStillFits, PlanFits, Latest
  <2> QED BY <2>1, <2>2 DEF PlanStillFits
<1>9. BudgetByStatus'
  BY <1>2 DEF IInv, BudgetByStatus
<1> QED BY <1>5, <1>6, <1>7, <1>8, <1>9 DEF IInv

(***************************************************************************)
(* The consumer returns Ok: what it was shown reaches back to the cursor.  *)
(***************************************************************************)
LEMMA ReconcilePreserves ==
    ASSUME IInv, TypeOK', NEW i \in RunIds, ReconcileOk(i)
    PROVE  IInv'
<1> DEFINE l == runs[i].lane
<1> DEFINE shown == IF runs[i].full THEN 1 .. exec[i].to ELSE (exec[i].from + 1) .. exec[i].to
<1>1. /\ exec[i].phase = "planned" /\ i \in Running /\ l \in Lanes
      /\ exec[i].from \in Nat /\ exec[i].to \in Nat /\ cursor[l] \in Nat
      /\ ~runs[i].full => exec[i].from <= cursor[l]
      /\ 1 .. cursor[l] \subseteq applied[l]
  BY TypeFacts DEF ReconcileOk, IInv, SingleFlight, CursorTruthful, PlanStillFits, PlanFits, Exec
<1>2. /\ exec'[i].phase = "ok" /\ exec'[i].to = exec[i].to
      /\ \A k \in RunIds : k # i => exec'[k] = exec[k]
      /\ UNCHANGED <<generations, cursor, runs, nextRun, up, dropped, crashes>>
      /\ applied' = [applied EXCEPT ![l] = @ \cup shown]
  BY DEF ReconcileOk, IInv, TypeOK, Exec, tableVars, faultVars
<1>3. /\ applied'[l] = applied[l] \cup shown
      /\ \A m \in Lanes : applied[m] \subseteq applied'[m]
  BY <1>1, <1>2 DEF IInv, TypeOK
<1>4. 1 .. exec[i].to \subseteq applied'[l]
  <2>1. CASE runs[i].full
    BY <1>3, <2>1
  <2>2. CASE ~runs[i].full
    <3> SUFFICES ASSUME NEW g \in 1 .. exec[i].to PROVE g \in applied'[l]
      OBVIOUS
    <3>1. g \in 1 .. cursor[l] \/ g \in (exec[i].from + 1) .. exec[i].to
      BY <1>1, <2>2
    <3> QED BY <1>1, <1>3, <2>2, <3>1
  <2> QED BY <2>1, <2>2
<1>5. SingleFlight'
  BY <1>1, <1>2 DEF IInv, SingleFlight, Running, IsActive
<1>6. CursorTruthful'
  BY <1>2, <1>3 DEF IInv, CursorTruthful
<1>7. LagIsExplained' /\ FreshIds' /\ CursorInLog' /\ ActiveRunHasWork' /\ BudgetByStatus'
  BY <1>2 DEF IInv, LagIsExplained, FreshIds, CursorInLog, ActiveRunHasWork, BudgetByStatus,
              ActiveIn, Latest, IsActive
<1>8. PlanStillFits'
  <2>1. PlanFits(i)'
    BY <1>1, <1>2, <1>4 DEF IInv, PlanStillFits, PlanFits, Latest
  <2>2. ASSUME NEW k \in RunIds, k # i PROVE PlanFits(k)'
    <3>1. runs[k].lane \in Lanes
      BY TypeFacts DEF IInv
    <3> QED BY <1>2, <1>3, <2>2, <3>1 DEF IInv, PlanStillFits, PlanFits, Latest
  <2> QED BY <2>1, <2>2 DEF PlanStillFits
<1> QED BY <1>5, <1>6, <1>7, <1>8 DEF IInv

\* apply_completion of a run that ends: its row is terminal, active rows of
\* other runs are untouched, and pruning resets rows at most.
LEMMA EndRunRows ==
    ASSUME TypeOK, NEW i \in RunIds, NEW status \in Terminal, EndRun(i, status)
    PROVE  /\ ~IsActive(i)'
           /\ \A k \in RunIds : k # i => (IsActive(k)' <=> IsActive(k))
           /\ \A k \in RunIds : IsActive(k)' => runs'[k] = runs[k]
           /\ \A k \in RunIds : \/ runs'[k] = NoRow
                                \/ runs'[k] = runs[k] /\ k # i
                                \/ k = i /\ runs'[k].status = status /\ runs'[k].attempts = runs[k].attempts
<1> DEFINE rows == [runs EXCEPT ![i] = EndedRow(i, status)]
<1>1. runs' = PruneTerminal(rows)
  BY DEF EndRun, EndedRow
<1>2. /\ rows[i].status = status /\ rows[i].attempts = runs[i].attempts
      /\ \A k \in RunIds : k # i => rows[k] = runs[k]
  BY DEF EndedRow, NoRow, TypeOK
<1>3. \A k \in RunIds : runs'[k] = rows[k] \/ (rows[k].status \in Terminal /\ runs'[k] = NoRow)
  BY <1>1, PruneKeeps
<1>4. NoRow.status = "absent" /\ status \notin Active /\ \A s \in Terminal : s \notin Active
  BY DEF NoRow, Terminal, Active
<1> HIDE DEF rows
<1>5. "absent" \notin Active
  BY DEF Active
<1> QED BY <1>2, <1>3, <1>4, <1>5 DEF IsActive

(***************************************************************************)
(* apply_completion after Ok.  The run is the only active one of its lane, *)
(* so nothing else of the lane depends on the cursor that moves.           *)
(***************************************************************************)
LEMMA CompletePreserves ==
    ASSUME IInv, TypeOK', NEW i \in RunIds, CompleteRun(i)
    PROVE  /\ IInv'
           /\ \A l \in Lanes : cursor[l] <= cursor'[l]
<1> DEFINE l == runs[i].lane
<1>1. /\ exec[i].phase = "ok" /\ i \in Running /\ up /\ l \in Lanes
      /\ exec[i].to \in Nat /\ cursor[l] \in Nat
      /\ cursor[l] <= exec[i].to /\ exec[i].to <= Latest(l[1])
      /\ exec[i].to = Latest(l[1]) \/ l \in dropped
      /\ 1 .. exec[i].to \subseteq applied[l]
  BY TypeFacts DEF CompleteRun, IInv, SingleFlight, PlanStillFits, PlanFits, Exec
<1>2. /\ cursor' = [cursor EXCEPT ![l] = exec[i].to]
      /\ exec' = [exec EXCEPT ![i] = NoExec]
      /\ UNCHANGED <<generations, nextRun, up, applied, dropped, crashes>>
  BY <1>1 DEF CompleteRun, CursorAfter, faultVars
<1>3. /\ cursor'[l] = exec[i].to
      /\ \A m \in Lanes : m # l => cursor'[m] = cursor[m]
      /\ \A m \in Lanes : cursor[m] \in Nat
      /\ exec'[i].phase = "none" /\ \A k \in RunIds : k # i => exec'[k] = exec[k]
  BY <1>1, <1>2 DEF IInv, TypeOK, NoExec
<1>4. /\ ~IsActive(i)'
      /\ \A k \in RunIds : k # i => (IsActive(k)' <=> IsActive(k))
      /\ \A k \in RunIds : IsActive(k)' => runs'[k] = runs[k]
      /\ \A k \in RunIds : \/ runs'[k] = NoRow
                           \/ runs'[k] = runs[k] /\ k # i
                           \/ k = i /\ runs'[k].status = "completed" /\ runs'[k].attempts = runs[k].attempts
  BY EndRunRows DEF CompleteRun, IInv, Terminal
<1>5. \A k \in RunIds : IsActive(k)' => IsActive(k) /\ k # i /\ runs[k].lane # l /\ runs[k].lane \in Lanes
  <2>1. IsActive(i)
    BY <1>1 DEF Running, IsActive, Active
  <2> QED BY <2>1, <1>4, TypeFacts DEF IInv, SingleFlight
<1>6. \A m \in Lanes : Latest(m[1])' = Latest(m[1]) /\ Latest(m[1]) \in Nat
  BY <1>2, TypeFacts DEF Latest, IInv
<1>7. SingleFlight'
  <2>1. \A k \in RunIds : exec'[k].phase = "none"
    BY <1>1, <1>3 DEF IInv, SingleFlight
  <2>2. Running' \subseteq Running
    BY <1>4 DEF Running, IsActive, Active
  <2> QED BY <1>4, <1>5, <2>1, <2>2 DEF IInv, SingleFlight
<1>8. CursorTruthful' /\ CursorInLog'
  BY <1>1, <1>2, <1>3, <1>6 DEF IInv, CursorTruthful, CursorInLog
<1>9. LagIsExplained'
  <2> SUFFICES ASSUME NEW m \in Lanes, cursor'[m] < Latest(m[1])', ActiveIn(m)' = {}
               PROVE  m \in dropped'
    BY DEF LagIsExplained
  <2>1. CASE m = l
    BY <1>1, <1>2, <1>3, <1>6, <2>1
  <2>2. CASE m # l
    <3>1. ActiveIn(m) = {}
      BY <1>4, <2>2 DEF ActiveIn
    <3> QED BY <1>2, <1>3, <1>6, <2>2, <3>1 DEF IInv, LagIsExplained
  <2> QED BY <2>1, <2>2
<1>10. FreshIds' /\ ActiveRunHasWork'
  BY <1>2, <1>3, <1>4, <1>5, <1>6 DEF IInv, FreshIds, ActiveRunHasWork
<1>11. PlanStillFits'
  BY <1>1, <1>3 DEF IInv, SingleFlight, PlanStillFits, PlanFits
<1>12. BudgetByStatus'
  BY <1>2, <1>4, ConstantsAssumption DEF IInv, BudgetByStatus, NoRow, TypeOK, ConstantsAssumption
<1>13. \A m \in Lanes : cursor[m] <= cursor'[m]
  BY <1>1, <1>3
<1> QED BY <1>7, <1>8, <1>9, <1>10, <1>11, <1>12, <1>13 DEF IInv

(***************************************************************************)
(* apply_completion after an error: back to the queue, or failed and named *)
(* in dropped.                                                             *)
(***************************************************************************)
LEMMA RetryPreserves ==
    ASSUME IInv, TypeOK', NEW i \in RunIds, RetryRun(i)
    PROVE  IInv'
<1> DEFINE l == runs[i].lane
<1> DEFINE rows == [runs EXCEPT ![i].status = "queued", ![i].due = DueAtOnce(runs[i].attempts)]
<1>1. i \in Running /\ up /\ l \in Lanes /\ runs[i].attempts < MaxRunAttempts /\ runs[i].attempts \in Nat
  <2>1. i \in Running /\ up /\ l \in Lanes
    BY TypeFacts DEF RetryRun, IInv, SingleFlight
  <2>2. runs[i].attempts \in Nat /\ MaxRunAttempts \in Nat
    BY ConstantsAssumption DEF IInv, TypeOK, Run, ConstantsAssumption
  <2> QED BY <2>1, <2>2 DEF RetryRun, BudgetSpent
<1>2. /\ rows[i].status = "queued" /\ rows[i].lane = l /\ rows[i].full = runs[i].full
      /\ rows[i].attempts = runs[i].attempts
      /\ \A k \in RunIds : k # i => rows[k] = runs[k]
  BY DEF IInv, TypeOK, Run
<1>3. \A k \in RunIds : runs'[k] = rows[k] \/ (rows[k].status \in Terminal /\ runs'[k] = NoRow)
  BY PruneKeeps DEF RetryRun
<1>4. /\ exec'[i].phase = "none" /\ \A k \in RunIds : k # i => exec'[k] = exec[k]
      /\ dropped' = dropped \ {l}
      /\ UNCHANGED <<generations, cursor, nextRun, up, applied, crashes>>
  BY DEF RetryRun, IInv, TypeOK, NoExec, faultVars
<1> HIDE DEF rows
<1>5. /\ runs'[i].status = "queued" /\ runs'[i].lane = l /\ runs'[i].full = runs[i].full
      /\ runs'[i].attempts = runs[i].attempts
      /\ \A k \in RunIds : k # i => runs'[k] = runs[k] \/ (runs[k].status \in Terminal /\ runs'[k] = NoRow)
  BY <1>2, <1>3 DEF Terminal
<1>6. \A k \in RunIds : IsActive(k)' <=> IsActive(k)
  BY <1>1, <1>5 DEF IsActive, Active, Terminal, NoRow, Running
<1>7. \A k \in RunIds : exec'[k].phase = "none"
  BY <1>1, <1>4 DEF IInv, SingleFlight
<1>8. NoNewRun
  BY <1>4, <1>5, <1>6 DEF NoNewRun, IsActive, Active, Terminal
<1>9. SingleFlight'
  <2>1. Running' \subseteq Running
    BY <1>5, <1>6 DEF Running, NoRow
  <2> QED BY <1>4, <1>7, <1>8, <2>1, NoNewRunKeeps DEF IInv, SingleFlight
<1>10. CursorTruthful' /\ PlanStillFits'
  BY <1>4, <1>7 DEF IInv, CursorTruthful, PlanStillFits, PlanFits
<1>11. LagIsExplained'
  <2> SUFFICES ASSUME NEW m \in Lanes, cursor'[m] < Latest(m[1])', ActiveIn(m)' = {}
               PROVE  m \in dropped'
    BY DEF LagIsExplained
  <2>1. ActiveIn(m) = {} /\ m # l
    BY <1>1, <1>5, <1>6 DEF ActiveIn, IsActive, Active, Terminal
  <2> QED BY <1>4, <2>1 DEF IInv, LagIsExplained, Latest
<1>12. BudgetByStatus'
  BY <1>1, <1>4, <1>5, ConstantsAssumption DEF IInv, BudgetByStatus, NoRow, TypeOK, ConstantsAssumption
<1> QED BY <1>4, <1>8, <1>9, <1>10, <1>11, <1>12, NoNewRunKeeps DEF IInv

LEMMA FailPreserves ==
    ASSUME IInv, TypeOK', NEW i \in RunIds, FailRun(i)
    PROVE  IInv'
<1> DEFINE l == runs[i].lane
<1>1. /\ i \in Running /\ up /\ l \in Lanes /\ runs[i].attempts >= MaxRunAttempts
      /\ \A k \in RunIds : k # i => exec[k].phase = "none"
  BY TypeFacts DEF FailRun, IInv, SingleFlight, BudgetSpent
<1>2. /\ ~IsActive(i)'
      /\ \A k \in RunIds : k # i => (IsActive(k)' <=> IsActive(k))
      /\ \A k \in RunIds : IsActive(k)' => runs'[k] = runs[k]
      /\ \A k \in RunIds : \/ runs'[k] = NoRow
                           \/ runs'[k] = runs[k] /\ k # i
                           \/ k = i /\ runs'[k].status = "failed" /\ runs'[k].attempts = runs[k].attempts
  BY EndRunRows DEF FailRun, IInv, Terminal
<1>3. /\ \A k \in RunIds : exec'[k].phase = "none"
      /\ dropped' = dropped \cup {l}
      /\ UNCHANGED <<generations, cursor, nextRun, up, applied, crashes>>
  BY <1>1 DEF FailRun, IInv, TypeOK, NoExec, faultVars
<1>4. NoNewRun
  BY <1>2, <1>3 DEF NoNewRun
<1>5. SingleFlight'
  <2>1. Running' \subseteq Running
    BY <1>2 DEF Running, IsActive, Active
  <2> QED BY <1>3, <1>4, <2>1, NoNewRunKeeps DEF IInv, SingleFlight
<1>6. CursorTruthful' /\ PlanStillFits'
  BY <1>3 DEF IInv, CursorTruthful, PlanStillFits, PlanFits
<1>7. LagIsExplained'
  <2> SUFFICES ASSUME NEW m \in Lanes, cursor'[m] < Latest(m[1])', ActiveIn(m)' = {}
               PROVE  m \in dropped'
    BY DEF LagIsExplained
  <2>1. CASE m = l
    BY <1>3, <2>1
  <2>2. CASE m # l
    <3>1. ActiveIn(m) = {}
      BY <1>2, <2>2 DEF ActiveIn
    <3> QED BY <1>3, <3>1 DEF IInv, LagIsExplained, Latest
  <2> QED BY <2>1, <2>2
<1>8. BudgetByStatus'
  BY <1>1, <1>2, <1>3, ConstantsAssumption DEF IInv, BudgetByStatus, NoRow, TypeOK, ConstantsAssumption
<1> QED BY <1>3, <1>4, <1>5, <1>6, <1>7, <1>8, NoNewRunKeeps DEF IInv

(***************************************************************************)
(* clear_queued_runs_for_repo deletes queued rows and names their lanes.   *)
(***************************************************************************)
LEMMA ClearPreserves ==
    ASSUME IInv, TypeOK', NEW r \in Repos, ClearQueuedRuns(r)
    PROVE  IInv'
<1>1. /\ \A k \in RunIds : runs'[k] = runs[k] \/ (runs[k].status = "queued" /\ runs'[k] = NoRow)
      /\ \A k \in RunIds : runs'[k] # runs[k] => runs[k].lane \in dropped'
      /\ dropped \subseteq dropped'
      /\ UNCHANGED <<generations, cursor, nextRun, exec, up, applied, crashes>>
  <2>1. ASSUME NEW k \in RunIds, runs'[k] # runs[k] PROVE runs[k].lane \in dropped'
    <3>1. runs[k].status = "queued" /\ runs[k].lane[1] = r /\ runs[k].lane \in Lanes
      BY <2>1, TypeFacts DEF ClearQueuedRuns, IInv
    <3>2. k \in QueuedIn(runs[k].lane)
      BY <3>1 DEF QueuedIn, ActiveIn, IsActive, Active
    <3> QED BY <3>1, <3>2 DEF ClearQueuedRuns
  <2> QED BY <2>1 DEF ClearQueuedRuns
<1>2. \A k \in RunIds : IsActive(k)' => IsActive(k) /\ runs'[k] = runs[k]
  BY <1>1 DEF IsActive, Active, NoRow
<1>3. NoNewRun
  BY <1>1, <1>2 DEF NoNewRun
<1>4. \A k \in RunIds : exec[k].phase # "none" => runs'[k] = runs[k] /\ k \in Running /\ k \in Running'
  BY <1>1 DEF IInv, SingleFlight, Running
<1>5. SingleFlight'
  <2>1. Running' \subseteq Running
    BY <1>1 DEF Running, NoRow
  <2> QED BY <1>1, <1>3, <1>4, <2>1, NoNewRunKeeps DEF IInv, SingleFlight
<1>6. CursorTruthful'
  BY <1>1 DEF IInv, CursorTruthful
<1>7. LagIsExplained'
  <2> SUFFICES ASSUME NEW l \in Lanes, cursor'[l] < Latest(l[1])', ActiveIn(l)' = {}
               PROVE  l \in dropped'
    BY DEF LagIsExplained
  <2>1. CASE ActiveIn(l) = {}
    BY <1>1, <2>1 DEF IInv, LagIsExplained, Latest
  <2>2. CASE ActiveIn(l) # {}
    <3>1. PICK k \in RunIds : IsActive(k) /\ runs[k].lane = l
      BY <2>2 DEF ActiveIn
    <3>2. runs'[k] # runs[k]
      BY <3>1 DEF ActiveIn, IsActive
    <3> QED BY <1>1, <3>1, <3>2
  <2> QED BY <2>1, <2>2
<1>8. PlanStillFits'
  BY <1>1, <1>4 DEF IInv, PlanStillFits, PlanFits, Latest
<1>9. BudgetByStatus'
  BY <1>1, ConstantsAssumption DEF IInv, BudgetByStatus, NoRow, TypeOK, ConstantsAssumption
<1> QED BY <1>1, <1>3, <1>5, <1>6, <1>7, <1>8, <1>9, NoNewRunKeeps DEF IInv

(***************************************************************************)
(* A crash forgets the task; the next start returns its row to the queue.  *)
(***************************************************************************)
LEMMA CrashPreserves ==
    ASSUME IInv, TypeOK', Crash
    PROVE  IInv'
<1>1. /\ up /\ ~up' /\ crashes' = crashes + 1 /\ crashes \in Nat
      /\ \A k \in RunIds : exec'[k].phase = "none"
      /\ UNCHANGED <<generations, cursor, runs, nextRun, applied, dropped>>
  BY DEF Crash, tableVars, NoExec, IInv, TypeOK
<1>2. SingleFlight' /\ CursorTruthful' /\ LagIsExplained' /\ FreshIds' /\ CursorInLog' /\ ActiveRunHasWork'
  BY <1>1 DEF IInv, SingleFlight, CursorTruthful, LagIsExplained, FreshIds, CursorInLog,
              ActiveRunHasWork, ActiveIn, Latest, IsActive, Running
<1>3. PlanStillFits'
  BY <1>1 DEF PlanStillFits, PlanFits
<1>4. BudgetByStatus'
  <2>1. \A k \in RunIds : runs[k].attempts \in Nat
    BY DEF IInv, TypeOK, Run
  <2>2. MaxRunAttempts \in Nat
    BY ConstantsAssumption DEF ConstantsAssumption
  <2> QED BY <1>1, <2>1, <2>2 DEF IInv, BudgetByStatus
<1> QED BY <1>2, <1>3, <1>4 DEF IInv

LEMMA ActivatePreserves ==
    ASSUME IInv, TypeOK', ActivateWorker
    PROVE  IInv'
<1>1. /\ ~up /\ up'
      /\ \A k \in RunIds : exec[k].phase = "none"
      /\ UNCHANGED <<generations, cursor, nextRun, exec, applied, crashes>>
  BY DEF ActivateWorker, IInv, SingleFlight
<1>2. PlanStillFits' /\ CursorTruthful'
  BY <1>1 DEF PlanStillFits, PlanFits, IInv, CursorTruthful
<1>3. CASE UNCHANGED <<runs, dropped>>
  <2>1. SingleFlight' /\ LagIsExplained' /\ FreshIds' /\ CursorInLog' /\ ActiveRunHasWork'
    BY <1>1, <1>3 DEF IInv, SingleFlight, LagIsExplained, FreshIds, CursorInLog,
                      ActiveRunHasWork, ActiveIn, Latest, IsActive, Running
  <2>2. BudgetByStatus'
    BY <1>1, <1>3 DEF IInv, BudgetByStatus
  <2> QED BY <1>2, <2>1, <2>2 DEF IInv
<1>4. CASE RecoverStep /\ dropped' = dropped \ {runs[i].lane : i \in Running}
  <2>1. \A k \in RunIds :
           /\ runs'[k].lane = runs[k].lane /\ runs'[k].full = runs[k].full
           /\ runs'[k].attempts = runs[k].attempts
           /\ runs'[k].status = IF runs[k].status = "running" THEN "queued" ELSE runs[k].status
    BY <1>4 DEF RecoverStep, IInv, TypeOK, Run
  <2>2. \A k \in RunIds : IsActive(k)' <=> IsActive(k)
    BY <2>1 DEF IsActive, Active
  <2>3. NoNewRun
    BY <1>1, <2>1, <2>2 DEF NoNewRun
  <2>4. Running' = {}
    BY <2>1 DEF Running
  <2>5. SingleFlight'
    BY <1>1, <2>3, <2>4, NoNewRunKeeps DEF SingleFlight
  <2>6. LagIsExplained'
    <3> SUFFICES ASSUME NEW l \in Lanes, cursor'[l] < Latest(l[1])', ActiveIn(l)' = {}
                 PROVE  l \in dropped'
      BY DEF LagIsExplained
    <3>1. ActiveIn(l) = {}
      BY <2>1, <2>2 DEF ActiveIn
    <3>2. l \notin {runs[i].lane : i \in Running}
      BY <3>1 DEF ActiveIn, Running, IsActive, Active
    <3> QED BY <1>1, <1>4, <3>1, <3>2 DEF IInv, LagIsExplained, Latest
  <2>7. BudgetByStatus'
    BY <1>1, <2>1 DEF IInv, BudgetByStatus
  <2> QED BY <1>1, <1>2, <2>3, <2>5, <2>6, <2>7, NoNewRunKeeps DEF IInv
<1> QED BY <1>3, <1>4 DEF ActivateWorker

(***************************************************************************)
(* force_consumer_run: the lane has no running run, so either its queued   *)
(* run becomes a full one or a new run is its only active one.             *)
(***************************************************************************)
LEMMA ForcePreserves ==
    ASSUME IInv, TypeOK', NEW l \in Lanes, ForceConsumerRun(l)
    PROVE  IInv'
<1>t. /\ runs \in [RunIds -> Run] /\ nextRun \in Nat /\ crashes \in Nat /\ MaxRunAttempts \in Nat \ {0}
      /\ \A m \in Lanes : cursor[m] \in Nat /\ Latest(m[1]) \in Nat
  BY TypeFacts, ConstantsAssumption DEF IInv, TypeOK, ConstantsAssumption
<1>1. /\ Latest(l[1]) > 0 /\ RunningIn(l) = {}
      /\ dropped' = dropped \ {l}
      /\ UNCHANGED <<generations, cursor, exec, up, applied, crashes>>
  BY DEF ForceConsumerRun, CanForce
<1>2. /\ nextRun' >= nextRun
      /\ \A k \in RunIds :
            \/ runs'[k] = runs[k]
            \/ /\ runs'[k].status = "queued" /\ runs'[k].lane = l /\ runs'[k].full
               /\ runs'[k].attempts < MaxRunAttempts + crashes /\ k < nextRun'
               /\ runs[k].status # "running"
               /\ IsActive(k) => runs[k].lane = l
      /\ \A i, j \in RunIds : (IsActive(i)' /\ IsActive(j)' /\ i # j) => runs'[i].lane # runs'[j].lane
      /\ \E k \in RunIds : IsActive(k)' /\ runs'[k].lane = l
  <2>1. CASE /\ QueuedIn(l) # {}
             /\ runs' = [i \in RunIds |->
                           IF i \in QueuedIn(l)
                           THEN [Refreshed(runs[i], Latest(l[1]) - 1, Latest(l[1]), FALSE) EXCEPT !.full = TRUE]
                           ELSE runs[i]]
             /\ UNCHANGED nextRun
    <3>1. ASSUME NEW k \in QueuedIn(l)
          PROVE  /\ k \in RunIds /\ runs'[k].status = "queued" /\ runs'[k].lane = l /\ runs'[k].full
                 /\ runs'[k].attempts = runs[k].attempts /\ runs[k].attempts < MaxRunAttempts + crashes
                 /\ runs[k].lane = l /\ runs[k].status = "queued" /\ IsActive(k) /\ k < nextRun
      <4>1. k \in RunIds /\ runs[k].lane = l /\ runs[k].status = "queued" /\ IsActive(k) /\ runs[k] \in Run
        BY <1>t DEF QueuedIn, ActiveIn
      <4>2. k < nextRun
        BY <1>t, <4>1 DEF IInv, FreshIds, RunIds
      <4>3. runs[k].attempts < MaxRunAttempts + crashes
        BY <4>1 DEF IInv, BudgetByStatus
      <4>4. /\ runs'[k].status = runs[k].status /\ runs'[k].lane = runs[k].lane /\ runs'[k].full
            /\ runs'[k].attempts = runs[k].attempts
        BY <2>1, <4>1 DEF Refreshed, Run
      <4> QED BY <4>1, <4>2, <4>3, <4>4
    <3>2. \A k \in RunIds : k \notin QueuedIn(l) => runs'[k] = runs[k]
      BY <2>1
    <3>3. \A k \in RunIds : (IsActive(k)' <=> IsActive(k)) /\ runs'[k].lane = runs[k].lane
      BY <3>1, <3>2 DEF IsActive, Active
    <3>4. \A i, j \in RunIds : (IsActive(i)' /\ IsActive(j)' /\ i # j) => runs'[i].lane # runs'[j].lane
      BY <3>3 DEF IInv, SingleFlight
    <3>5. \E k \in RunIds : IsActive(k)' /\ runs'[k].lane = l
      BY <2>1, <3>1, <3>3
    <3>6. nextRun' >= nextRun
      BY <1>t, <2>1
    <3>7. \A k \in RunIds :
            \/ runs'[k] = runs[k]
            \/ /\ runs'[k].status = "queued" /\ runs'[k].lane = l /\ runs'[k].full
               /\ runs'[k].attempts < MaxRunAttempts + crashes /\ k < nextRun'
               /\ runs[k].status # "running"
               /\ IsActive(k) => runs[k].lane = l
      BY <2>1, <3>1, <3>2
    <3> QED BY <3>4, <3>5, <3>6, <3>7
  <2>2. CASE /\ QueuedIn(l) = {}
             /\ nextRun <= MaxRuns
             /\ runs' = [runs EXCEPT ![nextRun] = NewRun(l, Latest(l[1]) - 1, Latest(l[1]), TRUE, FALSE)]
             /\ nextRun' = nextRun + 1
    <3>1. PICK n \in RunIds : n = nextRun /\ ~IsActive(n)
      <4>1. nextRun >= 1 /\ MaxRuns \in Nat
        BY ConstantsAssumption DEF IInv, TypeOK, ConstantsAssumption
      <4>2. nextRun \in RunIds
        BY <1>t, <2>2, <4>1 DEF RunIds
      <4> QED BY <1>t, <4>2 DEF IInv, FreshIds
    <3>2. /\ runs'[n].status = "queued" /\ runs'[n].lane = l /\ runs'[n].full
          /\ runs'[n].attempts = 0
          /\ \A k \in RunIds : k # n => runs'[k] = runs[k]
      BY <1>t, <2>2, <3>1 DEF NewRun
    <3>3. \A k \in RunIds : IsActive(k) => runs[k].lane # l
      BY <1>1, <2>2 DEF QueuedIn, RunningIn, ActiveIn, IsActive, Active
    <3>4. \A i, j \in RunIds : (IsActive(i)' /\ IsActive(j)' /\ i # j) => runs'[i].lane # runs'[j].lane
      BY <3>2, <3>3 DEF IInv, SingleFlight, IsActive
    <3>5. IsActive(n)' /\ runs'[n].lane = l
      BY <3>2 DEF IsActive, Active
    <3>6. runs[n].status # "running" /\ 0 < MaxRunAttempts + crashes /\ n < nextRun'
      BY <1>t, <2>2, <3>1 DEF IsActive, Active
    <3>7. nextRun' >= nextRun
      BY <1>t, <2>2
    <3> QED BY <3>1, <3>2, <3>4, <3>5, <3>6, <3>7
  <2> QED BY <1>1, <2>1, <2>2 DEF ForceConsumerRun
<1>3. \A k \in RunIds : exec[k].phase # "none" => runs'[k] = runs[k] /\ k \in Running /\ runs[k].lane # l
  <2>1. \A k \in Running : runs[k].lane # l /\ k \in RunIds
    BY <1>1 DEF Running, RunningIn, ActiveIn, IsActive, Active
  <2> QED BY <1>2, <2>1 DEF IInv, SingleFlight, Running
<1>4. SingleFlight'
  <2>1. Running' = Running
    BY <1>2 DEF Running
  <2> QED BY <1>1, <1>2, <1>3, <2>1 DEF IInv, SingleFlight
<1>5. CursorTruthful' /\ CursorInLog'
  BY <1>1 DEF IInv, CursorTruthful, CursorInLog, Latest
<1>6. LagIsExplained'
  <2> SUFFICES ASSUME NEW m \in Lanes, cursor'[m] < Latest(m[1])', ActiveIn(m)' = {}
               PROVE  m \in dropped'
    BY DEF LagIsExplained
  <2>1. m # l
    BY <1>2 DEF ActiveIn
  <2>2. ActiveIn(m) = {}
    <3>1. ASSUME NEW k \in RunIds, IsActive(k), runs[k].lane = m PROVE FALSE
      <4>1. runs'[k] = runs[k]
        BY <1>2, <2>1, <3>1
      <4> QED BY <3>1, <4>1 DEF ActiveIn, IsActive
    <3> QED BY <3>1 DEF ActiveIn
  <2> QED BY <1>1, <2>1, <2>2 DEF IInv, LagIsExplained, Latest
<1>7. FreshIds'
  <2> SUFFICES ASSUME NEW k \in RunIds, k >= nextRun' PROVE ~IsActive(k)'
    BY DEF FreshIds
  <2>1. k \in Int /\ nextRun' \in Int
    BY DEF RunIds, TypeOK
  <2>2. runs'[k] = runs[k] /\ k >= nextRun
    BY <1>t, <1>2, <2>1
  <2> QED BY <2>2 DEF IInv, FreshIds, IsActive
<1>8. ActiveRunHasWork'
  BY <1>1, <1>2 DEF IInv, ActiveRunHasWork, Latest, IsActive
<1>9. PlanStillFits'
  BY <1>1, <1>3 DEF IInv, PlanStillFits, PlanFits, Latest
<1>10. BudgetByStatus'
  <2> SUFFICES ASSUME NEW k \in RunIds
               PROVE  /\ runs'[k].attempts <= MaxRunAttempts + crashes
                      /\ runs'[k].status = "queued" => runs'[k].attempts < MaxRunAttempts + crashes
                      /\ (runs'[k].status = "running" /\ ~up) => runs'[k].attempts < MaxRunAttempts + crashes
                      /\ runs'[k].status = "failed" => runs'[k].attempts >= MaxRunAttempts
    BY <1>1 DEF BudgetByStatus
  <2>1. runs'[k].attempts \in Nat
    BY DEF TypeOK, Run
  <2>2. CASE runs'[k] = runs[k]
    BY <2>2 DEF IInv, BudgetByStatus
  <2>3. CASE runs'[k].status = "queued" /\ runs'[k].attempts < MaxRunAttempts + crashes
    BY <1>t, <2>1, <2>3
  <2> QED BY <1>2, <2>2, <2>3
<1> QED BY <1>4, <1>5, <1>6, <1>7, <1>8, <1>9, <1>10 DEF IInv

(***************************************************************************)
(* record_sync_generation, seen from the rows: a row is kept, was terminal *)
(* and is pruned, or is a queued run of the repo, either an old one or the *)
(* new and only one of a lane that had none.                               *)
(***************************************************************************)
LEMMA RecordRows ==
    ASSUME IInv, NEW r \in Repos, NEW full \in BOOLEAN, NEW init \in BOOLEAN,
           RecordGeneration(r, full, init)
    PROVE  /\ \A k \in RunIds :
                 \/ runs'[k] = runs[k]
                 \/ runs[k].status \in Terminal /\ runs'[k] = NoRow
                 \/ /\ runs'[k].status = "queued" /\ runs'[k].lane[1] = r
                    /\ runs'[k].attempts < MaxRunAttempts + crashes
                    /\ k < nextRun' /\ runs[k].status # "running"
                    /\ IF IsActive(k) THEN runs'[k].lane = runs[k].lane
                                      ELSE k >= nextRun /\ ActiveIn(runs'[k].lane) = {}
           /\ \A i, j \in RunIds :
                 (IsActive(i)' /\ IsActive(j)' /\ ~IsActive(i) /\ ~IsActive(j) /\ i # j)
                     => runs'[i].lane # runs'[j].lane
           /\ \A c \in Fresh(r) : \E k \in RunIds : IsActive(k)' /\ runs'[k].lane = <<r, c>>
           /\ nextRun' >= nextRun
<1> DEFINE latest == Latest(r) + 1
<1> DEFINE forSession(c) == init /\ c \in Blocking
<1> DEFINE newRow(c) == NewRun(<<r, c>>, cursor[<<r, c>>], latest, FALSE, forSession(c))
<1> DEFINE oldRow(k) == Refreshed(runs[k], cursor[runs[k].lane], latest, forSession(runs[k].lane[2]))
<1> DEFINE isNew(k) == \E c \in Fresh(r) : NewId(r, c) = k
<1> DEFINE consumer(k) == CHOOSE c \in Fresh(r) : NewId(r, c) = k
<1> DEFINE refreshed(k) == runs[k].status = "queued" /\ runs[k].lane[1] = r
<1> DEFINE row(k) == IF isNew(k) THEN newRow(consumer(k)) ELSE IF refreshed(k) THEN oldRow(k) ELSE runs[k]
<1>t. /\ runs \in [RunIds -> Run] /\ nextRun \in Nat /\ nextRun >= 1 /\ MaxRuns \in Nat
      /\ crashes \in Nat /\ MaxRunAttempts \in Nat \ {0}
  BY ConstantsAssumption DEF IInv, TypeOK, ConstantsAssumption
<1>1. runs' = PruneTerminal([k \in RunIds |-> row(k)])
  BY DEF RecordGeneration, NewId
<1>2. /\ \A c \in Fresh(r) : NewId(r, c) \in nextRun .. (nextRun + Cardinality(Fresh(r)) - 1)
      /\ \A c, d \in Fresh(r) : NewId(r, c) = NewId(r, d) => c = d
      /\ nextRun + Cardinality(Fresh(r)) <= MaxRuns + 1
      /\ nextRun' = nextRun + Cardinality(Fresh(r))
      /\ Cardinality(Fresh(r)) \in Nat
  BY <1>t, NewIds, FreshFinite DEF RecordGeneration
<1>3. \A c \in Fresh(r) : NewId(r, c) \in RunIds /\ NewId(r, c) >= nextRun /\ NewId(r, c) < nextRun'
  BY <1>t, <1>2 DEF RunIds
<1>4. \A c \in Fresh(r) : isNew(NewId(r, c)) /\ consumer(NewId(r, c)) = c
  BY <1>2
<1>5. \A k \in RunIds : isNew(k) => /\ consumer(k) \in Fresh(r) /\ NewId(r, consumer(k)) = k
                                    /\ k >= nextRun /\ k < nextRun'
  BY <1>3
<1>6. \A c : /\ newRow(c).status = "queued" /\ newRow(c).lane = <<r, c>> /\ newRow(c).attempts = 0
  BY DEF NewRun
<1>7. \A k \in RunIds : refreshed(k) => /\ oldRow(k).status = "queued" /\ oldRow(k).lane = runs[k].lane
                                        /\ oldRow(k).attempts = runs[k].attempts
  <2> TAKE k \in RunIds
  <2>1. runs[k] \in Run
    BY <1>t
  <2> QED BY <2>1 DEF Refreshed, Run
<1>8. \A k \in RunIds : runs'[k] = row(k) \/ (row(k).status \in Terminal /\ runs'[k] = NoRow)
  <2> DEFINE rows == [k \in RunIds |-> row(k)]
  <2>1. \A k \in RunIds : rows[k] = row(k)
    OBVIOUS
  <2>2. runs' = PruneTerminal(rows)
    BY <1>1
  <2> HIDE DEF rows, row
  <2> QED BY <2>1, <2>2, PruneKeeps
<1>9. "queued" \notin Terminal
  BY DEF Terminal
<1> HIDE DEF newRow, oldRow, isNew, consumer
<1>10. ASSUME NEW k \in RunIds, isNew(k)
       PROVE  /\ runs'[k] = newRow(consumer(k)) /\ ~IsActive(k)
              /\ runs'[k].lane = <<r, consumer(k)>> /\ runs'[k].status = "queued" /\ runs'[k].attempts = 0
              /\ ActiveIn(<<r, consumer(k)>>) = {} /\ k >= nextRun /\ k < nextRun' /\ runs[k].status # "running"
  <2>1. runs'[k] = newRow(consumer(k))
    BY <1>6, <1>8, <1>9, <1>10
  <2>2. ~IsActive(k) /\ runs[k].status # "running"
    BY <1>5, <1>10 DEF IInv, FreshIds, IsActive, Active
  <2>3. ActiveIn(<<r, consumer(k)>>) = {}
    BY <1>5, <1>10 DEF Fresh, NeedsRun
  <2> QED BY <1>5, <1>6, <1>10, <2>1, <2>2, <2>3
<1>11. ASSUME NEW k \in RunIds, ~isNew(k), refreshed(k)
       PROVE  /\ runs'[k].status = "queued" /\ runs'[k].lane = runs[k].lane
              /\ runs'[k].attempts = runs[k].attempts /\ runs[k].attempts < MaxRunAttempts + crashes
              /\ IsActive(k) /\ k < nextRun'
  <2>1. runs'[k] = oldRow(k)
    BY <1>7, <1>8, <1>9, <1>11
  <2>2. IsActive(k) /\ runs[k].attempts < MaxRunAttempts + crashes
    BY <1>11 DEF IInv, BudgetByStatus, IsActive, Active
  <2>3. k < nextRun'
    <3>1. k < nextRun /\ k \in Nat
      BY <1>t, <2>2 DEF IInv, FreshIds, RunIds
    <3> QED BY <1>t, <1>2, <3>1
  <2> QED BY <1>7, <1>11, <2>1, <2>2, <2>3
<1>12. \A k \in RunIds : (~isNew(k) /\ ~refreshed(k)) =>
          runs'[k] = runs[k] \/ (runs[k].status \in Terminal /\ runs'[k] = NoRow)
  BY <1>8
<1>13. \A k \in RunIds : IsActive(k)' /\ ~IsActive(k) => isNew(k)
  BY <1>11, <1>12 DEF IsActive, Active, NoRow
<1>14. \A k \in RunIds :
          \/ runs'[k] = runs[k]
          \/ runs[k].status \in Terminal /\ runs'[k] = NoRow
          \/ /\ runs'[k].status = "queued" /\ runs'[k].lane[1] = r
             /\ runs'[k].attempts < MaxRunAttempts + crashes
             /\ k < nextRun' /\ runs[k].status # "running"
             /\ IF IsActive(k) THEN runs'[k].lane = runs[k].lane
                               ELSE k >= nextRun /\ ActiveIn(runs'[k].lane) = {}
  <2> TAKE k \in RunIds
  <2>1. CASE isNew(k)
    <3>1. 0 < MaxRunAttempts + crashes
      BY <1>t
    <3>2. /\ runs'[k].lane = <<r, consumer(k)>> /\ ActiveIn(<<r, consumer(k)>>) = {}
          /\ runs'[k].status = "queued" /\ runs'[k].attempts = 0 /\ ~IsActive(k)
          /\ k >= nextRun /\ k < nextRun' /\ runs[k].status # "running"
      BY <1>10, <2>1
    <3>3. runs'[k].lane[1] = r /\ ActiveIn(runs'[k].lane) = {}
      BY <3>2
    <3> QED BY <3>1, <3>2, <3>3
  <2>2. CASE ~isNew(k) /\ refreshed(k)
    BY <1>11, <2>2
  <2>3. CASE ~isNew(k) /\ ~refreshed(k)
    BY <1>12, <2>3
  <2> QED BY <2>1, <2>2, <2>3
<1>15. \A i, j \in RunIds :
          (IsActive(i)' /\ IsActive(j)' /\ ~IsActive(i) /\ ~IsActive(j) /\ i # j)
              => runs'[i].lane # runs'[j].lane
  <2> SUFFICES ASSUME NEW i \in RunIds, NEW j \in RunIds, isNew(i), isNew(j), i # j
               PROVE  runs'[i].lane # runs'[j].lane
    BY <1>13
  <2>1. consumer(i) # consumer(j)
    BY <1>5
  <2>2. runs'[i].lane = <<r, consumer(i)>> /\ runs'[j].lane = <<r, consumer(j)>>
    BY <1>10
  <2> QED BY ONLY <2>1, <2>2
<1>16. \A c \in Fresh(r) : \E k \in RunIds : IsActive(k)' /\ runs'[k].lane = <<r, c>>
  <2> TAKE c \in Fresh(r)
  <2>1. PICK k \in RunIds : k = NewId(r, c) /\ isNew(k) /\ consumer(k) = c
    BY <1>3, <1>4
  <2> QED BY <1>10, <2>1 DEF IsActive, Active
<1>17. nextRun' >= nextRun
  BY <1>t, <1>2
<1> QED BY <1>14, <1>15, <1>16, <1>17

LEMMA RecordPreserves ==
    ASSUME IInv, TypeOK', NEW r \in Repos, NEW full \in BOOLEAN, NEW init \in BOOLEAN,
           RecordGeneration(r, full, init)
    PROVE  IInv'
<1>t. /\ runs \in [RunIds -> Run] /\ nextRun \in Nat /\ crashes \in Nat /\ MaxRunAttempts \in Nat \ {0}
      /\ \A m \in Lanes : cursor[m] \in Nat /\ Latest(m[1]) \in Nat /\ cursor[m] <= Latest(m[1])
      /\ \A k \in RunIds : runs[k].lane \in Lanes
  BY TypeFacts, ConstantsAssumption DEF IInv, TypeOK, ConstantsAssumption, CursorInLog
<1>1. /\ UNCHANGED <<cursor, exec, up, applied, crashes>> /\ up
      /\ Latest(r)' = Latest(r) + 1
      /\ \A m \in Lanes : m[1] # r => Latest(m[1])' = Latest(m[1])
  <2>1. generations' = [generations EXCEPT ![r] = Append(@, full)] /\ generations \in [Repos -> Seq(BOOLEAN)]
    BY DEF RecordGeneration, IInv, TypeOK
  <2>2. Latest(r)' = Latest(r) + 1
    BY <2>1 DEF Latest
  <2>3. \A m \in Lanes : m[1] # r => Latest(m[1])' = Latest(m[1])
    BY <2>1 DEF Latest, Lanes
  <2> QED BY <2>2, <2>3 DEF RecordGeneration, faultVars
<1>2. \A m \in Lanes : /\ Latest(m[1])' \in Nat /\ Latest(m[1]) <= Latest(m[1])'
                       /\ m[1] = r => Latest(m[1]) < Latest(m[1])'
  <2> TAKE m \in Lanes
  <2>1. CASE m[1] = r
    BY <1>t, <1>1, <2>1
  <2>2. CASE m[1] # r
    BY <1>t, <1>1, <2>2
  <2> QED BY <2>1, <2>2
<1>3. \A k \in RunIds :
         \/ runs'[k] = runs[k]
         \/ runs[k].status \in Terminal /\ runs'[k] = NoRow
         \/ /\ runs'[k].status = "queued" /\ runs'[k].lane[1] = r
            /\ runs'[k].attempts < MaxRunAttempts + crashes
            /\ k < nextRun' /\ runs[k].status # "running"
            /\ IF IsActive(k) THEN runs'[k].lane = runs[k].lane
                              ELSE k >= nextRun /\ ActiveIn(runs'[k].lane) = {}
  BY RecordRows
<1>4. /\ \A i, j \in RunIds :
            (IsActive(i)' /\ IsActive(j)' /\ ~IsActive(i) /\ ~IsActive(j) /\ i # j)
                => runs'[i].lane # runs'[j].lane
      /\ \A c \in Fresh(r) : \E k \in RunIds : IsActive(k)' /\ runs'[k].lane = <<r, c>>
      /\ nextRun' >= nextRun
  BY RecordRows
<1>5. \A k \in RunIds :
         /\ IsActive(k) => IsActive(k)' /\ runs'[k].lane = runs[k].lane
         /\ (IsActive(k)' /\ ~IsActive(k)) => ActiveIn(runs'[k].lane) = {}
         /\ k \in Running => runs'[k] = runs[k]
         /\ k \in Running' => k \in Running
  BY <1>3 DEF IsActive, Active, Terminal, NoRow, Running
<1>6. SingleFlight'
  <2>1. ASSUME NEW i \in RunIds, NEW j \in RunIds, IsActive(i)', IsActive(j)', i # j
        PROVE  runs'[i].lane # runs'[j].lane
    <3>1. CASE IsActive(i) /\ IsActive(j)
      BY <1>5, <2>1, <3>1 DEF IInv, SingleFlight
    <3>2. CASE ~IsActive(i) /\ ~IsActive(j)
      BY <1>4, <2>1, <3>2
    <3>3. CASE IsActive(i) /\ ~IsActive(j)
      BY <1>5, <2>1, <3>3 DEF ActiveIn
    <3>4. CASE ~IsActive(i) /\ IsActive(j)
      BY <1>5, <2>1, <3>4 DEF ActiveIn
    <3> QED BY <3>1, <3>2, <3>3, <3>4
  <2>2. \A i, j \in Running' : i = j
    BY <1>5 DEF IInv, SingleFlight, Running
  <2>3. \A i \in RunIds : exec'[i].phase # "none" => up' /\ i \in Running'
    BY <1>1, <1>5 DEF IInv, SingleFlight, Running
  <2> QED BY <2>1, <2>2, <2>3 DEF SingleFlight
<1>7. CursorTruthful'
  BY <1>1 DEF IInv, CursorTruthful
<1>8. CursorInLog'
  <2> SUFFICES ASSUME NEW m \in Lanes PROVE cursor[m] <= Latest(m[1])'
    BY <1>1 DEF CursorInLog
  <2> QED BY <1>t, <1>2
<1>9. LagIsExplained'
  <2> SUFFICES ASSUME NEW m \in Lanes, cursor'[m] < Latest(m[1])', ActiveIn(m)' = {}
               PROVE  m \in dropped'
    BY DEF LagIsExplained
  <2>1. ActiveIn(m) = {}
    BY <1>5 DEF ActiveIn
  <2>2. CASE m[1] = r
    <3>1. m[2] \in Fresh(r) /\ m = <<r, m[2]>>
      BY <2>1, <2>2 DEF Fresh, NeedsRun, Lanes
    <3> QED BY <1>4, <3>1 DEF ActiveIn
  <2>3. CASE m[1] # r
    <3>1. m \in dropped
      BY <1>1, <2>1, <2>3 DEF IInv, LagIsExplained
    <3> QED BY <2>3, <3>1 DEF RecordGeneration
  <2> QED BY <2>2, <2>3
<1>10. FreshIds'
  <2> SUFFICES ASSUME NEW k \in RunIds, k >= nextRun', IsActive(k)' PROVE FALSE
    BY DEF FreshIds
  <2>1. k \in Int /\ nextRun' \in Int
    BY DEF RunIds, TypeOK
  <2>2. k >= nextRun /\ ~(k < nextRun')
    BY <1>t, <1>4, <2>1
  <2>3. ~IsActive(k)
    BY <2>2 DEF IInv, FreshIds
  <2>4. runs'[k] = runs[k] \/ runs'[k] = NoRow
    BY <1>3, <2>2
  <2> QED BY <2>3, <2>4 DEF IsActive, Active, NoRow
<1>11. ActiveRunHasWork'
  <2> SUFFICES ASSUME NEW k \in RunIds, IsActive(k)', NEW m \in Lanes, m = runs'[k].lane
               PROVE  /\ Latest(m[1])' > 0
                      /\ runs'[k].full \/ cursor'[m] < Latest(m[1])'
    <3>1. \A k \in RunIds : runs'[k].lane \in Lanes
      BY DEF TypeOK, Run
    <3> QED BY <3>1 DEF ActiveRunHasWork
  <2>1. CASE m[1] = r
    <3>1. /\ Latest(m[1]) < Latest(m[1])' /\ Latest(m[1]) \in Nat /\ Latest(m[1])' \in Nat
          /\ cursor[m] <= Latest(m[1]) /\ cursor[m] \in Nat
      BY <1>t, <1>2, <2>1
    <3> QED BY <1>1, <3>1
  <2>2. CASE m[1] # r
    <3>1. runs'[k] = runs[k] /\ IsActive(k)
      BY <1>3, <2>2 DEF IsActive, Active, NoRow
    <3> QED BY <1>1, <2>2, <3>1 DEF IInv, ActiveRunHasWork
  <2> QED BY <2>1, <2>2
<1>12. PlanStillFits'
  <2> SUFFICES ASSUME NEW k \in RunIds PROVE PlanFits(k)'
    BY DEF PlanStillFits
  <2>1. PlanFits(k)
    BY DEF IInv, PlanStillFits
  <2>2. CASE exec[k].phase \notin {"planned", "ok"}
    BY <1>1, <2>1, <2>2 DEF PlanFits
  <2>3. CASE exec[k].phase \in {"planned", "ok"}
    <3> DEFINE m == runs[k].lane
    <3>1. /\ k \in Running /\ runs'[k] = runs[k] /\ m \in Lanes /\ exec[k].to \in Nat
      BY <1>t, <1>5, <2>3 DEF IInv, SingleFlight, TypeOK, Exec
    <3>2. /\ Latest(m[1]) <= Latest(m[1])' /\ Latest(m[1]) \in Nat /\ Latest(m[1])' \in Nat
      BY <1>t, <1>2, <3>1
    <3>3. exec[k].to <= Latest(m[1])'
      BY <2>1, <2>3, <3>1, <3>2 DEF PlanFits
    <3>4. exec[k].to = Latest(m[1])' \/ m \in dropped'
      <4>1. CASE m[1] = r
        <5>1. QueuedIn(m) = {}
          BY <3>1 DEF IInv, SingleFlight, QueuedIn, ActiveIn, IsActive, Active, Running
        <5>2. k \in RunningIn(m) /\ exec[k].phase # "claimed"
          BY <2>3, <3>1 DEF RunningIn, ActiveIn, IsActive, Active, Running
        <5> QED BY <3>1, <4>1, <5>1, <5>2 DEF RecordGeneration
      <4>2. CASE m[1] # r
        <5>1. Latest(m[1])' = Latest(m[1])
          BY <1>1, <3>1, <4>2
        <5>2. m \in dropped => m \in dropped'
          BY <4>2 DEF RecordGeneration
        <5> QED BY <2>1, <2>3, <5>1, <5>2 DEF PlanFits
      <4> QED BY <4>1, <4>2
    <3> QED BY <1>1, <2>1, <2>3, <3>1, <3>3, <3>4 DEF PlanFits, Latest
  <2> QED BY <2>2, <2>3
<1>13. BudgetByStatus'
  <2> SUFFICES ASSUME NEW k \in RunIds
               PROVE  /\ runs'[k].attempts <= MaxRunAttempts + crashes
                      /\ runs'[k].status = "queued" => runs'[k].attempts < MaxRunAttempts + crashes
                      /\ (runs'[k].status = "running" /\ ~up) => runs'[k].attempts < MaxRunAttempts + crashes
                      /\ runs'[k].status = "failed" => runs'[k].attempts >= MaxRunAttempts
    BY <1>1 DEF BudgetByStatus
  <2>1. runs'[k].attempts \in Nat
    BY DEF TypeOK, Run
  <2>2. CASE runs'[k] = runs[k]
    BY <2>2 DEF IInv, BudgetByStatus
  <2>3. CASE runs'[k] = NoRow
    BY <1>t, <2>3 DEF NoRow
  <2>4. CASE runs'[k].status = "queued" /\ runs'[k].attempts < MaxRunAttempts + crashes
    BY <1>t, <2>1, <2>4
  <2> QED BY <1>3, <2>2, <2>3, <2>4
<1> QED BY <1>6, <1>7, <1>8, <1>9, <1>10, <1>11, <1>12, <1>13 DEF IInv

(***************************************************************************)
(* The inductive step, and that no step moves a cursor back.               *)
(***************************************************************************)
LEMMA StepPreserves ==
    ASSUME IInv, [Next]_vars
    PROVE  IInv' /\ \A l \in Lanes : cursor[l] <= cursor'[l]
<1>t. TypeOK'
  BY TypePreserved DEF IInv
<1>c. cursor' = cursor => \A l \in Lanes : cursor[l] <= cursor'[l]
  BY TypeFacts DEF IInv
<1>1. ASSUME NEW r \in Repos, NEW full \in BOOLEAN, NEW init \in BOOLEAN, RecordGeneration(r, full, init)
      PROVE  IInv' /\ cursor' = cursor
  BY <1>t, <1>1, RecordPreserves DEF RecordGeneration
<1>2. ASSUME NEW l \in Lanes, ForceConsumerRun(l) PROVE IInv' /\ cursor' = cursor
  BY <1>t, <1>2, ForcePreserves DEF ForceConsumerRun
<1>3. ASSUME NEW r \in Repos, ClearQueuedRuns(r) PROVE IInv' /\ cursor' = cursor
  BY <1>t, <1>3, ClearPreserves DEF ClearQueuedRuns
<1>4. ASSUME NEW i \in RunIds, LaunchRun(i) PROVE IInv' /\ cursor' = cursor
  BY <1>t, <1>4, LaunchPreserves DEF LaunchRun
<1>5. ASSUME NEW i \in RunIds, NEW large \in BOOLEAN, BuildExecutionPlan(i, large)
      PROVE  IInv' /\ cursor' = cursor
  BY <1>t, <1>5, PlanPreserves DEF BuildExecutionPlan
<1>6. ASSUME NEW i \in RunIds, ReconcileOk(i) PROVE IInv' /\ cursor' = cursor
  BY <1>t, <1>6, ReconcilePreserves DEF ReconcileOk, tableVars
<1>7. ASSUME NEW i \in RunIds, ReconcileErr(i) PROVE IInv' /\ cursor' = cursor
  <2>1. /\ UNCHANGED <<generations, cursor, runs, nextRun, up, applied, dropped, crashes>>
        /\ exec[i].phase # "none" /\ exec'[i].phase = "error"
        /\ \A k \in RunIds : k # i => exec'[k] = exec[k]
    BY <1>7 DEF ReconcileErr, tableVars, faultVars, IInv, TypeOK, Exec
  <2> QED BY <1>t, <2>1, RowsUntouched
<1>8. ASSUME NEW i \in RunIds, CompleteRun(i) PROVE IInv' /\ \A l \in Lanes : cursor[l] <= cursor'[l]
  BY <1>t, <1>8, CompletePreserves
<1>9. ASSUME NEW i \in RunIds, RetryRun(i) PROVE IInv' /\ cursor' = cursor
  BY <1>t, <1>9, RetryPreserves DEF RetryRun
<1>10. ASSUME NEW i \in RunIds, FailRun(i) PROVE IInv' /\ cursor' = cursor
  BY <1>t, <1>10, FailPreserves DEF FailRun
<1>11. ASSUME NEW i \in RunIds, CompletionFault(i) PROVE IInv' /\ cursor' = cursor
  <2>1. /\ UNCHANGED <<generations, cursor, runs, nextRun, up, applied, dropped, crashes>>
        /\ exec'[i].phase = "none"
        /\ \A k \in RunIds : k # i => exec'[k] = exec[k]
    BY <1>11 DEF CompletionFault, tableVars, NoExec, IInv, TypeOK
  <2> QED BY <1>t, <2>1, RowsUntouched
<1>12. ASSUME NEW i \in RunIds, BackoffElapses(i) PROVE IInv' /\ cursor' = cursor
  <2>1. /\ UNCHANGED <<generations, cursor, nextRun, exec, up, applied, dropped, crashes>>
        /\ runs' = [runs EXCEPT ![i].due = TRUE] /\ runs \in [RunIds -> Run]
    BY <1>12 DEF BackoffElapses, faultVars, IInv, TypeOK
  <2>2. \A k \in RunIds : /\ runs'[k].status = runs[k].status /\ runs'[k].lane = runs[k].lane
                          /\ runs'[k].full = runs[k].full /\ runs'[k].attempts = runs[k].attempts
    BY <2>1 DEF Run
  <2> QED BY <1>t, <2>1, <2>2, RowsUntouched
<1>13. ASSUME Crash PROVE IInv' /\ cursor' = cursor
  BY <1>t, <1>13, CrashPreserves DEF Crash, tableVars
<1>14. ASSUME ActivateWorker PROVE IInv' /\ cursor' = cursor
  BY <1>t, <1>14, ActivatePreserves DEF ActivateWorker
<1>15. ASSUME UNCHANGED vars PROVE IInv' /\ cursor' = cursor
  BY <1>t, <1>15, RowsUntouched DEF vars, tableVars
<1> QED
  BY <1>c, <1>1, <1>2, <1>3, <1>4, <1>5, <1>6, <1>7, <1>8, <1>9, <1>10, <1>11, <1>12, <1>13, <1>14, <1>15
  DEF Next, ExecStep

(***************************************************************************)
(* The inductive invariant holds in every state the coordinator reaches.   *)
(***************************************************************************)
THEOREM Inductive == Spec => []IInv
BY InitEstablishes, StepPreserves, PTL DEF Spec

(***************************************************************************)
(* Rows, cursors and spawned tasks keep their types.                       *)
(***************************************************************************)
THEOREM EventsTyped == Spec => []TypeOK
<1>1. IInv => TypeOK
  BY DEF IInv
<1> QED BY <1>1, Inductive, PTL

(***************************************************************************)
(* ensure_consumer_run keeps one active run per lane,                      *)
(* MAX_CONCURRENT_CURRENT_STATE_RUNS one running run in the daemon, and a  *)
(* task only ever completes the row it claimed.                            *)
(***************************************************************************)
THEOREM EventsSingleFlight == Spec => []SingleFlight
<1>1. IInv => SingleFlight
  BY DEF IInv
<1> QED BY <1>1, Inductive, PTL

(***************************************************************************)
(* last_applied_generation_seq never passes a generation its consumer was  *)
(* not shown.                                                              *)
(***************************************************************************)
THEOREM EventsCursorTruthful == Spec => []CursorTruthful
<1>1. IInv => CursorTruthful
  BY DEF IInv
<1> QED BY <1>1, Inductive, PTL

(***************************************************************************)
(* build_execution_plan always finds generations for the run it was called *)
(* for: its no-op exit is unreachable.                                     *)
(***************************************************************************)
THEOREM EventsClaimedRunHasWork == Spec => []ClaimedRunHasWork
<1>1. IInv => ClaimedRunHasWork
  BY PlanTyped DEF IInv, ClaimedRunHasWork
<1> QED BY <1>1, Inductive, PTL

(***************************************************************************)
(* A generation behind the end of a lane's log always has a run, or its    *)
(* lane is one where apply_completion failed a run, a policy sync cleared  *)
(* one, or the generation missed a plan.                                   *)
(***************************************************************************)
THEOREM EventsLagIsExplained == Spec => []LagIsExplained
<1>1. IInv => LagIsExplained
  BY DEF IInv
<1> QED BY <1>1, Inductive, PTL

(***************************************************************************)
(* MAX_RUN_ATTEMPTS bounds the claims of a run, but for one per crash, and *)
(* no run fails before it.                                                 *)
(***************************************************************************)
THEOREM EventsRetryBudget == Spec => []RetryBudget
<1>1. IInv => RetryBudget
  BY DEF IInv, BudgetByStatus, RetryBudget
<1> QED BY <1>1, Inductive, PTL

(***************************************************************************)
(* No completion moves last_applied_generation_seq back.                   *)
(***************************************************************************)
THEOREM EventsCursorNeverRegresses == Spec => CursorNeverRegresses
<1>1. IInv /\ [Next]_vars => [\A l \in Lanes : cursor[l] <= cursor'[l]]_vars
  BY StepPreserves
<1> QED BY <1>1, Inductive, PTL DEF Spec, CursorNeverRegresses
=============================================================================
