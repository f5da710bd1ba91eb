------------------------ MODULE ProducerSpoolProofs ------------------------
(***************************************************************************)
(* Proofs about ProducerSpool for any repositories, paths, productions,    *)
(* running tasks, backoff and number of jobs, crashes and faults.          *)
(***************************************************************************)
EXTENDS ProducerSpool, TLAPS

FreshSlots == \A j \in JobIds : j >= nextJob => jobs[j].status = "absent"

\* A spawned run works on the payload of the row it claimed.
RunnerHasItsRow == \A j \in JobIds : runner[j].phase # "none" => runner[j].load = jobs[j].load

Base ==
    /\ TypeOK
    /\ OneRunningJobPerRepo
    /\ FreshSlots
    /\ RunnerHasItsRow

\* Payloads with paths that merge_pending_payload replaces and does not merge.
Replaced(load) == load.kind \in {"post_commit", "post_merge"}

\* A hook lists the files of its commit with diff-tree, so two jobs for one
\* commit name the same files.
CommitNamesFiles ==
    \A a, b \in Productions :
        (Replaced(a) /\ DedupeKey(a) = DedupeKey(b)) => a.paths = b.paths

\* A row never names more than its commit, so replacing it loses nothing.
RowsWithinProduction ==
    \A j \in JobIds : \A load \in Productions :
        (/\ jobs[j].status # "absent"
         /\ Replaced(load)
         /\ DedupeKey(jobs[j].load) = DedupeKey(load))
        => jobs[j].load.paths \subseteq load.paths

\* NoProducedWorkLost without its exception: work a policy excludes stays in
\* its row until a prune takes it out of the row and of the history.
Holds(j, item) ==
    /\ item \in Items(jobs[j].load)
    /\ \/ jobs[j].status = "pending"
       \/ jobs[j].status = "running" /\ runner[j].phase \in {"none", "failed"}
UnservedIsHeld == \A item \in unserved : \E j \in JobIds : Holds(j, item)

IInv == Base /\ RowsWithinProduction /\ UnservedIsHeld

(***************************************************************************)
(* Items, pruning and merging.                                             *)
(***************************************************************************)
PathsOf(load) == IF CarriesPaths(load) THEN load.paths ELSE {NoPath}

LEMMA ItemParts ==
    ASSUME NEW load, NEW item \in Items(load)
    PROVE  item.key = DedupeKey(load) /\ item.path \in PathsOf(load)
BY DEF Items, PathsOf

LEMMA ItemOf ==
    ASSUME NEW a, NEW b, NEW item \in Items(a),
           DedupeKey(b) = DedupeKey(a), item.path \in PathsOf(b)
    PROVE  item \in Items(b)
BY DEF Items, PathsOf

LEMMA KeyParts ==
    ASSUME NEW a \in Payload, NEW b \in Payload, DedupeKey(a) = DedupeKey(b)
    PROVE  a.repo = b.repo /\ a.kind = b.kind /\ a.mode = b.mode /\ (CarriesPaths(a) <=> CarriesPaths(b))
<1>1. a.repo = b.repo /\ a.kind = b.kind /\ a.mode = b.mode
  BY DEF DedupeKey
<1> QED BY <1>1 DEF CarriesPaths

LEMMA KeyTyped ==
    ASSUME NEW load \in Payload
    PROVE  DedupeKey(load) \in Key /\ Items(load) \subseteq Item
<1>1. DedupeKey(load) \in Key
  BY DEF DedupeKey, Payload, Key
<1>2. PathsOf(load) \subseteq Paths \cup {NoPath}
  BY DEF PathsOf, Payload
<1> QED BY <1>1, <1>2 DEF Items, PathsOf, Item

\* prune_excluded_paths_from_payload keeps the key and what the policy allows.
PrunedLoad(load) == [load EXCEPT !.paths = PrunedPaths(load)]

LEMMA PruneKeeps ==
    ASSUME TypeOK, NEW load \in Payload
    PROVE  /\ PrunedLoad(load) \in Payload
           /\ PrunedLoad(load).repo = load.repo
           /\ DedupeKey(PrunedLoad(load)) = DedupeKey(load)
           /\ PrunedLoad(load).paths \subseteq load.paths
           /\ \A item \in Items(load) : ~PolicyDrops(item) => item \in Items(PrunedLoad(load))
           /\ PrunedAway(load) => \A item \in Items(load) : PolicyDrops(item)
<1>1. PrunedPaths(load) \subseteq load.paths
  BY DEF PrunedPaths
<1>2. load.paths \subseteq Paths
  BY DEF Payload
<1>3. PrunedLoad(load) \in Payload /\ PrunedLoad(load).paths = PrunedPaths(load)
  BY <1>1, <1>2 DEF PrunedLoad, Payload
<1>4. DedupeKey(PrunedLoad(load)) = DedupeKey(load) /\ PrunedLoad(load).repo = load.repo
  BY DEF PrunedLoad, Payload, DedupeKey
<1>5. CarriesPaths(PrunedLoad(load)) <=> CarriesPaths(load)
  BY <1>3, <1>4, KeyParts
<1>6. ASSUME NEW item \in Items(load), ~PolicyDrops(item)
      PROVE  item \in Items(PrunedLoad(load))
  <2>1. item.key = DedupeKey(load) /\ item.path \in PathsOf(load)
    BY ItemParts
  <2>2. item.key.repo = load.repo
    BY <2>1 DEF DedupeKey
  <2>3. item.path \in PathsOf(PrunedLoad(load))
    BY <1>3, <1>5, <1>6, <2>1, <2>2 DEF PathsOf, PrunedPaths, PolicyDrops
  <2> QED BY <1>4, <2>3, ItemOf
<1>7. ASSUME PrunedAway(load), NEW item \in Items(load) PROVE PolicyDrops(item)
  <2>1. item.key = DedupeKey(load) /\ item.path \in PathsOf(load)
    BY ItemParts
  <2>2. item.key.repo = load.repo
    BY <2>1 DEF DedupeKey
  <2> QED BY <1>7, <2>1, <2>2 DEF PrunedAway, PathsOf, PolicyDrops
<1> QED BY <1>1, <1>3, <1>4, <1>6, <1>7

LEMMA PruneRow ==
    ASSUME TypeOK, NEW j \in JobIds, ~PrunedAway(jobs[j].load)
    PROVE  [jobs[j] EXCEPT !.load.paths = PrunedPaths(jobs[j].load)]
             = [jobs[j] EXCEPT !.load = PrunedLoad(jobs[j].load)]
BY DEF PrunedLoad, TypeOK, Row

LEMMA NoRowTyped == AnyPayload \in Payload /\ NoRow \in Row /\ NoRunner \in Runner
<1>1. (CHOOSE r \in Repos : TRUE) \in Repos
  BY SpoolAssumption
<1>2. AnyPayload \in Payload
  BY <1>1 DEF AnyPayload, Payload, PayloadKinds, Sources, Modes
<1> QED BY <1>2 DEF NoRow, NoRunner, Row, Runner

(***************************************************************************)
(* What a claim or a recovery leaves of a row that does not run.           *)
(***************************************************************************)
LEMMA PrunedRowFacts ==
    ASSUME TypeOK, NEW j \in JobIds
    PROVE  /\ PrunedRow(j) \in Row
           /\ jobs[j].status # "pending" => PrunedRow(j) = jobs[j]
           /\ (jobs[j].status = "pending" /\ PrunedAway(jobs[j].load)) => PrunedRow(j) = NoRow
           /\ (jobs[j].status = "pending" /\ ~PrunedAway(jobs[j].load)) =>
                /\ PrunedRow(j).status = "pending"
                /\ PrunedRow(j).load = PrunedLoad(jobs[j].load)
<1>1. jobs[j] \in Row /\ jobs[j].load \in Payload
  BY DEF TypeOK, Row
<1>2. PrunedLoad(jobs[j].load) \in Payload
  BY <1>1, PruneKeeps
<1>3. [jobs[j] EXCEPT !.load = PrunedLoad(jobs[j].load)] \in Row
  BY <1>1, <1>2 DEF Row
<1>4. CASE jobs[j].status # "pending"
  BY <1>1, <1>4 DEF PrunedRow
<1>5. CASE jobs[j].status = "pending" /\ PrunedAway(jobs[j].load)
  BY <1>5, NoRowTyped DEF PrunedRow
<1>6. CASE jobs[j].status = "pending" /\ ~PrunedAway(jobs[j].load)
  <2>1. PrunedRow(j) = [jobs[j] EXCEPT !.load = PrunedLoad(jobs[j].load)]
    BY <1>6, PruneRow DEF PrunedRow
  <2> QED BY <1>1, <1>3, <1>6, <2>1 DEF Row
<1> QED BY <1>4, <1>5, <1>6

(***************************************************************************)
(* merge_pending_payload, for payloads with the same dedupe_key, keeps all *)
(* the work of both, but for the payloads it replaces.                     *)
(***************************************************************************)
LEMMA MergeKeeps ==
    ASSUME NEW a \in Payload, NEW b \in Payload, DedupeKey(a) = DedupeKey(b)
    PROVE  /\ MergePendingPayload(a, b) \in Payload
           /\ DedupeKey(MergePendingPayload(a, b)) = DedupeKey(a)
           /\ Items(b) \subseteq Items(MergePendingPayload(a, b))
           /\ ~Replaced(b) => Items(a) \subseteq Items(MergePendingPayload(a, b))
           /\ Replaced(b) => MergePendingPayload(a, b) = b
<1> DEFINE m == MergePendingPayload(a, b)
<1> DEFINE u == [b EXCEPT !.paths = b.paths \cup a.paths]
<1>1. a.kind = b.kind /\ a.mode = b.mode /\ (CarriesPaths(a) <=> CarriesPaths(b))
  BY KeyParts
<1>2. u \in Payload /\ DedupeKey(u) = DedupeKey(b) /\ u.paths = b.paths \cup a.paths
  BY DEF Payload, DedupeKey
<1>3. CarriesPaths(u) <=> CarriesPaths(b)
  BY <1>2, KeyParts
<1>4. m = u \/ m = b
  BY DEF MergePendingPayload
<1>5. CASE m = u
  <2>1. PathsOf(a) \subseteq PathsOf(u) /\ PathsOf(b) \subseteq PathsOf(u)
    BY <1>1, <1>2, <1>3 DEF PathsOf
  <2>2. Items(a) \subseteq Items(u) /\ Items(b) \subseteq Items(u)
    <3>1. ASSUME NEW item \in Items(a) PROVE item \in Items(u)
      <4>1. item.path \in PathsOf(u)
        BY <2>1, ItemParts
      <4> QED BY <1>2, <4>1, ItemOf
    <3>2. ASSUME NEW item \in Items(b) PROVE item \in Items(u)
      <4>1. item.path \in PathsOf(u)
        BY <2>1, ItemParts
      <4> QED BY <1>2, <4>1, ItemOf
    <3> QED BY <3>1, <3>2
  <2>3. Replaced(b) => m = b
    BY <1>1 DEF Replaced, MergePendingPayload
  <2> QED BY <1>2, <1>5, <2>2, <2>3
<1>6. CASE m = b /\ m # u
  <2>1. ~(a.kind = "sync" /\ a.mode = "paths") /\ a.kind # "post_merge_sync"
    BY <1>6 DEF MergePendingPayload
  <2>2. ~Replaced(b) => ~CarriesPaths(a) /\ ~CarriesPaths(b)
    BY <1>1, <2>1 DEF Replaced, CarriesPaths
  <2>3. ~Replaced(b) => Items(a) \subseteq Items(b)
    BY <2>2 DEF Items
  <2> QED BY <1>6, <2>3
<1> QED BY <1>4, <1>5, <1>6

LEMMA InitEstablishes == Init => IInv
<1> SUFFICES ASSUME Init PROVE IInv
  OBVIOUS
<1> USE DEF Init
<1>1. TypeOK
  BY NoRowTyped, SpoolAssumption DEF TypeOK, JobIds
<1>2. \A j \in JobIds : jobs[j].status = "absent" /\ runner[j].phase = "none"
  BY DEF NoRow, NoRunner
<1>3. Base
  BY <1>1, <1>2 DEF Base, OneRunningJobPerRepo, FreshSlots, RunnerHasItsRow
<1> QED BY <1>2, <1>3 DEF IInv, RowsWithinProduction, UnservedIsHeld

(***************************************************************************)
(* Type correctness, per action.                                           *)
(***************************************************************************)
LEMMA EnqueueTyped ==
    ASSUME TypeOK, NEW load \in Productions, EnqueueJob(load)
    PROVE  TypeOK'
<1>1. load \in Payload
  BY SpoolAssumption
<1>2. unserved' \subseteq Item
  BY <1>1, KeyTyped DEF EnqueueJob, TypeOK
<1>3. jobs' \in [JobIds -> Row] /\ nextJob' \in 1 .. (MaxJobs + 1)
  <2>1. CASE \E j \in OldestSubmitted(PendingDeduped(load)) :
               /\ jobs' = [jobs EXCEPT ![j].load = MergePendingPayload(@, load), ![j].avail = now]
               /\ UNCHANGED nextJob
    <3>1. PICK j \in JobIds :
            /\ DedupeKey(jobs[j].load) = DedupeKey(load)
            /\ jobs' = [jobs EXCEPT ![j].load = MergePendingPayload(@, load), ![j].avail = now]
            /\ UNCHANGED nextJob
      BY <2>1 DEF OldestSubmitted, PendingDeduped
    <3>2. jobs[j] \in Row /\ jobs[j].load \in Payload
      BY DEF TypeOK, Row
    <3> DEFINE new == MergePendingPayload(jobs[j].load, load)
    <3>3. new \in Payload
      BY <1>1, <3>1, <3>2, MergeKeeps
    <3>4. [jobs[j] EXCEPT !.load = new, !.avail = now] \in Row
      <4>1. now \in Nat
        BY DEF TypeOK
      <4> HIDE DEF new
      <4> QED BY ONLY <3>2, <3>3, <4>1 DEF Row
    <3>5. jobs' = [jobs EXCEPT ![j] = [jobs[j] EXCEPT !.load = new, !.avail = now]]
      BY <3>1, <3>2 DEF TypeOK, Row
    <3> HIDE DEF new
    <3> QED BY <3>1, <3>4, <3>5 DEF TypeOK
  <2>2. CASE /\ nextJob \in JobIds
             /\ jobs' = [jobs EXCEPT ![nextJob] = [load |-> load, status |-> "pending",
                                                   avail |-> now, submitted |-> now]]
             /\ nextJob' = nextJob + 1
    <3>1. [load |-> load, status |-> "pending", avail |-> now, submitted |-> now] \in Row
      BY <1>1 DEF Row, TypeOK
    <3> QED BY <2>2, <3>1, SpoolAssumption DEF TypeOK, JobIds
  <2> QED BY <2>1, <2>2 DEF EnqueueJob, EnqueueJobStep
<1> QED BY <1>2, <1>3 DEF TypeOK, EnqueueJob

LEMMA ClaimTyped ==
    ASSUME TypeOK, NEW blocked, NEW running, NEW held, NEW dropped,
           Claim(blocked, running, held, dropped)
    PROVE  TypeOK'
<1>1. PICK S \in Selections(Claimable(blocked, running, held, dropped)) :
        /\ jobs' = [j \in JobIds |->
                      IF j \in Abandoned(blocked, running, dropped) THEN NoRow
                      ELSE IF j \in S THEN [PrunedRow(j) EXCEPT !.status = "running"]
                      ELSE PrunedRow(j)]
        /\ runner' = [j \in JobIds |->
                        IF j \in S THEN [phase |-> "processing", load |-> PrunedRow(j).load]
                        ELSE runner[j]]
  BY DEF Claim, ClaimStep
<1>2. \A j \in JobIds : /\ PrunedRow(j) \in Row
                        /\ [PrunedRow(j) EXCEPT !.status = "running"] \in Row
                        /\ [phase |-> "processing", load |-> PrunedRow(j).load] \in Runner
  <2> TAKE j \in JobIds
  <2>1. PrunedRow(j) \in Row
    BY PrunedRowFacts
  <2> QED BY <2>1 DEF Row, Runner
<1>3. jobs' \in [JobIds -> Row]
  BY <1>1, <1>2, NoRowTyped
<1>4. runner' \in [JobIds -> Runner]
  BY <1>1, <1>2 DEF TypeOK
<1> QED BY <1>3, <1>4 DEF TypeOK, Claim

LEMMA RunnerTyped ==
    ASSUME TypeOK, NEW j \in JobIds, RunnerStep(j)
    PROVE  TypeOK'
<1>0. jobs[j] \in Row /\ runner[j] \in Runner /\ jobs[j].load \in Payload /\ runner[j].load \in Payload
  BY DEF TypeOK, Row, Runner
<1>1. CASE ProcessOk(j)
  BY <1>0, <1>1 DEF ProcessOk, ProcessOkStep, TypeOK, Runner
<1>2. CASE ProcessErr(j)
  <2>1. unserved' \subseteq Item
    BY <1>0, <1>2, KeyTyped DEF ProcessErr, TypeOK
  <2>2. runner' \in [JobIds -> Runner]
    BY <1>0, <1>2 DEF ProcessErr, ProcessErrStep, TypeOK, Runner
  <2> QED BY <1>2, <2>1, <2>2 DEF ProcessErr, TypeOK
<1>3. CASE DeleteProducerSpoolJob(j)
  BY <1>0, <1>3, NoRowTyped DEF DeleteProducerSpoolJob, DeleteStep, TypeOK
<1>4. CASE DeleteFault(j)
  <2>1. runner' \in [JobIds -> Runner]
    BY <1>0, <1>4 DEF DeleteFault, TypeOK, Runner
  <2> QED BY <1>4, <2>1, SpoolAssumption DEF DeleteFault, TypeOK
<1>5. CASE RequeueProducerSpoolJob(j)
  <2>1. now + Backoff \in Nat
    BY SpoolAssumption DEF TypeOK
  <2>2. [jobs[j] EXCEPT !.status = "pending", !.avail = now + Backoff] \in Row
    BY ONLY <1>0, <2>1 DEF Row
  <2>3. jobs' = [jobs EXCEPT ![j] = [jobs[j] EXCEPT !.status = "pending", !.avail = now + Backoff]]
    BY <1>5 DEF RequeueProducerSpoolJob, RequeueJobStep, TypeOK, Row
  <2> QED BY <1>5, <2>2, <2>3, NoRowTyped DEF RequeueProducerSpoolJob, RequeueJobStep, TypeOK
<1>6. CASE RequeueFault(j)
  BY <1>6, NoRowTyped, SpoolAssumption DEF RequeueFault, TypeOK
<1> QED BY <1>1, <1>2, <1>3, <1>4, <1>5, <1>6 DEF RunnerStep

\* The row a recovery leaves: a running row becomes pending, pruned like the others.
RecoveredRow(j) ==
    IF jobs[j].status = "running"
    THEN IF PrunedAway(jobs[j].load) THEN NoRow
         ELSE [jobs[j] EXCEPT !.status = "pending", !.avail = now,
                              !.load.paths = PrunedPaths(jobs[j].load)]
    ELSE PrunedRow(j)

LEMMA RecoveredRowFacts ==
    ASSUME TypeOK, NEW j \in JobIds
    PROVE  /\ RecoveredRow(j) \in Row
           /\ RecoveredRow(j).status # "running"
           /\ RecoveredRow(j).status # "absent" => jobs[j].status # "absent"
           /\ PrunedAway(jobs[j].load) => RecoveredRow(j).status = "absent"
           /\ (jobs[j].status # "absent" /\ ~PrunedAway(jobs[j].load)) =>
                /\ RecoveredRow(j).status = "pending"
                /\ RecoveredRow(j).load = PrunedLoad(jobs[j].load)
<1>1. jobs[j] \in Row /\ jobs[j].load \in Payload /\ now \in Nat
  BY DEF TypeOK, Row
<1>2. PrunedLoad(jobs[j].load) \in Payload
  BY <1>1, PruneKeeps
<1>3. NoRow \in Row /\ NoRow.status = "absent"
  BY NoRowTyped DEF NoRow
<1>4. CASE jobs[j].status = "running" /\ ~PrunedAway(jobs[j].load)
  <2> DEFINE new == PrunedLoad(jobs[j].load)
  <2>1. RecoveredRow(j) = [jobs[j] EXCEPT !.status = "pending", !.avail = now, !.load = new]
    BY <1>1, <1>4 DEF RecoveredRow, PrunedLoad, Row
  <2>0. new \in Payload
    BY <1>2
  <2> HIDE DEF new
  <2>2. [jobs[j] EXCEPT !.status = "pending", !.avail = now, !.load = new] \in Row
    BY ONLY <1>1, <2>0 DEF Row
  <2>3. RecoveredRow(j).status = "pending" /\ RecoveredRow(j).load = new
    BY <1>1, <2>1 DEF Row
  <2> QED BY <1>4, <2>1, <2>2, <2>3 DEF new
<1>5. CASE jobs[j].status = "running" /\ PrunedAway(jobs[j].load)
  BY <1>3, <1>5 DEF RecoveredRow
<1>6. CASE jobs[j].status # "running"
  BY <1>1, <1>3, <1>6, PrunedRowFacts DEF RecoveredRow, Row
<1> QED BY <1>4, <1>5, <1>6

LEMMA TypePreserved ==
    ASSUME TypeOK, [Next]_vars
    PROVE  TypeOK'
<1>1. ASSUME NEW load \in Productions, EnqueueJob(load) PROVE TypeOK'
  BY <1>1, EnqueueTyped
<1>2. ASSUME NEW blocked \in SUBSET Repos, NEW running \in SUBSET RunningTasks,
             NEW held \in SUBSET CommitKeys, NEW dropped \in SUBSET (CommitKeys \ held),
             Claim(blocked, running, held, dropped)
      PROVE  TypeOK'
  BY <1>2, ClaimTyped
<1>3. ASSUME NEW j \in JobIds, RunnerStep(j) PROVE TypeOK'
  BY <1>3, RunnerTyped
<1>4. ASSUME NEW r \in Repos, EditPolicy(r) PROVE TypeOK'
  BY <1>4, SpoolAssumption DEF EditPolicy, TypeOK
<1>5. CASE Tick
  BY <1>5, SpoolAssumption DEF Tick, TickStep, TypeOK
<1>6. CASE Crash
  <2>1. \A j \in JobIds : Items(runner[j].load) \subseteq Item
    BY KeyTyped DEF TypeOK, Runner
  <2>2. unserved' \subseteq Item
    BY <1>6, <2>1 DEF Crash, Processing, TypeOK
  <2>3. runner' \in [JobIds -> Runner]
    BY <1>6, NoRowTyped DEF Crash
  <2>4. up' = FALSE
    BY <1>6 DEF Crash
  <2>5. crashes' \in 0 .. MaxCrashes
    BY <1>6, SpoolAssumption DEF Crash, TypeOK
  <2> QED BY <1>6, <2>2, <2>3, <2>4, <2>5 DEF Crash, TypeOK
<1>7. CASE RecoverRunningProducerSpoolJobs
  <2>1. jobs' = [j \in JobIds |-> RecoveredRow(j)]
    BY <1>7 DEF RecoverRunningProducerSpoolJobs, RecoverStep, RecoveredRow
  <2>2. jobs' \in [JobIds -> Row]
    BY <2>1, RecoveredRowFacts
  <2> QED BY <1>7, <2>2 DEF RecoverRunningProducerSpoolJobs, TypeOK
<1>8. CASE RecoverFault
  BY <1>8, SpoolAssumption DEF RecoverFault, TypeOK
<1>9. CASE UNCHANGED vars
  BY <1>9 DEF vars, TypeOK
<1> QED BY <1>1, <1>2, <1>3, <1>4, <1>5, <1>6, <1>7, <1>8, <1>9 DEF Next

(***************************************************************************)
(* enqueue_job refreshes a pending row or fills a fresh slot; no other row *)
(* changes, and a running one never does.                                  *)
(***************************************************************************)
LEMMA EnqueueFacts ==
    ASSUME Base, NEW load \in Productions, EnqueueJob(load)
    PROVE  \E j \in JobIds :
             /\ \A k \in JobIds : k # j => jobs'[k] = jobs[k]
             /\ jobs'[j].status = "pending"
             /\ DedupeKey(jobs'[j].load) = DedupeKey(load)
             /\ \/ /\ jobs[j].status = "pending"
                   /\ DedupeKey(jobs[j].load) = DedupeKey(load)
                   /\ jobs'[j].load = MergePendingPayload(jobs[j].load, load)
                   /\ nextJob' = nextJob
                \/ /\ jobs[j].status = "absent"
                   /\ jobs'[j].load = load
                   /\ PendingDeduped(load) = {}
                   /\ j = nextJob /\ nextJob' = nextJob + 1
<1>0. load \in Payload /\ TypeOK
  BY SpoolAssumption DEF Base
<1>1. CASE \E j \in OldestSubmitted(PendingDeduped(load)) :
             /\ jobs' = [jobs EXCEPT ![j].load = MergePendingPayload(@, load), ![j].avail = now]
             /\ UNCHANGED nextJob
  <2>1. PICK j \in JobIds :
          /\ jobs[j].status = "pending"
          /\ DedupeKey(jobs[j].load) = DedupeKey(load)
          /\ jobs' = [jobs EXCEPT ![j].load = MergePendingPayload(@, load), ![j].avail = now]
          /\ UNCHANGED nextJob
    BY <1>1 DEF OldestSubmitted, PendingDeduped
  <2>2. jobs[j].load \in Payload
    BY <1>0 DEF TypeOK, Row
  <2>3. DedupeKey(MergePendingPayload(jobs[j].load, load)) = DedupeKey(load)
    BY <1>0, <2>1, <2>2, MergeKeeps
  <2>4. /\ jobs'[j].load = MergePendingPayload(jobs[j].load, load)
        /\ jobs'[j].status = "pending"
        /\ \A k \in JobIds : k # j => jobs'[k] = jobs[k]
    BY <1>0, <2>1 DEF TypeOK, Row
  <2> QED BY <2>1, <2>3, <2>4
<1>2. CASE /\ PendingDeduped(load) = {}
           /\ nextJob \in JobIds
           /\ jobs' = [jobs EXCEPT ![nextJob] = [load |-> load, status |-> "pending",
                                                 avail |-> now, submitted |-> now]]
           /\ nextJob' = nextJob + 1
  <2>1. PICK n : n = nextJob
    OBVIOUS
  <2>2. n \in JobIds /\ jobs[n].status = "absent"
    BY <1>0, <1>2, <2>1, SpoolAssumption DEF Base, FreshSlots, JobIds
  <2>3. jobs'[n].status = "pending" /\ jobs'[n].load = load /\ \A k \in JobIds : k # n => jobs'[k] = jobs[k]
    BY <1>0, <1>2, <2>1, <2>2 DEF TypeOK
  <2> QED BY <1>2, <2>1, <2>2, <2>3
<1> QED BY <1>1, <1>2 DEF EnqueueJob, EnqueueJobStep

(***************************************************************************)
(* A claim starts at most one pending row per repo, none in a repo that    *)
(* has a running one, forgets the derivations of abandoned commits, and    *)
(* prunes the rest.                                                        *)
(***************************************************************************)
Started(j) ==
    /\ jobs[j].status = "pending"
    /\ ~PrunedAway(jobs[j].load)
    /\ jobs'[j].status = "running"
    /\ jobs'[j].load = PrunedLoad(jobs[j].load)
    /\ runner'[j] = [phase |-> "processing", load |-> PrunedLoad(jobs[j].load)]
    /\ ~RepoHasRunningJob(jobs[j].load.repo)

LEMMA ClaimFacts ==
    ASSUME TypeOK, NEW blocked, NEW running, NEW held, NEW dropped,
           ClaimStep(blocked, running, held, dropped)
    PROVE  /\ \A j \in JobIds :
                \/ Started(j)
                \/ runner'[j] = runner[j] /\ jobs'[j] = PrunedRow(j)
                \/ /\ runner'[j] = runner[j] /\ jobs'[j] = NoRow
                   /\ jobs[j].status = "pending"
                   /\ Items(jobs[j].load) \subseteq GivenUp(blocked, running, dropped)
           /\ \A j, k \in JobIds :
                (Started(j) /\ Started(k) /\ jobs[j].load.repo = jobs[k].load.repo) => j = k
<1>1. PICK S \in Selections(Claimable(blocked, running, held, dropped)) :
        /\ jobs' = [j \in JobIds |->
                      IF j \in Abandoned(blocked, running, dropped) THEN NoRow
                      ELSE IF j \in S THEN [PrunedRow(j) EXCEPT !.status = "running"]
                      ELSE PrunedRow(j)]
        /\ runner' = [j \in JobIds |->
                        IF j \in S THEN [phase |-> "processing", load |-> PrunedRow(j).load]
                        ELSE runner[j]]
  BY DEF ClaimStep
<1>2. S \subseteq Claimable(blocked, running, held, dropped)
  BY DEF Selections
<1>3. ASSUME NEW j \in S
      PROVE  /\ j \in JobIds /\ jobs[j].status = "pending" /\ ~PrunedAway(jobs[j].load)
             /\ ~RepoHasRunningJob(jobs[j].load.repo)
             /\ j \notin Abandoned(blocked, running, dropped)
  BY <1>2 DEF Claimable, Due, Abandoned, DerivationIn
<1>4. ASSUME NEW j \in S PROVE Started(j)
  <2>1. PrunedRow(j) \in Row /\ PrunedRow(j).load = PrunedLoad(jobs[j].load)
    BY <1>3, PrunedRowFacts
  <2>2. jobs'[j] = [PrunedRow(j) EXCEPT !.status = "running"]
    BY <1>1, <1>3
  <2>3. runner'[j] = [phase |-> "processing", load |-> PrunedRow(j).load]
    BY <1>1, <1>3
  <2> QED BY <1>3, <2>1, <2>2, <2>3 DEF Started, Row
<1>5. ASSUME NEW j \in JobIds, Started(j) PROVE j \in S
  <2>1. jobs[j].status = "pending" /\ jobs'[j].status = "running"
    BY <1>5 DEF Started
  <2>2. PrunedRow(j).status # "running" /\ NoRow.status # "running"
    BY <2>1, <1>5, PrunedRowFacts DEF Started, NoRow
  <2> QED BY <1>1, <2>1, <2>2
<1>6. ASSUME NEW j \in JobIds, j \notin S
      PROVE  \/ runner'[j] = runner[j] /\ jobs'[j] = PrunedRow(j)
             \/ /\ runner'[j] = runner[j] /\ jobs'[j] = NoRow
                /\ jobs[j].status = "pending"
                /\ Items(jobs[j].load) \subseteq GivenUp(blocked, running, dropped)
  <2>1. CASE j \in Abandoned(blocked, running, dropped)
    <3>1. jobs[j].status = "pending"
      BY <2>1 DEF Abandoned, Due
    <3>2. Items(jobs[j].load) \subseteq GivenUp(blocked, running, dropped)
      BY <2>1 DEF GivenUp
    <3> QED BY <1>1, <1>6, <2>1, <3>1, <3>2
  <2>2. CASE j \notin Abandoned(blocked, running, dropped)
    BY <1>1, <1>6, <2>2
  <2> QED BY <2>1, <2>2
<1>7. ASSUME NEW j \in JobIds, NEW k \in JobIds, Started(j), Started(k),
             jobs[j].load.repo = jobs[k].load.repo
      PROVE  j = k
  <2>1. j \in S /\ k \in S /\ k \in Claimable(blocked, running, held, dropped)
    BY <1>2, <1>5, <1>7
  <2> QED BY <1>7, <2>1 DEF Selections
<1> QED BY <1>4, <1>6, <1>7

(***************************************************************************)
(* Base and the refresh of pending rows, per action.                       *)
(***************************************************************************)
NoDuplicateInserted ==
    \A j, k \in JobIds :
        (/\ j # k
         /\ jobs'[j].status = "pending" /\ jobs'[k].status = "pending"
         /\ DedupeKey(jobs'[j].load) = DedupeKey(jobs'[k].load))
        => jobs[j].status # "absent" /\ jobs[k].status # "absent"

\* Steps that leave the table alone and start no run.
LEMMA TableUntouched ==
    ASSUME Base, TypeOK', UNCHANGED <<jobs, nextJob>>,
           \A j \in JobIds : runner'[j].phase # "none" =>
               up' /\ runner[j].phase # "none" /\ runner'[j].load = runner[j].load
    PROVE  Base' /\ NoDuplicateInserted
<1>1. OneRunningJobPerRepo' /\ FreshSlots' /\ RunnerHasItsRow'
  BY DEF Base, OneRunningJobPerRepo, FreshSlots, RunnerHasItsRow
<1>2. NoDuplicateInserted
  BY DEF NoDuplicateInserted
<1> QED BY <1>1, <1>2 DEF Base

\* Steps that give up a run and its claim.
LEMMA ClaimReleased ==
    ASSUME Base, TypeOK', NEW j \in JobIds, UNCHANGED <<nextJob, up>>,
           jobs[j].status = "running", jobs'[j].status # "running",
           runner'[j].phase = "none",
           \A k \in JobIds : k # j => jobs'[k] = jobs[k] /\ runner'[k] = runner[k]
    PROVE  Base' /\ NoDuplicateInserted
<1>1. TypeOK /\ OneRunningJobPerRepo /\ FreshSlots /\ RunnerHasItsRow
  BY DEF Base
<1>2. OneRunningJobPerRepo'
  BY <1>1 DEF OneRunningJobPerRepo
<1>3. FreshSlots'
  BY <1>1 DEF FreshSlots
<1>4. RunnerHasItsRow'
  BY <1>1 DEF RunnerHasItsRow
<1>5. NoDuplicateInserted
  BY <1>1 DEF NoDuplicateInserted
<1> QED BY <1>2, <1>3, <1>4, <1>5 DEF Base

LEMMA EnqueueBase ==
    ASSUME Base, TypeOK', NEW load \in Productions, EnqueueJob(load)
    PROVE  Base' /\ NoDuplicateInserted
<1>1. TypeOK /\ OneRunningJobPerRepo /\ FreshSlots /\ RunnerHasItsRow
  BY DEF Base
<1>2. PICK j \in JobIds :
        /\ \A k \in JobIds : k # j => jobs'[k] = jobs[k]
        /\ jobs'[j].status = "pending"
        /\ DedupeKey(jobs'[j].load) = DedupeKey(load)
        /\ \/ jobs[j].status = "pending" /\ nextJob' = nextJob
           \/ /\ jobs[j].status = "absent"
              /\ PendingDeduped(load) = {}
              /\ j = nextJob /\ nextJob' = nextJob + 1
  BY EnqueueFacts
<1>3. UNCHANGED <<runner, up>>
  BY DEF EnqueueJob
<1>4. \A k \in JobIds : jobs[k].status = "running" => k # j /\ jobs'[k] = jobs[k]
  BY <1>2
<1>5. \A k \in JobIds : jobs'[k].status = "running" => jobs'[k] = jobs[k]
  BY <1>2
<1>6. OneRunningJobPerRepo'
  BY <1>1, <1>3, <1>4, <1>5 DEF OneRunningJobPerRepo
<1>7. FreshSlots'
  BY <1>1, <1>2 DEF FreshSlots, JobIds, TypeOK
<1>8. RunnerHasItsRow'
  BY <1>1, <1>3, <1>4 DEF RunnerHasItsRow, OneRunningJobPerRepo
<1>9. NoDuplicateInserted
  <2> SUFFICES ASSUME NEW a \in JobIds, NEW b \in JobIds, a # b,
                      jobs'[a].status = "pending", jobs'[b].status = "pending",
                      DedupeKey(jobs'[a].load) = DedupeKey(jobs'[b].load)
               PROVE  jobs[a].status # "absent" /\ jobs[b].status # "absent"
    BY DEF NoDuplicateInserted
  <2>1. \A k \in JobIds : (k # j /\ jobs'[k].status = "pending" /\ DedupeKey(jobs'[k].load) = DedupeKey(load))
            => k \in PendingDeduped(load)
    BY <1>2 DEF PendingDeduped
  <2>2. CASE a = j
    BY <1>2, <2>1, <2>2
  <2>3. CASE b = j
    BY <1>2, <2>1, <2>3
  <2>4. CASE a # j /\ b # j
    BY <1>2, <2>4
  <2> QED BY <2>2, <2>3, <2>4
<1> QED BY <1>6, <1>7, <1>8, <1>9 DEF Base

LEMMA ClaimBase ==
    ASSUME Base, TypeOK', NEW blocked, NEW running, NEW held, NEW dropped,
           Claim(blocked, running, held, dropped)
    PROVE  Base' /\ NoDuplicateInserted
<1>1. TypeOK /\ OneRunningJobPerRepo /\ FreshSlots /\ RunnerHasItsRow
  BY DEF Base
<1>2. ClaimStep(blocked, running, held, dropped) /\ up /\ up' = up /\ nextJob' = nextJob
  BY DEF Claim
<1>3. NoRow.status = "absent"
  BY DEF NoRow
<1>4. ASSUME NEW j \in JobIds
      PROVE  /\ jobs[j].status = "absent" => jobs'[j].status = "absent"
             /\ jobs[j].status = "running" => jobs'[j] = jobs[j] /\ runner'[j] = runner[j]
             /\ jobs'[j].status = "running" => jobs[j].status = "running" \/ Started(j)
             /\ ~Started(j) => runner'[j] = runner[j]
  BY <1>1, <1>2, <1>3, ClaimFacts, PrunedRowFacts DEF Started
<1>5. ASSUME NEW j \in JobIds, Started(j)
      PROVE  /\ jobs'[j].load.repo = jobs[j].load.repo
             /\ jobs'[j].status = "running"
             /\ runner'[j].load = jobs'[j].load
             /\ ~RepoHasRunningJob(jobs[j].load.repo)
  <2>1. jobs[j].load \in Payload
    BY <1>1 DEF TypeOK, Row
  <2> QED BY <1>1, <1>5, <2>1, PruneKeeps DEF Started
<1>6. ASSUME NEW j \in JobIds, NEW k \in JobIds,
             jobs'[j].status = "running", jobs'[k].status = "running",
             jobs'[j].load.repo = jobs'[k].load.repo
      PROVE  j = k
  <2>1. CASE Started(j) /\ Started(k)
    BY <1>1, <1>2, <1>5, <1>6, <2>1, ClaimFacts
  <2>2. CASE Started(j) /\ ~Started(k)
    BY <1>4, <1>5, <1>6, <2>2 DEF RepoHasRunningJob
  <2>3. CASE ~Started(j) /\ Started(k)
    BY <1>4, <1>5, <1>6, <2>3 DEF RepoHasRunningJob
  <2>4. CASE ~Started(j) /\ ~Started(k)
    BY <1>1, <1>4, <1>6, <2>4 DEF OneRunningJobPerRepo
  <2> QED BY <2>1, <2>2, <2>3, <2>4
<1>7. OneRunningJobPerRepo'
  BY <1>1, <1>2, <1>4, <1>5, <1>6 DEF OneRunningJobPerRepo
<1>8. FreshSlots'
  BY <1>1, <1>2, <1>4 DEF FreshSlots
<1>9. RunnerHasItsRow'
  BY <1>1, <1>4, <1>5 DEF RunnerHasItsRow, OneRunningJobPerRepo
<1>10. NoDuplicateInserted
  BY <1>4 DEF NoDuplicateInserted
<1> QED BY <1>7, <1>8, <1>9, <1>10 DEF Base

LEMMA RunnerBase ==
    ASSUME Base, TypeOK', NEW j \in JobIds, RunnerStep(j)
    PROVE  Base' /\ NoDuplicateInserted
<1>1. TypeOK /\ OneRunningJobPerRepo
  BY DEF Base
<1>2. runner[j].phase # "none" => up /\ jobs[j].status = "running"
  BY <1>1 DEF OneRunningJobPerRepo
<1>3. jobs[j] \in Row /\ runner[j] \in Runner
  BY <1>1 DEF TypeOK
<1>4. NoRow.status = "absent" /\ NoRunner.phase = "none"
  BY DEF NoRow, NoRunner
<1>5. CASE \/ ProcessOk(j) \/ ProcessErr(j) \/ DeleteFault(j) \/ RequeueFault(j)
  <2>1. UNCHANGED <<jobs, nextJob, up>>
    BY <1>5 DEF ProcessOk, ProcessErr, DeleteFault, RequeueFault
  <2>2. runner[j].phase # "none"
    BY <1>5 DEF ProcessOk, ProcessErr, DeleteFault, RequeueFault, ProcessOkStep, ProcessErrStep
  <2>3. \A k \in JobIds : k # j => runner'[k] = runner[k]
    BY <1>1, <1>5 DEF TypeOK, ProcessOk, ProcessErr, DeleteFault, RequeueFault, ProcessOkStep, ProcessErrStep
  <2>4. runner'[j].phase # "none" => runner'[j].load = runner[j].load
    BY <1>1, <1>3, <1>4, <1>5
    DEF TypeOK, Runner, ProcessOk, ProcessErr, DeleteFault, RequeueFault, ProcessOkStep, ProcessErrStep
  <2>5. \A k \in JobIds : runner'[k].phase # "none" =>
            up' /\ runner[k].phase # "none" /\ runner'[k].load = runner[k].load
    BY <1>1, <1>2, <2>1, <2>2, <2>3, <2>4 DEF OneRunningJobPerRepo
  <2> QED BY <2>1, <2>5, TableUntouched
<1>6. CASE DeleteProducerSpoolJob(j) \/ RequeueProducerSpoolJob(j)
  <2>1. UNCHANGED <<nextJob, up>> /\ jobs[j].status = "running"
    BY <1>2, <1>6 DEF DeleteProducerSpoolJob, DeleteStep, RequeueProducerSpoolJob, RequeueJobStep
  <2>2. jobs'[j].status # "running" /\ runner'[j].phase = "none"
    BY <1>1, <1>3, <1>4, <1>6
    DEF TypeOK, Row, DeleteProducerSpoolJob, DeleteStep, RequeueProducerSpoolJob, RequeueJobStep
  <2>3. \A k \in JobIds : k # j => jobs'[k] = jobs[k] /\ runner'[k] = runner[k]
    BY <1>1, <1>6
    DEF TypeOK, DeleteProducerSpoolJob, DeleteStep, RequeueProducerSpoolJob, RequeueJobStep
  <2> QED BY <2>1, <2>2, <2>3, ClaimReleased
<1> QED BY <1>5, <1>6 DEF RunnerStep

LEMMA RecoverBase ==
    ASSUME Base, TypeOK', RecoverRunningProducerSpoolJobs
    PROVE  Base' /\ NoDuplicateInserted
<1>1. TypeOK /\ OneRunningJobPerRepo /\ FreshSlots
  BY DEF Base
<1>2. \A j \in JobIds : jobs'[j] = RecoveredRow(j)
  BY DEF RecoverRunningProducerSpoolJobs, RecoverStep, RecoveredRow
<1>3. \A j \in JobIds : /\ jobs'[j].status # "running"
                        /\ jobs'[j].status # "absent" => jobs[j].status # "absent"
  BY <1>1, <1>2, RecoveredRowFacts
<1>4. UNCHANGED <<nextJob, runner>> /\ \A j \in JobIds : runner[j].phase = "none"
  BY <1>1 DEF RecoverRunningProducerSpoolJobs, OneRunningJobPerRepo
<1>5. OneRunningJobPerRepo' /\ FreshSlots' /\ RunnerHasItsRow'
  BY <1>1, <1>3, <1>4 DEF OneRunningJobPerRepo, FreshSlots, RunnerHasItsRow
<1>6. NoDuplicateInserted
  BY <1>3 DEF NoDuplicateInserted
<1> QED BY <1>5, <1>6 DEF Base

LEMMA BasePreserved ==
    ASSUME Base, [Next]_vars
    PROVE  Base' /\ NoDuplicateInserted
<1>t. TypeOK'
  BY TypePreserved DEF Base
<1>b. \A j \in JobIds : runner[j].phase # "none" => up
  BY DEF Base, OneRunningJobPerRepo
<1>1. ASSUME NEW load \in Productions, EnqueueJob(load) PROVE Base' /\ NoDuplicateInserted
  BY <1>t, <1>1, EnqueueBase
<1>2. ASSUME NEW blocked \in SUBSET Repos, NEW running \in SUBSET RunningTasks,
             NEW held \in SUBSET CommitKeys, NEW dropped \in SUBSET (CommitKeys \ held),
             Claim(blocked, running, held, dropped)
      PROVE  Base' /\ NoDuplicateInserted
  BY <1>t, <1>2, ClaimBase
<1>3. ASSUME NEW j \in JobIds, RunnerStep(j) PROVE Base' /\ NoDuplicateInserted
  BY <1>t, <1>3, RunnerBase
<1>4. CASE RecoverRunningProducerSpoolJobs
  BY <1>t, <1>4, RecoverBase
<1>5. CASE \/ \E r \in Repos : EditPolicy(r)
           \/ Tick \/ Crash \/ RecoverFault \/ UNCHANGED vars
  <2>1. UNCHANGED <<jobs, nextJob>>
    BY <1>5 DEF EditPolicy, Tick, Crash, RecoverFault, vars
  <2>2. \A j \in JobIds : runner'[j].phase # "none" =>
            up' /\ runner[j].phase # "none" /\ runner'[j].load = runner[j].load
    BY <1>b, <1>5 DEF EditPolicy, Tick, Crash, RecoverFault, vars, NoRunner
  <2> QED BY <1>t, <2>1, <2>2, TableUntouched
<1> QED BY <1>1, <1>2, <1>3, <1>4, <1>5 DEF Next

(***************************************************************************)
(* No row exceeds the commit it stands for, per action.                    *)
(***************************************************************************)
\* A step may create a row with production load only, or cut rows.
LEMMA RowsCut ==
    ASSUME RowsWithinProduction,
           \A j \in JobIds : jobs'[j].status # "absent" =>
               /\ jobs[j].status # "absent"
               /\ DedupeKey(jobs'[j].load) = DedupeKey(jobs[j].load)
               /\ jobs'[j].load.paths \subseteq jobs[j].load.paths
    PROVE  RowsWithinProduction'
BY DEF RowsWithinProduction

LEMMA EnqueueWork ==
    ASSUME CommitNamesFiles, IInv, NEW load \in Productions, EnqueueJob(load)
    PROVE  RowsWithinProduction' /\ UnservedIsHeld'
<1>1. Base /\ TypeOK /\ RowsWithinProduction /\ UnservedIsHeld /\ load \in Payload
  BY SpoolAssumption DEF IInv, Base
<1>2. PICK j \in JobIds :
        /\ \A k \in JobIds : k # j => jobs'[k] = jobs[k]
        /\ jobs'[j].status = "pending"
        /\ DedupeKey(jobs'[j].load) = DedupeKey(load)
        /\ \/ /\ jobs[j].status = "pending"
              /\ DedupeKey(jobs[j].load) = DedupeKey(load)
              /\ jobs'[j].load = MergePendingPayload(jobs[j].load, load)
           \/ jobs[j].status = "absent" /\ jobs'[j].load = load
  BY <1>1, EnqueueFacts
<1>3. jobs[j].load \in Payload
  BY <1>1 DEF TypeOK, Row
<1>4. Replaced(load) => jobs'[j].load = load
  BY <1>1, <1>2, <1>3, MergeKeeps
<1>5. ASSUME NEW p \in Productions, Replaced(p), DedupeKey(jobs'[j].load) = DedupeKey(p)
      PROVE  jobs'[j].load.paths \subseteq p.paths
  <2>1. p \in Payload /\ DedupeKey(p) = DedupeKey(load)
    BY <1>2, <1>5, SpoolAssumption
  <2>2. Replaced(load)
    BY <1>1, <1>5, <2>1, KeyParts DEF Replaced
  <2> QED BY <1>4, <1>5, <2>1, <2>2 DEF CommitNamesFiles
<1>6. RowsWithinProduction'
  BY <1>1, <1>2, <1>5 DEF RowsWithinProduction
<1>7. ASSUME NEW item \in Items(jobs[j].load), jobs[j].status = "pending"
      PROVE  item \in Items(jobs'[j].load)
  <2>1. CASE ~Replaced(load)
    BY <1>1, <1>2, <1>3, <1>7, <2>1, MergeKeeps
  <2>2. CASE Replaced(load)
    <3>1. DedupeKey(jobs[j].load) = DedupeKey(load) /\ jobs'[j].load = load
      BY <1>2, <1>4, <1>7, <2>2
    <3>2. jobs[j].load.paths \subseteq load.paths
      BY <1>1, <1>7, <2>2, <3>1 DEF RowsWithinProduction
    <3>3. item.path \in PathsOf(jobs[j].load) /\ (CarriesPaths(jobs[j].load) <=> CarriesPaths(load))
      BY <1>1, <1>3, <3>1, ItemParts, KeyParts
    <3>4. item.path \in PathsOf(load)
      BY <3>2, <3>3 DEF PathsOf
    <3> QED BY <3>1, <3>4, ItemOf
  <2> QED BY <2>1, <2>2
<1>8. Items(load) \subseteq Items(jobs'[j].load)
  BY <1>1, <1>2, <1>3, MergeKeeps
<1>9. ASSUME NEW item \in unserved' PROVE \E k \in JobIds : Holds(k, item)'
  <2>1. runner' = runner /\ unserved' = unserved \cup Items(load)
    BY DEF EnqueueJob
  <2>2. CASE item \in Items(load)
    BY <1>2, <1>8, <2>2 DEF Holds
  <2>3. CASE item \in unserved
    <3>1. PICK k \in JobIds : Holds(k, item)
      BY <1>1, <2>3 DEF UnservedIsHeld
    <3>2. CASE k # j
      BY <1>2, <2>1, <3>1, <3>2 DEF Holds
    <3>3. CASE k = j
      BY <1>2, <1>7, <3>1, <3>3 DEF Holds
    <3> QED BY <3>2, <3>3
  <2> QED BY <2>1, <2>2, <2>3
<1> QED BY <1>6, <1>9 DEF UnservedIsHeld

LEMMA ClaimWork ==
    ASSUME IInv, NEW blocked, NEW running, NEW held, NEW dropped,
           Claim(blocked, running, held, dropped)
    PROVE  RowsWithinProduction' /\ UnservedIsHeld'
<1>1. /\ TypeOK /\ OneRunningJobPerRepo /\ RowsWithinProduction /\ UnservedIsHeld
      /\ ClaimStep(blocked, running, held, dropped) /\ NoRow.status = "absent"
  BY DEF IInv, Base, Claim, NoRow
<1>2. ASSUME NEW j \in JobIds, jobs'[j].status # "absent"
      PROVE  /\ jobs[j].status # "absent"
             /\ DedupeKey(jobs'[j].load) = DedupeKey(jobs[j].load)
             /\ jobs'[j].load.paths \subseteq jobs[j].load.paths
  <2>1. jobs[j].load \in Payload /\ jobs[j] \in Row
    BY <1>1 DEF TypeOK, Row
  <2>2. PrunedLoad(jobs[j].load) = jobs'[j].load \/ jobs'[j] = jobs[j]
    BY <1>1, <1>2, <2>1, ClaimFacts, PrunedRowFacts DEF Started, Row
  <2>3. jobs[j].status # "absent"
    BY <1>1, <1>2, ClaimFacts, PrunedRowFacts DEF Started
  <2> QED BY <1>1, <2>1, <2>2, <2>3, PruneKeeps
<1>3. RowsWithinProduction'
  BY <1>1, <1>2, RowsCut
<1>4. ASSUME NEW item \in unserved' PROVE \E k \in JobIds : Holds(k, item)'
  <2>1. /\ item \in unserved
        /\ ~PolicyDrops(item)
        /\ item \notin GivenUp(blocked, running, dropped)
        /\ \A j \in JobIds : runner'[j] # runner[j] => item \notin Items(runner'[j].load)
    BY DEF Claim
  <2>2. PICK k \in JobIds : Holds(k, item)
    BY <1>1, <2>1 DEF UnservedIsHeld
  <2>3. jobs[k].load \in Payload /\ item \in Items(jobs[k].load)
    BY <1>1, <2>2 DEF TypeOK, Row, Holds
  <2>4. ~PrunedAway(jobs[k].load) /\ item \in Items(PrunedLoad(jobs[k].load))
    BY <1>1, <2>1, <2>3, PruneKeeps
  <2>5. ~Started(k)
    <3> SUFFICES ASSUME Started(k) PROVE FALSE
      OBVIOUS
    <3>1. runner[k].phase = "none"
      BY <1>1 DEF Started, OneRunningJobPerRepo
    <3>2. runner'[k].phase = "processing" /\ runner'[k].load = PrunedLoad(jobs[k].load)
      BY DEF Started
    <3> QED BY <2>1, <2>4, <3>1, <3>2
  <2>6. runner'[k] = runner[k] /\ jobs'[k] = PrunedRow(k)
    BY <1>1, <2>1, <2>3, <2>5, ClaimFacts
  <2>7. CASE jobs[k].status = "pending"
    BY <1>1, <2>4, <2>6, <2>7, PrunedRowFacts DEF Holds
  <2>8. CASE jobs[k].status = "running"
    BY <1>1, <2>2, <2>6, <2>8, PrunedRowFacts DEF Holds
  <2> QED BY <2>2, <2>7, <2>8 DEF Holds
<1> QED BY <1>3, <1>4 DEF UnservedIsHeld

LEMMA RunnerWork ==
    ASSUME IInv, NEW j \in JobIds, RunnerStep(j)
    PROVE  RowsWithinProduction' /\ UnservedIsHeld'
<1>1. TypeOK /\ OneRunningJobPerRepo /\ RunnerHasItsRow /\ RowsWithinProduction /\ UnservedIsHeld
  BY DEF IInv, Base
<1>2. jobs[j] \in Row /\ runner[j] \in Runner /\ NoRow.status = "absent" /\ NoRunner.phase = "none"
  BY <1>1 DEF TypeOK, NoRow, NoRunner
<1>3. runner[j].phase # "none" => jobs[j].status = "running" /\ runner[j].load = jobs[j].load
  BY <1>1 DEF OneRunningJobPerRepo, RunnerHasItsRow
<1>4. /\ \A k \in JobIds : k # j => jobs'[k] = jobs[k] /\ runner'[k] = runner[k]
      /\ jobs'[j] = NoRow \/ jobs'[j].load = jobs[j].load
      /\ jobs'[j].status # "absent" => jobs[j].status # "absent"
  BY <1>1, <1>2, <1>3
  DEF TypeOK, Row, RunnerStep, ProcessOk, ProcessOkStep, ProcessErr, ProcessErrStep, DeleteFault,
      DeleteProducerSpoolJob, DeleteStep, RequeueProducerSpoolJob, RequeueJobStep, RequeueFault
<1>5. RowsWithinProduction'
  BY <1>1, <1>2, <1>4, RowsCut
\* A run that gave up, or fails to settle, leaves its work in its row.
<1>6. ASSUME NEW item, item \in Items(jobs[j].load),
             ProcessErr(j) \/ RequeueProducerSpoolJob(j) \/ RequeueFault(j)
      PROVE  Holds(j, item)'
  <2>1. CASE ProcessErr(j)
    <3>1. jobs' = jobs /\ runner'[j].phase = "failed" /\ jobs[j].status = "running"
      BY <1>1, <1>2, <1>3, <2>1 DEF ProcessErr, ProcessErrStep, TypeOK, Runner
    <3> QED BY <1>6, <3>1 DEF Holds
  <2>2. CASE RequeueProducerSpoolJob(j)
    <3>1. jobs'[j].load = jobs[j].load /\ jobs'[j].status = "pending"
      BY <1>1, <1>2, <2>2 DEF RequeueProducerSpoolJob, RequeueJobStep, TypeOK, Row
    <3> QED BY <1>6, <3>1 DEF Holds
  <2>3. CASE RequeueFault(j)
    <3>1. jobs' = jobs /\ runner'[j].phase = "none" /\ jobs[j].status = "running"
      BY <1>1, <1>2, <1>3, <2>3 DEF RequeueFault, TypeOK
    <3> QED BY <1>6, <3>1 DEF Holds
  <2> QED BY <1>6, <2>1, <2>2, <2>3
<1>7. ASSUME NEW item \in unserved PROVE \E k \in JobIds : Holds(k, item)'
  <2>1. PICK k \in JobIds : Holds(k, item)
    BY <1>1 DEF UnservedIsHeld
  <2>2. CASE k # j
    BY <1>4, <2>1, <2>2 DEF Holds
  <2>3. CASE k = j
    <3>1. item \in Items(jobs[j].load) /\ (runner[j].phase # "none" => runner[j].phase = "failed")
      BY <1>3, <2>1, <2>3 DEF Holds
    <3>2. RequeueProducerSpoolJob(j) \/ RequeueFault(j)
      BY <3>1 DEF RunnerStep, ProcessOk, ProcessOkStep, ProcessErr, ProcessErrStep, DeleteFault,
                  DeleteProducerSpoolJob, DeleteStep
    <3> QED BY <1>6, <3>1, <3>2
  <2> QED BY <2>2, <2>3
<1>8. ASSUME NEW item \in unserved', item \notin unserved PROVE \E k \in JobIds : Holds(k, item)'
  <2>1. ProcessErr(j) /\ item \in Items(runner[j].load)
    BY <1>8 DEF RunnerStep, ProcessOk, ProcessErr, DeleteFault, DeleteProducerSpoolJob,
                RequeueProducerSpoolJob, RequeueFault
  <2>2. item \in Items(jobs[j].load)
    BY <1>3, <2>1 DEF ProcessErr, ProcessErrStep
  <2> QED BY <1>6, <2>1, <2>2
<1> QED BY <1>5, <1>7, <1>8 DEF UnservedIsHeld

LEMMA RecoverWork ==
    ASSUME IInv, RecoverRunningProducerSpoolJobs
    PROVE  RowsWithinProduction' /\ UnservedIsHeld'
<1>1. TypeOK /\ RowsWithinProduction /\ UnservedIsHeld
  BY DEF IInv, Base
<1>2. \A j \in JobIds : jobs'[j] = RecoveredRow(j)
  BY DEF RecoverRunningProducerSpoolJobs, RecoverStep, RecoveredRow
<1>3. ASSUME NEW j \in JobIds, jobs'[j].status # "absent"
      PROVE  /\ jobs[j].status # "absent"
             /\ DedupeKey(jobs'[j].load) = DedupeKey(jobs[j].load)
             /\ jobs'[j].load.paths \subseteq jobs[j].load.paths
  <2>1. jobs[j].load \in Payload
    BY <1>1 DEF TypeOK, Row
  <2>2. jobs[j].status # "absent" /\ jobs'[j].load = PrunedLoad(jobs[j].load)
    BY <1>1, <1>2, <1>3, RecoveredRowFacts
  <2> QED BY <1>1, <2>1, <2>2, PruneKeeps
<1>4. RowsWithinProduction'
  BY <1>1, <1>3, RowsCut
<1>5. ASSUME NEW item \in unserved' PROVE \E k \in JobIds : Holds(k, item)'
  <2>1. item \in unserved /\ ~PolicyDrops(item)
    BY DEF RecoverRunningProducerSpoolJobs
  <2>2. PICK k \in JobIds : Holds(k, item)
    BY <1>1, <2>1 DEF UnservedIsHeld
  <2>3. jobs[k].load \in Payload /\ item \in Items(jobs[k].load) /\ jobs[k].status # "absent"
    BY <1>1, <2>2 DEF TypeOK, Row, Holds
  <2>4. ~PrunedAway(jobs[k].load) /\ item \in Items(PrunedLoad(jobs[k].load))
    BY <1>1, <2>1, <2>3, PruneKeeps
  <2>5. jobs'[k].status = "pending" /\ jobs'[k].load = PrunedLoad(jobs[k].load)
    BY <1>1, <1>2, <2>3, <2>4, RecoveredRowFacts
  <2> QED BY <2>4, <2>5 DEF Holds
<1> QED BY <1>4, <1>5 DEF UnservedIsHeld

LEMMA CrashWork ==
    ASSUME IInv, Crash
    PROVE  RowsWithinProduction' /\ UnservedIsHeld'
<1>1. TypeOK /\ OneRunningJobPerRepo /\ RunnerHasItsRow /\ RowsWithinProduction /\ UnservedIsHeld
  BY DEF IInv, Base
<1>2. jobs' = jobs /\ \A j \in JobIds : runner'[j].phase = "none"
  BY DEF Crash, NoRunner
<1>3. ASSUME NEW item \in unserved' PROVE \E k \in JobIds : Holds(k, item)'
  <2>1. CASE item \in unserved
    BY <1>1, <1>2, <2>1 DEF UnservedIsHeld, Holds
  <2>2. CASE item \notin unserved
    <3>1. PICK k \in JobIds : runner[k].phase = "processing" /\ item \in Items(runner[k].load)
      BY <2>2 DEF Crash, Processing
    <3>2. jobs[k].status = "running" /\ item \in Items(jobs[k].load)
      BY <1>1, <3>1 DEF OneRunningJobPerRepo, RunnerHasItsRow
    <3> QED BY <1>2, <3>2 DEF Holds
  <2> QED BY <2>1, <2>2
<1> QED BY <1>1, <1>2, <1>3 DEF UnservedIsHeld, RowsWithinProduction

LEMMA StepPreserves ==
    ASSUME CommitNamesFiles, IInv, [Next]_vars
    PROVE  IInv'
<1>b. Base'
  BY BasePreserved DEF IInv
<1>1. ASSUME NEW load \in Productions, EnqueueJob(load) PROVE IInv'
  BY <1>b, <1>1, EnqueueWork DEF IInv
<1>2. ASSUME NEW blocked \in SUBSET Repos, NEW running \in SUBSET RunningTasks,
             NEW held \in SUBSET CommitKeys, NEW dropped \in SUBSET (CommitKeys \ held),
             Claim(blocked, running, held, dropped)
      PROVE  IInv'
  BY <1>b, <1>2, ClaimWork DEF IInv
<1>3. ASSUME NEW j \in JobIds, RunnerStep(j) PROVE IInv'
  BY <1>b, <1>3, RunnerWork DEF IInv
<1>4. CASE RecoverRunningProducerSpoolJobs
  BY <1>b, <1>4, RecoverWork DEF IInv
<1>5. CASE Crash
  BY <1>b, <1>5, CrashWork DEF IInv
<1>6. CASE (\E r \in Repos : EditPolicy(r)) \/ Tick \/ RecoverFault \/ UNCHANGED vars
  <2>1. UNCHANGED <<jobs, runner, unserved>>
    BY <1>6 DEF EditPolicy, Tick, RecoverFault, vars
  <2> QED BY <1>b, <2>1 DEF IInv, RowsWithinProduction, UnservedIsHeld, Holds
<1> QED BY <1>1, <1>2, <1>3, <1>4, <1>5, <1>6 DEF Next

(***************************************************************************)
(* Theorems                                                                *)
(***************************************************************************)
THEOREM BaseHolds == Spec => []Base
<1>1. Init => Base
  BY InitEstablishes DEF IInv
<1> QED BY <1>1, BasePreserved, PTL DEF Spec

(***************************************************************************)
(* Rows, runs and the history of produced work keep their types.           *)
(***************************************************************************)
THEOREM SpoolTyped == Spec => []TypeOK
<1>1. Base => TypeOK
  BY DEF Base
<1> QED BY <1>1, BaseHolds, PTL

(***************************************************************************)
(* claim_next_producer_spool_jobs_excluding starts at most one job of a    *)
(* repo, through failures of its settling and of the recovery.             *)
(***************************************************************************)
THEOREM SpoolOneRunningJobPerRepo == Spec => []OneRunningJobPerRepo
<1>1. Base => OneRunningJobPerRepo
  BY DEF Base
<1> QED BY <1>1, BaseHolds, PTL

(***************************************************************************)
(* enqueue_job inserts only when no pending row has the key.               *)
(***************************************************************************)
THEOREM SpoolRefreshesPendingRow == Spec => RefreshesPendingRow
<1>1. Base /\ [Next]_vars => [NoDuplicateInserted]_vars
  BY BasePreserved
<1> QED BY <1>1, BaseHolds, PTL DEF Spec, RefreshesPendingRow, NoDuplicateInserted

(***************************************************************************)
(* No enqueue, merge, claim, prune, failure, crash or recovery loses what  *)
(* a hook or the watcher produced.                                         *)
(***************************************************************************)
THEOREM SpoolNoProducedWorkLost ==
    ASSUME CommitNamesFiles
    PROVE  Spec => []NoProducedWorkLost
<1>1. Init => IInv
  BY InitEstablishes
<1>2. IInv /\ [Next]_vars => IInv'
  BY StepPreserves
<1>3. IInv => NoProducedWorkLost
  BY DEF IInv, UnservedIsHeld, Holds, NoProducedWorkLost
<1> QED BY <1>1, <1>2, <1>3, PTL DEF Spec
=============================================================================
