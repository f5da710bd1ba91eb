-------------------------- MODULE InitRuntimeProofs --------------------------
(***************************************************************************)
(* Proofs about InitRuntime for any selections and any number of tasks, of *)
(* calls and polls at once and of upsets.                                  *)
(***************************************************************************)
EXTENDS InitRuntime, TLAPS

USE DEF pollVars

Gone == Ended \cup {"pruned"}

\* Threads inside a call, at one of the steps.
InCall(steps) == \E th \in Threads : \E i \in DOMAIN calls[th] : calls[th][i].at \in steps
Staging == {"stage", "staged"}
WillCheck == {"apply", "check", "enqueue"} \cup Staging

\* The roles of the tasks that start_session enqueues, and those it has
\* not enqueued yet at a step.
InitialRoles == {StartRole("top")} \cup selections.bootstraps
ToStart(step) ==
    CASE step = "top" -> Roles [] step = "embeddings" -> Bootstraps
      [] step = "summary" -> {"summary"} [] OTHER -> {}

KindOf(r) == IF r \in {"initial", "followup"} THEN "sync" ELSE r

\* Before the session is stored nothing is noted in it, and only what
\* start_session enqueued is listed.
NothingBeforeStart ==
    /\ (~session.stored \/ starting.step # "over") => session = NewSession
    /\ starting.step # "over" =>
         \A r \in Roles : starting.id[r] # NoId <=> r \in InitialRoles \ ToStart(starting.step)

\* fate is how a task ended, also after retention dropped it.
FateOK(t) ==
    /\ tasks[t].status \in Active \cup {"absent"} => fate[t] = "none"
    /\ tasks[t].status \in Ended => fate[t] = tasks[t].status
    /\ tasks[t].status = "pruned" => fate[t] \in Ended
FatesRecorded == \A t \in TaskIds : FateOK(t)

\* A listed task is there and of the kind its role says; while a session has
\* no terminal status its tasks are kept.
Lists(id) ==
    \A r \in Roles : id[r] # NoId =>
        tasks[id[r]].status # "absent" /\ tasks[id[r]].kind = KindOf(r)
Keeps(id) == \A r \in Roles : id[r] # NoId => tasks[id[r]].status # "pruned"
StartListed == starting.step # "over" => Lists(starting.id) /\ Keeps(starting.id)
ListedTasks ==
    /\ Lists(session.id)
    /\ session.stored /\ session.status = "none" => Keeps(session.id)

\* Which roles have a task, and that the follow-up sync is another task than
\* the initial one.
RolesFilled ==
    /\ session.stored =>
         \A r \in Roles \ {"ingest", "followup"} : session.id[r] # NoId <=> r \in InitialRoles
    /\ session.stored /\ ~selections.sync => session.id["ingest"] # NoId
    /\ session.id["ingest"] # NoId => selections.ingest
    /\ session.id["followup"] # NoId => session.id["followup"] # session.id["initial"]

\* What the session notes of a task is true of it.  Only the follow-up sync
\* keeps a number after another task took its role.
NotesTrue(r) ==
    /\ session.terminal[r] # "none" =>
         session.id[r] # NoId /\ fate[session.id[r]] = session.terminal[r]
    /\ session.seq[r] > 0 =>
         r # "ingest" /\ session.id[r] # NoId
         /\ (r # "followup" => session.terminal[r] = "completed")
SessionTruthful == \A r \in Roles : NotesTrue(r)

\* The initial sync has ended, if there is one.
InitialOver ==
    session.stored /\ (selections.sync => tasks[session.id["initial"]].status \in Gone)

\* No call outlives the daemon.
DownIsIdle == up \/ \A th \in Threads : Idle(th)

\* What a call relies on from step to step.
CallFits(th, i, c) ==
    /\ c.at = "apply" =>
         /\ i = 1 /\ c.task \in TaskIds /\ th \in {c.task, Api}
         /\ tasks[c.task].status = c.status /\ c.status \in Ended
         /\ \A r \in {"initial"} \cup Bootstraps : session.id[r] = c.task => session.seq[r] = 0
    /\ c.at \in Staging =>
         selections.ingest /\ session.seq["initial"] > 0 /\ session.id["ingest"] = NoId
    /\ c.at = "staged" =>
         /\ c.task \in TaskIds /\ tasks[c.task].kind = "ingest"
         /\ tasks[c.task].status \in Active \cup Ended
    /\ c.at \in {"enqueue", "set"} => InitialOver
    /\ c.at = "set" =>
         /\ c.task \in TaskIds /\ tasks[c.task].kind = "sync"
         /\ tasks[c.task].status \in Active \cup Ended
         /\ c.task # session.id["initial"]
CallsFit == \A th \in Threads : \A i \in DOMAIN calls[th] : CallFits(th, i, calls[th][i])

\* The end of a task is applied once, and the ingest is staged once.
CalledOnce ==
    \A th, u \in Threads : \A i \in DOMAIN calls[th], j \in DOMAIN calls[u] :
        \/ calls[th][i].at = "apply" /\ calls[u][j].at = "apply"
             /\ calls[th][i].task = calls[u][j].task
        \/ calls[th][i].at \in Staging /\ calls[u][j].at \in Staging
        => th = u /\ i = j

\* A completion reaches the session: its call is on its way, or noted.
Applying(t) ==
    \E th \in Threads : \E i \in DOMAIN calls[th] :
        calls[th][i].at = "apply" /\ calls[th][i].task = t
Noted(t) ==
    /\ session.stored
    /\ \A r \in {"initial"} \cup Bootstraps : session.id[r] = t => session.seq[r] > 0
CompletionsSeen ==
    missed \/ \A t \in TaskIds : fate[t] = "completed" => Applying(t) \/ Noted(t)

\* A bootstrap that no sync's completion has found ready is later than every
\* sync, and the initial sync saw that it was late.
LateIsNumberedLater ==
    \A b \in selections.bootstraps : b \notin covered =>
        /\ session.seq["initial"] > 0 => session.required
        /\ session.seq[b] > 0 =>
             session.seq[b] > session.seq["initial"] /\ session.seq[b] > session.seq["followup"]

IngestIsStaged ==
    (session.seq["initial"] > 0 /\ selections.ingest) =>
        missed \/ session.id["ingest"] # NoId \/ InCall(Staging)

\* A follow-up sync that is due will be looked for: a call that checks is on
\* its way, or a sync whose end makes such a call is active.
NothingFailed == \A r \in Roles : session.id[r] # NoId => fate[session.id[r]] # "failed"
Due ==
    /\ session.stored /\ session.required /\ SyncTerminal /\ NothingFailed
    /\ \E b \in Bootstraps : NeedsFollowUp(b)
SyncActive == \E t \in TaskIds : tasks[t].kind = "sync" /\ tasks[t].status \in Active
DueIsChecked == Due => missed \/ ReplacedFailure \/ SyncActive \/ InCall(WillCheck)

\* A completed session is covered, unless its completion was recorded from a
\* document that the end of the initial sync had overtaken.
CoveredOrOvertaken ==
    /\ overtaken => session.seq["initial"] > 0
    /\ (session.status = "completed" /\ selections.sync) =>
         \/ overtaken \/ missed
         \/ selections.bootstraps \subseteq covered
         \/ \E r \in AskedFor : Forgotten(r)
         \/ Applying(session.id["initial"])

\* What the tasks of a completed session have come to.
AskedDone ==
    \A r \in AskedFor : session.id[r] # NoId /\ (fate[session.id[r]] = "completed" \/ Forgotten(r))

\* What a poll goes by: what its document d notes of a task is true of it, and
\* d has a late bootstrap numbered as the session had.  A follow-up sync may
\* be another one by now.
DocFits(d, r) ==
    /\ d.id[r] # NoId => session.id[r] = d.id[r]
    /\ d.terminal[r] # "none" => d.id[r] # NoId /\ fate[d.id[r]] = d.terminal[r]
    /\ d.seq[r] > 0 => d.id[r] # NoId /\ d.terminal[r] = "completed"
DocCovers(d, b) ==
    b \notin covered =>
        /\ d.seq["initial"] > 0 => d.required
        /\ d.seq[b] > 0 => d.seq[b] > d.seq["initial"] /\ d.seq[b] > d.seq["followup"]
PollFits(v) ==
    /\ v.at # "idle" => session.stored
    /\ v.at \in {"stats", "tasks"} =>
         /\ \A r \in Roles \ {"followup"} : DocFits(v.doc, r)
         /\ \A b \in selections.bootstraps : DocCovers(v.doc, b)
    /\ v.at = "record" => v.status \in Ended
    /\ v.at = "record" /\ v.status = "completed" =>
         /\ AskedDone
         /\ selections.sync => \/ v.early \/ selections.bootstraps \subseteq covered
                               \/ \E r \in AskedFor : Forgotten(r)
PollsFit == \A p \in Pollers : PollFits(polls[p])

IInv ==
    /\ TypeOK
    /\ NothingBeforeStart
    /\ FatesRecorded
    /\ StartListed
    /\ ListedTasks
    /\ RolesFilled
    /\ SessionTruthful
    /\ DownIsIdle
    /\ CallsFit
    /\ CalledOnce
    /\ CompletionsSeen
    /\ LateIsNumberedLater
    /\ IngestIsStaged
    /\ DueIsChecked
    /\ CompletedIsTrue
    /\ CoveredOrOvertaken

(***************************************************************************)
(* What Goto, Return, Enqueued and the publications do to the calls.       *)
(***************************************************************************)
LEMMA CallFacts ==
    /\ \A s \in {"apply", "stage", "staged", "check", "enqueue", "set"} :
         At(s) \in Call /\ At(s).at = s
    /\ \A s \in {"staged", "set"}, t \in TaskIds :
         /\ [At(s) EXCEPT !.task = t] \in Call
         /\ [At(s) EXCEPT !.task = t].at = s
         /\ [At(s) EXCEPT !.task = t].task = t
BY DEF At, Call

LEMMA ThreadFacts ==
    /\ MaxTasks \in Nat
    /\ TaskIds \subseteq Threads /\ Worker \in Threads /\ Api \in Threads
    /\ Worker \notin TaskIds /\ Api \notin TaskIds /\ NoId \notin TaskIds
BY ConstantsAssumption DEF TaskIds, Threads, Worker, Api, NoId

LEMMA LastIndex == \A n \in Nat : n # 0 => n \in 1 .. n
OBVIOUS

LEMMA IdleFacts ==
    ASSUME calls \in [Threads -> Seq(Call)], NEW th \in Threads
    PROVE  /\ Idle(th) <=> DOMAIN calls[th] = {}
           /\ ~Idle(th) => Len(calls[th]) \in DOMAIN calls[th] /\ Top(th) = calls[th][Len(calls[th])]
           /\ \A i \in DOMAIN calls[th] : i \in Nat /\ i >= 1 /\ i <= Len(calls[th]) /\ calls[th][i] \in Call
<1>1. /\ calls[th] \in Seq(Call) /\ Len(calls[th]) \in Nat /\ DOMAIN calls[th] = 1 .. Len(calls[th])
      /\ \A i \in 1 .. Len(calls[th]) : calls[th][i] \in Call
  OBVIOUS
<1>2. Idle(th) <=> Len(calls[th]) = 0
  BY <1>1 DEF Idle
<1>3. Idle(th) <=> DOMAIN calls[th] = {}
  BY ONLY <1>1, <1>2, LastIndex
<1>4. ~Idle(th) => Len(calls[th]) \in DOMAIN calls[th]
  BY <1>1, <1>2
<1>5. Top(th) = calls[th][Len(calls[th])]
  BY DEF Top, Last
<1>6. \A i \in DOMAIN calls[th] : i \in Nat /\ i >= 1 /\ i <= Len(calls[th]) /\ calls[th][i] \in Call
  BY <1>1
<1> QED BY <1>3, <1>4, <1>5, <1>6

LEMMA TopReplaced ==
    ASSUME calls \in [Threads -> Seq(Call)], NEW th \in Threads, calls[th] # <<>>, NEW c \in Call,
           calls' = [calls EXCEPT ![th][Len(calls[th])] = c]
    PROVE  /\ calls' \in [Threads -> Seq(Call)]
           /\ Len(calls[th]) \in DOMAIN calls[th]
           /\ \A u \in Threads : DOMAIN calls'[u] = DOMAIN calls[u]
           /\ calls'[th][Len(calls[th])] = c
           /\ \A u \in Threads : \A i \in DOMAIN calls[u] :
                 (u # th \/ i # Len(calls[th])) => calls'[u][i] = calls[u][i]
<1> DEFINE s == calls[th]
           n == Len(s)
           s2 == [s EXCEPT ![n] = c]
<1>1. /\ s \in Seq(Call) /\ n \in Nat \ {0} /\ DOMAIN s = 1 .. n
      /\ s2 \in Seq(Call) /\ DOMAIN s2 = 1 .. n
      /\ s2[n] = c
      /\ \A i \in 1 .. n : i # n => s2[i] = s[i]
  OBVIOUS
<1>2. calls' = [calls EXCEPT ![th] = s2]
  OBVIOUS
<1> HIDE DEF s2
<1>3. /\ calls' \in [Threads -> Seq(Call)] /\ calls'[th] = s2
      /\ \A u \in Threads : u # th => calls'[u] = calls[u]
  BY <1>1, <1>2
<1>4. n \in DOMAIN s
  BY ONLY <1>1, LastIndex
<1>5. \A u \in Threads : DOMAIN calls'[u] = DOMAIN calls[u]
  BY <1>1, <1>3
<1>6. \A u \in Threads : \A i \in DOMAIN calls[u] :
        (u # th \/ i # n) => calls'[u][i] = calls[u][i]
  BY <1>1, <1>3
<1> QED BY <1>1, <1>3, <1>4, <1>5, <1>6

LEMMA TopRemoved ==
    ASSUME calls \in [Threads -> Seq(Call)], NEW th \in Threads, calls[th] # <<>>, Return(th)
    PROVE  /\ calls' \in [Threads -> Seq(Call)]
           /\ Len(calls[th]) \in DOMAIN calls[th]
           /\ \A u \in Threads : u # th => calls'[u] = calls[u]
           /\ DOMAIN calls'[th] = DOMAIN calls[th] \ {Len(calls[th])}
           /\ \A i \in DOMAIN calls'[th] : calls'[th][i] = calls[th][i]
<1> DEFINE s == calls[th]
           n == Len(s)
           s2 == SubSeq(s, 1, n - 1)
<1>1. /\ s \in Seq(Call) /\ n \in Nat \ {0} /\ DOMAIN s = 1 .. n
      /\ s2 \in Seq(Call) /\ DOMAIN s2 = 1 .. (n - 1)
      /\ \A i \in 1 .. (n - 1) : s2[i] = s[i]
  OBVIOUS
<1>2. calls' = [calls EXCEPT ![th] = s2]
  BY DEF Return, Front
<1> HIDE DEF s2
<1>3. /\ calls' \in [Threads -> Seq(Call)] /\ calls'[th] = s2
      /\ \A u \in Threads : u # th => calls'[u] = calls[u]
  BY <1>1, <1>2
<1> QED BY <1>1, <1>3

LEMMA CallPublished ==
    ASSUME calls \in [Threads -> Seq(Call)], NEW th \in Threads, Idle(th), NEW c \in Call,
           calls' = [calls EXCEPT ![th] = <<c>>]
    PROVE  /\ calls' \in [Threads -> Seq(Call)]
           /\ DOMAIN calls[th] = {} /\ DOMAIN calls'[th] = {1} /\ calls'[th][1] = c
           /\ \A u \in Threads : u # th => calls'[u] = calls[u]
<1>1. <<c>> \in Seq(Call) /\ DOMAIN <<c>> = {1} /\ <<c>>[1] = c
  OBVIOUS
<1>2. DOMAIN calls[th] = {}
  BY IdleFacts
<1> QED BY <1>1, <1>2

\* The top becomes [at |-> next, task |-> t]; above it may come a new call.
LEMMA CallEnqueued ==
    ASSUME calls \in [Threads -> Seq(Call)], NEW th \in Threads, calls[th] # <<>>,
           NEW t \in TaskIds, NEW next \in {"staged", "set"}, Enqueued(th, t, next)
    PROVE  /\ calls' \in [Threads -> Seq(Call)]
           /\ Len(calls[th]) \in DOMAIN calls[th]
           /\ \A u \in Threads : u # th => calls'[u] = calls[u]
           /\ DOMAIN calls[th] \subseteq DOMAIN calls'[th]
           /\ \A i \in DOMAIN calls[th] : i # Len(calls[th]) => calls'[th][i] = calls[th][i]
           /\ calls'[th][Len(calls[th])].at = next /\ calls'[th][Len(calls[th])].task = t
           /\ \A i \in DOMAIN calls'[th] \ DOMAIN calls[th] : calls'[th][i].at = "enqueue" /\ FollowUpDue'
<1> DEFINE s == calls[th]
           n == Len(s)
           c == [At(next) EXCEPT !.task = t]
           e == At("enqueue")
           s2 == [s EXCEPT ![n] = c]
           s3 == Append(s2, e)
<1>1. c \in Call /\ c.at = next /\ c.task = t /\ e \in Call /\ e.at = "enqueue"
  BY CallFacts
<1> HIDE DEF c, e
<1>2. /\ s \in Seq(Call) /\ n \in Nat \ {0} /\ DOMAIN s = 1 .. n
      /\ s2 \in Seq(Call) /\ Len(s2) = n /\ DOMAIN s2 = 1 .. n
  BY <1>1
<1>3. s2[n] = c /\ \A i \in 1 .. n : i # n => s2[i] = s[i]
  BY <1>1, <1>2
<1>4. \/ calls' = [calls EXCEPT ![th] = s2]
      \/ calls' = [calls EXCEPT ![th] = s3] /\ FollowUpDue'
  <2>1. \/ calls' = [calls EXCEPT ![th] = Append(s2, e)] /\ FollowUpDue'
        \/ calls' = [calls EXCEPT ![th] = s2]
    BY Zenon DEF Enqueued, c, e
  <2> QED BY <2>1
<1> HIDE DEF s2
<1>5. /\ s3 \in Seq(Call) /\ DOMAIN s3 = 1 .. (n + 1) /\ s3[n + 1] = e
      /\ \A i \in 1 .. n : s3[i] = s2[i]
  BY <1>1, <1>2
<1> HIDE DEF s3
<1>6. n \in DOMAIN s
  BY ONLY <1>2, LastIndex
<1>7. CASE calls' = [calls EXCEPT ![th] = s2]
  <2>1. /\ calls' \in [Threads -> Seq(Call)] /\ calls'[th] = s2
        /\ \A u \in Threads : u # th => calls'[u] = calls[u]
    BY <1>2, <1>7
  <2> QED BY <1>1, <1>2, <1>3, <1>6, <2>1
<1>8. CASE calls' = [calls EXCEPT ![th] = s3] /\ FollowUpDue'
  <2>1. /\ calls' \in [Threads -> Seq(Call)] /\ calls'[th] = s3
        /\ \A u \in Threads : u # th => calls'[u] = calls[u]
    BY <1>5, <1>8
  <2>2. \A i \in DOMAIN s3 \ DOMAIN s : s3[i] = e
    BY <1>2, <1>5
  <2>3. DOMAIN s \subseteq DOMAIN s3 /\ \A i \in DOMAIN s : s3[i] = s2[i]
    BY <1>2, <1>5
  <2>4. \A i \in DOMAIN s : i # n => s3[i] = s[i]
    BY <1>2, <1>3, <2>3
  <2>5. s3[n] = c
    BY <1>3, <1>6, <2>3
  <2>6. \A i \in DOMAIN calls'[th] \ DOMAIN calls[th] : calls'[th][i].at = "enqueue" /\ FollowUpDue'
    BY <1>1, <1>8, <2>1, <2>2
  <2> HIDE DEF n
  <2> QED BY <1>1, <1>6, <2>1, <2>3, <2>4, <2>5, <2>6 DEF n
<1> QED BY <1>4, <1>7, <1>8

-----------------------------------------------------------------------------
(* What the session knows of its tasks. *)

LEMMA RoleFacts ==
    /\ Roles = {"initial", "followup", "ingest", "embeddings", "summary"}
    /\ Bootstraps = {"embeddings", "summary"}
    /\ "initial" \in Roles /\ "followup" \in Roles /\ "ingest" \in Roles /\ Bootstraps \subseteq Roles
    /\ \A r \in Roles : KindOf(r) = "sync" => r \in {"initial", "followup"}
    /\ \A r \in Roles \ {"initial", "followup"} : KindOf(r) = r
BY DEF Roles, Bootstraps, KindOf

LEMMA SelectionFacts ==
    ASSUME TypeOK
    PROVE  /\ selections.sync \in BOOLEAN /\ selections.ingest \in BOOLEAN
           /\ selections.bootstraps \subseteq Bootstraps
           /\ selections.sync \/ selections.ingest
BY ConstantsAssumption DEF TypeOK

LEMMA SessionFacts ==
    ASSUME TypeOK
    PROVE  /\ \A r \in Roles : /\ session.id[r] \in TaskIds \cup {NoId}
                               /\ session.terminal[r] \in {"none"} \cup Ended
                               /\ session.seq[r] \in Nat /\ session.seq[r] <= session.next
           /\ session.stored \in BOOLEAN /\ session.required \in BOOLEAN
           /\ session.status \in {"none"} \cup Ended /\ session.next \in Nat
BY DEF TypeOK, Session

LEMMA TaskFacts ==
    ASSUME TypeOK, NEW t \in TaskIds
    PROVE  /\ tasks[t].status \in {"absent", "pruned"} \cup Active \cup Ended
           /\ tasks[t].kind \in Kinds
           /\ fate[t] \in {"none"} \cup Ended
BY DEF TypeOK, Task

LEMMA NewSessionFacts ==
    /\ NewSession \in Session
    /\ ~NewSession.stored /\ ~NewSession.required
    /\ NewSession.status = "none" /\ NewSession.next = 0
    /\ \A r \in Roles : /\ NewSession.id[r] = NoId /\ NewSession.terminal[r] = "none"
                        /\ NewSession.seq[r] = 0
BY ThreadFacts DEF NewSession, Session

LEMMA LatestSyncFacts ==
    ASSUME NEW d, d.seq["initial"] \in Nat, d.seq["followup"] \in Nat
    PROVE  /\ LatestSyncIn(d) \in {d.seq["initial"], d.seq["followup"]}
           /\ LatestSyncIn(d) >= d.seq["initial"] /\ LatestSyncIn(d) >= d.seq["followup"]
<1> DEFINE a == d.seq["initial"]
           b == d.seq["followup"]
<1>1. \E x \in {a, b} : \A y \in {a, b} : x >= y
  OBVIOUS
<1> QED BY <1>1 DEF LatestSyncIn, Max

\* Only a stored session lists a task.
LEMMA ListedIsStored ==
    ASSUME IInv, NEW r \in Roles, session.id[r] # NoId
    PROVE  session.stored
BY NewSessionFacts DEF IInv, NothingBeforeStart

\* start_session is over once the session is stored.
LEMMA StoredIsOver ==
    ASSUME IInv, session.stored
    PROVE  starting.step = "over"
BY NewSessionFacts DEF IInv, NothingBeforeStart

\* A listed task has one role.
LEMMA OneRole ==
    ASSUME IInv, NEW r \in Roles, session.id[r] \in TaskIds
    PROVE  RolesOf(session.id[r]) = {r}
<1>1. session.stored
  BY ThreadFacts, ListedIsStored
<1>2. ASSUME NEW q \in Roles, session.id[q] = session.id[r], q # r
      PROVE  FALSE
  <2>1. session.id[q] # NoId /\ session.id[r] # NoId
    BY <1>2, ThreadFacts
  <2>2. KindOf(q) = KindOf(r)
    BY <1>2, <2>1 DEF IInv, ListedTasks, Lists
  <2>3. {q, r} = {"initial", "followup"}
    BY <1>2, <2>2, RoleFacts DEF KindOf
  <2> QED BY <1>2, <2>1, <2>3 DEF IInv, RolesFilled
<1> QED BY <1>1, <1>2 DEF RolesOf

LEMMA StatusFacts ==
    ASSUME IInv, NEW r \in Roles
    PROVE  /\ session.id[r] = NoId => Loaded(r) = "none" /\ Status(r) = "none"
           /\ Status(r) = "failed" \/ (Status(r) \in Ended /\ r # "followup") =>
                /\ session.id[r] \in TaskIds
                /\ tasks[session.id[r]].status \in Gone /\ fate[session.id[r]] = Status(r)
           /\ r \notin {"ingest", "followup"} /\ session.seq[r] > 0 => Status(r) = "completed"
<1> DEFINE t == session.id[r]
<1>1. TypeOK
  BY DEF IInv
<1>2. NotesTrue(r) /\ t \in TaskIds \cup {NoId} /\ session.terminal[r] \in {"none"} \cup Ended
  BY <1>1, SessionFacts DEF IInv, SessionTruthful
<1>3. CASE t = NoId
  <2>1. Loaded(r) = "none"
    BY <1>3 DEF Loaded, LoadTaskById
  <2>2. Status(r) = "none"
    BY <1>2, <1>3, <2>1 DEF Status, StatusIn, NotesTrue
  <2> QED BY <1>2, <1>3, <2>1, <2>2 DEF NotesTrue, Ended
<1>4. CASE t \in TaskIds
  <2>1. /\ tasks[t].status \in {"absent", "pruned"} \cup Active \cup Ended
        /\ FateOK(t) /\ tasks[t].status # "absent" /\ t # NoId
    BY <1>1, <1>4, TaskFacts, ThreadFacts DEF IInv, FatesRecorded, ListedTasks, Lists
  <2>2. Loaded(r) = IF tasks[t].status = "pruned" THEN "none" ELSE tasks[t].status
    BY <2>1 DEF Loaded, LoadTaskById
  <2>3. CASE tasks[t].status = "pruned"
    BY <1>2, <1>4, <2>1, <2>2, <2>3 DEF Status, StatusIn, NotesTrue, FateOK, Gone, Ended
  <2>4. CASE tasks[t].status # "pruned"
    <3>1. Loaded(r) # "none" /\ Status(r) = tasks[t].status
      BY <2>1, <2>2, <2>4 DEF Status, StatusIn, Active, Ended
    <3>2. r \notin {"ingest", "followup"} /\ session.seq[r] > 0 => Status(r) = "completed"
      BY <1>2, <2>1, <2>4, <3>1 DEF NotesTrue, FateOK, Active, Ended
    <3> QED BY <1>4, <2>1, <3>1, <3>2 DEF FateOK, Gone, Ended
  <2> QED BY <2>3, <2>4
<1> QED BY <1>2, <1>3, <1>4

LEMMA NothingFailedStatus ==
    ASSUME IInv, NothingFailed, NEW r \in Roles
    PROVE  Status(r) # "failed"
BY StatusFacts, ThreadFacts DEF NothingFailed

\* A bootstrap that needs a follow-up sync needed it before, when the session
\* noted the same of it.
LEMMA FollowUpStays ==
    ASSUME IInv, NothingFailed, NEW b \in Bootstraps, NeedsFollowUp(b)',
           UNCHANGED selections, session'.seq = session.seq, session'.required => session.required
    PROVE  NeedsFollowUp(b)
<1>1. Status(b) # "failed"
  BY NothingFailedStatus, RoleFacts
<1>2. /\ session'.required /\ Selected(b)'
      /\ session'.seq[b] > 0 /\ LatestSyncIn(session') > 0
      /\ session'.seq[b] > LatestSyncIn(session')
  BY DEF NeedsFollowUp, NeedsFollowUpIn
<1>3. LatestSyncIn(session') = LatestSyncIn(session) /\ (Selected(b)' <=> Selected(b))
  BY DEF LatestSyncIn, Selected
<1> QED BY <1>1, <1>2, <1>3 DEF NeedsFollowUp, NeedsFollowUpIn, Status

LEMMA SyncOver ==
    ASSUME IInv, session.stored, SyncTerminal
    PROVE  InitialOver
BY StatusFacts, RoleFacts DEF InitialOver, SyncTerminal

-----------------------------------------------------------------------------
(* Steps that leave the session alone and only let tasks start, wait again *)
(* or appear.                                                              *)

TaskMoves(t) ==
    \/ tasks'[t] = tasks[t]
    \/ tasks[t].status = "absent" /\ tasks'[t].status = "queued"
    \/ tasks'[t].kind = tasks[t].kind /\ tasks[t].status \in Active /\ tasks'[t].status \in Active

LEMMA MovedTasks ==
    ASSUME IInv, \A t \in TaskIds : TaskMoves(t), UNCHANGED <<selections, session, fate>>
    PROVE  /\ FatesRecorded' /\ ListedTasks' /\ RolesFilled' /\ SessionTruthful'
           /\ \A r \in Roles : Forgotten(r) => Forgotten(r)'
           /\ InitialOver => InitialOver'
           /\ \A th, i, c : CallFits(th, i, c) => CallFits(th, i, c)'
<1> USE DEF IInv
<1>1. \A t \in TaskIds : tasks[t].status \in Gone => tasks'[t] = tasks[t]
  BY DEF TaskMoves, Gone, Active, Ended
<1>2. \A t \in TaskIds : tasks[t].status # "absent" =>
         /\ tasks'[t].kind = tasks[t].kind /\ tasks'[t].status # "absent"
         /\ tasks[t].status # "pruned" => tasks'[t].status # "pruned"
         /\ tasks[t].status \in Active \cup Ended => tasks'[t].status \in Active \cup Ended
  BY DEF TaskMoves, Active, Ended
<1>3. FatesRecorded'
  BY DEF FatesRecorded, FateOK, TaskMoves, Active, Ended
<1>4. \A r \in Roles : session.id[r] \in TaskIds \cup {NoId}
  BY SessionFacts
<1>5. ListedTasks'
  BY <1>2, <1>4 DEF ListedTasks, Lists, Keeps
<1>6. InitialOver => InitialOver'
  <2> HAVE InitialOver
  <2>1. selections.sync => session.id["initial"] \in TaskIds
    BY <1>4, RoleFacts DEF InitialOver, RolesFilled, InitialRoles, StartRole
  <2> QED BY <1>1, <2>1 DEF InitialOver, Gone
<1>7. RolesFilled' /\ SessionTruthful'
  BY DEF RolesFilled, SessionTruthful, NotesTrue, InitialRoles, StartRole
<1>8. \A r \in Roles : Forgotten(r) => Forgotten(r)'
  BY <1>1, <1>4 DEF Forgotten, Gone
<1>9. ASSUME NEW th, NEW i, NEW c, CallFits(th, i, c)
      PROVE  CallFits(th, i, c)'
  BY <1>1, <1>2, <1>6, <1>9 DEF CallFits, Gone, Active, Ended
<1> QED BY <1>3, <1>5, <1>6, <1>7, <1>8, <1>9

OldCall(th, i) == i \in DOMAIN calls[th] /\ calls'[th][i] = calls[th][i]

\* No call to apply or to stage is new, none to apply is gone.
OldApplies ==
    \A th \in Threads : \A i \in DOMAIN calls'[th] : calls'[th][i].at = "apply" => OldCall(th, i)
OldStaging ==
    \A th \in Threads : \A i \in DOMAIN calls'[th] :
        calls'[th][i].at \in Staging => i \in DOMAIN calls[th] /\ calls[th][i].at \in Staging
AppliesStay ==
    \A th \in Threads : \A i \in DOMAIN calls[th] :
        calls[th][i].at = "apply" => i \in DOMAIN calls'[th] /\ calls'[th][i] = calls[th][i]
StagingStays == InCall(Staging) => InCall(Staging)'
ChecksStay == InCall(WillCheck) => InCall(WillCheck)'
NewCallsFit ==
    \A th \in Threads : \A i \in DOMAIN calls'[th] :
        OldCall(th, i) \/ CallFits(th, i, calls[th][i])'

LEMMA OnceStays ==
    ASSUME IInv, OldApplies, OldStaging
    PROVE  CalledOnce'
<1> SUFFICES ASSUME NEW th \in Threads, NEW u \in Threads,
                    NEW i \in DOMAIN calls'[th], NEW j \in DOMAIN calls'[u],
                    \/ calls'[th][i].at = "apply" /\ calls'[u][j].at = "apply"
                         /\ calls'[th][i].task = calls'[u][j].task
                    \/ calls'[th][i].at \in Staging /\ calls'[u][j].at \in Staging
             PROVE  th = u /\ i = j
  BY DEF CalledOnce
<1>1. CASE calls'[th][i].at = "apply" /\ calls'[u][j].at = "apply"
             /\ calls'[th][i].task = calls'[u][j].task
  <2>1. OldCall(th, i) /\ OldCall(u, j)
    BY <1>1 DEF OldApplies
  <2> QED BY <1>1, <2>1 DEF OldCall, IInv, CalledOnce
<1>2. CASE calls'[th][i].at \in Staging /\ calls'[u][j].at \in Staging
  <2>1. /\ i \in DOMAIN calls[th] /\ calls[th][i].at \in Staging
        /\ j \in DOMAIN calls[u] /\ calls[u][j].at \in Staging
    BY <1>2 DEF OldStaging
  <2> QED BY <2>1 DEF IInv, CalledOnce
<1> QED BY <1>1, <1>2

LEMMA StatusMoves ==
    ASSUME IInv, \A t \in TaskIds : TaskMoves(t), UNCHANGED session, NEW r \in Roles
    PROVE  Status(r)' = Status(r) \/ (Status(r)' \in Active /\ Status(r) \in Active)
<1> DEFINE t == session.id[r]
<1>1. t \in TaskIds \cup {NoId} /\ NoId \notin TaskIds
  BY SessionFacts, ThreadFacts DEF IInv
<1>2. CASE t = NoId
  <2>1. Loaded(r) = "none" /\ Loaded(r)' = "none"
    BY <1>2 DEF Loaded, LoadTaskById
  <2> QED BY <2>1 DEF Status, StatusIn
<1>3. CASE t \in TaskIds
  <2>1. tasks[t].status # "absent"
    BY <1>1, <1>3 DEF IInv, ListedTasks, Lists
  <2>2. CASE tasks'[t] = tasks[t]
    <3>1. Loaded(r)' = Loaded(r)
      BY <2>2 DEF Loaded, LoadTaskById
    <3> QED BY <3>1 DEF Status, StatusIn
  <2>3. CASE tasks[t].status \in Active /\ tasks'[t].status \in Active
    BY <1>1, <1>3, <2>3 DEF Status, StatusIn, Loaded, LoadTaskById, Active
  <2> QED BY <1>3, <2>1, <2>2, <2>3 DEF TaskMoves
<1> QED BY <1>1, <1>2, <1>3

LEMMA DueStays ==
    ASSUME IInv, \A t \in TaskIds : TaskMoves(t), UNCHANGED <<selections, session, fate, missed>>,
           ChecksStay
    PROVE  DueIsChecked'
<1> SUFFICES ASSUME Due'
             PROVE  (missed \/ ReplacedFailure \/ SyncActive \/ InCall(WillCheck))'
  BY DEF DueIsChecked
<1>1. \A r \in Roles : Status(r)' = Status(r) \/ (Status(r)' \in Active /\ Status(r) \in Active)
  BY StatusMoves
<1>2. Due
  <2>1. SyncTerminal /\ NothingFailed
    BY <1>1, RoleFacts DEF Due, SyncTerminal, NothingFailed, Active, Ended
  <2>2. PICK b \in Bootstraps : NeedsFollowUp(b)'
    BY DEF Due
  <2>3. NeedsFollowUp(b)
    BY <2>1, <2>2, FollowUpStays
  <2> QED BY <2>1, <2>3 DEF Due
<1>3. CASE ReplacedFailure
  <2>1. PICK t \in TaskIds : tasks[t].kind = "sync" /\ fate[t] = "failed" /\ RolesOf(t) = {}
    BY <1>3 DEF ReplacedFailure
  <2>2. tasks[t].status \notin {"absent"} \cup Active
    BY <2>1 DEF IInv, FatesRecorded, FateOK
  <2>3. tasks'[t] = tasks[t]
    BY <2>2 DEF TaskMoves
  <2> QED BY <2>1, <2>3 DEF ReplacedFailure, RolesOf
<1>4. CASE SyncActive
  <2>1. PICK t \in TaskIds : tasks[t].kind = "sync" /\ tasks[t].status \in Active
    BY <1>4 DEF SyncActive
  <2>2. tasks'[t].kind = "sync" /\ tasks'[t].status \in Active
    BY <2>1 DEF TaskMoves, Active
  <2> QED BY <2>2 DEF SyncActive
<1> QED BY <1>2, <1>3, <1>4 DEF IInv, DueIsChecked, ChecksStay

\* The rest follows from what the step does to the calls.
LEMMA QuietCore ==
    ASSUME IInv, \A t \in TaskIds : TaskMoves(t), UNCHANGED <<selections, session, fate, covered, overtaken>>,
           TypeOK', NothingBeforeStart', StartListed', DownIsIdle', DueIsChecked',
           OldApplies, OldStaging, NewCallsFit,
           CompletionsSeen', IngestIsStaged', CoveredOrOvertaken'
    PROVE  IInv'
<1>1. /\ FatesRecorded' /\ ListedTasks' /\ RolesFilled' /\ SessionTruthful'
      /\ \A r \in Roles : Forgotten(r) => Forgotten(r)'
      /\ \A th, i, c : CallFits(th, i, c) => CallFits(th, i, c)'
  BY MovedTasks
<1>2. CallsFit'
  <2> SUFFICES ASSUME NEW th \in Threads, NEW i \in DOMAIN calls'[th]
               PROVE  CallFits(th, i, calls[th][i])'
    BY DEF CallsFit
  <2>1. CASE OldCall(th, i)
    <3>1. CallFits(th, i, calls[th][i])
      BY <2>1 DEF OldCall, IInv, CallsFit
    <3>2. PICK c : c = calls[th][i]
      OBVIOUS
    <3>3. CallFits(th, i, c)' /\ calls'[th][i] = c
      BY <1>1, <2>1, <3>1, <3>2 DEF OldCall
    <3> QED BY <3>3
  <2> QED BY <2>1 DEF NewCallsFit
<1>3. CalledOnce'
  BY OnceStays
<1>4. LateIsNumberedLater'
  BY DEF IInv, LateIsNumberedLater
<1>5. AskedFor' = AskedFor /\ AskedFor \subseteq Roles
  BY SelectionFacts, RoleFacts DEF AskedFor, IInv
<1>6. CompletedIsTrue'
  BY <1>1, <1>5 DEF IInv, CompletedIsTrue
<1> QED BY <1>1, <1>2, <1>3, <1>4, <1>6 DEF IInv

LEMMA QuietStepKeeps ==
    ASSUME IInv, \A t \in TaskIds : TaskMoves(t), UNCHANGED <<selections, session, fate, covered, overtaken>>,
           TypeOK', NothingBeforeStart', StartListed', DownIsIdle', DueIsChecked',
           OldApplies, OldStaging, NewCallsFit,
           missed' \/ (missed' = missed /\ AppliesStay /\ StagingStays)
    PROVE  IInv'
<1>1. \A r \in Roles : Forgotten(r) => Forgotten(r)'
  BY MovedTasks
<1>2. ASSUME NEW t, Applying(t), ~missed'
      PROVE  Applying(t)'
  BY <1>2 DEF Applying, AppliesStay
<1>3. CompletionsSeen'
  <2>1. \A t \in TaskIds : Noted(t) => Noted(t)'
    BY DEF Noted
  <2> QED BY <1>2, <2>1 DEF IInv, CompletionsSeen
<1>4. IngestIsStaged'
  BY DEF IInv, IngestIsStaged, StagingStays
<1>5. AskedFor' = AskedFor /\ AskedFor \subseteq Roles
  BY SelectionFacts, RoleFacts DEF AskedFor, IInv
<1>6. CoveredOrOvertaken'
  <2> SUFFICES ASSUME session.status = "completed", selections.sync, ~overtaken, ~missed'
               PROVE  \/ selections.bootstraps \subseteq covered
                      \/ \E r \in AskedFor : Forgotten(r)'
                      \/ Applying(session.id["initial"])'
    BY <1>5 DEF IInv, CoveredOrOvertaken, Applying
  <2>1. \/ selections.bootstraps \subseteq covered
        \/ \E r \in AskedFor : Forgotten(r)
        \/ Applying(session.id["initial"])
    BY DEF IInv, CoveredOrOvertaken, Applying
  <2> QED BY <1>1, <1>2, <1>5, <2>1
<1> QED BY <1>3, <1>4, <1>6, QuietCore

LEMMA StartStays ==
    ASSUME IInv, \A t \in TaskIds : TaskMoves(t), UNCHANGED <<selections, session, starting>>
    PROVE  NothingBeforeStart' /\ StartListed'
<1>1. NothingBeforeStart'
  BY DEF IInv, NothingBeforeStart, InitialRoles, StartRole
<1>2. \A r \in Roles : starting.id[r] \in TaskIds \cup {NoId}
  BY DEF IInv, TypeOK
<1>3. \A t \in TaskIds : tasks[t].status # "absent" =>
         /\ tasks'[t].kind = tasks[t].kind /\ tasks'[t].status # "absent"
         /\ tasks[t].status # "pruned" => tasks'[t].status # "pruned"
  BY DEF TaskMoves, Active
<1>4. StartListed'
  BY <1>2, <1>3 DEF IInv, StartListed, Lists, Keeps
<1> QED BY <1>1, <1>4

CallsQuiet ==
    /\ calls' \in [Threads -> Seq(Call)]
    /\ OldApplies /\ OldStaging /\ AppliesStay /\ StagingStays /\ ChecksStay /\ NewCallsFit

LEMMA SameCalls ==
    ASSUME TypeOK, UNCHANGED calls
    PROVE  CallsQuiet
<1>1. calls' \in [Threads -> Seq(Call)]
  BY DEF TypeOK
<1>2. OldApplies /\ OldStaging /\ AppliesStay
  BY DEF OldApplies, OldStaging, AppliesStay, OldCall
<1>3. StagingStays /\ ChecksStay /\ NewCallsFit
  BY DEF StagingStays, ChecksStay, InCall, NewCallsFit, OldCall
<1> QED BY <1>1, <1>2, <1>3 DEF CallsQuiet

LEMMA DueInitialOver ==
    ASSUME IInv, \A t \in TaskIds : TaskMoves(t), UNCHANGED <<selections, session, fate>>, FollowUpDue'
    PROVE  InitialOver'
<1>1. session.stored /\ SyncTerminal'
  BY DEF FollowUpDue
<1>2. Status("initial")' \in Ended => Status("initial")' = Status("initial")
  BY StatusMoves, RoleFacts DEF Active, Ended
<1>3. SyncTerminal
  BY <1>1, <1>2 DEF SyncTerminal
<1> QED BY <1>1, <1>3, SyncOver, MovedTasks

LEMMA LivePublished ==
    ASSUME IInv, NEW th \in Threads, Idle(th), PublishLive(th),
           \A t \in TaskIds : TaskMoves(t), UNCHANGED <<selections, session, fate>>
    PROVE  CallsQuiet
<1>0. TypeOK
  BY DEF IInv
<1>1. CASE FollowUpDue'
  <2>1. calls' = [calls EXCEPT ![th] = <<At("enqueue")>>]
    BY <1>1 DEF PublishLive
  <2>2. At("enqueue") \in Call /\ At("enqueue").at = "enqueue"
    BY CallFacts
  <2>3. calls \in [Threads -> Seq(Call)]
    BY <1>0 DEF TypeOK
  <2>4. /\ calls' \in [Threads -> Seq(Call)]
        /\ DOMAIN calls[th] = {} /\ DOMAIN calls'[th] = {1} /\ calls'[th][1] = At("enqueue")
        /\ \A u \in Threads : u # th => calls'[u] = calls[u]
    BY <2>1, <2>2, <2>3, CallPublished
  <2>5. InitialOver'
    BY <1>1, DueInitialOver
  <2>6. CallFits(th, 1, calls[th][1])'
    BY <2>2, <2>4, <2>5 DEF CallFits, Staging
  <2>7. OldApplies /\ OldStaging /\ NewCallsFit
    BY <2>2, <2>4, <2>6 DEF OldApplies, OldStaging, NewCallsFit, OldCall, Staging
  <2>8. AppliesStay /\ StagingStays /\ ChecksStay
    BY <2>4 DEF AppliesStay, StagingStays, ChecksStay, InCall
  <2> QED BY <2>4, <2>7, <2>8 DEF CallsQuiet
<1>2. CASE ~FollowUpDue'
  <2>1. UNCHANGED calls
    BY <1>2 DEF PublishLive
  <2> QED BY <1>0, <2>1, SameCalls
<1> QED BY <1>1, <1>2

\* A quiet step that publishes at most the change of a live task.
LEMMA LiveStepKeeps ==
    ASSUME IInv, \A t \in TaskIds : TaskMoves(t), tasks' \in [TaskIds -> Task], CallsQuiet,
           work' \in {"idle", "busy", "failed"}, up' \in BOOLEAN, upsets' \in 0 .. MaxUpsets,
           UNCHANGED <<selections, session, fate, covered, missed, overtaken>>,
           polls' \in [Pollers -> Poll],
           starting' \in [step : Steps, id : [Roles -> TaskIds \cup {NoId}]],
           NothingBeforeStart', StartListed', DownIsIdle'
    PROVE  IInv'
<1>1. TypeOK'
  BY DEF IInv, TypeOK, CallsQuiet
<1>2. DueIsChecked'
  BY DueStays DEF CallsQuiet
<1> QED BY <1>1, <1>2, QuietStepKeeps DEF CallsQuiet

LEMMA TaskChanged ==
    ASSUME TypeOK, NEW t \in TaskIds, NEW s \in {"pruned"} \cup Active \cup Ended,
           tasks' = [tasks EXCEPT ![t].status = s]
    PROVE  /\ tasks' \in [TaskIds -> Task]
           /\ tasks'[t].status = s /\ tasks'[t].kind = tasks[t].kind
           /\ \A u \in TaskIds : u # t => tasks'[u] = tasks[u]
<1>1. tasks \in [TaskIds -> Task]
  BY DEF TypeOK
<1>2. [tasks[t] EXCEPT !.status = s] \in Task
  BY <1>1 DEF Task
<1> QED BY <1>1, <1>2

LEMMA UpsetTyped == ASSUME TypeOK, Upset PROVE upsets' \in 0 .. MaxUpsets
BY ConstantsAssumption DEF Upset, TypeOK

LEMMA StartTaskKeeps ==
    ASSUME IInv, NEW t \in TaskIds, StartTask(t)
    PROVE  IInv'
<1>1. TypeOK
  BY DEF IInv
<1>2. /\ tasks' \in [TaskIds -> Task]
      /\ tasks'[t].status = "running" /\ tasks'[t].kind = tasks[t].kind
      /\ \A u \in TaskIds : u # t => tasks'[u] = tasks[u]
  BY <1>1, TaskChanged DEF StartTask, Active
<1>3. \A u \in TaskIds : TaskMoves(u)
  BY <1>2 DEF StartTask, TaskMoves, Active
<1>4. CallsQuiet
  BY <1>3, LivePublished, ThreadFacts DEF StartTask
<1>5. NothingBeforeStart' /\ StartListed'
  BY <1>3, StartStays DEF StartTask
<1>7. DownIsIdle'
  BY DEF StartTask, DownIsIdle
<1> QED BY <1>1, <1>2, <1>3, <1>4, <1>5, <1>7, LiveStepKeeps DEF StartTask, TypeOK

LEMMA ProgressKeeps ==
    ASSUME IInv, NEW t \in TaskIds, Progress(t)
    PROVE  IInv'
<1>1. TypeOK
  BY DEF IInv
<1>2. \A u \in TaskIds : TaskMoves(u)
  BY DEF Progress, TaskMoves
<1>3. CallsQuiet
  BY <1>2, LivePublished, ThreadFacts DEF Progress, Executing
<1>4. NothingBeforeStart' /\ StartListed'
  BY <1>2, StartStays DEF Progress
<1>7. DownIsIdle'
  BY DEF Progress, Executing, DownIsIdle
<1> QED BY <1>1, <1>2, <1>3, <1>4, <1>7, LiveStepKeeps DEF Progress, TypeOK

LEMMA RequeueTaskKeeps ==
    ASSUME IInv, NEW t \in TaskIds, RequeueTask(t)
    PROVE  IInv'
<1>1. TypeOK
  BY DEF IInv
<1>2. /\ tasks' \in [TaskIds -> Task]
      /\ tasks'[t].status = "queued" /\ tasks'[t].kind = tasks[t].kind
      /\ \A u \in TaskIds : u # t => tasks'[u] = tasks[u]
  BY <1>1, TaskChanged DEF RequeueTask, Active
<1>3. \A u \in TaskIds : TaskMoves(u)
  BY <1>2 DEF RequeueTask, Executing, TaskMoves, Active
<1>4. CallsQuiet
  BY <1>3, LivePublished, ThreadFacts DEF RequeueTask, Executing
<1>5. NothingBeforeStart' /\ StartListed'
  BY <1>3, StartStays DEF RequeueTask
<1>6. upsets' \in 0 .. MaxUpsets
  BY <1>1, UpsetTyped DEF RequeueTask
<1>7. DownIsIdle'
  BY DEF RequeueTask, Executing, DownIsIdle
<1> QED BY <1>1, <1>2, <1>3, <1>4, <1>5, <1>6, <1>7, LiveStepKeeps DEF RequeueTask, TypeOK

LEMMA RestartKeeps ==
    ASSUME IInv, Restart
    PROVE  IInv'
<1>1. TypeOK
  BY DEF IInv
<1>2. tasks' \in [TaskIds -> Task] /\ \A u \in TaskIds : TaskMoves(u)
  <2>1. \A u \in TaskIds : tasks'[u] = IF tasks[u].status = "running"
                                        THEN [tasks[u] EXCEPT !.status = "queued"] ELSE tasks[u]
    BY DEF Restart
  <2>2. \A u \in TaskIds : /\ tasks[u] \in Task /\ [tasks[u] EXCEPT !.status = "queued"] \in Task
                           /\ [tasks[u] EXCEPT !.status = "queued"].status = "queued"
                           /\ [tasks[u] EXCEPT !.status = "queued"].kind = tasks[u].kind
    BY <1>1 DEF TypeOK, Task, Active
  <2>3. tasks' \in [TaskIds -> Task]
    BY <2>1, <2>2 DEF Restart
  <2> QED BY <2>1, <2>2, <2>3 DEF TaskMoves, Active
<1>3. Idle(Worker)
  BY ThreadFacts DEF Restart, IInv, DownIsIdle
<1>4. CallsQuiet
  BY <1>1, <1>2, <1>3, LivePublished, SameCalls, ThreadFacts DEF Restart
<1>5. NothingBeforeStart' /\ StartListed'
  BY <1>2, StartStays DEF Restart
<1>7. DownIsIdle'
  BY DEF Restart, DownIsIdle
<1> QED BY <1>1, <1>2, <1>4, <1>5, <1>7, LiveStepKeeps DEF Restart, TypeOK

LEMMA EnqueuedTask ==
    ASSUME TypeOK, NEW kind \in Kinds, NEW t \in TaskIds, EnqueueTask(kind, t)
    PROVE  /\ tasks' \in [TaskIds -> Task] /\ \A u \in TaskIds : TaskMoves(u)
           /\ tasks[t].status \in {"absent"} \cup Active
           /\ tasks'[t].kind = kind /\ tasks'[t].status \in Active
<1>1. CASE Mergeable(kind) # {}
  <2>1. t \in Mergeable(kind) /\ tasks' = tasks
    BY <1>1 DEF EnqueueTask, IsFirst
  <2> QED BY <2>1 DEF Mergeable, TaskMoves, TypeOK
<1>2. CASE Mergeable(kind) = {}
  <2> DEFINE new == [kind |-> kind, status |-> "queued"]
  <2>1. tasks[t].status = "absent" /\ tasks' = [tasks EXCEPT ![t] = new]
    BY <1>2 DEF EnqueueTask, IsFirst, Unused
  <2>2. new \in Task /\ new.kind = kind /\ new.status = "queued"
    BY DEF Task, Active
  <2> HIDE DEF new
  <2>3. /\ tasks' \in [TaskIds -> Task] /\ tasks'[t] = new
        /\ \A u \in TaskIds : u # t => tasks'[u] = tasks[u]
    BY <2>1, <2>2 DEF TypeOK
  <2> QED BY <2>1, <2>2, <2>3 DEF TaskMoves, Active
<1> QED BY <1>1, <1>2

LEMMA EnqueueInitialKeeps ==
    ASSUME IInv, EnqueueInitial
    PROVE  IInv'
<1> DEFINE step == starting.step
           r == StartRole(step)
<1>0. TypeOK /\ starting \in [step : Steps, id : [Roles -> TaskIds \cup {NoId}]]
  BY DEF IInv, TypeOK
<1>1. /\ step \in {"top"} \cup Bootstraps /\ up
      /\ UNCHANGED <<selections, session, calls, work, pollVars, up, fate, covered, missed, upsets>>
  BY DEF EnqueueInitial
<1>2. r \in InitialRoles \cup Bootstraps /\ r \in Roles /\ NextStep(step) \in Steps
  BY <1>1, RoleFacts DEF StartRole, InitialRoles, NextStep, Steps
<1>3. session = NewSession
  BY <1>1, RoleFacts DEF IInv, NothingBeforeStart
<1>4. \A q \in Roles : starting.id[q] # NoId <=> q \in InitialRoles \ ToStart(step)
  BY <1>1, RoleFacts DEF IInv, NothingBeforeStart
<1>5. StartListed /\ step # "over"
  BY <1>1, RoleFacts DEF IInv
<1>6. CASE step = "top" \/ Selected(step)
  <2> DEFINE kind == IF r = "initial" THEN "sync" ELSE r
  <2>1. PICK t \in TaskIds :
          /\ EnqueueTask(kind, t)
          /\ starting' = [step |-> NextStep(step), id |-> [starting.id EXCEPT ![r] = t]]
    BY <1>6 DEF EnqueueInitial
  <2>2. kind \in Kinds /\ kind = KindOf(r)
    BY <1>1, RoleFacts DEF StartRole, Kinds, KindOf
  <2>3. /\ tasks' \in [TaskIds -> Task] /\ \A u \in TaskIds : TaskMoves(u)
        /\ tasks'[t].kind = KindOf(r) /\ tasks'[t].status \in Active
    BY <1>0, <2>1, <2>2, EnqueuedTask
  <2>4. /\ starting' \in [step : Steps, id : [Roles -> TaskIds \cup {NoId}]]
        /\ starting'.step = NextStep(step) /\ starting'.id[r] = t
        /\ \A q \in Roles : q # r => starting'.id[q] = starting.id[q]
    BY <1>0, <1>2, <2>1
  <2>5. \A q \in Roles : starting'.id[q] # NoId <=> q \in InitialRoles \ ToStart(NextStep(step))
    <3>1. t # NoId
      BY ThreadFacts
    <3>2. CASE step = "top"
      BY <1>4, <2>4, <3>1, <3>2, RoleFacts, SelectionFacts, <1>0
         DEF NextStep, ToStart, InitialRoles, StartRole
    <3>3. CASE step = "embeddings"
      BY <1>4, <1>6, <2>4, <3>1, <3>3, RoleFacts DEF NextStep, ToStart, InitialRoles, StartRole, Selected
    <3>4. CASE step = "summary"
      BY <1>4, <1>6, <2>4, <3>1, <3>4, RoleFacts DEF NextStep, ToStart, InitialRoles, StartRole, Selected
    <3> QED BY <1>1, <3>2, <3>3, <3>4, RoleFacts
  <2>6. NothingBeforeStart'
    BY <1>1, <1>3, <2>4, <2>5 DEF NothingBeforeStart, InitialRoles, StartRole
  <2>7. StartListed'
    <3>1. \A u \in TaskIds : tasks[u].status # "absent" =>
            /\ tasks'[u].kind = tasks[u].kind /\ tasks'[u].status # "absent"
            /\ tasks[u].status # "pruned" => tasks'[u].status # "pruned"
      BY <2>3 DEF TaskMoves, Active
    <3>2. \A q \in Roles : starting.id[q] \in TaskIds \cup {NoId}
      BY <1>0
    <3>3. ASSUME NEW q \in Roles, starting'.id[q] # NoId
          PROVE  /\ tasks'[starting'.id[q]].status \notin {"absent", "pruned"}
                 /\ tasks'[starting'.id[q]].kind = KindOf(q)
      BY <1>5, <2>3, <2>4, <3>1, <3>2, <3>3 DEF StartListed, Lists, Keeps, Active
    <3> QED BY <3>3 DEF StartListed, Lists, Keeps
  <2>8. CallsQuiet /\ DownIsIdle'
    BY <1>0, <1>1, SameCalls DEF DownIsIdle
  <2> QED BY <1>0, <1>1, <2>3, <2>4, <2>6, <2>7, <2>8, LiveStepKeeps DEF TypeOK
<1>7. CASE ~(step = "top" \/ Selected(step))
  <2>1. starting' = [starting EXCEPT !.step = NextStep(@)] /\ UNCHANGED tasks
    BY <1>7 DEF EnqueueInitial
  <2>2. \A u \in TaskIds : TaskMoves(u)
    BY <2>1 DEF TaskMoves
  <2>3. /\ starting' \in [step : Steps, id : [Roles -> TaskIds \cup {NoId}]]
        /\ starting'.step = NextStep(step) /\ starting'.id = starting.id
    BY <1>0, <1>2, <2>1
  <2>4. \A q \in Roles : starting'.id[q] # NoId <=> q \in InitialRoles \ ToStart(NextStep(step))
    BY <1>1, <1>4, <1>7, <2>3, RoleFacts DEF NextStep, ToStart, InitialRoles, StartRole, Selected
  <2>5. NothingBeforeStart'
    BY <1>1, <1>3, <2>3, <2>4 DEF NothingBeforeStart, InitialRoles, StartRole
  <2>6. StartListed'
    BY <1>5, <2>1, <2>3 DEF StartListed, Lists, Keeps
  <2>7. CallsQuiet /\ DownIsIdle'
    BY <1>0, <1>1, SameCalls DEF DownIsIdle
  <2> QED BY <1>0, <1>1, <2>1, <2>2, <2>3, <2>5, <2>6, <2>7, LiveStepKeeps DEF TypeOK
<1> QED BY <1>6, <1>7

LEMMA StartFaultKeeps ==
    ASSUME IInv, StartFault
    PROVE  IInv'
<1>1. TypeOK
  BY DEF IInv
<1>2. \A u \in TaskIds : TaskMoves(u)
  BY DEF StartFault, TaskMoves
<1>3. /\ starting' \in [step : Steps, id : [Roles -> TaskIds \cup {NoId}]]
      /\ starting'.step = "over"
  BY <1>1 DEF StartFault, TypeOK, Steps
<1>4. NothingBeforeStart' /\ StartListed'
  BY <1>3 DEF StartFault, IInv, NothingBeforeStart, StartListed
<1>5. CallsQuiet /\ DownIsIdle'
  BY <1>1, SameCalls DEF StartFault, DownIsIdle
<1>6. upsets' \in 0 .. MaxUpsets
  BY <1>1, UpsetTyped DEF StartFault
<1> QED BY <1>1, <1>2, <1>3, <1>4, <1>5, <1>6, LiveStepKeeps DEF StartFault, TypeOK

LEMMA WorkEndsKeeps ==
    ASSUME IInv, WorkEnds
    PROVE  IInv'
<1>1. TypeOK
  BY DEF IInv
<1>2. \A u \in TaskIds : TaskMoves(u)
  BY DEF WorkEnds, TaskMoves
<1>3. NothingBeforeStart' /\ StartListed'
  BY <1>2, StartStays DEF WorkEnds
<1>4. CallsQuiet /\ DownIsIdle'
  BY <1>1, SameCalls DEF WorkEnds, DownIsIdle
<1>5. upsets' \in 0 .. MaxUpsets
  BY <1>1, UpsetTyped DEF WorkEnds, TypeOK
<1> QED BY <1>1, <1>2, <1>3, <1>4, <1>5, LiveStepKeeps DEF WorkEnds, TypeOK

LEMMA StoreSessionKeeps ==
    ASSUME IInv, StoreSession
    PROVE  IInv'
<1> USE DEF IInv
<1>1. /\ starting.step = "store" /\ session = NewSession /\ up
      /\ starting' = [starting EXCEPT !.step = "over"]
      /\ session' = [session EXCEPT !.stored = TRUE, !.id = starting.id]
      /\ UNCHANGED <<selections, tasks, calls, work, pollVars, up, fate, covered, missed, upsets>>
  BY DEF StoreSession, NothingBeforeStart
<1>2. starting \in [step : Steps, id : [Roles -> TaskIds \cup {NoId}]]
  BY DEF TypeOK
<1>3. /\ session' \in Session /\ session'.stored /\ session'.id = starting.id /\ ~session'.required
      /\ session'.status = "none" /\ session'.next = 0
      /\ \A r \in Roles : session'.terminal[r] = "none" /\ session'.seq[r] = 0
  <2>1. session \in Session
    BY DEF TypeOK
  <2> QED BY <1>1, <1>2, <2>1, NewSessionFacts DEF Session
<1>4. starting' \in [step : Steps, id : [Roles -> TaskIds \cup {NoId}]] /\ starting'.step = "over"
  BY <1>1, <1>2 DEF Steps
<1>5. TypeOK'
  BY <1>1, <1>3, <1>4 DEF TypeOK
<1>6. NothingBeforeStart' /\ StartListed'
  BY <1>3, <1>4 DEF NothingBeforeStart, StartListed
<1>7. FatesRecorded' /\ DownIsIdle' /\ CalledOnce'
  BY <1>1 DEF FatesRecorded, FateOK, DownIsIdle, Idle, CalledOnce
<1>8. ListedTasks'
  BY <1>1, <1>3 DEF ListedTasks, Lists, Keeps, StartListed
<1>9. RolesFilled'
  <2>1. \A r \in Roles : session'.id[r] # NoId <=> r \in InitialRoles
    BY <1>1, <1>3 DEF NothingBeforeStart, ToStart
  <2> QED BY <1>1, <2>1, SelectionFacts, RoleFacts DEF RolesFilled, InitialRoles, StartRole
<1>10. SessionTruthful'
  BY <1>3 DEF SessionTruthful, NotesTrue
<1>11. CallsFit'
  <2> SUFFICES ASSUME NEW th \in Threads, NEW i \in DOMAIN calls[th]
               PROVE  CallFits(th, i, calls[th][i])'
    BY <1>1 DEF CallsFit
  <2>1. CallFits(th, i, calls[th][i])
    BY DEF CallsFit
  <2>2. session.seq["initial"] = 0 /\ ~InitialOver
    BY <1>1, NewSessionFacts, RoleFacts DEF InitialOver
  <2> QED BY <1>1, <1>3, <2>1, <2>2, RoleFacts DEF CallFits
<1>12. CompletionsSeen'
  <2>1. ASSUME NEW t, Applying(t) PROVE Applying(t)'
    BY <1>1, <2>1 DEF Applying
  <2>2. \A t \in TaskIds : ~Noted(t)
    BY <1>1, NewSessionFacts DEF Noted
  <2> QED BY <1>1, <2>1, <2>2 DEF CompletionsSeen
<1>13. LateIsNumberedLater' /\ IngestIsStaged'
  BY <1>1, <1>3, RoleFacts, SelectionFacts DEF LateIsNumberedLater, IngestIsStaged
<1>14. DueIsChecked' /\ CompletedIsTrue' /\ CoveredOrOvertaken'
  <2>1. ~overtaken
    BY <1>1, NewSessionFacts, RoleFacts DEF CoveredOrOvertaken
  <2> QED BY <1>1, <1>3, <2>1 DEF DueIsChecked, Due, CompletedIsTrue, CoveredOrOvertaken
<1> QED BY <1>5, <1>6, <1>7, <1>8, <1>9, <1>10, <1>11, <1>12, <1>13, <1>14

(***************************************************************************)
(* Polls.  A poll's document stays true: no step takes back what the       *)
(* session and the tasks have come to.                                     *)
(***************************************************************************)
Forward ==
    /\ UNCHANGED selections
    /\ session.stored => session'.stored
    /\ \A r \in Roles \ {"followup"} : session.id[r] # NoId => session'.id[r] = session.id[r]
    /\ \A t \in TaskIds : fate[t] # "none" => fate'[t] = fate[t]
    /\ \A t \in TaskIds : tasks[t].status = "pruned" => tasks'[t].status = "pruned"
    /\ covered \subseteq covered'

LEMMA AskedFacts ==
    ASSUME TypeOK
    PROVE  /\ AskedFor \subseteq Roles \ {"followup"} /\ selections.bootstraps \subseteq AskedFor
           /\ selections.sync => "initial" \in AskedFor
BY SelectionFacts, RoleFacts DEF AskedFor, Bootstraps

LEMMA ForwardKeepsFits ==
    ASSUME IInv, Forward, NEW v, PollFits(v)
    PROVE  PollFits(v)'
<1>1. TypeOK /\ \A r \in Roles : session.id[r] \in TaskIds \cup {NoId}
  BY SessionFacts DEF IInv
<1>2. AskedFor' = AskedFor /\ AskedFor \subseteq Roles \ {"followup"}
  BY <1>1, AskedFacts DEF Forward, AskedFor
<1>3. ASSUME NEW r \in Roles \ {"followup"}, session.id[r] # NoId
      PROVE  /\ session.id[r] \in TaskIds /\ session'.id[r] = session.id[r]
             /\ fate[session.id[r]] # "none" => fate'[session.id[r]] = fate[session.id[r]]
             /\ Forgotten(r) => Forgotten(r)'
  BY <1>1, <1>3 DEF Forward, Forgotten
<1>4. ASSUME NEW r \in Roles \ {"followup"}, DocFits(v.doc, r)
      PROVE  DocFits(v.doc, r)'
  <2>1. PICK t : t = v.doc.id[r]
    OBVIOUS
  <2>2. CASE t = NoId
    BY <1>4, <2>1, <2>2 DEF DocFits
  <2>3. CASE t # NoId
    <3>1. session.id[r] = t
      BY <1>4, <2>1, <2>3 DEF DocFits
    <3>2. session'.id[r] = t /\ (fate[t] # "none" => fate'[t] = fate[t])
      BY <1>3, <2>3, <3>1
    <3> QED BY <1>4, <2>1, <3>2 DEF DocFits
  <2> QED BY <2>2, <2>3
<1>5. AskedDone => AskedDone'
  BY <1>2, <1>3 DEF AskedDone
<1>6. (\E r \in AskedFor : Forgotten(r)) => (\E r \in AskedFor : Forgotten(r))'
  <2> SUFFICES ASSUME NEW r \in AskedFor, Forgotten(r) PROVE Forgotten(r)'
    BY <1>2
  <2>1. session.id[r] # NoId
    BY DEF Forgotten
  <2> QED BY <1>2, <1>3, <2>1
<1>7. \A b \in selections.bootstraps : DocCovers(v.doc, b) => DocCovers(v.doc, b)'
  BY DEF Forward, DocCovers
<1>8. (v.at # "idle" => session'.stored) /\ (v.at = "record" => v.status \in Ended)
  BY DEF PollFits, Forward
<1>9. v.at \in {"stats", "tasks"} =>
        /\ \A r \in Roles \ {"followup"} : DocFits(v.doc, r)'
        /\ \A b \in selections.bootstraps : DocCovers(v.doc, b)'
  BY <1>4, <1>7 DEF PollFits
<1>10. v.at = "record" /\ v.status = "completed" =>
         /\ AskedDone'
         /\ selections.sync => \/ v.early \/ selections.bootstraps \subseteq covered'
                               \/ (\E r \in AskedFor : Forgotten(r))'
  BY <1>5, <1>6 DEF PollFits, Forward
<1> QED BY <1>8, <1>9, <1>10 DEF PollFits, Forward

LEMMA PollsFitStays ==
    ASSUME IInv, PollsFit, Forward, NEW v, PollFits(v),
           \A p \in Pollers : polls'[p] = polls[p] \/ polls'[p] = v
    PROVE  PollsFit'
<1> SUFFICES ASSUME NEW p \in Pollers PROVE PollFits(polls[p])'
  BY DEF PollsFit
<1>1. PICK u : u = polls'[p]
  OBVIOUS
<1>2. PollFits(u)
  BY <1>1 DEF PollsFit
<1>3. PollFits(u)'
  BY <1>2, ForwardKeepsFits
<1> QED BY <1>1, <1>3

\* The step of a poll moves that poll only.
PollMoves(p, v) ==
    /\ p \in Pollers /\ v \in Poll /\ polls' = [polls EXCEPT ![p] = v]
    /\ UNCHANGED <<selections, tasks, starting, session, calls, work, up, fate, covered, missed,
                   overtaken, upsets>>

LEMMA PollMovesKeeps ==
    ASSUME IInv, PollsFit, NEW p, NEW v, PollMoves(p, v), PollFits(v)
    PROVE  IInv' /\ PollsFit'
<1>1. TypeOK
  BY DEF IInv
<1>2. \A u \in TaskIds : TaskMoves(u)
  BY DEF PollMoves, TaskMoves
<1>3. NothingBeforeStart' /\ StartListed'
  BY <1>2, StartStays DEF PollMoves
<1>4. CallsQuiet /\ DownIsIdle'
  BY <1>1, SameCalls DEF PollMoves, DownIsIdle, Idle, IInv
<1>5. /\ polls' \in [Pollers -> Poll]
      /\ \A q \in Pollers : polls'[q] = polls[q] \/ polls'[q] = v
  BY <1>1 DEF PollMoves, TypeOK
<1>6. IInv'
  BY <1>1, <1>2, <1>3, <1>4, <1>5, LiveStepKeeps DEF PollMoves, TypeOK
<1>7. Forward
  BY DEF PollMoves, Forward
<1> QED BY <1>5, <1>6, <1>7, PollsFitStays

LEMMA PollFacts ==
    ASSUME TypeOK, NEW p \in Pollers
    PROVE  /\ polls[p] \in Poll /\ polls[p].doc \in Session
           /\ polls[p].work \in {"idle", "busy", "failed"} /\ polls[p].status \in {"none"} \cup Ended
           /\ NoPoll \in Poll /\ NoPoll.at = "idle"
<1>1. polls[p] \in Poll
  BY DEF TypeOK
<1> QED BY <1>1, NewSessionFacts DEF Poll, NoPoll

LEMMA AbandonKeeps ==
    ASSUME IInv, PollsFit, NEW p \in Pollers, Abandon(p)
    PROVE  IInv' /\ PollsFit'
<1>1. NoPoll \in Poll /\ NoPoll.at = "idle"
  BY PollFacts DEF IInv
<1>2. PollFits(NoPoll)
  BY <1>1 DEF PollFits
<1>3. PollMoves(p, NoPoll)
  BY <1>1 DEF Abandon, PollMoves
<1> QED BY <1>2, <1>3, PollMovesKeeps

LEMMA ReadSessionKeeps ==
    ASSUME IInv, PollsFit, NEW p \in Pollers, ReadSession(p)
    PROVE  IInv' /\ PollsFit'
<1> DEFINE d == [session EXCEPT !.status = "none"]
           v == [NoPoll EXCEPT !.at = "stats", !.doc = d]
<1>1. /\ d \in Session /\ d.id = session.id /\ d.terminal = session.terminal
      /\ d.seq = session.seq /\ d.required = session.required
  BY DEF IInv, TypeOK, Session
<1> HIDE DEF d
<1>2. v \in Poll /\ v.at = "stats" /\ v.doc = d
  BY <1>1 DEF NoPoll, Poll
<1>3. PollMoves(p, v)
  BY <1>2 DEF ReadSession, PollMoves, d
<1> HIDE DEF v
<1>4. \A r \in Roles \ {"followup"} : DocFits(d, r)
  BY <1>1 DEF DocFits, IInv, SessionTruthful, NotesTrue
<1>5. \A b \in selections.bootstraps : DocCovers(d, b)
  BY <1>1 DEF DocCovers, IInv, LateIsNumberedLater
<1>6. session.stored
  BY DEF ReadSession
<1>7. PollFits(v)
  BY <1>2, <1>4, <1>5, <1>6 DEF PollFits
<1> QED BY <1>3, <1>7, PollMovesKeeps

LEMMA LoadStatsKeeps ==
    ASSUME IInv, PollsFit, NEW p \in Pollers, LoadStats(p)
    PROVE  IInv' /\ PollsFit'
<1> DEFINE v == [polls[p] EXCEPT !.at = "tasks", !.work = work]
<1>1. polls[p] \in Poll /\ PollFits(polls[p]) /\ polls[p].at = "stats"
  BY PollFacts DEF IInv, PollsFit, LoadStats
<1>2. v \in Poll /\ v.at = "tasks" /\ v.doc = polls[p].doc
  BY <1>1 DEF Poll, IInv, TypeOK
<1>3. PollMoves(p, v)
  BY <1>2, Zenon DEF LoadStats, PollMoves
<1> HIDE DEF v
<1>4. PollFits(v)
  BY <1>1, <1>2 DEF PollFits
<1> QED BY <1>3, <1>4, PollMovesKeeps

\* What a poll has loaded by its document.
View(v) ==
    v.doc \in Session /\ v.load = [r \in Roles |-> LoadTaskById(v.doc.id[r])]

\* A poll that finds the session completed has seen every asked task end.
LEMMA SeenCompleted ==
    ASSUME IInv, session.stored, NEW v, View(v), NEW behind, Completed(v, behind),
           NEW r \in AskedFor, DocFits(v.doc, r)
    PROVE  /\ session.id[r] \in TaskIds
           /\ fate[session.id[r]] = "completed" \/ Forgotten(r)
           /\ StatusSeen(v, r) = "failed" => Forgotten(r)
<1>1. r \in Roles /\ r # "followup" /\ StatusSeen(v, r) \in Ended
  BY AskedFacts, SelectionFacts DEF IInv, AskedFor, Completed, TopLevelTerminal, BootstrapsTerminal
<1>2. PICK t : t = v.doc.id[r]
  OBVIOUS
<1>3. /\ v.load[r] = LoadTaskById(t) /\ v.load[r] # "failed"
      /\ v.doc.terminal[r] \in {"none"} \cup Ended
  BY <1>1, <1>2 DEF View, Completed, FatalFailure, Session
<1>4. t # NoId
  <2> SUFFICES ASSUME t = NoId PROVE FALSE
    OBVIOUS
  <2>1. v.load[r] = "none"
    BY <1>3 DEF LoadTaskById
  <2>2. v.doc.terminal[r] = "none" /\ ~(v.doc.seq[r] > 0)
    BY <1>2 DEF DocFits
  <2> QED BY <1>1, <2>1, <2>2 DEF StatusSeen, StatusIn, Ended
<1>5. session.id[r] = t /\ t \in TaskIds
  BY <1>1, <1>2, <1>4, SessionFacts DEF DocFits, IInv
<1>6. /\ tasks[t].status \in {"pruned"} \cup Active \cup Ended /\ FateOK(t)
  BY <1>1, <1>5, <1>4, TaskFacts DEF IInv, ListedTasks, Lists, FatesRecorded
<1>7. CASE tasks[t].status = "pruned"
  <2>1. v.load[r] = "none" /\ fate[t] \in Ended
    BY <1>3, <1>6, <1>7 DEF LoadTaskById, FateOK
  <2>2. StatusSeen(v, r) = "failed" => fate[t] = "failed"
    BY <1>2, <1>3, <2>1 DEF StatusSeen, StatusIn, DocFits, Ended
  <2> QED BY <1>4, <1>5, <1>7, <2>1, <2>2 DEF Forgotten, Ended
<1>8. CASE tasks[t].status # "pruned"
  <2>1. v.load[r] = tasks[t].status /\ v.load[r] # "none"
    BY <1>3, <1>4, <1>6, <1>8 DEF LoadTaskById, Active, Ended
  <2>2. StatusSeen(v, r) = tasks[t].status
    BY <2>1 DEF StatusSeen, StatusIn
  <2>3. tasks[t].status = "completed"
    BY <1>1, <1>3, <2>1, <2>2 DEF Ended
  <2> QED BY <1>5, <1>6, <2>2, <2>3 DEF FateOK, Ended
<1> QED BY <1>7, <1>8

LEMMA SeenCovered ==
    ASSUME IInv, session.stored, NEW v, View(v), NEW behind, Completed(v, behind),
           \A r \in AskedFor : DocFits(v.doc, r), \A r \in AskedFor : ~Forgotten(r),
           v.doc.seq["initial"] > 0, NEW b \in selections.bootstraps, DocCovers(v.doc, b)
    PROVE  b \in covered
<1> SUFFICES ASSUME b \notin covered PROVE FALSE
  OBVIOUS
<1>1. b \in Bootstraps /\ b \in Roles /\ Selected(b) /\ b \in AskedFor
  BY SelectionFacts, RoleFacts, AskedFacts DEF IInv, Selected
<1>2. StatusSeen(v, b) # "failed"
  BY <1>1, SeenCompleted
<1>3. v.doc.required /\ ~FollowUpPending(v) /\ ~Outstanding(v, b) /\ ~NeedsFollowUpIn(v.doc, v.load[b], b)
  BY <1>1 DEF DocCovers, Completed, FollowUpPending
<1>4. v.doc.seq \in [Roles -> Nat]
  BY DEF View, Session
<1>5. v.doc.seq[b] > 0
  <2>1. v.doc.seq[b] # 0
    BY <1>1, <1>2, <1>3 DEF Outstanding
  <2> QED BY <1>1, <1>4, <2>1
<1>6. v.doc.seq[b] > v.doc.seq["initial"] /\ v.doc.seq[b] > v.doc.seq["followup"]
  BY <1>5 DEF DocCovers
<1>7. v.doc.seq["initial"] \in Nat /\ v.doc.seq["followup"] \in Nat /\ v.doc.seq[b] \in Nat
  BY <1>1, <1>4, RoleFacts
<1>8. /\ LatestSyncIn(v.doc) \in {v.doc.seq["initial"], v.doc.seq["followup"]}
      /\ LatestSyncIn(v.doc) >= v.doc.seq["initial"]
  BY <1>7, LatestSyncFacts
<1>9. LatestSyncIn(v.doc) > 0 /\ v.doc.seq[b] > LatestSyncIn(v.doc)
  BY <1>6, <1>7, <1>8
<1> QED BY <1>1, <1>2, <1>3, <1>5, <1>9 DEF NeedsFollowUpIn, StatusSeen

LEMMA LoadTasksKeeps ==
    ASSUME IInv, PollsFit, NEW p \in Pollers, LoadTasks(p)
    PROVE  IInv' /\ PollsFit'
<1> DEFINE view == [doc |-> polls[p].doc, work |-> polls[p].work,
                    load |-> [r \in Roles |-> LoadTaskById(polls[p].doc.id[r])]]
<1>1. PICK behind \in BOOLEAN, status \in Ended :
        /\ IF status = "completed" THEN Completed(view, behind) ELSE Failed(view)
        /\ polls' = [polls EXCEPT ![p] = [NoPoll EXCEPT !.at = "record", !.status = status,
                                                        !.early = view.doc.seq["initial"] = 0]]
  BY DEF LoadTasks
<1>2. /\ polls[p].at = "tasks"
      /\ UNCHANGED <<selections, tasks, starting, session, calls, work, up, fate, covered, missed,
                     overtaken, upsets>>
  BY DEF LoadTasks
<1>3. polls[p].doc \in Session /\ PollFits(polls[p])
  BY PollFacts DEF IInv, PollsFit
<1>4. View(view) /\ view.doc = polls[p].doc
  BY <1>3 DEF View
<1> DEFINE early == view.doc.seq["initial"] = 0
           v == [NoPoll EXCEPT !.at = "record", !.status = status, !.early = early]
<1>5. early \in BOOLEAN /\ (~early => view.doc.seq["initial"] > 0)
  BY <1>3, <1>4, RoleFacts DEF Session
<1> HIDE DEF view
<1>6. polls' = [polls EXCEPT ![p] = v]
  BY <1>1
<1> HIDE DEF early
<1>7. v \in Poll /\ v.at = "record" /\ v.status = status /\ v.early = early
  BY <1>5, NewSessionFacts DEF NoPoll, Poll
<1> HIDE DEF v
<1>8. PollMoves(p, v)
  BY <1>2, <1>6, <1>7 DEF PollMoves
<1>9. /\ session.stored /\ \A r \in AskedFor : DocFits(view.doc, r)
      /\ \A b \in selections.bootstraps : DocCovers(view.doc, b)
  BY <1>2, <1>3, <1>4, AskedFacts DEF PollFits, IInv
<1>10. status = "completed" => AskedDone
  BY <1>1, <1>4, <1>9, SeenCompleted, ThreadFacts DEF AskedDone
<1>11. ASSUME status = "completed", ~early, \A r \in AskedFor : ~Forgotten(r)
       PROVE  selections.bootstraps \subseteq covered
  <2> SUFFICES ASSUME NEW b \in selections.bootstraps PROVE b \in covered
    OBVIOUS
  <2>1. Completed(view, behind) /\ view.doc.seq["initial"] > 0 /\ DocCovers(view.doc, b)
    BY <1>1, <1>5, <1>9, <1>11
  <2> QED BY <1>4, <1>9, <1>11, <2>1, SeenCovered
<1>12. PollFits(v)
  BY <1>7, <1>9, <1>10, <1>11 DEF PollFits
<1> QED BY <1>8, <1>12, PollMovesKeeps

\* The status is recorded in the session as it is by then.
LEMMA RecordStatusKeeps ==
    ASSUME IInv, PollsFit, NEW p \in Pollers, RecordStatus(p)
    PROVE  IInv' /\ PollsFit'
<1> USE DEF IInv
<1> DEFINE v == polls[p]
           end == v.status
<1>1. /\ v.at = "record" /\ v \in Poll /\ end \in {"none"} \cup Ended /\ PollFits(v)
      /\ NoPoll \in Poll /\ NoPoll.at = "idle"
  BY PollFacts DEF RecordStatus, PollsFit
<1>2. /\ session' = [session EXCEPT !.status = end]
      /\ overtaken' = (overtaken \/ (end = "completed" /\ v.early /\ session.seq["initial"] > 0))
      /\ polls' = [polls EXCEPT ![p] = NoPoll]
      /\ UNCHANGED <<selections, tasks, starting, calls, work, up, fate, covered, missed, upsets>>
  BY DEF RecordStatus
<1>3. /\ session.stored /\ end \in Ended
      /\ end = "completed" =>
           /\ AskedDone
           /\ selections.sync => \/ v.early \/ selections.bootstraps \subseteq covered
                                 \/ \E r \in AskedFor : Forgotten(r)
  BY <1>1 DEF PollFits
<1>4. v.early \in BOOLEAN
  BY <1>1 DEF Poll
<1> HIDE DEF v
<1>5. /\ session' \in Session /\ session'.status = end
      /\ session'.id = session.id /\ session'.terminal = session.terminal
      /\ session'.seq = session.seq /\ session'.stored = session.stored
      /\ session'.required = session.required /\ session'.next = session.next
  BY <1>1, <1>2 DEF Session, TypeOK
<1>6. polls' \in [Pollers -> Poll] /\ overtaken' \in BOOLEAN
  BY <1>1, <1>2 DEF TypeOK
<1>7. TypeOK'
  BY <1>2, <1>5, <1>6 DEF TypeOK
<1>8. NothingBeforeStart' /\ StartListed'
  <2>1. starting.step = "over"
    BY <1>3, StoredIsOver
  <2> QED BY <1>2, <1>3, <1>5, <2>1 DEF NothingBeforeStart, StartListed
<1>9. FatesRecorded' /\ DownIsIdle' /\ CalledOnce'
  BY <1>2 DEF FatesRecorded, FateOK, DownIsIdle, Idle, CalledOnce
<1>10. ListedTasks' /\ RolesFilled' /\ SessionTruthful'
  BY <1>2, <1>3, <1>5 DEF ListedTasks, Lists, RolesFilled, InitialRoles, StartRole, SessionTruthful,
     NotesTrue, Ended
<1>11. CallsFit'
  BY <1>2, <1>5 DEF CallsFit, CallFits, InitialOver
<1>12. ASSUME NEW t PROVE Applying(t)' <=> Applying(t)
  BY <1>2 DEF Applying
<1>13. CompletionsSeen'
  BY <1>2, <1>5, <1>12 DEF CompletionsSeen, Noted
<1>14. LateIsNumberedLater' /\ IngestIsStaged'
  BY <1>2, <1>5 DEF LateIsNumberedLater, IngestIsStaged, InCall
<1>15. AskedFor' = AskedFor /\ \A r \in AskedFor : Forgotten(r)' <=> Forgotten(r)
  BY <1>2, <1>5 DEF AskedFor, Forgotten
<1>16. CompletedIsTrue'
  BY <1>2, <1>3, <1>5, <1>15 DEF CompletedIsTrue, AskedDone
<1>17. CoveredOrOvertaken'
  <2>1. overtaken' => session'.seq["initial"] > 0
    BY <1>2, <1>5 DEF CoveredOrOvertaken
  <2> SUFFICES ASSUME end = "completed", selections.sync, ~overtaken', ~missed,
                      \A r \in AskedFor : ~Forgotten(r), ~Applying(session.id["initial"])
               PROVE  selections.bootstraps \subseteq covered
    BY <1>2, <1>5, <1>15, <2>1 DEF CoveredOrOvertaken, Applying
  <2>2. PICK t : t = session.id["initial"]
    OBVIOUS
  <2>3. t \in TaskIds /\ fate[t] = "completed"
    BY <1>3, <2>2, AskedFacts, SessionFacts DEF AskedDone
  <2>4. session.seq["initial"] > 0
    BY <2>2, <2>3 DEF CompletionsSeen, Noted
  <2> QED BY <1>2, <1>3, <2>4
<1>18. DueIsChecked'
  <2>1. Due' => Due
    BY <1>2, <1>5 DEF Due, NothingFailed, SyncTerminal, Status, StatusIn, Loaded, LoadTaskById,
       NeedsFollowUp, NeedsFollowUpIn, Selected, LatestSyncIn
  <2>2. ReplacedFailure => ReplacedFailure'
    BY <1>2, <1>5 DEF ReplacedFailure, RolesOf
  <2> QED BY <1>2, <2>1, <2>2 DEF DueIsChecked, SyncActive, InCall
<1>19. PollsFit'
  <2>1. Forward
    BY <1>2, <1>5 DEF Forward
  <2>2. \A q \in Pollers : polls'[q] = polls[q] \/ polls'[q] = NoPoll
    BY <1>2 DEF TypeOK
  <2>3. PollFits(NoPoll)
    BY <1>1 DEF PollFits
  <2> QED BY <2>1, <2>2, <2>3, PollsFitStays
<1> QED BY <1>7, <1>8, <1>9, <1>10, <1>11, <1>13, <1>14, <1>16, <1>17, <1>18, <1>19
\* Retention comes when no call runs, and leaves what the session protects.
LEMMA PruneTaskKeeps ==
    ASSUME IInv, NEW t \in TaskIds, PruneTask(t)
    PROVE  IInv'
<1> USE DEF IInv
<1>1. /\ up /\ starting.step = "over" /\ tasks[t].status \in Ended /\ ~Protected(t)
      /\ \A th \in Threads : DOMAIN calls[th] = {}
      /\ UNCHANGED <<selections, starting, session, calls, work, pollVars, up, fate, covered, missed, upsets>>
  BY IdleFacts DEF PruneTask, TypeOK
<1>2. /\ tasks' \in [TaskIds -> Task]
      /\ tasks'[t].status = "pruned" /\ tasks'[t].kind = tasks[t].kind
      /\ \A u \in TaskIds : u # t => tasks'[u] = tasks[u]
  BY TaskChanged DEF PruneTask
<1>3. \A r \in Roles : session.id[r] \in TaskIds \cup {NoId}
  BY SessionFacts
<1>4. TypeOK'
  BY <1>1, <1>2 DEF TypeOK
<1>5. NothingBeforeStart' /\ StartListed' /\ DownIsIdle'
  BY <1>1 DEF NothingBeforeStart, StartListed, DownIsIdle
<1>6. FatesRecorded'
  BY <1>1, <1>2 DEF FatesRecorded, FateOK, Active, Ended
<1>7. session.stored /\ session.status = "none" => \A r \in Roles : session.id[r] # t
  BY <1>1 DEF Protected
<1>8. ListedTasks'
  BY <1>1, <1>2, <1>3, <1>7 DEF ListedTasks, Lists, Keeps
<1>9. RolesFilled' /\ SessionTruthful' /\ LateIsNumberedLater'
  BY <1>1 DEF RolesFilled, InitialRoles, StartRole, SessionTruthful, NotesTrue, LateIsNumberedLater
<1>10. CallsFit' /\ CalledOnce'
  BY <1>1 DEF CallsFit, CalledOnce
<1>11. CompletionsSeen' /\ IngestIsStaged'
  BY <1>1 DEF CompletionsSeen, Noted, Applying, IngestIsStaged, InCall
<1>12. AskedFor' = AskedFor /\ AskedFor \subseteq Roles
  BY <1>1, SelectionFacts, RoleFacts DEF AskedFor
<1>13. \A r \in Roles : Forgotten(r) => Forgotten(r)'
  BY <1>1, <1>2, <1>3 DEF Forgotten
<1>14. CompletedIsTrue' /\ CoveredOrOvertaken'
  <2>1. CompletedIsTrue'
    BY <1>1, <1>12, <1>13 DEF CompletedIsTrue
  <2>2. Applying(session.id["initial"])' <=> Applying(session.id["initial"])
    BY <1>1 DEF Applying
  <2>3. CoveredOrOvertaken'
    BY <1>1, <1>12, <1>13, <2>2 DEF CoveredOrOvertaken
  <2> QED BY <2>1, <2>3
<1>15. DueIsChecked'
  <2> SUFFICES ASSUME Due' PROVE (missed \/ ReplacedFailure \/ SyncActive)'
    BY DEF DueIsChecked
  <2>1. \A r \in Roles : session.id[r] # t => Status(r)' = Status(r)
    BY <1>1, <1>2, <1>3 DEF Status, StatusIn, Loaded, LoadTaskById
  <2>2. \A r \in Roles : session.id[r] = t => Status(r) \in Ended
    BY <1>1, ThreadFacts DEF Status, StatusIn, Loaded, LoadTaskById, Ended
  <2>3. Due
    <3>1. SyncTerminal /\ NothingFailed
      BY <1>1, <2>1, <2>2, RoleFacts DEF Due, SyncTerminal, NothingFailed
    <3>2. PICK b \in Bootstraps : NeedsFollowUp(b)'
      BY DEF Due
    <3>3. NeedsFollowUp(b)
      BY <1>1, <3>1, <3>2, FollowUpStays
    <3> QED BY <1>1, <3>1, <3>3 DEF Due
  <2>5. missed \/ ReplacedFailure \/ SyncActive
    BY <1>1, <2>3 DEF DueIsChecked, InCall
  <2>6. ReplacedFailure => ReplacedFailure'
    BY <1>1, <1>2 DEF ReplacedFailure, RolesOf
  <2>7. SyncActive => SyncActive'
    BY <1>1, <1>2 DEF SyncActive, Active, Ended
  <2> QED BY <1>1, <2>5, <2>6, <2>7
<1> QED BY <1>4, <1>5, <1>6, <1>8, <1>9, <1>10, <1>11, <1>14, <1>15

\* A task ends and its end is on its way to the session.
LEMMA EndedTaskKeeps ==
    ASSUME IInv, NEW t \in TaskIds, NEW th \in {t, Api}, NEW status \in Ended,
           up, Idle(th), tasks[t].status \in Active, PublishEnd(th, t, status),
           tasks' = [tasks EXCEPT ![t].status = status], fate' = [fate EXCEPT ![t] = status],
           work' \in {"idle", "busy", "failed"}, upsets' \in 0 .. MaxUpsets,
           UNCHANGED <<selections, starting, session, pollVars, up, covered, missed>>
    PROVE  IInv'
<1> USE DEF IInv
<1> DEFINE c == [at |-> "apply", task |-> t, status |-> status]
<1>1. th \in Threads /\ c \in Call /\ c.at = "apply" /\ c.task = t /\ c.status = status
  BY ThreadFacts DEF Call
<1>2. calls' = [calls EXCEPT ![th] = <<c>>]
  BY DEF PublishEnd
<1> HIDE DEF c
<1>3. /\ calls' \in [Threads -> Seq(Call)]
      /\ DOMAIN calls[th] = {} /\ DOMAIN calls'[th] = {1} /\ calls'[th][1] = c
      /\ \A u \in Threads : u # th => calls'[u] = calls[u]
  BY <1>1, <1>2, CallPublished DEF TypeOK
<1>4. /\ tasks' \in [TaskIds -> Task]
      /\ tasks'[t].status = status /\ tasks'[t].kind = tasks[t].kind
      /\ \A u \in TaskIds : u # t => tasks'[u] = tasks[u]
  BY TaskChanged
<1>5. /\ fate' \in [TaskIds -> {"none"} \cup Ended]
      /\ fate'[t] = status /\ \A u \in TaskIds : u # t => fate'[u] = fate[u]
  BY DEF TypeOK
<1>6. TypeOK'
  BY <1>3, <1>4, <1>5 DEF TypeOK
<1>7. fate[t] = "none" /\ tasks[t].status \notin Gone
  BY DEF FatesRecorded, FateOK, Gone, Active, Ended
<1>8. \A r \in Roles : session.id[r] \in TaskIds \cup {NoId}
  BY SessionFacts
<1>9. \A u \in TaskIds : tasks[u].status # "absent" =>
         /\ tasks'[u].kind = tasks[u].kind /\ tasks'[u].status # "absent"
         /\ tasks[u].status # "pruned" => tasks'[u].status # "pruned"
         /\ tasks[u].status \in Active \cup Ended => tasks'[u].status \in Active \cup Ended
         /\ tasks[u].status \in Gone => tasks'[u].status = tasks[u].status
  BY <1>4, <1>7 DEF Active, Ended, Gone
<1>10. NothingBeforeStart' /\ DownIsIdle'
  BY DEF NothingBeforeStart, InitialRoles, StartRole, DownIsIdle
<1>11. StartListed' /\ ListedTasks'
  <2>1. \A r \in Roles : starting.id[r] \in TaskIds \cup {NoId}
    BY DEF TypeOK
  <2> QED BY <1>8, <1>9, <2>1 DEF StartListed, ListedTasks, Lists, Keeps
<1>12. FatesRecorded'
  BY <1>4, <1>5 DEF FatesRecorded, FateOK, Active, Ended
<1>13. RolesFilled' /\ LateIsNumberedLater'
  BY DEF RolesFilled, InitialRoles, StartRole, LateIsNumberedLater
<1>14. \A r \in Roles : session.id[r] = t =>
          /\ session.terminal[r] = "none"
          /\ r # "followup" => session.seq[r] = 0
  BY <1>7, SessionFacts DEF SessionTruthful, NotesTrue, Ended
<1>15. SessionTruthful'
  BY <1>5, <1>8, <1>14 DEF SessionTruthful, NotesTrue
<1>16. InitialOver => InitialOver'
  <2> HAVE InitialOver
  <2>1. selections.sync => session.id["initial"] \in TaskIds
    BY <1>8, RoleFacts DEF InitialOver, RolesFilled, InitialRoles, StartRole
  <2> QED BY <1>9, <2>1 DEF InitialOver, Gone, Ended
<1>17. CallsFit'
  <2> SUFFICES ASSUME NEW u \in Threads, NEW i \in DOMAIN calls'[u]
               PROVE  CallFits(u, i, calls[u][i])'
    BY DEF CallsFit
  <2>1. CASE u = th
    <3>1. i = 1 /\ calls'[u][i] = c
      BY <1>3, <2>1
    <3>2. \A r \in {"initial"} \cup Bootstraps : session.id[r] = t => session.seq[r] = 0
      BY <1>14, RoleFacts
    <3> QED BY <1>1, <1>4, <2>1, <3>1, <3>2 DEF CallFits, Staging
  <2>2. CASE u # th
    <3>1. /\ i \in DOMAIN calls[u] /\ calls'[u][i] = calls[u][i]
          /\ CallFits(u, i, calls[u][i])
      BY <1>3, <2>2 DEF CallsFit
    <3>2. PICK d : d = calls[u][i]
      OBVIOUS
    <3>3. CallFits(u, i, d) => CallFits(u, i, d)'
      BY <1>9, <1>16 DEF CallFits, Gone, Active, Ended
    <3> QED BY <3>1, <3>2, <3>3
  <2> QED BY <2>1, <2>2
<1>18. CalledOnce'
  <2>1. ASSUME NEW u \in Threads, NEW i \in DOMAIN calls'[u], u # th
        PROVE  /\ i \in DOMAIN calls[u] /\ calls'[u][i] = calls[u][i]
               /\ calls'[u][i].at = "apply" => calls'[u][i].task # t
    <3>1. i \in DOMAIN calls[u] /\ calls'[u][i] = calls[u][i]
      BY <1>3, <2>1
    <3>2. CallFits(u, i, calls[u][i])
      BY <3>1 DEF CallsFit
    <3> QED BY <1>7, <3>1, <3>2 DEF CallFits, Gone
  <2>2. \A i \in DOMAIN calls'[th] :
           i = 1 /\ calls'[th][i].at = "apply" /\ calls'[th][i].at \notin Staging /\ calls'[th][i].task = t
    BY <1>1, <1>3 DEF Staging
  <2> SUFFICES ASSUME NEW u \in Threads, NEW v \in Threads,
                      NEW i \in DOMAIN calls'[u], NEW j \in DOMAIN calls'[v],
                      \/ calls'[u][i].at = "apply" /\ calls'[v][j].at = "apply"
                           /\ calls'[u][i].task = calls'[v][j].task
                      \/ calls'[u][i].at \in Staging /\ calls'[v][j].at \in Staging
               PROVE  u = v /\ i = j
    BY DEF CalledOnce
  <2>3. CASE u = th
    BY <2>1, <2>2, <2>3
  <2>4. CASE v = th
    BY <2>1, <2>2, <2>4
  <2>5. CASE u # th /\ v # th
    BY <2>1, <2>5 DEF CalledOnce
  <2> QED BY <2>3, <2>4, <2>5
<1>19. Applying(t)' /\ \A u : Applying(u) => Applying(u)'
  BY <1>1, <1>3 DEF Applying
<1>20. CompletionsSeen'
  BY <1>5, <1>19 DEF CompletionsSeen, Noted
<1>21. IngestIsStaged' /\ DueIsChecked'
  <2>1. InCall(Staging) => InCall(Staging)'
    BY <1>3 DEF InCall
  <2>2. InCall(WillCheck)'
    BY <1>1, <1>3 DEF InCall, WillCheck
  <2> QED BY <2>1, <2>2 DEF IngestIsStaged, DueIsChecked
<1>22. AskedFor' = AskedFor /\ AskedFor \subseteq Roles
  BY SelectionFacts, RoleFacts DEF AskedFor
<1>23. \A r \in Roles : Forgotten(r) => Forgotten(r)'
  BY <1>4, <1>5, <1>7, <1>8 DEF Forgotten, Gone
<1>24. CompletedIsTrue'
  BY <1>5, <1>7, <1>8, <1>22, <1>23 DEF CompletedIsTrue
<1>25. CoveredOrOvertaken'
  <2> SUFFICES ASSUME session.status = "completed", selections.sync, ~overtaken, ~missed
               PROVE  \/ selections.bootstraps \subseteq covered
                      \/ \E r \in AskedFor : Forgotten(r)'
                      \/ Applying(session.id["initial"])'
    BY <1>22 DEF CoveredOrOvertaken, Applying
  <2>1. \/ selections.bootstraps \subseteq covered
        \/ \E r \in AskedFor : Forgotten(r)
        \/ Applying(session.id["initial"])
    BY DEF CoveredOrOvertaken, Applying
  <2> QED BY <1>19, <1>22, <1>23, <2>1
<1> QED BY <1>6, <1>10, <1>11, <1>12, <1>13, <1>15, <1>17, <1>18, <1>20, <1>21, <1>24, <1>25

LEMMA FinishTaskKeeps ==
    ASSUME IInv, NEW t \in TaskIds, NEW status \in Ended, FinishTask(t, status)
    PROVE  IInv'
<1>1. TypeOK
  BY DEF IInv
<1>2. work' \in {"idle", "busy", "failed"} /\ upsets' \in 0 .. MaxUpsets
  BY <1>1, UpsetTyped DEF FinishTask, TypeOK
<1> QED BY <1>2, EndedTaskKeeps DEF FinishTask, Executing, Active

LEMMA CancelTaskKeeps ==
    ASSUME IInv, NEW t \in TaskIds, CancelTask(t)
    PROVE  IInv'
<1>1. TypeOK
  BY DEF IInv
<1>2. work' \in {"idle", "busy", "failed"} /\ upsets' \in 0 .. MaxUpsets
  BY <1>1, UpsetTyped DEF CancelTask, TypeOK
<1> QED BY <1>2, EndedTaskKeeps DEF CancelTask, Active, Ended

-----------------------------------------------------------------------------
(* The steps of a call. *)

LEMMA CallFaultKeeps ==
    ASSUME IInv, NEW th \in Threads, CallFault(th)
    PROVE  IInv'
<1>1. TypeOK
  BY DEF IInv
<1>2. \A u \in TaskIds : TaskMoves(u)
  BY DEF CallFault, TaskMoves
<1>3. /\ calls' \in [Threads -> Seq(Call)]
      /\ \A u \in Threads : u # th => calls'[u] = calls[u]
      /\ DOMAIN calls'[th] \subseteq DOMAIN calls[th]
      /\ \A i \in DOMAIN calls'[th] : calls'[th][i] = calls[th][i]
  BY <1>1, TopRemoved DEF CallFault, TypeOK
<1>4. OldApplies /\ OldStaging /\ NewCallsFit
  BY <1>3 DEF OldApplies, OldStaging, NewCallsFit, OldCall
<1>5. TypeOK'
  BY <1>1, <1>3, UpsetTyped DEF CallFault, TypeOK
<1>6. NothingBeforeStart' /\ StartListed'
  BY <1>2, StartStays DEF CallFault
<1>7. missed' /\ DueIsChecked'
  BY DEF CallFault, DueIsChecked
<1>8. DownIsIdle'
  BY DEF CallFault, IInv, DownIsIdle, Idle
<1> QED BY <1>2, <1>4, <1>5, <1>6, <1>7, <1>8, QuietStepKeeps DEF CallFault

LEMMA CrashKeeps ==
    ASSUME IInv, Crash
    PROVE  IInv'
<1>1. TypeOK
  BY DEF IInv
<1>2. \A u \in TaskIds : TaskMoves(u)
  BY DEF Crash, TaskMoves
<1>3. /\ calls' \in [Threads -> Seq(Call)]
      /\ \A u \in Threads : calls'[u] = <<>> /\ DOMAIN calls'[u] = {}
  <2>1. calls' = [u \in Threads |-> <<>>] /\ <<>> \in Seq(Call) /\ DOMAIN <<>> = {}
    BY DEF Crash
  <2> QED BY <2>1
<1>4. OldApplies /\ OldStaging /\ NewCallsFit
  BY <1>3 DEF OldApplies, OldStaging, NewCallsFit
<1>5. starting' \in [step : Steps, id : [Roles -> TaskIds \cup {NoId}]] /\ starting'.step = "over"
  BY <1>1 DEF Crash, TypeOK, Steps
<1>6. TypeOK'
  BY <1>1, <1>3, <1>5, UpsetTyped DEF Crash, TypeOK
<1>7. NothingBeforeStart' /\ StartListed'
  BY <1>5 DEF Crash, IInv, NothingBeforeStart, StartListed
<1>8. DownIsIdle'
  BY <1>3 DEF DownIsIdle, Idle
<1>9. CASE missed'
  BY <1>2, <1>4, <1>6, <1>7, <1>8, <1>9, QuietStepKeeps DEF Crash, DueIsChecked
<1>10. CASE ~missed'
  <2>1. \A u \in Threads : DOMAIN calls[u] = {}
    BY <1>1, <1>10, IdleFacts DEF Crash, TypeOK, Idle
  <2>2. AppliesStay /\ StagingStays /\ ChecksStay
    BY <2>1 DEF AppliesStay, StagingStays, ChecksStay, InCall
  <2>3. missed' = missed
    BY <1>1, <1>6, <1>10 DEF Crash, TypeOK
  <2>4. DueIsChecked'
    BY <1>2, <2>2, <2>3, DueStays DEF Crash
  <2> QED BY <1>2, <1>4, <1>6, <1>7, <1>8, <2>2, <2>3, <2>4, QuietStepKeeps DEF Crash
<1> QED BY <1>9, <1>10

\* A call returns because nothing is due, or because a follow-up sync runs
\* whose end will be looked at.
LEMMA CheckFollowUpKeeps ==
    ASSUME IInv, NEW th \in Threads, CheckFollowUp(th)
    PROVE  IInv'
<1>1. TypeOK /\ calls \in [Threads -> Seq(Call)]
  BY DEF IInv, TypeOK
<1>2. PICK n : n = Len(calls[th])
  OBVIOUS
<1>3. /\ calls[th] # <<>> /\ n \in DOMAIN calls[th] /\ calls[th][n].at = "check"
      /\ UNCHANGED <<selections, tasks, starting, session, work, pollVars, up, fate, covered, missed, upsets>>
  BY <1>1, <1>2, IdleFacts DEF CheckFollowUp, Idle
<1>4. \A u \in TaskIds : TaskMoves(u)
  BY <1>3 DEF TaskMoves
<1>5. NothingBeforeStart' /\ StartListed'
  BY <1>3, <1>4, StartStays
<1>6. DownIsIdle'
  BY <1>3 DEF IInv, DownIsIdle, Idle
<1>7. CASE FollowUpDue
  <2>1. calls' = [calls EXCEPT ![th][n] = At("enqueue")]
    BY <1>2, <1>7 DEF CheckFollowUp, Goto
  <2>2. At("enqueue") \in Call /\ At("enqueue").at = "enqueue"
    BY CallFacts
  <2>3. /\ calls' \in [Threads -> Seq(Call)]
        /\ \A u \in Threads : DOMAIN calls'[u] = DOMAIN calls[u]
        /\ calls'[th][n].at = "enqueue"
        /\ \A u \in Threads : \A i \in DOMAIN calls[u] :
              (u # th \/ i # n) => calls'[u][i] = calls[u][i]
    BY <1>1, <1>2, <1>3, <2>1, <2>2, TopReplaced
  <2>4. InitialOver'
    BY <1>3, <1>4, <1>7, SyncOver, MovedTasks DEF FollowUpDue
  <2>5. CallFits(th, n, calls[th][n])'
    BY <2>3, <2>4 DEF CallFits, Staging
  <2>6. OldApplies /\ OldStaging /\ NewCallsFit
    BY <1>3, <2>3, <2>5 DEF OldApplies, OldStaging, NewCallsFit, OldCall, Staging
  <2>7. AppliesStay /\ StagingStays /\ ChecksStay
    BY <1>3, <2>3 DEF AppliesStay, StagingStays, ChecksStay, InCall, Staging, WillCheck
  <2> QED BY <1>1, <1>3, <1>4, <1>5, <1>6, <2>3, <2>6, <2>7, LiveStepKeeps DEF CallsQuiet, TypeOK
<1>8. CASE ~FollowUpDue
  <2>1. Return(th)
    BY <1>8 DEF CheckFollowUp
  <2>2. /\ calls' \in [Threads -> Seq(Call)]
        /\ \A u \in Threads : u # th => calls'[u] = calls[u]
        /\ DOMAIN calls'[th] = DOMAIN calls[th] \ {n}
        /\ \A i \in DOMAIN calls'[th] : calls'[th][i] = calls[th][i]
    BY <1>1, <1>2, <1>3, <2>1, TopRemoved
  <2>3. OldApplies /\ OldStaging /\ NewCallsFit
    BY <2>2 DEF OldApplies, OldStaging, NewCallsFit, OldCall
  <2>4. AppliesStay /\ StagingStays
    BY <1>3, <2>2 DEF AppliesStay, StagingStays, InCall, Staging
  <2>5. TypeOK'
    BY <1>1, <1>3, <2>2 DEF TypeOK
  <2>6. Due => SyncActive
    <3> HAVE Due
    <3>1. Loaded("followup") = "running"
      BY <1>8, NothingFailedStatus DEF Due, FollowUpDue
    <3>2. PICK t : t = session.id["followup"]
      OBVIOUS
    <3>3. t \in TaskIds \cup {NoId} /\ t # NoId
      BY <1>1, <3>1, <3>2, SessionFacts, RoleFacts DEF Loaded, LoadTaskById
    <3>4. tasks[t].kind = "sync" /\ tasks[t].status = "running"
      BY <3>1, <3>2, <3>3, RoleFacts DEF Loaded, LoadTaskById, IInv, ListedTasks, Lists, KindOf
    <3> QED BY <3>3, <3>4 DEF SyncActive, Active
  <2>7. Due' = Due /\ SyncActive' = SyncActive
    BY <1>3 DEF Due, NothingFailed, SyncTerminal, Status, StatusIn, Loaded, LoadTaskById, NeedsFollowUp, NeedsFollowUpIn, Selected, LatestSyncIn, SyncActive
  <2>8. DueIsChecked'
    BY <2>6, <2>7 DEF DueIsChecked
  <2> QED BY <1>3, <1>4, <1>5, <1>6, <2>3, <2>4, <2>5, <2>8, QuietStepKeeps
<1> QED BY <1>7, <1>8

LEMMA StageIngestKeeps ==
    ASSUME IInv, NEW th \in Threads, StageIngest(th)
    PROVE  IInv'
<1>1. TypeOK /\ calls \in [Threads -> Seq(Call)]
  BY DEF IInv, TypeOK
<1>2. PICK n : n = Len(calls[th])
  OBVIOUS
<1>3. /\ calls[th] # <<>> /\ n \in DOMAIN calls[th] /\ calls[th][n].at = "stage"
      /\ UNCHANGED <<selections, starting, session, work, pollVars, up, fate, covered, missed, upsets>>
  BY <1>1, <1>2, IdleFacts DEF StageIngest, Idle
<1>4. PICK t \in TaskIds : EnqueueTask("ingest", t) /\ Enqueued(th, t, "staged")
  BY DEF StageIngest
<1>5. /\ tasks' \in [TaskIds -> Task] /\ \A u \in TaskIds : TaskMoves(u)
      /\ tasks'[t].kind = "ingest" /\ tasks'[t].status \in Active
  BY <1>1, <1>4, EnqueuedTask DEF Kinds
<1>6. /\ calls' \in [Threads -> Seq(Call)]
      /\ \A u \in Threads : u # th => calls'[u] = calls[u]
      /\ DOMAIN calls[th] \subseteq DOMAIN calls'[th]
      /\ \A i \in DOMAIN calls[th] : i # n => calls'[th][i] = calls[th][i]
      /\ calls'[th][n].at = "staged" /\ calls'[th][n].task = t
      /\ \A i \in DOMAIN calls'[th] \ DOMAIN calls[th] : calls'[th][i].at = "enqueue" /\ FollowUpDue'
  BY <1>1, <1>2, <1>3, <1>4, CallEnqueued
<1>7. CallFits(th, n, calls[th][n])'
  <2>1. CallFits(th, n, calls[th][n])
    BY <1>3 DEF IInv, CallsFit
  <2> QED BY <1>3, <1>5, <1>6, <2>1 DEF CallFits, Staging
<1>8. ASSUME NEW i \in DOMAIN calls'[th] \ DOMAIN calls[th]
      PROVE  CallFits(th, i, calls[th][i])'
  <2>1. InitialOver'
    BY <1>3, <1>5, <1>6, <1>8, DueInitialOver
  <2> QED BY <1>6, <1>8, <2>1 DEF CallFits, Staging
<1>9. OldApplies /\ OldStaging /\ NewCallsFit
  BY <1>3, <1>6, <1>7, <1>8 DEF OldApplies, OldStaging, NewCallsFit, OldCall, Staging
<1>10. AppliesStay /\ StagingStays /\ ChecksStay
  BY <1>3, <1>6 DEF AppliesStay, StagingStays, ChecksStay, InCall, Staging, WillCheck
<1>11. NothingBeforeStart' /\ StartListed'
  BY <1>3, <1>5, StartStays
<1>12. DownIsIdle'
  BY <1>3 DEF IInv, DownIsIdle, Idle
<1> QED BY <1>1, <1>3, <1>5, <1>6, <1>9, <1>10, <1>11, <1>12, LiveStepKeeps DEF CallsQuiet, TypeOK

\* The task of a new follow-up sync is active, so it is not the initial one.
LEMMA EnqueueFollowUpKeeps ==
    ASSUME IInv, NEW th \in Threads, EnqueueFollowUp(th)
    PROVE  IInv'
<1>1. TypeOK /\ calls \in [Threads -> Seq(Call)]
  BY DEF IInv, TypeOK
<1>2. PICK n : n = Len(calls[th])
  OBVIOUS
<1>3. /\ calls[th] # <<>> /\ n \in DOMAIN calls[th] /\ calls[th][n].at = "enqueue"
      /\ UNCHANGED <<selections, starting, session, work, pollVars, up, fate, covered, missed, upsets>>
  BY <1>1, <1>2, IdleFacts DEF EnqueueFollowUp, Idle
<1>4. PICK t \in TaskIds : EnqueueTask("sync", t) /\ Enqueued(th, t, "set")
  BY DEF EnqueueFollowUp
<1>5. /\ tasks' \in [TaskIds -> Task] /\ \A u \in TaskIds : TaskMoves(u)
      /\ tasks[t].status \in {"absent"} \cup Active
      /\ tasks'[t].kind = "sync" /\ tasks'[t].status \in Active
  BY <1>1, <1>4, EnqueuedTask DEF Kinds
<1>6. /\ calls' \in [Threads -> Seq(Call)]
      /\ \A u \in Threads : u # th => calls'[u] = calls[u]
      /\ DOMAIN calls[th] \subseteq DOMAIN calls'[th]
      /\ \A i \in DOMAIN calls[th] : i # n => calls'[th][i] = calls[th][i]
      /\ calls'[th][n].at = "set" /\ calls'[th][n].task = t
      /\ \A i \in DOMAIN calls'[th] \ DOMAIN calls[th] : calls'[th][i].at = "enqueue" /\ FollowUpDue'
  BY <1>1, <1>2, <1>3, <1>4, CallEnqueued
<1>7. CallFits(th, n, calls[th][n])'
  <2>1. InitialOver
    BY <1>3 DEF IInv, CallsFit, CallFits
  <2>2. InitialOver'
    BY <1>3, <1>5, <2>1, MovedTasks
  <2>3. t # session.id["initial"]
    <3>1. CASE selections.sync
      BY <1>5, <2>1, <3>1 DEF InitialOver, Gone, Active, Ended
    <3>2. CASE ~selections.sync
      <4>1. session.id["initial"] = NoId
        BY <2>1, <3>2, SelectionFacts, RoleFacts, <1>1
           DEF IInv, RolesFilled, InitialOver, InitialRoles, StartRole
      <4> QED BY <4>1, ThreadFacts
    <3> QED BY <3>1, <3>2
  <2> QED BY <1>3, <1>5, <1>6, <2>2, <2>3 DEF CallFits, Staging
<1>8. ASSUME NEW i \in DOMAIN calls'[th] \ DOMAIN calls[th]
      PROVE  CallFits(th, i, calls[th][i])'
  <2>1. InitialOver'
    BY <1>3, <1>5, <1>6, <1>8, DueInitialOver
  <2> QED BY <1>6, <1>8, <2>1 DEF CallFits, Staging
<1>9. OldApplies /\ OldStaging /\ NewCallsFit
  BY <1>3, <1>6, <1>7, <1>8 DEF OldApplies, OldStaging, NewCallsFit, OldCall, Staging
<1>10. AppliesStay /\ StagingStays
  BY <1>3, <1>6 DEF AppliesStay, StagingStays, InCall, Staging
<1>11. NothingBeforeStart' /\ StartListed'
  BY <1>3, <1>5, StartStays
<1>12. DownIsIdle'
  BY <1>3 DEF IInv, DownIsIdle, Idle
<1>13. DueIsChecked'
  BY <1>5 DEF DueIsChecked, SyncActive
<1>14. TypeOK'
  BY <1>1, <1>3, <1>5, <1>6 DEF TypeOK
<1> QED BY <1>3, <1>5, <1>9, <1>10, <1>11, <1>12, <1>13, <1>14, QuietStepKeeps

\* The session takes task t as the one of role r.
TakesRole(r, t) ==
    session' = [session EXCEPT !.id[r] = t, !.terminal[r] = "none"]

LEMMA RoleTaken ==
    ASSUME TypeOK, NEW r \in Roles, NEW t \in TaskIds, TakesRole(r, t)
    PROVE  /\ session' \in Session
           /\ session'.id[r] = t /\ session'.terminal[r] = "none"
           /\ \A q \in Roles : q # r => /\ session'.id[q] = session.id[q]
                                        /\ session'.terminal[q] = session.terminal[q]
           /\ session'.seq = session.seq /\ session'.next = session.next
           /\ session'.stored = session.stored /\ session'.required = session.required
           /\ session'.status = session.status
<1>1. session \in Session
  BY DEF TypeOK
<1> DEFINE id2 == [session.id EXCEPT ![r] = t]
           terminal2 == [session.terminal EXCEPT ![r] = "none"]
<1>2. /\ id2 \in [Roles -> TaskIds \cup {NoId}] /\ terminal2 \in [Roles -> {"none"} \cup Ended]
      /\ id2[r] = t /\ terminal2[r] = "none"
      /\ \A q \in Roles : q # r => id2[q] = session.id[q] /\ terminal2[q] = session.terminal[q]
  BY <1>1 DEF Session
<1>3. session' = [session EXCEPT !.id = id2, !.terminal = terminal2]
  BY <1>1 DEF TakesRole, Session
<1> HIDE DEF id2, terminal2
<1>4. /\ session' \in Session
      /\ session'.id = id2 /\ session'.terminal = terminal2
      /\ session'.seq = session.seq /\ session'.next = session.next
      /\ session'.stored = session.stored /\ session'.required = session.required
      /\ session'.status = session.status
  BY ONLY <1>1, <1>2, <1>3 DEF Session
<1> QED BY <1>2, <1>4

\* The ingest is staged once, and a follow-up sync is not asked for by name:
\* taking the role leaves what is recorded as completed.
LEMMA RoleStepKeeps ==
    ASSUME IInv, NEW r \in {"ingest", "followup"}, NEW t \in TaskIds, TakesRole(r, t),
           session.stored, tasks[t].kind = KindOf(r), tasks[t].status \in Active \cup Ended,
           r = "ingest" => /\ selections.ingest /\ session.id["ingest"] = NoId
                           /\ \A th \in Threads : \A i \in DOMAIN calls'[th] : calls'[th][i].at \notin Staging,
           r = "followup" => t # session.id["initial"] /\ StagingStays,
           calls' \in [Threads -> Seq(Call)], OldApplies, OldStaging, AppliesStay,
           \A th \in Threads : \A i \in DOMAIN calls'[th] : OldCall(th, i) \/ calls'[th][i].at = "check",
           UNCHANGED <<selections, tasks, starting, work, pollVars, up, fate, covered, missed, upsets>>,
           DownIsIdle', DueIsChecked'
    PROVE  IInv'
<1> USE DEF IInv
<1>1. r \in Roles /\ t # NoId /\ KindOf("ingest") = "ingest"
  BY RoleFacts, ThreadFacts
<1>2. /\ session' \in Session
      /\ session'.id[r] = t /\ session'.terminal[r] = "none"
      /\ \A q \in Roles : q # r => /\ session'.id[q] = session.id[q]
                                   /\ session'.terminal[q] = session.terminal[q]
      /\ session'.seq = session.seq /\ session'.next = session.next
      /\ session'.stored = session.stored /\ session'.required = session.required
      /\ session'.status = session.status
  BY <1>1, RoleTaken
<1>3. \A q \in {"initial"} \cup Bootstraps : q \in Roles /\ q # r
  BY RoleFacts
<1>4. TypeOK'
  BY <1>2 DEF TypeOK
<1>5. NothingBeforeStart' /\ StartListed'
  BY <1>2, StoredIsOver DEF NothingBeforeStart, StartListed
<1>6. FatesRecorded'
  BY DEF FatesRecorded, FateOK
<1>7. ListedTasks'
  <2>1. tasks[t].status \notin {"absent", "pruned"}
    BY DEF Active, Ended
  <2> QED BY <1>1, <1>2, <2>1 DEF ListedTasks, Lists, Keeps
<1>8. RolesFilled'
  BY <1>1, <1>2, <1>3, RoleFacts DEF RolesFilled, InitialRoles, StartRole
<1>9. SessionTruthful'
  <2>1. r = "ingest" => ~(session.seq[r] > 0)
    BY <1>1 DEF SessionTruthful, NotesTrue
  <2> QED BY <1>1, <1>2, <2>1 DEF SessionTruthful, NotesTrue
<1>10. session'.id["initial"] = session.id["initial"]
  BY <1>2, <1>3
<1>11. CallsFit'
  <2> SUFFICES ASSUME NEW th \in Threads, NEW i \in DOMAIN calls'[th]
               PROVE  CallFits(th, i, calls[th][i])'
    BY DEF CallsFit
  <2>1. CASE calls'[th][i].at = "check"
    BY <2>1 DEF CallFits, Staging
  <2>2. CASE OldCall(th, i)
    <3>1. PICK c : c = calls[th][i]
      OBVIOUS
    <3>2. CallFits(th, i, c) /\ calls'[th][i] = c
      BY <2>2, <3>1 DEF OldCall, CallsFit
    <3>3. r = "ingest" => c.at \notin Staging
      BY <3>2
    <3>4. r = "followup" => session'.id["ingest"] = session.id["ingest"]
      BY <1>2, RoleFacts
    <3>5. InitialOver => InitialOver'
      BY <1>2, <1>10 DEF InitialOver
    <3>6. c.at = "apply" =>
             \A q \in {"initial"} \cup Bootstraps : session'.id[q] = c.task => session'.seq[q] = 0
      BY <1>2, <1>3, <3>2 DEF CallFits
    <3>7. CallFits(th, i, c)'
      BY <1>2, <1>10, <3>2, <3>3, <3>4, <3>5, <3>6 DEF CallFits
    <3> QED BY <3>2, <3>7
  <2> QED BY <2>1, <2>2
<1>12. CalledOnce'
  BY OnceStays
<1>13. ASSUME NEW u, Applying(u) PROVE Applying(u)'
  BY <1>13 DEF Applying, AppliesStay
<1>14. CompletionsSeen'
  <2>1. \A u \in TaskIds : Noted(u) => Noted(u)'
    BY <1>2, <1>3 DEF Noted
  <2> QED BY <1>13, <2>1 DEF CompletionsSeen
<1>15. LateIsNumberedLater' /\ IngestIsStaged'
  <2>1. r = "followup" => session'.id["ingest"] = session.id["ingest"]
    BY <1>2, RoleFacts
  <2> QED BY <1>1, <1>2, <2>1 DEF LateIsNumberedLater, IngestIsStaged, StagingStays
<1>16. AskedFor' = AskedFor /\ AskedFor \subseteq Roles
  BY SelectionFacts, RoleFacts DEF AskedFor
<1>17. session.status = "completed" => \A q \in AskedFor : session'.id[q] = session.id[q]
  <2>1. r = "ingest" /\ session.status = "completed" => FALSE
    BY DEF CompletedIsTrue, AskedFor
  <2>2. "followup" \notin AskedFor
    BY SelectionFacts, RoleFacts DEF AskedFor
  <2> QED BY <1>2, <1>16, <2>1, <2>2
<1>18. session.status = "completed" => \A q \in AskedFor : Forgotten(q) => Forgotten(q)'
  BY <1>17 DEF Forgotten
<1>19. CompletedIsTrue'
  BY <1>2, <1>16, <1>17, <1>18 DEF CompletedIsTrue
<1>20. CoveredOrOvertaken'
  <2> SUFFICES ASSUME session.status = "completed", selections.sync, ~overtaken, ~missed
               PROVE  \/ selections.bootstraps \subseteq covered
                      \/ \E q \in AskedFor : Forgotten(q)'
                      \/ Applying(session.id["initial"])'
    BY <1>2, <1>16 DEF CoveredOrOvertaken, Applying
  <2>1. \/ selections.bootstraps \subseteq covered
        \/ \E q \in AskedFor : Forgotten(q)
        \/ Applying(session.id["initial"])
    BY DEF CoveredOrOvertaken, Applying
  <2>2. PICK u : u = session.id["initial"]
    OBVIOUS
  <2>3. Applying(u) => Applying(u)'
    BY <1>13
  <2> QED BY <1>10, <1>16, <1>18, <2>1, <2>2, <2>3 DEF Applying
<1> QED BY <1>4, <1>5, <1>6, <1>7, <1>8, <1>9, <1>11, <1>12, <1>14, <1>15, <1>19, <1>20

LEMMA IngestStagedKeeps ==
    ASSUME IInv, NEW th \in Threads, IngestStaged(th)
    PROVE  IInv'
<1>1. TypeOK /\ calls \in [Threads -> Seq(Call)]
  BY DEF IInv, TypeOK
<1>2. PICK n, t : n = Len(calls[th]) /\ t = calls[th][n].task
  OBVIOUS
<1>3. /\ calls[th] # <<>> /\ n \in DOMAIN calls[th] /\ calls[th][n].at = "staged"
      /\ TakesRole("ingest", t)
      /\ calls' = [calls EXCEPT ![th][n] = At("check")]
      /\ UNCHANGED <<selections, tasks, starting, work, pollVars, up, fate, covered, missed, upsets>>
  BY <1>1, <1>2, IdleFacts DEF IngestStaged, Idle, TakesRole, Goto
<1>4. CallFits(th, n, calls[th][n])
  BY <1>3 DEF IInv, CallsFit
<1>5. /\ selections.ingest /\ session.seq["initial"] > 0 /\ session.id["ingest"] = NoId
      /\ t \in TaskIds /\ tasks[t].kind = "ingest" /\ tasks[t].status \in Active \cup Ended
  BY <1>2, <1>3, <1>4 DEF CallFits, Staging
<1>6. session.stored
  BY <1>5, NewSessionFacts, RoleFacts DEF IInv, NothingBeforeStart
<1>7. At("check") \in Call /\ At("check").at = "check"
  BY CallFacts
<1>8. /\ calls' \in [Threads -> Seq(Call)]
      /\ \A u \in Threads : DOMAIN calls'[u] = DOMAIN calls[u]
      /\ calls'[th][n].at = "check"
      /\ \A u \in Threads : \A i \in DOMAIN calls[u] :
            (u # th \/ i # n) => calls'[u][i] = calls[u][i]
  BY <1>1, <1>2, <1>3, <1>7, TopReplaced
<1>9. OldApplies /\ OldStaging /\ AppliesStay
  BY <1>3, <1>8 DEF OldApplies, OldStaging, AppliesStay, OldCall, Staging
<1>10. \A u \in Threads : \A i \in DOMAIN calls'[u] : OldCall(u, i) \/ calls'[u][i].at = "check"
  BY <1>8 DEF OldCall
<1>11. \A u \in Threads : \A i \in DOMAIN calls'[u] : calls'[u][i].at \notin Staging
  <2> SUFFICES ASSUME NEW u \in Threads, NEW i \in DOMAIN calls'[u], calls'[u][i].at \in Staging
               PROVE  FALSE
    OBVIOUS
  <2>1. (u # th \/ i # n) /\ i \in DOMAIN calls[u]
    BY <1>8 DEF Staging
  <2>2. calls[u][i].at \in Staging /\ calls[th][n].at \in Staging
    BY <1>3, <1>8, <2>1 DEF Staging
  <2> QED BY <1>3, <2>1, <2>2 DEF IInv, CalledOnce
<1>12. DownIsIdle'
  BY <1>3 DEF IInv, DownIsIdle, Idle
<1>13. DueIsChecked'
  BY <1>3, <1>8 DEF DueIsChecked, InCall, WillCheck
<1>14. KindOf("ingest") = "ingest"
  BY DEF KindOf
<1> QED BY <1>3, <1>5, <1>6, <1>8, <1>9, <1>10, <1>11, <1>12, <1>13, <1>14, RoleStepKeeps

\* The id of a follow-up sync may be stored after the sync has ended.
LEMMA SetFollowUpKeeps ==
    ASSUME IInv, NEW th \in Threads, SetFollowUp(th)
    PROVE  IInv'
<1>1. TypeOK /\ calls \in [Threads -> Seq(Call)]
  BY DEF IInv, TypeOK
<1>2. PICK n, t : n = Len(calls[th]) /\ t = calls[th][n].task
  OBVIOUS
<1>3. /\ calls[th] # <<>> /\ n \in DOMAIN calls[th] /\ calls[th][n].at = "set"
      /\ TakesRole("followup", t) /\ Return(th)
      /\ UNCHANGED <<selections, tasks, starting, work, pollVars, up, fate, covered, missed, upsets>>
  BY <1>1, <1>2, IdleFacts DEF SetFollowUp, Idle, TakesRole
<1>4. CallFits(th, n, calls[th][n])
  BY <1>3 DEF IInv, CallsFit
<1>5. /\ session.stored /\ t # session.id["initial"]
      /\ t \in TaskIds /\ tasks[t].kind = "sync" /\ tasks[t].status \in Active \cup Ended
  BY <1>2, <1>3, <1>4 DEF CallFits, InitialOver
<1>6. /\ calls' \in [Threads -> Seq(Call)]
      /\ \A u \in Threads : u # th => calls'[u] = calls[u]
      /\ DOMAIN calls'[th] = DOMAIN calls[th] \ {n}
      /\ \A i \in DOMAIN calls'[th] : calls'[th][i] = calls[th][i]
  BY <1>1, <1>2, <1>3, TopRemoved
<1>7. OldApplies /\ OldStaging /\ \A u \in Threads : \A i \in DOMAIN calls'[u] : OldCall(u, i)
  BY <1>6 DEF OldApplies, OldStaging, OldCall
<1>8. AppliesStay /\ StagingStays /\ ChecksStay
  BY <1>3, <1>6 DEF AppliesStay, StagingStays, ChecksStay, InCall, Staging, WillCheck
<1>9. DownIsIdle'
  BY <1>3 DEF IInv, DownIsIdle, Idle
<1>10. DueIsChecked'
  <2> SUFFICES ASSUME Due', ~missed, ~SyncActive, ~InCall(WillCheck) PROVE ReplacedFailure'
    BY <1>3, <1>8 DEF DueIsChecked, ChecksStay, SyncActive
  <2>1. /\ session'.id["followup"] = t
        /\ \A q \in Roles : q # "followup" => /\ session'.id[q] = session.id[q]
                                              /\ session'.terminal[q] = session.terminal[q]
        /\ session'.seq = session.seq
        /\ session'.stored = session.stored /\ session'.required = session.required
        /\ session'.status = session.status
    BY <1>1, <1>3, <1>5, RoleTaken, RoleFacts
  <2>2. fate[t] # "failed"
    BY <1>3, <1>5, <2>1, ThreadFacts, RoleFacts DEF Due, NothingFailed
  <2>3. ASSUME NEW u \in TaskIds, u # t, RolesOf(u) \subseteq {"followup"}
        PROVE  RolesOf(u)' = {}
    BY <1>5, <2>1, <2>3 DEF RolesOf
  <2>4. \A q \in Roles : q # "followup" => Status(q)' = Status(q)
    BY <1>3, <2>1 DEF Status, StatusIn, Loaded, LoadTaskById
  <2>5. CASE NothingFailed
    <3>1. SyncTerminal
      BY <1>3, <2>4, RoleFacts DEF Due, SyncTerminal
    <3>2. PICK b \in Bootstraps : NeedsFollowUp(b)'
      BY DEF Due
    <3>3. NeedsFollowUp(b)
      BY <1>3, <2>1, <2>5, <3>2, FollowUpStays
    <3>4. ReplacedFailure
      BY <2>1, <2>5, <3>1, <3>3 DEF Due, IInv, DueIsChecked
    <3>5. PICK u \in TaskIds : tasks[u].kind = "sync" /\ fate[u] = "failed" /\ RolesOf(u) = {}
      BY <3>4 DEF ReplacedFailure
    <3> QED BY <1>3, <2>2, <2>3, <3>5 DEF ReplacedFailure
  <2>6. CASE ~NothingFailed
    <3>1. PICK u : u = session.id["followup"]
      OBVIOUS
    <3>2. u \in TaskIds /\ fate[u] = "failed"
      <4>1. \A q \in Roles : q # "followup" /\ session.id[q] # NoId => fate[session.id[q]] # "failed"
        BY <1>3, <2>1 DEF Due, NothingFailed
      <4> QED BY <1>1, <2>6, <3>1, <4>1, SessionFacts DEF NothingFailed
    <3>3. tasks[u].kind = "sync"
      BY <3>1, <3>2, ThreadFacts, RoleFacts DEF IInv, ListedTasks, Lists, KindOf
    <3>4. RolesOf(u) = {"followup"}
      BY <3>1, <3>2, OneRole, RoleFacts
    <3> QED BY <1>3, <2>2, <2>3, <3>2, <3>3, <3>4 DEF ReplacedFailure
  <2> QED BY <2>5, <2>6
<1>11. KindOf("followup") = "sync"
  BY DEF KindOf
<1> QED BY <1>3, <1>5, <1>6, <1>7, <1>8, <1>9, <1>10, <1>11, RoleStepKeeps

(***************************************************************************)
(* The first transaction of a call for the end of task t, and what it      *)
(* leaves of the other calls.                                              *)
(***************************************************************************)
ApplyOf(th, n, t) ==
    /\ n = Len(calls[th]) /\ calls[th] # <<>> /\ n \in DOMAIN calls[th]
    /\ calls[th][n].at = "apply" /\ calls[th][n].task = t

Applied(th, n, t, next) ==
    /\ t \in TaskIds /\ fate[t] = calls[th][n].status
    /\ calls[th][n].status \in Ended /\ tasks[t].status = calls[th][n].status
    /\ \A r \in {"initial"} \cup Bootstraps : session.id[r] = t => session.seq[r] = 0
    /\ calls' \in [Threads -> Seq(Call)]
    /\ \A u \in Threads : DOMAIN calls'[u] = DOMAIN calls[u]
    /\ calls'[th][n].at = next
    /\ \A u \in Threads : \A i \in DOMAIN calls[u] :
          (u # th \/ i # n) => calls'[u][i] = calls[u][i]
    /\ OldApplies
    /\ \A u \in TaskIds : u # t /\ Applying(u) => Applying(u)'
    /\ \A u \in Threads : \A i \in DOMAIN calls'[u] :
          calls'[u][i].at = "apply" => calls'[u][i].task # t
    /\ InCall(Staging) => InCall(Staging)'
    /\ InCall(WillCheck)'
    /\ next = "check" => OldStaging

LEMMA ApplyFacts ==
    ASSUME IInv, NEW th \in Threads, NEW n, NEW t, ApplyOf(th, n, t),
           NEW next \in {"stage", "check"}, calls' = [calls EXCEPT ![th][n] = At(next)]
    PROVE  Applied(th, n, t, next)
<1>1. TypeOK /\ calls \in [Threads -> Seq(Call)]
  BY DEF IInv, TypeOK
<1>2. At(next) \in Call /\ At(next).at = next
  BY CallFacts
<1>3. /\ calls' \in [Threads -> Seq(Call)]
      /\ \A u \in Threads : DOMAIN calls'[u] = DOMAIN calls[u]
      /\ calls'[th][n].at = next
      /\ \A u \in Threads : \A i \in DOMAIN calls[u] :
            (u # th \/ i # n) => calls'[u][i] = calls[u][i]
  BY <1>1, <1>2, TopReplaced DEF ApplyOf
<1>4. CallFits(th, n, calls[th][n])
  BY DEF ApplyOf, IInv, CallsFit
<1>5. /\ t \in TaskIds /\ calls[th][n].status \in Ended /\ tasks[t].status = calls[th][n].status
      /\ \A r \in {"initial"} \cup Bootstraps : session.id[r] = t => session.seq[r] = 0
  BY <1>4 DEF ApplyOf, CallFits
<1>6. fate[t] = calls[th][n].status
  BY <1>5 DEF IInv, FatesRecorded, FateOK
<1>7. OldApplies
  BY <1>3 DEF OldApplies, OldCall
<1>8. ASSUME NEW u \in TaskIds, u # t, Applying(u) PROVE Applying(u)'
  <2>1. PICK v \in Threads :
          \E i \in DOMAIN calls[v] : calls[v][i].at = "apply" /\ calls[v][i].task = u
    BY <1>8 DEF Applying
  <2>2. PICK i \in DOMAIN calls[v] : calls[v][i].at = "apply" /\ calls[v][i].task = u
    BY <2>1
  <2>3. calls'[v][i] = calls[v][i] /\ i \in DOMAIN calls'[v]
    BY <1>3, <1>8, <2>2 DEF ApplyOf
  <2> QED BY <2>2, <2>3 DEF Applying
<1>9. ASSUME NEW u \in Threads, NEW i \in DOMAIN calls'[u], calls'[u][i].at = "apply"
      PROVE  calls'[u][i].task # t
  <2>1. (u # th \/ i # n) /\ i \in DOMAIN calls[u] /\ calls'[u][i] = calls[u][i]
    BY <1>3, <1>9
  <2> QED BY <1>9, <2>1 DEF ApplyOf, IInv, CalledOnce
<1>10. InCall(Staging) => InCall(Staging)'
  BY <1>3 DEF InCall, Staging, ApplyOf
<1>11. InCall(WillCheck)'
  BY <1>3 DEF InCall, WillCheck, Staging, ApplyOf
<1>12. next = "check" => OldStaging
  BY <1>3 DEF OldStaging, Staging
<1> QED BY <1>3, <1>5, <1>6, <1>7, <1>8, <1>9, <1>10, <1>11, <1>12 DEF Applied

\* An end that the session does not list: before the session is stored the
\* completion is missed, afterwards there is nothing to note.
LEMMA UnlistedApplyKeeps ==
    ASSUME IInv, NEW th \in Threads, Apply(th), RolesOf(Top(th).task) = {}
    PROVE  IInv'
<1>1. TypeOK /\ calls \in [Threads -> Seq(Call)]
  BY DEF IInv, TypeOK
<1>2. PICK n, t : n = Len(calls[th]) /\ t = calls[th][n].task
  OBVIOUS
<1>3. /\ ApplyOf(th, n, t) /\ Top(th) = calls[th][n]
  BY <1>1, <1>2, IdleFacts DEF Apply, ApplyOf, Idle
<1>4. /\ calls' = [calls EXCEPT ![th][n] = At("check")]
      /\ missed' = (missed \/ (~session.stored /\ calls[th][n].status = "completed"))
      /\ UNCHANGED <<selections, tasks, starting, session, work, pollVars, up, fate, covered, upsets>>
      /\ RolesOf(t) = {}
  BY <1>2, <1>3 DEF Apply, Goto
<1>5. /\ t \in TaskIds /\ fate[t] = calls[th][n].status
      /\ calls' \in [Threads -> Seq(Call)]
      /\ \A u \in Threads : DOMAIN calls'[u] = DOMAIN calls[u]
      /\ calls'[th][n].at = "check"
      /\ \A u \in Threads : \A i \in DOMAIN calls[u] :
            (u # th \/ i # n) => calls'[u][i] = calls[u][i]
      /\ OldApplies /\ OldStaging
      /\ \A u \in TaskIds : u # t /\ Applying(u) => Applying(u)'
      /\ InCall(Staging) => InCall(Staging)'
      /\ InCall(WillCheck)'
  <2>1. Applied(th, n, t, "check")
    BY ONLY IInv, th \in Threads, <1>3, <1>4, ApplyFacts
  <2> QED BY <2>1 DEF Applied
<1>6. \A u \in TaskIds : TaskMoves(u)
  BY <1>4 DEF TaskMoves
<1>7. NothingBeforeStart' /\ StartListed'
  BY <1>4, <1>6, StartStays
<1>8. TypeOK'
  BY <1>1, <1>4, <1>5 DEF TypeOK
<1>9. DownIsIdle'
  BY <1>3, <1>4 DEF IInv, DownIsIdle, Idle, ApplyOf
<1>10. NewCallsFit
  <2>1. CallFits(th, n, calls[th][n])'
    BY <1>5 DEF CallFits, Staging
  <2> QED BY <1>5, <2>1 DEF NewCallsFit, OldCall
<1>11. DueIsChecked'
  BY <1>5 DEF DueIsChecked
<1>12. missed => missed'
  BY <1>4
<1>13. CompletionsSeen'
  <2> SUFFICES ASSUME ~missed', NEW u \in TaskIds, fate[u] = "completed"
               PROVE  Applying(u)' \/ Noted(u)'
    BY <1>4 DEF CompletionsSeen
  <2>1. Noted(u) => Noted(u)'
    BY <1>4 DEF Noted
  <2>2. Applying(u) \/ Noted(u)
    BY <1>12 DEF IInv, CompletionsSeen
  <2>3. CASE u # t
    BY <1>5, <2>1, <2>2, <2>3
  <2>4. CASE u = t
    <3>1. session.stored
      BY <1>4, <1>5, <2>4
    <3>2. \A r \in Roles : session.id[r] # t
      BY <1>4, <3>1 DEF RolesOf
    <3> QED BY <1>4, <2>4, <3>1, <3>2, RoleFacts DEF Noted
  <2> QED BY <2>3, <2>4
<1>14. IngestIsStaged'
  BY <1>4, <1>5, <1>12 DEF IInv, IngestIsStaged
<1>15. CoveredOrOvertaken'
  <2> SUFFICES ASSUME session.status = "completed", selections.sync, ~overtaken, ~missed'
               PROVE  \/ selections.bootstraps \subseteq covered
                      \/ \E r \in AskedFor : Forgotten(r)
                      \/ Applying(session.id["initial"])'
    BY <1>4 DEF IInv, CoveredOrOvertaken, Applying, AskedFor, Forgotten
  <2>1. \/ selections.bootstraps \subseteq covered
        \/ \E r \in AskedFor : Forgotten(r)
        \/ Applying(session.id["initial"])
    BY <1>12 DEF IInv, CoveredOrOvertaken, Applying
  <2>2. session.stored
    BY NewSessionFacts DEF IInv, NothingBeforeStart
  <2>3. session.id["initial"] # t
    BY <1>4, <2>2, RoleFacts DEF RolesOf
  <2>4. session.id["initial"] \in TaskIds
    <3>1. session.id["initial"] # NoId
      BY <2>2, RoleFacts DEF IInv, RolesFilled, InitialRoles, StartRole
    <3> QED BY <1>1, <3>1, SessionFacts, RoleFacts
  <2>5. PICK u \in TaskIds : u = session.id["initial"]
    BY <2>4
  <2>6. Applying(u) => Applying(u)'
    BY <1>5, <2>3, <2>5
  <2>7. Applying(session.id["initial"])' <=> Applying(u)'
    BY <1>4, <2>5 DEF Applying
  <2> QED BY <2>1, <2>5, <2>6, <2>7
<1> QED BY <1>4, <1>5, <1>6, <1>7, <1>8, <1>9, <1>10, <1>11, <1>13, <1>14, <1>15, QuietCore

\* What the first transaction writes of an end that the session lists.
LEMMA RecordFacts ==
    ASSUME TypeOK, NEW r \in Roles, NEW status \in Ended, NEW late \in BOOLEAN,
           session' = [Record(r, status) EXCEPT !.required = @ \/ late]
    PROVE  /\ session' \in Session /\ \A q \in Roles : session'.seq[q] <= session'.next
           /\ session'.stored = session.stored /\ session'.id = session.id
           /\ session'.status = session.status
           /\ session'.required <=> (session.required \/ late)
           /\ session'.terminal[r] = status
           /\ \A q \in Roles : q # r => session'.terminal[q] = session.terminal[q]
                                        /\ session'.seq[q] = session.seq[q]
           /\ (status # "completed" \/ Numbered(r)) => session'.seq[r] = session.seq[r]
           /\ (status = "completed" /\ ~Numbered(r)) => session'.seq[r] = session.next + 1
<1> DEFINE numbers == status = "completed" /\ ~Numbered(r)
           terminal2 == [session.terminal EXCEPT ![r] = status]
           seq2 == [session.seq EXCEPT ![r] = IF numbers THEN session.next + 1 ELSE @]
           next2 == IF numbers THEN session.next + 1 ELSE session.next
           required2 == session.required \/ late
<1>1. /\ session \in Session /\ session.next \in Nat
      /\ session.id \in [Roles -> TaskIds \cup {NoId}]
      /\ session.terminal \in [Roles -> {"none"} \cup Ended] /\ session.seq \in [Roles -> Nat]
      /\ \A q \in Roles : session.seq[q] <= session.next
  BY DEF TypeOK, Session
<1>2. session' = [session EXCEPT !.terminal = terminal2, !.seq = seq2, !.next = next2,
                                 !.required = required2]
  BY <1>1 DEF Record, Session
<1>3. /\ terminal2 \in [Roles -> {"none"} \cup Ended] /\ terminal2[r] = status
      /\ \A q \in Roles : q # r => terminal2[q] = session.terminal[q]
  BY <1>1
<1>4. /\ seq2 \in [Roles -> Nat] /\ next2 \in Nat
      /\ \A q \in Roles : q # r => seq2[q] = session.seq[q]
      /\ seq2[r] = IF numbers THEN session.next + 1 ELSE session.seq[r]
      /\ \A q \in Roles : seq2[q] <= next2
  BY <1>1
<1>5. required2 \in BOOLEAN
  BY <1>1 DEF Session
<1> HIDE DEF terminal2, seq2, next2, required2
<1>6. /\ session' \in Session
      /\ session'.stored = session.stored /\ session'.id = session.id
      /\ session'.status = session.status /\ session'.required = required2
      /\ session'.terminal = terminal2 /\ session'.seq = seq2 /\ session'.next = next2
  BY ONLY <1>1, <1>2, <1>3, <1>4, <1>5 DEF Session
<1> QED BY <1>3, <1>4, <1>6 DEF required2

\* An end that the session lists, once: its role is Listed(r, t, status).
Listed(r, t, status) ==
    /\ r \in Roles /\ session.id[r] = t /\ session.stored
    /\ \A q \in Roles : q # r => session.id[q] # t
    /\ session' = [Record(r, status) EXCEPT !.required = @ \/ (r = "initial" /\ status = "completed" /\ BootstrapsLate)]
    /\ covered' = IF r \in {"initial", "followup"} /\ status = "completed"
                  THEN covered \cup {b \in Bootstraps : Status(b) = "completed"} ELSE covered
    /\ UNCHANGED <<selections, tasks, starting, work, pollVars, up, fate, missed, upsets>>

LEMMA ListedFacts ==
    ASSUME IInv, NEW r, NEW t, NEW status, Listed(r, t, status),
           t \in TaskIds, status \in Ended, tasks[t].status = status, fate[t] = status,
           r \in {"initial"} \cup Bootstraps => session.seq[r] = 0
    PROVE  /\ session' \in Session /\ \A q \in Roles : session'.seq[q] <= session'.next
           /\ session'.stored = session.stored /\ session'.id = session.id
           /\ session'.status = session.status
           /\ session.required => session'.required
           /\ r = "initial" /\ status = "completed" /\ BootstrapsLate => session'.required
           /\ \A q \in Roles : q # r => session'.seq[q] = session.seq[q]
           /\ status # "completed" => session'.seq = session.seq
           /\ status = "completed" /\ r \in {"initial"} \cup Bootstraps => session'.seq[r] = session.next + 1
           /\ \A q \in Roles : session.seq[q] > 0 => session'.seq[q] > 0
           /\ SessionTruthful'
<1> DEFINE late == r = "initial" /\ status = "completed" /\ BootstrapsLate
<1>1. TypeOK /\ r \in Roles /\ session.seq \in [Roles -> Nat] /\ session.next \in Nat
  BY DEF IInv, Listed, TypeOK, Session
<1>2. /\ session' \in Session /\ \A q \in Roles : session'.seq[q] <= session'.next
      /\ session'.stored = session.stored /\ session'.id = session.id
      /\ session'.status = session.status
      /\ session'.required <=> (session.required \/ late)
      /\ session'.terminal[r] = status
      /\ \A q \in Roles : q # r => session'.terminal[q] = session.terminal[q]
                                   /\ session'.seq[q] = session.seq[q]
      /\ (status # "completed" \/ Numbered(r)) => session'.seq[r] = session.seq[r]
      /\ (status = "completed" /\ ~Numbered(r)) => session'.seq[r] = session.next + 1
  <2>1. late \in BOOLEAN
    OBVIOUS
  <2>2. session' = [Record(r, status) EXCEPT !.required = @ \/ late]
    BY Zenon DEF Listed
  <2> HIDE DEF late
  <2> QED BY <1>1, <2>1, <2>2, RecordFacts
<1>3. r \in {"initial"} \cup Bootstraps => ~Numbered(r)
  BY <1>1, RoleFacts DEF Numbered, Bootstraps
<1>4. session'.seq \in [Roles -> Nat]
  BY <1>2 DEF Session
<1>5. status # "completed" => session'.seq = session.seq
  BY <1>1, <1>2, <1>4
<1>6. ASSUME NEW q \in Roles, session.seq[q] > 0 PROVE session'.seq[q] > 0
  <2>1. CASE q = r
    BY <1>1, <1>2, <1>6, <2>1
  <2> QED BY <1>2, <1>6, <2>1
<1>7. SessionTruthful'
  <2> SUFFICES ASSUME NEW q \in Roles PROVE NotesTrue(q)'
    BY DEF SessionTruthful
  <2>1. NotesTrue(q) /\ fate' = fate
    BY DEF IInv, SessionTruthful, Listed
  <2>2. CASE q # r
    BY <1>2, <2>1, <2>2 DEF NotesTrue
  <2>3. CASE q = r
    <3>1. session'.id[q] = t /\ t # NoId /\ session'.terminal[q] = status
      BY <1>2, <2>3, ThreadFacts DEF Listed
    <3>2. ASSUME session'.seq[q] > 0
          PROVE  q # "ingest" /\ (q # "followup" => status = "completed")
      <4>1. q = "ingest" => session'.seq[q] = session.seq[q]
        BY <1>2, <2>3 DEF Numbered
      <4>2. q # "ingest"
        BY <2>1, <3>2, <4>1 DEF NotesTrue
      <4>3. q # "followup" => session.seq[q] = 0
        BY <2>3, <4>2, RoleFacts
      <4> QED BY <1>1, <1>2, <2>3, <3>2, <4>2, <4>3
    <3> QED BY <2>1, <3>1, <3>2 DEF NotesTrue
  <2> QED BY <2>2, <2>3
<1> QED BY <1>2, <1>3, <1>5, <1>6, <1>7

LEMMA ListedApplyKeeps ==
    ASSUME IInv, NEW th \in Threads, NEW n, NEW t, NEW r, NEW status, ApplyOf(th, n, t),
           status = calls[th][n].status, Listed(r, t, status),
           NEW next \in {"stage", "check"}, calls' = [calls EXCEPT ![th][n] = At(next)],
           next = "stage" <=> StagesIngest(r, status)
    PROVE  IInv'
<1>1. /\ TypeOK /\ r \in Roles /\ session.id[r] = t /\ session.stored
      /\ \A q \in Roles : q # r => session.id[q] # t
      /\ UNCHANGED <<selections, tasks, starting, work, pollVars, up, fate, missed, upsets>>
  BY DEF IInv, Listed
<1>2. Applied(th, n, t, next)
  BY ONLY IInv, th \in Threads, ApplyOf(th, n, t), next \in {"stage", "check"},
          calls' = [calls EXCEPT ![th][n] = At(next)], ApplyFacts
<1>3. /\ t \in TaskIds /\ fate[t] = status /\ status \in Ended /\ tasks[t].status = status
      /\ r \in {"initial"} \cup Bootstraps => session.seq[r] = 0
      /\ calls' \in [Threads -> Seq(Call)]
      /\ \A u \in Threads : DOMAIN calls'[u] = DOMAIN calls[u]
      /\ calls'[th][n].at = next
      /\ \A u \in Threads : \A i \in DOMAIN calls[u] :
            (u # th \/ i # n) => calls'[u][i] = calls[u][i]
      /\ OldApplies
      /\ \A u \in TaskIds : u # t /\ Applying(u) => Applying(u)'
      /\ \A u \in Threads : \A i \in DOMAIN calls'[u] :
            calls'[u][i].at = "apply" => calls'[u][i].task # t
      /\ InCall(Staging) => InCall(Staging)'
      /\ InCall(WillCheck)'
      /\ next = "check" => OldStaging
  BY <1>1, <1>2 DEF Applied
<1>4. /\ session' \in Session /\ \A q \in Roles : session'.seq[q] <= session'.next
      /\ session'.stored = session.stored /\ session'.id = session.id
      /\ session'.status = session.status
      /\ session.required => session'.required
      /\ r = "initial" /\ status = "completed" /\ BootstrapsLate => session'.required
      /\ \A q \in Roles : q # r => session'.seq[q] = session.seq[q]
      /\ status # "completed" => session'.seq = session.seq
      /\ status = "completed" /\ r \in {"initial"} \cup Bootstraps => session'.seq[r] = session.next + 1
      /\ \A q \in Roles : session.seq[q] > 0 => session'.seq[q] > 0
      /\ SessionTruthful'
  BY <1>3, ListedFacts
<1>5. /\ session.next \in Nat
      /\ \A q \in Roles : /\ session.seq[q] \in Nat /\ session'.seq[q] \in Nat
                          /\ session.seq[q] <= session.next
  BY <1>1, <1>4 DEF TypeOK, Session
<1>6. covered' = IF r \in {"initial", "followup"} /\ status = "completed"
                 THEN covered \cup {b \in Bootstraps : Status(b) = "completed"} ELSE covered
  BY DEF Listed
<1>7. TypeOK'
  <2>1. covered' \subseteq Bootstraps
    BY <1>1, <1>6 DEF TypeOK
  <2> QED BY <1>1, <1>3, <1>4, <2>1 DEF TypeOK
<1>8. NothingBeforeStart' /\ StartListed' /\ FatesRecorded' /\ ListedTasks' /\ RolesFilled'
  <2>1. starting.step = "over" /\ session'.stored
    BY <1>1, <1>4, StoredIsOver
  <2>2. NothingBeforeStart' /\ StartListed'
    BY <1>1, <2>1 DEF NothingBeforeStart, StartListed
  <2>3. FatesRecorded'
    BY <1>1 DEF IInv, FatesRecorded, FateOK
  <2>4. ListedTasks'
    BY <1>1, <1>4 DEF IInv, ListedTasks, Lists, Keeps
  <2>5. RolesFilled'
    BY <1>1, <1>4 DEF IInv, RolesFilled, InitialRoles, StartRole
  <2> QED BY <2>2, <2>3, <2>4, <2>5
<1>9. DownIsIdle'
  BY <1>1 DEF IInv, DownIsIdle, Idle, ApplyOf
<1>10. next = "stage" => /\ r = "initial" /\ status = "completed"
                         /\ selections.ingest /\ session.id["ingest"] = NoId
  BY DEF StagesIngest
<1>11. CallsFit'
  <2> SUFFICES ASSUME NEW u \in Threads, NEW i \in DOMAIN calls'[u]
               PROVE  CallFits(u, i, calls[u][i])'
    BY DEF CallsFit
  <2>1. CASE u = th /\ i = n
    <3>1. calls'[u][i].at = next
      BY <1>3, <2>1
    <3>2. next = "stage" => session'.seq["initial"] > 0
      BY <1>4, <1>5, <1>10
    <3> QED BY <1>1, <1>4, <1>10, <3>1, <3>2 DEF CallFits, Staging
  <2>2. CASE u # th \/ i # n
    <3>1. PICK c : c = calls[u][i]
      OBVIOUS
    <3>2. i \in DOMAIN calls[u] /\ calls'[u][i] = c /\ CallFits(u, i, c)
      BY <1>3, <2>2, <3>1 DEF IInv, CallsFit
    <3>3. c.at = "apply" =>
            \A q \in {"initial"} \cup Bootstraps : session'.id[q] = c.task => session'.seq[q] = 0
      BY <1>1, <1>3, <1>4, <3>2, RoleFacts DEF CallFits
    <3>4. c.at \in Staging => session'.seq["initial"] > 0
      BY <1>4, <3>2, RoleFacts DEF CallFits
    <3>5. InitialOver' <=> InitialOver
      BY <1>1, <1>4 DEF InitialOver
    <3>6. CallFits(u, i, c)'
      BY <1>1, <1>4, <3>2, <3>3, <3>4, <3>5 DEF CallFits
    <3> QED BY <3>2, <3>6
  <2> QED BY <2>1, <2>2
<1>12. CalledOnce'
  <2>1. CASE next = "check"
    BY <1>3, <2>1, OnceStays
  <2>2. CASE next = "stage"
    <3>1. session.seq["initial"] = 0
      BY <1>3, <1>10, <2>2
    <3>2. \A u \in Threads : \A i \in DOMAIN calls[u] : calls[u][i].at \notin Staging
      BY <3>1 DEF IInv, CallsFit, CallFits
    <3>3. \A u \in Threads : \A i \in DOMAIN calls'[u] : calls'[u][i].at \in Staging => u = th /\ i = n
      BY <1>3, <3>2
    <3>4. \A u \in Threads : \A i \in DOMAIN calls'[u] :
             calls'[u][i].at = "apply" => i \in DOMAIN calls[u] /\ calls'[u][i] = calls[u][i]
      BY <1>3 DEF OldApplies, OldCall
    <3> SUFFICES ASSUME NEW u \in Threads, NEW v \in Threads,
                        NEW i \in DOMAIN calls'[u], NEW j \in DOMAIN calls'[v],
                        \/ calls'[u][i].at = "apply" /\ calls'[v][j].at = "apply"
                             /\ calls'[u][i].task = calls'[v][j].task
                        \/ calls'[u][i].at \in Staging /\ calls'[v][j].at \in Staging
                 PROVE  u = v /\ i = j
      BY DEF CalledOnce
    <3>5. CASE calls'[u][i].at \in Staging /\ calls'[v][j].at \in Staging
      BY <3>3, <3>5
    <3>6. CASE calls'[u][i].at = "apply" /\ calls'[v][j].at = "apply"
                 /\ calls'[u][i].task = calls'[v][j].task
      BY <3>4, <3>6 DEF IInv, CalledOnce
    <3> QED BY <3>5, <3>6
  <2> QED BY <2>1, <2>2
<1>13. ASSUME NEW u \in TaskIds, u # t, Noted(u)
       PROVE  Noted(u)'
  BY <1>1, <1>4, <1>13, RoleFacts DEF Noted
<1>14. CompletionsSeen'
  <2> SUFFICES ASSUME ~missed, NEW u \in TaskIds, fate[u] = "completed"
               PROVE  Applying(u)' \/ Noted(u)'
    BY <1>1 DEF CompletionsSeen
  <2>1. CASE u # t
    BY <1>3, <1>13, <2>1 DEF IInv, CompletionsSeen
  <2>2. CASE u = t
    <3>1. status = "completed"
      BY <1>3, <2>2
    <3>2. \A q \in {"initial"} \cup Bootstraps : session.id[q] = t => q = r /\ session'.seq[q] > 0
      BY <1>1, <1>4, <1>5, <3>1, RoleFacts
    <3>3. Noted(u)'
      BY <1>1, <1>4, <2>2, <3>2 DEF Noted
    <3> QED BY <3>3
  <2> QED BY <2>1, <2>2
<1>15. LateIsNumberedLater'
  <2> SUFFICES ASSUME NEW b \in selections.bootstraps, b \notin covered'
               PROVE  /\ session'.seq["initial"] > 0 => session'.required
                      /\ session'.seq[b] > 0 =>
                           session'.seq[b] > session'.seq["initial"]
                           /\ session'.seq[b] > session'.seq["followup"]
    BY <1>1 DEF LateIsNumberedLater
  <2>1. b \in Bootstraps /\ b \in Roles /\ b \notin covered
    BY <1>1, <1>6, SelectionFacts, RoleFacts
  <2>2. /\ session.seq["initial"] > 0 => session.required
        /\ session.seq[b] > 0 =>
             session.seq[b] > session.seq["initial"] /\ session.seq[b] > session.seq["followup"]
    BY <2>1 DEF IInv, LateIsNumberedLater
  <2>3. r \in {"initial", "followup"} /\ status = "completed" => Status(b) # "completed"
    BY <1>6, <2>1
  <2>4. ASSUME session'.seq["initial"] > 0 PROVE session'.required
    <3>1. CASE session.seq["initial"] > 0
      BY <1>4, <2>2, <3>1
    <3>2. CASE ~(session.seq["initial"] > 0)
      <4>1. r = "initial" /\ status = "completed"
        BY <1>4, <2>4, <3>2, RoleFacts
      <4>2. BootstrapsLate
        BY <2>3, <4>1 DEF BootstrapsLate, BootstrapsReady
      <4> QED BY <1>4, <4>1, <4>2
    <3> QED BY <3>1, <3>2
  <2>5. ASSUME session'.seq[b] > 0
        PROVE  session'.seq[b] > session'.seq["initial"] /\ session'.seq[b] > session'.seq["followup"]
    <3>1. b \notin {"initial", "followup", "ingest"}
      BY <2>1 DEF Bootstraps
    <3>2. CASE r = b /\ status = "completed"
      <4>1. session'.seq[b] = session.next + 1
        BY <1>4, <2>1, <3>2
      <4>2. /\ session'.seq["initial"] = session.seq["initial"]
            /\ session'.seq["followup"] = session.seq["followup"]
        BY <1>4, <3>1, <3>2, RoleFacts
      <4> QED BY <1>5, <4>1, <4>2, RoleFacts
    <3>3. CASE ~(r = b /\ status = "completed")
      <4>1. session'.seq[b] = session.seq[b]
        BY <1>4, <2>1, <3>3
      <4>2. Status(b) = "completed"
        BY <2>1, <2>5, <3>1, <4>1, StatusFacts
      <4>3. /\ session'.seq["initial"] = session.seq["initial"]
            /\ session'.seq["followup"] = session.seq["followup"]
        BY <1>4, <2>3, <4>2, RoleFacts
      <4> QED BY <2>2, <2>5, <4>1, <4>3
    <3> QED BY <3>2, <3>3
  <2> QED BY <2>4, <2>5
<1>16. IngestIsStaged'
  <2> SUFFICES ASSUME session'.seq["initial"] > 0, selections.ingest, ~missed, session.id["ingest"] = NoId
               PROVE  InCall(Staging)'
    BY <1>1, <1>4 DEF IngestIsStaged
  <2>1. CASE session.seq["initial"] > 0
    BY <1>3, <2>1 DEF IInv, IngestIsStaged
  <2>2. CASE ~(session.seq["initial"] > 0)
    <3>1. r = "initial" /\ status = "completed"
      BY <1>4, <2>2, RoleFacts
    <3>2. next = "stage"
      BY <3>1 DEF StagesIngest
    <3> QED BY <1>3, <3>2 DEF InCall, Staging, ApplyOf
  <2> QED BY <2>1, <2>2
<1>17. DueIsChecked'
  BY <1>3 DEF DueIsChecked
<1>18. AskedFor' = AskedFor /\ AskedFor \subseteq Roles
  BY <1>1, SelectionFacts, RoleFacts DEF AskedFor
<1>19. CompletedIsTrue'
  BY <1>1, <1>4, <1>18 DEF IInv, CompletedIsTrue, Forgotten
<1>20. CoveredOrOvertaken'
  <2> SUFFICES ASSUME session.status = "completed", selections.sync, ~overtaken, ~missed,
                      \A q \in AskedFor : ~Forgotten(q), ~Applying(session.id["initial"])',
                      NEW b \in selections.bootstraps
               PROVE  b \in covered'
    <3>1. \A q \in AskedFor : Forgotten(q)' <=> Forgotten(q)
      BY <1>1, <1>4 DEF Forgotten
    <3>2. overtaken => session.seq["initial"] > 0
      BY DEF IInv, CoveredOrOvertaken
    <3> QED BY <1>1, <1>4, <1>18, <3>1, <3>2, RoleFacts DEF CoveredOrOvertaken, Applying
  <2>1. "initial" \in AskedFor /\ b \in AskedFor
    BY DEF AskedFor
  <2>2. PICK u, v : u = session.id["initial"] /\ v = session.id[b]
    OBVIOUS
  <2>3. u # NoId /\ fate[u] = "completed" /\ v # NoId /\ fate[v] = "completed"
    BY <2>1, <2>2 DEF IInv, CompletedIsTrue
  <2>4. u \in TaskIds /\ v \in TaskIds /\ b \in Bootstraps /\ b \in Roles
    BY <1>1, <2>2, <2>3, SessionFacts, SelectionFacts, RoleFacts
  <2>5. CASE u # t
    <3>1. ~Applying(u)
      <4>1. Applying(session.id["initial"])' <=> Applying(u)'
        BY <1>4, <2>2 DEF Applying
      <4> QED BY <1>3, <2>4, <2>5, <4>1
    <3>2. selections.bootstraps \subseteq covered
      BY <2>2, <3>1 DEF IInv, CoveredOrOvertaken, Applying
    <3> QED BY <1>6, <3>2
  <2>6. CASE u = t
    <3>1. r = "initial" /\ status = "completed"
      BY <1>1, <1>3, <2>2, <2>3, <2>6, RoleFacts
    <3>2. Status(b) = "completed"
      <4>1. CASE Noted(v)
        <5>1. session.seq[b] > 0
          BY <2>2, <2>4, <4>1 DEF Noted
        <5> QED BY <2>4, <5>1, StatusFacts DEF Bootstraps
      <4>2. CASE Applying(v)
        <5>1. PICK w \in Threads :
                \E i \in DOMAIN calls[w] : calls[w][i].at = "apply" /\ calls[w][i].task = v
          BY <4>2 DEF Applying
        <5>2. PICK i \in DOMAIN calls[w] : calls[w][i].at = "apply" /\ calls[w][i].task = v
          BY <5>1
        <5>3. CallFits(w, i, calls[w][i])
          BY DEF IInv, CallsFit
        <5>4. tasks[v].status \in Ended
          BY <5>2, <5>3 DEF CallFits
        <5>5. tasks[v].status = "completed"
          BY <2>3, <2>4, <5>4 DEF IInv, FatesRecorded, FateOK
        <5> QED BY <2>2, <2>3, <5>5 DEF Status, StatusIn, Loaded, LoadTaskById
      <4> QED BY <2>3, <2>4, <4>1, <4>2 DEF IInv, CompletionsSeen
    <3> QED BY <1>6, <2>4, <3>1, <3>2
  <2> QED BY <2>5, <2>6
<1> QED BY <1>4, <1>7, <1>8, <1>9, <1>11, <1>12, <1>14, <1>15, <1>16, <1>17, <1>19, <1>20 DEF IInv

LEMMA ApplyKeeps ==
    ASSUME IInv, NEW th \in Threads, Apply(th)
    PROVE  IInv'
<1>1. CASE RolesOf(Top(th).task) = {}
  BY <1>1, UnlistedApplyKeeps
<1>2. CASE RolesOf(Top(th).task) # {}
  <2>1. PICK n, t, r, status :
          /\ n = Len(calls[th]) /\ t = calls[th][n].task /\ status = calls[th][n].status
          /\ r = CHOOSE q \in RolesOf(Top(th).task) : TRUE
    OBVIOUS
  <2>2. ApplyOf(th, n, t) /\ Top(th) = calls[th][n]
    BY <2>1, IdleFacts DEF Apply, ApplyOf, Idle, IInv, TypeOK
  <2>3. r \in RolesOf(t)
    BY <1>2, <2>1, <2>2
  <2>4. r \in Roles /\ session.id[r] = t /\ session.stored
    BY <2>3 DEF RolesOf
  <2>5. t \in TaskIds
    <3>1. CallFits(th, n, calls[th][n])
      BY <2>2 DEF ApplyOf, IInv, CallsFit
    <3> QED BY <2>2, <3>1 DEF ApplyOf, CallFits
  <2>6. \A q \in Roles : q # r => session.id[q] # t
    <3>1. RolesOf(session.id[r]) = {r}
      BY <2>4, <2>5, OneRole
    <3> QED BY <2>4, <3>1 DEF RolesOf
  <2>7. PICK next : next = IF StagesIngest(r, status) THEN "stage" ELSE "check"
    OBVIOUS
  <2>8. /\ session' = [Record(r, status) EXCEPT !.required = @ \/ (r = "initial" /\ status = "completed" /\ BootstrapsLate)]
        /\ covered' = IF r \in {"initial", "followup"} /\ status = "completed"
                      THEN covered \cup {b \in Bootstraps : Status(b) = "completed"} ELSE covered
        /\ Goto(th, next)
        /\ UNCHANGED <<selections, tasks, starting, work, pollVars, up, fate, missed, upsets>>
    BY <1>2, <2>1, <2>2, <2>7, Zenon DEF Apply
  <2>9. Listed(r, t, status)
    BY <2>4, <2>6, <2>8, Zenon DEF Listed
  <2>10. calls' = [calls EXCEPT ![th][n] = At(next)]
    BY <2>1, <2>8 DEF Goto
  <2>11. next \in {"stage", "check"} /\ (next = "stage" <=> StagesIngest(r, status))
    BY <2>7
  <2>12. status = calls[th][n].status
    BY <2>1
  <2> QED BY ONLY IInv, th \in Threads, <2>2, <2>9, <2>10, <2>11, <2>12, ListedApplyKeeps
<1> QED BY <1>1, <1>2

-----------------------------------------------------------------------------
(* The invariant, and what it says of the session. *)

LEMMA InitIInv ==
    ASSUME Init
    PROVE  IInv
<1>1. /\ selections \in Selections /\ tasks = [t \in TaskIds |-> NoTask]
      /\ starting = [step |-> "top", id |-> NewSession.id] /\ session = NewSession
      /\ calls = [th \in Threads |-> <<>>] /\ work = "idle" /\ up = TRUE
      /\ polls = [p \in Pollers |-> NoPoll] /\ overtaken = FALSE
      /\ fate = [t \in TaskIds |-> "none"] /\ covered = {} /\ missed = FALSE /\ upsets = 0
  BY DEF Init
<1>2. /\ session \in Session /\ ~session.stored /\ session.status = "none"
      /\ session.next = 0 /\ \A r \in Roles : session.id[r] = NoId /\ session.terminal[r] = "none"
                                              /\ session.seq[r] = 0
  BY <1>1, NewSessionFacts
<1>3. \A t \in TaskIds : tasks[t] = NoTask /\ NoTask.status = "absent" /\ fate[t] = "none"
  BY <1>1 DEF NoTask
<1>4. starting.step = "top" /\ \A r \in Roles : starting.id[r] = NoId
  BY <1>1, NewSessionFacts
<1>5. \A th \in Threads : Idle(th) /\ DOMAIN calls[th] = {}
  BY <1>1 DEF Idle
<1>6. TypeOK
  <2>1. /\ tasks \in [TaskIds -> Task] /\ fate \in [TaskIds -> {"none"} \cup Ended]
        /\ calls \in [Threads -> Seq(Call)]
    BY <1>1 DEF NoTask, Task, Kinds
  <2>2. starting \in [step : Steps, id : [Roles -> TaskIds \cup {NoId}]]
    BY <1>1, NewSessionFacts DEF Steps, Session
  <2>3. upsets \in 0 .. MaxUpsets
    BY <1>1, ConstantsAssumption
  <2>4. \A r \in Roles : session.seq[r] <= session.next
    BY <1>2
  <2>5. /\ selections \in Selections /\ session \in Session /\ covered \subseteq Bootstraps
        /\ work \in {"idle", "busy", "failed"} /\ up \in BOOLEAN /\ missed \in BOOLEAN
        /\ overtaken \in BOOLEAN
    BY <1>1, <1>2
  <2>6. polls \in [Pollers -> Poll]
    BY <1>1, NewSessionFacts DEF Poll, NoPoll
  <2> QED BY ONLY <2>1, <2>2, <2>3, <2>4, <2>5, <2>6 DEF TypeOK
<1>7. NothingBeforeStart
  BY <1>1, <1>4 DEF NothingBeforeStart, ToStart
<1>8. FatesRecorded
  BY <1>3 DEF FatesRecorded, FateOK, Ended
<1>9. StartListed /\ ListedTasks
  BY <1>2, <1>4 DEF StartListed, ListedTasks, Lists, Keeps
<1>10. RolesFilled /\ SessionTruthful
  BY <1>2, RoleFacts DEF RolesFilled, SessionTruthful, NotesTrue
<1>11. DownIsIdle /\ CallsFit /\ CalledOnce
  BY <1>5 DEF DownIsIdle, CallsFit, CalledOnce
<1>12. CompletionsSeen /\ DueIsChecked
  BY <1>2, <1>3 DEF CompletionsSeen, DueIsChecked, Due
<1>13. LateIsNumberedLater /\ IngestIsStaged
  BY <1>2, <1>6, RoleFacts, SelectionFacts DEF LateIsNumberedLater, IngestIsStaged
<1>14. CompletedIsTrue /\ CoveredOrOvertaken
  BY <1>1, <1>2 DEF CompletedIsTrue, CoveredOrOvertaken
<1> QED BY <1>6, <1>7, <1>8, <1>9, <1>10, <1>11, <1>12, <1>13, <1>14 DEF IInv

LEMMA StutterKeeps ==
    ASSUME IInv, UNCHANGED vars
    PROVE  IInv'
<1>1. \A t \in TaskIds : TaskMoves(t)
  BY DEF vars, TaskMoves
<1>2. TypeOK' /\ NothingBeforeStart' /\ StartListed'
  BY <1>1, StartStays DEF vars, IInv, TypeOK
<1>3. DownIsIdle'
  BY DEF vars, IInv, DownIsIdle, Idle
<1>4. OldApplies /\ OldStaging /\ NewCallsFit /\ AppliesStay
  BY DEF vars, OldApplies, OldStaging, NewCallsFit, AppliesStay, OldCall
<1>5. StagingStays /\ ChecksStay
  BY DEF vars, StagingStays, ChecksStay, InCall
<1>6. DueIsChecked'
  BY <1>1, <1>5, DueStays DEF vars
<1> QED BY <1>1, <1>2, <1>3, <1>4, <1>5, <1>6, QuietStepKeeps DEF vars

\* No step takes back what has been reached.
LEMMA QuietForward ==
    ASSUME IInv, \A t \in TaskIds : TaskMoves(t), UNCHANGED <<selections, session, fate, covered>>
    PROVE  Forward
BY DEF TaskMoves, Forward, Active

LEMMA StartForward ==
    ASSUME IInv, EnqueueInitial \/ StoreSession \/ StartFault
    PROVE  Forward /\ UNCHANGED polls
<1>1. TypeOK
  BY DEF IInv
<1>2. CASE EnqueueInitial
  <2>1. \A u \in TaskIds : TaskMoves(u)
    <3>1. CASE starting.step = "top" \/ Selected(starting.step)
      <4>1. PICK t \in TaskIds :
              EnqueueTask(IF StartRole(starting.step) = "initial" THEN "sync" ELSE StartRole(starting.step), t)
        BY <1>2, <3>1 DEF EnqueueInitial
      <4>2. StartRole(starting.step) \in {"initial", "ingest"} \cup Bootstraps
        BY <1>2 DEF EnqueueInitial, StartRole
      <4> QED BY <1>1, <4>1, <4>2, EnqueuedTask DEF Kinds
    <3>2. CASE ~(starting.step = "top" \/ Selected(starting.step))
      BY <1>2, <3>2 DEF EnqueueInitial, TaskMoves
    <3> QED BY <3>1, <3>2
  <2> QED BY <1>2, <2>1, QuietForward DEF EnqueueInitial
<1>3. CASE StoreSession
  <2>1. \A r \in Roles : session.id[r] = NoId
    BY <1>3, NewSessionFacts DEF StoreSession, IInv, NothingBeforeStart
  <2>2. session'.stored
    BY <1>1, <1>3 DEF StoreSession, TypeOK, Session
  <2> QED BY <1>3, <2>1, <2>2 DEF StoreSession, Forward
<1>4. CASE StartFault
  BY <1>4 DEF StartFault, Forward
<1> QED BY <1>2, <1>3, <1>4

LEMMA TaskForward ==
    ASSUME IInv, NEW t \in TaskIds,
           \/ StartTask(t) \/ Progress(t) \/ RequeueTask(t)
           \/ \E status \in Ended : FinishTask(t, status)
           \/ CancelTask(t) \/ PruneTask(t)
    PROVE  Forward /\ UNCHANGED polls
<1>1. /\ TypeOK /\ tasks \in [TaskIds -> Task] /\ fate \in [TaskIds -> {"none"} \cup Ended]
      /\ FateOK(t)
  BY DEF IInv, TypeOK, FatesRecorded
<1>2. CASE StartTask(t) \/ Progress(t) \/ RequeueTask(t)
  <2>1. UNCHANGED <<selections, session, fate, covered, polls>>
    BY <1>2 DEF StartTask, Progress, RequeueTask
  <2>2. \A u \in TaskIds : TaskMoves(u)
    <3>1. CASE Progress(t)
      BY <3>1 DEF Progress, TaskMoves
    <3>2. CASE StartTask(t) \/ RequeueTask(t)
      <4>1. PICK s \in Active : tasks[t].status \in Active /\ tasks' = [tasks EXCEPT ![t].status = s]
        BY <3>2 DEF StartTask, RequeueTask, Executing, Active
      <4>2. /\ tasks'[t].status = s /\ tasks'[t].kind = tasks[t].kind
            /\ \A u \in TaskIds : u # t => tasks'[u] = tasks[u]
        BY <1>1, <4>1, TaskChanged
      <4> QED BY <4>1, <4>2 DEF TaskMoves
    <3> QED BY <1>2, <3>1, <3>2
  <2> QED BY <2>1, <2>2, QuietForward
<1>3. CASE (\E status \in Ended : FinishTask(t, status)) \/ CancelTask(t)
  <2>1. PICK status \in Ended :
          /\ tasks[t].status \in Active /\ tasks' = [tasks EXCEPT ![t].status = status]
          /\ fate' = [fate EXCEPT ![t] = status]
          /\ UNCHANGED <<selections, session, covered, polls>>
    BY <1>3 DEF FinishTask, CancelTask, Executing, Active, Ended
  <2>2. fate[t] = "none" /\ tasks[t].status # "pruned"
    BY <1>1, <2>1 DEF FateOK, Active
  <2> QED BY <1>1, <2>1, <2>2 DEF Forward
<1>4. CASE PruneTask(t)
  BY <1>1, <1>4 DEF PruneTask, Forward
<1> QED BY <1>2, <1>3, <1>4

LEMMA CallForward ==
    ASSUME IInv, NEW th \in Threads, CallStep(th) \/ CallFault(th)
    PROVE  Forward /\ UNCHANGED polls
<1>1. TypeOK /\ session \in Session
  BY DEF IInv, TypeOK
<1>2. CASE Apply(th)
  <2>1. session'.id = session.id /\ session'.stored = session.stored
    BY <1>1, <1>2 DEF Apply, Record, Session
  <2>2. covered \subseteq covered' /\ UNCHANGED <<selections, tasks, fate, polls>>
    BY <1>2 DEF Apply
  <2> QED BY <2>1, <2>2 DEF Forward
<1>3. CASE StageIngest(th) \/ EnqueueFollowUp(th)
  <2>1. \A u \in TaskIds : TaskMoves(u)
    BY <1>1, <1>3, EnqueuedTask DEF StageIngest, EnqueueFollowUp, Kinds
  <2> QED BY <1>3, <2>1, QuietForward DEF StageIngest, EnqueueFollowUp
<1>4. CASE IngestStaged(th)
  <2>1. session.id["ingest"] = NoId
    <3>1. PICK n : n = Len(calls[th])
      OBVIOUS
    <3>2. n \in DOMAIN calls[th] /\ calls[th][n].at = "staged"
      BY <1>1, <1>4, <3>1, IdleFacts DEF IngestStaged, Idle, TypeOK
    <3> QED BY <3>2 DEF IInv, CallsFit, CallFits, Staging
  <2>2. /\ session'.stored = session.stored
        /\ \A r \in Roles : r # "ingest" => session'.id[r] = session.id[r]
    BY <1>1, <1>4 DEF IngestStaged, Session
  <2> QED BY <1>4, <2>1, <2>2 DEF IngestStaged, Forward
<1>5. CASE SetFollowUp(th)
  <2>1. /\ session'.stored = session.stored
        /\ \A r \in Roles : r # "followup" => session'.id[r] = session.id[r]
    BY <1>1, <1>5 DEF SetFollowUp, Session
  <2> QED BY <1>5, <2>1 DEF SetFollowUp, Forward
<1>6. CASE CheckFollowUp(th) \/ CallFault(th)
  BY <1>6 DEF CheckFollowUp, CallFault, Forward
<1> QED BY <1>2, <1>3, <1>4, <1>5, <1>6 DEF CallStep

LEMMA OtherForward ==
    ASSUME IInv, UNCHANGED vars \/ WorkEnds \/ Crash \/ Restart
    PROVE  Forward /\ UNCHANGED polls
<1>1. CASE UNCHANGED vars \/ WorkEnds \/ Crash
  BY <1>1 DEF vars, WorkEnds, Crash, Forward
<1>2. CASE Restart
  BY <1>2 DEF Restart, Forward
<1> QED BY <1>1, <1>2

LEMMA NextKeeps ==
    ASSUME IInv, PollsFit, [Next]_vars
    PROVE  IInv' /\ PollsFit'
<1>1. ASSUME Forward, UNCHANGED polls
      PROVE  PollsFit'
  <2>1. PollFits(NoPoll)
    BY DEF PollFits, NoPoll
  <2> QED BY <1>1, <2>1, PollsFitStays
<1>2. CASE UNCHANGED vars
  BY <1>1, <1>2, StutterKeeps, OtherForward
<1>3. CASE EnqueueInitial \/ StoreSession \/ StartFault
  BY <1>1, <1>3, EnqueueInitialKeeps, StoreSessionKeeps, StartFaultKeeps, StartForward
<1>4. ASSUME NEW t \in TaskIds,
             \/ StartTask(t) \/ Progress(t) \/ RequeueTask(t)
             \/ \E status \in Ended : FinishTask(t, status)
             \/ CancelTask(t) \/ PruneTask(t)
      PROVE  IInv' /\ PollsFit'
  <2>1. IInv'
    BY <1>4, StartTaskKeeps, ProgressKeeps, RequeueTaskKeeps, FinishTaskKeeps, CancelTaskKeeps,
       PruneTaskKeeps
  <2> QED BY <1>1, <1>4, <2>1, TaskForward
<1>5. ASSUME NEW th \in Threads, CallStep(th) \/ CallFault(th)
      PROVE  IInv' /\ PollsFit'
  <2>1. IInv'
    BY <1>5, ApplyKeeps, StageIngestKeeps, IngestStagedKeeps, CheckFollowUpKeeps,
       EnqueueFollowUpKeeps, SetFollowUpKeeps, CallFaultKeeps DEF CallStep
  <2> QED BY <1>1, <1>5, <2>1, CallForward
<1>6. ASSUME NEW p \in Pollers,
             ReadSession(p) \/ Abandon(p) \/ LoadStats(p) \/ LoadTasks(p) \/ RecordStatus(p)
      PROVE  IInv' /\ PollsFit'
  BY <1>6, ReadSessionKeeps, AbandonKeeps, LoadStatsKeeps, LoadTasksKeeps, RecordStatusKeeps
<1>7. CASE WorkEnds \/ Crash \/ Restart
  BY <1>1, <1>7, WorkEndsKeeps, CrashKeeps, RestartKeeps, OtherForward
<1> QED BY <1>2, <1>3, <1>4, <1>5, <1>6, <1>7 DEF Next

LEMMA Invariant == Spec => []IInv
<1>1. Init => IInv /\ PollsFit
  <2>1. Init => \A p \in Pollers : polls[p] = NoPoll
    BY DEF Init
  <2>2. PollFits(NoPoll)
    BY DEF PollFits, NoPoll
  <2> QED BY InitIInv, <2>1, <2>2 DEF PollsFit
<1>2. IInv /\ PollsFit /\ [Next]_vars => IInv' /\ PollsFit'
  BY NextKeeps
<1> QED BY <1>1, <1>2, PTL DEF Spec

\* Every variable keeps its type, and the numbers of the completions are
\* taken from the session's counter.
THEOREM InitTyped == Spec => []TypeOK
<1>1. IInv => TypeOK
  BY DEF IInv
<1> QED BY <1>1, Invariant, PTL

\* Whatever the threads of the executions, the worker and the API do first,
\* a session recorded as completed has every task it was asked for completed.
THEOREM InitCompletedIsTrue == Spec => []CompletedIsTrue
<1>1. IInv => CompletedIsTrue
  BY DEF IInv
<1> QED BY <1>1, Invariant, PTL

\* A follow-up sync that an overtaken completion owes is made: with nothing
\* left to happen and no failure, it has covered the bootstraps.
LEMMA OwedIsMade ==
    ASSUME IInv, session.status = "completed", selections.sync, ~missed,
           \A r \in AskedFor : ~Forgotten(r), session.seq["initial"] > 0,
           Quiescent, \A t \in TaskIds : fate[t] # "failed"
    PROVE  selections.bootstraps \subseteq covered
<1>1. TypeOK
  BY DEF IInv
<1> SUFFICES ASSUME NEW b \in selections.bootstraps, b \notin covered PROVE FALSE
  OBVIOUS
<1>2. b \in AskedFor /\ b \in Bootstraps /\ b \in Roles /\ Selected(b)
  BY <1>1, AskedFacts, SelectionFacts, RoleFacts DEF Selected
<1>3. PICK t : t = session.id[b]
  OBVIOUS
<1>4. t \in TaskIds /\ fate[t] = "completed"
  BY <1>1, <1>2, <1>3, SessionFacts DEF IInv, CompletedIsTrue
<1>5. \A th \in Threads : DOMAIN calls[th] = {}
  BY DEF Quiescent, Idle
<1>6. session.seq[b] > 0
  BY <1>2, <1>3, <1>4, <1>5 DEF IInv, CompletionsSeen, Applying, Noted
<1>7. /\ session.required
      /\ session.seq[b] > session.seq["initial"] /\ session.seq[b] > session.seq["followup"]
  BY <1>6 DEF IInv, LateIsNumberedLater
<1>8. session.seq[b] \in Nat /\ session.seq["initial"] \in Nat /\ session.seq["followup"] \in Nat
  BY <1>1, <1>2, SessionFacts, RoleFacts
<1>9. LatestSyncIn(session) > 0 /\ session.seq[b] > LatestSyncIn(session)
  <2>1. /\ LatestSyncIn(session) \in {session.seq["initial"], session.seq["followup"]}
        /\ LatestSyncIn(session) >= session.seq["initial"]
    BY <1>8, LatestSyncFacts
  <2> QED BY <1>7, <1>8, <2>1
<1>10. NothingFailed
  BY <1>1, SessionFacts DEF NothingFailed
<1>11. NeedsFollowUp(b)
  BY <1>2, <1>6, <1>7, <1>9, <1>10, NothingFailedStatus DEF NeedsFollowUp, NeedsFollowUpIn, Status
<1>12. Status("initial") = "completed"
  BY StatusFacts, RoleFacts
<1>13. Due
  BY <1>2, <1>7, <1>10, <1>11, <1>12 DEF Due, Quiescent, SyncTerminal, Ended
<1> QED BY <1>5, <1>13 DEF IInv, DueIsChecked, ReplacedFailure, SyncActive, InCall, Quiescent

LEMMA CoversFromInvariant ==
    ASSUME IInv
    PROVE  CompletedCovers
<1> SUFFICES ASSUME session.status = "completed", selections.sync, ~missed,
                    \A r \in AskedFor : ~Forgotten(r), ~Applying(session.id["initial"]),
                    ~(selections.bootstraps \subseteq covered)
             PROVE  StillOwed
  BY DEF CompletedCovers, Applying
<1>1. overtaken /\ session.seq["initial"] > 0
  BY DEF IInv, CoveredOrOvertaken
<1>2. session.required
  BY <1>1 DEF IInv, LateIsNumberedLater
<1>3. ~Quiescent \/ \E t \in TaskIds : fate[t] = "failed"
  BY <1>1, OwedIsMade
<1> QED BY <1>1, <1>2, <1>3 DEF StillOwed

\* A completed session has indexed with every bootstrap: no bootstrap that
\* was late for every sync is left without its follow-up, though a poll may
\* record the completion before that follow-up was made.
THEOREM InitCompletedCovers == Spec => []CompletedCovers
BY Invariant, CoversFromInvariant, PTL

\* With no task active and no call on its way, every task of an undecided
\* session has ended well, unless the session has failed.
LEMMA NotStranded ==
    ASSUME IInv
    PROVE  NoStrandedSession
<1> SUFFICES ASSUME Quiescent, session.status = "none", ~missed, ~ReplacedFailure, ~Failed(Fresh),
                    NEW behind \in BOOLEAN, ~behind
             PROVE  Completed(Fresh, behind)
  BY DEF NoStrandedSession
<1> DEFINE v == Fresh
<1>0. /\ v.doc = session /\ v.work = work
      /\ \A r \in Roles : v.load[r] = Loaded(r) /\ StatusSeen(v, r) = Status(r)
  BY DEF Fresh, StatusSeen, Status
<1> HIDE DEF v
<1>1. TypeOK
  BY DEF IInv
<1>2. /\ session.stored /\ work # "busy" /\ \A th \in Threads : DOMAIN calls[th] = {}
      /\ \A t \in TaskIds : tasks[t].status \notin Active
  BY DEF Quiescent, Idle
<1>3. ASSUME NEW r \in Roles, session.id[r] = NoId
      PROVE  Loaded(r) = "none" /\ Status(r) = "none"
  BY <1>3, StatusFacts
<1>4. ASSUME NEW r \in Roles, session.id[r] # NoId
      PROVE  /\ session.id[r] \in TaskIds /\ tasks[session.id[r]].status \in Ended
             /\ Loaded(r) = tasks[session.id[r]].status
  <2>1. session.id[r] \in TaskIds
    BY <1>1, <1>4, SessionFacts
  <2>2. tasks[session.id[r]].status \notin {"absent", "pruned"} \cup Active
    BY <1>2, <1>4, <2>1 DEF IInv, ListedTasks, Lists, Keeps
  <2>3. tasks[session.id[r]].status \in Ended
    BY <1>1, <2>1, <2>2, TaskFacts
  <2> QED BY <1>4, <2>1, <2>2, <2>3 DEF Loaded, LoadTaskById
<1>5. ~RemainingWork(v)
  BY <1>0, <1>2, <1>3, <1>4 DEF RemainingWork, Active, Ended
<1>6. ~FatalFailure(v)
  BY <1>5 DEF Failed, v
<1>7. work = "idle"
  BY <1>0, <1>1, <1>2, <1>6 DEF TypeOK, FatalFailure
<1>8. ASSUME NEW r \in Roles, session.id[r] # NoId
      PROVE  /\ Status(r) = "completed" /\ Loaded(r) = "completed"
             /\ fate[session.id[r]] = "completed"
             /\ r \in {"initial"} \cup Bootstraps => session.seq[r] > 0
  <2>1. PICK t : t = session.id[r]
    OBVIOUS
  <2>2. t \in TaskIds /\ tasks[t].status = "completed" /\ Loaded(r) = "completed"
    BY <1>0, <1>4, <1>6, <1>8, <2>1 DEF FatalFailure, Ended
  <2>3. fate[t] = "completed"
    BY <2>2 DEF IInv, FatesRecorded, FateOK, Ended
  <2>4. Noted(t)
    BY <1>2, <2>2, <2>3 DEF IInv, CompletionsSeen, Applying
  <2> QED BY <2>1, <2>2, <2>3, <2>4 DEF Status, StatusIn, Noted
<1>9. \A r \in Roles : Status(r) \in {"none", "completed"}
  BY <1>3, <1>8
<1>10. \A b \in selections.bootstraps : /\ b \in Bootstraps /\ b \in Roles
                                        /\ Status(b) = "completed" /\ session.seq[b] > 0
  <2> SUFFICES ASSUME NEW b \in selections.bootstraps
               PROVE  /\ b \in Bootstraps /\ b \in Roles
                      /\ Status(b) = "completed" /\ session.seq[b] > 0
    OBVIOUS
  <2>1. b \in Bootstraps /\ b \in Roles \ {"ingest", "followup"}
    BY <1>1, SelectionFacts, RoleFacts DEF Bootstraps
  <2>2. session.id[b] # NoId
    BY <1>2, <2>1 DEF IInv, RolesFilled, InitialRoles
  <2> QED BY <1>8, <2>1, <2>2
<1>11. selections.sync => /\ session.id["initial"] # NoId /\ Status("initial") = "completed"
                          /\ session.seq["initial"] > 0
  <2> HAVE selections.sync
  <2>1. session.id["initial"] # NoId
    BY <1>2, RoleFacts DEF IInv, RolesFilled, InitialRoles, StartRole
  <2> QED BY <1>8, <2>1, RoleFacts
<1>12. selections.ingest => Status("ingest") = "completed"
  <2> HAVE selections.ingest
  <2>1. session.id["ingest"] # NoId
    BY <1>2, <1>11 DEF IInv, RolesFilled, IngestIsStaged, InCall
  <2> QED BY <1>8, <2>1, RoleFacts
<1>13. SyncTerminal /\ TopLevelTerminal(v) /\ BootstrapsTerminal(v)
  BY <1>0, <1>10, <1>11, <1>12, RoleFacts DEF SyncTerminal, TopLevelTerminal, BootstrapsTerminal, Ended
<1>14. \A b \in Bootstraps : ~Outstanding(v, b)
  BY <1>0, <1>10 DEF Outstanding, Selected
<1>15. ~FollowUpPending(v)
  <2> SUFFICES ASSUME FollowUpPending(v) PROVE FALSE
    OBVIOUS
  <2>1. v.load["followup"] # "running"
    BY <1>0, <1>3, <1>8, RoleFacts
  <2>2. session.required /\ \E b \in Bootstraps : NeedsFollowUp(b)
    BY <1>0, <1>14, <2>1, RoleFacts DEF FollowUpPending, NeedsFollowUp
  <2>3. Due
    BY <1>2, <1>8, <1>13, <2>2 DEF Due, NothingFailed
  <2> QED BY <1>2, <2>3 DEF IInv, DueIsChecked, SyncActive, InCall
<1>16. ~LaneWaits(v, behind)
  BY <1>14 DEF LaneWaits
<1> QED BY <1>0, <1>6, <1>7, <1>13, <1>15, <1>16 DEF Completed, v

\* No session waits for ever with nothing left to happen: the ingest was
\* staged and every late bootstrap got its follow-up sync, whichever threads
\* handled which updates in which order.
THEOREM InitNoStrandedSession == Spec => []NoStrandedSession
BY Invariant, NotStranded, PTL
=============================================================================
