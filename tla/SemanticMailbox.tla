-------------------------- MODULE SemanticMailbox --------------------------
(***************************************************************************)
(* The enrichment workplane of one repo: the summary and embedding         *)
(* mailboxes, the workers that lease batches of their rows, compute        *)
(* summaries or embeddings and commit the results, and the clone rebuild   *)
(* job that the embeddings trigger.                                        *)
(*                                                                         *)
(* Source: daemon/enrichment/ and host/runtime_store/repo_workplane/.      *)
(* Every transaction is one step; between the claim of a batch and its     *)
(* settlement the worker holds nothing but its lease token, and the lease  *)
(* may expire.  A summary batch commits results, follow-ups and acks in    *)
(* one transaction (the runtime store is attached); an embedding batch     *)
(* first writes the relational store and then finalises the mailbox.       *)
(*                                                                         *)
(* An artefact id is derived from its content, so a result once committed  *)
(* stays fresh.  Readiness, pause, worker budgets and the priority among   *)
(* mailboxes are left open: a worker may claim from any of its mailboxes.  *)
(* Summary refreshes are active when summary embeddings are, so only       *)
(* summary commits enqueue the latter.  The rebuild that a full reconcile  *)
(* asks for is a job with a key of its own; it can only read embeddings    *)
(* earlier and is left out.  One dedupe key stands for all backfill chunks.*)
(***************************************************************************)
EXTENDS Integers, FiniteSets, FiniteSetsExt

CONSTANTS
    Artefacts,         \* semantic artefacts of the repo
    Free,              \* no lease token
    Gone,              \* the token of a batch that no worker works on any more
    Mailboxes,         \* the mailboxes in use: summary refreshes, code and summary embeddings
    SummaryWorkers,    \* workers of the SummaryRefresh pool
    EmbeddingWorkers,  \* workers of the Embeddings pool
    BatchSize,         \* SEMANTIC_*_MAILBOX_BATCH_SIZE
    RetryLimit,        \* WORKPLANE_TRANSIENT_EMBEDDING_RETRY_LIMIT
    MaxEnqueues,       \* bound: enqueue calls
    MaxUpsets          \* bound: expiries, faults, crashes and retry requests

Workers == SummaryWorkers \cup EmbeddingWorkers
Representations == Mailboxes \ {"refresh"}

\* RepoBackfill rows of a mailbox: a second one needs an expired lease.
Backfills == 1 .. MaxUpsets + 1
RowIds == Mailboxes \X (Artefacts \cup Backfills)

ASSUME ConstantsAssumption ==
    /\ IsFiniteSet(Artefacts) /\ Artefacts \cap Nat = {}
    /\ Free \notin Workers /\ Gone \notin Workers /\ Free # Gone
    /\ Mailboxes \subseteq {"refresh", "code", "summary"}
    /\ "summary" \in Mailboxes => "refresh" \in Mailboxes
    /\ SummaryWorkers \cap EmbeddingWorkers = {}
    /\ BatchSize \in Nat \ {0} /\ RetryLimit \in Nat \ {0}
    /\ MaxEnqueues \in Nat /\ MaxUpsets \in Nat

VARIABLES
    rows,        \* the mailbox rows, by mailbox and artefact or backfill
    done,        \* per mailbox: artefacts with a committed result
    worker,      \* the batch each worker works on
    rebuild,     \* the clone rebuild job: status, progress and what it has read
    unbuilt,     \* embeddings committed since the last successful rebuild read them
    up,          \* the daemon runs
    wanted,      \* history: artefacts enqueued for each mailbox
    shed,        \* history: wanted artefacts the mailbox let go of
    missed,      \* history: a rebuild signal was swallowed
    enqueues,    \* how many enqueue calls happened
    upsets       \* how many expiries, faults, crashes and retry requests happened

history == <<wanted, shed>>
vars == <<rows, done, worker, rebuild, unbuilt, up, wanted, shed, missed, enqueues, upsets>>

\* ready: available_at_unix has passed; attempts are counted up to the limit.
Row == [ids : SUBSET Artefacts, status : {"absent", "pending", "leased", "failed"},
        attempts : 0 .. RetryLimit, token : Workers \cup {Free, Gone}, ready : BOOLEAN]
NoRow == [ids |-> {}, status |-> "absent", attempts |-> 0, token |-> Free, ready |-> FALSE]

Batch == [phase : {"idle", "leased", "prepared", "written"}, kind : Mailboxes \cup {"refresh"}, rows : SUBSET RowIds,
          ids : SUBSET Artefacts, backfill : BOOLEAN, attempts : 0 .. RetryLimit,
          load : SUBSET Artefacts, rest : SUBSET Artefacts, signal : BOOLEAN]
Idle == [phase |-> "idle", kind |-> "refresh", rows |-> {}, ids |-> {}, backfill |-> FALSE,
         attempts |-> 0, load |-> {}, rest |-> {}, signal |-> FALSE]

NoRebuild == [status |-> "none", phase |-> "none", seen |-> {}]

Init ==
    /\ rows = [r \in RowIds |-> NoRow]
    /\ done = [k \in Mailboxes |-> {}]
    /\ worker = [w \in Workers |-> Idle]
    /\ rebuild = NoRebuild
    /\ unbuilt = {}
    /\ up = TRUE
    /\ wanted = [k \in Mailboxes |-> {}]
    /\ shed = [k \in Mailboxes |-> {}]
    /\ missed = FALSE
    /\ enqueues = 0
    /\ upsets = 0

Upset == upsets < MaxUpsets /\ upsets' = upsets + 1
MailboxesOf(w) == IF w \in SummaryWorkers THEN Mailboxes \cap {"refresh"} ELSE Representations
Active == {"pending", "leased"}
Held(w) == {r \in worker[w].rows : rows[r].token = w}
Carried(table, k) == UNION {table[r].ids : r \in {r \in RowIds : r[1] = k}}

(***************************************************************************)
(* Insert and upsert by dedupe key: a leased row of the key is found       *)
(* first, then a pending, then a failed one; only a pending row is         *)
(* refreshed (its payload is replaced), the other two swallow the request. *)
(***************************************************************************)
KeyOf(item) == IF item \in Artefacts THEN {item} ELSE Backfills

WithKey(table, k, item, status) ==
    {r \in {k} \X KeyOf(item) : table[r].status = status}

\* Bound: a backfill takes one of the slots (there is always one left).
FreeSlots(table, k) == {b \in Backfills : table[<<k, b>>].status = "absent"}

Insert(table, k, item, ids) ==
    LET slot == IF item \in Artefacts THEN item ELSE CHOOSE b \in FreeSlots(table, k) : TRUE
    IN [table EXCEPT ![<<k, slot>>] = [NoRow EXCEPT !.ids = ids, !.status = "pending", !.ready = TRUE]]

Refresh(table, pending, ids) ==
    LET r == CHOOSE r \in pending : TRUE
    IN [table EXCEPT ![r].ids = ids, ![r].ready = TRUE]

Upsert(table, k, item, ids) ==
    LET pending == WithKey(table, k, item, "pending")
    IN IF WithKey(table, k, item, "leased") # {} THEN table
       ELSE IF pending # {} THEN Refresh(table, pending, ids)
       ELSE IF WithKey(table, k, item, "failed") # {} THEN table
       ELSE Insert(table, k, item, ids)

\* The same for several artefacts, whose keys have one row each.
UpsertEach(table, k, items) ==
    [r \in RowIds |->
        IF r[1] # k \/ r[2] \notin items \/ table[r].status \in {"leased", "failed"} THEN table[r]
        ELSE IF table[r].status = "pending" THEN [table[r] EXCEPT !.ids = {r[2]}, !.ready = TRUE]
        ELSE [NoRow EXCEPT !.ids = {r[2]}, !.status = "pending", !.ready = TRUE]]

\* Producers: a delta reconcile enqueues artefacts, a full one a backfill of
\* all current artefacts.  Summary embeddings are enqueued by summary commits.
Enqueue(k, item, ids) ==
    /\ up
    /\ k # "summary"
    /\ enqueues < MaxEnqueues
    /\ enqueues' = enqueues + 1
    /\ rows' = Upsert(rows, k, item, ids)
    /\ wanted' = [wanted EXCEPT ![k] = @ \cup ids]
    /\ shed' = [shed EXCEPT ![k] = (@ \cup ids) \ Carried(rows', k)]
    /\ UNCHANGED <<done, worker, rebuild, unbuilt, up, missed, upsets>>

EnqueueArtefact(k, a) == Enqueue(k, a, {a})
EnqueueBackfill(k, S) == wanted[k] \cup S # {} /\ Enqueue(k, 1, wanted[k] \cup S)

\* Slip: a failed rebuild swallows the signal too.
SignalUnlessFailed ==
    IF rebuild.status \in {"running", "failed"} THEN rebuild ELSE [NoRebuild EXCEPT !.status = "pending"]

\* upsert_runtime_clone_rebuild_signal: a running rebuild swallows it.
SignalRebuild == IF rebuild.status = "running" THEN rebuild ELSE [NoRebuild EXCEPT !.status = "pending"]

(***************************************************************************)
(* Claim: one backfill row, or up to BatchSize artefact rows.              *)
(***************************************************************************)
Ready(k) == {r \in RowIds : r[1] = k /\ rows[r].status = "pending" /\ rows[r].ready}

\* Slip: rows whose attempts are spent are left out.
BatchesWithinBudget(k) ==
    LET budgeted == {r \in Ready(k) : rows[r].attempts < RetryLimit}
        single == {r \in budgeted : r[2] \in Artefacts}
    IN {{r} : r \in budgeted \ single}
       \cup {S \in SUBSET single : S # {} /\ Cardinality(S) = Min({BatchSize, Cardinality(single)})}

Batches(k) ==
    LET single == {r \in Ready(k) : r[2] \in Artefacts}
    IN {{r} : r \in Ready(k) \ single}
       \cup {S \in SUBSET single : S # {} /\ Cardinality(S) = Min({BatchSize, Cardinality(single)})}

Claimed(attempts) == Min({attempts + 1, RetryLimit})

LeasedRows(w, S) ==
    [r \in RowIds |-> IF r \in S
                      THEN [rows[r] EXCEPT !.status = "leased", !.token = w, !.attempts = Claimed(@)]
                      ELSE rows[r]]

\* The batch keeps the highest attempts count of its rows.
LeasedBatch(k, S, most) ==
    [Idle EXCEPT !.phase = "leased", !.kind = k, !.rows = S,
                 !.ids = UNION {rows[r].ids : r \in S},
                 !.backfill = \E r \in S : r[2] \in Backfills,
                 !.attempts = Claimed(rows[most].attempts)]

Claim(w) ==
    /\ up
    /\ worker[w].phase = "idle"
    /\ \E k \in MailboxesOf(w) : \E S \in Batches(k) : \E most \in S :
          /\ \A r \in S : rows[r].attempts <= rows[most].attempts
          /\ rows' = LeasedRows(w, S)
          /\ worker' = [worker EXCEPT ![w] = LeasedBatch(k, S, most)]
    /\ UNCHANGED <<done, rebuild, unbuilt, up, history, missed, enqueues, upsets>>

(***************************************************************************)
(* Prepare: the first BatchSize ids of a backfill are taken, the rest goes *)
(* into a replacement row.  The rebuild is signalled by the last chunk: a  *)
(* code batch rewrites features and always signals, a summary batch only   *)
(* when it embeds something that is not fresh.                             *)
(***************************************************************************)
Signals(k, load, rest) ==
    /\ k # "refresh"
    /\ rest = {}
    /\ \/ k = "code" /\ load # {}
       \/ load \ done[k] # {}

\* A summary can only be embedded once it is committed.
Embeddable(k, load) == IF k = "summary" THEN load \cap done["refresh"] ELSE load

Prepare(w) ==
    /\ worker[w].phase = "leased"
    /\ \E S \in SUBSET worker[w].ids :
          /\ IF worker[w].backfill THEN Cardinality(S) = Min({BatchSize, Cardinality(worker[w].ids)})
                                  ELSE S = worker[w].ids
          /\ LET k == worker[w].kind
                 load == Embeddable(k, S)
                 rest == worker[w].ids \ S
             IN worker' = [worker EXCEPT ![w].phase = "prepared", ![w].load = load, ![w].rest = rest,
                                         ![w].signal = Signals(k, load, rest)]
    /\ UNCHANGED <<rows, done, rebuild, unbuilt, up, history, missed, enqueues, upsets>>

\* The settling UPDATEs carry WHERE lease_token = the batch's token.
Settled(w, status, ready) ==
    [r \in RowIds |-> IF r \in Held(w)
                      THEN [rows[r] EXCEPT !.status = status, !.token = Free, !.ready = ready]
                      ELSE rows[r]]

\* A summary batch fails for good; an embedding batch is retried while the
\* error is transient and the attempts are not spent.
PrepareErr(w, transient) ==
    /\ worker[w].phase = "leased"
    /\ rows' = IF worker[w].kind # "refresh" /\ transient /\ worker[w].attempts < RetryLimit
               THEN Settled(w, "pending", FALSE) ELSE Settled(w, "failed", TRUE)
    /\ worker' = [worker EXCEPT ![w] = Idle]
    /\ UNCHANGED <<done, rebuild, unbuilt, up, history, missed, enqueues, upsets>>

\* Slip: rows are deleted by id, without their lease token.
AckedById(table, w) == [r \in RowIds |-> IF r \in worker[w].rows THEN NoRow ELSE table[r]]

Acked(table, w) == [r \in RowIds |-> IF r \in worker[w].rows /\ table[r].token = w THEN NoRow ELSE table[r]]

\* execute_summary_commit: results, follow-ups, a replacement row inserted
\* without a search for its key, and the acknowledgement.
CommitSummary(w) ==
    LET load == worker[w].load
        rest == worker[w].rest
        followed == IF "summary" \in Representations
                    THEN UpsertEach(rows, "summary", load) ELSE rows
        acked == Acked(followed, w)
    IN /\ worker[w].phase = "prepared"
       /\ worker[w].kind = "refresh"
       /\ rest # {} => FreeSlots(acked, "refresh") # {}
       /\ done' = [done EXCEPT !["refresh"] = @ \cup load]
       /\ rows' = IF rest = {} THEN acked ELSE Insert(acked, "refresh", 1, rest)
       /\ wanted' = [k \in Mailboxes |-> IF k = "summary" THEN wanted[k] \cup load ELSE wanted[k]]
       /\ shed' = [k \in Mailboxes |-> IF k = "refresh" THEN shed[k] \ rest ELSE shed[k]]
       /\ worker' = [worker EXCEPT ![w] = Idle]
       /\ UNCHANGED <<rebuild, unbuilt, up, missed, enqueues, upsets>>

\* execute_embedding_relational_commit
CommitEmbedding(w) ==
    LET k == worker[w].kind
    IN /\ worker[w].phase = "prepared"
       /\ k # "refresh"
       /\ done' = [done EXCEPT ![k] = @ \cup worker[w].load]
       /\ unbuilt' = unbuilt \cup {<<k, a>> : a \in worker[w].load \ done[k]}
       /\ worker' = [worker EXCEPT ![w].phase = "written"]
       /\ UNCHANGED <<rows, rebuild, up, history, missed, enqueues, upsets>>

\* execute_embedding_runtime_finalization: signal, acknowledgement, and the
\* upsert of the replacement, which finds the row again if its lease was lost
\* and then replaces its payload.
Finalize(w) ==
    LET k == worker[w].kind
        rest == worker[w].rest
        table == IF rest = {} THEN Acked(rows, w) ELSE Upsert(Acked(rows, w), k, 1, rest)
        signalled == worker[w].signal
        overwritten == (Carried(Acked(rows, w), k) \ Carried(table, k)) \ done[k]
    IN /\ worker[w].phase = "written"
       /\ rows' = table
       /\ rebuild' = IF signalled THEN SignalRebuild ELSE rebuild
       /\ missed' = IF signalled THEN rebuild.status = "running" /\ (missed \/ rebuild.phase # "claimed")
                                 ELSE missed
       /\ shed' = [shed EXCEPT ![k] = (@ \ Carried(table, k)) \cup overwritten]
       /\ worker' = [worker EXCEPT ![w] = Idle]
       /\ UNCHANGED <<done, unbuilt, up, wanted, enqueues, upsets>>

\* The signal of a batch that was written and not finalised is lost: summary
\* embeddings are fresh next time, and a code batch is only repeated if a row is left.
Interrupted(w) ==
    /\ worker[w].phase = "written"
    /\ \/ worker[w].kind = "summary"
       \/ \A r \in RowIds : r[1] = worker[w].kind => rows[r].status = "absent"

\* The commit or the finalisation fails: the batch is requeued in 5 seconds.
CommitFault(w) ==
    /\ worker[w].phase \in {"prepared", "written"}
    /\ Upset
    /\ rows' = Settled(w, "pending", FALSE)
    /\ missed' = (missed \/ Interrupted(w))
    /\ worker' = [worker EXCEPT ![w] = Idle]
    /\ UNCHANGED <<done, rebuild, unbuilt, up, history, enqueues>>

Orphaned(w) == [r \in RowIds |-> IF r \in Held(w) THEN [rows[r] EXCEPT !.token = Gone] ELSE rows[r]]

\* An error is propagated with `?` (store open, control state, settling
\* UPDATE): the loop logs it and the rows stay leased.
Abandon(w) ==
    /\ worker[w].phase # "idle"
    /\ Upset
    /\ rows' = Orphaned(w)
    /\ missed' = (missed \/ Interrupted(w))
    /\ worker' = [worker EXCEPT ![w] = Idle]
    /\ UNCHANGED <<done, rebuild, unbuilt, up, history, enqueues>>

(***************************************************************************)
(* Maintenance: leases expire, with or without a worker behind them.       *)
(***************************************************************************)
\* Slip: the lease token stays on the row.
ReleasedKeepingToken(S) ==
    [r \in RowIds |-> IF r \in S THEN [rows[r] EXCEPT !.status = "pending"] ELSE rows[r]]

Released(S) == [r \in RowIds |-> IF r \in S THEN [rows[r] EXCEPT !.status = "pending", !.token = Free]
                                            ELSE rows[r]]

ExpireLease(w) ==
    /\ up
    /\ Held(w) # {}
    /\ Upset
    /\ rows' = Released(Held(w))
    /\ UNCHANGED <<done, worker, rebuild, unbuilt, up, history, missed, enqueues>>

ExpireOrphan(r) ==
    /\ up
    /\ rows[r].token = Gone
    /\ rows' = Released({r})
    /\ UNCHANGED <<done, worker, rebuild, unbuilt, up, history, missed, enqueues, upsets>>

\* prune_failed_semantic_inbox_items, after WORKPLANE_TERMINAL_RETENTION_SECS
PruneFailed(r) ==
    /\ up
    /\ rows[r].status = "failed"
    /\ rows' = [rows EXCEPT ![r] = NoRow]
    /\ shed' = [shed EXCEPT ![r[1]] = @ \cup rows[r].ids]
    /\ missed' = (missed \/ \E e \in unbuilt : e[1] = r[1])
    /\ UNCHANGED <<done, worker, rebuild, unbuilt, up, wanted, enqueues, upsets>>

\* retry_failed_jobs: attempts are kept.
RetryFailed ==
    /\ up
    /\ Upset
    /\ rows' = [r \in RowIds |-> IF rows[r].status = "failed" THEN [rows[r] EXCEPT !.status = "pending"]
                                                             ELSE rows[r]]
    /\ rebuild' = IF rebuild.status = "failed" THEN [NoRebuild EXCEPT !.status = "pending"] ELSE rebuild
    /\ missed' = (missed /\ rebuild.status # "failed")
    /\ UNCHANGED <<done, worker, unbuilt, up, history, enqueues>>

BackoffElapses(r) ==
    /\ rows[r].status = "pending"
    /\ ~rows[r].ready
    /\ rows' = [rows EXCEPT ![r].ready = TRUE]
    /\ UNCHANGED <<done, worker, rebuild, unbuilt, up, history, missed, enqueues, upsets>>

(***************************************************************************)
(* Clone rebuild: claimed only while no embedding row is pending or        *)
(* leased.                                                                 *)
(***************************************************************************)
EmbeddingActive == \E r \in RowIds : r[1] \in Representations /\ rows[r].status \in Active

ClaimRebuild ==
    /\ up
    /\ rebuild.status = "pending"
    /\ ~EmbeddingActive
    /\ rebuild' = [rebuild EXCEPT !.status = "running", !.phase = "claimed"]
    /\ UNCHANGED <<rows, done, worker, unbuilt, up, history, missed, enqueues, upsets>>

ReadEmbeddings ==
    /\ rebuild.phase = "claimed"
    /\ rebuild' = [rebuild EXCEPT !.phase = "read", !.seen = unbuilt]
    /\ UNCHANGED <<rows, done, worker, unbuilt, up, history, missed, enqueues, upsets>>

RebuildOk ==
    /\ rebuild.phase = "read"
    /\ unbuilt' = unbuilt \ rebuild.seen
    /\ rebuild' = NoRebuild
    /\ UNCHANGED <<rows, done, worker, up, history, missed, enqueues, upsets>>

RebuildErr ==
    /\ rebuild.phase \in {"claimed", "read"}
    /\ rebuild' = [NoRebuild EXCEPT !.status = "failed"]
    /\ missed' = TRUE
    /\ UNCHANGED <<rows, done, worker, unbuilt, up, history, enqueues, upsets>>

\* The completion cannot be persisted: logged, and the job stays running
\* until the next daemon start.
RebuildFault ==
    /\ rebuild.phase \in {"claimed", "read"}
    /\ Upset
    /\ rebuild' = [NoRebuild EXCEPT !.status = "running"]
    /\ missed' = TRUE
    /\ UNCHANGED <<rows, done, worker, unbuilt, up, history, enqueues>>

Crash ==
    /\ up
    /\ Upset
    /\ up' = FALSE
    /\ rows' = [r \in RowIds |-> IF rows[r].status = "leased" THEN [rows[r] EXCEPT !.token = Gone] ELSE rows[r]]
    /\ missed' = (missed \/ \E w \in Workers : Interrupted(w))
    /\ worker' = [w \in Workers |-> Idle]
    /\ rebuild' = [rebuild EXCEPT !.phase = "none", !.seen = {}]
    /\ UNCHANGED <<done, unbuilt, history, enqueues>>

\* start: requeue_running_jobs
Restart ==
    /\ ~up
    /\ up' = TRUE
    /\ rows' = Released({r \in RowIds : rows[r].status = "leased"})
    /\ rebuild' = IF rebuild.status = "running" THEN [NoRebuild EXCEPT !.status = "pending"] ELSE rebuild
    /\ UNCHANGED <<done, worker, unbuilt, history, missed, enqueues, upsets>>

WorkerStep(w) ==
    \/ Prepare(w)
    \/ \E transient \in BOOLEAN : PrepareErr(w, transient)
    \/ CommitSummary(w) \/ CommitEmbedding(w) \/ Finalize(w)
    \/ CommitFault(w) \/ Abandon(w)

RebuildStep == ReadEmbeddings \/ RebuildOk \/ RebuildErr \/ RebuildFault

Next ==
    \/ \E k \in Mailboxes, a \in Artefacts : EnqueueArtefact(k, a)
    \/ \E k \in Mailboxes, S \in SUBSET Artefacts : EnqueueBackfill(k, S)
    \/ \E w \in Workers : Claim(w) \/ WorkerStep(w) \/ ExpireLease(w)
    \/ \E r \in RowIds : ExpireOrphan(r) \/ PruneFailed(r) \/ BackoffElapses(r)
    \/ RetryFailed
    \/ ClaimRebuild \/ RebuildStep
    \/ Crash \/ Restart

Spec == Init /\ [][Next]_vars

(***************************************************************************)
(* Fairness: worker loops poll every two seconds, a claimed batch or       *)
(* rebuild ends, the maintenance loop recovers expired leases every minute *)
(* and a daemon that is down is started again.                             *)
(***************************************************************************)
FairSpec ==
    /\ Spec
    /\ WF_vars(\E w \in SummaryWorkers : Claim(w))
    /\ WF_vars(\E w \in EmbeddingWorkers : Claim(w))
    /\ \A w \in Workers : WF_vars(WorkerStep(w))
    /\ \A r \in RowIds : WF_vars(ExpireOrphan(r)) /\ WF_vars(BackoffElapses(r))
    /\ WF_vars(ClaimRebuild)
    /\ WF_vars(RebuildStep)
    /\ WF_vars(Restart)
-----------------------------------------------------------------------------
(* Properties *)

\* Types; a row has a lease token exactly while it is leased.
TypeOK ==
    /\ rows \in [RowIds -> Row]
    /\ \A r \in RowIds : rows[r].token # Free <=> rows[r].status = "leased"
    /\ done \in [Mailboxes -> SUBSET Artefacts]
    /\ worker \in [Workers -> Batch]
    /\ rebuild \in [status : {"none", "pending", "running", "failed"},
                    phase : {"none", "claimed", "read"},
                    seen : SUBSET (Representations \X Artefacts)]
    /\ unbuilt \subseteq Representations \X Artefacts
    /\ up \in BOOLEAN
    /\ wanted \in [Mailboxes -> SUBSET Artefacts]
    /\ shed \in [Mailboxes -> SUBSET Artefacts]
    /\ missed \in BOOLEAN
    /\ enqueues \in 0 .. MaxEnqueues
    /\ upsets \in 0 .. MaxUpsets

(***************************************************************************)
(* No enrichment is lost: every artefact that was enqueued for a mailbox,  *)
(* or whose summary was committed, has its result or is in the payload of  *)
(* a row, across expired leases, split backfills, faults between the       *)
(* relational commit and the finalisation, and crashes.  The exceptions    *)
(* are the ones shed names: an enqueue that met a leased or failed row of  *)
(* its key, a payload that a late finalisation replaced, a pruned row.     *)
(***************************************************************************)
NoWorkLost ==
    \A k \in Mailboxes : \A a \in wanted[k] :
        a \in done[k] \cup shed[k] \cup Carried(rows, k)

(***************************************************************************)
(* Committed embeddings reach the clone rebuild: while an embedding has    *)
(* not been read by a successful rebuild, a rebuild is pending or about to *)
(* read, a finalisation that signals one is on its way, or rows of its     *)
(* mailbox are left.  The exceptions are the ones missed names: a signal   *)
(* that met a rebuild past its read, a rebuild that failed or could not be *)
(* settled, a pruned row, a batch interrupted between commit and           *)
(* finalisation whose rows do not bring it back.                           *)
(***************************************************************************)
RebuildOwed ==
    \A e \in unbuilt :
        \/ missed
        \/ rebuild.status = "pending"
        \/ rebuild.phase = "claimed"
        \/ rebuild.phase = "read" /\ e \in rebuild.seen
        \/ rebuild.status = "running" /\ ~up
        \/ \E w \in Workers : /\ worker[w].phase = "written"
                               /\ worker[w].kind = e[1]
                               /\ (worker[w].signal \/ worker[w].rest # {})
        \/ \E r \in RowIds : rows[r].status # "absent" /\ r[1] = e[1]

(***************************************************************************)
(* Every row is eventually acknowledged or failed: neither an abandoned or *)
(* expired lease, a failed commit, a crash nor a retry after the attempts  *)
(* were spent leaves a row pending or leased for ever.                     *)
(***************************************************************************)
EveryItemSettles ==
    \A r \in RowIds : rows[r].status \in Active ~> rows[r].status \notin Active
=============================================================================
