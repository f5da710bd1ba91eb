----------------------- MODULE SemanticMailboxProofs -----------------------
(***************************************************************************)
(* Proofs about SemanticMailbox for any artefacts, workers, batch size,    *)
(* retry limit and number of enqueues and upsets.                          *)
(***************************************************************************)
EXTENDS SemanticMailbox, FiniteSetTheorems, TLAPS

\* A row carries work, and the row of an artefact carries that artefact.
RowsCarryWork ==
    \A r \in RowIds :
        /\ rows[r].status = "absent" <=> rows[r].ids = {}
        /\ r[2] \in Artefacts => rows[r].ids \subseteq {r[2]}

\* Only summary refreshes ever have more than one backfill row: an upsert
\* finds the other ones.  Summary embeddings have none.
IsBackfill(r) == r[2] \in Backfills /\ rows[r].status # "absent"
OneEmbeddingBackfill ==
    /\ \A r \in RowIds : IsBackfill(r) => r[1] # "summary"
    /\ \A r, s \in RowIds : (IsBackfill(r) /\ IsBackfill(s) /\ r[1] = "code" /\ s[1] = "code") => r = s

\* Summary embeddings are asked for after the summary's commit only.
SummariesFirst ==
    "summary" \in Mailboxes =>
        /\ wanted["summary"] \subseteq done["refresh"]
        /\ \A r \in RowIds : r[1] = "summary" => rows[r].ids \subseteq done["refresh"]

\* A batch accounts for the rows it still holds: what it will not commit is in
\* rest, and the last chunk of a code backfill signals the rebuild.
BatchFits(w) ==
    LET b == worker[w]
    IN b.phase # "idle" =>
        /\ b.kind \in MailboxesOf(w)
        /\ b.ids # {}
        /\ \A r \in b.rows : r[1] = b.kind /\ (b.backfill <=> r[2] \in Backfills)
        /\ \A r \in Held(w) : rows[r].ids \subseteq b.ids
        /\ b.kind = "summary" => b.ids \subseteq done["refresh"] /\ ~b.backfill
        /\ b.phase \in {"prepared", "written"} =>
             /\ b.ids \subseteq b.load \cup b.rest
             /\ ~b.backfill => b.rest = {}
             /\ b.kind = "code" => b.signal \/ b.rest # {}
        /\ (b.phase = "prepared" /\ b.kind # "refresh") =>
             b.signal \/ b.rest # {} \/ b.load \subseteq done[b.kind]
        /\ b.phase = "written" => b.kind # "refresh" /\ b.load \subseteq done[b.kind]
BatchesFit == \A w \in Workers : BatchFits(w)

RebuildRuns == rebuild.phase # "none" => rebuild.status = "running" /\ up

\* RebuildOwed, where only code rows can bring a signal: a repeated summary
\* batch finds its embeddings fresh.
Owed(e) ==
    \/ missed
    \/ rebuild.status = "pending"
    \/ rebuild.phase = "claimed"
    \/ rebuild.phase = "read" /\ e \in rebuild.seen
    \/ rebuild.status = "running" /\ ~up
    \/ \E w \in Workers : /\ worker[w].phase = "written"
                           /\ worker[w].kind = e[1]
                           /\ (worker[w].signal \/ worker[w].rest # {})
    \/ e[1] = "code" /\ \E r \in RowIds : r[1] = "code" /\ rows[r].status # "absent"
EveryEmbeddingOwed == \A e \in unbuilt : Owed(e)

\* The part of the invariant that is about rows, batches and results.
Accounts ==
    /\ RowsCarryWork
    /\ OneEmbeddingBackfill
    /\ SummariesFirst
    /\ BatchesFit
    /\ NoWorkLost

IInv ==
    /\ TypeOK
    /\ Accounts
    /\ RebuildRuns
    /\ EveryEmbeddingOwed

(***************************************************************************)
(* Facts about rows and tables.                                            *)
(***************************************************************************)
TableOK(table) ==
    /\ table \in [RowIds -> Row]
    /\ \A r \in RowIds : table[r].token # Free <=> table[r].status = "leased"

LEMMA RowIdFacts ==
    /\ \A r \in RowIds : /\ r = <<r[1], r[2]>> /\ r[1] \in Mailboxes
                         /\ (r[2] \in Artefacts \/ r[2] \in Backfills)
                         /\ ~(r[2] \in Artefacts /\ r[2] \in Backfills)
    /\ \A k \in Mailboxes : \A a \in Artefacts \cup Backfills :
          <<k, a>> \in RowIds /\ <<k, a>>[1] = k /\ <<k, a>>[2] = a
    /\ 1 \in Backfills /\ 1 \notin Artefacts
<1>1. Backfills \subseteq Nat /\ 1 \in Backfills
  BY ConstantsAssumption DEF Backfills
<1>2. \A a : ~(a \in Artefacts /\ a \in Backfills)
  BY <1>1, ConstantsAssumption
<1>3. \A r \in RowIds : r = <<r[1], r[2]>> /\ r[1] \in Mailboxes /\ (r[2] \in Artefacts \/ r[2] \in Backfills)
  BY DEF RowIds
<1>4. \A k \in Mailboxes : \A a \in Artefacts \cup Backfills :
          <<k, a>> \in RowIds /\ <<k, a>>[1] = k /\ <<k, a>>[2] = a
  BY DEF RowIds
<1> QED BY <1>1, <1>2, <1>3, <1>4

\* The row of a new or refreshed request.
Requested(row, old, ids) ==
    /\ row \in Row
    /\ row.ids = ids /\ row.status = "pending" /\ row.token = Free
    /\ old.status \in {"pending", "absent"}

(***************************************************************************)
(* An upsert touches one row of its key.  It leaves a leased or failed row *)
(* alone, and inserts only if no row of the key is there.                  *)
(***************************************************************************)
LEMMA UpsertFacts ==
    ASSUME NEW table, TableOK(table), NEW k \in Mailboxes, NEW item \in Artefacts \cup {1},
           NEW ids \in SUBSET Artefacts
    PROVE  \E r \in RowIds :
             /\ r[1] = k /\ r[2] \in KeyOf(item)
             /\ Upsert(table, k, item, ids) = [table EXCEPT ![r] = Upsert(table, k, item, ids)[r]]
             /\ \/ /\ table[r].status \in {"leased", "failed"}
                   /\ Upsert(table, k, item, ids)[r] = table[r]
                \/ Requested(Upsert(table, k, item, ids)[r], table[r], ids)
             /\ table[r].status = "absent" =>
                  \A q \in RowIds : (q[1] = k /\ q[2] \in KeyOf(item)) => table[q].status = "absent"
<1> DEFINE U == Upsert(table, k, item, ids)
<1> DEFINE Keyed == {k} \X KeyOf(item)
<1>1. Keyed \subseteq RowIds /\ KeyOf(item) # {} /\ (item \in Artefacts => KeyOf(item) = {item})
      /\ (item \notin Artefacts => KeyOf(item) = Backfills)
  BY RowIdFacts DEF KeyOf, RowIds
<1>2. \A r \in Keyed : r[1] = k /\ r[2] \in KeyOf(item) /\ table[r] \in Row
  BY <1>1 DEF TableOK
<1>3. \A q \in RowIds : (q[1] = k /\ q[2] \in KeyOf(item)) => q \in Keyed
  BY RowIdFacts
<1>4. \A s : WithKey(table, k, item, s) = {r \in Keyed : table[r].status = s}
  BY DEF WithKey
<1> HIDE DEF Keyed
<1>5. CASE U = table /\ (WithKey(table, k, item, "leased") # {} \/ WithKey(table, k, item, "failed") # {})
  <2>1. PICK r \in Keyed : table[r].status \in {"leased", "failed"}
    BY <1>4, <1>5
  <2> QED BY <1>1, <1>2, <1>5, <2>1 DEF TableOK
<1>6. CASE WithKey(table, k, item, "pending") # {}
           /\ U = Refresh(table, WithKey(table, k, item, "pending"), ids)
  <2>1. PICK r \in Keyed : /\ table[r].status = "pending"
                           /\ U = [table EXCEPT ![r].ids = ids, ![r].ready = TRUE]
    <3> DEFINE pending == WithKey(table, k, item, "pending")
    <3>1. pending = {r \in Keyed : table[r].status = "pending"}
      BY <1>4
    <3> DEFINE first == CHOOSE r \in pending : TRUE
    <3>2. first \in pending
      BY <1>6
    <3>3. U = [table EXCEPT ![first].ids = ids, ![first].ready = TRUE]
      BY <1>6 DEF Refresh
    <3> HIDE DEF pending, first
    <3> QED BY <3>1, <3>2, <3>3
  <2>2. r \in RowIds /\ table[r] \in Row /\ table[r].token = Free
    BY <1>1, <2>1 DEF TableOK
  <2>3. U[r] = [table[r] EXCEPT !.ids = ids, !.ready = TRUE]
    BY <2>1, <2>2 DEF TableOK
  <2>4. Requested(U[r], table[r], ids)
    <3>1. [table[r] EXCEPT !.ids = ids, !.ready = TRUE] \in Row
      BY <2>2 DEF Row
    <3> QED BY <2>1, <2>2, <2>3, <3>1 DEF Requested, Row
  <2>5. U = [table EXCEPT ![r] = U[r]]
    BY <2>1, <2>2, <2>3 DEF TableOK
  <2> QED BY <1>2, <2>1, <2>2, <2>4, <2>5
<1>7. CASE /\ WithKey(table, k, item, "leased") = {} /\ WithKey(table, k, item, "pending") = {}
           /\ WithKey(table, k, item, "failed") = {}
           /\ U = Insert(table, k, item, ids)
  <2>1. \A r \in Keyed : table[r].status = "absent"
    BY <1>2, <1>4, <1>7 DEF Row
  <2>2. item \notin Artefacts => (CHOOSE b \in FreeSlots(table, k) : TRUE) \in Backfills
    <3> SUFFICES ASSUME item \notin Artefacts PROVE FreeSlots(table, k) # {}
      BY DEF FreeSlots
    <3>1. <<k, 1>> \in Keyed
      BY <1>1, <1>3, RowIdFacts
    <3> QED BY <2>1, <3>1, RowIdFacts DEF FreeSlots
  <2>3. PICK s \in KeyOf(item) :
          U = [table EXCEPT ![<<k, s>>] = [NoRow EXCEPT !.ids = ids, !.status = "pending", !.ready = TRUE]]
    BY <1>1, <1>7, <2>2 DEF Insert
  <2> DEFINE r == <<k, s>>
  <2>4. r \in Keyed /\ r \in RowIds
    BY <1>1, <1>3, RowIdFacts DEF KeyOf
  <2>5. U[r] = [NoRow EXCEPT !.ids = ids, !.status = "pending", !.ready = TRUE]
    BY <2>3, <2>4 DEF TableOK
  <2>6. Requested(U[r], table[r], ids)
    <3>1. RetryLimit \in Nat /\ ids \in SUBSET Artefacts
      BY ConstantsAssumption
    <3>2. U[r] = [ids |-> ids, status |-> "pending", attempts |-> 0, token |-> Free, ready |-> TRUE]
      BY <2>5 DEF NoRow
    <3>3. table[r].status = "absent"
      BY <2>1, <2>4
    <3> HIDE DEF U, r
    <3>4. U[r] \in Row
      BY ONLY <3>1, <3>2 DEF Row
    <3> QED BY <3>2, <3>3, <3>4 DEF Requested
  <2>7. U = [table EXCEPT ![r] = U[r]]
    BY <2>3, <2>5
  <2> HIDE DEF r
  <2> QED BY <1>2, <1>3, <2>1, <2>4, <2>6, <2>7
<1> QED BY <1>5, <1>6, <1>7 DEF Upsert

LEMMA NoRowTyped ==
    /\ NoRow \in Row /\ NoRow.status = "absent" /\ NoRow.token = Free /\ NoRow.ids = {}
    /\ Idle \in Batch /\ Idle.phase = "idle"
<1>1. RetryLimit \in Nat
  BY ConstantsAssumption
<1> QED BY <1>1 DEF NoRow, Row, Idle, Batch

\* What every settling, releasing and orphaning statement does to a row it hits.
QuietRow(old, new) ==
    /\ new \in Row
    /\ new.token # Free <=> new.status = "leased"
    /\ new.ids = old.ids
    /\ new.status = "absent" <=> old.status = "absent"
    /\ new.token \in {Free, Gone, old.token}

LEMMA QuietEdits ==
    ASSUME TableOK(rows), NEW r \in RowIds
    PROVE  /\ QuietRow(rows[r], rows[r])
           /\ rows[r].status # "absent" => \A s \in {"pending", "failed"}, b \in BOOLEAN :
                QuietRow(rows[r], [rows[r] EXCEPT !.status = s, !.token = Free, !.ready = b])
           /\ rows[r].status # "absent" =>
                QuietRow(rows[r], [rows[r] EXCEPT !.status = "pending", !.token = Free])
           /\ rows[r].status = "leased" => QuietRow(rows[r], [rows[r] EXCEPT !.token = Gone])
           /\ rows[r].status = "failed" => QuietRow(rows[r], [rows[r] EXCEPT !.status = "pending"])
           /\ rows[r].status # "absent" => QuietRow(rows[r], [rows[r] EXCEPT !.ready = TRUE])
<1> DEFINE row == rows[r]
<1>1. row \in Row /\ (row.token # Free <=> row.status = "leased")
  BY DEF TableOK
<1>2. Gone # Free
  BY ConstantsAssumption
<1> HIDE DEF row
<1>3. QuietRow(row, row)
  BY ONLY <1>1 DEF QuietRow
<1>4. ASSUME row.status # "absent", NEW s \in {"pending", "failed"}, NEW b \in BOOLEAN
      PROVE  QuietRow(row, [row EXCEPT !.status = s, !.token = Free, !.ready = b])
  BY ONLY <1>1, <1>4 DEF QuietRow, Row
<1>5. row.status # "absent" => QuietRow(row, [row EXCEPT !.status = "pending", !.token = Free])
  BY ONLY <1>1 DEF QuietRow, Row
<1>6. row.status = "leased" => QuietRow(row, [row EXCEPT !.token = Gone])
  BY ONLY <1>1, <1>2 DEF QuietRow, Row
<1>7. row.status = "failed" => QuietRow(row, [row EXCEPT !.status = "pending"])
  BY ONLY <1>1 DEF QuietRow, Row
<1>8. row.status # "absent" => QuietRow(row, [row EXCEPT !.ready = TRUE])
  BY ONLY <1>1 DEF QuietRow, Row
<1> QED BY <1>3, <1>4, <1>5, <1>6, <1>7, <1>8 DEF row

QuietTable == /\ rows' \in [RowIds -> Row]
              /\ \A r \in RowIds : QuietRow(rows[r], rows'[r])

(***************************************************************************)
(* Settling a batch, orphaning it, releasing leases, retrying and the end  *)
(* of a backoff are quiet: no work enters or leaves a row.                 *)
(***************************************************************************)
LEMMA QuietActions ==
    ASSUME TableOK(rows)
    PROVE  /\ \A w \in Workers : (\/ \E s \in {"pending", "failed"}, b \in BOOLEAN : rows' = Settled(w, s, b)
                                  \/ rows' = Orphaned(w)
                                  \/ rows' = Released(Held(w))) => QuietTable
           /\ \A S \in SUBSET RowIds :
                (rows' = Released(S) /\ \A r \in S : rows[r].token # Free) => QuietTable
           /\ RetryFailed => QuietTable
           /\ \A r \in RowIds : BackoffElapses(r) => QuietTable
           /\ Crash => QuietTable
           /\ rows' = rows => QuietTable
<1>1. ASSUME NEW w \in Workers, NEW r \in Held(w)
      PROVE  rows[r].token = w /\ (r \in RowIds => rows[r].status = "leased")
  BY <1>1, ConstantsAssumption DEF Held, TableOK
<1>2. ASSUME NEW w \in Workers, NEW s \in {"pending", "failed"}, NEW b \in BOOLEAN, rows' = Settled(w, s, b)
      PROVE  QuietTable
  <2>1. \A r \in RowIds : QuietRow(rows[r], rows'[r])
    BY <1>1, <1>2, QuietEdits DEF Settled
  <2> QED BY <1>2, <2>1 DEF QuietTable, QuietRow, Settled
<1>3. ASSUME NEW w \in Workers, rows' = Orphaned(w) PROVE QuietTable
  <2>1. \A r \in RowIds : QuietRow(rows[r], rows'[r])
    BY <1>1, <1>3, QuietEdits DEF Orphaned
  <2> QED BY <1>3, <2>1 DEF QuietTable, QuietRow, Orphaned
<1>4. ASSUME NEW S, rows' = Released(S), \A r \in S : r \in RowIds => rows[r].token # Free PROVE QuietTable
  <2>1. \A r \in RowIds : QuietRow(rows[r], rows'[r])
    BY <1>4, QuietEdits DEF Released, TableOK
  <2> QED BY <1>4, <2>1 DEF QuietTable, QuietRow, Released
<1>5. ASSUME NEW w \in Workers, rows' = Released(Held(w)) PROVE QuietTable
  BY <1>1, <1>4, <1>5, ConstantsAssumption
<1>6. ASSUME RetryFailed PROVE QuietTable
  <2>1. \A r \in RowIds : QuietRow(rows[r], rows'[r])
    BY <1>6, QuietEdits DEF RetryFailed
  <2> QED BY <1>6, <2>1 DEF QuietTable, QuietRow, RetryFailed
<1>7. ASSUME NEW q \in RowIds, BackoffElapses(q) PROVE QuietTable
  <2>1. \A r \in RowIds : QuietRow(rows[r], rows'[r])
    BY <1>7, QuietEdits DEF BackoffElapses, TableOK
  <2> QED BY <1>7, <2>1 DEF QuietTable, QuietRow, BackoffElapses, TableOK
<1>8. ASSUME Crash PROVE QuietTable
  <2>1. \A r \in RowIds : QuietRow(rows[r], rows'[r])
    BY <1>8, QuietEdits DEF Crash
  <2> QED BY <1>8, <2>1 DEF QuietTable, QuietRow, Crash
<1>9. rows' = rows => QuietTable
  BY QuietEdits DEF QuietTable, TableOK
<1> QED BY <1>2, <1>3, <1>4, <1>5, <1>6, <1>7, <1>8, <1>9

LEMMA MinOfTwo ==
    ASSUME NEW a \in Nat, NEW b \in Nat
    PROVE  Min({a, b}) \in {a, b} /\ Min({a, b}) <= a /\ Min({a, b}) <= b
<1>1. \E x \in {a, b} : \A y \in {a, b} : x <= y
  OBVIOUS
<1> QED BY <1>1 DEF Min

(***************************************************************************)
(* The three tables a commit goes through: acknowledgement, follow-ups and *)
(* the replacement row.                                                    *)
(***************************************************************************)
LEMMA AckedFacts ==
    ASSUME NEW table, TableOK(table), NEW w \in Workers
    PROVE  /\ TableOK(Acked(table, w))
           /\ \A r \in RowIds :
                IF r \in worker[w].rows /\ table[r].token = w
                THEN Acked(table, w)[r] = NoRow ELSE Acked(table, w)[r] = table[r]
BY NoRowTyped DEF TableOK, Acked

LEMMA UpsertEachFacts ==
    ASSUME NEW table, TableOK(table), NEW load \in SUBSET Artefacts
    PROVE  /\ TableOK(UpsertEach(table, "summary", load))
           /\ \A r \in RowIds :
                \/ /\ UpsertEach(table, "summary", load)[r] = table[r]
                   /\ (r[1] = "summary" /\ r[2] \in load) => table[r].status \in {"leased", "failed"}
                \/ /\ r[1] = "summary" /\ r[2] \in load
                   /\ Requested(UpsertEach(table, "summary", load)[r], table[r], {r[2]})
<1> DEFINE U == UpsertEach(table, "summary", load)
<1> DEFINE Good(r) ==
      \/ U[r] = table[r] /\ ((r[1] = "summary" /\ r[2] \in load) => table[r].status \in {"leased", "failed"})
      \/ r[1] = "summary" /\ r[2] \in load /\ Requested(U[r], table[r], {r[2]})
<1>1. ASSUME NEW r \in RowIds PROVE Good(r)
  <2> DEFINE row == table[r]
  <2>1. row \in Row /\ (row.token # Free <=> row.status = "leased")
    BY DEF TableOK
  <2>2. CASE r[1] # "summary" \/ r[2] \notin load \/ row.status \in {"leased", "failed"}
    BY <2>2 DEF UpsertEach
  <2>3. CASE r[1] = "summary" /\ r[2] \in load /\ row.status = "pending"
    <3>1. U[r] = [row EXCEPT !.ids = {r[2]}, !.ready = TRUE]
      BY <2>3 DEF UpsertEach
    <3>2. {r[2]} \in SUBSET Artefacts
      BY <2>3
    <3> HIDE DEF row, U
    <3>3. U[r] \in Row
      BY ONLY <2>1, <3>1, <3>2 DEF Row
    <3>4. U[r].ids = {r[2]} /\ U[r].status = "pending" /\ U[r].token = Free
      BY ONLY <2>1, <2>3, <3>1 DEF Row
    <3> QED BY <2>3, <3>3, <3>4 DEF Requested, row
  <2>4. CASE r[1] = "summary" /\ r[2] \in load /\ row.status = "absent"
    <3>1. U[r] = [NoRow EXCEPT !.ids = {r[2]}, !.status = "pending", !.ready = TRUE]
      BY <2>4 DEF UpsertEach
    <3>2. {r[2]} \in SUBSET Artefacts /\ NoRow \in Row
      BY <2>4, NoRowTyped
    <3>3. U[r] \in Row /\ U[r].ids = {r[2]} /\ U[r].status = "pending" /\ U[r].token = Free
      <4> HIDE DEF U
      <4> QED BY <3>1, <3>2 DEF Row, NoRow
    <3> QED BY <2>4, <3>3 DEF Requested
  <2> QED BY <2>1, <2>2, <2>3, <2>4 DEF Row
<1>2. U \in [RowIds -> Row]
  <2>1. \A r \in RowIds : U[r] \in Row
    BY <1>1 DEF Requested, TableOK
  <2>2. U = [r \in RowIds |-> U[r]]
    BY DEF UpsertEach
  <2> HIDE DEF U
  <2> QED BY <2>1, <2>2
<1>3. TableOK(U)
  BY <1>1, <1>2 DEF TableOK, Requested
<1> QED BY <1>1, <1>3

\* What a commit may do to a row.
Acknowledged(w, r) == r \in worker[w].rows /\ rows[r].token = w
Followed(w, r) == /\ r[1] = "summary" /\ r[2] \in worker[w].load
                  /\ Requested(rows'[r], rows[r], {r[2]})
Replaces(w, r) == /\ worker[w].rest # {} /\ r[1] = "refresh" /\ r[2] \in Backfills
                  /\ rows'[r].ids = worker[w].rest /\ rows'[r].status = "pending" /\ rows'[r].token = Free
                  /\ rows[r].status = "absent" \/ Acknowledged(w, r)

LEMMA CommitTable ==
    ASSUME TableOK(rows), NEW w \in Workers, CommitSummary(w), "refresh" \in Mailboxes,
           worker[w].load \in SUBSET Artefacts, worker[w].rest \in SUBSET Artefacts
    PROVE  /\ TableOK(rows')
           /\ \A r \in RowIds :
                \/ rows'[r] = rows[r] /\ ~Acknowledged(w, r)
                \/ rows'[r] = NoRow /\ Acknowledged(w, r)
                \/ Followed(w, r) \/ Replaces(w, r)
           /\ worker[w].rest # {} => \E r \in RowIds : Replaces(w, r)
           /\ "summary" \in Mailboxes => \A a \in worker[w].load :
                LET r == <<"summary", a>>
                IN Acknowledged(w, r) \/ Followed(w, r)
                   \/ (rows'[r] = rows[r] /\ rows[r].status \in {"leased", "failed"})
<1> DEFINE load == worker[w].load
<1> DEFINE rest == worker[w].rest
<1> DEFINE F == IF "summary" \in Representations THEN UpsertEach(rows, "summary", load) ELSE rows
<1> DEFINE A == Acked(F, w)
<1>0. Free # w
  BY ConstantsAssumption
<1>1. TableOK(F)
  BY UpsertEachFacts
<1>2. ASSUME NEW r \in RowIds
      PROVE  \/ F[r] = rows[r] /\ ((r[1] = "summary" /\ r[2] \in load) => rows[r].status \in {"leased", "failed"})
             \/ r[1] = "summary" /\ r[2] \in load /\ Requested(F[r], rows[r], {r[2]})
  <2>1. r[1] \in Mailboxes
    BY RowIdFacts
  <2> QED BY <2>1, UpsertEachFacts DEF Representations
<1>3. TableOK(A) /\ \A r \in RowIds : IF r \in worker[w].rows /\ F[r].token = w THEN A[r] = NoRow ELSE A[r] = F[r]
  BY <1>1, AckedFacts
<1>4. /\ rest # {} => FreeSlots(A, "refresh") # {}
      /\ rows' = IF rest = {} THEN A ELSE Insert(A, "refresh", 1, rest)
  BY DEF CommitSummary
<1> HIDE DEF F, A
<1>5. ASSUME NEW r \in RowIds
      PROVE  \/ A[r] = rows[r] /\ ~Acknowledged(w, r)
                /\ ((r[1] = "summary" /\ r[2] \in load) => rows[r].status \in {"leased", "failed"})
             \/ A[r] = NoRow /\ Acknowledged(w, r)
             \/ /\ r[1] = "summary" /\ r[2] \in load
                /\ Requested(A[r], rows[r], {r[2]}) /\ ~Acknowledged(w, r)
  <2>1. CASE F[r] = rows[r]
    BY <1>2, <1>3, <2>1 DEF Acknowledged, Requested
  <2>2. CASE Requested(F[r], rows[r], {r[2]}) /\ r[1] = "summary" /\ r[2] \in load
    <3>1. rows[r].token = Free
      BY <2>2 DEF Requested, TableOK
    <3> QED BY <1>0, <1>3, <2>2, <3>1 DEF Acknowledged, Requested
  <2> QED BY <1>2, <2>1, <2>2
<1>6. CASE rest = {}
  <2>1. rows' = A
    BY <1>4, <1>6
  <2> QED BY <1>3, <1>5, <1>6, <2>1, RowIdFacts DEF Followed, Replaces
<1>7. CASE rest # {}
  <2>1. PICK b : b = CHOOSE slot \in FreeSlots(A, "refresh") : TRUE
    OBVIOUS
  <2>2. b \in Backfills /\ A[<<"refresh", b>>].status = "absent"
    BY <1>4, <1>7, <2>1 DEF FreeSlots
  <2> DEFINE q == <<"refresh", b>>
  <2> DEFINE new == [NoRow EXCEPT !.ids = rest, !.status = "pending", !.ready = TRUE]
  <2>3. rows' = [A EXCEPT ![q] = new]
    BY <1>4, <1>7, <2>1, RowIdFacts DEF Insert
  <2>4. q \in RowIds /\ q[1] = "refresh" /\ q[2] \in Backfills
    BY <2>2, RowIdFacts
  <2>5. new \in Row /\ new.ids = rest /\ new.status = "pending" /\ new.token = Free
    BY NoRowTyped DEF NoRow, Row
  <2>6. A[q].status = "absent"
    BY <2>2
  <2> HIDE DEF q, new
  <2>7. rows'[q] = new /\ \A r \in RowIds : r # q => rows'[r] = A[r]
    BY <1>3, <2>3, <2>4 DEF TableOK
  <2>8. TableOK(rows')
    BY <1>3, <2>3, <2>4, <2>5, <2>7 DEF TableOK
  <2>9. Replaces(w, q)
    <3>1. rows[q].status = "absent" \/ Acknowledged(w, q)
      BY <1>5, <2>4, <2>6 DEF Requested
    <3> QED BY <1>7, <2>4, <2>5, <2>7, <3>1 DEF Replaces
  <2>10. \A r \in RowIds : r # q =>
            \/ rows'[r] = rows[r] /\ ~Acknowledged(w, r)
               /\ ((r[1] = "summary" /\ r[2] \in load) => rows[r].status \in {"leased", "failed"})
            \/ rows'[r] = NoRow /\ Acknowledged(w, r)
            \/ Followed(w, r)
    BY <1>5, <2>7 DEF Followed
  <2>11. "summary" \in Mailboxes => \A a \in load : <<"summary", a>> \in RowIds /\ <<"summary", a>> # q
            /\ <<"summary", a>>[1] = "summary" /\ <<"summary", a>>[2] = a
    BY <2>4, RowIdFacts
  <2> QED BY <2>4, <2>8, <2>9, <2>10, <2>11
<1> QED BY <1>6, <1>7

LEMMA UpsertTyped ==
    ASSUME NEW table, TableOK(table), NEW k \in Mailboxes, NEW item \in Artefacts \cup {1},
           NEW ids \in SUBSET Artefacts
    PROVE  TableOK(Upsert(table, k, item, ids))
<1> DEFINE U == Upsert(table, k, item, ids)
<1>1. PICK r \in RowIds :
        /\ U = [table EXCEPT ![r] = U[r]]
        /\ U[r] = table[r] \/ Requested(U[r], table[r], ids)
  BY UpsertFacts
<1> HIDE DEF U
<1>2. U[r] \in Row /\ (U[r].token # Free <=> U[r].status = "leased")
  BY <1>1 DEF Requested, TableOK
<1>3. U \in [RowIds -> Row]
  BY <1>1, <1>2 DEF TableOK
<1>4. \A q \in RowIds : q # r => U[q] = table[q]
  BY <1>1 DEF TableOK
<1>5. TableOK(U)
  BY <1>2, <1>3, <1>4 DEF TableOK
<1> QED BY <1>5 DEF U

(***************************************************************************)
(* Type correctness, per action.                                           *)
(***************************************************************************)
LEMMA TypeFacts ==
    ASSUME TypeOK
    PROVE  /\ TableOK(rows)
           /\ \A w \in Workers : /\ worker[w] \in Batch /\ worker[w].rows \subseteq RowIds
                                 /\ worker[w].ids \subseteq Artefacts
                                 /\ worker[w].load \subseteq Artefacts
                                 /\ worker[w].rest \subseteq Artefacts
           /\ \A w \in Workers : worker'[w] = Idle => worker'[w] \in Batch
           /\ [w \in Workers |-> Idle] \in [Workers -> Batch]
           /\ \A w \in Workers : [worker EXCEPT ![w] = Idle] \in [Workers -> Batch]
           /\ NoRebuild \in [status : {"none", "pending", "running", "failed"},
                             phase : {"none", "claimed", "read"},
                             seen : SUBSET (Representations \X Artefacts)]
BY NoRowTyped DEF TypeOK, TableOK, Batch, NoRebuild

LEMMA EnqueueTyped ==
    ASSUME TypeOK, NEW k \in Mailboxes, NEW item \in Artefacts \cup {1}, NEW ids \in SUBSET Artefacts,
           Enqueue(k, item, ids)
    PROVE  TypeOK'
<1>1. TableOK(rows')
  BY TypeFacts, UpsertTyped DEF Enqueue
<1>2. wanted' \in [Mailboxes -> SUBSET Artefacts] /\ shed' \in [Mailboxes -> SUBSET Artefacts]
  BY DEF Enqueue, TypeOK
<1>3. enqueues' \in 0 .. MaxEnqueues
  BY ConstantsAssumption DEF Enqueue, TypeOK
<1> QED BY <1>1, <1>2, <1>3 DEF Enqueue, TypeOK, TableOK

Leases(w, k, S, most) ==
    rows' = LeasedRows(w, S) /\ worker' = [worker EXCEPT ![w] = LeasedBatch(k, S, most)]

LEMMA ClaimTyped ==
    ASSUME TypeOK, NEW w \in Workers, Claim(w)
    PROVE  TypeOK'
<1>0. PICK k \in MailboxesOf(w) : \E S \in Batches(k) : \E most \in S : Leases(w, k, S, most)
  BY DEF Claim, Leases
<1>1. PICK S \in Batches(k) : \E most \in S : Leases(w, k, S, most)
  BY <1>0
<1>2. PICK most \in S : Leases(w, k, S, most)
  BY <1>1
<1> USE DEF Leases, LeasedRows, LeasedBatch
<1>3. S \subseteq RowIds /\ k \in Mailboxes
  BY DEF Batches, Ready, MailboxesOf, Representations
<1>4. \A r \in RowIds : rows[r] \in Row /\ rows[r].ids \subseteq Artefacts /\ rows[r].attempts \in 0 .. RetryLimit
  BY DEF TypeOK, Row
<1>5. ASSUME NEW n \in 0 .. RetryLimit PROVE Claimed(n) \in 0 .. RetryLimit
  <2>1. n + 1 \in Nat /\ RetryLimit \in Nat
    BY ConstantsAssumption
  <2>2. Min({n + 1, RetryLimit}) \in {n + 1, RetryLimit} /\ Min({n + 1, RetryLimit}) <= RetryLimit
    BY <2>1, MinOfTwo
  <2> QED BY <2>1, <2>2 DEF Claimed
<1>6. w # Free
  BY ConstantsAssumption
<1>7. ASSUME NEW r \in S
      PROVE  /\ rows'[r] \in Row /\ rows'[r].status = "leased" /\ rows'[r].token = w
  <2>1. Claimed(rows[r].attempts) \in 0 .. RetryLimit /\ rows[r] \in Row
    BY <1>3, <1>4, <1>5
  <2> DEFINE n == Claimed(rows[r].attempts)
  <2>2. rows'[r] = [rows[r] EXCEPT !.status = "leased", !.token = w, !.attempts = n]
    BY <1>2, <1>3, <1>4 DEF Row
  <2> HIDE DEF n
  <2> QED BY <2>1, <2>2 DEF Row, n
<1>8. TableOK(rows')
  <2>1. rows' \in [RowIds -> Row]
    BY <1>2, <1>4, <1>7
  <2> QED BY <1>2, <1>6, <1>7, <2>1, TypeFacts DEF TableOK
<1>9. worker' \in [Workers -> Batch]
  <2> DEFINE ids == UNION {rows[r].ids : r \in S}
  <2> DEFINE n == Claimed(rows[most].attempts)
  <2> DEFINE b == \E r \in S : r[2] \in Backfills
  <2>1. ids \in SUBSET Artefacts /\ n \in 0 .. RetryLimit /\ b \in BOOLEAN
    BY <1>3, <1>4, <1>5
  <2>2. worker' = [worker EXCEPT ![w] = [Idle EXCEPT !.phase = "leased", !.kind = k, !.rows = S,
                      !.ids = ids, !.backfill = b, !.attempts = n]]
    BY <1>2
  <2>3. S \in SUBSET RowIds /\ k \in Mailboxes \cup {"refresh"}
    BY <1>3
  <2> HIDE DEF ids, n, b
  <2>4. [Idle EXCEPT !.phase = "leased", !.kind = k, !.rows = S,
                     !.ids = ids, !.backfill = b, !.attempts = n] \in Batch
    BY ONLY <2>1, <2>3, NoRowTyped DEF Batch, Idle
  <2> QED BY <2>2, <2>4 DEF TypeOK
<1> QED BY <1>8, <1>9 DEF TypeOK, TableOK, Claim, history

LEMMA PrepareTyped ==
    ASSUME TypeOK, NEW w \in Workers, Prepare(w)
    PROVE  TypeOK'
<1>1. PICK S \in SUBSET worker[w].ids :
        worker' = [worker EXCEPT ![w].phase = "prepared",
                     ![w].load = Embeddable(worker[w].kind, S), ![w].rest = worker[w].ids \ S,
                     ![w].signal = Signals(worker[w].kind, Embeddable(worker[w].kind, S), worker[w].ids \ S)]
  BY DEF Prepare
<1> DEFINE load == Embeddable(worker[w].kind, S)
<1> DEFINE rest == worker[w].ids \ S
<1> DEFINE signal == Signals(worker[w].kind, load, rest)
<1>2. worker[w] \in Batch /\ worker[w].ids \subseteq Artefacts
  BY TypeFacts
<1>3. load \in SUBSET Artefacts /\ rest \in SUBSET Artefacts /\ signal \in BOOLEAN
  BY <1>2 DEF Embeddable, Signals
<1>4. worker' = [worker EXCEPT ![w] = [worker[w] EXCEPT !.phase = "prepared", !.load = load,
                                                        !.rest = rest, !.signal = signal]]
  BY <1>1, <1>2 DEF TypeOK, Batch
<1> HIDE DEF load, rest, signal
<1>5. [worker[w] EXCEPT !.phase = "prepared", !.load = load, !.rest = rest, !.signal = signal] \in Batch
  BY ONLY <1>2, <1>3 DEF Batch
<1> QED BY <1>4, <1>5 DEF TypeOK, Prepare, history

LEMMA QuietTableTyped == ASSUME QuietTable PROVE TableOK(rows')
BY DEF QuietTable, QuietRow, TableOK

LEMMA UpsetTyped == ASSUME TypeOK, Upset PROVE upsets' \in 0 .. MaxUpsets
BY ConstantsAssumption DEF TypeOK, Upset

\* What the steps that settle, release or orphan rows do to the state.
QuietStep ==
    /\ QuietTable
    /\ UNCHANGED <<done, unbuilt, history, enqueues>>
    /\ \A w \in Workers : worker'[w] \in {worker[w], Idle}
    /\ DOMAIN worker' = Workers /\ worker' = [w \in DOMAIN worker' |-> worker'[w]]
    /\ rebuild' \in {rebuild, NoRebuild, [NoRebuild EXCEPT !.status = "pending"],
                     [NoRebuild EXCEPT !.status = "failed"], [NoRebuild EXCEPT !.status = "running"],
                     [rebuild EXCEPT !.status = "running", !.phase = "claimed"],
                     [rebuild EXCEPT !.phase = "none", !.seen = {}]}
    /\ up' \in BOOLEAN /\ missed' \in BOOLEAN
    /\ upsets' \in 0 .. MaxUpsets

LEMMA QuietStepTyped == ASSUME TypeOK, QuietStep PROVE TypeOK'
<1>1. TableOK(rows')
  BY QuietTableTyped DEF QuietStep
<1>2. worker' \in [Workers -> Batch]
  BY NoRowTyped DEF QuietStep, TypeOK
<1> DEFINE Jobs == [status : {"none", "pending", "running", "failed"},
                    phase : {"none", "claimed", "read"},
                    seen : SUBSET (Representations \X Artefacts)]
<1>3. rebuild' \in Jobs
  <2>1. rebuild \in Jobs /\ NoRebuild \in Jobs
    BY TypeFacts DEF TypeOK
  <2>2. [NoRebuild EXCEPT !.status = "pending"] \in Jobs /\ [NoRebuild EXCEPT !.status = "failed"] \in Jobs
        /\ [NoRebuild EXCEPT !.status = "running"] \in Jobs
    BY ONLY <2>1
  <2>3. [rebuild EXCEPT !.status = "running", !.phase = "claimed"] \in Jobs
        /\ [rebuild EXCEPT !.phase = "none", !.seen = {}] \in Jobs
    BY ONLY <2>1
  <2> QED BY <2>1, <2>2, <2>3 DEF QuietStep
<1> HIDE DEF Jobs
<1>4. up' \in BOOLEAN /\ missed' \in BOOLEAN /\ upsets' \in 0 .. MaxUpsets
  BY DEF QuietStep
<1> QED BY <1>1, <1>2, <1>3, <1>4 DEF QuietStep, TypeOK, TableOK, history, Jobs

(***************************************************************************)
(* These actions are quiet: they move neither work nor results.            *)
(***************************************************************************)
LEMMA WorkerQuiet ==
    ASSUME TypeOK, NEW w \in Workers,
           (\E transient \in BOOLEAN : PrepareErr(w, transient)) \/ CommitFault(w) \/ Abandon(w) \/ ExpireLease(w)
    PROVE  QuietStep
<1>1. TableOK(rows) /\ worker \in [Workers -> Batch] /\ missed \in BOOLEAN /\ up \in BOOLEAN
      /\ upsets \in 0 .. MaxUpsets
  BY TypeFacts DEF TypeOK
<1>2. QuietTable
  <2>1. \/ \E s \in {"pending", "failed"}, b \in BOOLEAN : rows' = Settled(w, s, b)
        \/ rows' = Orphaned(w) \/ rows' = Released(Held(w))
    BY DEF PrepareErr, CommitFault, Abandon, ExpireLease
  <2> QED BY <1>1, <2>1, QuietActions
<1>3. /\ UNCHANGED <<done, unbuilt, history, enqueues, rebuild, up>>
      /\ worker' \in {worker, [worker EXCEPT ![w] = Idle]}
      /\ missed' \in {missed, missed \/ Interrupted(w)}
      /\ upsets' = upsets \/ Upset
  BY DEF PrepareErr, CommitFault, Abandon, ExpireLease
<1>4. /\ \A v \in Workers : worker'[v] \in {worker[v], Idle}
      /\ DOMAIN worker' = Workers /\ worker' = [v \in DOMAIN worker' |-> worker'[v]]
  BY <1>1, <1>3
<1>5. missed' \in BOOLEAN
  BY <1>1, <1>3 DEF Interrupted
<1> QED BY <1>1, <1>2, <1>3, <1>4, <1>5, UpsetTyped DEF QuietStep

LEMMA OtherQuiet ==
    ASSUME TypeOK,
           \/ \E r \in RowIds : ExpireOrphan(r) \/ BackoffElapses(r)
           \/ RetryFailed \/ ClaimRebuild \/ RebuildErr \/ RebuildFault
           \/ Crash \/ Restart
    PROVE  QuietStep
<1>1. TableOK(rows) /\ worker \in [Workers -> Batch] /\ missed \in BOOLEAN /\ up \in BOOLEAN
      /\ upsets \in 0 .. MaxUpsets
  BY TypeFacts DEF TypeOK
<1>2. QuietTable
  <2>1. CASE \E r \in RowIds : ExpireOrphan(r)
    <3>1. PICK r \in RowIds : rows[r].token = Gone /\ rows' = Released({r})
      BY <2>1 DEF ExpireOrphan
    <3> QED BY <1>1, <3>1, QuietActions, ConstantsAssumption
  <2>2. CASE Restart
    <3> DEFINE S == {r \in RowIds : rows[r].status = "leased"}
    <3>1. rows' = Released(S) /\ S \subseteq RowIds /\ \A r \in S : rows[r].token # Free
      BY <1>1, <2>2 DEF Restart, TableOK
    <3> HIDE DEF S
    <3> QED BY <1>1, <3>1, QuietActions
  <2>3. CASE ClaimRebuild \/ RebuildErr \/ RebuildFault
    BY <1>1, <2>3, QuietActions DEF ClaimRebuild, RebuildErr, RebuildFault
  <2> QED BY <1>1, <2>1, <2>2, <2>3, QuietActions
<1>3. UNCHANGED <<done, unbuilt, history, enqueues>>
  BY DEF ExpireOrphan, BackoffElapses, RetryFailed, ClaimRebuild, RebuildErr, RebuildFault, Crash, Restart, history
<1>4. worker' \in {worker, [w \in Workers |-> Idle]}
  BY DEF ExpireOrphan, BackoffElapses, RetryFailed, ClaimRebuild, RebuildErr, RebuildFault, Crash, Restart
<1>5. /\ \A v \in Workers : worker'[v] \in {worker[v], Idle}
      /\ DOMAIN worker' = Workers /\ worker' = [v \in DOMAIN worker' |-> worker'[v]]
  BY <1>1, <1>4
<1>6. upsets' = upsets \/ Upset
  BY DEF ExpireOrphan, BackoffElapses, RetryFailed, ClaimRebuild, RebuildErr, RebuildFault, Crash, Restart
<1>7. up' \in {up, TRUE, FALSE}
  BY DEF ExpireOrphan, BackoffElapses, RetryFailed, ClaimRebuild, RebuildErr, RebuildFault, Crash, Restart
<1>8. missed' \in BOOLEAN
  BY <1>1 DEF ExpireOrphan, BackoffElapses, RetryFailed, ClaimRebuild, RebuildErr, RebuildFault, Crash, Restart
<1>9. rebuild' \in {rebuild, NoRebuild, [NoRebuild EXCEPT !.status = "pending"],
                    [NoRebuild EXCEPT !.status = "failed"], [NoRebuild EXCEPT !.status = "running"],
                    [rebuild EXCEPT !.status = "running", !.phase = "claimed"],
                    [rebuild EXCEPT !.phase = "none", !.seen = {}]}
  BY DEF ExpireOrphan, BackoffElapses, RetryFailed, ClaimRebuild, RebuildErr, RebuildFault, Crash, Restart
<1> QED BY <1>1, <1>2, <1>3, <1>5, <1>6, <1>7, <1>8, <1>9, UpsetTyped DEF QuietStep

LEMMA CommitSummaryTyped ==
    ASSUME TypeOK, NEW w \in Workers, CommitSummary(w), "refresh" \in Mailboxes
    PROVE  TypeOK'
<1>1. worker[w].load \in SUBSET Artefacts /\ worker[w].rest \in SUBSET Artefacts
  BY TypeFacts
<1>2. TableOK(rows')
  BY <1>1, TypeFacts, CommitTable
<1>3. done' \in [Mailboxes -> SUBSET Artefacts] /\ wanted' \in [Mailboxes -> SUBSET Artefacts]
      /\ shed' \in [Mailboxes -> SUBSET Artefacts]
  BY <1>1 DEF CommitSummary, TypeOK
<1>4. worker' \in [Workers -> Batch]
  BY TypeFacts DEF CommitSummary
<1>5. UNCHANGED <<rebuild, unbuilt, up, missed, enqueues, upsets>>
  BY DEF CommitSummary
<1> QED BY <1>2, <1>3, <1>4, <1>5 DEF TypeOK, TableOK

LEMMA CommitEmbeddingTyped ==
    ASSUME TypeOK, NEW w \in Workers, CommitEmbedding(w), worker[w].kind \in Mailboxes
    PROVE  TypeOK'
<1>1. worker[w].load \in SUBSET Artefacts /\ worker[w] \in Batch
  BY TypeFacts
<1>2. done' \in [Mailboxes -> SUBSET Artefacts]
  BY <1>1 DEF CommitEmbedding, TypeOK
<1>3. unbuilt' \subseteq Representations \X Artefacts
  <2>1. worker[w].kind \in Representations
    BY DEF CommitEmbedding, Representations
  <2> QED BY <1>1, <2>1 DEF CommitEmbedding, TypeOK
<1>4. worker' \in [Workers -> Batch]
  <2>1. [worker[w] EXCEPT !.phase = "written"] \in Batch
    BY ONLY <1>1 DEF Batch
  <2>2. worker' = [worker EXCEPT ![w] = [worker[w] EXCEPT !.phase = "written"]]
    BY DEF CommitEmbedding
  <2> QED BY <2>1, <2>2 DEF TypeOK
<1>5. UNCHANGED <<rows, rebuild, up, wanted, shed, missed, enqueues, upsets>>
  BY DEF CommitEmbedding, history
<1> QED BY <1>2, <1>3, <1>4, <1>5 DEF TypeOK

LEMMA FinalizeTyped ==
    ASSUME TypeOK, NEW w \in Workers, Finalize(w), worker[w].kind \in Mailboxes
    PROVE  TypeOK'
<1>1. worker[w].rest \in SUBSET Artefacts /\ worker[w] \in Batch
  BY TypeFacts
<1>2. TableOK(Acked(rows, w))
  BY TypeFacts, AckedFacts
<1>3. TableOK(rows')
  BY <1>1, <1>2, UpsertTyped DEF Finalize
<1>4. shed' \in [Mailboxes -> SUBSET Artefacts]
  <2>1. ASSUME NEW table, TableOK(table), NEW k PROVE Carried(table, k) \subseteq Artefacts
    BY <2>1 DEF Carried, TableOK, Row
  <2>2. PICK lost \in SUBSET Artefacts, kept \in SUBSET Artefacts :
          shed' = [shed EXCEPT ![worker[w].kind] = (@ \ kept) \cup lost]
    <3>1. rows' = IF worker[w].rest = {} THEN Acked(rows, w)
                  ELSE Upsert(Acked(rows, w), worker[w].kind, 1, worker[w].rest)
      BY DEF Finalize
    <3>2. shed' = [shed EXCEPT ![worker[w].kind] =
                     (@ \ Carried(rows', worker[w].kind)) \cup
                     ((Carried(Acked(rows, w), worker[w].kind) \ Carried(rows', worker[w].kind))
                        \ done[worker[w].kind])]
      BY <3>1 DEF Finalize
    <3> QED BY <1>2, <1>3, <2>1, <3>2
  <2> QED BY <2>2 DEF TypeOK
<1>5. rebuild' \in {rebuild, [NoRebuild EXCEPT !.status = "pending"]}
  BY DEF Finalize, SignalRebuild
<1>6. rebuild' \in [status : {"none", "pending", "running", "failed"},
                    phase : {"none", "claimed", "read"},
                    seen : SUBSET (Representations \X Artefacts)]
  BY <1>5, TypeFacts DEF TypeOK
<1>7. worker' \in [Workers -> Batch] /\ missed' \in BOOLEAN
  BY TypeFacts DEF Finalize, TypeOK
<1>8. UNCHANGED <<done, unbuilt, up, wanted, enqueues, upsets>>
  BY DEF Finalize
<1> QED BY <1>3, <1>4, <1>6, <1>7, <1>8 DEF TypeOK, TableOK

LEMMA PruneTyped ==
    ASSUME TypeOK, NEW r \in RowIds, PruneFailed(r)
    PROVE  TypeOK'
<1>1. TableOK(rows')
  BY TypeFacts, NoRowTyped DEF PruneFailed, TableOK
<1>2. shed' \in [Mailboxes -> SUBSET Artefacts]
  BY RowIdFacts DEF PruneFailed, TypeOK, Row
<1>3. missed' \in BOOLEAN
  BY DEF PruneFailed, TypeOK
<1> QED BY <1>1, <1>2, <1>3 DEF PruneFailed, TypeOK, TableOK

LEMMA RebuildTyped ==
    ASSUME TypeOK, ReadEmbeddings \/ RebuildOk
    PROVE  TypeOK'
<1>1. rebuild' \in [status : {"none", "pending", "running", "failed"},
                    phase : {"none", "claimed", "read"},
                    seen : SUBSET (Representations \X Artefacts)]
  BY TypeFacts DEF ReadEmbeddings, RebuildOk, TypeOK
<1>2. unbuilt' \subseteq Representations \X Artefacts
  BY DEF ReadEmbeddings, RebuildOk, TypeOK
<1> QED BY <1>1, <1>2 DEF ReadEmbeddings, RebuildOk, TypeOK, history

(***************************************************************************)
(* The accounts.  A batch that no step touches keeps its account, and the  *)
(* quiet steps keep all of them.                                           *)
(***************************************************************************)
LEMMA CarriedFacts ==
    ASSUME NEW table, NEW k, NEW a
    PROVE  a \in Carried(table, k) <=> \E r \in RowIds : r[1] = k /\ a \in table[r].ids
BY DEF Carried

LEMMA TokenFacts == ASSUME NEW w \in Workers PROVE w # Free /\ w # Gone
BY ConstantsAssumption

LEMMA KindFacts ==
    ASSUME NEW w \in Workers, BatchFits(w), worker[w].phase # "idle"
    PROVE  /\ worker[w].kind \in Mailboxes
           /\ "refresh" \in Mailboxes \/ worker[w].kind = "code"
           /\ worker[w].kind \in {"refresh", "code", "summary"}
           /\ worker[w].kind # "refresh" => worker[w].kind \in Representations
BY ConstantsAssumption DEF BatchFits, MailboxesOf, Representations

LEMMA BatchKept ==
    ASSUME NEW w \in Workers, worker'[w] = worker[w], BatchFits(w), worker[w].rows \subseteq RowIds,
           \A k \in Mailboxes : done[k] \subseteq done'[k],
           \A r \in RowIds : rows'[r].token = w => rows[r].token = w /\ rows'[r].ids = rows[r].ids
    PROVE  BatchFits(w)'
<1>1. CASE worker[w].phase = "idle"
  BY <1>1 DEF BatchFits
<1>2. CASE worker[w].phase # "idle"
  <2> DEFINE b == worker[w]
  <2>1. b.kind \in Mailboxes /\ (b.kind = "summary" => "refresh" \in Mailboxes)
    BY <1>2, KindFacts
  <2>2. \A r \in b.rows : (rows'[r].token = w) => r \in Held(w) /\ rows'[r].ids = rows[r].ids
    BY DEF Held
  <2>3. \A r \in Held(w)' : r \in Held(w) /\ rows'[r].ids = rows[r].ids
    BY <2>2 DEF Held
  <2>4. done[b.kind] \subseteq done'[b.kind]
        /\ (b.kind = "summary" => done["refresh"] \subseteq done'["refresh"])
    BY <2>1
  <2> QED BY <1>2, <2>3, <2>4 DEF BatchFits
<1> QED BY <1>1, <1>2

LEMMA IdleFits == ASSUME NEW w \in Workers, worker'[w] = Idle PROVE BatchFits(w)'
BY NoRowTyped DEF BatchFits

LEMMA QuietAccounts ==
    ASSUME TypeOK, Accounts, QuietStep
    PROVE  Accounts'
<1>1. \A r \in RowIds : QuietRow(rows[r], rows'[r])
  BY DEF QuietStep, QuietTable
<1>2. done' = done /\ wanted' = wanted /\ shed' = shed
  BY DEF QuietStep, history
<1>3. RowsCarryWork'
  BY <1>1 DEF Accounts, RowsCarryWork, QuietRow
<1>4. OneEmbeddingBackfill'
  BY <1>1 DEF Accounts, OneEmbeddingBackfill, IsBackfill, QuietRow
<1>5. SummariesFirst'
  BY <1>1, <1>2 DEF Accounts, SummariesFirst, QuietRow
<1>6. BatchesFit'
  <2>1. ASSUME NEW w \in Workers PROVE BatchFits(w)'
    <3>1. CASE worker'[w] = Idle
      BY <3>1, IdleFits
    <3>2. CASE worker'[w] = worker[w]
      <4>1. \A r \in RowIds : rows'[r].token = w => rows[r].token = w /\ rows'[r].ids = rows[r].ids
        BY <1>1, TokenFacts DEF QuietRow
      <4> QED BY <1>2, <3>2, <4>1, BatchKept, TypeFacts DEF Accounts, BatchesFit
    <3> QED BY <3>1, <3>2 DEF QuietStep
  <2> QED BY <2>1 DEF BatchesFit
<1>7. NoWorkLost'
  <2>1. \A k \in Mailboxes : \A a : a \in Carried(rows, k) => a \in Carried(rows', k)
    BY <1>1, CarriedFacts DEF QuietRow
  <2> QED BY <1>2, <2>1 DEF Accounts, NoWorkLost
<1> QED BY <1>3, <1>4, <1>5, <1>6, <1>7 DEF Accounts

\* An embedding that is owed a rebuild stays so while nothing touches what owes it.
LEMMA OwedKept ==
    ASSUME NEW e, Owed(e), rebuild' = rebuild, up' = up, missed => missed',
           \A w \in Workers : worker[w].phase = "written" => worker'[w] = worker[w],
           \A r \in RowIds : (r[1] = "code" /\ rows[r].status # "absent") => rows'[r].status # "absent"
    PROVE  Owed(e)'
<1>1. CASE \E w \in Workers : /\ worker[w].phase = "written" /\ worker[w].kind = e[1]
                              /\ (worker[w].signal \/ worker[w].rest # {})
  BY <1>1 DEF Owed
<1>2. CASE e[1] = "code" /\ \E r \in RowIds : r[1] = "code" /\ rows[r].status # "absent"
  BY <1>2 DEF Owed
<1>3. CASE missed \/ rebuild.status = "pending" \/ rebuild.phase = "claimed"
           \/ (rebuild.phase = "read" /\ e \in rebuild.seen) \/ (rebuild.status = "running" /\ ~up)
  BY <1>3 DEF Owed
<1> QED BY <1>1, <1>2, <1>3 DEF Owed

LEMMA EnqueuePreserves ==
    ASSUME IInv, NEW k \in Mailboxes, NEW item \in Artefacts \cup {1}, NEW ids \in SUBSET Artefacts,
           ids # {}, item \in Artefacts => ids = {item}, item \notin Artefacts => wanted[k] \subseteq ids,
           Enqueue(k, item, ids)
    PROVE  IInv'
<1>1. TypeOK /\ TableOK(rows) /\ TypeOK'
  BY EnqueueTyped, TypeFacts DEF IInv
<1>2. PICK r \in RowIds :
        /\ r[1] = k /\ r[2] \in KeyOf(item)
        /\ rows' = [rows EXCEPT ![r] = rows'[r]]
        /\ \/ rows[r].status \in {"leased", "failed"} /\ rows'[r] = rows[r]
           \/ Requested(rows'[r], rows[r], ids)
        /\ rows[r].status = "absent" =>
             \A q \in RowIds : (q[1] = k /\ q[2] \in KeyOf(item)) => rows[q].status = "absent"
  BY <1>1, UpsertFacts DEF Enqueue
<1>3. \A q \in RowIds : q # r => rows'[q] = rows[q]
  BY <1>1, <1>2 DEF TableOK
<1>4. k # "summary" /\ UNCHANGED <<done, worker, rebuild, unbuilt, up, missed>>
  BY DEF Enqueue
<1>5. IF item \in Artefacts THEN r[2] = item ELSE r[2] \in Backfills
  BY <1>2, RowIdFacts DEF KeyOf
<1>6. RowsCarryWork'
  <2>1. ASSUME NEW q \in RowIds
        PROVE  /\ rows'[q].status = "absent" <=> rows'[q].ids = {}
               /\ q[2] \in Artefacts => rows'[q].ids \subseteq {q[2]}
    <3>1. CASE rows'[q] = rows[q]
      BY <3>1 DEF IInv, Accounts, RowsCarryWork
    <3>2. CASE q = r /\ Requested(rows'[r], rows[r], ids)
      BY <1>5, <3>2, RowIdFacts DEF Requested
    <3> QED BY <1>2, <1>3, <3>1, <3>2
  <2> QED BY <2>1 DEF RowsCarryWork
<1>7. OneEmbeddingBackfill'
  <2>1. \A q \in RowIds : q # r => (IsBackfill(q)' <=> IsBackfill(q))
    BY <1>3 DEF IsBackfill
  <2>2. CASE rows[r].status # "absent" \/ r[2] \notin Backfills
    BY <1>2, <2>1, <2>2 DEF IInv, Accounts, OneEmbeddingBackfill, IsBackfill, Requested
  <2>3. CASE rows[r].status = "absent" /\ r[2] \in Backfills
    <3>1. item \notin Artefacts /\ KeyOf(item) = Backfills
      BY <1>5, <2>3, RowIdFacts DEF KeyOf
    <3>2. \A q \in RowIds : q[1] = k => ~IsBackfill(q)
      BY <1>2, <2>3, <3>1 DEF IsBackfill
    <3> QED BY <1>2, <1>4, <2>1, <3>2 DEF IInv, Accounts, OneEmbeddingBackfill
  <2> QED BY <2>2, <2>3
<1>8. SummariesFirst'
  <2>1. wanted'["summary"] = wanted["summary"]
    BY <1>1, <1>4 DEF Enqueue, TypeOK
  <2> QED BY <1>2, <1>3, <1>4, <2>1 DEF IInv, Accounts, SummariesFirst
<1>9. BatchesFit'
  <2>1. ASSUME NEW w \in Workers PROVE BatchFits(w)'
    <3>1. \A q \in RowIds : rows'[q].token = w => rows[q].token = w /\ rows'[q].ids = rows[q].ids
      BY <1>2, <1>3, TokenFacts DEF Requested
    <3> QED BY <1>1, <1>4, <3>1, BatchKept, TypeFacts DEF IInv, Accounts, BatchesFit
  <2> QED BY <2>1 DEF BatchesFit
<1>10. NoWorkLost'
  <2>1. ASSUME NEW m \in Mailboxes, NEW a \in wanted'[m]
        PROVE  a \in done'[m] \cup shed'[m] \cup Carried(rows', m)
    <3>1. CASE m = k
      <4>1. wanted'[k] = wanted[k] \cup ids /\ shed'[k] = (shed[k] \cup ids) \ Carried(rows', k)
        BY <1>1 DEF Enqueue, TypeOK
      <4>2. CASE a \in ids
        BY <3>1, <4>1, <4>2
      <4>3. CASE a \notin ids
        <5>1. a \in wanted[k] /\ item \in Artefacts /\ ids = {item}
          BY <3>1, <4>1, <4>3
        <5>2. a \in Carried(rows, k) => a \in Carried(rows', k)
          <6> SUFFICES ASSUME a \in Carried(rows, k) PROVE a \in Carried(rows', k)
            OBVIOUS
          <6>1. PICK q \in RowIds : q[1] = k /\ a \in rows[q].ids
            BY CarriedFacts
          <6>2. q # r
            BY <1>5, <4>3, <5>1, <6>1 DEF IInv, Accounts, RowsCarryWork
          <6> QED BY <1>3, <6>1, <6>2, CarriedFacts
        <5> QED BY <1>4, <3>1, <4>1, <5>1, <5>2 DEF IInv, Accounts, NoWorkLost
      <4> QED BY <4>2, <4>3
    <3>2. CASE m # k
      <4>1. wanted'[m] = wanted[m] /\ shed'[m] = shed[m]
        BY <1>1, <3>2 DEF Enqueue, TypeOK
      <4>2. a \in Carried(rows, m) => a \in Carried(rows', m)
        BY <1>2, <1>3, <3>2, CarriedFacts
      <4> QED BY <1>4, <4>1, <4>2 DEF IInv, Accounts, NoWorkLost
    <3> QED BY <3>1, <3>2
  <2> QED BY <2>1 DEF NoWorkLost
<1>11. RebuildRuns' /\ EveryEmbeddingOwed'
  <2>1. \A q \in RowIds : rows[q].status # "absent" => rows'[q].status # "absent"
    BY <1>2, <1>3 DEF Requested
  <2> QED BY <1>4, <2>1, OwedKept DEF IInv, RebuildRuns, EveryEmbeddingOwed
<1> QED BY <1>1, <1>6, <1>7, <1>8, <1>9, <1>10, <1>11 DEF IInv, Accounts

LEMMA ClaimPreserves ==
    ASSUME IInv, NEW w \in Workers, Claim(w)
    PROVE  IInv'
<1>1. TypeOK /\ TableOK(rows) /\ TypeOK'
  BY ClaimTyped, TypeFacts DEF IInv
<1>2. PICK k \in MailboxesOf(w) : \E S \in Batches(k) : \E most \in S : Leases(w, k, S, most)
  BY DEF Claim, Leases
<1>3. PICK S \in Batches(k) : \E most \in S : Leases(w, k, S, most)
  BY <1>2
<1>4. PICK most \in S : Leases(w, k, S, most)
  BY <1>3
<1>5. /\ S \subseteq RowIds /\ S # {}
      /\ \A r \in S : r[1] = k /\ rows[r].status = "pending"
      /\ (\A r \in S : r[2] \in Artefacts) \/ (\A r \in S : r[2] \in Backfills)
  BY RowIdFacts DEF Batches, Ready
<1>6. /\ \A r \in RowIds \ S : rows'[r] = rows[r]
      /\ \A r \in S : rows'[r].status = "leased" /\ rows'[r].token = w /\ rows'[r].ids = rows[r].ids
  BY <1>1, <1>4, <1>5 DEF Leases, LeasedRows, TableOK, Row
<1>7. /\ worker' = [worker EXCEPT ![w] = LeasedBatch(k, S, most)]
      /\ worker[w].phase = "idle"
      /\ UNCHANGED <<done, rebuild, unbuilt, up, wanted, shed, missed>>
  BY <1>4 DEF Leases, Claim, history
<1> DEFINE b == worker'[w]
<1>8. /\ b.phase = "leased" /\ b.kind = k /\ b.rows = S
      /\ b.ids = UNION {rows[r].ids : r \in S}
      /\ b.backfill = (\E r \in S : r[2] \in Backfills)
  BY <1>1, <1>7 DEF TypeOK, LeasedBatch, Idle
<1> HIDE DEF b
<1>9. \A r \in RowIds : rows'[r].ids = rows[r].ids /\ (rows'[r].status = "absent" <=> rows[r].status = "absent")
  BY <1>5, <1>6
<1>10. RowsCarryWork' /\ OneEmbeddingBackfill' /\ SummariesFirst'
  <2>1. RowsCarryWork'
    BY <1>9 DEF IInv, Accounts, RowsCarryWork
  <2>2. OneEmbeddingBackfill'
    BY <1>9 DEF IInv, Accounts, OneEmbeddingBackfill, IsBackfill
  <2>3. SummariesFirst'
    BY <1>7, <1>9 DEF IInv, Accounts, SummariesFirst
  <2> QED BY <2>1, <2>2, <2>3
<1>11. BatchFits(w)'
  <2>1. b.ids # {}
    BY <1>5, <1>8 DEF IInv, Accounts, RowsCarryWork
  <2>2. \A r \in b.rows : r[1] = b.kind /\ (b.backfill <=> r[2] \in Backfills)
    BY <1>5, <1>8, RowIdFacts
  <2>3. \A r \in Held(w)' : rows'[r].ids \subseteq b.ids
    BY <1>6, <1>8 DEF Held, b
  <2>4. b.kind = "summary" => b.ids \subseteq done'["refresh"] /\ ~b.backfill
    <3> SUFFICES ASSUME k = "summary" PROVE b.ids \subseteq done["refresh"] /\ ~b.backfill
      BY <1>7, <1>8
    <3>1. k \in Mailboxes
      BY DEF MailboxesOf, Representations
    <3>2. \A r \in S : rows[r].ids \subseteq done["refresh"]
      BY <1>5, <3>1 DEF IInv, Accounts, SummariesFirst
    <3>3. \A r \in S : r[2] \notin Backfills
      BY <1>5 DEF IInv, Accounts, OneEmbeddingBackfill, IsBackfill
    <3> QED BY <1>8, <3>2, <3>3
  <2> QED BY <1>8, <2>1, <2>2, <2>3, <2>4 DEF BatchFits, b
<1>12. BatchesFit'
  <2>1. ASSUME NEW v \in Workers, v # w PROVE BatchFits(v)'
    <3>1. worker'[v] = worker[v]
      BY <1>1, <1>7, <2>1 DEF TypeOK
    <3>2. \A r \in RowIds : rows'[r].token = v => rows[r].token = v /\ rows'[r].ids = rows[r].ids
      BY <1>6, <2>1
    <3> QED BY <1>1, <1>7, <3>1, <3>2, BatchKept, TypeFacts DEF IInv, Accounts, BatchesFit
  <2> QED BY <1>11, <2>1 DEF BatchesFit
<1>13. NoWorkLost'
  <2>1. \A m \in Mailboxes : \A a : a \in Carried(rows, m) => a \in Carried(rows', m)
    BY <1>9, CarriedFacts
  <2> QED BY <1>7, <2>1 DEF IInv, Accounts, NoWorkLost
<1>14. RebuildRuns' /\ EveryEmbeddingOwed'
  <2>1. \A v \in Workers : worker[v].phase = "written" => worker'[v] = worker[v]
    BY <1>1, <1>7 DEF TypeOK
  <2> QED BY <1>7, <1>9, <2>1, OwedKept DEF IInv, RebuildRuns, EveryEmbeddingOwed
<1> QED BY <1>1, <1>10, <1>12, <1>13, <1>14 DEF IInv, Accounts

LEMMA PreparePreserves ==
    ASSUME IInv, NEW w \in Workers, Prepare(w)
    PROVE  IInv'
<1>1. TypeOK /\ TypeOK' /\ BatchFits(w)
  BY PrepareTyped DEF IInv, Accounts, BatchesFit
<1> DEFINE b == worker[w]
<1>2. PICK S \in SUBSET b.ids :
        /\ ~b.backfill => S = b.ids
        /\ worker' = [worker EXCEPT ![w].phase = "prepared",
                        ![w].load = Embeddable(b.kind, S), ![w].rest = b.ids \ S,
                        ![w].signal = Signals(b.kind, Embeddable(b.kind, S), b.ids \ S)]
  BY DEF Prepare
<1>3. UNCHANGED <<rows, done, rebuild, unbuilt, up, wanted, shed, missed>> /\ b.phase = "leased"
  BY DEF Prepare, history
<1>4. Embeddable(b.kind, S) = S
  BY <1>1, <1>3 DEF BatchFits, Embeddable
<1> DEFINE c == worker'[w]
<1>5. /\ c.phase = "prepared" /\ c.kind = b.kind /\ c.rows = b.rows /\ c.ids = b.ids /\ c.backfill = b.backfill
      /\ c.load = S /\ c.rest = b.ids \ S /\ c.signal = Signals(b.kind, S, b.ids \ S)
  BY <1>1, <1>2, <1>4 DEF TypeOK, Batch
<1> HIDE DEF c
<1>6. BatchFits(w)'
  <2>1. /\ b.kind \in MailboxesOf(w) /\ b.ids # {}
        /\ \A r \in b.rows : r[1] = b.kind /\ (b.backfill <=> r[2] \in Backfills)
        /\ \A r \in Held(w) : rows[r].ids \subseteq b.ids
        /\ b.kind = "summary" => b.ids \subseteq done["refresh"] /\ ~b.backfill
    BY <1>1, <1>3 DEF BatchFits
  <2>2. Held(w)' = Held(w)
    BY <1>3, <1>5 DEF Held, c
  <2>3. c.ids \subseteq c.load \cup c.rest /\ (~c.backfill => c.rest = {})
    BY <1>2, <1>5
  <2>4. c.kind = "code" => c.signal \/ c.rest # {}
    BY <1>5, <2>1 DEF Signals
  <2>5. c.kind # "refresh" => c.signal \/ c.rest # {} \/ c.load \subseteq done[c.kind]
    BY <1>5, <2>1 DEF Signals
  <2> HIDE DEF b
  <2> QED BY <1>3, <1>5, <2>1, <2>2, <2>3, <2>4, <2>5 DEF BatchFits, c
<1>7. BatchesFit'
  <2>1. ASSUME NEW v \in Workers, v # w PROVE BatchFits(v)'
    <3>1. worker'[v] = worker[v]
      BY <1>1, <1>2, <2>1 DEF TypeOK
    <3> QED BY <1>1, <1>3, <3>1, BatchKept, TypeFacts DEF IInv, Accounts, BatchesFit
  <2> QED BY <1>6, <2>1 DEF BatchesFit
<1>8. RowsCarryWork' /\ OneEmbeddingBackfill' /\ SummariesFirst' /\ NoWorkLost'
  BY <1>3 DEF IInv, Accounts, RowsCarryWork, OneEmbeddingBackfill, IsBackfill, SummariesFirst, NoWorkLost, Carried
<1>9. RebuildRuns' /\ EveryEmbeddingOwed'
  <2>1. \A v \in Workers : worker[v].phase = "written" => worker'[v] = worker[v]
    BY <1>1, <1>2, <1>3 DEF TypeOK
  <2> QED BY <1>3, <2>1, OwedKept DEF IInv, RebuildRuns, EveryEmbeddingOwed
<1> QED BY <1>1, <1>7, <1>8, <1>9 DEF IInv, Accounts

LEMMA CommitSummaryPreserves ==
    ASSUME IInv, NEW w \in Workers, CommitSummary(w)
    PROVE  IInv'
<1> DEFINE b == worker[w]
<1>1. TypeOK /\ TableOK(rows) /\ BatchFits(w) /\ b.phase = "prepared" /\ b.kind = "refresh"
      /\ b.load \in SUBSET Artefacts /\ b.rest \in SUBSET Artefacts
  BY TypeFacts DEF IInv, Accounts, BatchesFit, CommitSummary
<1>2. "refresh" \in Mailboxes
  BY <1>1, KindFacts
<1>3. TypeOK'
  BY <1>1, <1>2, CommitSummaryTyped
<1>4. /\ done' = [done EXCEPT !["refresh"] = @ \cup b.load]
      /\ wanted' = [k \in Mailboxes |-> IF k = "summary" THEN wanted[k] \cup b.load ELSE wanted[k]]
      /\ shed' = [k \in Mailboxes |-> IF k = "refresh" THEN shed[k] \ b.rest ELSE shed[k]]
      /\ worker' = [worker EXCEPT ![w] = Idle]
      /\ UNCHANGED <<rebuild, unbuilt, up, missed>>
  BY DEF CommitSummary
<1>5. /\ \A r \in RowIds :
            \/ rows'[r] = rows[r] /\ ~Acknowledged(w, r)
            \/ rows'[r] = NoRow /\ Acknowledged(w, r)
            \/ Followed(w, r) \/ Replaces(w, r)
      /\ b.rest # {} => \E r \in RowIds : Replaces(w, r)
      /\ "summary" \in Mailboxes => \A a \in b.load :
            LET r == <<"summary", a>>
            IN Acknowledged(w, r) \/ Followed(w, r)
               \/ (rows'[r] = rows[r] /\ rows[r].status \in {"leased", "failed"})
  BY <1>1, <1>2, CommitTable
<1>6. \A r \in RowIds : Acknowledged(w, r) => /\ r[1] = "refresh" /\ rows[r].ids \subseteq b.ids
                                               /\ r \in Held(w)
  BY <1>1 DEF Acknowledged, BatchFits, Held
<1>7. b.ids \subseteq b.load \cup b.rest
  BY <1>1 DEF BatchFits
<1>8. /\ \A r \in RowIds : (rows[r].status = "absent" <=> rows[r].ids = {})
                           /\ (r[2] \in Artefacts => rows[r].ids \subseteq {r[2]})
      /\ \A r \in RowIds : IsBackfill(r) => r[1] # "summary"
  BY DEF IInv, Accounts, RowsCarryWork, OneEmbeddingBackfill
<1>9. RowsCarryWork'
  <2>1. ASSUME NEW r \in RowIds
        PROVE  /\ rows'[r].status = "absent" <=> rows'[r].ids = {}
               /\ r[2] \in Artefacts => rows'[r].ids \subseteq {r[2]}
    BY <1>5, <1>8, RowIdFacts, NoRowTyped DEF Followed, Replaces, Requested
  <2> QED BY <2>1 DEF RowsCarryWork
<1>10. OneEmbeddingBackfill'
  <2>1. ASSUME NEW r \in RowIds, IsBackfill(r)', r[1] # "refresh" PROVE IsBackfill(r)
    BY <1>1, <1>5, <2>1, RowIdFacts, NoRowTyped DEF IsBackfill, Followed, Replaces
  <2> QED BY <2>1 DEF IInv, Accounts, OneEmbeddingBackfill
<1>11. SummariesFirst'
  <2> SUFFICES ASSUME "summary" \in Mailboxes
               PROVE  /\ wanted'["summary"] \subseteq done'["refresh"]
                      /\ \A r \in RowIds : r[1] = "summary" => rows'[r].ids \subseteq done'["refresh"]
    BY DEF SummariesFirst
  <2>1. done'["refresh"] = done["refresh"] \cup b.load
    BY <1>1, <1>2, <1>4 DEF TypeOK
  <2>2. wanted["summary"] \subseteq done["refresh"]
        /\ \A r \in RowIds : r[1] = "summary" => rows[r].ids \subseteq done["refresh"]
    BY DEF IInv, Accounts, SummariesFirst
  <2> QED BY <1>4, <1>5, <2>1, <2>2, NoRowTyped DEF Followed, Replaces, Requested
<1>12. BatchesFit'
  <2>1. ASSUME NEW v \in Workers, v # w PROVE BatchFits(v)'
    <3>1. worker'[v] = worker[v]
      BY <1>1, <1>4, <2>1 DEF TypeOK
    <3>2. \A r \in RowIds : rows'[r].token = v => rows[r].token = v /\ rows'[r].ids = rows[r].ids
      BY <1>5, TokenFacts, NoRowTyped DEF Followed, Replaces, Requested
    <3>3. \A k \in Mailboxes : done[k] \subseteq done'[k]
      BY <1>1, <1>4 DEF TypeOK
    <3> QED BY <1>1, <3>1, <3>2, <3>3, BatchKept, TypeFacts DEF IInv, Accounts, BatchesFit
  <2>2. BatchFits(w)'
    BY <1>1, <1>4, IdleFits DEF TypeOK
  <2> QED BY <2>1, <2>2 DEF BatchesFit
<1>13. NoWorkLost'
  <2>1. ASSUME NEW m \in Mailboxes, NEW a \in wanted'[m]
        PROVE  a \in done'[m] \cup shed'[m] \cup Carried(rows', m)
    <3>1. CASE m = "refresh"
      <4>1. wanted'[m] = wanted[m] /\ done'[m] = done[m] \cup b.load /\ shed'[m] = shed[m] \ b.rest
        BY <1>1, <1>4, <3>1 DEF TypeOK
      <4>2. a \in b.rest => a \in Carried(rows', m)
        BY <1>5, <3>1, CarriedFacts DEF Replaces
      <4>3. a \in Carried(rows, m) => a \in Carried(rows', m) \cup b.load \cup b.rest
        <5> SUFFICES ASSUME a \in Carried(rows, m) PROVE a \in Carried(rows', m) \cup b.load \cup b.rest
          OBVIOUS
        <5>1. PICK q \in RowIds : q[1] = "refresh" /\ a \in rows[q].ids
          BY <3>1, CarriedFacts
        <5>2. rows'[q] = rows[q] \/ Acknowledged(w, q)
          BY <1>5, <1>8, <5>1 DEF Followed, Replaces
        <5> QED BY <1>6, <1>7, <3>1, <5>1, <5>2, CarriedFacts
      <4> QED BY <4>1, <4>2, <4>3 DEF IInv, Accounts, NoWorkLost
    <3>2. CASE m = "summary"
      <4>1. wanted'[m] = wanted[m] \cup b.load /\ done'[m] = done[m] /\ shed'[m] = shed[m]
        BY <1>1, <1>4, <3>2 DEF TypeOK
      <4>2. CASE a \in b.load
        <5> DEFINE r == <<"summary", a>>
        <5>1. r \in RowIds /\ r[1] = "summary" /\ r[2] = a /\ a \in Artefacts
          BY <1>1, <3>2, <4>2, RowIdFacts
        <5>2. Acknowledged(w, r) \/ Followed(w, r)
              \/ (rows'[r] = rows[r] /\ rows[r].status \in {"leased", "failed"})
          BY <1>5, <3>2, <4>2
        <5> HIDE DEF r
        <5>3. a \in rows'[r].ids
          BY <1>6, <1>8, <5>1, <5>2 DEF Followed, Requested
        <5> QED BY <3>2, <5>1, <5>3, CarriedFacts
      <4>3. a \in Carried(rows, m) => a \in Carried(rows', m)
        <5> SUFFICES ASSUME a \in Carried(rows, m) PROVE a \in Carried(rows', m)
          OBVIOUS
        <5>1. PICK q \in RowIds : q[1] = "summary" /\ a \in rows[q].ids
          BY <3>2, CarriedFacts
        <5>2. rows'[q] = rows[q] \/ Followed(w, q)
          BY <1>5, <1>6, <5>1 DEF Replaces
        <5>3. a \in rows'[q].ids
          BY <1>1, <1>8, <5>1, <5>2 DEF Followed, Requested
        <5> QED BY <3>2, <5>1, <5>3, CarriedFacts
      <4> QED BY <4>1, <4>2, <4>3 DEF IInv, Accounts, NoWorkLost
    <3>3. CASE m \notin {"refresh", "summary"}
      <4>1. wanted'[m] = wanted[m] /\ done'[m] = done[m] /\ shed'[m] = shed[m]
        BY <1>1, <1>4, <3>3 DEF TypeOK
      <4>2. \A q \in RowIds : q[1] = m => rows'[q] = rows[q]
        BY <1>5, <1>6, <3>3 DEF Followed, Replaces
      <4>3. a \in Carried(rows, m) => a \in Carried(rows', m)
        BY <4>2, CarriedFacts
      <4> QED BY <4>1, <4>3 DEF IInv, Accounts, NoWorkLost
    <3> QED BY <3>1, <3>2, <3>3
  <2> QED BY <2>1 DEF NoWorkLost
<1>14. RebuildRuns' /\ EveryEmbeddingOwed'
  <2>1. \A v \in Workers : worker[v].phase = "written" => worker'[v] = worker[v]
    BY <1>1, <1>4 DEF TypeOK
  <2>2. \A q \in RowIds : q[1] = "code" => rows'[q] = rows[q]
    BY <1>5, <1>6 DEF Followed, Replaces
  <2> QED BY <1>4, <2>1, <2>2, OwedKept DEF IInv, RebuildRuns, EveryEmbeddingOwed
<1> QED BY <1>3, <1>9, <1>10, <1>11, <1>12, <1>13, <1>14 DEF IInv, Accounts

LEMMA CommitEmbeddingPreserves ==
    ASSUME IInv, NEW w \in Workers, CommitEmbedding(w)
    PROVE  IInv'
<1> DEFINE b == worker[w]
<1> DEFINE k == worker[w].kind
<1>1. TypeOK /\ BatchFits(w) /\ b.phase = "prepared" /\ k # "refresh" /\ b.load \in SUBSET Artefacts
  BY TypeFacts DEF IInv, Accounts, BatchesFit, CommitEmbedding
<1>2. k \in Mailboxes
  BY <1>1, KindFacts
<1>3. TypeOK'
  BY <1>1, <1>2, CommitEmbeddingTyped
<1>4. /\ done' = [done EXCEPT ![k] = @ \cup b.load]
      /\ unbuilt' = unbuilt \cup {<<k, a>> : a \in b.load \ done[k]}
      /\ worker' = [worker EXCEPT ![w].phase = "written"]
      /\ UNCHANGED <<rows, rebuild, up, wanted, shed, missed>>
  BY DEF CommitEmbedding, history
<1> DEFINE c == worker'[w]
<1>5. /\ c.phase = "written" /\ c.kind = k /\ c.rows = b.rows /\ c.ids = b.ids /\ c.backfill = b.backfill
      /\ c.load = b.load /\ c.rest = b.rest /\ c.signal = b.signal
  BY <1>1, <1>4 DEF TypeOK, Batch
<1>6. /\ \A m \in Mailboxes : done[m] \subseteq done'[m] /\ (m # k => done'[m] = done[m])
      /\ done'[k] = done[k] \cup b.load
  BY <1>1, <1>2, <1>4 DEF TypeOK
<1>7. \A v \in Workers : v # w => worker'[v] = worker[v]
  BY <1>1, <1>4 DEF TypeOK
<1> HIDE DEF b, k, c
<1>8. BatchFits(w)'
  <2>1. /\ k \in MailboxesOf(w) /\ b.ids # {}
        /\ \A r \in b.rows : r[1] = k /\ (b.backfill <=> r[2] \in Backfills)
        /\ \A r \in Held(w) : rows[r].ids \subseteq b.ids
        /\ k = "summary" => b.ids \subseteq done["refresh"] /\ ~b.backfill
        /\ b.ids \subseteq b.load \cup b.rest /\ (~b.backfill => b.rest = {})
        /\ k = "code" => b.signal \/ b.rest # {}
    BY <1>1 DEF BatchFits, b, k
  <2>2. Held(w)' = Held(w)
    BY <1>4, <1>5 DEF Held, c, b
  <2>3. k = "summary" => done["refresh"] \subseteq done'["refresh"]
    BY <1>2, <1>6, ConstantsAssumption
  <2> QED BY <1>1, <1>4, <1>5, <1>6, <2>1, <2>2, <2>3 DEF BatchFits, c
<1>9. BatchesFit'
  <2>1. ASSUME NEW v \in Workers, v # w PROVE BatchFits(v)'
    BY <1>1, <1>4, <1>6, <1>7, <2>1, BatchKept, TypeFacts DEF IInv, Accounts, BatchesFit
  <2> QED BY <1>8, <2>1 DEF BatchesFit
<1>10. RowsCarryWork' /\ OneEmbeddingBackfill'
  BY <1>4 DEF IInv, Accounts, RowsCarryWork, OneEmbeddingBackfill, IsBackfill
<1>11. SummariesFirst'
  <2>1. "summary" \in Mailboxes => done["refresh"] \subseteq done'["refresh"]
    BY <1>6, ConstantsAssumption
  <2> QED BY <1>4, <2>1 DEF IInv, Accounts, SummariesFirst
<1>12. NoWorkLost'
  BY <1>4, <1>6 DEF IInv, Accounts, NoWorkLost, Carried
<1>13. RebuildRuns'
  BY <1>4 DEF IInv, RebuildRuns
<1>14. EveryEmbeddingOwed'
  <2>1. ASSUME NEW e \in unbuilt PROVE Owed(e)'
    <3>1. \A v \in Workers : worker[v].phase = "written" => worker'[v] = worker[v]
      BY <1>1, <1>7 DEF b
    <3> QED BY <1>4, <2>1, <3>1, OwedKept DEF IInv, EveryEmbeddingOwed
  <2>2. ASSUME NEW e \in unbuilt', e \notin unbuilt PROVE Owed(e)'
    <3>1. e[1] = k /\ b.load \ done[k] # {}
      BY <1>4, <2>2
    <3>2. b.signal \/ b.rest # {}
      BY <1>1, <3>1 DEF BatchFits, b, k
    <3> QED BY <1>5, <3>1, <3>2 DEF Owed, c
  <2> QED BY <2>1, <2>2 DEF EveryEmbeddingOwed
<1> QED BY <1>3, <1>9, <1>10, <1>11, <1>12, <1>13, <1>14 DEF IInv, Accounts

LEMMA PrunePreserves ==
    ASSUME IInv, NEW r \in RowIds, PruneFailed(r)
    PROVE  IInv'
<1>1. TypeOK /\ TypeOK' /\ r[1] \in Mailboxes
  BY PruneTyped, RowIdFacts DEF IInv
<1>2. /\ rows' = [rows EXCEPT ![r] = NoRow]
      /\ shed' = [shed EXCEPT ![r[1]] = @ \cup rows[r].ids]
      /\ missed' = (missed \/ \E e \in unbuilt : e[1] = r[1])
      /\ UNCHANGED <<done, worker, rebuild, unbuilt, up, wanted>>
  BY DEF PruneFailed
<1>3. rows'[r] = NoRow /\ \A q \in RowIds : q # r => rows'[q] = rows[q]
  BY <1>1, <1>2 DEF TypeOK
<1>4. RowsCarryWork'
  BY <1>3, NoRowTyped DEF IInv, Accounts, RowsCarryWork
<1>5. OneEmbeddingBackfill'
  BY <1>3, NoRowTyped DEF IInv, Accounts, OneEmbeddingBackfill, IsBackfill
<1>6. SummariesFirst'
  BY <1>2, <1>3, NoRowTyped DEF IInv, Accounts, SummariesFirst
<1>7. BatchesFit'
  <2>1. ASSUME NEW v \in Workers PROVE BatchFits(v)'
    <3>1. \A q \in RowIds : rows'[q].token = v => rows[q].token = v /\ rows'[q].ids = rows[q].ids
      BY <1>3, TokenFacts, NoRowTyped
    <3> QED BY <1>1, <1>2, <3>1, BatchKept, TypeFacts DEF IInv, Accounts, BatchesFit
  <2> QED BY <2>1 DEF BatchesFit
<1>8. NoWorkLost'
  <2>1. ASSUME NEW m \in Mailboxes, NEW a \in wanted[m]
        PROVE  a \in done[m] \cup shed'[m] \cup Carried(rows', m)
    <3>1. shed[m] \subseteq shed'[m] /\ (m = r[1] => rows[r].ids \subseteq shed'[m])
      BY <1>1, <1>2 DEF TypeOK
    <3>2. a \in Carried(rows, m) => a \in shed'[m] \cup Carried(rows', m)
      BY <1>3, <3>1, CarriedFacts
    <3> QED BY <3>1, <3>2 DEF IInv, Accounts, NoWorkLost
  <2> QED BY <1>2, <2>1 DEF NoWorkLost
<1>9. RebuildRuns' /\ EveryEmbeddingOwed'
  <2>1. ASSUME NEW e \in unbuilt PROVE Owed(e)'
    <3>1. CASE e[1] = r[1]
      BY <1>2, <3>1 DEF Owed
    <3>2. CASE e[1] # r[1]
      BY <1>2, <1>3, <3>2 DEF IInv, EveryEmbeddingOwed, Owed
    <3> QED BY <3>1, <3>2
  <2> QED BY <1>2, <2>1 DEF IInv, RebuildRuns, EveryEmbeddingOwed
<1> QED BY <1>1, <1>4, <1>5, <1>6, <1>7, <1>8, <1>9 DEF IInv, Accounts

(***************************************************************************)
(* The finalisation of an embedding batch.  A batch that still holds its   *)
(* backfill row deletes the only one there is, so that the replacement is  *)
(* inserted with nothing in its way.                                       *)
(***************************************************************************)
Replacement(w, r) ==
    /\ r[1] = "code" /\ r[2] \in Backfills
    /\ rows'[r].status # "absent"
    /\ \/ rows'[r] = rows[r] /\ rows[r].status \in {"leased", "failed"} /\ ~Acknowledged(w, r)
       \/ /\ rows'[r].ids = worker[w].rest /\ rows'[r].status = "pending" /\ rows'[r].token = Free
          /\ Acknowledged(w, r) \/ rows[r].status \in {"pending", "absent"}
    /\ (Acknowledged(w, r) \/ rows[r].status = "absent") =>
         \A q \in RowIds : (q[1] = "code" /\ q[2] \in Backfills) =>
                               Acknowledged(w, q) \/ rows[q].status = "absent"

\* The upsert of a backfill row, whose key all backfills of the mailbox share.
BackfillUpserted(before, after, ids, r) ==
    /\ r[1] = "code" /\ r[2] \in Backfills
    /\ after = [before EXCEPT ![r] = after[r]]
    /\ \/ before[r].status \in {"leased", "failed"} /\ after[r] = before[r]
       \/ Requested(after[r], before[r], ids)
    /\ before[r].status = "absent" =>
         \A q \in RowIds : (q[1] = "code" /\ q[2] \in Backfills) => before[q].status = "absent"

LEMMA BackfillUpsertFacts ==
    ASSUME NEW table, TableOK(table), "code" \in Mailboxes, NEW ids \in SUBSET Artefacts
    PROVE  \E r \in RowIds : BackfillUpserted(table, Upsert(table, "code", 1, ids), ids, r)
<1>1. KeyOf(1) = Backfills
  BY RowIdFacts DEF KeyOf
<1>2. 1 \in Artefacts \cup {1}
  OBVIOUS
<1> QED BY <1>1, <1>2, UpsertFacts DEF BackfillUpserted

LEMMA FinalizeTable ==
    ASSUME IInv, NEW w \in Workers, Finalize(w)
    PROVE  /\ \A q \in RowIds : Acknowledged(w, q) =>
                /\ q[1] = worker[w].kind /\ rows[q].ids \subseteq worker[w].ids /\ q \in Held(w)
                /\ Acked(rows, w)[q] = NoRow
           /\ \A q \in RowIds : ~Acknowledged(w, q) => Acked(rows, w)[q] = rows[q]
           /\ worker[w].rest = {} => rows' = Acked(rows, w)
           /\ worker[w].rest # {} =>
                /\ worker[w].kind = "code" /\ worker[w].backfill
                /\ \E r \in RowIds : /\ Replacement(w, r)
                                     /\ \A q \in RowIds : q # r => rows'[q] = Acked(rows, w)[q]
<1> DEFINE b == worker[w]
<1> DEFINE A == Acked(rows, w)
<1>1. TypeOK /\ TableOK(rows) /\ BatchFits(w) /\ b.phase = "written" /\ b.rest \in SUBSET Artefacts
  BY TypeFacts DEF IInv, Accounts, BatchesFit, Finalize
<1>2. b.kind \in Mailboxes /\ b.kind \in {"code", "summary"}
  BY <1>1, KindFacts DEF BatchFits
<1>3. TableOK(A) /\ \A q \in RowIds : IF Acknowledged(w, q) THEN A[q] = NoRow ELSE A[q] = rows[q]
  BY <1>1, AckedFacts DEF Acknowledged
<1>4. \A q \in RowIds : Acknowledged(w, q) => q[1] = b.kind /\ rows[q].ids \subseteq b.ids /\ q \in Held(w)
  BY <1>1 DEF Acknowledged, BatchFits, Held
<1>5. b.rest = {} => rows' = A
  BY DEF Finalize
<1>6. ASSUME b.rest # {}
      PROVE  /\ b.kind = "code" /\ b.backfill
             /\ \E r \in RowIds : Replacement(w, r) /\ \A q \in RowIds : q # r => rows'[q] = A[q]
  <2>1. b.kind = "code" /\ b.backfill
    BY <1>1, <1>2, <1>6 DEF BatchFits
  <2>2. rows' = Upsert(A, "code", 1, b.rest)
    BY <1>6, <2>1 DEF Finalize
  <2> HIDE DEF A
  <2>4. PICK r \in RowIds : BackfillUpserted(A, rows', b.rest, r)
    <3>1. "code" \in Mailboxes
      BY <1>2, <2>1
    <3>2. TableOK(A) /\ b.rest \in SUBSET Artefacts
      BY <1>1, <1>3
    <3> QED BY <2>2, <3>1, <3>2, BackfillUpsertFacts
  <2>5. \A q \in RowIds : q # r => rows'[q] = A[q]
    BY <1>3, <2>4 DEF TableOK, BackfillUpserted
  <2>6. Replacement(w, r)
    BY <1>3, <2>4, NoRowTyped DEF Replacement, Requested, BackfillUpserted
  <2> QED BY <2>1, <2>5, <2>6
<1> QED BY <1>3, <1>4, <1>5, <1>6

LEMMA FinalizePreserves ==
    ASSUME IInv, NEW w \in Workers, Finalize(w)
    PROVE  IInv'
<1> DEFINE b == worker[w]
<1> DEFINE k == worker[w].kind
<1> DEFINE A == Acked(rows, w)
<1>1. TypeOK /\ TableOK(rows) /\ BatchFits(w) /\ b.phase = "written" /\ b.rest \in SUBSET Artefacts
  BY TypeFacts DEF IInv, Accounts, BatchesFit, Finalize
<1>2. k \in Mailboxes /\ k \in {"code", "summary"}
  BY <1>1, KindFacts DEF BatchFits
<1>3. TypeOK'
  BY <1>1, <1>2, FinalizeTyped
<1>4. /\ worker' = [worker EXCEPT ![w] = Idle]
      /\ shed' = [shed EXCEPT ![k] = (@ \ Carried(rows', k)) \cup ((Carried(A, k) \ Carried(rows', k)) \ done[k])]
      /\ UNCHANGED <<done, unbuilt, up, wanted>>
  <2>1. rows' = IF b.rest = {} THEN A ELSE Upsert(A, k, 1, b.rest)
    BY DEF Finalize
  <2> QED BY <2>1 DEF Finalize
<1>5. /\ rebuild' = IF b.signal THEN SignalRebuild ELSE rebuild
      /\ missed' = IF b.signal THEN rebuild.status = "running" /\ (missed \/ rebuild.phase # "claimed")
                               ELSE missed
  BY DEF Finalize
<1>6. /\ b.ids \subseteq b.load \cup b.rest /\ b.load \subseteq done[k]
      /\ k = "code" => b.signal \/ b.rest # {}
      /\ \A r \in b.rows : r[1] = k /\ (b.backfill <=> r[2] \in Backfills)
  BY <1>1 DEF BatchFits
<1>7. /\ \A q \in RowIds : Acknowledged(w, q) =>
           q[1] = k /\ rows[q].ids \subseteq b.ids /\ q \in Held(w) /\ A[q] = NoRow
      /\ \A q \in RowIds : ~Acknowledged(w, q) => A[q] = rows[q]
      /\ b.rest = {} => rows' = A
      /\ b.rest # {} =>
           /\ k = "code" /\ b.backfill
           /\ \E r \in RowIds : Replacement(w, r) /\ \A q \in RowIds : q # r => rows'[q] = A[q]
  BY FinalizeTable
<1>8. \A q \in RowIds : Acknowledged(w, q) => q \in b.rows
  BY DEF Acknowledged
<1> HIDE DEF A, b, k
<1>9. ASSUME NEW q \in RowIds
      PROVE  rows'[q] = rows[q] \/ rows'[q] = NoRow \/ (Replacement(w, q) /\ b.rest # {} /\ k = "code")
  BY <1>7
<1>10. RowsCarryWork'
  <2>1. ASSUME NEW q \in RowIds
        PROVE  /\ rows'[q].status = "absent" <=> rows'[q].ids = {}
               /\ q[2] \in Artefacts => rows'[q].ids \subseteq {q[2]}
    <3>1. CASE rows'[q] = rows[q] \/ rows'[q] = NoRow
      BY <3>1, NoRowTyped DEF IInv, Accounts, RowsCarryWork
    <3>2. CASE Replacement(w, q) /\ b.rest # {} /\ rows'[q] # rows[q]
      BY <3>2, RowIdFacts DEF Replacement, b
    <3> QED BY <1>9, <3>1, <3>2
  <2> QED BY <2>1 DEF RowsCarryWork
<1>11. OneEmbeddingBackfill'
  <2>1. ASSUME NEW q \in RowIds, IsBackfill(q)', rows'[q] = rows[q] \/ rows'[q] = NoRow
        PROVE  IsBackfill(q)
    BY <2>1, NoRowTyped DEF IsBackfill
  <2>2. CASE b.rest = {}
    <3>1. \A q \in RowIds : rows'[q] = rows[q] \/ rows'[q] = NoRow
      BY <1>7, <2>2
    <3> QED BY <2>1, <3>1 DEF IInv, Accounts, OneEmbeddingBackfill
  <2>3. CASE b.rest # {}
    <3>1. PICK r \in RowIds : Replacement(w, r) /\ \A q \in RowIds : q # r => rows'[q] = A[q]
      BY <1>7, <2>3
    <3>2. ASSUME NEW q \in RowIds, IsBackfill(q)', q # r
          PROVE  IsBackfill(q) /\ ~Acknowledged(w, q)
      BY <1>7, <3>1, <3>2, NoRowTyped DEF IsBackfill
    <3>3. r[1] = "code" /\ r[2] \in Backfills
      BY <3>1 DEF Replacement
    <3>4. ASSUME NEW q \in RowIds, IsBackfill(q)', q[1] = "code", q # r PROVE FALSE
      <4>1. IsBackfill(q) /\ ~Acknowledged(w, q)
        BY <3>2, <3>4
      <4>2. q[2] \in Backfills /\ rows[q].status # "absent"
        BY <4>1 DEF IsBackfill
      <4>3. ~Acknowledged(w, r) /\ rows[r].status # "absent"
        BY <3>1, <3>4, <4>1, <4>2 DEF Replacement
      <4>4. IsBackfill(r)
        BY <3>3, <4>3 DEF IsBackfill
      <4> QED BY <3>3, <3>4, <4>1, <4>4 DEF IInv, Accounts, OneEmbeddingBackfill
    <3>5. \A q \in RowIds : IsBackfill(q)' => q[1] # "summary"
      BY <3>2, <3>3 DEF IInv, Accounts, OneEmbeddingBackfill
    <3>6. \A q, s \in RowIds : (IsBackfill(q)' /\ IsBackfill(s)' /\ q[1] = "code" /\ s[1] = "code") => q = s
      BY <3>4
    <3> QED BY <3>5, <3>6 DEF OneEmbeddingBackfill
  <2> QED BY <2>2, <2>3
<1>12. SummariesFirst'
  BY <1>4, <1>9, NoRowTyped DEF IInv, Accounts, SummariesFirst, Replacement
<1>13. BatchesFit'
  <2>1. ASSUME NEW v \in Workers, v # w PROVE BatchFits(v)'
    <3>1. worker'[v] = worker[v]
      BY <1>1, <1>4, <2>1 DEF TypeOK
    <3>2. \A r \in RowIds : rows'[r].token = v => rows[r].token = v /\ rows'[r].ids = rows[r].ids
      BY <1>9, TokenFacts, NoRowTyped DEF Replacement
    <3> QED BY <1>1, <1>4, <3>1, <3>2, BatchKept, TypeFacts DEF IInv, Accounts, BatchesFit
  <2>2. BatchFits(w)'
    BY <1>1, <1>4, IdleFits DEF TypeOK
  <2> QED BY <2>1, <2>2 DEF BatchesFit
<1>14. NoWorkLost'
  <2>1. ASSUME NEW m \in Mailboxes, NEW a \in wanted[m]
        PROVE  a \in done[m] \cup shed'[m] \cup Carried(rows', m)
    <3>1. CASE m = k
      <4>1. shed'[m] = (shed[m] \ Carried(rows', m)) \cup ((Carried(A, m) \ Carried(rows', m)) \ done[m])
        BY <1>1, <1>2, <1>4, <3>1 DEF TypeOK
      <4>2. a \in Carried(rows, m) => a \in Carried(A, m) \cup Carried(rows', m) \cup done[m]
        <5> SUFFICES ASSUME a \in Carried(rows, m), a \notin done[m]
                     PROVE  a \in Carried(A, m) \cup Carried(rows', m)
          OBVIOUS
        <5>1. PICK q \in RowIds : q[1] = m /\ a \in rows[q].ids
          BY CarriedFacts
        <5>2. CASE ~Acknowledged(w, q)
          BY <1>7, <5>1, <5>2, CarriedFacts
        <5>3. CASE Acknowledged(w, q)
          <6>1. a \in b.rest
            BY <1>6, <1>7, <3>1, <5>1, <5>3
          <6>2. PICK r \in RowIds : Replacement(w, r)
            BY <1>7, <6>1
          <6>3. k = "code" /\ q[2] \in Backfills /\ IsBackfill(q) /\ q[1] = "code"
            <7>1. k = "code" /\ b.backfill /\ q[1] = k
              BY <1>7, <5>3, <6>1
            <7>2. q[2] \in Backfills
              BY <1>6, <1>8, <5>3, <7>1
            <7>3. rows[q].status # "absent"
              BY <5>1 DEF IInv, Accounts, RowsCarryWork
            <7> QED BY <7>1, <7>2, <7>3 DEF IsBackfill
          <6>4. r = q \/ rows[r].status = "absent"
            BY <6>2, <6>3 DEF Replacement, IsBackfill, IInv, Accounts, OneEmbeddingBackfill
          <6>5. rows'[r].ids = b.rest /\ r[1] = "code"
            BY <5>3, <6>2, <6>4 DEF Replacement, b
          <6> QED BY <3>1, <6>1, <6>3, <6>5, CarriedFacts
        <5> QED BY <5>2, <5>3
      <4> QED BY <4>1, <4>2 DEF IInv, Accounts, NoWorkLost
    <3>2. CASE m # k
      <4>1. shed'[m] = shed[m]
        BY <1>1, <1>4, <3>2 DEF TypeOK
      <4>2. \A q \in RowIds : q[1] = m => rows'[q] = rows[q]
        BY <1>7, <3>2 DEF Replacement
      <4>3. a \in Carried(rows, m) => a \in Carried(rows', m)
        BY <4>2, CarriedFacts
      <4> QED BY <4>1, <4>3 DEF IInv, Accounts, NoWorkLost
    <3> QED BY <3>1, <3>2
  <2> QED BY <1>4, <2>1 DEF NoWorkLost
<1>15. RebuildRuns'
  BY <1>4, <1>5 DEF IInv, RebuildRuns, SignalRebuild, NoRebuild
<1>16. EveryEmbeddingOwed'
  <2>1. ASSUME NEW e \in unbuilt PROVE Owed(e)'
    <3>1. CASE b.signal
      <4>1. CASE rebuild.status = "running"
        BY <1>5, <3>1, <4>1 DEF Owed, SignalRebuild
      <4>2. CASE rebuild.status # "running"
        BY <1>5, <3>1, <4>2 DEF Owed, SignalRebuild, NoRebuild
      <4> QED BY <4>1, <4>2
    <3>2. CASE ~b.signal
      <4>1. rebuild' = rebuild /\ missed' = missed
        BY <1>5, <3>2
      <4>2. CASE k = "code"
        <5>1. PICK r \in RowIds : Replacement(w, r)
          BY <1>6, <1>7, <3>2, <4>2
        <5>2. r[1] = "code" /\ rows'[r].status # "absent"
          BY <5>1 DEF Replacement
        <5>3. CASE e[1] = "code"
          BY <5>2, <5>3 DEF Owed
        <5>4. CASE e[1] # "code"
          <6>1. \A v \in Workers : (worker[v].phase = "written" /\ worker[v].kind = e[1]) => worker'[v] = worker[v]
            BY <1>1, <1>4, <4>2, <5>4 DEF k, TypeOK
          <6> QED BY <1>4, <2>1, <4>1, <5>4, <6>1 DEF IInv, EveryEmbeddingOwed, Owed
        <5> QED BY <5>3, <5>4
      <4>3. CASE k = "summary"
        <5>1. b.rest = {} /\ \A q \in RowIds : q[1] = "code" => rows'[q] = rows[q]
          BY <1>7, <4>3
        <5>2. \A v \in Workers : (worker[v].phase = "written" /\ (worker[v].signal \/ worker[v].rest # {}))
                => worker'[v] = worker[v]
          BY <1>1, <1>4, <3>2, <5>1 DEF b, TypeOK
        <5> QED BY <1>4, <2>1, <4>1, <5>1, <5>2 DEF IInv, EveryEmbeddingOwed, Owed
      <4> QED BY <1>2, <4>2, <4>3
    <3> QED BY <3>1, <3>2
  <2> QED BY <1>4, <2>1 DEF EveryEmbeddingOwed
<1> QED BY <1>3, <1>10, <1>11, <1>12, <1>13, <1>14, <1>15, <1>16 DEF IInv, Accounts

(***************************************************************************)
(* A batch that is given up keeps its embeddings owed: by a code row that  *)
(* is left, or else the signal is missed.                                  *)
(***************************************************************************)
LEMMA InterruptedFacts ==
    ASSUME NEW w \in Workers, BatchFits(w), worker[w].phase = "written", QuietTable
    PROVE  \/ Interrupted(w)
           \/ /\ worker[w].kind = "code"
              /\ \E r \in RowIds : r[1] = "code" /\ rows'[r].status # "absent"
BY KindFacts DEF BatchFits, Interrupted, QuietTable, QuietRow

LEMMA WorkerQuietPreserves ==
    ASSUME IInv, NEW w \in Workers,
           (\E transient \in BOOLEAN : PrepareErr(w, transient)) \/ CommitFault(w) \/ Abandon(w) \/ ExpireLease(w)
    PROVE  IInv'
<1>1. TypeOK /\ Accounts /\ QuietStep
  BY WorkerQuiet DEF IInv
<1>2. TypeOK' /\ Accounts'
  BY <1>1, QuietStepTyped, QuietAccounts
<1>3. UNCHANGED <<rebuild, up, unbuilt>> /\ worker' \in {worker, [worker EXCEPT ![w] = Idle]}
  BY DEF PrepareErr, CommitFault, Abandon, ExpireLease
<1>4. \A r \in RowIds : rows[r].status # "absent" => rows'[r].status # "absent"
  BY <1>1 DEF QuietStep, QuietTable, QuietRow
<1>5. missed => missed'
  BY DEF PrepareErr, CommitFault, Abandon, ExpireLease
<1>6. RebuildRuns'
  BY <1>3 DEF IInv, RebuildRuns
<1>7. EveryEmbeddingOwed'
  <2>1. ASSUME NEW e \in unbuilt PROVE Owed(e)'
    <3>1. CASE \A v \in Workers : worker[v].phase = "written" => worker'[v] = worker[v]
      BY <1>3, <1>4, <1>5, <3>1, OwedKept DEF IInv, EveryEmbeddingOwed
    <3>2. CASE ~ \A v \in Workers : worker[v].phase = "written" => worker'[v] = worker[v]
      <4>1. worker[w].phase = "written"
        BY <1>1, <1>3, <3>2 DEF TypeOK
      <4>2. missed' = (missed \/ Interrupted(w))
        BY <1>1, <1>3, <3>2, <4>1 DEF PrepareErr, CommitFault, Abandon, ExpireLease
      <4>3. Interrupted(w) \/ (worker[w].kind = "code" /\ \E r \in RowIds : r[1] = "code" /\ rows'[r].status # "absent")
        BY <1>1, <4>1, InterruptedFacts DEF QuietStep, Accounts, BatchesFit
      <4>4. \A v \in Workers : v # w => worker'[v] = worker[v]
        BY <1>1, <1>3 DEF TypeOK
      <4> QED BY <1>3, <1>4, <2>1, <4>2, <4>3, <4>4 DEF IInv, EveryEmbeddingOwed, Owed
    <3> QED BY <3>1, <3>2
  <2> QED BY <1>3, <2>1 DEF EveryEmbeddingOwed
<1> QED BY <1>2, <1>6, <1>7 DEF IInv

LEMMA OtherQuietPreserves ==
    ASSUME IInv,
           \/ \E r \in RowIds : ExpireOrphan(r) \/ BackoffElapses(r)
           \/ RetryFailed \/ ClaimRebuild \/ RebuildErr \/ RebuildFault
           \/ Crash \/ Restart
    PROVE  IInv'
<1>1. TypeOK /\ Accounts /\ QuietStep
  BY OtherQuiet DEF IInv
<1>2. TypeOK' /\ Accounts'
  BY <1>1, QuietStepTyped, QuietAccounts
<1>3. \A r \in RowIds : rows[r].status # "absent" => rows'[r].status # "absent"
  BY <1>1 DEF QuietStep, QuietTable, QuietRow
<1>4. unbuilt' = unbuilt
  BY <1>1 DEF QuietStep
<1>5. CASE \E r \in RowIds : ExpireOrphan(r) \/ BackoffElapses(r)
  <2>1. UNCHANGED <<worker, rebuild, up, missed>>
    BY <1>5 DEF ExpireOrphan, BackoffElapses
  <2> QED BY <1>2, <1>3, <1>4, <2>1, OwedKept DEF IInv, RebuildRuns, EveryEmbeddingOwed
<1>6. CASE RetryFailed
  <2>1. CASE rebuild.status = "failed"
    <3>1. rebuild'.status = "pending" /\ rebuild'.phase = "none"
      BY <1>6, <2>1 DEF RetryFailed, NoRebuild
    <3> QED BY <1>2, <3>1 DEF IInv, RebuildRuns, EveryEmbeddingOwed, Owed
  <2>2. CASE rebuild.status # "failed"
    <3>1. UNCHANGED <<worker, rebuild, up>> /\ (missed => missed')
      BY <1>6, <2>2 DEF RetryFailed
    <3> QED BY <1>2, <1>3, <1>4, <3>1, OwedKept DEF IInv, RebuildRuns, EveryEmbeddingOwed
  <2> QED BY <2>1, <2>2
<1>7. CASE ClaimRebuild
  <2>1. rebuild'.status = "running" /\ rebuild'.phase = "claimed" /\ up'
    BY <1>1, <1>7 DEF ClaimRebuild, TypeOK
  <2> QED BY <1>2, <2>1 DEF IInv, RebuildRuns, EveryEmbeddingOwed, Owed
<1>8. CASE RebuildErr \/ RebuildFault
  <2>1. rebuild'.phase = "none" /\ missed'
    BY <1>8 DEF RebuildErr, RebuildFault, NoRebuild
  <2> QED BY <1>2, <2>1 DEF IInv, RebuildRuns, EveryEmbeddingOwed, Owed
<1>9. CASE Crash
  <2>1. rebuild'.status = rebuild.status /\ rebuild'.phase = "none" /\ up /\ up' = FALSE
    BY <1>1, <1>9 DEF Crash, TypeOK
  <2>2. missed' = (missed \/ \E w \in Workers : Interrupted(w))
    BY <1>9 DEF Crash
  <2>3. RebuildRuns'
    BY <2>1 DEF RebuildRuns
  <2>4. ASSUME NEW e \in unbuilt PROVE Owed(e)'
    <3>1. CASE \E w \in Workers : worker[w].phase = "written" /\ worker[w].kind = e[1]
      <4>1. PICK w \in Workers : worker[w].phase = "written" /\ worker[w].kind = e[1]
        BY <3>1
      <4>2. Interrupted(w) \/ (e[1] = "code" /\ \E r \in RowIds : r[1] = "code" /\ rows'[r].status # "absent")
        BY <1>1, <4>1, InterruptedFacts DEF QuietStep, Accounts, BatchesFit
      <4> QED BY <2>2, <4>2 DEF Owed
    <3>2. CASE ~\E w \in Workers : worker[w].phase = "written" /\ worker[w].kind = e[1]
      <4>1. Owed(e) /\ RebuildRuns
        BY <2>4 DEF IInv, EveryEmbeddingOwed
      <4> QED BY <1>3, <2>1, <2>2, <3>2, <4>1 DEF Owed, RebuildRuns
    <3> QED BY <3>1, <3>2
  <2> QED BY <1>2, <1>4, <2>3, <2>4 DEF IInv, EveryEmbeddingOwed
<1>10. CASE Restart
  <2>1. rebuild.phase = "none" /\ ~up
    BY <1>10 DEF Restart, IInv, RebuildRuns
  <2>2. CASE rebuild.status = "running"
    <3>1. rebuild'.status = "pending" /\ rebuild'.phase = "none"
      BY <1>10, <2>2 DEF Restart, NoRebuild
    <3> QED BY <1>2, <3>1 DEF IInv, RebuildRuns, EveryEmbeddingOwed, Owed
  <2>3. CASE rebuild.status # "running"
    <3>1. rebuild' = rebuild /\ missed' = missed /\ worker' = worker
      BY <1>10, <2>3 DEF Restart
    <3>2. EveryEmbeddingOwed'
      BY <1>3, <1>4, <2>1, <2>3, <3>1 DEF IInv, EveryEmbeddingOwed, Owed
    <3> QED BY <1>2, <2>1, <3>1, <3>2 DEF IInv, RebuildRuns
  <2> QED BY <2>2, <2>3
<1> QED BY <1>5, <1>6, <1>7, <1>8, <1>9, <1>10

LEMMA RebuildPreserves ==
    ASSUME IInv, ReadEmbeddings \/ RebuildOk
    PROVE  IInv'
<1>1. TypeOK /\ TypeOK'
  BY RebuildTyped DEF IInv
<1>2. UNCHANGED <<rows, done, worker, up, wanted, shed, missed>>
  BY DEF ReadEmbeddings, RebuildOk, history
<1>3. Accounts'
  <2>1. BatchesFit'
    <3>1. ASSUME NEW w \in Workers PROVE BatchFits(w)'
      BY <1>1, <1>2, BatchKept, TypeFacts DEF IInv, Accounts, BatchesFit
    <3> QED BY <3>1 DEF BatchesFit
  <2> QED BY <1>2, <2>1 DEF IInv, Accounts, RowsCarryWork, OneEmbeddingBackfill, IsBackfill,
                            SummariesFirst, NoWorkLost, Carried
<1>4. CASE ReadEmbeddings
  <2>1. rebuild'.phase = "read" /\ rebuild'.status = rebuild.status /\ rebuild'.seen = unbuilt
        /\ unbuilt' = unbuilt /\ rebuild.phase = "claimed"
    BY <1>1, <1>4 DEF ReadEmbeddings, TypeOK
  <2> QED BY <1>1, <1>2, <1>3, <2>1 DEF IInv, RebuildRuns, EveryEmbeddingOwed, Owed
<1>5. CASE RebuildOk
  <2>1. unbuilt' = unbuilt \ rebuild.seen /\ rebuild'.phase = "none" /\ rebuild.phase = "read"
        /\ rebuild.status = "running" /\ up
    BY <1>5 DEF RebuildOk, NoRebuild, IInv, RebuildRuns
  <2>2. EveryEmbeddingOwed'
    BY <1>2, <2>1 DEF IInv, EveryEmbeddingOwed, Owed
  <2> QED BY <1>1, <1>3, <2>1, <2>2 DEF IInv, RebuildRuns
<1> QED BY <1>4, <1>5

LEMMA InitEstablishes == Init => IInv
<1> SUFFICES ASSUME Init PROVE IInv
  OBVIOUS
<1>1. TypeOK
  <2>1. rows \in [RowIds -> Row] /\ \A r \in RowIds : rows[r].token # Free <=> rows[r].status = "leased"
    BY NoRowTyped DEF Init
  <2>2. worker \in [Workers -> Batch]
    BY NoRowTyped DEF Init
  <2>3. /\ done \in [Mailboxes -> SUBSET Artefacts] /\ wanted \in [Mailboxes -> SUBSET Artefacts]
        /\ shed \in [Mailboxes -> SUBSET Artefacts]
    BY DEF Init
  <2>4. enqueues \in 0 .. MaxEnqueues /\ upsets \in 0 .. MaxUpsets
    BY ConstantsAssumption DEF Init
  <2>5. up \in BOOLEAN /\ missed \in BOOLEAN
    BY DEF Init
  <2>6. unbuilt \subseteq Representations \X Artefacts
        /\ rebuild \in [status : {"none", "pending", "running", "failed"},
                        phase : {"none", "claimed", "read"},
                        seen : SUBSET (Representations \X Artefacts)]
    BY DEF Init, NoRebuild
  <2> QED BY <2>1, <2>2, <2>3, <2>4, <2>5, <2>6 DEF TypeOK
<1>2. \A w \in Workers : worker[w].phase = "idle"
  BY NoRowTyped DEF Init
<1>3. \A r \in RowIds : rows[r] = NoRow
  BY DEF Init
<1>4. Accounts
  BY <1>2, <1>3, NoRowTyped DEF Init, Accounts, RowsCarryWork, OneEmbeddingBackfill, IsBackfill,
                                SummariesFirst, BatchesFit, BatchFits, NoWorkLost
<1>5. RebuildRuns /\ EveryEmbeddingOwed
  BY DEF Init, RebuildRuns, EveryEmbeddingOwed, NoRebuild
<1> QED BY <1>1, <1>4, <1>5 DEF IInv

LEMMA NextPreserves == IInv /\ [Next]_vars => IInv'
<1> SUFFICES ASSUME IInv, [Next]_vars PROVE IInv'
  OBVIOUS
<1>1. ASSUME NEW k \in Mailboxes, NEW a \in Artefacts, EnqueueArtefact(k, a) PROVE IInv'
  BY <1>1, EnqueuePreserves DEF EnqueueArtefact
<1>2. ASSUME NEW k \in Mailboxes, NEW S \in SUBSET Artefacts, EnqueueBackfill(k, S) PROVE IInv'
  <2>1. wanted[k] \cup S \in SUBSET Artefacts
    BY DEF IInv, TypeOK
  <2>2. wanted[k] \cup S # {} /\ Enqueue(k, 1, wanted[k] \cup S)
    BY <1>2 DEF EnqueueBackfill
  <2> QED BY <2>1, <2>2, EnqueuePreserves, RowIdFacts
<1>3. ASSUME NEW w \in Workers, Claim(w) PROVE IInv'
  BY <1>3, ClaimPreserves
<1>4. ASSUME NEW w \in Workers, WorkerStep(w) PROVE IInv'
  BY <1>4, PreparePreserves, WorkerQuietPreserves, CommitSummaryPreserves, CommitEmbeddingPreserves,
     FinalizePreserves DEF WorkerStep
<1>5. ASSUME NEW w \in Workers, ExpireLease(w) PROVE IInv'
  BY <1>5, WorkerQuietPreserves
<1>6. ASSUME NEW r \in RowIds, ExpireOrphan(r) \/ PruneFailed(r) \/ BackoffElapses(r) PROVE IInv'
  BY <1>6, OtherQuietPreserves, PrunePreserves
<1>7. CASE RetryFailed \/ ClaimRebuild \/ RebuildStep \/ Crash \/ Restart
  BY <1>7, OtherQuietPreserves, RebuildPreserves DEF RebuildStep
<1>8. CASE UNCHANGED vars
  <2>1. TypeOK' /\ RebuildRuns'
    BY <1>8 DEF vars, IInv, TypeOK, RebuildRuns
  <2>2. BatchesFit'
    <3>1. ASSUME NEW w \in Workers PROVE BatchFits(w)'
      BY <1>8, BatchKept, TypeFacts DEF vars, IInv, Accounts, BatchesFit
    <3> QED BY <3>1 DEF BatchesFit
  <2>3. Accounts'
    BY <1>8, <2>2 DEF vars, IInv, Accounts, RowsCarryWork, OneEmbeddingBackfill, IsBackfill,
                      SummariesFirst, NoWorkLost, Carried
  <2>4. EveryEmbeddingOwed'
    BY <1>8, OwedKept DEF vars, IInv, EveryEmbeddingOwed
  <2> QED BY <2>1, <2>3, <2>4 DEF IInv
<1> QED BY <1>1, <1>2, <1>3, <1>4, <1>5, <1>6, <1>7, <1>8 DEF Next

(***************************************************************************)
(* The invariant holds in every reachable state.                           *)
(***************************************************************************)
THEOREM Inductive == Spec => []IInv
<1>1. Init => IInv
  BY InitEstablishes
<1>2. IInv /\ [Next]_vars => IInv'
  BY NextPreserves
<1> QED BY <1>1, <1>2, PTL DEF Spec

\* Rows, batches, results and the rebuild job keep their types, and a row has a
\* lease token exactly while it is leased, across expiries, crashes and retries.
THEOREM MailboxTyped == Spec => []TypeOK
<1>1. IInv => TypeOK
  BY DEF IInv
<1> QED BY <1>1, Inductive, PTL

\* Every artefact enqueued, or whose summary was committed, has its result or is
\* in the payload of a row, unless its mailbox let go of it openly.
THEOREM MailboxNoWorkLost == Spec => []NoWorkLost
<1>1. IInv => NoWorkLost
  BY DEF IInv, Accounts
<1> QED BY <1>1, Inductive, PTL

\* While an embedding has not been read by a successful clone rebuild, something
\* is left that brings one about, unless a rebuild signal was openly missed.
THEOREM MailboxRebuildOwed == Spec => []RebuildOwed
<1>1. IInv => RebuildOwed
  BY DEF IInv, EveryEmbeddingOwed, Owed, RebuildOwed
<1> QED BY <1>1, Inductive, PTL
=============================================================================
