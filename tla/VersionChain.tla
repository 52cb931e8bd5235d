---------------------------- MODULE VersionChain ----------------------------
(***************************************************************************)
(* The resources table of the store as a set of version chains, and the    *)
(* transactions that write it: UpsertResources (a scanner's page),         *)
(* InsertResourcesIfAbsent (a resolver's placeholders), ArchiveResource    *)
(* and RestoreResource.                                                    *)
(*                                                                         *)
(* Each call runs statement by statement.  `table' is what is committed,   *)
(* `pend[w]' the rows writer w has written and not committed.  Isolation   *)
(* is READ COMMITTED, as the Postgres pool uses it: a statement sees the   *)
(* committed rows overlaid with its own; an UPDATE waits for the row lock  *)
(* and then applies to the newest committed row; an INSERT waits for every *)
(* uncommitted change that could decide whether its natural key is taken.  *)
(* With SerialWriters a transaction starts only when no other is open, as  *)
(* with SQLite's single connection (SetMaxOpenConns(1)).                   *)
(*                                                                         *)
(* A row keeps what the properties tell apart: `content' is type,          *)
(* attributes and tags (what jsonEqual compares), `disc' discovered_by,    *)
(* `ver' verified_by with the other columns the verify path rewrites in    *)
(* place, `del' deleted_at IS NOT NULL, `ref' reference_only.  Row ids are *)
(* UUIDv7s: numbers that grow with the moment they are drawn.              *)
(***************************************************************************)
EXTENDS Naturals, Sequences, FiniteSets

CONSTANTS
    Keys,           \* natural keys (provider, account_id, native_id); one root_id each
    Contents,       \* values of (type, attributes, tags), compared by jsonEqual
    Empty,          \* the `{}' content a placeholder carries
    Scans,          \* scan ids
    Writers,        \* callers with a transaction of their own
    ScanOf,         \* ScanOf[w]: the scan a writer works for
    Batches,        \* the pages a scanner or a resolver hands to the store
    MaxRows,        \* bound: row ids that can be drawn
    MaxAttempts,    \* writeMaxAttempts, tries of a retried write
    SerialWriters,  \* TRUE: SQLite, one connection; FALSE: Postgres
    Absent          \* no row under this id

RowId == 1..MaxRows
NoRow == 0

Row == [key: Keys, content: Contents, prev: 0..MaxRows, sup: 0..MaxRows,
        disc: Scans, ver: Scans, del: BOOLEAN, ref: BOOLEAN]

Item == [key: Keys, content: Contents]

ASSUME ConstantsAssumption ==
    /\ MaxRows \in Nat
    /\ MaxAttempts \in Nat \ {0}
    /\ SerialWriters \in BOOLEAN
    /\ Empty \in Contents
    /\ ScanOf \in [Writers -> Scans]
    /\ Batches \subseteq Seq(Item) \ {<<>>}
    /\ Absent \notin Row

VARIABLES
    table,          \* committed rows, by id
    pend,           \* pend[w]: rows w wrote in its open transaction
    phase,          \* phase[w]: the statement w runs next
    job,            \* job[w]: the call w is in
    item,           \* item[w]: position in the batch
    attempt,        \* attempt[w]: try of withWriteRetry
    seen,           \* seen[w]: the row the lookup returned, with its id
    fresh,          \* fresh[w]: rowID or newRowID, drawn and not inserted yet
    tally,          \* tally[w]: newC and changedC of the current attempt
    upsertNew,      \* shared counters of the scan's progress report
    upsertChanged

\* History variables, read by properties only.
VARIABLES
    emitted,        \* <<scan, key>> pairs a scanner has committed
    ackLost         \* a commit was applied and reported as failed

dbVars == <<table, pend>>
ctlVars == <<phase, job, item, attempt, seen, fresh, tally>>
counterVars == <<upsertNew, upsertChanged>>
histVars == <<emitted, ackLost>>
vars == <<table, pend, phase, job, item, attempt, seen, fresh, tally,
          upsertNew, upsertChanged, emitted, ackLost>>

Kinds == {"upsert", "placeholder", "archive"}
InTx == {"lookup", "insert", "verify", "supersede", "split", "commit"}
Phases == {"idle", "begin", "publish"} \cup InTx

Jobs == [kind: Kinds, batch: Batches]
NoPend == [r \in RowId |-> Absent]
NoSeen == [id |-> NoRow, row |-> Absent]
NoTally == [new |-> 0, chg |-> 0]

-----------------------------------------------------------------------------
(* Reading the table. *)

\* What a statement of w sees: its own rows over the committed ones.
View(w) == [r \in RowId |-> IF pend[w][r] # Absent THEN pend[w][r] ELSE table[r]]

\* Row r holds the current slot of key k: superseded_by IS NULL.
IsCurrent(rows, r, k) ==
    rows[r] # Absent /\ rows[r].key = k /\ rows[r].sup = NoRow

Occupied(rows, k) == \E r \in RowId : IsCurrent(rows, r, k)

\* w is the only one who may have row r locked.
RowFree(w, r) == \A u \in Writers \ {w} : pend[u][r] = Absent

\* u has an uncommitted change that decides whether k is taken: a row it
\* inserted, or the current row locked.
Claims(u, k) ==
    \E r \in RowId :
        /\ pend[u][r] # Absent
        /\ pend[u][r].key = k
        /\ table[r] # Absent => table[r].sup = NoRow

KeyFree(w, k) == \A u \in Writers \ {w} : ~Claims(u, k)

\* uuid.NewV7: later than every id drawn before that is still in use.
InUse(r) ==
    \/ table[r] # Absent
    \/ \E w \in Writers : pend[w][r] # Absent \/ fresh[w] = r

Fresh(n) ==
    /\ \A r \in RowId : InUse(r) => r < n
    /\ n - 1 \in RowId => InUse(n - 1)

Key(w) == job[w].batch[item[w]].key
Content(w) == job[w].batch[item[w]].content

-----------------------------------------------------------------------------
(* Control shared by the calls. *)

\* The first statement of a call's transaction.
FirstPhase(kind) == IF kind = "placeholder" THEN "insert" ELSE "lookup"

\* The row is done: the next one, or the commit.
Advance(w) ==
    /\ seen' = [seen EXCEPT ![w] = NoSeen]
    /\ fresh' = [fresh EXCEPT ![w] = NoRow]
    /\ IF item[w] < Len(job[w].batch)
       THEN /\ item' = [item EXCEPT ![w] = @ + 1]
            /\ phase' = [phase EXCEPT ![w] = FirstPhase(job[w].kind)]
       ELSE /\ phase' = [phase EXCEPT ![w] = "commit"]
            /\ UNCHANGED item
    /\ UNCHANGED <<job, attempt>>

\* The transaction is over and nothing of it is left pending; the writer goes
\* on in phase p.
Leave(w, p) ==
    /\ pend' = [pend EXCEPT ![w] = NoPend]
    /\ seen' = [seen EXCEPT ![w] = NoSeen]
    /\ fresh' = [fresh EXCEPT ![w] = NoRow]
    /\ item' = [item EXCEPT ![w] = 1]
    /\ phase' = [phase EXCEPT ![w] = p]
    /\ job' = IF p = "idle" THEN [job EXCEPT ![w] = Absent] ELSE job

\* Mutant of RetryOrGiveUp: counts kept across attempts.
RetryKeepingTally(w) ==
    /\ UNCHANGED tally
    /\ IF job[w].kind # "archive" /\ attempt[w] < MaxAttempts
       THEN Leave(w, "begin") /\ attempt' = [attempt EXCEPT ![w] = @ + 1]
       ELSE Leave(w, "idle") /\ attempt' = [attempt EXCEPT ![w] = 1]

\* A retryable failure: withWriteRetry tries again while it has attempts left;
\* ArchiveResource is not wrapped in it and gives up.
RetryOrGiveUp(w) ==
    /\ tally' = [tally EXCEPT ![w] = NoTally]
    /\ IF job[w].kind # "archive" /\ attempt[w] < MaxAttempts
       THEN Leave(w, "begin") /\ attempt' = [attempt EXCEPT ![w] = @ + 1]
       ELSE Leave(w, "idle") /\ attempt' = [attempt EXCEPT ![w] = 1]

\* Mutant of Return: the transaction is not rolled back, its locks stay.
ReturnHolding(w) ==
    /\ tally' = [tally EXCEPT ![w] = NoTally]
    /\ attempt' = [attempt EXCEPT ![w] = 1]
    /\ pend' = IF phase[w] \in {"commit", "publish"} THEN [pend EXCEPT ![w] = NoPend] ELSE pend
    /\ seen' = [seen EXCEPT ![w] = NoSeen]
    /\ fresh' = [fresh EXCEPT ![w] = NoRow]
    /\ item' = [item EXCEPT ![w] = 1]
    /\ phase' = [phase EXCEPT ![w] = "idle"]
    /\ job' = [job EXCEPT ![w] = Absent]

\* The call returns: done, or failed in a way that is not retried.
Return(w) ==
    /\ tally' = [tally EXCEPT ![w] = NoTally]
    /\ attempt' = [attempt EXCEPT ![w] = 1]
    /\ Leave(w, "idle")

-----------------------------------------------------------------------------
(* Starting a call and its transaction. *)

\* UpsertResources, InsertResourcesIfAbsent and ArchiveResource are entered.
\* A resolver's placeholders carry `{}'; an archive names one resource.
Call(w, kind, batch) ==
    /\ phase[w] = "idle"
    /\ kind = "placeholder" => \A i \in DOMAIN batch : batch[i].content = Empty
    /\ kind = "archive" => Len(batch) = 1 /\ batch[1].content = Empty
    /\ job' = [job EXCEPT ![w] = [kind |-> kind, batch |-> batch]]
    /\ phase' = [phase EXCEPT ![w] = "begin"]
    /\ UNCHANGED <<item, attempt, seen, fresh, tally>>
    /\ UNCHANGED <<dbVars, counterVars, histVars>>

\* Mutant of BeginTx: the row id is drawn at the top, before the lookup.
BeginTxWithId(w) ==
    /\ phase[w] = "begin"
    /\ SerialWriters => \A u \in Writers : phase[u] \notin InTx
    /\ phase' = [phase EXCEPT ![w] = FirstPhase(job[w].kind)]
    /\ \E n \in RowId : Fresh(n) /\ fresh' = [fresh EXCEPT ![w] = n]
    /\ UNCHANGED <<job, item, attempt, seen, tally>>
    /\ UNCHANGED <<dbVars, counterVars, histVars>>

\* db.Beginx: on SQLite it waits for the one connection.
BeginTx(w) ==
    /\ phase[w] = "begin"
    /\ SerialWriters => \A u \in Writers : phase[u] \notin InTx
    /\ phase' = [phase EXCEPT ![w] = FirstPhase(job[w].kind)]
    /\ UNCHANGED <<job, item, attempt, seen, fresh, tally>>
    /\ UNCHANGED <<dbVars, counterVars, histVars>>

-----------------------------------------------------------------------------
(* The statements. *)

\* Mutant of UpsertLookup: the content is not compared.
UpsertLookupAlwaysSplits(w) ==
    /\ phase[w] = "lookup" /\ job[w].kind = "upsert"
    /\ \/ /\ ~Occupied(View(w), Key(w))
          /\ phase' = [phase EXCEPT ![w] = "insert"]
          /\ UNCHANGED seen
       \/ \E r \in RowId :
            /\ IsCurrent(View(w), r, Key(w))
            /\ seen' = [seen EXCEPT ![w] = [id |-> r, row |-> View(w)[r]]]
            /\ phase' = [phase EXCEPT ![w] = "supersede"]
    /\ UNCHANGED <<job, item, attempt, fresh, tally>>
    /\ UNCHANGED <<dbVars, counterVars, histVars>>

\* SELECT the current row by natural key, no lock taken.  The branch of the
\* switch is decided here, on what the row held now.
UpsertLookup(w) ==
    /\ phase[w] = "lookup" /\ job[w].kind = "upsert"
    /\ \/ /\ ~Occupied(View(w), Key(w))
          /\ phase' = [phase EXCEPT ![w] = "insert"]
          /\ UNCHANGED seen
       \/ \E r \in RowId :
            /\ IsCurrent(View(w), r, Key(w))
            /\ seen' = [seen EXCEPT ![w] = [id |-> r, row |-> View(w)[r]]]
            /\ phase' = [phase EXCEPT ![w] =
                 IF View(w)[r].content = Content(w) THEN "verify" ELSE "supersede"]
    /\ UNCHANGED <<job, item, attempt, fresh, tally>>
    /\ UNCHANGED <<dbVars, counterVars, histVars>>

\* Mutant of ArchiveLookup: deleted_at IS NULL dropped from the WHERE clause.
ArchiveLookupAny(w) ==
    /\ phase[w] = "lookup" /\ job[w].kind = "archive"
    /\ \/ \E r \in RowId :
            /\ IsCurrent(View(w), r, Key(w))
            /\ seen' = [seen EXCEPT ![w] = [id |-> r, row |-> View(w)[r]]]
            /\ phase' = [phase EXCEPT ![w] = "supersede"]
            /\ UNCHANGED <<pend, job, item, attempt, fresh, tally>>
       \/ /\ ~Occupied(View(w), Key(w))
          /\ Return(w)
    /\ UNCHANGED <<table, counterVars, histVars>>

\* SELECT the live current row of the chain; none or a tombstone: the call
\* returns false and its transaction is rolled back.
ArchiveLookup(w) ==
    /\ phase[w] = "lookup" /\ job[w].kind = "archive"
    /\ \/ \E r \in RowId :
            /\ IsCurrent(View(w), r, Key(w))
            /\ ~View(w)[r].del
            /\ seen' = [seen EXCEPT ![w] = [id |-> r, row |-> View(w)[r]]]
            /\ phase' = [phase EXCEPT ![w] = "supersede"]
            /\ UNCHANGED <<pend, job, item, attempt, fresh, tally>>
       \/ /\ ~\E r \in RowId : IsCurrent(View(w), r, Key(w)) /\ ~View(w)[r].del
          /\ Return(w)
    /\ UNCHANGED <<table, counterVars, histVars>>

-----------------------------------------------------------------------------
(* Drawing the id of a new row. *)

\* The statements that need an id.
Numbered == {"insert", "supersede"}

\* Mutant of DrawId: uuid.New, a random id.
DrawIdAtRandom(w) ==
    /\ phase[w] \in Numbered /\ fresh[w] = NoRow
    /\ \E n \in RowId : ~InUse(n) /\ fresh' = [fresh EXCEPT ![w] = n]
    /\ UNCHANGED <<phase, job, item, attempt, seen, tally>>
    /\ UNCHANGED <<dbVars, counterVars, histVars>>

\* rowID, newRowID := uuid.NewV7(): after the lookup, before the statement that uses
\* the id is sent and may have to wait.
DrawId(w) ==
    /\ phase[w] \in Numbered /\ fresh[w] = NoRow
    /\ \E n \in RowId : Fresh(n) /\ fresh' = [fresh EXCEPT ![w] = n]
    /\ UNCHANGED <<phase, job, item, attempt, seen, tally>>
    /\ UNCHANGED <<dbVars, counterVars, histVars>>

-----------------------------------------------------------------------------
(* The statements that write. *)

\* The root row of a chain as the two INSERT statements write it.
RootRow(w) ==
    [key |-> Key(w), content |-> Content(w), prev |-> NoRow, sup |-> NoRow,
     disc |-> ScanOf[w], ver |-> ScanOf[w], del |-> FALSE,
     ref |-> job[w].kind = "placeholder"]

\* Mutants of InsertRoot: no unique index behind the insert; ON CONFLICT DO
\* UPDATE instead of DO NOTHING.
InsertRootUnchecked(w) ==
    /\ phase[w] = "insert" /\ fresh[w] # NoRow
    /\ KeyFree(w, Key(w))
    /\ pend' = [pend EXCEPT ![w][fresh[w]] = RootRow(w)]
    /\ tally' = [tally EXCEPT ![w].new = @ + 1]
    /\ Advance(w)
    /\ UNCHANGED <<table, counterVars, histVars>>
InsertRootOverwriting(w) ==
    /\ phase[w] = "insert" /\ fresh[w] # NoRow
    /\ KeyFree(w, Key(w))
    /\ \E n \in RowId :
         /\ IF Occupied(View(w), Key(w)) THEN IsCurrent(View(w), n, Key(w)) ELSE n = fresh[w]
         /\ pend' = [pend EXCEPT ![w][n] = RootRow(w)]
    /\ tally' = [tally EXCEPT ![w].new = @ + 1]
    /\ Advance(w)
    /\ UNCHANGED <<table, counterVars, histVars>>

\* INSERT ... ON CONFLICT DO NOTHING, of a first discovery or a placeholder.
InsertRoot(w) ==
    /\ phase[w] = "insert" /\ fresh[w] # NoRow
    /\ KeyFree(w, Key(w))
    /\ IF Occupied(View(w), Key(w))
       THEN UNCHANGED <<pend, tally>>
       ELSE /\ pend' = [pend EXCEPT ![w][fresh[w]] = RootRow(w)]
            /\ tally' = [tally EXCEPT ![w].new = @ + 1]
    /\ Advance(w)
    /\ UNCHANGED <<table, counterVars, histVars>>

\* Mutants of Verified: the tombstone, or the placeholder flag, is not lifted.
VerifiedStillDeleted(row, scan) == [row EXCEPT !.ver = scan, !.ref = FALSE]
VerifiedStillReference(row, scan) == [row EXCEPT !.ver = scan, !.del = FALSE]

\* The row the verify-only UPDATE leaves.
Verified(row, scan) == [row EXCEPT !.ver = scan, !.del = FALSE, !.ref = FALSE]

\* UPDATE ... WHERE id = the row of the lookup, wherever that row is by now.
Verify(w) ==
    /\ phase[w] = "verify"
    /\ RowFree(w, seen[w].id)
    /\ pend' = [pend EXCEPT ![w][seen[w].id] =
                  Verified(View(w)[seen[w].id], ScanOf[w])]
    /\ Advance(w)
    /\ UNCHANGED <<table, tally, counterVars, histVars>>

\* UPDATE ... SET superseded_by = newRowID WHERE id = the row of the lookup.
Supersede(w) ==
    /\ phase[w] = "supersede" /\ fresh[w] # NoRow
    /\ RowFree(w, seen[w].id)
    /\ pend' = [pend EXCEPT ![w][seen[w].id] = [View(w)[seen[w].id] EXCEPT !.sup = fresh[w]]]
    /\ phase' = [phase EXCEPT ![w] = "split"]
    /\ UNCHANGED <<job, item, attempt, seen, fresh, tally>>
    /\ UNCHANGED <<table, counterVars, histVars>>

\* The new version as the split INSERT writes it, and the tombstone as
\* archiveOnTx does: the lookup's payload, deleted, reference_only left to its
\* default.
VersionRow(w) ==
    IF job[w].kind = "archive"
    THEN [seen[w].row EXCEPT !.prev = seen[w].id, !.sup = NoRow,
                             !.del = TRUE, !.ref = FALSE]
    ELSE [key |-> Key(w), content |-> Content(w), prev |-> seen[w].id,
          sup |-> NoRow, disc |-> seen[w].row.disc, ver |-> ScanOf[w],
          del |-> FALSE, ref |-> FALSE]

\* Mutant of InsertVersion: ON CONFLICT DO NOTHING here too.
InsertVersionDoNothing(w) ==
    /\ phase[w] = "split"
    /\ KeyFree(w, Key(w))
    /\ IF Occupied(View(w), Key(w)) THEN UNCHANGED pend
       ELSE pend' = [pend EXCEPT ![w][fresh[w]] = VersionRow(w)]
    /\ tally' = IF job[w].kind = "archive" THEN tally
                ELSE [tally EXCEPT ![w].chg = @ + 1]
    /\ Advance(w)
    /\ UNCHANGED <<table, counterVars, histVars>>

\* INSERT of the new version: plain, so a taken key is a 23505 that ends the
\* transaction and is not retried.
InsertVersion(w) ==
    /\ phase[w] = "split"
    /\ KeyFree(w, Key(w))
    /\ \/ /\ Occupied(View(w), Key(w))
          /\ Return(w)
       \/ /\ ~Occupied(View(w), Key(w))
          /\ pend' = [pend EXCEPT ![w][fresh[w]] = VersionRow(w)]
          /\ tally' = IF job[w].kind = "archive" THEN tally
                      ELSE [tally EXCEPT ![w].chg = @ + 1]
          /\ Advance(w)
    /\ UNCHANGED <<table, counterVars, histVars>>

-----------------------------------------------------------------------------
(* Ending a transaction. *)

Emits(w) == IF job[w].kind # "upsert" THEN {}
            ELSE {<<ScanOf[w], job[w].batch[i].key>> : i \in DOMAIN job[w].batch}

\* COMMIT, acknowledged.
Commit(w) ==
    /\ phase[w] = "commit"
    /\ table' = View(w)
    /\ emitted' = emitted \cup Emits(w)
    /\ IF job[w].kind = "archive"
       THEN Return(w)                       \* returns true: nothing to publish
       ELSE Leave(w, "publish") /\ UNCHANGED <<attempt, tally>>
    /\ UNCHANGED <<ackLost, counterVars>>

\* COMMIT applied by the server, the connection lost before the answer.  A
\* local SQLite file has no such connection.
CommitAckLost(w) ==
    /\ phase[w] = "commit"
    /\ ~SerialWriters
    /\ table' = View(w)
    /\ emitted' = emitted \cup Emits(w)
    /\ ackLost' = TRUE
    /\ RetryOrGiveUp(w)
    /\ UNCHANGED counterVars

\* The counters are published once the commit is known to have succeeded.
Publish(w) ==
    /\ phase[w] = "publish"
    /\ upsertNew' = upsertNew + tally[w].new
    /\ upsertChanged' = upsertChanged + tally[w].chg
    /\ Return(w)
    /\ UNCHANGED <<table, histVars>>

\* A connection-level failure of any statement, or of Beginx: rolled back.
ConnectionLost(w) ==
    /\ phase[w] \in InTx \cup {"begin"}
    /\ RetryOrGiveUp(w)
    /\ UNCHANGED <<table, counterVars, histVars>>

\* A failure of a statement that is not retryable (storage full, a cancelled
\* context): rolled back, and the call fails at once.
StatementFails(w) ==
    /\ phase[w] \in InTx
    /\ Return(w)
    /\ UNCHANGED <<table, counterVars, histVars>>

\* u has what w's next statement must wait for.
WaitsFor(w, u) ==
    /\ u # w
    /\ phase[w] \in Numbered => fresh[w] # NoRow
    /\ \/ phase[w] \in {"verify", "supersede"} /\ pend[u][seen[w].id] # Absent
       \/ phase[w] \in {"insert", "split"} /\ Claims(u, Key(w))

\* Postgres breaks a cycle of waiters by failing one of them with 40P01, which
\* isRetryableDBError does not retry.  A writer waits for one other at a time,
\* so a set in which everyone waits and is waited for is made of cycles.
DeadlockVictim(w) ==
    /\ \E S \in SUBSET Writers :
         /\ w \in S
         /\ \A u \in S : \E v \in S : WaitsFor(u, v)
         /\ \A u \in S : \E v \in S : WaitsFor(v, u)
    /\ Return(w)
    /\ UNCHANGED <<table, counterVars, histVars>>

\* RestoreResource: one UPDATE, on the pool, of the current tombstone.
Restore(k) ==
    /\ SerialWriters => \A u \in Writers : phase[u] \notin InTx
    /\ \E r \in RowId :
         /\ IsCurrent(table, r, k)
         /\ table[r].del
         /\ \A u \in Writers : pend[u][r] = Absent
         /\ table' = [table EXCEPT ![r].del = FALSE]
    /\ UNCHANGED <<pend, ctlVars, counterVars, histVars>>

-----------------------------------------------------------------------------
Init ==
    /\ table = NoPend
    /\ pend = [w \in Writers |-> NoPend]
    /\ phase = [w \in Writers |-> "idle"]
    /\ job = [w \in Writers |-> Absent]
    /\ item = [w \in Writers |-> 1]
    /\ attempt = [w \in Writers |-> 1]
    /\ seen = [w \in Writers |-> NoSeen]
    /\ fresh = [w \in Writers |-> NoRow]
    /\ tally = [w \in Writers |-> NoTally]
    /\ upsertNew = 0 /\ upsertChanged = 0
    /\ emitted = {} /\ ackLost = FALSE

Step(w) ==
    \/ BeginTx(w)
    \/ UpsertLookup(w) \/ ArchiveLookup(w)
    \/ DrawId(w)
    \/ InsertRoot(w) \/ Verify(w) \/ Supersede(w) \/ InsertVersion(w)
    \/ Commit(w) \/ Publish(w) \/ DeadlockVictim(w)

Next ==
    \/ \E w \in Writers :
         \/ \E kind \in Kinds, b \in Batches : Call(w, kind, b)
         \/ Step(w)
         \/ CommitAckLost(w) \/ ConnectionLost(w) \/ StatementFails(w)
    \/ \E k \in Keys : Restore(k)

Spec == Init /\ [][Next]_vars

-----------------------------------------------------------------------------
(* Type invariant. *)

\* Every variable holds the values the code's types and the schema allow.
TypeOK ==
    /\ table \in [RowId -> Row \cup {Absent}]
    /\ pend \in [Writers -> [RowId -> Row \cup {Absent}]]
    /\ phase \in [Writers -> Phases]
    /\ job \in [Writers -> Jobs \cup {Absent}]
    /\ item \in [Writers -> Nat]
    /\ attempt \in [Writers -> 1..MaxAttempts]
    /\ seen \in [Writers -> [id : 0..MaxRows, row : Row \cup {Absent}]]
    /\ fresh \in [Writers -> 0..MaxRows]
    /\ tally \in [Writers -> [new : Nat, chg : Nat]]
    /\ upsertNew \in Nat /\ upsertChanged \in Nat
    /\ emitted \subseteq Scans \X Keys
    /\ ackLost \in BOOLEAN

(* Safety of the committed table, whatever the isolation. *)

\* At most one committed row of a natural key is current, and a key that has
\* rows has a current one: readers that filter on superseded_by IS NULL see
\* every resource exactly once (idx_resources_current_by_natural_key and the
\* supersede-then-insert order of the two split paths).
OneCurrentRow ==
    /\ \A k \in Keys : \A r, s \in RowId :
         IsCurrent(table, r, k) /\ IsCurrent(table, s, k) => r = s
    /\ \A r \in RowId : table[r] # Absent => Occupied(table, table[r].key)

\* previous_version_id and superseded_by are inverse links between rows of one
\* resource, and discovered_by is inherited along them: no split, archive or
\* failed race leaves a dangling or a forked chain.
ChainsLinked ==
    \A r \in RowId : table[r] # Absent =>
        /\ table[r].sup # NoRow =>
             /\ table[table[r].sup] # Absent
             /\ table[table[r].sup].prev = r
             /\ table[table[r].sup].key = table[r].key
        /\ table[r].prev # NoRow =>
             /\ table[table[r].prev] # Absent
             /\ table[table[r].prev].sup = r
             /\ table[table[r].prev].key = table[r].key
             /\ table[table[r].prev].disc = table[r].disc

\* Ordering a chain's rows by (discovered_at, id), as GetResourceVersions does,
\* is the order of the chain: neighbours by id are neighbours by link.
VersionsInOrder ==
    \A r, s \in RowId :
        /\ r < s /\ table[r] # Absent /\ table[s] # Absent
        /\ table[r].key = table[s].key
        /\ \A q \in r+1..s-1 : table[q] # Absent => table[q].key # table[r].key
        => table[r].sup = s /\ table[s].prev = r

\* ArchiveResource is idempotent: no tombstone is the archive of a tombstone.
NoDoubleTombstone ==
    \A r \in RowId :
        table[r] # Absent /\ table[r].del /\ table[r].prev # NoRow
        => ~table[table[r].prev].del

\* The "new" counter never runs ahead of the chains in the table, and is exact
\* once the calls are done unless a commit's answer was lost; the "changed"
\* counter never exceeds the versions behind the roots.
NewRoots == Cardinality({r \in RowId : table[r] # Absent /\ table[r].prev = NoRow})
NewVersions == Cardinality({r \in RowId : table[r] # Absent /\ table[r].prev # NoRow})
CountersMatchRows ==
    /\ upsertNew <= NewRoots
    /\ upsertChanged <= NewVersions
    /\ ~ackLost /\ (\A w \in Writers : phase[w] # "publish") => upsertNew = NewRoots

(* What a step may never do. *)

\* History is frozen: a superseded row keeps its type, attributes, tags, links
\* and discovery, and no row disappears.
Frozen(row) == <<row.key, row.content, row.prev, row.sup, row.disc>>
HistoryFrozen ==
    [][\A r \in RowId : table[r] # Absent =>
         /\ table'[r] # Absent
         /\ table[r].sup # NoRow => Frozen(table'[r]) = Frozen(table[r])]_table

\* A new version that is no tombstone differs from the one before it: an
\* unchanged resource adds no row, whatever raced with the comparison.
SplitMeansChange ==
    [][\A r \in RowId :
         /\ table[r] = Absent /\ table'[r] # Absent
         /\ table'[r].prev # NoRow /\ ~table'[r].del
         => table'[r].content # table'[table'[r].prev].content]_table

\* A populated row is never reduced back to a placeholder: once the current
\* row of a key is not reference_only, it stays so.
Populated(k) == \E r \in RowId : IsCurrent(table, r, k) /\ ~table[r].ref
PopulatedStays == [][\A k \in Keys : Populated(k) => Populated(k)']_table

\* With one connection, what a scanner commits is what the table then says:
\* for the last item of each key in the page the current row has its content,
\* is verified by the scan, is no tombstone and no placeholder.
LastOfKey(b, i) == \A j \in DOMAIN b : b[j].key = b[i].key => j <= i
Landed(scan, it) ==
    \E r \in RowId : /\ IsCurrent(table, r, it.key)
                       /\ table[r].content = it.content
                       /\ table[r].ver = scan
                       /\ ~table[r].del /\ ~table[r].ref
SightingLands ==
    [][\A w \in Writers :
         phase[w] = "commit" /\ job[w].kind = "upsert" /\ phase'[w] = "publish"
         => \A i \in DOMAIN job[w].batch :
              LastOfKey(job[w].batch, i) => Landed(ScanOf[w], job[w].batch[i])']_vars

(* What the repository says of the flags, and the runs refute or confirm. *)

\* A resource some scanner has committed is not a placeholder any more:
\* resources_upsert.go, "its own scanner calls UpsertResources, finds the
\* placeholder as the current version, and version-splits it".
ScannedNotPlaceholder ==
    \A e \in emitted : \E r \in RowId : IsCurrent(table, r, e[2]) /\ ~table[r].ref

\* TypesForScan of scan s: rows it discovered or verified, placeholders left
\* out.
TypesForScan(s) ==
    {r \in RowId : /\ table[r] # Absent
                    /\ s \in {table[r].disc, table[r].ver}
                    /\ ~table[r].ref}

\* Every row TypesForScan counts for a scan is one that scan's scanners
\* emitted: scans.go, "Counting one as an emitted type would report a scanner
\* that never ran as having run".
TypesWereEmitted ==
    \A s \in Scans : \A r \in TypesForScan(s) : <<s, table[r].key>> \in emitted

(* Liveness. *)

\* A writer keeps running statements; the row locks and the connection queue
\* are granted in turn (FIFO in Postgres and in database/sql), so a statement
\* that can run again and again is not passed over for ever.  When the model's
\* row ids are used up (MaxRows) a call that needs one fails like one on a full disk.
RowsExhausted == \A n \in RowId : ~Fresh(n)
FairSpec ==
    /\ Spec
    /\ \A w \in Writers : /\ SF_vars(Step(w))
                           /\ WF_vars(fresh[w] = NoRow /\ RowsExhausted /\ StatementFails(w))

\* Every call returns: no set of writers waits on itself for ever, whatever
\* order their pages lock rows in.
CallsReturn == \A w \in Writers : phase[w] = "begin" ~> phase[w] = "idle"
=============================================================================
