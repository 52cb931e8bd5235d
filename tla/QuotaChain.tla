----------------------------- MODULE QuotaChain -----------------------------
(***************************************************************************)
(* Service quotas as version chains (src/store/quotas.go, UpsertQuotas).   *)
(*                                                                         *)
(* A call looks each quota of its batch up and verifies the current row,   *)
(* or marks it superseded and inserts its successor, or inserts the first  *)
(* row of a chain, all in one transaction under WriteRetry.  The database  *)
(* is Postgres at READ COMMITTED: every statement sees what is committed   *)
(* when it starts and what its own transaction has written, an UPDATE      *)
(* waits for the row, an INSERT for an open one of the same natural key    *)
(* (idx_quotas_current_by_natural_key).                                    *)
(*                                                                         *)
(* Of a limit its value stands for all typed columns.  The columns that    *)
(* are only displayed and the attributes move with a verification.         *)
(***************************************************************************)
EXTENDS WriteRetry, Sequences, SequencesExt

\* The holder of an item nobody has locked.
Free == "free"

CONSTANTS
    Quotas,         \* natural keys
    Values,         \* limits a provider reports
    BatchOrders,    \* what a batch may list, sequences of quotas: a page may repeat one
    LongestBatch,   \* bound: their length
    MaxMoves,       \* bound: how often a provider changes a limit
    MaxUpserts      \* bound: calls of UpsertQuotas

ASSUME QuotaAssumption ==
    /\ BatchOrders \subseteq Seq(Quotas)
    /\ \A o \in BatchOrders : o # <<>> /\ Len(o) <= LongestBatch
    /\ LongestBatch \in Nat /\ MaxMoves \in Nat /\ MaxUpserts \in Nat
    /\ Values # {} /\ IsFiniteSet(Quotas)
    /\ Quotas \intersect Nat = {} /\ Free \notin Writers

VARIABLES
    limits,     \* quota -> what the provider has reported so far
    moves,      \* limits changed so far
    calls,      \* calls started so far
    quotas,     \* the table: committed rows in order of commit
    held,       \* row number or quota -> the open transaction that locked it
    batch,      \* writer -> sequence of [quota, value], as read from the provider
    tx,         \* writer -> its attempt
    inserted,   \* writer -> what the attempt that won returns
    applied,    \* writer -> history: rows its call has inserted
    outraced    \* writer -> history: items of the batch that a sibling inserted first

quotaVars == <<limits, moves, calls, quotas, held, batch, tx, inserted, applied, outraced>>
quotaChainVars == <<retryVars, quotaVars>>

NoTx == [at |-> 0, stmt |-> "none", row |-> 0, wrote |-> <<>>]
Begin == [at |-> 1, stmt |-> "lookup", row |-> 0, wrote |-> <<>>]

\* The row of a chain that the transaction itself has inserted last.
Own == -1

Rows == DOMAIN quotas
Live(q) == {i \in Rows : quotas[i].quota = q /\ quotas[i].supersededBy = 0}

\* What can be locked: a natural key, a row.
Items ==
    Quotas \union 1 .. (Cardinality(Quotas) + MaxUpserts * MaxAttempts * LongestBatch)

FirstRow(q, v) ==
    [quota |-> q, value |-> v, previous |-> 0, supersededBy |-> 0, attested |-> v]

Initial == CHOOSE v \in Values : TRUE

\* No scan has been here yet, or one has recorded every limit.
QuotaInit ==
    /\ RetryInit
    /\ limits = [q \in Quotas |-> {Initial}] /\ moves = 0 /\ calls = 0
    /\ quotas \in {<<>>, SetToSeq({FirstRow(q, Initial) : q \in Quotas})}
    /\ held = [i \in Items |-> Free]
    /\ batch = [w \in Writers |-> <<>>]
    /\ tx = [w \in Writers |-> NoTx]
    /\ inserted = [w \in Writers |-> 0]
    /\ applied = [w \in Writers |-> 0]
    /\ outraced = [w \in Writers |-> {}]

-----------------------------------------------------------------------------
(* Around a call. *)

\* The provider changes a limit.
Move(q, v) ==
    /\ moves < MaxMoves /\ moves' = moves + 1
    /\ v \notin limits[q] /\ limits' = [limits EXCEPT ![q] = @ \union {v}]
    /\ UNCHANGED <<retryVars, calls, quotas, held, batch, tx, inserted, applied, outraced>>

\* A scanner has read the limits of the quotas o, page by page and each at some time, and
\* calls UpsertQuotas.
Upsert(w, o, values) ==
    /\ calls < MaxUpserts /\ calls' = calls + 1
    /\ \A i \in DOMAIN o : values[i] \in limits[o[i]]
    /\ CallStarts(w, FALSE)
    /\ batch' = [batch EXCEPT ![w] = [i \in DOMAIN o |-> [quota |-> o[i], value |-> values[i]]]]
    /\ tx' = [tx EXCEPT ![w] = Begin]
    /\ UNCHANGED <<limits, moves, quotas, held, inserted, applied, outraced>>

Return(w) ==
    /\ CallReturns(w)
    /\ batch' = [batch EXCEPT ![w] = <<>>]
    /\ inserted' = [inserted EXCEPT ![w] = 0]
    /\ applied' = [applied EXCEPT ![w] = 0]
    /\ outraced' = [outraced EXCEPT ![w] = {}]
    /\ UNCHANGED <<limits, moves, calls, quotas, held, tx>>

-----------------------------------------------------------------------------
(* Statements of one attempt. *)

NowAt(w, stmt) == call[w].st = "trying" /\ tx[w].stmt = stmt
This(w) == batch[w][tx[w].at]
Item(w) ==
    IF tx[w].stmt \in {"verify", "supersede"} /\ tx[w].row # Own THEN tx[w].row
    ELSE This(w).quota

\* The transaction whose end the statement of w has to await.
Waits(w) ==
    IF call[w].st = "trying" /\ tx[w].stmt \notin {"none", "lookup", "commit"}
       /\ held[Item(w)] \notin {Free, w}
    THEN {held[Item(w)]} ELSE {}

Lock(w, item) == held' = [held EXCEPT ![item] = w]

\* A write of the attempt: of the limit it has read, on a row or on none.
WriteOf(w, do, row) == [do |-> do, row |-> row, quota |-> This(w).quota, value |-> This(w).value]

\* The next quota of the batch, after the writes ws.
Advance(w, ws) ==
    tx' = [tx EXCEPT ![w] =
              [at |-> @.at + 1, stmt |-> IF @.at = Len(batch[w]) THEN "commit" ELSE "lookup",
               row |-> 0, wrote |-> @.wrote \o ws]]

Goto(w, stmt, row) == tx' = [tx EXCEPT ![w].stmt = stmt, ![w].row = row]

Step == UNCHANGED <<retryVars, limits, moves, calls, quotas, batch, inserted, applied>>

\* What the attempt has inserted of quota q, by the numbers of its writes.
Mine(w, q) ==
    {k \in DOMAIN tx[w].wrote : tx[w].wrote[k].do = "insert" /\ tx[w].wrote[k].quota = q}

\* The row e is current and holds the value v.
Finds(w, e, v) == Goto(w, IF v = This(w).value THEN "verify" ELSE "supersede", e)

\* currentQuota, in the transaction: an earlier item of the batch may have inserted the
\* row it finds.  No lock is taken, and none waited for.
Lookup(w) ==
    /\ NowAt(w, "lookup")
    /\ \/ /\ Mine(w, This(w).quota) = {} /\ Live(This(w).quota) = {}
          /\ Goto(w, "first", 0)
       \/ /\ Mine(w, This(w).quota) = {}
          /\ \E e \in Live(This(w).quota) : Finds(w, e, quotas[e].value)
       \/ \E k \in Mine(w, This(w).quota) :
             /\ \A l \in Mine(w, This(w).quota) : l <= k
             /\ Finds(w, Own, tx[w].wrote[k].value)
    /\ Step /\ UNCHANGED <<held, outraced>>

\* UPDATE ... WHERE id: the row that was current at the lookup.
Verify(w) ==
    /\ NowAt(w, "verify") /\ Waits(w) = {}
    /\ Lock(w, Item(w))
    /\ Advance(w, <<WriteOf(w, "verify", tx[w].row)>>)
    /\ Step /\ UNCHANGED outraced

\* insertFirstQuota, ON CONFLICT DO NOTHING: a sibling's row stands.
InsertFirst(w) ==
    /\ NowAt(w, "first") /\ Waits(w) = {}
    /\ IF Live(This(w).quota) = {}
       THEN /\ Lock(w, This(w).quota)
            /\ Advance(w, <<WriteOf(w, "insert", 0)>>)
            /\ UNCHANGED outraced
       ELSE /\ Advance(w, <<>>)
            /\ outraced' = [outraced EXCEPT ![w] = @ \union {tx[w].at}]
            /\ UNCHANGED held
    /\ Step

\* splitQuota, UPDATE superseded_by WHERE id: even of a row superseded by now.
Supersede(w) ==
    /\ NowAt(w, "supersede") /\ Waits(w) = {}
    /\ Lock(w, Item(w))
    /\ Goto(w, "insert", tx[w].row)
    /\ Step /\ UNCHANGED outraced

\* With the old row out of the way no other has the key.  A row of one's own kept it.
KeyIsFree(w) == tx[w].row = Own \/ Live(This(w).quota) \subseteq {tx[w].row}

\* splitQuota, INSERT.
InsertNext(w) ==
    /\ NowAt(w, "insert") /\ Waits(w) = {} /\ KeyIsFree(w)
    /\ Lock(w, This(w).quota)
    /\ Advance(w, <<WriteOf(w, "insert", tx[w].row)>>)
    /\ Step /\ UNCHANGED outraced

-----------------------------------------------------------------------------
(* How an attempt ends. *)

\* The write x on the rows as they are: a row of one's own has a number when it is there,
\* as the current row of its chain.
Placed(rows, x) ==
    IF x.row # Own THEN x
    ELSE [x EXCEPT !.row = CHOOSE i \in DOMAIN rows : rows[i].quota = x.quota
                                                     /\ rows[i].supersededBy = 0]

\* One write, on the rows.  A row 0 has no predecessor.
Effect(rows, x) ==
    IF x.do = "verify" THEN [rows EXCEPT ![x.row].attested = x.value]
    ELSE Append([i \in DOMAIN rows |-> IF i = x.row
                                       THEN [rows[i] EXCEPT !.supersededBy = Len(rows) + 1]
                                       ELSE rows[i]],
                [quota |-> x.quota, value |-> x.value, previous |-> x.row,
                 supersededBy |-> 0, attested |-> x.value])

\* All of them, one after the other.
Effects(rows, writes) ==
    LET after[i \in 0 .. Len(writes)] ==
            IF i = 0 THEN rows ELSE Effect(after[i - 1], Placed(after[i - 1], writes[i]))
    IN  after[Len(writes)]

Inserts(w) == Cardinality({i \in DOMAIN tx[w].wrote : tx[w].wrote[i].do = "insert"})

\* What the transaction wrote becomes the table.
Apply(w) ==
    /\ quotas' = Effects(quotas, tx[w].wrote)
    /\ applied' = [applied EXCEPT ![w] = @ + Inserts(w)]

\* Mutant of Close: a refused statement leaves the transaction open.
CloseHolding(w) ==
    /\ held' = [i \in Items |-> IF held[i] = w /\ call'[w].st # "failed" THEN Free ELSE held[i]]
    /\ tx' = [tx EXCEPT ![w] = IF call'[w].st = "pausing" THEN Begin ELSE NoTx]
    /\ outraced' = IF call'[w].st = "pausing" THEN [outraced EXCEPT ![w] = {}] ELSE outraced
    /\ UNCHANGED <<limits, moves, calls, batch>>

\* Mutant of Close: the closure that is tried again goes on after the items it has done.
CloseResuming(w) ==
    /\ held' = [i \in Items |-> IF held[i] = w THEN Free ELSE held[i]]
    /\ tx' = [tx EXCEPT ![w] =
                 IF call'[w].st # "pausing" THEN NoTx
                 ELSE [@ EXCEPT !.wrote = <<>>, !.stmt = IF @ = "commit" THEN @ ELSE "lookup"]]
    /\ UNCHANGED <<limits, moves, calls, batch, outraced>>

\* The transaction is over and holds nothing; a retry starts a new one.
Close(w) ==
    /\ held' = [i \in Items |-> IF held[i] = w THEN Free ELSE held[i]]
    /\ tx' = [tx EXCEPT ![w] = IF call'[w].st = "pausing" THEN Begin ELSE NoTx]
    /\ outraced' = IF call'[w].st = "pausing" THEN [outraced EXCEPT ![w] = {}] ELSE outraced
    /\ UNCHANGED <<limits, moves, calls, batch>>

Commit(w) ==
    /\ NowAt(w, "commit") /\ AttemptSucceeds(w)
    /\ Apply(w) /\ Close(w)
    /\ inserted' = [inserted EXCEPT ![w] = Inserts(w)]

\* The connection dies after COMMIT took effect: the retry finds its own rows.
CommitLost(w) ==
    /\ NowAt(w, "commit") /\ AttemptLost(w)
    /\ Apply(w) /\ Close(w)
    /\ UNCHANGED inserted

ConnectionFails(w) ==
    /\ AttemptFails(w) /\ Close(w)
    /\ UNCHANGED <<quotas, applied, inserted>>

\* 23505: a sibling has inserted a successor since the lookup.  Not retried.
KeyTaken(w) ==
    /\ NowAt(w, "insert") /\ Waits(w) = {} /\ ~KeyIsFree(w)
    /\ AttemptRefused(w) /\ Close(w)
    /\ UNCHANGED <<quotas, applied, inserted>>

\* 40P01: the server breaks a cycle of waiting transactions.
DeadlockVictim(w) ==
    /\ \E S \in SUBSET Writers : w \in S /\ \A v \in S : Waits(v) # {} /\ Waits(v) \subseteq S
    /\ AttemptRefused(w) /\ Close(w)
    /\ UNCHANGED <<quotas, applied, inserted>>

-----------------------------------------------------------------------------
Statement(w) ==
    \/ Lookup(w) \/ Verify(w) \/ InsertFirst(w) \/ Supersede(w) \/ InsertNext(w)
    \/ Commit(w) \/ KeyTaken(w) \/ DeadlockVictim(w)
    \/ (CloseCircuit(w) \/ Wake(w)) /\ UNCHANGED quotaVars
    \/ Return(w)

QuotaNext ==
    \/ \E q \in Quotas, v \in Values : Move(q, v)
    \/ \E w \in Writers :
          \/ \E o \in BatchOrders : \E values \in [DOMAIN o -> Values] : Upsert(w, o, values)
          \/ Statement(w) \/ ConnectionFails(w) \/ CommitLost(w)

QuotaSpec == QuotaInit /\ [][QuotaNext]_quotaChainVars

-----------------------------------------------------------------------------
(* Properties. *)

\* Every variable holds the values the code and the schema allow.
QuotaTypeOK ==
    /\ RetryTypeOK
    /\ limits \in [Quotas -> SUBSET Values]
    /\ moves \in 0 .. MaxMoves /\ calls \in 0 .. MaxUpserts
    /\ \A i \in Rows : /\ quotas[i].quota \in Quotas
                       /\ {quotas[i].value, quotas[i].attested} \subseteq Values
                       /\ quotas[i].previous \in 0 .. Len(quotas)
                       /\ quotas[i].supersededBy \in 0 .. Len(quotas)
    /\ held \in [Items -> Writers \union {Free}]

\* However two scans interleave, the rows of a quota are one chain: one first row
\* and one current row, and every mark of a successor is answered by a row that
\* names its predecessor, so that GetQuotaVersions loses no version and reads none
\* twice.
ChainsAreLinear ==
    \A q \in Quotas : LET chain == {i \in Rows : quotas[i].quota = q}
                      IN  chain # {} =>
        /\ Cardinality(Live(q)) = 1
        /\ Cardinality({i \in chain : quotas[i].previous = 0}) = 1
        /\ \A i \in chain \ Live(q) :
              LET s == quotas[i].supersededBy
              IN  s \in chain /\ quotas[s].previous = i /\ quotas[s].value # quotas[i].value

\* A scan that verifies a version attests the limit it has read itself, even if the
\* row it found current is superseded by the time it is stamped.
VerifiedIsWhatWasRead == \A i \in Rows : quotas[i].attested = quotas[i].value

\* A call that succeeds has put each limit it read on record, as a version or as a
\* verified one, except where a sibling's first row of the chain got in before its
\* own (insertFirstQuota takes that row to hold the same limit).
LimitsAreOnRecord ==
    \A w \in Writers : call[w].st = "ok" =>
        \A i \in DOMAIN batch[w] :
            \/ i \in outraced[w]
            \/ \E r \in Rows : quotas[r].quota = batch[w][i].quota
                               /\ quotas[r].value = batch[w][i].value

\* The count a call returns is the number of rows it has inserted; only a COMMIT
\* whose answer was lost makes it smaller, and nothing makes it larger.
CountIsOfRows ==
    \A w \in Writers : call[w].st = "ok" =>
        /\ inserted[w] <= applied[w]
        /\ ~call[w].failed => inserted[w] = applied[w]

\* What two scans that upsert the same quotas may never spoil, whatever their
\* statements do between each other's (UpsertQuotas).
QuotasAreHonest ==
    QuotaTypeOK /\ ChainsAreLinear /\ VerifiedIsWhatWasRead /\ LimitsAreOnRecord /\ CountIsOfRows
=============================================================================
