----------------------------- MODULE EdgeBuffer -----------------------------
(***************************************************************************)
(* How edges reach the relationships table: a resolver of a provider's     *)
(* dispatcher emits edges into a buffer of its own, which FlushRelBuffer   *)
(* empties and writes in one transaction of UPDATE-then-INSERT pairs       *)
(* (src/store/relationships.go, src/store/store.go); a scanner writes an   *)
(* edge directly, each statement for itself.  Every write is a call of     *)
(* WriteRetry.  The database is Postgres: statements of two transactions   *)
(* interleave, a row written by an open transaction is locked, and a cycle *)
(* of waiting transactions costs one of them its life (40P01).  SQLite     *)
(* runs one transaction at a time, a subset of these behaviours.           *)
(***************************************************************************)
EXTENDS WriteRetry, Sequences, SequencesExt

CONSTANTS
    Edges,          \* (from_id, to_id, kind)
    Attrs,          \* attribute blobs
    Direct,         \* writers that write without a buffer
    Failing,        \* bound: resolvers whose own errors are explored
    Jobs,           \* Jobs[w]: what writer w runs, each a sequence of emitted edges
    Teams,          \* bound: the sets of writers that run beside each other
    Absent

ASSUME EdgeAssumption ==
    /\ Direct \subseteq Writers
    /\ Failing \subseteq Writers \ Direct
    /\ Teams \subseteq SUBSET Writers
    /\ Absent \notin Attrs
    /\ Jobs \in [Writers -> Seq(Seq([edge : Edges, attrs : Attrs]))]
    /\ \A w \in Writers : \A i \in 1 .. Len(Jobs[w]) : w \in Direct => Len(Jobs[w][i]) = 1

VARIABLES
    table,      \* the committed rows: edge -> attributes
    held,       \* edge -> the transaction that wrote it and has not ended
    job,        \* writer -> index of its job: 0 before the first, beyond the last without part
    phase,      \* writer -> "flushing", "between"
    buffer,     \* writer -> edges emitted and not yet taken
    batch,      \* writer -> edges taken by the flush in progress
    tx,         \* writer -> the attempt in progress
    known,      \* writer -> edges in the table when its call began
    reported    \* jobs whose resolver or flush was reported as an error

edgeVars == <<table, held, job, phase, buffer, batch, tx, known, reported>>
flushVars == <<retryVars, edgeVars>>

Free == "free"
Nothing == [e \in Edges |-> Absent]
NoTx == [at |-> 0, stmt |-> "none", wrote |-> Nothing]
Begin == [at |-> 1, stmt |-> "update", wrote |-> Nothing]

EdgeInit ==
    /\ RetryInit
    /\ table = Nothing
    /\ held = [e \in Edges |-> Free]
    /\ \E team \in Teams :
          job = [w \in Writers |-> IF w \in team THEN 0 ELSE Len(Jobs[w]) + 1]
    /\ phase = [w \in Writers |-> "between"]
    /\ buffer = [w \in Writers |-> <<>>]
    /\ batch = [w \in Writers |-> <<>>]
    /\ tx = [w \in Writers |-> NoTx]
    /\ known = [w \in Writers |-> {}]
    /\ reported = {}

-----------------------------------------------------------------------------
(* The dispatcher: run a resolver, flush, report, never stop for a failure. *)

\* The next resolver runs: it emits its edges, or some of them and returns an
\* error, which is reported; what it emitted is flushed all the same.
Emit(w) ==
    /\ phase[w] = "between"
    /\ job[w] < Len(Jobs[w])
    /\ job' = [job EXCEPT ![w] = @ + 1]
    /\ phase' = [phase EXCEPT ![w] = "flushing"]
    /\ LET all == Jobs[w][job'[w]]
       IN  \E n \in 0 .. Len(all) :
             /\ w \notin Failing => n = Len(all)
             /\ buffer' = [buffer EXCEPT ![w] = SubSeq(all, 1, n)]
             /\ reported' = IF n < Len(all) THEN reported \union {<<w, job'[w], "resolver">>}
                                            ELSE reported
    /\ UNCHANGED <<retryVars, table, held, batch, tx, known>>

\* FlushRelBuffer: the buffer is emptied before the write.
TakeBuffer(w) ==
    /\ batch' = [batch EXCEPT ![w] = buffer[w]]
    /\ buffer' = [buffer EXCEPT ![w] = <<>>]

FlushNothing(w) ==
    /\ phase[w] = "flushing"
    /\ call[w].st = "idle"
    /\ buffer[w] = <<>>
    /\ phase' = [phase EXCEPT ![w] = "between"]
    /\ UNCHANGED <<retryVars, table, held, job, buffer, batch, tx, known, reported>>

FlushStarts(w) ==
    /\ phase[w] = "flushing"
    /\ buffer[w] # <<>>
    /\ TakeBuffer(w)
    /\ CallStarts(w, FALSE)
    /\ known' = [known EXCEPT ![w] = {e \in Edges : table[e] # Absent}]
    /\ tx' = [tx EXCEPT ![w] = Begin]
    /\ UNCHANGED <<table, held, job, phase, reported>>

\* The result of the flush (or of the direct write).
FlushReturns(w) ==
    /\ CallReturns(w)
    /\ reported' = IF call[w].st = "failed" THEN reported \union {<<w, job[w], "flush">>}
                                            ELSE reported
    /\ phase' = [phase EXCEPT ![w] = "between"]
    /\ batch' = [batch EXCEPT ![w] = <<>>]
    /\ UNCHANGED <<table, held, job, buffer, tx, known>>

-----------------------------------------------------------------------------
(* One attempt: the statements of upsertRelationshipsTx. *)

Trying(w) == call[w].st = "trying" /\ tx[w].at \in 1 .. Len(batch[w])
This(w) == batch[w][tx[w].at]
Wrote(w, e) == tx[w].wrote[e] # Absent

\* The transaction whose end the next statement of w has to await.
Waits(w) ==
    IF ~Trying(w) THEN {}
    ELSE LET e == This(w).edge
             needs == \/ tx[w].stmt = "update" /\ table[e] # Absent
                      \/ tx[w].stmt = "insert" /\ table[e] = Absent
         IN  IF needs /\ held[e] \notin {Free, w} THEN {held[e]} ELSE {}

\* The statement is done, and wrote is what the attempt has written.
Advance(w, wrote) == tx' = [tx EXCEPT ![w] = [at |-> @.at + 1, stmt |-> "update", wrote |-> wrote]]

\* A statement that writes the row of edge e, in w's transaction or for itself.
Write(w, e) ==
    IF w \in Direct
    THEN /\ table' = [table EXCEPT ![e] = This(w).attrs]
         /\ Advance(w, tx[w].wrote)
         /\ UNCHANGED held
    ELSE /\ held' = [held EXCEPT ![e] = w]
         /\ Advance(w, [tx[w].wrote EXCEPT ![e] = This(w).attrs])
         /\ UNCHANGED table

\* Mutant of UpdateEdge: INSERT ... ON CONFLICT DO NOTHING without the UPDATE before it.
UpdateNever(w) ==
    /\ db = "up"
    /\ Trying(w)
    /\ tx[w].stmt = "update"
    /\ tx' = [tx EXCEPT ![w].stmt = "insert"]
    /\ UNCHANGED <<retryVars, table, held, job, phase, buffer, batch, known, reported>>

\* UPDATE ... WHERE from_id, to_id, kind: one row, or none and the INSERT is next.
UpdateEdge(w) ==
    /\ db = "up"
    /\ Trying(w)
    /\ tx[w].stmt = "update"
    /\ Waits(w) = {}
    /\ LET e == This(w).edge
       IN  IF table[e] # Absent \/ Wrote(w, e)
           THEN Write(w, e)
           ELSE /\ tx' = [tx EXCEPT ![w].stmt = "insert"]
                /\ UNCHANGED <<table, held>>
    /\ UNCHANGED <<retryVars, job, phase, buffer, batch, known, reported>>

\* INSERT ... ON CONFLICT DO NOTHING: a row a sibling committed meanwhile stands.
InsertEdge(w) ==
    /\ db = "up"
    /\ Trying(w)
    /\ tx[w].stmt = "insert"
    /\ Waits(w) = {}
    /\ LET e == This(w).edge
       IN  IF table[e] = Absent
           THEN Write(w, e)
           ELSE Advance(w, tx[w].wrote) /\ UNCHANGED <<table, held>>
    /\ UNCHANGED <<retryVars, job, phase, buffer, batch, known, reported>>

\* What the open transaction wrote becomes the table; its locks are free.
Apply(w) == [e \in Edges |-> IF Wrote(w, e) THEN tx[w].wrote[e] ELSE table[e]]

Release(w) == [e \in Edges |-> IF held[e] = w THEN Free ELSE held[e]]

Committing(w) == call[w].st = "trying" /\ tx[w].at = Len(batch[w]) + 1

Commit(w) ==
    /\ Committing(w)
    /\ AttemptSucceeds(w)
    /\ table' = Apply(w)
    /\ held' = Release(w)
    /\ tx' = [tx EXCEPT ![w] = NoTx]
    /\ UNCHANGED <<job, phase, buffer, batch, known, reported>>

\* Mutant of RollBack: a retry goes on where the failed attempt stopped.
RollBackResumes(w) ==
    /\ held' = Release(w)
    /\ tx' = [tx EXCEPT ![w].wrote = Nothing]
    /\ UNCHANGED <<job, phase, buffer, batch, known, reported>>

\* Mutant of RollBack: the rollback is forgotten on the error path.
RollBackHolds(w) ==
    /\ tx' = [tx EXCEPT ![w] = IF call'[w].st = "pausing" THEN Begin ELSE NoTx]
    /\ UNCHANGED <<held, job, phase, buffer, batch, known, reported>>

\* The transaction is rolled back; a retry starts it over.
RollBack(w) ==
    /\ held' = Release(w)
    /\ tx' = [tx EXCEPT ![w] = IF call'[w].st = "pausing" THEN Begin ELSE NoTx]
    /\ UNCHANGED <<job, phase, buffer, batch, known, reported>>

\* The connection fails somewhere in the attempt.
ConnectionFails(w) ==
    /\ AttemptFails(w)
    /\ RollBack(w)
    /\ UNCHANGED table

\* The connection fails after COMMIT took effect.
CommitLost(w) ==
    /\ Committing(w)
    /\ AttemptLost(w)
    /\ table' = Apply(w)
    /\ RollBack(w)

\* The server breaks a cycle of waiting transactions.
Deadlocked(w) ==
    \E S \in SUBSET Writers :
        w \in S /\ \A v \in S : Waits(v) # {} /\ Waits(v) \subseteq S

DeadlockVictim(w) ==
    /\ Deadlocked(w)
    /\ AttemptRefused(w)
    /\ RollBack(w)
    /\ UNCHANGED table

-----------------------------------------------------------------------------
RetryStep(w) == (CloseCircuit(w) \/ Wake(w)) /\ UNCHANGED edgeVars

DatabaseStep == (OutageBegins \/ OutageEnds) /\ UNCHANGED edgeVars

\* What a goroutine does of itself: with the server up its statements return,
\* unless they wait for a lock; with the server down they fail.
Progress(w) ==
    \/ Emit(w) \/ FlushNothing(w) \/ FlushStarts(w) \/ FlushReturns(w)
    \/ UpdateEdge(w) \/ InsertEdge(w) \/ Commit(w) \/ DeadlockVictim(w)
    \/ RetryStep(w)
    \/ db = "down" /\ ConnectionFails(w)

EdgeNext ==
    \/ DatabaseStep
    \/ \E w \in Writers : Progress(w) \/ ConnectionFails(w) \/ CommitLost(w)

EdgeSpec == EdgeInit /\ [][EdgeNext]_flushVars

-----------------------------------------------------------------------------
Finished(w, i) ==
    /\ job[w] <= Len(Jobs[w])
    /\ i < job[w] \/ (i = job[w] /\ phase[w] = "between")

\* No edge is lost in silence: when a job has ended and neither its resolver nor
\* its flush was reported, every edge it emitted is a row.  The buffer is empty
\* by then whatever became of its content, so nothing else remembers them.
EdgesStoredOrReported ==
    \A w \in Writers : \A i \in 1 .. Len(Jobs[w]) :
        Finished(w, i) /\ {<<w, i, "resolver">>, <<w, i, "flush">>} \cap reported = {}
            => \A x \in ToSet(Jobs[w][i]) : table[x.edge] # Absent

\* A flush that commits refreshes every edge that was a row when it began: of
\* the siblings' attributes only those of an edge created meanwhile may stand.
RefreshLands ==
    [][\A w \in Writers \ Direct :
         call[w].st = "trying" /\ call'[w].st = "won" =>
             \A e \in known[w] :
                 LET i == SelectLastInSeq(batch[w], LAMBDA x : x.edge = e)
                 IN  i > 0 => table'[e] = batch[w][i].attrs]_flushVars

\* A writer has come to the end of its jobs.
WriterDone(w) == job[w] >= Len(Jobs[w]) /\ phase[w] = "between" /\ call[w].st = "idle"
=============================================================================
