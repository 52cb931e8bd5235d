---------------------------- MODULE ScanLifecycle ----------------------------
(***************************************************************************)
(* The scan rows and the runs that write them: `disco scan' (cmd/scan.go)  *)
(* and the in-process driver (scanrun.Allocate, Execute).                  *)
(*                                                                         *)
(* A run picks a scan row (a fresh one, the one DISCO_SCAN_ID names, or an *)
(* old one under --resume), chains its callbacks onto the store, lets the  *)
(* services of its providers run concurrently, collects what they          *)
(* reported and finalises the row statement by statement.  A run can be    *)
(* cancelled (first SIGINT) or its process killed (second SIGINT, crash);  *)
(* any statement of the finalisation can fail.  Several processes may      *)
(* share the database, and one process may hold several runs.              *)
(*                                                                         *)
(* Time is a clock in ticks of MaxAge's unit.  Messages are topics: the    *)
(* service or provider a failure or a warning is about.  What a service    *)
(* lists is one resource: a chain of versions, of which only verified_by   *)
(* is kept.                                                                *)
(***************************************************************************)
EXTENDS Naturals, Sequences, FiniteSets

CONSTANTS
    Runs,           \* executions of RunScanners, each used once
    Procs,          \* operating system processes, one store each
    ProcOf,         \* ProcOf[r]: the process run r belongs to
    ScanIds,        \* ids of scan rows; random hex, so numbers in no order of time
    Hints,          \* ids an orchestrator may pass in DISCO_SCAN_ID
    Providers,
    Services,
    ProviderOf,     \* ProviderOf[v]: the provider whose scanner runs service v
    Wants,          \* Wants[r]: the providers run r is asked to scan
    Postgres,       \* TRUE: jsonb append, ids break ties; FALSE: SQLite
    ShareLive,      \* TRUE: a row may be resumed while a run still works on it
    WarnCap,        \* maxPersistedWarnings
    MaxAge,         \* --if-older-than
    MaxTime,        \* bound: ticks of the clock
    MaxVersions,    \* bound: versions of one resource
    NoScan,         \* no row under this id
    NoBuf           \* no read-modify-write in progress

Interrupted == "scan:interrupted"
Truncated == "scan:warnings-truncated"
NoId == 0

ASSUME ConstantsAssumption ==
    /\ ProcOf \in [Runs -> Procs]
    /\ ScanIds \subseteq Nat \ {NoId}
    /\ IsFiniteSet(ScanIds) /\ IsFiniteSet(Services)
    /\ Hints \subseteq ScanIds
    /\ ProviderOf \in [Services -> Providers]
    /\ Wants \in [Runs -> SUBSET Providers]
    /\ Postgres \in BOOLEAN /\ ShareLive \in BOOLEAN
    /\ WarnCap \in Nat /\ MaxAge \in Nat /\ MaxTime \in Nat /\ MaxVersions \in Nat

\* One structured entry; `run' says which run's scanners produced it.
Entry == [run: Runs, topic: Services \cup Providers \cup {Interrupted, Truncated},
          dropped: Nat]
About(r, t) == [run |-> r, topic |-> t, dropped |-> 0]

\* An entry on its way to one of the two arrays of a row.
Columns == {"errors", "warnings"}
Pending == [column : Columns, entry : Entry]

Statuses == {"running", "completed", "partial"}

Row == [started: Nat, rowid: Nat, finished: Seq(Nat),
        status: Statuses, providers: SUBSET Providers, error: Seq(Entry),
        errors: Seq(Entry), warnings: Seq(Entry), count: Nat]

ASSUME RowAssumption == NoScan \notin Row /\ NoBuf \notin Seq(Entry)

VARIABLES
    clock,
    scans,          \* table scans, by id
    verifiedBy,     \* verifiedBy[v]: verified_by of each version of v's resource
    sinks,          \* sinks[p]: the OnError/OnWarn chain on p's store
    phase,          \* phase[r]: where the run is
    scan,           \* scan[r]: the id it writes
    prev,           \* prev[r]: the chain it found on the store
    result,         \* result[r][v]: what became of service v
    errs,           \* errs[r]: scanErrors of RunScanners
    warns,          \* warns[r]: its warnings
    cancelled,      \* cancelled[r]: ctx.Err() != nil
    interrupted,    \* interrupted[r]: ctx.Err() as Finalize got it
    queue,          \* queue[r]: appends still to do
    buf             \* buf[r]: the array AppendScanError read (SQLite)

\* History variables, read by properties only.
VARIABLES
    exit,           \* exit[r]: how the run ended
    lost,           \* lost[r]: appends that failed, FinalizeResult.AppendErrors
    saw,            \* saw[s]: the services whose resource a run of s has written
    taken           \* taken[s]: those of them another scan has written since

rowVars == <<clock, scans, verifiedBy>>
localVars == <<prev, errs, warns, cancelled, interrupted, queue, buf>>
runVars == <<phase, scan, result, localVars>>
seenVars == <<saw, taken>>
vars == <<clock, scans, verifiedBy, sinks, phase, scan, prev, result, errs,
          warns, cancelled, interrupted, queue, buf, exit, lost, saw, taken>>

Phases == {"new", "gated", "started", "running", "mark", "count", "append", "over"}
Results == {"out", "todo", "done", "warned", "failed", "missed"}
Exits == {"none", "skipped", "complete", "partial", "interrupted", "error", "killed"}

NotAsked == [v \in Services |-> "out"]
Exists(s) == scans[s] # NoScan

\* A run is at work on row s: started and not over.
Live(s) == \E r \in Runs : scan[r] = s /\ phase[r] # "over"

Goto(r, p) == phase' = [phase EXCEPT ![r] = p]

\* The runs R are over and their local variables gone.
End(R, how) ==
    LET Clear(f, nil) == [r \in Runs |-> IF r \in R THEN nil ELSE f[r]]
    IN /\ phase' = Clear(phase, "over")
       /\ exit' = Clear(exit, how)
       /\ prev' = Clear(prev, <<>>)
       /\ errs' = Clear(errs, <<>>) /\ warns' = Clear(warns, <<>>)
       /\ cancelled' = Clear(cancelled, FALSE)
       /\ interrupted' = Clear(interrupted, FALSE)
       /\ queue' = Clear(queue, <<>>) /\ buf' = Clear(buf, NoBuf)

-----------------------------------------------------------------------------
(* Reading the scans table. *)

\* newestFirst: by start, then by rowid on SQLite and by id on Postgres.
Newer(s, t) ==
    \/ scans[s].started > scans[t].started
    \/ /\ scans[s].started = scans[t].started
       /\ IF Postgres THEN s > t ELSE scans[s].rowid > scans[t].rowid

IsNewest(s, S) == s \in S /\ \A t \in S \ {s} : Newer(s, t)

Covering(p) ==
    {s \in ScanIds : Exists(s) /\ scans[s].status \in {"completed", "partial"}
                               /\ p \in scans[s].providers}
Incomplete == {s \in ScanIds : Exists(s) /\ scans[s].status \in {"running", "partial"}}
Finalised == {s \in ScanIds : Exists(s) /\ scans[s].status \in {"completed", "partial"}}

\* LatestCompleteScan(p) started no longer than MaxAge ago.
Recent(p) ==
    \E s \in ScanIds : IsNewest(s, Covering(p)) /\ scans[s].started + MaxAge >= clock

-----------------------------------------------------------------------------
(* Choosing the row. *)

\* --if-older-than: evaluateIfOlderThan skips the scan, or lets it go on.
Gate(r) ==
    /\ phase[r] = "new"
    /\ \/ /\ \A p \in Wants[r] : Recent(p)
          /\ End({r}, "skipped")
       \/ /\ \E p \in Wants[r] : ~Recent(p)
          /\ Goto(r, "gated")
          /\ UNCHANGED <<exit, localVars>>
    /\ UNCHANGED <<rowVars, sinks, scan, result, lost, seenVars>>

\* The row as the INSERT writes it; on conflict only these columns change.
NewRow(r) ==
    [started |-> clock, rowid |-> Cardinality({s \in ScanIds : Exists(s)}) + 1,
     finished |-> <<>>, status |-> "running", providers |-> Wants[r],
     error |-> <<>>, errors |-> <<>>, warnings |-> <<>>, count |-> 0]
TakenOver(r, row) ==
    [row EXCEPT !.started = clock, !.status = "running", !.providers = Wants[r]]

\* The run has its row.
Begin(r, s) ==
    /\ phase[r] \in {"new", "gated"}
    /\ ShareLive \/ ~Live(s)
    /\ scan' = [scan EXCEPT ![r] = s]
    /\ Goto(r, "started")
    /\ UNCHANGED <<clock, verifiedBy, sinks, prev, result, errs, warns, cancelled,
                   interrupted, queue, buf, exit, lost, seenVars>>

\* CreateScanWithID under a random id, or under the id of DISCO_SCAN_ID, whose
\* row may exist already.
CreateScan(r, s) ==
    /\ ~Exists(s) \/ s \in Hints
    /\ scans' = [scans EXCEPT ![s] = IF Exists(s) THEN TakenOver(r, @) ELSE NewRow(r)]
    /\ Begin(r, s)

\* --resume latest.
ResumeLatest(r, s) ==
    /\ IsNewest(s, Incomplete)
    /\ Begin(r, s)
    /\ UNCHANGED scans

\* --resume <id>, whatever the row's status.
ResumeNamed(r, s) ==
    /\ Exists(s)
    /\ Begin(r, s)
    /\ UNCHANGED scans

-----------------------------------------------------------------------------
(* RunScanners. *)

\* The run captures the store's callbacks and chains its own onto them; callers
\* with several runs in one process serialise them (applyOverrides).
Launch(r) ==
    /\ phase[r] = "started"
    /\ \A q \in Runs \ {r} : ProcOf[q] = ProcOf[r] => phase[q] # "running"
    /\ prev' = [prev EXCEPT ![r] = sinks[ProcOf[r]]]
    /\ sinks' = [sinks EXCEPT ![ProcOf[r]] = Append(@, r)]
    /\ result' = [result EXCEPT ![r] =
         [v \in Services |-> IF ProviderOf[v] \in Wants[r] THEN "todo" ELSE "out"]]
    /\ Goto(r, "running")
    /\ UNCHANGED <<rowVars, scan, errs, warns, cancelled, interrupted, queue, buf,
                   exit, lost, seenVars>>

\* What every callback chained on r's store collects when e is reported.
Collected(r, lists, e) ==
    [x \in Runs |-> IF \E i \in DOMAIN sinks[ProcOf[r]] : sinks[ProcOf[r]][i] = x
                    THEN Append(lists[x], e) ELSE lists[x]]

Todo(r, v) == phase[r] = "running" /\ result[r][v] = "todo"
Becomes(r, v, what) == result' = [result EXCEPT ![r][v] = what]

\* What a service does to the table before it ends: nothing, or UpsertResources stores
\* its resource as the first row, as a new version because the content has changed,
\* or as the scan id on the current version.
Listings == {"nothing", "same", "changed"}
Stamped(list, s, how) ==
    IF list = <<>> \/ how = "changed" THEN Append(list, s)
    ELSE [list EXCEPT ![Len(list)] = s]
Lists(r, v, how) ==
    \/ how = "nothing" /\ UNCHANGED <<verifiedBy, seenVars>>
    \/ /\ how # "nothing"
       /\ how = "changed" => Len(verifiedBy[v]) < MaxVersions
       /\ verifiedBy' = [verifiedBy EXCEPT ![v] = Stamped(@, scan[r], how)]
       /\ saw' = [saw EXCEPT ![scan[r]] = @ \cup {v}]
       /\ taken' = [s \in ScanIds |-> IF s = scan[r] THEN taken[s] \ {v}
                                      ELSE taken[s] \cup (saw[s] \cap {v})]

\* The service function returns without an error, or with one that says the
\* service is switched off; with or without a warning (a skipped call), having
\* stored its rows or found none.
ServiceDone(r, v, what, how) ==
    /\ Todo(r, v)
    /\ what \in {"done", "warned"}
    /\ Becomes(r, v, what)
    /\ Lists(r, v, how)
    /\ warns' = IF what = "warned" THEN Collected(r, warns, About(r, v)) ELSE warns
    /\ UNCHANGED <<clock, scans, sinks, phase, scan, prev, errs, cancelled,
                   interrupted, queue, buf, exit, lost>>

\* It returns an error (the cloud API, its deadline, ErrStoreWrite), after some
\* rows or none: the dispatcher reports it and goes on.
ServiceFails(r, v, how) ==
    /\ Todo(r, v)
    /\ Becomes(r, v, "failed")
    /\ Lists(r, v, how)
    /\ errs' = Collected(r, errs, About(r, v))
    /\ UNCHANGED <<clock, scans, sinks, phase, scan, prev, warns, cancelled,
                   interrupted, queue, buf, exit, lost>>

\* The context ended while the service waited for the semaphore: its goroutine
\* returns and reports nothing.
ServiceMissed(r, v) ==
    /\ Todo(r, v)
    /\ cancelled[r]
    /\ Becomes(r, v, "missed")
    /\ UNCHANGED <<rowVars, sinks, phase, scan, prev, errs, warns, cancelled,
                   interrupted, queue, buf, exit, lost, seenVars>>

\* A provider's Scan fails before it starts any service (credentials, accounts):
\* RunScanners itself adds the error.
ScannerFails(r, p) ==
    /\ phase[r] = "running"
    /\ \E v \in Services : ProviderOf[v] = p
    /\ \A v \in Services : ProviderOf[v] = p => result[r][v] = "todo"
    /\ result' = [result EXCEPT ![r] =
         [v \in Services |-> IF ProviderOf[v] = p THEN "failed" ELSE result[r][v]]]
    /\ errs' = [errs EXCEPT ![r] = Append(@, About(r, p))]
    /\ UNCHANGED <<rowVars, sinks, phase, scan, prev, warns, cancelled, interrupted,
                   queue, buf, exit, lost, seenVars>>

\* SIGINT, SIGTERM or a deadline of the caller: the context stays cancelled.
Cancel(r) ==
    /\ phase[r] \in {"started", "running"} /\ ~cancelled[r]
    /\ cancelled' = [cancelled EXCEPT ![r] = TRUE]
    /\ UNCHANGED <<rowVars, sinks, phase, scan, prev, result, errs, warns,
                   interrupted, queue, buf, exit, lost, seenVars>>

\* Mutants of Collect: the callbacks stay installed; Finalize is told of no
\* interruption.
CollectKeepingSinks(r) ==
    /\ phase[r] = "running"
    /\ \A v \in Services : result[r][v] # "todo"
    /\ interrupted' = [interrupted EXCEPT ![r] = cancelled[r]]
    /\ Goto(r, "mark")
    /\ UNCHANGED <<rowVars, sinks, scan, prev, result, errs, warns, cancelled, queue,
                   buf, exit, lost, seenVars>>
CollectUninterrupted(r) ==
    /\ phase[r] = "running"
    /\ \A v \in Services : result[r][v] # "todo"
    /\ sinks' = [sinks EXCEPT ![ProcOf[r]] = prev[r]]
    /\ Goto(r, "mark")
    /\ UNCHANGED <<rowVars, scan, prev, result, errs, warns, cancelled, interrupted,
                   queue, buf, exit, lost, seenVars>>

\* wg.Wait returns: the callbacks are restored, and Finalize is called with
\* ctx.Err() as it is now.
Collect(r) ==
    /\ phase[r] = "running"
    /\ \A v \in Services : result[r][v] # "todo"
    /\ sinks' = [sinks EXCEPT ![ProcOf[r]] = prev[r]]
    /\ interrupted' = [interrupted EXCEPT ![r] = cancelled[r]]
    /\ Goto(r, "mark")
    /\ UNCHANGED <<rowVars, scan, prev, result, errs, warns, cancelled, queue, buf,
                   exit, lost, seenVars>>

-----------------------------------------------------------------------------
(* Finalize, statement by statement. *)

Clean(r) == errs[r] = <<>> /\ ~interrupted[r]

\* The failures in the order Finalize writes them.
Failures(r) ==
    (IF interrupted[r] THEN <<About(r, Interrupted)>> ELSE <<>>) \o errs[r]

\* Mutant of KeptWarnings: the rest is dropped without a word.
KeptWarningsSilently(r) ==
    SubSeq(warns[r], 1, IF Len(warns[r]) > WarnCap THEN WarnCap ELSE Len(warns[r]))

\* persistWarnings: at most WarnCap, then one entry that says how many are not
\* recorded.
KeptWarnings(r) ==
    IF Len(warns[r]) > WarnCap
    THEN SubSeq(warns[r], 1, WarnCap)
         \o <<[run |-> r, topic |-> Truncated, dropped |-> Len(warns[r]) - WarnCap]>>
    ELSE warns[r]

\* The appends that follow the status: errors of a partial scan, and warnings
\* whatever the status.
Appends(r) ==
    LET es == IF Clean(r) THEN <<>> ELSE Failures(r)
        ws == KeptWarnings(r)
    IN [i \in 1..Len(es) |-> [column |-> "errors", entry |-> es[i]]]
       \o [i \in 1..Len(ws) |-> [column |-> "warnings", entry |-> ws[i]]]

\* Mutant of ResourceCount: superseded_by IS NULL is dropped.
ResourceCountOfVersions(s) ==
    Cardinality({e \in Services \X (1..MaxVersions) :
                    e[2] \in DOMAIN verifiedBy[e[1]] /\ verifiedBy[e[1]][e[2]] = s})

\* scanResourceCountExpr: of the rows the scan was the last to verify, those that no
\* later version has superseded.
Current(v, s) == verifiedBy[v] # <<>> /\ verifiedBy[v][Len(verifiedBy[v])] = s
ResourceCount(s) == Cardinality({v \in Services : Current(v, s)})

\* Mutant of Marked: an interruption nobody reported is no reason to touch the
\* row.
MarkedIfReported(r, row) ==
    IF Clean(r)
    THEN [row EXCEPT !.status = "completed", !.finished = <<clock>>,
                     !.count = ResourceCount(scan[r])]
    ELSE IF errs[r] = <<>> THEN row
    ELSE [row EXCEPT !.status = "partial", !.finished = <<clock>>,
                     !.count = ResourceCount(scan[r]), !.error = Failures(r)]

\* CompleteScan when nothing failed and nobody interrupted, else PartialScan.
\* Completing leaves the error of an earlier attempt in place.
Marked(r, row) ==
    IF Clean(r)
    THEN [row EXCEPT !.status = "completed", !.finished = <<clock>>,
                     !.count = ResourceCount(scan[r])]
    ELSE [row EXCEPT !.status = "partial", !.finished = <<clock>>,
                     !.count = ResourceCount(scan[r]), !.error = Failures(r)]

Mark(r) ==
    /\ phase[r] = "mark"
    /\ scans' = [scans EXCEPT ![scan[r]] = Marked(r, @)]
    /\ queue' = [queue EXCEPT ![r] = Appends(r)]
    /\ Goto(r, "count")
    /\ UNCHANGED <<clock, verifiedBy, sinks, scan, prev, result, errs, warns,
                   cancelled, interrupted, buf, exit, lost, seenVars>>

\* ScanResourceCount reads the count back, for the summary.
ReadCount(r) ==
    /\ phase[r] = "count"
    /\ Goto(r, "append")
    /\ UNCHANGED <<rowVars, sinks, scan, prev, result, errs, warns, cancelled,
                   interrupted, queue, buf, exit, lost, seenVars>>

Appending(r) == phase[r] = "append" /\ queue[r] # <<>>
NextAppend(r) == Head(queue[r])
Dequeue(r) ==
    /\ queue' = [queue EXCEPT ![r] = Tail(@)]
    /\ buf' = [buf EXCEPT ![r] = NoBuf]
    /\ UNCHANGED <<clock, verifiedBy, sinks, phase, scan, prev, result, errs, warns,
                   cancelled, interrupted, exit, seenVars>>

\* The row with an entry appended to the array `list' of a column.
WithEntry(row, column, list, e) ==
    IF column = "errors" THEN [row EXCEPT !.errors = Append(list, e)]
                         ELSE [row EXCEPT !.warnings = Append(list, e)]
Column(row, column) == IF column = "errors" THEN row.errors ELSE row.warnings

\* SQLite: AppendScanError and AppendScanWarning read the array ...
AppendRead(r) ==
    /\ Appending(r) /\ ~Postgres /\ buf[r] = NoBuf
    /\ buf' = [buf EXCEPT ![r] = Column(scans[scan[r]], NextAppend(r).column)]
    /\ UNCHANGED <<rowVars, sinks, phase, scan, prev, result, errs, warns, cancelled,
                   interrupted, queue, exit, lost, seenVars>>

\* ... and write it back longer by one, in a second statement.
AppendWrite(r) ==
    /\ Appending(r) /\ ~Postgres /\ buf[r] # NoBuf
    /\ scans' = [scans EXCEPT ![scan[r]] =
         WithEntry(@, NextAppend(r).column, buf[r], NextAppend(r).entry)]
    /\ Dequeue(r)
    /\ UNCHANGED lost

\* Mutant of AppendJsonb: the array is written over.
AppendJsonbOver(r) ==
    /\ Appending(r) /\ Postgres
    /\ scans' = [scans EXCEPT ![scan[r]] =
         WithEntry(@, NextAppend(r).column, <<>>, NextAppend(r).entry)]
    /\ Dequeue(r)
    /\ UNCHANGED lost

\* Postgres: errors || $1::jsonb, in one statement.
AppendJsonb(r) ==
    /\ Appending(r) /\ Postgres
    /\ scans' = [scans EXCEPT ![scan[r]] =
         WithEntry(@, NextAppend(r).column, Column(@, NextAppend(r).column),
                   NextAppend(r).entry)]
    /\ Dequeue(r)
    /\ UNCHANGED lost

\* An append that fails is reported to the caller and not repeated.
AppendFails(r) ==
    /\ Appending(r)
    /\ lost' = [lost EXCEPT ![r] = @ + 1]
    /\ Dequeue(r)
    /\ UNCHANGED scans

\* Finalize returns, and the command exits with 130, 0 or 1 by its result.
Finish(r) ==
    /\ phase[r] = "append" /\ queue[r] = <<>>
    /\ End({r}, IF interrupted[r] THEN "interrupted"
                ELSE IF errs[r] # <<>> THEN "partial" ELSE "complete")
    /\ UNCHANGED <<rowVars, sinks, scan, result, lost, seenVars>>

\* A statement that must succeed fails: creating the row, marking it, reading
\* its count; or --resume finds no row.  The command exits with the error and
\* does nothing more.
StoreFails(r) ==
    /\ phase[r] \in {"new", "gated", "mark", "count"}
    /\ End({r}, "error")
    /\ UNCHANGED <<rowVars, sinks, scan, result, lost, seenVars>>

\* The process dies with all its runs; its store, and the callbacks on it, are
\* gone.
WorkingIn(p) == {r \in Runs : ProcOf[r] = p /\ phase[r] \notin {"new", "over"}}
Kill(p) ==
    /\ WorkingIn(p) # {}
    /\ End(WorkingIn(p), "killed")
    /\ sinks' = [sinks EXCEPT ![p] = <<>>]
    /\ UNCHANGED <<rowVars, scan, result, lost, seenVars>>

Tick ==
    /\ clock < MaxTime
    /\ clock' = clock + 1
    /\ UNCHANGED <<scans, verifiedBy, sinks, runVars, exit, lost, seenVars>>

-----------------------------------------------------------------------------
Init ==
    /\ clock = 0
    /\ scans = [s \in ScanIds |-> NoScan]
    /\ verifiedBy = [v \in Services |-> <<>>]
    /\ sinks = [p \in Procs |-> <<>>]
    /\ phase = [r \in Runs |-> "new"]
    /\ scan = [r \in Runs |-> NoId]
    /\ prev = [r \in Runs |-> <<>>]
    /\ result = [r \in Runs |-> NotAsked]
    /\ errs = [r \in Runs |-> <<>>] /\ warns = [r \in Runs |-> <<>>]
    /\ cancelled = [r \in Runs |-> FALSE] /\ interrupted = [r \in Runs |-> FALSE]
    /\ queue = [r \in Runs |-> <<>>] /\ buf = [r \in Runs |-> NoBuf]
    /\ exit = [r \in Runs |-> "none"] /\ lost = [r \in Runs |-> 0]
    /\ saw = [s \in ScanIds |-> {}] /\ taken = [s \in ScanIds |-> {}]

RunStep(r) ==
    \/ Gate(r)
    \/ \E s \in ScanIds : CreateScan(r, s) \/ ResumeLatest(r, s) \/ ResumeNamed(r, s)
    \/ Launch(r)
    \/ \E v \in Services :
         \/ \E how \in Listings :
              \/ \E what \in {"done", "warned"} : ServiceDone(r, v, what, how)
              \/ ServiceFails(r, v, how)
         \/ ServiceMissed(r, v)
    \/ \E p \in Providers : ScannerFails(r, p)
    \/ Cancel(r)
    \/ Collect(r)
    \/ Mark(r) \/ ReadCount(r)
    \/ AppendRead(r) \/ AppendWrite(r) \/ AppendJsonb(r) \/ AppendFails(r)
    \/ Finish(r) \/ StoreFails(r)

Next == (\E r \in Runs : RunStep(r)) \/ (\E p \in Procs : Kill(p)) \/ Tick

Spec == Init /\ [][Next]_vars

-----------------------------------------------------------------------------
(* Type invariant. *)

\* Every variable holds the values the code's types and the schema allow.
TypeOK ==
    /\ clock \in Nat
    /\ scans \in [ScanIds -> Row \cup {NoScan}]
    /\ verifiedBy \in [Services -> Seq(ScanIds)]
    /\ sinks \in [Procs -> Seq(Runs)]
    /\ phase \in [Runs -> Phases]
    /\ scan \in [Runs -> ScanIds \cup {NoId}]
    /\ prev \in [Runs -> Seq(Runs)]
    /\ result \in [Runs -> [Services -> Results]]
    /\ errs \in [Runs -> Seq(Entry)] /\ warns \in [Runs -> Seq(Entry)]
    /\ cancelled \in [Runs -> BOOLEAN] /\ interrupted \in [Runs -> BOOLEAN]
    /\ queue \in [Runs -> Seq(Pending)]
    /\ buf \in [Runs -> Seq(Entry) \cup {NoBuf}]
    /\ exit \in [Runs -> Exits] /\ lost \in [Runs -> Nat]
    /\ saw \in [ScanIds -> SUBSET Services] /\ taken \in [ScanIds -> SUBSET Services]

(* Safety. *)

\* Every service run r was asked to scan ran to its end without an error.
AskedOf(r) == {v \in Services : ProviderOf[v] \in Wants[r]}
Thorough(r) == \A v \in AskedOf(r) : result[r][v] \in {"done", "warned"}

\* A row says `completed' only when a run of it listed everything it was asked
\* to and nothing failed; a run that exits as complete is such a run.  A service
\* that a cancelled context kept from starting reports nothing, and must still
\* show (scanrun.go: "the status can't depend on timing").
CompletedMeansClean ==
    /\ \A s \in ScanIds : Exists(s) /\ scans[s].status = "completed"
         => \E r \in Runs : /\ scan[r] = s /\ Thorough(r)
                            /\ phase[r] \in {"count", "append", "over"}
    /\ \A r \in Runs : exit[r] = "complete" => Thorough(r)

\* A row is `running' only while a run works on it, unless that run was killed
\* or lost the database: no orderly end, an interrupted one included, leaves a
\* row behind that looks alive.
OrphanHasCause ==
    \A s \in ScanIds : Exists(s) /\ scans[s].status = "running"
        => \E r \in Runs : /\ scan[r] = s
                           /\ phase[r] = "over" => exit[r] \in {"killed", "error"}

Among(e, list) == \E i \in DOMAIN list : list[i] = e
WithWarning(r) == {v \in Services : result[r][v] = "warned"}
Recorded(r) == {v \in WithWarning(r) : Among(About(r, v), scans[scan[r]].warnings)}

\* The row of r lists the services that failed, or their provider, the interruption if
\* there was one, and every warning up to the cap with the number left out.
Lands(r) ==
    /\ \A v \in Services : result[r][v] = "failed" =>
         \/ Among(About(r, v), scans[scan[r]].errors)
         \/ Among(About(r, ProviderOf[v]), scans[scan[r]].errors)
    /\ exit[r] = "interrupted" => Among(About(r, Interrupted), scans[scan[r]].errors)
    /\ LET out == Cardinality(WithWarning(r)) - Cardinality(Recorded(r))
       IN out # 0 => /\ Cardinality(Recorded(r)) = WarnCap
                     /\ Among([run |-> r, topic |-> Truncated, dropped |-> out],
                              scans[scan[r]].warnings)

\* After a run whose appends all went through, what it had to report is in its row:
\* whatever other runs do to the row, and however the callbacks of runs on one store
\* are chained.
ReportsLand ==
    \A r \in Runs : exit[r] \in {"complete", "partial", "interrupted"} /\ lost[r] = 0 => Lands(r)

\* The callbacks chained on a store belong to runs that are running: none is
\* left behind to collect another scan's reports.
NoDanglingSink ==
    \A p \in Procs : \A i \in DOMAIN sinks[p] : phase[sinks[p][i]] = "running"

\* resource_count is of resources: at most those the scan has listed, however often
\* each and in however many versions; and at least those no other scan has listed
\* since, once every run of the scan has marked the row, whoever shares it.
HasMarked(r) ==
    phase[r] \in {"count", "append"} \/ exit[r] \in {"complete", "partial", "interrupted"}
AllMarked(s) == \A r \in Runs : scan[r] = s => HasMarked(r)
CountIsOfResources ==
    \A s \in ScanIds : Exists(s) =>
        /\ scans[s].count <= Cardinality(saw[s])
        /\ AllMarked(s) => scans[s].count >= Cardinality(saw[s] \ taken[s])

\* A row that says `completed' or `partial' finished no earlier than it started:
\* taking over a finished row reopens it, whose old finish time stays behind.
FinishedAfterStarted ==
    \A s \in Finalised : scans[s].finished # <<>> /\ scans[s].finished[1] >= scans[s].started
=============================================================================
