--------------------------- MODULE ScanLifecycleInv ---------------------------
(***************************************************************************)
(* The inductive invariant of ScanLifecycle: what a run knows about itself *)
(* at each phase, and what a row owes to the runs that wrote it.           *)
(***************************************************************************)
EXTENDS ScanLifecycle

\* A run that has its row and has not ended.
Working == {"started", "running", "mark", "count", "append"}
\* A run whose services have all come to an end.
Settled == {"mark", "count", "append"}

\* A working run names a row that exists; one that has not begun names none.
HasRow ==
    /\ \A r \in Runs : phase[r] \in Working => scan[r] \in ScanIds /\ Exists(scan[r])
    /\ \A r \in Runs : phase[r] \in {"new", "gated"} => scan[r] = NoId

\* A run has an exit when it is over.
Ended == \A r \in Runs : exit[r] = "none" <=> phase[r] # "over"

\* The chain on a store is the running run of its process, or nobody; so every
\* run finds an empty chain, and what is reported to a store reaches one run.
OneSink ==
    /\ \A r \in Runs : prev[r] = <<>>
    /\ \A r \in Runs : phase[r] = "running" => sinks[ProcOf[r]] = <<r>>
    /\ \A p \in Procs : sinks[p] # <<>>
         => \E r \in Runs : ProcOf[r] = p /\ phase[r] = "running" /\ sinks[p] = <<r>>

\* What became of a run's services shows in what Finalize is given.
Told ==
    /\ \A r \in Runs : phase[r] \in Settled \cup {"running"} =>
         \A v \in Services : /\ result[r][v] = "out" => v \notin AskedOf(r)
                             /\ result[r][v] = "failed" => errs[r] # <<>>
                             /\ result[r][v] = "missed" =>
                                  IF phase[r] = "running" THEN cancelled[r] ELSE interrupted[r]
    /\ \A r \in Runs : phase[r] \in Settled => \A v \in Services : result[r][v] # "todo"

\* A running row has a run that is still to mark it, or that died before.
Owned ==
    \A s \in ScanIds : Exists(s) /\ scans[s].status = "running"
        => \E r \in Runs : /\ scan[r] = s
                           /\ \/ phase[r] \in {"started", "running", "mark"}
                              \/ phase[r] = "over" /\ exit[r] \in {"killed", "error"}

\* Rows start in the past and finish after that.
Timely ==
    /\ \A s \in ScanIds : Exists(s) => scans[s].started <= clock
    /\ FinishedAfterStarted

\* The current version of a resource is stamped with the scan that has listed it last.
Tallied ==
    /\ \A s \in ScanIds, v \in Services : Current(v, s) <=> v \in saw[s] \ taken[s]
    /\ CountIsOfResources

LifeInv == TypeOK /\ HasRow /\ Ended /\ OneSink /\ Told /\ Owned
             /\ CompletedMeansClean /\ Timely /\ Tallied
-----------------------------------------------------------------------------
(* The way of a report: from the callbacks into the lists of the run, from *)
(* there into the queue of Finalize, and from there into the row.          *)

Writing == {"count", "append"}
Concluded == {"complete", "partial", "interrupted"}

\* The lists of a run say what its services reported, each warning once.
Heard(r) ==
    /\ phase[r] \in {"new", "gated", "started"} => errs[r] = <<>> /\ warns[r] = <<>>
    /\ phase[r] \in Settled \cup {"running"} =>
         /\ \A v \in Services : result[r][v] = "failed" =>
              Among(About(r, v), errs[r]) \/ Among(About(r, ProviderOf[v]), errs[r])
         /\ \A i \in DOMAIN errs[r] : errs[r][i].run = r
         /\ \A v \in WithWarning(r) : Among(About(r, v), warns[r])
         /\ \A i \in DOMAIN warns[r] : \E v \in WithWarning(r) : warns[r][i] = About(r, v)
         /\ \A i, j \in DOMAIN warns[r] : warns[r][i] = warns[r][j] => i = j

\* Entry e is in the row's array or on its way to it.
Due(r, column, e) ==
    \/ Among(e, Column(scans[scan[r]], column))
    \/ Among([column |-> column, entry |-> e], queue[r])

\* What Finalize has to append is due, unless an append has failed.
Underway(r) ==
    /\ phase[r] \notin Writing => queue[r] = <<>>
    /\ phase[r] \in Writing =>
         /\ \A j \in DOMAIN queue[r] :
              /\ queue[r][j].entry.run = r
              /\ queue[r][j].column = "warnings" => Among(queue[r][j].entry, KeptWarnings(r))
         /\ lost[r] = 0 =>
              /\ ~Clean(r) => \A i \in DOMAIN Failures(r) : Due(r, "errors", Failures(r)[i])
              /\ \A i \in DOMAIN KeptWarnings(r) : Due(r, "warnings", KeptWarnings(r)[i])

\* A row's warnings that name r are the ones r keeps, and none before r appends.
Attributed(r) ==
    \A s \in ScanIds : Exists(s) => \A i \in DOMAIN scans[s].warnings :
        scans[s].warnings[i].run = r =>
            /\ phase[r] \in Writing \cup {"over"}
            /\ phase[r] \in Writing /\ s = scan[r]
                 => Among(scans[s].warnings[i], KeptWarnings(r))

\* The array a run has read is still the row's.
Buffered(r) ==
    buf[r] # NoBuf => /\ ~Postgres /\ Appending(r)
                      /\ buf[r] = Column(scans[scan[r]], NextAppend(r).column)

\* When the run is over its row is still there, with all of it.
Arrived(r) ==
    exit[r] \in Concluded => /\ scan[r] \in ScanIds /\ Exists(scan[r])
                             /\ lost[r] = 0 => Lands(r)

LandAt(r) ==
    /\ Heard(r)
    /\ Underway(r)
    /\ Attributed(r)
    /\ Buffered(r)
    /\ Arrived(r)

\* A row that is not shared has one run at work.
OneAtWork ==
    ShareLive \/ \A q, r \in Runs :
        scan[q] = scan[r] /\ scan[r] # NoId /\ phase[q] # "over" /\ phase[r] # "over" => q = r

\* All of it, of rows that are not shared or on Postgres.
ScanInv == LifeInv /\ OneAtWork /\ \A r \in Runs : LandAt(r)
=============================================================================
