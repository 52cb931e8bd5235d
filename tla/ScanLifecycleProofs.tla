------------------------- MODULE ScanLifecycleProofs -------------------------
(***************************************************************************)
(* Proofs about ScanLifecycle: LifeInv is an inductive invariant, for any  *)
(* runs, processes, services and rows, shared or not, on either database;  *)
(* ScanInv, of the way of a report into its row, is one where no row is    *)
(* shared by two live runs, and on Postgres.                               *)
(***************************************************************************)
EXTENDS ScanLifecycleInv, FiniteSetTheorems, TLAPS

-----------------------------------------------------------------------------
(* The values the code builds. *)

\* A topic makes an entry.
LEMMA AboutType ==
    ASSUME NEW r \in Runs, NEW t \in Services \cup Providers \cup {Interrupted, Truncated}
    PROVE  About(r, t) \in Entry
BY DEF About, Entry

\* Any set of services, or of scan ids, has a size.
LEMMA ServiceCount == ASSUME NEW S \in SUBSET Services PROVE Cardinality(S) \in Nat
BY ConstantsAssumption, FS_Subset, FS_CardinalityType

\* What the INSERT writes is a row.
LEMMA NewRowType ==
    ASSUME TypeOK, NEW r \in Runs
    PROVE  NewRow(r) \in Row
<1>1. Cardinality({s \in ScanIds : Exists(s)}) + 1 \in Nat
  <2>1. IsFiniteSet({s \in ScanIds : Exists(s)})
    BY ConstantsAssumption, FS_Subset
  <2>2. Cardinality({s \in ScanIds : Exists(s)}) \in Nat
    BY <2>1, FS_CardinalityType
  <2>3. QED
    BY <2>2
<1>2. Wants[r] \in SUBSET Providers
  BY ConstantsAssumption
<1>3. QED
  BY <1>1, <1>2 DEF NewRow, Row, Statuses, TypeOK

\* Taking a row over keeps it a row (the ON CONFLICT of CreateScanWithID).
LEMMA TakenOverType ==
    ASSUME TypeOK, NEW r \in Runs, NEW row \in Row
    PROVE  /\ TakenOver(r, row) \in Row
           /\ TakenOver(r, row).status = "running"
           /\ TakenOver(r, row).started = clock
           /\ TakenOver(r, row).count = row.count
BY ConstantsAssumption DEF TakenOver, Row, Statuses, TypeOK

\* The failures Finalize lists.
LEMMA FailuresType ==
    ASSUME TypeOK, NEW r \in Runs
    PROVE  Failures(r) \in Seq(Entry)
<1>1. About(r, Interrupted) \in Entry
  BY AboutType
<1>2. errs[r] \in Seq(Entry)
  BY DEF TypeOK
<1>3. <<About(r, Interrupted)>> \in Seq(Entry) /\ <<>> \in Seq(Entry)
  BY <1>1
<1>4. QED
  BY <1>2, <1>3 DEF Failures

\* Marking keeps a row a row, and sets what it sets.
LEMMA MarkedType ==
    ASSUME TypeOK, NEW r \in Runs, NEW row \in Row
    PROVE  /\ Marked(r, row) \in Row
           /\ Marked(r, row).status = IF Clean(r) THEN "completed" ELSE "partial"
           /\ Marked(r, row).finished = <<clock>>
           /\ Marked(r, row).started = row.started
           /\ Marked(r, row).count = ResourceCount(scan[r])
<1>1. ResourceCount(scan[r]) \in Nat
  BY ServiceCount DEF ResourceCount
<1>2. <<clock>> \in Seq(Nat)
  BY DEF TypeOK
<1>3. Failures(r) \in Seq(Entry)
  BY FailuresType
<1>4. QED
  BY <1>1, <1>2, <1>3 DEF Marked, Row, Statuses

\* Appending an entry keeps a row a row, and its other columns.
LEMMA WithEntryType ==
    ASSUME NEW row \in Row, NEW c \in Columns, NEW l \in Seq(Entry), NEW e \in Entry
    PROVE  /\ WithEntry(row, c, l, e) \in Row
           /\ WithEntry(row, c, l, e).status = row.status
           /\ WithEntry(row, c, l, e).started = row.started
           /\ WithEntry(row, c, l, e).finished = row.finished
           /\ WithEntry(row, c, l, e).count = row.count
<1>1. Append(l, e) \in Seq(Entry)
  OBVIOUS
<1>2. QED
  BY <1>1 DEF WithEntry, Row

\* What AppendScanError reads back is a list of entries.
LEMMA ColumnType ==
    ASSUME NEW row \in Row, NEW c \in Columns
    PROVE  Column(row, c) \in Seq(Entry)
BY DEF Column, Row

\* What is left to append is a queue of entries.
LEMMA AppendsType ==
    ASSUME TypeOK, NEW r \in Runs
    PROVE  Appends(r) \in Seq(Pending)
<1> DEFINE es == IF Clean(r) THEN <<>> ELSE Failures(r)
           ws == KeptWarnings(r)
<1>1. es \in Seq(Entry)
  BY FailuresType
<1>2. ws \in Seq(Entry)
  <2>1. warns[r] \in Seq(Entry) /\ Len(warns[r]) \in Nat /\ WarnCap \in Nat
    BY ConstantsAssumption DEF TypeOK
  <2>2. CASE Len(warns[r]) > WarnCap
    <3>1. SubSeq(warns[r], 1, WarnCap) \in Seq(Entry)
      BY <2>1, <2>2
    <3>2. [run |-> r, topic |-> Truncated, dropped |-> Len(warns[r]) - WarnCap] \in Entry
      BY <2>1, <2>2 DEF Entry
    <3>3. QED
      BY <2>2, <3>1, <3>2 DEF KeptWarnings
  <2>3. CASE ~(Len(warns[r]) > WarnCap)
    BY <2>1, <2>3 DEF KeptWarnings
  <2>4. QED
    BY <2>2, <2>3
<1>3. [i \in 1..Len(es) |-> [column |-> "errors", entry |-> es[i]]] \in Seq(Pending)
  <2>1. Len(es) \in Nat /\ \A i \in 1..Len(es) : es[i] \in Entry
    BY <1>1
  <2>2. \A i \in 1..Len(es) : [column |-> "errors", entry |-> es[i]] \in Pending
    BY <2>1 DEF Pending, Columns
  <2>3. QED
    BY <2>1, <2>2
<1>4. [i \in 1..Len(ws) |-> [column |-> "warnings", entry |-> ws[i]]] \in Seq(Pending)
  <2>1. Len(ws) \in Nat /\ \A i \in 1..Len(ws) : ws[i] \in Entry
    BY <1>2
  <2>2. \A i \in 1..Len(ws) : [column |-> "warnings", entry |-> ws[i]] \in Pending
    BY <2>1 DEF Pending, Columns
  <2>3. QED
    BY <2>1, <2>2
<1>5. QED
  BY <1>3, <1>4 DEF Appends

-----------------------------------------------------------------------------
(* The steps. *)

\* What it means for the runs R to end.
LEMMA EndFacts ==
    ASSUME TypeOK, NEW R \in SUBSET Runs, NEW how \in Exits, End(R, how)
    PROVE  /\ phase' \in [Runs -> Phases] /\ exit' \in [Runs -> Exits]
           /\ prev' \in [Runs -> Seq(Runs)]
           /\ errs' \in [Runs -> Seq(Entry)] /\ warns' \in [Runs -> Seq(Entry)]
           /\ cancelled' \in [Runs -> BOOLEAN] /\ interrupted' \in [Runs -> BOOLEAN]
           /\ queue' \in [Runs -> Seq(Pending)]
           /\ buf' \in [Runs -> Seq(Entry) \cup {NoBuf}]
           /\ \A r \in R : phase'[r] = "over" /\ exit'[r] = how /\ prev'[r] = <<>>
           /\ \A r \in Runs \ R : /\ phase'[r] = phase[r] /\ exit'[r] = exit[r]
                                  /\ prev'[r] = prev[r] /\ errs'[r] = errs[r]
                                  /\ cancelled'[r] = cancelled[r]
                                  /\ interrupted'[r] = interrupted[r]
<1>1. phase' \in [Runs -> Phases] /\ exit' \in [Runs -> Exits]
  BY DEF End, TypeOK, Phases
<1>2. prev' \in [Runs -> Seq(Runs)] /\ errs' \in [Runs -> Seq(Entry)]
  BY DEF End, TypeOK
<1>3. warns' \in [Runs -> Seq(Entry)] /\ queue' \in [Runs -> Seq(Pending)]
  BY DEF End, TypeOK
<1>4. cancelled' \in [Runs -> BOOLEAN] /\ interrupted' \in [Runs -> BOOLEAN]
  BY DEF End, TypeOK
<1>5. buf' \in [Runs -> Seq(Entry) \cup {NoBuf}]
  BY DEF End, TypeOK
<1>6. \A r \in R : phase'[r] = "over" /\ exit'[r] = how /\ prev'[r] = <<>>
  BY DEF End
<1>7. \A r \in Runs \ R : /\ phase'[r] = phase[r] /\ exit'[r] = exit[r]
                         /\ prev'[r] = prev[r] /\ errs'[r] = errs[r]
  BY DEF End
<1>8. \A r \in Runs \ R : cancelled'[r] = cancelled[r] /\ interrupted'[r] = interrupted[r]
  BY DEF End
<1>9. QED
  BY <1>1, <1>2, <1>3, <1>4, <1>5, <1>6, <1>7, <1>8

\* What a report adds to the lists of the runs.
LEMMA CollectedType ==
    ASSUME NEW r \in Runs, NEW lists \in [Runs -> Seq(Entry)], NEW e \in Entry
    PROVE  Collected(r, lists, e) \in [Runs -> Seq(Entry)]
BY DEF Collected

\* Stamping a list of versions keeps it one; the last version is the scan's.
LEMMA StampedType ==
    ASSUME NEW list \in Seq(ScanIds), NEW s \in ScanIds, NEW how
    PROVE  /\ Stamped(list, s, how) \in Seq(ScanIds) /\ Stamped(list, s, how) # <<>>
           /\ Stamped(list, s, how)[Len(Stamped(list, s, how))] = s
<1>1. CASE list = <<>> \/ how = "changed"
  <2>1. Append(list, s) \in Seq(ScanIds)
    OBVIOUS
  <2>2. Len(Append(list, s)) = Len(list) + 1 /\ Append(list, s)[Len(list) + 1] = s
    OBVIOUS
  <2>3. Len(list) \in Nat
    OBVIOUS
  <2>4. Append(list, s) # <<>>
    BY <2>2, <2>3
  <2>5. QED
    BY <1>1, <2>1, <2>2, <2>4 DEF Stamped
<1>2. CASE list # <<>> /\ how # "changed"
  <2>1. Len(list) \in 1..Len(list) /\ DOMAIN list = 1..Len(list)
    BY <1>2
  <2>2. [list EXCEPT ![Len(list)] = s] \in Seq(ScanIds)
    BY <2>1
  <2>3. Len([list EXCEPT ![Len(list)] = s]) = Len(list)
    BY <2>1
  <2>4. [list EXCEPT ![Len(list)] = s] # <<>>
    BY <1>2, <2>1, <2>3
  <2>5. QED
    BY <1>2, <2>1, <2>2, <2>3, <2>4 DEF Stamped
<1>3. QED
  BY <1>1, <1>2

\* What a service writes keeps the table and the histories of it.
LEMMA ListsType ==
    ASSUME TypeOK, NEW r \in Runs, NEW v \in Services, NEW how, scan[r] \in ScanIds,
           Lists(r, v, how)
    PROVE  /\ verifiedBy' \in [Services -> Seq(ScanIds)]
           /\ saw' \in [ScanIds -> SUBSET Services]
           /\ taken' \in [ScanIds -> SUBSET Services]
<1>1. CASE UNCHANGED <<verifiedBy, seenVars>>
  BY <1>1 DEF TypeOK, seenVars
<1>2. CASE ~UNCHANGED <<verifiedBy, seenVars>>
  <2>1. verifiedBy' = [verifiedBy EXCEPT ![v] = Stamped(@, scan[r], how)]
    BY <1>2 DEF Lists
  <2>2. Stamped(verifiedBy[v], scan[r], how) \in Seq(ScanIds)
    BY StampedType DEF TypeOK
  <2>3. verifiedBy' \in [Services -> Seq(ScanIds)]
    BY <2>1, <2>2 DEF TypeOK
  <2>4. saw \in [ScanIds -> SUBSET Services] /\ taken \in [ScanIds -> SUBSET Services]
    BY DEF TypeOK
  <2>5. saw' = [saw EXCEPT ![scan[r]] = @ \cup {v}]
    BY <1>2 DEF Lists
  <2>6. saw' \in [ScanIds -> SUBSET Services]
    BY <2>4, <2>5
  <2>7. taken' = [s \in ScanIds |-> IF s = scan[r] THEN taken[s] \ {v}
                                     ELSE taken[s] \cup (saw[s] \cap {v})]
    BY <1>2 DEF Lists
  <2>8. \A s \in ScanIds : /\ taken[s] \ {v} \in SUBSET Services
                           /\ taken[s] \cup (saw[s] \cap {v}) \in SUBSET Services
    BY <2>4
  <2>9. taken' \in [ScanIds -> SUBSET Services]
    BY <2>7, <2>8
  <2>10. QED
    BY <2>3, <2>6, <2>9
<1>3. QED
  BY <1>1, <1>2

\* Every step of Next is one of these.
LEMMA StepCases ==
    ASSUME Next
    PROVE  \/ \E r \in Runs : \/ Gate(r) \/ Launch(r) \/ Cancel(r) \/ Collect(r)
                             \/ Mark(r) \/ ReadCount(r) \/ AppendRead(r)
                             \/ AppendWrite(r) \/ AppendJsonb(r) \/ AppendFails(r)
                             \/ Finish(r) \/ StoreFails(r)
           \/ \E r \in Runs, s \in ScanIds :
                CreateScan(r, s) \/ ResumeLatest(r, s) \/ ResumeNamed(r, s)
           \/ \E r \in Runs, v \in Services, what \in {"done", "warned"}, how \in Listings :
                ServiceDone(r, v, what, how)
           \/ \E r \in Runs, v \in Services, how \in Listings : ServiceFails(r, v, how)
           \/ \E r \in Runs, v \in Services : ServiceMissed(r, v)
           \/ \E r \in Runs, p \in Providers : ScannerFails(r, p)
           \/ \E p \in Procs : Kill(p)
           \/ Tick
BY DEF Next, RunStep

\* Every step keeps the types of the variables.
LEMMA TypeStep == LifeInv /\ [Next]_vars => TypeOK'
<1> SUFFICES ASSUME LifeInv, [Next]_vars PROVE TypeOK'
  OBVIOUS
<1>0. TypeOK /\ HasRow
  BY DEF LifeInv
<1> USE <1>0 DEF seenVars
<1>1. ASSUME NEW r \in Runs, Gate(r) PROVE TypeOK'
  <2>1. CASE End({r}, "skipped")
    <3>1. {r} \in SUBSET Runs /\ "skipped" \in Exits
      BY DEF Exits
    <3>2. QED
      BY <1>1, <2>1, <3>1, EndFacts DEF Gate, TypeOK, rowVars
  <2>2. CASE ~End({r}, "skipped")
    BY <1>1, <2>2 DEF Gate, Goto, Phases, TypeOK, rowVars, localVars
  <2>3. QED
    BY <2>1, <2>2
<1>2. ASSUME NEW r \in Runs, NEW s \in ScanIds, CreateScan(r, s) PROVE TypeOK'
  <2>1. (IF Exists(s) THEN TakenOver(r, scans[s]) ELSE NewRow(r)) \in Row
    <3>1. Exists(s) => scans[s] \in Row
      BY DEF Exists, TypeOK
    <3>2. Exists(s) => TakenOver(r, scans[s]) \in Row
      BY <3>1, TakenOverType
    <3>3. NewRow(r) \in Row
      BY NewRowType
    <3>4. QED
      BY <3>2, <3>3
  <2>2. scans' \in [ScanIds -> Row \cup {NoScan}]
    BY <1>2, <2>1 DEF CreateScan, TypeOK
  <2>3. QED
    BY <1>2, <2>2 DEF CreateScan, Begin, Goto, Phases, TypeOK
<1>3. ASSUME NEW r \in Runs, NEW s \in ScanIds, ResumeLatest(r, s) \/ ResumeNamed(r, s)
      PROVE TypeOK'
  <2>1. Begin(r, s) /\ UNCHANGED scans
    BY <1>3 DEF ResumeLatest, ResumeNamed
  <2>2. QED
    BY <2>1 DEF Begin, Goto, Phases, TypeOK
<1>4. ASSUME NEW r \in Runs, Launch(r) PROVE TypeOK'
  <2>1. ProcOf[r] \in Procs /\ sinks[ProcOf[r]] \in Seq(Runs)
    BY ConstantsAssumption DEF TypeOK
  <2>2. prev' \in [Runs -> Seq(Runs)] /\ sinks' \in [Procs -> Seq(Runs)]
    BY <1>4, <2>1 DEF Launch, TypeOK
  <2>3. result' \in [Runs -> [Services -> Results]]
    BY <1>4 DEF Launch, TypeOK, Results
  <2>4. QED
    BY <1>4, <2>2, <2>3 DEF Launch, Goto, Phases, TypeOK, rowVars
<1>5. ASSUME NEW r \in Runs, NEW v \in Services, NEW what \in {"done", "warned"},
             NEW how \in Listings, ServiceDone(r, v, what, how)
      PROVE TypeOK'
  <2>1. About(r, v) \in Entry
    BY AboutType
  <2>2. warns' \in [Runs -> Seq(Entry)]
    BY <1>5, <2>1, CollectedType DEF ServiceDone, TypeOK
  <2>3. result' \in [Runs -> [Services -> Results]]
    BY <1>5 DEF ServiceDone, Becomes, TypeOK, Results
  <2>4. scan[r] \in ScanIds
    BY <1>5 DEF ServiceDone, Todo, HasRow, Working
  <2>5. /\ verifiedBy' \in [Services -> Seq(ScanIds)]
        /\ saw' \in [ScanIds -> SUBSET Services] /\ taken' \in [ScanIds -> SUBSET Services]
    BY <1>5, <2>4, ListsType DEF ServiceDone
  <2>6. QED
    BY <1>5, <2>2, <2>3, <2>5 DEF ServiceDone, TypeOK
<1>6. ASSUME NEW r \in Runs, NEW v \in Services, NEW how \in Listings,
             ServiceFails(r, v, how)
      PROVE TypeOK'
  <2>1. About(r, v) \in Entry
    BY AboutType
  <2>2. errs' \in [Runs -> Seq(Entry)]
    BY <1>6, <2>1, CollectedType DEF ServiceFails, TypeOK
  <2>3. result' \in [Runs -> [Services -> Results]]
    BY <1>6 DEF ServiceFails, Becomes, TypeOK, Results
  <2>4. scan[r] \in ScanIds
    BY <1>6 DEF ServiceFails, Todo, HasRow, Working
  <2>5. /\ verifiedBy' \in [Services -> Seq(ScanIds)]
        /\ saw' \in [ScanIds -> SUBSET Services] /\ taken' \in [ScanIds -> SUBSET Services]
    BY <1>6, <2>4, ListsType DEF ServiceFails
  <2>6. QED
    BY <1>6, <2>2, <2>3, <2>5 DEF ServiceFails, TypeOK
<1>7. ASSUME NEW r \in Runs, NEW v \in Services, ServiceMissed(r, v) PROVE TypeOK'
  BY <1>7 DEF ServiceMissed, Becomes, TypeOK, Results, rowVars
<1>8. ASSUME NEW r \in Runs, NEW p \in Providers, ScannerFails(r, p) PROVE TypeOK'
  <2>1. About(r, p) \in Entry
    BY AboutType
  <2>2. errs' \in [Runs -> Seq(Entry)]
    BY <1>8, <2>1 DEF ScannerFails, TypeOK
  <2>3. result' \in [Runs -> [Services -> Results]]
    BY <1>8 DEF ScannerFails, TypeOK, Results
  <2>4. QED
    BY <1>8, <2>2, <2>3 DEF ScannerFails, TypeOK, rowVars
<1>9. ASSUME NEW r \in Runs, Cancel(r) PROVE TypeOK'
  BY <1>9 DEF Cancel, TypeOK, rowVars
<1>10. ASSUME NEW r \in Runs, Collect(r) PROVE TypeOK'
  BY <1>10 DEF Collect, Goto, Phases, TypeOK, rowVars
<1>11. ASSUME NEW r \in Runs, Mark(r) PROVE TypeOK'
  <2>1. scan[r] \in ScanIds /\ scans[scan[r]] \in Row
    BY <1>11 DEF Mark, HasRow, Working, Exists, TypeOK
  <2>2. scans' \in [ScanIds -> Row \cup {NoScan}]
    BY <1>11, <2>1, MarkedType DEF Mark, TypeOK
  <2>3. queue' \in [Runs -> Seq(Pending)]
    BY <1>11, AppendsType DEF Mark, TypeOK
  <2>4. QED
    BY <1>11, <2>2, <2>3 DEF Mark, Goto, Phases, TypeOK
<1>12. ASSUME NEW r \in Runs, ReadCount(r) PROVE TypeOK'
  BY <1>12 DEF ReadCount, Goto, Phases, TypeOK, rowVars
<1>13. ASSUME NEW r \in Runs, Appending(r)
       PROVE  /\ scan[r] \in ScanIds /\ scans[scan[r]] \in Row
              /\ NextAppend(r).column \in Columns /\ NextAppend(r).entry \in Entry
              /\ Tail(queue[r]) \in Seq(Pending)
  <2>1. scan[r] \in ScanIds /\ scans[scan[r]] \in Row
    BY <1>13 DEF Appending, HasRow, Working, Exists, TypeOK
  <2>2. queue[r] \in Seq(Pending) /\ queue[r] # <<>>
    BY <1>13 DEF Appending, TypeOK
  <2>3. Head(queue[r]) \in Pending
    BY <2>2
  <2>4. QED
    BY <2>1, <2>2, <2>3 DEF NextAppend, Pending
<1>14. ASSUME NEW r \in Runs, AppendRead(r) PROVE TypeOK'
  <2>1. Column(scans[scan[r]], NextAppend(r).column) \in Seq(Entry)
    BY <1>13, <1>14, ColumnType DEF AppendRead
  <2>2. QED
    BY <1>14, <2>1 DEF AppendRead, TypeOK, rowVars
<1>15. ASSUME NEW r \in Runs, AppendWrite(r) PROVE TypeOK'
  <2>1. buf[r] \in Seq(Entry)
    BY <1>15 DEF AppendWrite, TypeOK
  <2>2. WithEntry(scans[scan[r]], NextAppend(r).column, buf[r], NextAppend(r).entry) \in Row
    BY <1>13, <1>15, <2>1, WithEntryType DEF AppendWrite
  <2>3. scans' \in [ScanIds -> Row \cup {NoScan}]
    BY <1>15, <2>2 DEF AppendWrite, TypeOK
  <2>4. QED
    BY <1>13, <1>15, <2>3 DEF AppendWrite, Dequeue, TypeOK
<1>16. ASSUME NEW r \in Runs, AppendJsonb(r) PROVE TypeOK'
  <2>1. Column(scans[scan[r]], NextAppend(r).column) \in Seq(Entry)
    BY <1>13, <1>16, ColumnType DEF AppendJsonb
  <2>2. WithEntry(scans[scan[r]], NextAppend(r).column,
                  Column(scans[scan[r]], NextAppend(r).column), NextAppend(r).entry) \in Row
    BY <1>13, <1>16, <2>1, WithEntryType DEF AppendJsonb
  <2>3. scans' \in [ScanIds -> Row \cup {NoScan}]
    BY <1>16, <2>2 DEF AppendJsonb, TypeOK
  <2>4. QED
    BY <1>13, <1>16, <2>3 DEF AppendJsonb, Dequeue, TypeOK
<1>17. ASSUME NEW r \in Runs, AppendFails(r) PROVE TypeOK'
  <2>1. lost' \in [Runs -> Nat] /\ queue' \in [Runs -> Seq(Pending)]
    BY <1>13, <1>17 DEF AppendFails, Dequeue, TypeOK
  <2>2. buf' \in [Runs -> Seq(Entry) \cup {NoBuf}]
    BY <1>17 DEF AppendFails, Dequeue, TypeOK
  <2>3. QED
    BY <1>17, <2>1, <2>2 DEF AppendFails, Dequeue, TypeOK
<1>18. ASSUME NEW r \in Runs, Finish(r) \/ StoreFails(r) PROVE TypeOK'
  <2>1. PICK how \in Exits : End({r}, how)
    BY <1>18 DEF Finish, StoreFails, Exits
  <2>2. {r} \in SUBSET Runs
    OBVIOUS
  <2>3. QED
    BY <1>18, <2>1, <2>2, EndFacts DEF Finish, StoreFails, TypeOK, rowVars
<1>19. ASSUME NEW p \in Procs, Kill(p) PROVE TypeOK'
  <2>1. WorkingIn(p) \in SUBSET Runs /\ "killed" \in Exits
    BY DEF WorkingIn, Exits
  <2>2. End(WorkingIn(p), "killed")
    BY <1>19 DEF Kill
  <2>3. sinks' \in [Procs -> Seq(Runs)]
    BY <1>19 DEF Kill, TypeOK
  <2>4. QED
    BY <1>19, <2>1, <2>2, <2>3, EndFacts DEF Kill, TypeOK, rowVars
<1>20. CASE Tick
  <2>1. clock' \in Nat
    BY <1>20 DEF Tick, TypeOK
  <2>2. QED
    BY <1>20, <2>1 DEF Tick, TypeOK, runVars, localVars
<1>21. CASE UNCHANGED vars
  BY <1>21 DEF vars, TypeOK
<1>22. QED
  BY <1>1, <1>2, <1>3, <1>4, <1>5, <1>6, <1>7, <1>8, <1>9, <1>10, <1>11, <1>12,
     <1>14, <1>15, <1>16, <1>17, <1>18, <1>19, <1>20, <1>21, StepCases

-----------------------------------------------------------------------------
(* How a run and a row can move in one step. *)

\* Run r goes on under its id, takes a row, or ends.
GoesOn(r) ==
    /\ scan'[r] = scan[r] /\ exit'[r] = exit[r]
    /\ \/ phase'[r] = phase[r]
       \/ phase[r] = "new" /\ phase'[r] = "gated"
       \/ phase[r] = "started" /\ phase'[r] = "running"
       \/ phase[r] = "running" /\ phase'[r] = "mark"
       \/ phase[r] = "mark" /\ phase'[r] = "count" /\ Mark(r)
       \/ phase[r] = "count" /\ phase'[r] = "append"
TakesRow(r) ==
    /\ phase[r] \in {"new", "gated"} /\ phase'[r] = "started"
    /\ scan'[r] \in ScanIds /\ scans'[scan'[r]] # NoScan
    /\ exit'[r] = exit[r]
Ends(r) ==
    /\ phase[r] # "over" /\ phase'[r] = "over"
    /\ scan'[r] = scan[r]
    /\ \/ exit'[r] \in {"killed", "error"}
       \/ exit'[r] = "skipped" /\ phase[r] = "new"
       \/ exit'[r] = "complete" /\ phase[r] = "append" /\ Clean(r)
       \/ exit'[r] \in {"partial", "interrupted"} /\ phase[r] = "append"
Moves(r) == GoesOn(r) \/ TakesRow(r) \/ Ends(r)

\* Row s stays, is written by a run that starts, is marked, or gets an entry.
SameButEntries(row, new) ==
    /\ row \in Row /\ new \in Row
    /\ new.status = row.status /\ new.started = row.started
    /\ new.finished = row.finished /\ new.count = row.count
RowMoves(s) ==
    \/ scans'[s] = scans[s]
    \/ \E r \in Runs : CreateScan(r, s)
    \/ \E r \in Runs : Mark(r) /\ scan[r] = s
    \/ SameButEntries(scans[s], scans'[s])

\* A step that ends runs R moves every run.
LEMMA EndMoves ==
    ASSUME TypeOK, NEW R \in SUBSET Runs, NEW how \in Exits, End(R, how),
           scan' = scan, \A r \in R : phase[r] # "over",
           \/ how \in {"killed", "error"}
           \/ how = "skipped" /\ \A r \in R : phase[r] = "new"
           \/ how = "complete" /\ \A r \in R : phase[r] = "append" /\ Clean(r)
           \/ how \in {"partial", "interrupted"} /\ \A r \in R : phase[r] = "append"
    PROVE  \A r \in Runs : Moves(r)
<1> SUFFICES ASSUME NEW r \in Runs PROVE Moves(r)
  OBVIOUS
<1>1. CASE r \in R
  <2>1. phase'[r] = "over" /\ exit'[r] = how
    BY <1>1 DEF End
  <2>2. Ends(r)
    BY <1>1, <2>1 DEF Ends
  <2>3. QED
    BY <2>2 DEF Moves
<1>2. CASE r \notin R
  <2>1. phase'[r] = phase[r] /\ exit'[r] = exit[r]
    BY <1>2, EndFacts
  <2>2. QED
    BY <2>1 DEF Moves, GoesOn
<1>3. QED
  BY <1>1, <1>2

\* Every step moves every run in one of the ways Moves lists.
LEMMA RunsMove == LifeInv /\ [Next]_vars => \A r \in Runs : Moves(r)
<1> SUFFICES ASSUME LifeInv, [Next]_vars PROVE \A r \in Runs : Moves(r)
  OBVIOUS
<1>0. TypeOK /\ TypeOK'
  BY TypeStep DEF LifeInv
<1> USE <1>0
<1>1. ASSUME NEW r \in Runs, Gate(r) PROVE \A q \in Runs : Moves(q)
  <2>1. CASE End({r}, "skipped")
    <3>1. {r} \in SUBSET Runs /\ "skipped" \in Exits
      BY DEF Exits
    <3>2. scan' = scan /\ \A q \in {r} : phase[q] = "new"
      BY <1>1 DEF Gate
    <3>3. QED
      BY <2>1, <3>1, <3>2, EndMoves
  <2>2. CASE ~End({r}, "skipped")
    BY <1>1, <2>2 DEF Gate, Goto, Moves, GoesOn, TypeOK
  <2>3. QED
    BY <2>1, <2>2
<1>2. ASSUME NEW r \in Runs, NEW s \in ScanIds,
             CreateScan(r, s) \/ ResumeLatest(r, s) \/ ResumeNamed(r, s)
      PROVE \A q \in Runs : Moves(q)
  <2>1. Begin(r, s)
    BY <1>2 DEF CreateScan, ResumeLatest, ResumeNamed
  <2>2. scans'[s] # NoScan
    <3>1. CASE CreateScan(r, s)
      <4>1. scans'[s] = IF Exists(s) THEN TakenOver(r, scans[s]) ELSE NewRow(r)
        BY <3>1 DEF CreateScan, TypeOK
      <4>2. Exists(s) => scans[s] \in Row
        BY DEF Exists, TypeOK
      <4>3. scans'[s] \in Row
        BY <4>1, <4>2, TakenOverType, NewRowType
      <4>4. QED
        BY <4>3, RowAssumption
    <3>2. CASE ResumeLatest(r, s)
      BY <3>2 DEF ResumeLatest, IsNewest, Incomplete, Exists
    <3>3. CASE ResumeNamed(r, s)
      BY <3>3 DEF ResumeNamed, Exists
    <3>4. QED
      BY <1>2, <3>1, <3>2, <3>3
  <2>3. TakesRow(r)
    BY <2>1, <2>2 DEF Begin, Goto, TakesRow, TypeOK
  <2>4. \A q \in Runs \ {r} : GoesOn(q)
    BY <2>1 DEF Begin, Goto, GoesOn, TypeOK
  <2>5. QED
    BY <2>3, <2>4 DEF Moves
<1>3. ASSUME NEW r \in Runs, Launch(r) PROVE \A q \in Runs : Moves(q)
  BY <1>3 DEF Launch, Goto, Moves, GoesOn, TypeOK
<1>4. ASSUME UNCHANGED <<phase, scan, exit>> PROVE \A q \in Runs : Moves(q)
  BY <1>4 DEF Moves, GoesOn
<1>5. ASSUME NEW r \in Runs, Collect(r) PROVE \A q \in Runs : Moves(q)
  BY <1>5 DEF Collect, Goto, Moves, GoesOn, TypeOK
<1>6. ASSUME NEW r \in Runs, Mark(r) PROVE \A q \in Runs : Moves(q)
  <2>1. /\ scan' = scan /\ exit' = exit /\ phase[r] = "mark"
        /\ phase' = [phase EXCEPT ![r] = "count"]
    BY <1>6 DEF Mark, Goto
  <2>2. QED
    BY <1>6, <2>1 DEF Moves, GoesOn, TypeOK
<1>7. ASSUME NEW r \in Runs, ReadCount(r) PROVE \A q \in Runs : Moves(q)
  BY <1>7 DEF ReadCount, Goto, Moves, GoesOn, TypeOK
<1>8. ASSUME NEW r \in Runs, Finish(r) PROVE \A q \in Runs : Moves(q)
  <2> DEFINE how == IF interrupted[r] THEN "interrupted"
                    ELSE IF errs[r] # <<>> THEN "partial" ELSE "complete"
  <2>1. End({r}, how) /\ scan' = scan /\ phase[r] = "append"
    BY <1>8 DEF Finish
  <2>2. {r} \in SUBSET Runs /\ how \in Exits
    BY DEF Exits
  <2>3. how = "complete" => Clean(r)
    BY DEF Clean
  <2>4. how \in {"partial", "interrupted", "complete"}
    OBVIOUS
  <2> HIDE DEF how
  <2>5. QED
    BY <2>1, <2>2, <2>3, <2>4, EndMoves
<1>9. ASSUME NEW r \in Runs, StoreFails(r) PROVE \A q \in Runs : Moves(q)
  <2>1. End({r}, "error") /\ scan' = scan /\ phase[r] # "over"
    BY <1>9 DEF StoreFails
  <2>2. {r} \in SUBSET Runs /\ "error" \in Exits
    BY DEF Exits
  <2>3. QED
    BY <2>1, <2>2, EndMoves
<1>10. ASSUME NEW p \in Procs, Kill(p) PROVE \A q \in Runs : Moves(q)
  <2>1. /\ End(WorkingIn(p), "killed") /\ scan' = scan
        /\ \A r \in WorkingIn(p) : phase[r] # "over"
    BY <1>10 DEF Kill, WorkingIn
  <2>2. WorkingIn(p) \in SUBSET Runs /\ "killed" \in Exits
    BY DEF WorkingIn, Exits
  <2>3. QED
    BY <2>1, <2>2, EndMoves
<1>11. (\/ Tick \/ UNCHANGED vars
        \/ \E r \in Runs : Cancel(r) \/ AppendRead(r) \/ AppendWrite(r)
                           \/ AppendJsonb(r) \/ AppendFails(r)
        \/ \E r \in Runs, p \in Providers : ScannerFails(r, p)
        \/ \E r \in Runs, v \in Services : ServiceMissed(r, v)
        \/ \E r \in Runs, v \in Services, how \in Listings : ServiceFails(r, v, how)
        \/ \E r \in Runs, v \in Services, what \in {"done", "warned"}, how \in Listings :
             ServiceDone(r, v, what, how))
       => UNCHANGED <<phase, scan, exit>>
  BY DEF Tick, vars, runVars, Cancel, AppendRead, AppendWrite, AppendJsonb,
         AppendFails, Dequeue, ScannerFails, ServiceMissed, ServiceFails, ServiceDone
<1>12. QED
  BY <1>1, <1>2, <1>3, <1>4, <1>5, <1>6, <1>7, <1>8, <1>9, <1>10, <1>11, StepCases

\* Every step changes every row in one of the ways RowMoves lists.
LEMMA RowsMove == LifeInv /\ [Next]_vars => \A s \in ScanIds : RowMoves(s)
<1> SUFFICES ASSUME LifeInv, [Next]_vars, NEW s \in ScanIds PROVE RowMoves(s)
  OBVIOUS
<1>0. TypeOK /\ HasRow
  BY DEF LifeInv
<1> USE <1>0
<1>1. ASSUME NEW r \in Runs, NEW t \in ScanIds, CreateScan(r, t) PROVE RowMoves(s)
  <2>1. CASE t = s
    BY <1>1, <2>1 DEF RowMoves
  <2>2. CASE t # s
    BY <1>1, <2>2 DEF CreateScan, RowMoves, TypeOK
  <2>3. QED
    BY <2>1, <2>2
<1>2. ASSUME NEW r \in Runs, Mark(r) PROVE RowMoves(s)
  <2>1. CASE scan[r] = s
    BY <1>2, <2>1 DEF RowMoves
  <2>2. CASE scan[r] # s
    BY <1>2, <2>2 DEF Mark, RowMoves, TypeOK
  <2>3. QED
    BY <2>1, <2>2
<1>3. ASSUME NEW r \in Runs, AppendWrite(r) \/ AppendJsonb(r) PROVE RowMoves(s)
  <2>1. /\ scan[r] \in ScanIds /\ scans[scan[r]] \in Row
        /\ NextAppend(r).column \in Columns /\ NextAppend(r).entry \in Entry
    <3>1. Appending(r)
      BY <1>3 DEF AppendWrite, AppendJsonb
    <3>2. scan[r] \in ScanIds /\ scans[scan[r]] \in Row
      BY <3>1 DEF Appending, HasRow, Working, Exists, TypeOK
    <3>3. queue[r] \in Seq(Pending) /\ queue[r] # <<>>
      BY <3>1 DEF Appending, TypeOK
    <3>4. Head(queue[r]) \in Pending
      BY <3>3
    <3>5. QED
      BY <3>2, <3>4 DEF NextAppend, Pending
  <2>2. PICK l \in Seq(Entry) :
          scans' = [scans EXCEPT ![scan[r]] = WithEntry(@, NextAppend(r).column, l,
                                                        NextAppend(r).entry)]
    <3>1. CASE AppendWrite(r)
      <4>1. buf[r] \in Seq(Entry)
        BY <3>1 DEF AppendWrite, TypeOK
      <4>2. QED
        BY <3>1, <4>1 DEF AppendWrite
    <3>2. CASE AppendJsonb(r)
      <4>1. Column(scans[scan[r]], NextAppend(r).column) \in Seq(Entry)
        BY <2>1, ColumnType
      <4>2. QED
        BY <3>2, <4>1 DEF AppendJsonb
    <3>3. QED
      BY <1>3, <3>1, <3>2
  <2>3. CASE scan[r] = s
    <3>1. scans'[s] = WithEntry(scans[s], NextAppend(r).column, l, NextAppend(r).entry)
      BY <2>1, <2>2, <2>3 DEF TypeOK
    <3>2. SameButEntries(scans[s], scans'[s])
      BY <2>1, <2>3, <3>1, WithEntryType DEF SameButEntries
    <3>3. QED
      BY <3>2 DEF RowMoves
  <2>4. CASE scan[r] # s
    BY <2>2, <2>4 DEF RowMoves, TypeOK
  <2>5. QED
    BY <2>3, <2>4
<1>4. ASSUME UNCHANGED scans PROVE RowMoves(s)
  BY <1>4 DEF RowMoves
<1>5. (\/ Tick \/ UNCHANGED vars
       \/ \E r \in Runs : Gate(r) \/ Launch(r) \/ Cancel(r) \/ Collect(r) \/ ReadCount(r)
                          \/ AppendRead(r) \/ AppendFails(r) \/ Finish(r) \/ StoreFails(r)
       \/ \E r \in Runs, t \in ScanIds : ResumeLatest(r, t) \/ ResumeNamed(r, t)
       \/ \E p \in Procs : Kill(p)
       \/ \E r \in Runs, p \in Providers : ScannerFails(r, p)
       \/ \E r \in Runs, v \in Services : ServiceMissed(r, v)
       \/ \E r \in Runs, v \in Services, how \in Listings : ServiceFails(r, v, how)
       \/ \E r \in Runs, v \in Services, what \in {"done", "warned"}, how \in Listings :
            ServiceDone(r, v, what, how))
      => UNCHANGED scans
  BY DEF Tick, vars, rowVars, Gate, Launch, Cancel, Collect, ReadCount, AppendRead,
         AppendFails, Finish, StoreFails, ResumeLatest, ResumeNamed, Kill,
         ScannerFails, ServiceMissed, ServiceFails, ServiceDone
<1>6. QED
  BY <1>1, <1>2, <1>3, <1>4, <1>5, StepCases

\* Once its services have ended, a run's results stay.
LEMMA ResultsStay ==
    LifeInv /\ [Next]_vars
      => \A r \in Runs : phase[r] \in Settled \cup {"over"} => result'[r] = result[r]
<1> SUFFICES ASSUME LifeInv, [Next]_vars
             PROVE  \A r \in Runs : phase[r] \in Settled \cup {"over"} => result'[r] = result[r]
  OBVIOUS
<1>0. TypeOK
  BY DEF LifeInv
<1> USE <1>0
<1>1. ASSUME NEW q \in Runs, Launch(q)
      PROVE  \A r \in Runs : phase[r] \in Settled \cup {"over"} => result'[r] = result[r]
  BY <1>1 DEF Launch, TypeOK, Settled
<1>2. ASSUME NEW q \in Runs, NEW p \in Providers, ScannerFails(q, p)
      PROVE  \A r \in Runs : phase[r] \in Settled \cup {"over"} => result'[r] = result[r]
  BY <1>2 DEF ScannerFails, TypeOK, Settled
<1>3. ASSUME NEW q \in Runs, NEW v \in Services, NEW what, Todo(q, v), Becomes(q, v, what)
      PROVE  \A r \in Runs : phase[r] \in Settled \cup {"over"} => result'[r] = result[r]
  BY <1>3 DEF Todo, Becomes, TypeOK, Settled
<1>4. ASSUME NEW q \in Runs, NEW v \in Services,
             \/ \E what \in {"done", "warned"}, how \in Listings : ServiceDone(q, v, what, how)
             \/ \E how \in Listings : ServiceFails(q, v, how)
             \/ ServiceMissed(q, v)
      PROVE  \E what : Todo(q, v) /\ Becomes(q, v, what)
  BY <1>4 DEF ServiceDone, ServiceFails, ServiceMissed
<1>5. (\/ Tick \/ UNCHANGED vars
       \/ \E r \in Runs : Gate(r) \/ Cancel(r) \/ Collect(r) \/ Mark(r) \/ ReadCount(r)
                          \/ AppendRead(r) \/ AppendWrite(r) \/ AppendJsonb(r)
                          \/ AppendFails(r) \/ Finish(r) \/ StoreFails(r)
       \/ \E r \in Runs, s \in ScanIds :
            CreateScan(r, s) \/ ResumeLatest(r, s) \/ ResumeNamed(r, s)
       \/ \E p \in Procs : Kill(p))
      => UNCHANGED result
  BY DEF Tick, vars, runVars, Gate, Cancel, Collect, Mark, ReadCount, AppendRead,
         AppendWrite, AppendJsonb, AppendFails, Dequeue, Finish, StoreFails, CreateScan,
         ResumeLatest, ResumeNamed, Begin, Kill
<1>6. QED
  BY <1>1, <1>2, <1>3, <1>4, <1>5, StepCases

-----------------------------------------------------------------------------
(* The parts of the invariant that speak of rows and of the runs that own them. *)

\* A row that exists keeps existing.
LEMMA RowsStay ==
    ASSUME LifeInv, [Next]_vars, NEW s \in ScanIds, Exists(s)
    PROVE  Exists(s)'
<1>1. RowMoves(s) /\ TypeOK /\ scans[s] \in Row
  BY RowsMove DEF LifeInv, TypeOK, Exists
<1>2. ASSUME NEW r \in Runs, CreateScan(r, s) PROVE Exists(s)'
  <2>1. scans'[s] = TakenOver(r, scans[s])
    BY <1>1, <1>2 DEF CreateScan, TypeOK
  <2>2. scans'[s] \in Row
    BY <1>1, <2>1, TakenOverType
  <2>3. QED
    BY <2>2, RowAssumption DEF Exists
<1>3. ASSUME NEW r \in Runs, Mark(r), scan[r] = s PROVE Exists(s)'
  <2>1. scans'[s] = Marked(r, scans[s])
    BY <1>1, <1>3 DEF Mark, TypeOK
  <2>2. scans'[s] \in Row
    BY <1>1, <2>1, MarkedType
  <2>3. QED
    BY <2>2, RowAssumption DEF Exists
<1>4. CASE SameButEntries(scans[s], scans'[s])
  BY <1>4, RowAssumption DEF SameButEntries, Exists
<1>5. CASE scans'[s] = scans[s]
  BY <1>5 DEF Exists
<1>6. QED
  BY <1>1, <1>2, <1>3, <1>4, <1>5 DEF RowMoves

\* Every step leaves an active run with a row that exists (CreateScanWithID).
LEMMA HasRowStep == LifeInv /\ [Next]_vars => HasRow'
<1> SUFFICES ASSUME LifeInv, [Next]_vars, NEW r \in Runs
             PROVE  /\ phase'[r] \in Working => scan'[r] \in ScanIds /\ scans'[scan'[r]] # NoScan
                    /\ phase'[r] \in {"new", "gated"} => scan'[r] = NoId
  BY DEF HasRow, Exists
<1>1. Moves(r) /\ HasRow
  BY RunsMove DEF LifeInv
<1>2. CASE TakesRow(r)
  BY <1>2 DEF TakesRow
<1>3. CASE GoesOn(r)
  <2>1. CASE phase'[r] \in Working
    <3>1. scan'[r] = scan[r] /\ scan[r] \in ScanIds /\ Exists(scan[r])
      BY <1>1, <1>3, <2>1 DEF GoesOn, HasRow, Working
    <3>2. scans'[scan[r]] # NoScan
      BY <3>1, RowsStay DEF Exists
    <3>3. QED
      BY <2>1, <3>1, <3>2 DEF Working
  <2>2. CASE phase'[r] \notin Working
    BY <1>1, <1>3, <2>2 DEF GoesOn, HasRow, Working
  <2>3. QED
    BY <2>1, <2>2
<1>4. CASE Ends(r)
  BY <1>4 DEF Ends, Working
<1>5. QED
  BY <1>1, <1>2, <1>3, <1>4 DEF Moves

\* What marking makes of a row.
LEMMA MarkedRow ==
    ASSUME TypeOK, HasRow, NEW r \in Runs, Mark(r)
    PROVE  /\ Exists(scan[r])
           /\ scans'[scan[r]].status = (IF Clean(r) THEN "completed" ELSE "partial")
           /\ scans'[scan[r]].finished = <<clock>>
           /\ scans'[scan[r]].started = scans[scan[r]].started
           /\ scans'[scan[r]].count = ResourceCount(scan[r])
<1>1. scan[r] \in ScanIds /\ Exists(scan[r])
  BY DEF Mark, HasRow, Working
<1>2. scans[scan[r]] \in Row
  BY <1>1 DEF Exists, TypeOK
<1>3. scans'[scan[r]] = Marked(r, scans[scan[r]])
  BY <1>1 DEF Mark, TypeOK
<1>4. QED
  BY <1>1, <1>2, <1>3, MarkedType

\* What a row is after a step, by what moved it.
LEMMA NewStatus ==
    ASSUME LifeInv, [Next]_vars, NEW s \in ScanIds, Exists(s)'
    PROVE  \/ \E r \in Runs : /\ phase'[r] = "started" /\ scan'[r] = s
                              /\ scans'[s].status = "running" /\ scans'[s].started = clock
                              /\ clock' = clock
                              /\ scans'[s].count = IF Exists(s) THEN scans[s].count ELSE 0
           \/ \E r \in Runs : /\ Mark(r) /\ scan[r] = s /\ Exists(s)
                              /\ scans'[s].status = (IF Clean(r) THEN "completed" ELSE "partial")
                              /\ scans'[s].finished = <<clock>>
                              /\ scans'[s].started = scans[s].started
                              /\ scans'[s].count = ResourceCount(s)
           \/ /\ Exists(s)
              /\ scans'[s].status = scans[s].status /\ scans'[s].started = scans[s].started
              /\ scans'[s].finished = scans[s].finished /\ scans'[s].count = scans[s].count
<1>1. RowMoves(s) /\ TypeOK /\ HasRow
  BY RowsMove DEF LifeInv
<1>2. ASSUME NEW r \in Runs, CreateScan(r, s)
      PROVE  /\ phase'[r] = "started" /\ scan'[r] = s
             /\ scans'[s].status = "running" /\ scans'[s].started = clock /\ clock' = clock
             /\ scans'[s].count = IF Exists(s) THEN scans[s].count ELSE 0
  <2>1. scans'[s] = IF Exists(s) THEN TakenOver(r, scans[s]) ELSE NewRow(r)
    BY <1>1, <1>2 DEF CreateScan, TypeOK
  <2>2. Exists(s) => scans[s] \in Row
    BY <1>1 DEF Exists, TypeOK
  <2>3. scans'[s].status = "running" /\ scans'[s].started = clock
    BY <1>1, <2>1, <2>2, TakenOverType DEF NewRow
  <2>4. scans'[s].count = IF Exists(s) THEN scans[s].count ELSE 0
    BY <1>1, <2>1, <2>2, TakenOverType DEF NewRow
  <2>5. QED
    BY <1>1, <1>2, <2>3, <2>4 DEF CreateScan, Begin, Goto, TypeOK
<1>3. ASSUME NEW r \in Runs, Mark(r), scan[r] = s
      PROVE  /\ Exists(s)
             /\ scans'[s].status = (IF Clean(r) THEN "completed" ELSE "partial")
             /\ scans'[s].finished = <<clock>> /\ scans'[s].started = scans[s].started
             /\ scans'[s].count = ResourceCount(s)
  BY <1>1, <1>3, MarkedRow
<1>4. CASE SameButEntries(scans[s], scans'[s])
  BY <1>4, RowAssumption DEF SameButEntries, Exists
<1>5. CASE scans'[s] = scans[s]
  BY <1>5 DEF Exists
<1>6. QED
  BY <1>1, <1>2, <1>3, <1>4, <1>5 DEF RowMoves

\* Every step keeps what a run records of how it ended.
LEMMA EndedStep == LifeInv /\ [Next]_vars => Ended'
<1> SUFFICES ASSUME LifeInv, [Next]_vars, NEW r \in Runs
             PROVE  exit'[r] = "none" <=> phase'[r] # "over"
  BY DEF Ended
<1>1. Moves(r) /\ (exit[r] = "none" <=> phase[r] # "over")
  BY RunsMove DEF LifeInv, Ended
<1>2. QED
  BY <1>1 DEF Moves, GoesOn, TakesRow, Ends

\* Every step leaves a running row with a run that will finalise it, or with a cause
\* for having none (Finalize, CreateScanWithID).
LEMMA OwnedStep == LifeInv /\ [Next]_vars => Owned'
<1> SUFFICES ASSUME LifeInv, [Next]_vars, NEW s \in ScanIds, Exists(s)',
                    scans'[s].status = "running"
             PROVE  \E r \in Runs : /\ scan'[r] = s
                                    /\ \/ phase'[r] \in {"started", "running", "mark"}
                                       \/ phase'[r] = "over" /\ exit'[r] \in {"killed", "error"}
  BY DEF Owned
<1>1. CASE \E r \in Runs : phase'[r] = "started" /\ scan'[r] = s
  BY <1>1
<1>2. CASE Exists(s) /\ scans[s].status = "running" /\ scans'[s].status = scans[s].status
  <2>1. PICK r \in Runs : /\ scan[r] = s
                          /\ \/ phase[r] \in {"started", "running", "mark"}
                             \/ phase[r] = "over" /\ exit[r] \in {"killed", "error"}
    BY <1>2 DEF LifeInv, Owned
  <2>2. ~Mark(r)
    <3>1. SUFFICES ASSUME Mark(r) PROVE FALSE
      OBVIOUS
    <3>2. TypeOK /\ scans[s] \in Row
      BY <1>2 DEF LifeInv, TypeOK, Exists
    <3>3. scans'[s] = Marked(r, scans[s])
      BY <2>1, <3>1, <3>2 DEF Mark, TypeOK
    <3>4. scans'[s].status # "running"
      BY <3>2, <3>3, MarkedType
    <3>5. QED
      BY <3>4
  <2>3. Moves(r)
    BY RunsMove
  <2>4. QED
    BY <2>1, <2>2, <2>3 DEF Moves, GoesOn, TakesRow, Ends
<1>3. QED
  BY <1>1, <1>2, NewStatus

\* A clean run that is past its services was thorough.
LEMMA CleanIsThorough ==
    ASSUME LifeInv, NEW r \in Runs, phase[r] \in Settled, Clean(r)
    PROVE  Thorough(r)
<1>1. \A v \in Services : /\ result[r][v] \in Results
                          /\ result[r][v] \notin {"todo", "failed", "missed"}
                          /\ result[r][v] = "out" => v \notin AskedOf(r)
  BY DEF LifeInv, TypeOK, Told, Clean, Settled
<1>2. \A v \in Services : result[r][v] \in {"done", "warned"} \/ v \notin AskedOf(r)
  BY <1>1 DEF Results
<1>3. QED
  BY <1>2 DEF Thorough, AskedOf

\* Every step keeps a completed row clean (Finalize).
LEMMA CompletedStep == LifeInv /\ [Next]_vars => CompletedMeansClean'
<1> SUFFICES ASSUME LifeInv, [Next]_vars PROVE CompletedMeansClean'
  OBVIOUS
<1>1. ASSUME NEW r \in Runs, phase[r] \in Settled \cup {"over"}, Thorough(r)
      PROVE  Thorough(r)'
  <2>1. result'[r] = result[r]
    BY <1>1, ResultsStay
  <2>2. QED
    BY <1>1, <2>1 DEF Thorough, AskedOf
<1>2. ASSUME NEW s \in ScanIds, Exists(s)', scans'[s].status = "completed"
      PROVE  \E r \in Runs : /\ scan'[r] = s /\ Thorough(r)'
                             /\ phase'[r] \in {"count", "append", "over"}
  <2>1. CASE Exists(s) /\ scans[s].status = "completed"
    <3>1. PICK r \in Runs : /\ scan[r] = s /\ Thorough(r)
                            /\ phase[r] \in {"count", "append", "over"}
      BY <2>1 DEF LifeInv, CompletedMeansClean
    <3>2. Thorough(r)'
      BY <1>1, <3>1 DEF Settled
    <3>3. Moves(r)
      BY RunsMove
    <3>4. scan'[r] = s /\ phase'[r] \in {"count", "append", "over"}
      BY <3>1, <3>3 DEF Moves, GoesOn, TakesRow, Ends
    <3>5. QED
      BY <3>2, <3>4
  <2>2. ASSUME NEW r \in Runs, Mark(r), scan[r] = s,
               scans'[s].status = (IF Clean(r) THEN "completed" ELSE "partial")
        PROVE  /\ scan'[r] = s /\ Thorough(r)'
               /\ phase'[r] \in {"count", "append", "over"}
    <3>1. Clean(r) /\ phase[r] = "mark"
      BY <1>2, <2>2 DEF Mark
    <3>2. Thorough(r)
      BY <3>1, CleanIsThorough DEF Settled
    <3>3. Thorough(r)'
      BY <1>1, <3>1, <3>2 DEF Settled
    <3>4. scan'[r] = s /\ phase'[r] = "count"
      BY <2>2 DEF Mark, Goto, LifeInv, TypeOK
    <3>5. QED
      BY <3>3, <3>4
  <2>3. QED
    BY <1>2, <2>1, <2>2, NewStatus
<1>3. ASSUME NEW r \in Runs, exit'[r] = "complete" PROVE Thorough(r)'
  <2>1. CASE exit[r] = "complete"
    BY <1>1, <2>1 DEF LifeInv, Ended, CompletedMeansClean
  <2>2. CASE phase[r] = "append" /\ Clean(r)
    BY <1>1, <2>2, CleanIsThorough DEF Settled
  <2>3. QED
    BY <1>3, <2>1, <2>2, RunsMove DEF Moves, GoesOn, TakesRow, Ends
<1>4. QED
  BY <1>2, <1>3 DEF CompletedMeansClean

-----------------------------------------------------------------------------
(* The parts that speak of the runs themselves. *)

\* The chains stay as they are while the set of running runs does.
LEMMA OneSinkFrame ==
    ASSUME OneSink, sinks' = sinks, \A r \in Runs : prev'[r] \in {prev[r], <<>>},
           \A r \in Runs : phase'[r] = "running" <=> phase[r] = "running"
    PROVE  OneSink'
BY DEF OneSink

\* Every step leaves the chain of callbacks at the runs that are collecting
\* (RunScanners).
LEMMA OneSinkStep == LifeInv /\ [Next]_vars => OneSink'
<1> SUFFICES ASSUME LifeInv, [Next]_vars PROVE OneSink'
  OBVIOUS
<1>0. TypeOK /\ OneSink
  BY DEF LifeInv
<1> USE <1>0
<1>1. ASSUME NEW r \in Runs, Launch(r) PROVE OneSink'
  <2>1. ProcOf[r] \in Procs
    BY ConstantsAssumption
  <2>2. sinks[ProcOf[r]] = <<>>
    BY <1>1, <2>1 DEF Launch, OneSink
  <2>3. prev' = [prev EXCEPT ![r] = <<>>] /\ phase' = [phase EXCEPT ![r] = "running"]
    BY <1>1, <2>2 DEF Launch, Goto
  <2>4. sinks' = [sinks EXCEPT ![ProcOf[r]] = <<r>>]
    <3>1. Append(sinks[ProcOf[r]], r) = <<r>>
      BY <2>2
    <3>2. QED
      BY <1>1, <3>1 DEF Launch
  <2>5. \A q \in Runs : prev'[q] = <<>>
    BY <2>3 DEF OneSink, TypeOK
  <2>6. \A q \in Runs : phase'[q] = "running" => sinks'[ProcOf[q]] = <<q>>
    <3>1. SUFFICES ASSUME NEW q \in Runs, phase'[q] = "running"
                   PROVE  sinks'[ProcOf[q]] = <<q>>
      OBVIOUS
    <3>2. CASE q = r
      BY <2>1, <2>4, <3>2 DEF TypeOK
    <3>3. CASE q # r
      <4>1. phase[q] = "running" /\ ProcOf[q] # ProcOf[r] /\ ProcOf[q] \in Procs
        BY <1>1, <2>3, <3>1, <3>3, ConstantsAssumption DEF Launch, TypeOK
      <4>2. QED
        BY <2>4, <4>1 DEF OneSink, TypeOK
    <3>4. QED
      BY <3>2, <3>3
  <2>7. \A p \in Procs : sinks'[p] # <<>>
          => \E q \in Runs : ProcOf[q] = p /\ phase'[q] = "running" /\ sinks'[p] = <<q>>
    <3>1. SUFFICES ASSUME NEW p \in Procs, sinks'[p] # <<>>
                   PROVE  \E q \in Runs : /\ ProcOf[q] = p /\ phase'[q] = "running"
                                          /\ sinks'[p] = <<q>>
      OBVIOUS
    <3>2. CASE p = ProcOf[r]
      BY <2>3, <2>4, <3>2 DEF TypeOK
    <3>3. CASE p # ProcOf[r]
      <4>1. sinks'[p] = sinks[p]
        BY <2>4, <3>3 DEF TypeOK
      <4>2. PICK q \in Runs : ProcOf[q] = p /\ phase[q] = "running" /\ sinks[p] = <<q>>
        BY <3>1, <4>1 DEF OneSink
      <4>3. phase'[q] = "running"
        BY <2>3, <4>2 DEF TypeOK
      <4>4. QED
        BY <4>1, <4>2, <4>3
    <3>4. QED
      BY <3>2, <3>3
  <2>8. QED
    BY <2>5, <2>6, <2>7 DEF OneSink
<1>2. ASSUME NEW P \in SUBSET Procs,
             sinks' = [p \in Procs |-> IF p \in P THEN <<>> ELSE sinks[p]],
             \A r \in Runs : prev'[r] \in {prev[r], <<>>},
             \A r \in Runs : phase'[r] = "running"
                               <=> phase[r] = "running" /\ ProcOf[r] \notin P
      PROVE  OneSink'
  <2>1. \A r \in Runs : ProcOf[r] \in Procs
    BY ConstantsAssumption
  <2>2. QED
    BY <1>2, <2>1 DEF OneSink
<1>3. ASSUME NEW r \in Runs, Collect(r) PROVE OneSink'
  <2>1. ProcOf[r] \in Procs /\ phase[r] = "running" /\ prev[r] = <<>>
    BY <1>3, ConstantsAssumption DEF Collect, OneSink
  <2>2. sinks' = [p \in Procs |-> IF p \in {ProcOf[r]} THEN <<>> ELSE sinks[p]]
    BY <1>3, <2>1 DEF Collect, TypeOK
  <2>3. \A q \in Runs : prev'[q] \in {prev[q], <<>>}
    BY <1>3 DEF Collect
  <2>4. \A q \in Runs : phase[q] = "running" /\ ProcOf[q] = ProcOf[r] => q = r
    <3>1. SUFFICES ASSUME NEW q \in Runs, phase[q] = "running", ProcOf[q] = ProcOf[r]
                   PROVE  q = r
      OBVIOUS
    <3>2. <<q>> = <<r>>
      BY <2>1, <3>1 DEF OneSink
    <3>3. QED
      BY <3>2
  <2>5. \A q \in Runs : phase'[q] = "running"
                          <=> phase[q] = "running" /\ ProcOf[q] \notin {ProcOf[r]}
    BY <1>3, <2>4 DEF Collect, Goto, TypeOK
  <2>6. {ProcOf[r]} \in SUBSET Procs
    BY <2>1
  <2>7. QED
    BY <1>2, <2>2, <2>3, <2>5, <2>6
<1>4. ASSUME NEW p \in Procs, Kill(p) PROVE OneSink'
  <2>1. sinks' = [x \in Procs |-> IF x \in {p} THEN <<>> ELSE sinks[x]]
    BY <1>4 DEF Kill, TypeOK
  <2>2. End(WorkingIn(p), "killed")
    BY <1>4 DEF Kill
  <2>3. \A q \in Runs : prev'[q] \in {prev[q], <<>>}
    BY <2>2 DEF End
  <2>4. \A q \in Runs : phase'[q] = "running"
                          <=> phase[q] = "running" /\ ProcOf[q] \notin {p}
    BY <2>2 DEF End, WorkingIn
  <2>5. {p} \in SUBSET Procs
    OBVIOUS
  <2>6. QED
    BY <1>2, <2>1, <2>3, <2>4, <2>5
<1>5. ASSUME NEW r \in Runs, NEW how, End({r}, how), phase[r] # "running", sinks' = sinks
      PROVE  OneSink'
  <2>1. \A q \in Runs : prev'[q] \in {prev[q], <<>>}
    BY <1>5 DEF End
  <2>2. \A q \in Runs : phase'[q] = "running" <=> phase[q] = "running"
    BY <1>5 DEF End
  <2>3. QED
    BY <1>5, <2>1, <2>2, OneSinkFrame
<1>6. ASSUME NEW r \in Runs, Gate(r) \/ Finish(r) \/ StoreFails(r) PROVE OneSink'
  <2>1. CASE \E how : End({r}, how)
    BY <1>5, <1>6, <2>1 DEF Gate, Finish, StoreFails
  <2>2. CASE Gate(r) /\ Goto(r, "gated") /\ UNCHANGED prev
    BY <2>2, OneSinkFrame DEF Gate, Goto, TypeOK
  <2>3. QED
    BY <1>6, <2>1, <2>2 DEF Gate, Finish, StoreFails, localVars
<1>7. ASSUME NEW r \in Runs, NEW s \in ScanIds,
             CreateScan(r, s) \/ ResumeLatest(r, s) \/ ResumeNamed(r, s)
      PROVE  OneSink'
  <2>1. Begin(r, s)
    BY <1>7 DEF CreateScan, ResumeLatest, ResumeNamed
  <2>2. QED
    BY <2>1, OneSinkFrame DEF Begin, Goto, TypeOK
<1>8. ASSUME NEW r \in Runs, Mark(r) \/ ReadCount(r) PROVE OneSink'
  BY <1>8, OneSinkFrame DEF Mark, ReadCount, Goto, TypeOK
<1>9. (\/ Tick \/ UNCHANGED vars
       \/ \E r \in Runs : Cancel(r) \/ AppendRead(r) \/ AppendWrite(r)
                          \/ AppendJsonb(r) \/ AppendFails(r)
       \/ \E r \in Runs, p \in Providers : ScannerFails(r, p)
       \/ \E r \in Runs, v \in Services : ServiceMissed(r, v)
       \/ \E r \in Runs, v \in Services, how \in Listings : ServiceFails(r, v, how)
       \/ \E r \in Runs, v \in Services, what \in {"done", "warned"}, how \in Listings :
            ServiceDone(r, v, what, how))
      => UNCHANGED <<sinks, prev, phase>>
  BY DEF Tick, vars, runVars, localVars, Cancel, AppendRead, AppendWrite, AppendJsonb,
         AppendFails, Dequeue, ScannerFails, ServiceMissed, ServiceFails, ServiceDone
<1>10. ASSUME UNCHANGED <<sinks, prev, phase>> PROVE OneSink'
  BY <1>10, OneSinkFrame
<1>11. QED
  BY <1>1, <1>3, <1>4, <1>6, <1>7, <1>8, <1>9, <1>10, StepCases

\* What a run was told stays true while its services and lists do.
LEMMA ToldFrame ==
    ASSUME Told,
           \A r \in Runs : phase'[r] \in Settled \cup {"running"} =>
             /\ phase[r] \in Settled \cup {"running"}
             /\ phase[r] = "running" <=> phase'[r] = "running"
             /\ result'[r] = result[r] /\ errs'[r] = errs[r]
             /\ cancelled[r] => cancelled'[r]
             /\ interrupted[r] => interrupted'[r]
    PROVE  Told'
BY DEF Told, Settled, AskedOf

\* A report reaches the run that is running, and no other.
LEMMA ReportReaches ==
    ASSUME TypeOK, OneSink, NEW r \in Runs, phase[r] = "running",
           NEW lists \in [Runs -> Seq(Entry)], NEW e \in Entry, NEW q \in Runs
    PROVE  Collected(r, lists, e)[q] = IF q = r THEN Append(lists[r], e) ELSE lists[q]
<1>1. sinks[ProcOf[r]] = <<r>>
  BY DEF OneSink
<1>2. (\E i \in DOMAIN sinks[ProcOf[r]] : sinks[ProcOf[r]][i] = q) <=> q = r
  BY <1>1
<1>3. QED
  BY <1>2 DEF Collected

\* Every step keeps a failed or missed service in the lists of its run, or in the
\* cancellation of it (RunScanners, scanRegion, scanProject).
LEMMA ToldStep == LifeInv /\ [Next]_vars => Told'
<1> SUFFICES ASSUME LifeInv, [Next]_vars PROVE Told'
  OBVIOUS
<1>0. TypeOK /\ OneSink /\ Told
  BY DEF LifeInv
<1> USE <1>0
<1> DEFINE Same(r) == /\ phase[r] = "running" <=> phase'[r] = "running"
                      /\ phase[r] \in Settled <=> phase'[r] \in Settled
                      /\ result'[r] = result[r] /\ errs'[r] = errs[r]
                      /\ cancelled[r] => cancelled'[r]
                      /\ interrupted[r] => interrupted'[r]
           Fine(r) == phase'[r] \in Settled \cup {"running"} =>
             /\ \A v \in Services : /\ result'[r][v] = "out" => v \notin AskedOf(r)
                                    /\ result'[r][v] = "failed" => errs'[r] # <<>>
                                    /\ result'[r][v] = "missed" =>
                                         IF phase'[r] = "running" THEN cancelled'[r]
                                                                  ELSE interrupted'[r]
             /\ phase'[r] \in Settled => \A v \in Services : result'[r][v] # "todo"
<1>1. ASSUME NEW q \in Runs, Fine(q), \A r \in Runs \ {q} : Same(r)
      PROVE  Told'
  <2>1. SUFFICES ASSUME NEW r \in Runs PROVE Fine(r)
    BY DEF Told, AskedOf
  <2>2. CASE r = q
    BY <1>1, <2>2
  <2>3. CASE r # q
    <3>1. Same(r)
      BY <1>1, <2>3
    <3>2. QED
      BY <3>1 DEF Told, Settled
  <2>4. QED
    BY <2>2, <2>3
<1>2. ASSUME NEW r \in Runs, Launch(r) PROVE Told'
  <2>1. \A v \in Services : result'[r][v] = IF v \in AskedOf(r) THEN "todo" ELSE "out"
    BY <1>2 DEF Launch, AskedOf, TypeOK
  <2>2. phase'[r] = "running"
    BY <1>2 DEF Launch, Goto, TypeOK
  <2>3. Fine(r)
    BY <2>1, <2>2 DEF Settled
  <2>4. \A q \in Runs \ {r} : Same(q)
    BY <1>2 DEF Launch, Goto, TypeOK
  <2>5. QED
    BY <1>1, <2>3, <2>4
<1>3. ASSUME NEW r \in Runs, NEW v \in Services, NEW what \in {"done", "warned"},
             NEW how \in Listings, ServiceDone(r, v, what, how)
      PROVE  Told'
  <2>1. /\ phase[r] = "running" /\ UNCHANGED <<phase, errs, cancelled, interrupted>>
        /\ result' = [result EXCEPT ![r][v] = what] /\ result[r][v] = "todo"
    BY <1>3 DEF ServiceDone, Todo, Becomes
  <2>2. Fine(r)
    BY <2>1 DEF Told, Settled, TypeOK
  <2>3. \A q \in Runs \ {r} : Same(q)
    BY <2>1 DEF TypeOK
  <2>4. QED
    BY <1>1, <2>2, <2>3
<1>4. ASSUME NEW r \in Runs, NEW v \in Services, NEW how \in Listings,
             ServiceFails(r, v, how)
      PROVE  Told'
  <2>1. /\ phase[r] = "running" /\ UNCHANGED <<phase, cancelled, interrupted>>
        /\ result' = [result EXCEPT ![r][v] = "failed"] /\ result[r][v] = "todo"
        /\ errs' = Collected(r, errs, About(r, v))
    BY <1>4 DEF ServiceFails, Todo, Becomes
  <2>2. errs \in [Runs -> Seq(Entry)] /\ About(r, v) \in Entry
    BY AboutType DEF TypeOK
  <2>3. errs'[r] = Append(errs[r], About(r, v)) /\ \A q \in Runs \ {r} : errs'[q] = errs[q]
    <3>1. \A q \in Runs : Collected(r, errs, About(r, v))[q]
                             = IF q = r THEN Append(errs[r], About(r, v)) ELSE errs[q]
      BY <2>1, <2>2, ReportReaches
    <3>2. QED
      BY <2>1, <3>1
  <2>4. errs'[r] # <<>>
    BY <2>2, <2>3
  <2>5. Fine(r)
    BY <2>1, <2>4 DEF Told, Settled, TypeOK
  <2>6. \A q \in Runs \ {r} : Same(q)
    BY <2>1, <2>3 DEF TypeOK
  <2>7. QED
    BY <1>1, <2>5, <2>6
<1>5. ASSUME NEW r \in Runs, NEW v \in Services, ServiceMissed(r, v) PROVE Told'
  <2>1. /\ phase[r] = "running" /\ UNCHANGED <<phase, errs, cancelled, interrupted>>
        /\ result' = [result EXCEPT ![r][v] = "missed"] /\ cancelled[r]
    BY <1>5 DEF ServiceMissed, Todo, Becomes
  <2>2. Fine(r)
    BY <2>1 DEF Told, Settled, TypeOK
  <2>3. \A q \in Runs \ {r} : Same(q)
    BY <2>1 DEF TypeOK
  <2>4. QED
    BY <1>1, <2>2, <2>3
<1>6. ASSUME NEW r \in Runs, NEW p \in Providers, ScannerFails(r, p) PROVE Told'
  <2>1. /\ phase[r] = "running" /\ UNCHANGED <<phase, cancelled, interrupted>>
        /\ \A v \in Services : \/ result'[r][v] = result[r][v]
                               \/ result'[r][v] = "failed"
        /\ errs'[r] = Append(errs[r], About(r, p))
        /\ \A q \in Runs \ {r} : errs'[q] = errs[q] /\ result'[q] = result[q]
    BY <1>6 DEF ScannerFails, TypeOK
  <2>2. errs[r] \in Seq(Entry)
    BY DEF TypeOK
  <2>3. errs'[r] # <<>>
    BY <2>1, <2>2
  <2>4. Fine(r)
    BY <2>1, <2>3 DEF Told, Settled
  <2>5. \A q \in Runs \ {r} : Same(q)
    BY <2>1
  <2>6. QED
    BY <1>1, <2>4, <2>5
<1>7. ASSUME NEW r \in Runs, Cancel(r) PROVE Told'
  <2>1. /\ UNCHANGED <<phase, result, errs, interrupted>>
        /\ cancelled' = [cancelled EXCEPT ![r] = TRUE]
    BY <1>7 DEF Cancel
  <2>2. \A q \in Runs : cancelled[q] => cancelled'[q]
    BY <2>1 DEF TypeOK
  <2>3. QED
    BY <2>1, <2>2, ToldFrame
<1>8. ASSUME NEW r \in Runs, Collect(r) PROVE Told'
  <2>1. /\ phase[r] = "running" /\ UNCHANGED <<result, errs, cancelled>>
        /\ \A v \in Services : result[r][v] # "todo"
        /\ phase'[r] = "mark" /\ \A q \in Runs \ {r} : phase'[q] = phase[q]
    BY <1>8 DEF Collect, Goto, TypeOK
  <2>2. /\ cancelled[r] => interrupted'[r]
        /\ \A q \in Runs \ {r} : interrupted[q] => interrupted'[q]
    BY <1>8 DEF Collect, TypeOK
  <2>3. Fine(r)
    BY <2>1, <2>2 DEF Told
  <2>4. \A q \in Runs \ {r} : Same(q)
    BY <2>1, <2>2
  <2>5. QED
    BY <1>1, <2>3, <2>4
<1>9. ASSUME NEW R \in SUBSET Runs, NEW how, End(R, how), UNCHANGED result PROVE Told'
  <2>1. \A r \in R : phase'[r] = "over"
    BY <1>9 DEF End
  <2>2. \A r \in Runs \ R : phase'[r] = phase[r] /\ errs'[r] = errs[r]
    BY <1>9 DEF End
  <2>3. \A r \in Runs \ R : cancelled'[r] = cancelled[r] /\ interrupted'[r] = interrupted[r]
    BY <1>9 DEF End
  <2>4. QED
    BY <1>9, <2>1, <2>2, <2>3, ToldFrame DEF Settled
<1>10. ASSUME NEW r \in Runs, Gate(r) \/ Finish(r) \/ StoreFails(r) PROVE Told'
  <2>1. CASE \E how : End({r}, how)
    <3>1. UNCHANGED result
      BY <1>10 DEF Gate, Finish, StoreFails
    <3>2. QED
      BY <1>9, <2>1, <3>1
  <2>2. CASE Gate(r) /\ Goto(r, "gated") /\ UNCHANGED localVars
    <3>1. /\ UNCHANGED <<result, errs, cancelled, interrupted>>
          /\ phase' = [phase EXCEPT ![r] = "gated"]
      BY <2>2 DEF Gate, Goto, localVars
    <3>2. QED
      BY <3>1, ToldFrame DEF Settled, TypeOK
  <2>3. QED
    BY <1>10, <2>1, <2>2 DEF Gate, Finish, StoreFails
<1>11. ASSUME NEW r \in Runs, NEW s \in ScanIds,
              CreateScan(r, s) \/ ResumeLatest(r, s) \/ ResumeNamed(r, s)
       PROVE  Told'
  <2>1. Begin(r, s)
    BY <1>11 DEF CreateScan, ResumeLatest, ResumeNamed
  <2>2. /\ UNCHANGED <<result, errs, cancelled, interrupted>>
        /\ phase' = [phase EXCEPT ![r] = "started"]
    BY <2>1 DEF Begin, Goto
  <2>3. QED
    BY <2>2, ToldFrame DEF Settled, TypeOK
<1>12. ASSUME NEW r \in Runs, Mark(r) \/ ReadCount(r) PROVE Told'
  <2>1. /\ UNCHANGED <<result, errs, cancelled, interrupted>>
        /\ phase[r] \in Settled /\ phase'[r] \in Settled
        /\ \A q \in Runs \ {r} : phase'[q] = phase[q]
    BY <1>12 DEF Mark, ReadCount, Goto, TypeOK, Settled
  <2>2. QED
    BY <2>1, ToldFrame DEF Settled
<1>13. ASSUME NEW p \in Procs, Kill(p) PROVE Told'
  <2>1. WorkingIn(p) \in SUBSET Runs /\ End(WorkingIn(p), "killed") /\ UNCHANGED result
    BY <1>13 DEF Kill, WorkingIn
  <2>2. QED
    BY <1>9, <2>1
<1>14. (\/ Tick \/ UNCHANGED vars
        \/ \E r \in Runs : AppendRead(r) \/ AppendWrite(r) \/ AppendJsonb(r) \/ AppendFails(r))
       => UNCHANGED <<phase, result, errs, cancelled, interrupted>>
  BY DEF Tick, vars, runVars, localVars, AppendRead, AppendWrite, AppendJsonb,
         AppendFails, Dequeue
<1>15. ASSUME UNCHANGED <<phase, result, errs, cancelled, interrupted>> PROVE Told'
  BY <1>15, ToldFrame
<1>16. QED
  BY <1>2, <1>3, <1>4, <1>5, <1>6, <1>7, <1>8, <1>10, <1>11, <1>12, <1>13, <1>14,
     <1>15, StepCases

-----------------------------------------------------------------------------
(* Times and counts. *)

\* Every step keeps a finalised row finished no earlier than it started
\* (CreateScanWithID, Marked).
LEMMA TimelyStep == LifeInv /\ [Next]_vars => Timely'
<1> SUFFICES ASSUME LifeInv, [Next]_vars PROVE Timely'
  OBVIOUS
<1>0. TypeOK /\ TypeOK' /\ Timely
  BY TypeStep DEF LifeInv
<1>1. clock \in Nat /\ clock' \in Nat /\ clock' >= clock
  <2>1. clock' = clock \/ clock' = clock + 1
    BY StepCases DEF Tick, vars, rowVars, Gate, Launch, Cancel, Collect, Mark, ReadCount,
       AppendRead, AppendWrite, AppendJsonb, AppendFails, Dequeue, Finish, StoreFails,
       CreateScan, ResumeLatest, ResumeNamed, Begin, Kill, ScannerFails, ServiceMissed,
       ServiceFails, ServiceDone
  <2>2. QED
    BY <1>0, <2>1 DEF TypeOK
<1>2. ASSUME NEW s \in ScanIds, Exists(s)'
      PROVE  /\ scans'[s].started <= clock'
             /\ scans'[s].status \in {"completed", "partial"}
                  => scans'[s].finished # <<>> /\ scans'[s].finished[1] >= scans'[s].started
  <2>1. CASE scans'[s].status = "running" /\ scans'[s].started = clock
    BY <1>1, <2>1
  <2>2. CASE /\ Exists(s) /\ scans'[s].finished = <<clock>>
             /\ scans'[s].started = scans[s].started
    <3>1. scans[s].started <= clock /\ scans[s].started \in Nat
      BY <1>0, <2>2 DEF Timely, TypeOK, Exists, Row
    <3>2. QED
      BY <1>1, <2>2, <3>1
  <2>3. CASE /\ Exists(s) /\ scans'[s].status = scans[s].status
             /\ scans'[s].started = scans[s].started
             /\ scans'[s].finished = scans[s].finished
    <3>1. scans[s].started <= clock /\ scans[s].started \in Nat
      BY <1>0, <2>3 DEF Timely, TypeOK, Exists, Row
    <3>2. scans[s].status \in {"completed", "partial"}
            => scans[s].finished # <<>> /\ scans[s].finished[1] >= scans[s].started
      BY <1>0, <2>3 DEF Timely, FinishedAfterStarted, Finalised
    <3>3. QED
      BY <1>1, <2>3, <3>1, <3>2
  <2>4. QED
    BY <1>2, <2>1, <2>2, <2>3, NewStatus
<1>3. QED
  BY <1>2 DEF Timely, FinishedAfterStarted, Finalised, Exists

\* A service that lists its resource becomes the last to have done so, and takes it
\* from the others (UpsertResources).
LEMMA ListsTally ==
    ASSUME LifeInv, NEW r \in Runs, NEW v \in Services, NEW how, scan[r] \in ScanIds,
           Lists(r, v, how)
    PROVE  /\ \A s \in ScanIds : saw[s] \subseteq saw'[s]
           /\ \A s \in ScanIds, x \in Services : Current(x, s)' <=> x \in saw'[s] \ taken'[s]
           /\ \A s \in ScanIds \ {scan[r]} : saw'[s] \ taken'[s] \subseteq saw[s] \ taken[s]
<1>0. /\ TypeOK
      /\ \A s \in ScanIds, x \in Services : Current(x, s) <=> x \in saw[s] \ taken[s]
  BY DEF LifeInv, Tallied
<1>1. CASE UNCHANGED <<verifiedBy, seenVars>>
  BY <1>0, <1>1 DEF Current, seenVars
<1>2. CASE ~UNCHANGED <<verifiedBy, seenVars>>
  <2>1. /\ verifiedBy' = [verifiedBy EXCEPT ![v] = Stamped(@, scan[r], how)]
        /\ saw' = [saw EXCEPT ![scan[r]] = @ \cup {v}]
        /\ taken' = [s \in ScanIds |-> IF s = scan[r] THEN taken[s] \ {v}
                                       ELSE taken[s] \cup (saw[s] \cap {v})]
    BY <1>2 DEF Lists
  <2>2. verifiedBy'[v] = Stamped(verifiedBy[v], scan[r], how)
    BY <1>0, <2>1 DEF TypeOK
  <2>3. verifiedBy'[v] # <<>> /\ verifiedBy'[v][Len(verifiedBy'[v])] = scan[r]
    BY <1>0, <2>2, StampedType DEF TypeOK
  <2>4. \A x \in Services \ {v} : verifiedBy'[x] = verifiedBy[x]
    BY <1>0, <2>1 DEF TypeOK
  <2>5. \A s \in ScanIds : /\ saw'[s] = IF s = scan[r] THEN saw[s] \cup {v} ELSE saw[s]
                           /\ taken'[s] = IF s = scan[r] THEN taken[s] \ {v}
                                          ELSE taken[s] \cup (saw[s] \cap {v})
    BY <1>0, <2>1 DEF TypeOK
  <2>6. ASSUME NEW s \in ScanIds, NEW x \in Services
        PROVE  Current(x, s)' <=> x \in saw'[s] \ taken'[s]
    <3>1. CASE x = v
      <4>1. Current(x, s)' <=> s = scan[r]
        BY <2>3, <3>1 DEF Current
      <4>2. x \in saw'[s] \ taken'[s] <=> s = scan[r]
        BY <2>5, <3>1
      <4>3. QED
        BY <4>1, <4>2
    <3>2. CASE x # v
      <4>1. Current(x, s)' <=> Current(x, s)
        BY <2>4, <3>2 DEF Current
      <4>2. x \in saw'[s] \ taken'[s] <=> x \in saw[s] \ taken[s]
        <5>1. /\ saw'[s] = IF s = scan[r] THEN saw[s] \cup {v} ELSE saw[s]
              /\ taken'[s] = IF s = scan[r] THEN taken[s] \ {v}
                             ELSE taken[s] \cup (saw[s] \cap {v})
          BY <2>5
        <5>2. x \in saw'[s] <=> x \in saw[s]
          BY <3>2, <5>1
        <5>3. x \in taken'[s] <=> x \in taken[s]
          BY <3>2, <5>1
        <5>4. QED
          BY <5>2, <5>3
      <4>3. QED
        BY <1>0, <4>1, <4>2
    <3>3. QED
      BY <3>1, <3>2
  <2>7. QED
    BY <2>5, <2>6
<1>3. QED
  BY <1>1, <1>2

\* A step that does not mark a row for one of its runs leaves it to be marked.
LEMMA MarksStay ==
    ASSUME LifeInv, [Next]_vars, NEW s \in ScanIds, AllMarked(s)',
           \A r \in Runs : ~(Mark(r) /\ scan[r] = s)
    PROVE  AllMarked(s)
<1>1. SUFFICES ASSUME NEW r \in Runs, scan[r] = s PROVE HasMarked(r)
  BY DEF AllMarked
<1>2. Moves(r) /\ (exit[r] = "none" <=> phase[r] # "over")
  BY RunsMove DEF LifeInv, Ended
<1>3. CASE TakesRow(r)
  BY <1>1, <1>3, ConstantsAssumption DEF TakesRow, LifeInv, HasRow
<1>4. CASE GoesOn(r)
  <2>1. scan'[r] = s /\ exit'[r] = exit[r]
    BY <1>1, <1>4 DEF GoesOn
  <2>2. HasMarked(r)'
    BY <2>1 DEF AllMarked
  <2>3. QED
    BY <1>1, <1>2, <1>4, <2>1, <2>2 DEF GoesOn, HasMarked
<1>5. CASE Ends(r)
  <2>1. HasMarked(r)'
    BY <1>1, <1>5 DEF AllMarked, Ends
  <2>2. QED
    BY <1>5, <2>1 DEF Ends, HasMarked
<1>6. QED
  BY <1>2, <1>3, <1>4, <1>5 DEF Moves

\* Every step keeps what the rows say and what has been counted of them
\* (UpsertResources, scanResourceCountExpr).
LEMMA TalliedStep == LifeInv /\ [Next]_vars => Tallied'
<1> SUFFICES ASSUME LifeInv, [Next]_vars PROVE Tallied'
  OBVIOUS
<1>0. TypeOK /\ TypeOK' /\ Tallied /\ HasRow
  BY TypeStep DEF LifeInv
<1> DEFINE Mine(s) == saw[s] \ taken[s]
           Kept == /\ \A s \in ScanIds : saw[s] \subseteq saw'[s]
                   /\ \A s \in ScanIds, v \in Services :
                        Current(v, s)' <=> v \in saw'[s] \ taken'[s]
                   /\ \A s \in ScanIds : AllMarked(s)' => saw'[s] \ taken'[s] \subseteq Mine(s)
           Right(s) == /\ scans'[s].count <= Cardinality(saw'[s])
                       /\ AllMarked(s)' =>
                            scans'[s].count >= Cardinality(saw'[s] \ taken'[s])
<1>1. Kept
  <2>1. ASSUME NEW r \in Runs, NEW v \in Services, NEW how \in Listings,
               \/ ServiceFails(r, v, how)
               \/ \E what \in {"done", "warned"} : ServiceDone(r, v, what, how)
        PROVE  Kept
    <3>1. Lists(r, v, how) /\ phase[r] = "running" /\ UNCHANGED <<phase, scan, exit>>
      BY <2>1 DEF ServiceFails, ServiceDone, Todo
    <3>2. scan[r] \in ScanIds
      BY <1>0, <3>1 DEF HasRow, Working
    <3>3. exit[r] = "none"
      BY <3>1 DEF LifeInv, Ended
    <3>4. ~AllMarked(scan[r])'
      BY <3>1, <3>3 DEF AllMarked, HasMarked
    <3>5. QED
      BY <3>1, <3>2, <3>4, ListsTally
  <2>2. ASSUME UNCHANGED <<seenVars, verifiedBy>> PROVE Kept
    BY <1>0, <2>2 DEF Tallied, seenVars, Current
  <2>3. (\/ Tick \/ UNCHANGED vars \/ \E p \in Procs : Kill(p)
         \/ \E r \in Runs : Gate(r) \/ Launch(r) \/ Cancel(r) \/ Collect(r) \/ Mark(r)
                            \/ ReadCount(r) \/ AppendRead(r) \/ AppendWrite(r)
                            \/ AppendJsonb(r) \/ AppendFails(r) \/ Finish(r) \/ StoreFails(r)
         \/ \E r \in Runs, t \in ScanIds :
              CreateScan(r, t) \/ ResumeLatest(r, t) \/ ResumeNamed(r, t)
         \/ \E r \in Runs, p \in Providers : ScannerFails(r, p)
         \/ \E r \in Runs, v \in Services : ServiceMissed(r, v))
        => UNCHANGED <<seenVars, verifiedBy>>
    BY DEF Tick, vars, rowVars, seenVars, Gate, Launch, Cancel, Collect, Mark, ReadCount,
       AppendRead, AppendWrite, AppendJsonb, AppendFails, Dequeue, Finish, StoreFails,
       CreateScan, ResumeLatest, ResumeNamed, Begin, Kill, ScannerFails, ServiceMissed
  <2>4. QED
    BY <2>1, <2>2, <2>3, StepCases
<1>2. ASSUME NEW s \in ScanIds
      PROVE  /\ Cardinality(saw[s]) \in Nat /\ Cardinality(saw'[s]) \in Nat
             /\ Cardinality(saw[s]) <= Cardinality(saw'[s])
             /\ Cardinality(Mine(s)) \in Nat /\ Cardinality(Mine(s)) <= Cardinality(saw[s])
             /\ Cardinality(saw'[s] \ taken'[s]) \in Nat
             /\ AllMarked(s)' => Cardinality(saw'[s] \ taken'[s]) <= Cardinality(Mine(s))
  <2>1. saw[s] \in SUBSET Services /\ saw'[s] \in SUBSET Services
    BY <1>0 DEF TypeOK
  <2>2. IsFiniteSet(saw[s]) /\ IsFiniteSet(saw'[s])
    BY <2>1, ConstantsAssumption, FS_Subset
  <2>3. Cardinality(saw[s]) <= Cardinality(saw'[s])
    BY <1>1, <2>2, FS_Subset
  <2>4. Mine(s) \in SUBSET Services /\ saw'[s] \ taken'[s] \in SUBSET Services
    BY <2>1
  <2>5. IsFiniteSet(Mine(s)) /\ Cardinality(Mine(s)) <= Cardinality(saw[s])
    BY <2>2, FS_Subset
  <2>6. AllMarked(s)' => Cardinality(saw'[s] \ taken'[s]) <= Cardinality(Mine(s))
    BY <1>1, <2>5, FS_Subset
  <2>7. QED
    BY <2>1, <2>3, <2>4, <2>5, <2>6, ServiceCount
<1>3. ASSUME NEW s \in ScanIds PROVE ResourceCount(s) = Cardinality(Mine(s))
  <2>1. {v \in Services : Current(v, s)} = Mine(s)
    BY <1>0 DEF Tallied, TypeOK
  <2>2. QED
    BY <2>1 DEF ResourceCount
<1>4. ASSUME NEW s \in ScanIds, Exists(s)' PROVE Right(s)
  <2>1. Exists(s) => /\ scans[s].count \in Nat /\ scans[s].count <= Cardinality(saw[s])
                     /\ AllMarked(s) => scans[s].count >= Cardinality(Mine(s))
    BY <1>0 DEF Tallied, CountIsOfResources, TypeOK, Exists, Row
  <2>2. ASSUME NEW r \in Runs, phase'[r] = "started", scan'[r] = s,
               scans'[s].count = IF Exists(s) THEN scans[s].count ELSE 0
        PROVE  Right(s)
    <3>1. exit'[r] = "none"
      BY <2>2, EndedStep DEF Ended
    <3>2. ~AllMarked(s)'
      BY <2>2, <3>1 DEF AllMarked, HasMarked
    <3>3. QED
      BY <1>2, <2>1, <2>2, <3>2
  <2>3. CASE Exists(s) /\ scans'[s].count = ResourceCount(s)
    <3>1. scans'[s].count = Cardinality(Mine(s))
      BY <1>3, <2>3
    <3>2. QED
      BY <1>2, <3>1
  <2>4. CASE /\ Exists(s) /\ scans'[s].count = scans[s].count
             /\ \A r \in Runs : ~(Mark(r) /\ scan[r] = s)
    <3>1. AllMarked(s)' => AllMarked(s)
      BY <2>4, MarksStay
    <3>2. QED
      BY <1>2, <2>1, <2>4, <3>1
  <2>5. ASSUME NEW r \in Runs, Mark(r), scan[r] = s
        PROVE  Exists(s) /\ scans'[s].count = ResourceCount(s)
    BY <1>0, <2>5, MarkedRow
  <2>6. QED
    BY <1>4, <2>2, <2>3, <2>4, <2>5, NewStatus
<1>5. QED
  BY <1>1, <1>4 DEF Tallied, CountIsOfResources, Exists

-----------------------------------------------------------------------------
(* The theorems. *)

\* The empty database satisfies the invariant.
LEMMA InitLife == Init => LifeInv
<1> SUFFICES ASSUME Init PROVE LifeInv
  OBVIOUS
<1>1. TypeOK
  BY ConstantsAssumption DEF Init, TypeOK, Phases, Results, Exits, NotAsked
<1>2. HasRow /\ Ended /\ Owned /\ CompletedMeansClean
  BY DEF Init, HasRow, Ended, Owned, CompletedMeansClean, Working, Exists
<1>3. OneSink /\ Told
  BY ConstantsAssumption DEF Init, OneSink, Told, Settled
<1>4. Timely /\ Tallied
  BY DEF Init, Timely, FinishedAfterStarted, Finalised, Tallied, CountIsOfResources, Exists,
         Current
<1>5. QED
  BY <1>1, <1>2, <1>3, <1>4 DEF LifeInv

\* LifeInv holds in every state, whatever the interleaving of runs, services,
\* cancellations, kills and failing statements.
THEOREM LifeInvariance == Spec => []LifeInv
<1>1. LifeInv /\ [Next]_vars => LifeInv'
  BY TypeStep, HasRowStep, EndedStep, OneSinkStep, ToldStep, OwnedStep, CompletedStep,
     TimelyStep, TalliedStep DEF LifeInv
<1>2. QED
  BY InitLife, <1>1, PTL DEF Spec

\* Every variable keeps its type.
THEOREM LifeTypes == Spec => []TypeOK
<1>1. LifeInv => TypeOK
  BY DEF LifeInv
<1>2. QED
  BY <1>1, LifeInvariance, PTL

\* `completed' is never written over a failure, an interruption or a service
\* that was kept from starting (Finalize, scanRegion, scanProject).
THEOREM CompletedIsClean == Spec => []CompletedMeansClean
<1>1. LifeInv => CompletedMeansClean
  BY DEF LifeInv
<1>2. QED
  BY <1>1, LifeInvariance, PTL

\* A running row has a run that is still to finalise it, or that was killed or
\* lost the database (Finalize, CreateScanWithID).
THEOREM OrphansHaveCauses == Spec => []OrphanHasCause
<1>1. LifeInv => OrphanHasCause
  BY DEF LifeInv, Owned, OrphanHasCause
<1>2. QED
  BY <1>1, LifeInvariance, PTL

\* No callback outlives its run (RunScanners).
THEOREM NoSinkDangles == Spec => []NoDanglingSink
<1>1. LifeInv => NoDanglingSink
  <2>1. SUFFICES ASSUME LifeInv, NEW p \in Procs, NEW i \in DOMAIN sinks[p]
                 PROVE  phase[sinks[p][i]] = "running"
    BY DEF NoDanglingSink
  <2>2. sinks[p] # <<>>
    BY <2>1
  <2>3. PICK r \in Runs : phase[r] = "running" /\ sinks[p] = <<r>>
    BY <2>1, <2>2 DEF LifeInv, OneSink
  <2>4. QED
    BY <2>1, <2>3
<1>2. QED
  BY <1>1, LifeInvariance, PTL

\* A finalised row finished after it started, whoever took it over in between
\* (CreateScanWithID, CompleteScan, PartialScan).
THEOREM FinishFollowsStart == Spec => []FinishedAfterStarted
<1>1. LifeInv => FinishedAfterStarted
  BY DEF LifeInv, Timely
<1>2. QED
  BY <1>1, LifeInvariance, PTL

\* A recorded resource count is of resources: at most those the scan has listed,
\* and at least those that are still its own, once all its runs have marked the row
\* (UpsertResources, scanResourceCountExpr).
THEOREM CountsAreOfResources == Spec => []CountIsOfResources
<1>1. LifeInv => CountIsOfResources
  BY DEF LifeInv, Tallied
<1>2. QED
  BY <1>1, LifeInvariance, PTL
-----------------------------------------------------------------------------
(* The way of a report into its row.  From here on rows are not shared, or *)
(* the database is Postgres: on SQLite two runs that append to one row may *)
(* write over each other's entries.                                        *)

Unshared == Postgres \/ ~ShareLive

\* What Append adds to the entries of a list, and what Tail takes from them.
LEMMA AmongAppend ==
    ASSUME NEW T, NEW l \in Seq(T), NEW x \in T, NEW e
    PROVE  Among(e, Append(l, x)) <=> Among(e, l) \/ e = x
<1>1. /\ DOMAIN Append(l, x) = 1..Len(l) + 1 /\ DOMAIN l = 1..Len(l) /\ Len(l) \in Nat
      /\ \A i \in 1..Len(l) : Append(l, x)[i] = l[i]
      /\ Append(l, x)[Len(l) + 1] = x
  OBVIOUS
<1>2. QED
  BY <1>1 DEF Among
LEMMA AmongTail ==
    ASSUME NEW T, NEW l \in Seq(T), l # <<>>, NEW e
    PROVE  Among(e, l) <=> e = Head(l) \/ Among(e, Tail(l))
<1>1. /\ Len(l) \in Nat \ {0} /\ DOMAIN l = 1..Len(l) /\ Head(l) = l[1]
      /\ DOMAIN Tail(l) = 1..Len(l) - 1
      /\ \A i \in 1..Len(l) - 1 : Tail(l)[i] = l[i + 1]
  OBVIOUS
<1>2. ASSUME Among(e, l) PROVE e = Head(l) \/ Among(e, Tail(l))
  <2>1. PICK i \in 1..Len(l) : l[i] = e
    BY <1>1, <1>2 DEF Among
  <2>2. CASE i = 1
    BY <1>1, <2>1, <2>2
  <2>3. CASE i # 1
    <3>1. i - 1 \in 1..Len(l) - 1 /\ (i - 1) + 1 = i
      BY <1>1, <2>1, <2>3
    <3>2. Tail(l)[i - 1] = e
      BY <1>1, <2>1, <3>1
    <3>3. QED
      BY <1>1, <3>1, <3>2 DEF Among
  <2>4. QED
    BY <2>2, <2>3
<1>3. ASSUME e = Head(l) \/ Among(e, Tail(l)) PROVE Among(e, l)
  <2>1. CASE e = Head(l)
    BY <1>1, <2>1 DEF Among
  <2>2. ASSUME NEW i \in 1..Len(l) - 1, Tail(l)[i] = e PROVE Among(e, l)
    <3>1. i + 1 \in 1..Len(l) /\ l[i + 1] = e
      BY <1>1, <2>2
    <3>2. QED
      BY <1>1, <3>1 DEF Among
  <2>3. QED
    BY <1>1, <1>3, <2>1, <2>2 DEF Among
<1>4. QED
  BY <1>2, <1>3

\* A list is longer than its tail.
LEMMA TailDiffers ==
    ASSUME NEW T, NEW l \in Seq(T), l # <<>>
    PROVE  Tail(l) # l
<1>1. Len(l) \in Nat /\ Len(Tail(l)) = Len(l) - 1
  OBVIOUS
<1>2. \A n \in Nat : n - 1 # n
  OBVIOUS
<1>3. Len(Tail(l)) # Len(l)
  BY <1>1, <1>2
<1>4. QED
  BY <1>3

\* An entry changes the array of its column, and no other.
LEMMA ColumnOfEntry ==
    ASSUME NEW row \in Row, NEW c \in Columns, NEW d \in Columns, NEW l, NEW e
    PROVE  Column(WithEntry(row, c, l, e), d) = IF c = d THEN Append(l, e) ELSE Column(row, d)
BY DEF Column, WithEntry, Row, Columns

\* Taking over a row and marking it leave its arrays alone.
LEMMA ColumnsKept ==
    ASSUME TypeOK, NEW r \in Runs, NEW row \in Row, NEW c \in Columns
    PROVE  /\ Column(TakenOver(r, row), c) = Column(row, c)
           /\ Column(Marked(r, row), c) = Column(row, c)
           /\ Column(NewRow(r), c) = <<>>
BY DEF Column, TakenOver, Marked, NewRow, Row

\* What a run is about to append.
LEMMA NextAppendType ==
    ASSUME LifeInv, NEW q \in Runs, Appending(q)
    PROVE  /\ scan[q] \in ScanIds /\ Exists(scan[q]) /\ scans[scan[q]] \in Row
           /\ queue[q] \in Seq(Pending) /\ queue[q] # <<>>
           /\ NextAppend(q) = queue[q][1] /\ 1 \in DOMAIN queue[q]
           /\ NextAppend(q) \in Pending
           /\ NextAppend(q).column \in Columns /\ NextAppend(q).entry \in Entry
<1>1. scan[q] \in ScanIds /\ Exists(scan[q]) /\ scans[scan[q]] \in Row
  BY DEF LifeInv, Appending, HasRow, Working, Exists, TypeOK
<1>2. queue[q] \in Seq(Pending) /\ queue[q] # <<>>
  BY DEF LifeInv, Appending, TypeOK
<1>3. NextAppend(q) = queue[q][1] /\ 1 \in DOMAIN queue[q] /\ NextAppend(q) \in Pending
  BY <1>2 DEF NextAppend
<1>4. QED
  BY <1>1, <1>2, <1>3 DEF Pending

\* A run that appends adds one entry to the array as it is in the row.
Adds(q) == AppendWrite(q) \/ AppendJsonb(q)
LEMMA AddsEntry ==
    ASSUME ScanInv, NEW q \in Runs, Adds(q)
    PROVE  /\ Appending(q) /\ Dequeue(q) /\ lost' = lost
           /\ scans' = [scans EXCEPT ![scan[q]] =
                WithEntry(@, NextAppend(q).column, Column(@, NextAppend(q).column),
                          NextAppend(q).entry)]
<1>1. CASE AppendJsonb(q)
  BY <1>1 DEF AppendJsonb
<1>2. CASE AppendWrite(q)
  <2>1. buf[q] = Column(scans[scan[q]], NextAppend(q).column)
    BY <1>2 DEF AppendWrite, ScanInv, LandAt, Buffered
  <2>2. QED
    BY <1>2, <2>1 DEF AppendWrite
<1>3. QED
  BY <1>1, <1>2 DEF Adds

\* Every step leaves an array of a row as it is, or adds the entry of one run.
ColumnMoves(s, c) ==
    \/ Exists(s) /\ Column(scans'[s], c) = Column(scans[s], c)
    \/ ~Exists(s) /\ Column(scans'[s], c) = <<>>
    \/ \E q \in Runs :
         /\ Adds(q) /\ scan[q] = s /\ Exists(s) /\ NextAppend(q).column = c
         /\ Column(scans'[s], c) = Append(Column(scans[s], c), NextAppend(q).entry)
LEMMA ColumnsMove ==
    ASSUME ScanInv, [Next]_vars, NEW s \in ScanIds, scans'[s] # NoScan, NEW c \in Columns
    PROVE  ColumnMoves(s, c)
<1>0. LifeInv /\ TypeOK /\ HasRow /\ (Exists(s) => scans[s] \in Row)
  BY DEF ScanInv, LifeInv, TypeOK, Exists
<1>1. ASSUME NEW r \in Runs, NEW t \in ScanIds, CreateScan(r, t) PROVE ColumnMoves(s, c)
  <2>1. CASE t = s
    <3>1. scans'[s] = IF Exists(s) THEN TakenOver(r, scans[s]) ELSE NewRow(r)
      BY <1>0, <1>1, <2>1 DEF CreateScan, TypeOK
    <3>2. NewRow(r) \in Row
      BY <1>0, NewRowType
    <3>3. QED
      BY <1>0, <3>1, <3>2, ColumnsKept DEF ColumnMoves
  <2>2. CASE t # s
    BY <1>0, <1>1, <2>2 DEF CreateScan, ColumnMoves, TypeOK, Exists
  <2>3. QED
    BY <2>1, <2>2
<1>2. ASSUME NEW r \in Runs, Mark(r) PROVE ColumnMoves(s, c)
  <2>1. CASE scan[r] = s
    <3>1. Exists(s)
      BY <1>0, <1>2, <2>1 DEF Mark, HasRow, Working
    <3>2. scans'[s] = Marked(r, scans[s])
      BY <1>0, <1>2, <2>1 DEF Mark, TypeOK
    <3>3. QED
      BY <1>0, <3>1, <3>2, ColumnsKept DEF ColumnMoves
  <2>2. CASE scan[r] # s
    BY <1>0, <1>2, <2>2 DEF Mark, ColumnMoves, TypeOK, Exists
  <2>3. QED
    BY <2>1, <2>2
<1>3. ASSUME NEW q \in Runs, Adds(q) PROVE ColumnMoves(s, c)
  <2>1. /\ scan[q] \in ScanIds /\ Exists(scan[q]) /\ scans[scan[q]] \in Row
        /\ NextAppend(q).column \in Columns
        /\ scans' = [scans EXCEPT ![scan[q]] =
             WithEntry(@, NextAppend(q).column, Column(@, NextAppend(q).column),
                       NextAppend(q).entry)]
    BY <1>0, <1>3, AddsEntry, NextAppendType
  <2>2. CASE scan[q] = s
    <3>1. scans'[s] = WithEntry(scans[s], NextAppend(q).column,
                        Column(scans[s], NextAppend(q).column), NextAppend(q).entry)
      BY <1>0, <2>1, <2>2 DEF TypeOK
    <3>2. Column(scans'[s], c) = IF NextAppend(q).column = c
            THEN Append(Column(scans[s], NextAppend(q).column), NextAppend(q).entry)
            ELSE Column(scans[s], c)
      <4>1. scans[s] \in Row
        BY <2>1, <2>2
      <4>2. QED
        BY <2>1, <3>1, <4>1 DEF Column, WithEntry, Row, Columns
    <3>3. QED
      BY <1>3, <2>1, <2>2, <3>2 DEF ColumnMoves
  <2>3. CASE scan[q] # s
    BY <1>0, <2>1, <2>3 DEF ColumnMoves, TypeOK, Exists
  <2>4. QED
    BY <2>2, <2>3
<1>4. ASSUME UNCHANGED scans PROVE ColumnMoves(s, c)
  BY <1>4 DEF ColumnMoves, Exists
<1>5. (\/ Tick \/ UNCHANGED vars
       \/ \E r \in Runs : Gate(r) \/ Launch(r) \/ Cancel(r) \/ Collect(r) \/ ReadCount(r)
                          \/ AppendRead(r) \/ AppendFails(r) \/ Finish(r) \/ StoreFails(r)
       \/ \E r \in Runs, t \in ScanIds : ResumeLatest(r, t) \/ ResumeNamed(r, t)
       \/ \E p \in Procs : Kill(p)
       \/ \E r \in Runs, p \in Providers : ScannerFails(r, p)
       \/ \E r \in Runs, v \in Services : ServiceMissed(r, v)
       \/ \E r \in Runs, v \in Services, how \in Listings : ServiceFails(r, v, how)
       \/ \E r \in Runs, v \in Services, what \in {"done", "warned"}, how \in Listings :
            ServiceDone(r, v, what, how))
      => UNCHANGED scans
  BY DEF Tick, vars, rowVars, Gate, Launch, Cancel, Collect, ReadCount, AppendRead,
         AppendFails, Finish, StoreFails, ResumeLatest, ResumeNamed, Kill,
         ScannerFails, ServiceMissed, ServiceFails, ServiceDone
<1>6. QED
  BY <1>1, <1>2, <1>3, <1>4, <1>5, StepCases DEF Adds

\* No entry leaves a row, and one that comes names the run that appends it.
LEMMA EntriesMove ==
    ASSUME ScanInv, [Next]_vars, NEW s \in ScanIds, scans'[s] # NoScan,
           NEW c \in Columns, NEW e
    PROVE  /\ Exists(s) /\ Among(e, Column(scans[s], c)) => Among(e, Column(scans'[s], c))
           /\ Among(e, Column(scans'[s], c)) =>
                \/ Exists(s) /\ Among(e, Column(scans[s], c))
                \/ \E q \in Runs : /\ Adds(q) /\ scan[q] = s /\ NextAppend(q).column = c
                                   /\ e = NextAppend(q).entry /\ e.run = q
<1>0. LifeInv /\ (Exists(s) => Column(scans[s], c) \in Seq(Entry))
  BY ColumnType DEF ScanInv, LifeInv, TypeOK, Exists
<1>1. CASE Exists(s) /\ Column(scans'[s], c) = Column(scans[s], c)
  BY <1>1
<1>2. CASE ~Exists(s) /\ Column(scans'[s], c) = <<>>
  BY <1>2 DEF Among
<1>3. ASSUME NEW q \in Runs, Adds(q), scan[q] = s, Exists(s), NextAppend(q).column = c,
             Column(scans'[s], c) = Append(Column(scans[s], c), NextAppend(q).entry)
      PROVE  /\ Among(e, Column(scans[s], c)) => Among(e, Column(scans'[s], c))
             /\ Among(e, Column(scans'[s], c)) =>
                  \/ Among(e, Column(scans[s], c))
                  \/ e = NextAppend(q).entry /\ e.run = q
  <2>1. Appending(q) /\ NextAppend(q).entry \in Entry /\ NextAppend(q) = queue[q][1]
        /\ 1 \in DOMAIN queue[q]
    BY <1>0, <1>3, AddsEntry, NextAppendType
  <2>2. NextAppend(q).entry.run = q
    BY <2>1 DEF ScanInv, LandAt, Underway, Appending, Writing
  <2>3. Among(e, Append(Column(scans[s], c), NextAppend(q).entry))
          <=> Among(e, Column(scans[s], c)) \/ e = NextAppend(q).entry
    BY <1>0, <1>3, <2>1, AmongAppend
  <2>4. QED
    BY <1>3, <2>2, <2>3
<1>4. QED
  BY <1>1, <1>2, <1>3, ColumnsMove DEF ColumnMoves

\* A run whose queue stays has added nothing.
LEMMA NoAddition ==
    ASSUME ScanInv, NEW r \in Runs, queue'[r] = queue[r] \/ phase[r] # "append" \/ phase'[r] = "over"
    PROVE  ~Adds(r)
<1> SUFFICES ASSUME Adds(r) PROVE FALSE
  OBVIOUS
<1>1. Appending(r) /\ Dequeue(r) /\ TypeOK
  BY AddsEntry DEF ScanInv, LifeInv
<1>2. queue'[r] = Tail(queue[r]) /\ queue[r] # <<>> /\ queue[r] \in Seq(Pending)
  BY <1>1 DEF Dequeue, Appending, TypeOK
<1>3. queue'[r] # queue[r]
  BY <1>2, TailDiffers
<1>4. phase[r] = "append" /\ phase'[r] = "append"
  BY <1>1 DEF Dequeue, Appending
<1>5. QED
  BY <1>3, <1>4

\* What a step that is not r's leaves of r.
Untouched(r) ==
    /\ phase'[r] = phase[r] /\ scan'[r] = scan[r] /\ result'[r] = result[r]
    /\ errs'[r] = errs[r] /\ warns'[r] = warns[r] /\ interrupted'[r] = interrupted[r]
    /\ queue'[r] = queue[r]
    /\ exit'[r] = exit[r] /\ lost'[r] = lost[r]

\* What Finalize is to report depends on the lists of the run alone.
LEMMA SameReports ==
    ASSUME NEW r \in Runs, errs'[r] = errs[r], warns'[r] = warns[r],
           interrupted'[r] = interrupted[r]
    PROVE  /\ Failures(r)' = Failures(r) /\ Clean(r)' = Clean(r)
           /\ KeptWarnings(r)' = KeptWarnings(r)
BY DEF Failures, Clean, KeptWarnings

\* What a run has in its row stays there.
LEMMA RowKeeps ==
    ASSUME ScanInv, [Next]_vars, NEW r \in Runs, scan[r] \in ScanIds, Exists(scan[r]),
           scan'[r] = scan[r]
    PROVE  /\ scans'[scan'[r]] # NoScan
           /\ \A c \in Columns : \A e :
                Among(e, Column(scans[scan[r]], c)) => Among(e, Column(scans'[scan'[r]], c))
<1>1. \A s \in ScanIds : Exists(s) => scans'[s] # NoScan
  BY RowsStay DEF ScanInv, Exists
<1>2. scans'[scan[r]] # NoScan
  BY <1>1
<1>3. \A c \in Columns : \A e :
        Among(e, Column(scans[scan[r]], c)) => Among(e, Column(scans'[scan[r]], c))
  BY <1>2, EntriesMove
<1>4. QED
  BY <1>2, <1>3

\* A warning that names a run that appends nothing was there before.
LEMMA NamedBefore ==
    ASSUME ScanInv, [Next]_vars, NEW r \in Runs, ~Adds(r), NEW s \in ScanIds,
           scans'[s] # NoScan, NEW i \in DOMAIN scans'[s].warnings,
           scans'[s].warnings[i].run = r
    PROVE  /\ Exists(s) /\ Among(scans'[s].warnings[i], scans[s].warnings)
           /\ phase[r] \in Writing \cup {"over"}
           /\ phase[r] \in Writing /\ s = scan[r]
                => Among(scans'[s].warnings[i], KeptWarnings(r))
<1> DEFINE e == scans'[s].warnings[i]
<1>1. Among(e, Column(scans'[s], "warnings")) /\ "warnings" \in Columns
  BY DEF Among, Column, Columns
<1>2. Exists(s) /\ Among(e, Column(scans[s], "warnings"))
  <2>1. \/ Exists(s) /\ Among(e, Column(scans[s], "warnings"))
        \/ \E q \in Runs : Adds(q) /\ e.run = q
    BY <1>1, EntriesMove
  <2>2. QED
    BY <2>1
<1>3. Among(e, scans[s].warnings)
  BY <1>2 DEF Column
<1>4. PICK j \in DOMAIN scans[s].warnings : scans[s].warnings[j] = e
  BY <1>3 DEF Among
<1>5. Attributed(r)
  BY DEF ScanInv, LandAt
<1>6. scans[s].warnings[j].run = r
  BY <1>4
<1>7. QED
  BY <1>2, <1>3, <1>4, <1>5, <1>6 DEF Attributed

\* What a run that is over has recorded stays as it is.
LEMMA LandsStays ==
    ASSUME ScanInv, [Next]_vars, NEW r \in Runs, ~Adds(r), scan'[r] = scan[r],
           scan[r] \in ScanIds, Exists(scan[r]), result'[r] = result[r],
           exit'[r] = exit[r], Lands(r)
    PROVE  Lands(r)'
<1> DEFINE row == scans[scan[r]]
           new == scans'[scan'[r]]
<1>1. /\ new # NoScan
      /\ \A e : Among(e, row.errors) => Among(e, new.errors)
      /\ \A e : Among(e, row.warnings) => Among(e, new.warnings)
  <2>1. new # NoScan /\ \A c \in Columns : \A e : Among(e, Column(row, c)) => Among(e, Column(new, c))
    BY RowKeeps
  <2>2. "errors" \in Columns /\ "warnings" \in Columns
    BY DEF Columns
  <2>3. \A e : Among(e, Column(row, "errors")) => Among(e, Column(new, "errors"))
    BY <2>1, <2>2
  <2>4. \A e : Among(e, Column(row, "warnings")) => Among(e, Column(new, "warnings"))
    BY <2>1, <2>2
  <2>5. QED
    BY <2>1, <2>3, <2>4 DEF Column
<1>2. WithWarning(r)' = WithWarning(r)
  BY DEF WithWarning
<1>3. \A v \in Services : Among(About(r, v), new.warnings) => Among(About(r, v), row.warnings)
  <2>1. SUFFICES ASSUME NEW v \in Services, Among(About(r, v), new.warnings)
                 PROVE  Among(About(r, v), row.warnings)
    OBVIOUS
  <2>2. PICK i \in DOMAIN new.warnings : new.warnings[i] = About(r, v)
    BY <2>1 DEF Among
  <2>3. new.warnings[i].run = r
    BY <2>2 DEF About
  <2>4. \A s \in ScanIds : \A j \in DOMAIN scans'[s].warnings :
          scans'[s] # NoScan /\ scans'[s].warnings[j].run = r
            => Among(scans'[s].warnings[j], scans[s].warnings)
    BY NamedBefore
  <2>5. QED
    BY <1>1, <2>2, <2>3, <2>4
<1>4. Recorded(r)' = Recorded(r)
  <2>1. Recorded(r)' = {v \in WithWarning(r) : Among(About(r, v), new.warnings)}
    BY <1>2 DEF Recorded, About, Among
  <2>2. Recorded(r) = {v \in WithWarning(r) : Among(About(r, v), row.warnings)}
    BY DEF Recorded
  <2>3. WithWarning(r) \subseteq Services
    BY DEF WithWarning
  <2> HIDE DEF row, new
  <2>4. QED
    BY <1>1, <1>3, <2>1, <2>2, <2>3
<1>5. \A v \in Services : result'[r][v] = "failed" =>
         \/ Among(About(r, v), new.errors)
         \/ Among(About(r, ProviderOf[v]), new.errors)
  BY <1>1 DEF Lands
<1>6. exit'[r] = "interrupted" => Among(About(r, Interrupted), new.errors)
  BY <1>1 DEF Lands
<1>7. LET out == Cardinality(WithWarning(r)) - Cardinality(Recorded(r))
      IN out # 0 => /\ Cardinality(Recorded(r)) = WarnCap
                    /\ Among([run |-> r, topic |-> Truncated, dropped |-> out], new.warnings)
  BY <1>1 DEF Lands
<1>8. QED
  BY <1>2, <1>4, <1>5, <1>6, <1>7 DEF Lands, About, Among

\* The steps of the others, and those of the clock, leave r's reports on their way.
LEMMA OthersLeave ==
    ASSUME ScanInv, Unshared, [Next]_vars, NEW r \in Runs, Untouched(r)
    PROVE  /\ Heard(r)' /\ Underway(r)' /\ Attributed(r)' /\ Arrived(r)'
           /\ buf'[r] = buf[r] => Buffered(r)'
<1>0. LandAt(r) /\ LifeInv /\ TypeOK /\ OneAtWork /\ ~Adds(r)
  BY NoAddition DEF ScanInv, LifeInv, Untouched
<1>1. Heard(r)'
  BY <1>0 DEF LandAt, Heard, Untouched, WithWarning, Among, About
<1>2. /\ Failures(r)' = Failures(r) /\ Clean(r)' = Clean(r)
      /\ KeptWarnings(r)' = KeptWarnings(r)
  BY SameReports DEF Untouched
<1>3. Underway(r)'
  <2>1. CASE phase[r] \notin Writing
    BY <1>0, <2>1 DEF LandAt, Underway, Untouched
  <2>2. CASE phase[r] \in Writing
    <3>1. scan[r] \in ScanIds /\ Exists(scan[r])
      BY <1>0, <2>2 DEF LifeInv, HasRow, Working, Writing
    <3>2. \A c \in Columns : \A e :
            Due(r, c, e) => \/ Among(e, Column(scans'[scan'[r]], c))
                            \/ Among([column |-> c, entry |-> e], queue'[r])
      BY <3>1, RowKeeps DEF Due, Untouched
    <3>3. "errors" \in Columns /\ "warnings" \in Columns
      BY DEF Columns
    <3>4. \A j \in DOMAIN queue'[r] :
              /\ queue'[r][j].entry.run = r
              /\ queue'[r][j].column = "warnings" => Among(queue'[r][j].entry, KeptWarnings(r))
      BY <1>0, <2>2 DEF LandAt, Underway, Untouched
    <3>5. lost'[r] = 0 /\ ~Clean(r) => \A i \in DOMAIN Failures(r) :
             \/ Among(Failures(r)[i], Column(scans'[scan'[r]], "errors"))
             \/ Among([column |-> "errors", entry |-> Failures(r)[i]], queue'[r])
      BY <1>0, <2>2, <3>2, <3>3 DEF LandAt, Underway, Untouched
    <3>6. lost'[r] = 0 => \A i \in DOMAIN KeptWarnings(r) :
             \/ Among(KeptWarnings(r)[i], Column(scans'[scan'[r]], "warnings"))
             \/ Among([column |-> "warnings", entry |-> KeptWarnings(r)[i]], queue'[r])
      BY <1>0, <2>2, <3>2, <3>3 DEF LandAt, Underway, Untouched
    <3>7. phase'[r] = phase[r]
      BY DEF Untouched
    <3>8. QED
      BY <1>2, <2>2, <3>4, <3>5, <3>6, <3>7 DEF Underway, Due, Among
  <2>3. QED
    BY <2>1, <2>2
<1>4. Attributed(r)'
  <2>1. SUFFICES ASSUME NEW s \in ScanIds, scans'[s] # NoScan,
                        NEW i \in DOMAIN scans'[s].warnings, scans'[s].warnings[i].run = r
                 PROVE  /\ phase'[r] \in Writing \cup {"over"}
                        /\ phase'[r] \in Writing /\ s = scan'[r]
                             => Among(scans'[s].warnings[i], KeptWarnings(r)')
    BY DEF Attributed, Exists, Among
  <2>2. QED
    BY <1>0, <1>2, <2>1, NamedBefore DEF Untouched
<1>5. ASSUME buf'[r] = buf[r] PROVE Buffered(r)'
  <2>1. SUFFICES ASSUME buf[r] # NoBuf
                 PROVE  /\ ~Postgres /\ phase'[r] = "append" /\ queue'[r] # <<>>
                        /\ buf'[r] = Column(scans'[scan'[r]], Head(queue'[r]).column)
    BY <1>5 DEF Buffered, Untouched, Appending, NextAppend
  <2>2. /\ ~Postgres /\ Appending(r)
        /\ buf[r] = Column(scans[scan[r]], NextAppend(r).column)
    BY <1>0, <2>1 DEF LandAt, Buffered
  <2>3. scan[r] \in ScanIds /\ Exists(scan[r]) /\ NextAppend(r).column \in Columns
    BY <1>0, <2>2, NextAppendType
  <2>4. scans'[scan[r]] # NoScan
    BY <2>3, RowKeeps DEF Untouched
  <2>5. ColumnMoves(scan[r], NextAppend(r).column)
    <3>1. \A s \in ScanIds, c \in Columns : scans'[s] # NoScan => ColumnMoves(s, c)
      BY ColumnsMove
    <3>2. QED
      BY <2>3, <2>4, <3>1
  <2>6. \A q \in Runs : ~(Adds(q) /\ scan[q] = scan[r])
    <3>1. SUFFICES ASSUME NEW q \in Runs, Adds(q), scan[q] = scan[r] PROVE q = r
      BY <1>0
    <3>2. phase[q] = "append" /\ phase[r] = "append"
      BY <2>2, <3>1, AddsEntry DEF Appending
    <3>3. scan[r] # NoId
      BY <2>3, ConstantsAssumption
    <3>4. QED
      BY <1>0, <2>2, <3>1, <3>2, <3>3 DEF OneAtWork, Unshared
  <2>7. Column(scans'[scan[r]], NextAppend(r).column) = Column(scans[scan[r]], NextAppend(r).column)
    BY <2>3, <2>5, <2>6 DEF ColumnMoves
  <2>8. QED
    BY <1>5, <2>2, <2>7 DEF Untouched, Appending, NextAppend
<1>6. Arrived(r)'
  <2>1. SUFFICES ASSUME exit[r] \in Concluded
                 PROVE  /\ scan'[r] \in ScanIds /\ scans'[scan'[r]] # NoScan
                        /\ lost'[r] = 0 => Lands(r)'
    BY DEF Arrived, Untouched, Exists
  <2>2. scan[r] \in ScanIds /\ Exists(scan[r]) /\ (lost[r] = 0 => Lands(r))
    BY <1>0, <2>1 DEF LandAt, Arrived
  <2>3. QED
    BY <1>0, <2>2, RowKeeps, LandsStays DEF Untouched
<1>7. QED
  BY <1>1, <1>3, <1>4, <1>5, <1>6

\* A run's own steps that add nothing: who may be named in a row.
LEMMA AttributedStep ==
    ASSUME ScanInv, [Next]_vars, NEW r \in Runs, ~Adds(r),
           \/ phase[r] \notin Writing \cup {"over"}
           \/ phase'[r] = "over"
           \/ /\ phase[r] \in Writing /\ scan'[r] = scan[r]
              /\ KeptWarnings(r)' = KeptWarnings(r) /\ phase'[r] \in Writing
    PROVE  Attributed(r)'
<1>1. SUFFICES ASSUME NEW s \in ScanIds, scans'[s] # NoScan,
                      NEW i \in DOMAIN scans'[s].warnings, scans'[s].warnings[i].run = r
               PROVE  /\ phase'[r] \in Writing \cup {"over"}
                      /\ phase'[r] \in Writing /\ s = scan'[r]
                           => Among(scans'[s].warnings[i], KeptWarnings(r)')
  BY DEF Attributed, Exists, Among
<1>2. /\ phase[r] \in Writing \cup {"over"}
      /\ phase[r] \in Writing /\ s = scan[r]
           => Among(scans'[s].warnings[i], KeptWarnings(r))
  BY <1>1, NamedBefore
<1>3. QED
  BY <1>2 DEF Writing

\* A step of a run that has not come to write its row yet.
LEMMA QuietStep ==
    ASSUME ScanInv, [Next]_vars, NEW r \in Runs,
           phase[r] \notin Writing \cup {"over"}, phase'[r] \notin Writing,
           queue'[r] = queue[r], buf'[r] = buf[r], exit'[r] = exit[r], Heard(r)'
    PROVE  LandAt(r)'
<1>1. queue[r] = <<>> /\ buf[r] = NoBuf
  BY DEF ScanInv, LandAt, Underway, Buffered, Appending, Writing
<1>2. exit[r] = "none"
  BY DEF ScanInv, LifeInv, Ended
<1>3. Underway(r)' /\ Buffered(r)' /\ Arrived(r)'
  BY <1>1, <1>2 DEF Underway, Buffered, Arrived, Concluded
<1>4. Attributed(r)'
  BY AttributedStep, NoAddition
<1>5. QED
  BY <1>3, <1>4 DEF LandAt

\* The end of a run that concludes nothing.
LEMMA EndStep ==
    ASSUME ScanInv, Unshared, [Next]_vars, NEW R \in SUBSET Runs, NEW how, End(R, how),
           how \notin Concluded, UNCHANGED <<scan, result, lost>>
    PROVE  \A r \in Runs : LandAt(r)'
<1>1. ASSUME NEW r \in R PROVE LandAt(r)'
  <2>1. phase'[r] = "over" /\ exit'[r] = how /\ queue'[r] = <<>> /\ buf'[r] = NoBuf
    BY DEF End
  <2>2. Heard(r)' /\ Underway(r)' /\ Buffered(r)' /\ Arrived(r)'
    BY <2>1 DEF Heard, Settled, Underway, Writing, Buffered, Arrived
  <2>3. Attributed(r)'
    BY <2>1, AttributedStep, NoAddition
  <2>4. QED
    BY <2>2, <2>3 DEF LandAt
<1>2. ASSUME NEW r \in Runs \ R PROVE LandAt(r)'
  <2>1. Untouched(r) /\ buf'[r] = buf[r]
    BY DEF End, Untouched
  <2>2. QED
    BY <2>1, OthersLeave DEF LandAt
<1>3. QED
  BY <1>1, <1>2

\* What a run heard stays true while its services and lists do.
LEMMA HeardFrame ==
    ASSUME NEW r \in Runs, Heard(r), result'[r] = result[r], errs'[r] = errs[r],
           warns'[r] = warns[r],
           \/ phase'[r] \in {"new", "gated", "started"} /\ phase[r] \in {"new", "gated", "started"}
           \/ phase'[r] \in Settled \cup {"running"} /\ phase[r] \in Settled \cup {"running"}
    PROVE  Heard(r)'
BY DEF Heard, WithWarning, Among, About, Settled

\* Until its services run, and while they do, a run collects its reports: each warning
\* of its own once, each failure at least once (RunScanners, ReportReaches).
LEMMA Collecting ==
    ASSUME ScanInv, Unshared, [Next]_vars, NEW r \in Runs
    PROVE  /\ Launch(r) => \A q \in Runs : LandAt(q)'
           /\ \A v \in Services, what \in {"done", "warned"}, how \in Listings :
                ServiceDone(r, v, what, how) => \A q \in Runs : LandAt(q)'
           /\ \A v \in Services, how \in Listings :
                ServiceFails(r, v, how) => \A q \in Runs : LandAt(q)'
           /\ \A v \in Services : ServiceMissed(r, v) => \A q \in Runs : LandAt(q)'
           /\ \A p \in Providers : ScannerFails(r, p) => \A q \in Runs : LandAt(q)'
<1>0. LifeInv /\ TypeOK /\ OneSink /\ Heard(r)
  BY DEF ScanInv, LifeInv, LandAt
<1> USE <1>0
<1>1. ASSUME \A q \in Runs \ {r} : Untouched(q) /\ buf'[q] = buf[q], LandAt(r)'
      PROVE  \A q \in Runs : LandAt(q)'
  BY <1>1, OthersLeave DEF LandAt
<1>2. ASSUME Launch(r) PROVE \A q \in Runs : LandAt(q)'
  <2>1. /\ phase[r] = "started" /\ phase'[r] = "running"
        /\ UNCHANGED <<scan, errs, warns, interrupted, queue, buf, exit, lost>>
        /\ \A q \in Runs \ {r} : phase'[q] = phase[q] /\ result'[q] = result[q]
        /\ \A v \in Services : result'[r][v] \in {"todo", "out"}
    BY <1>2 DEF Launch, Goto, TypeOK
  <2>2. errs'[r] = <<>> /\ warns'[r] = <<>>
    BY <2>1 DEF Heard
  <2>3. WithWarning(r)' = {}
    BY <2>1 DEF WithWarning
  <2>4. Heard(r)'
    BY <2>1, <2>2, <2>3 DEF Heard, Settled
  <2>5. LandAt(r)'
    BY <2>1, <2>4, QuietStep DEF Writing
  <2>6. \A q \in Runs \ {r} : Untouched(q) /\ buf'[q] = buf[q]
    BY <2>1 DEF Untouched
  <2>7. QED
    BY <1>1, <2>5, <2>6
<1>3. ASSUME NEW v \in Services, NEW what \in {"done", "warned"}, NEW how \in Listings,
             ServiceDone(r, v, what, how)
      PROVE  \A q \in Runs : LandAt(q)'
  <2>1. /\ phase[r] = "running" /\ result[r][v] = "todo"
        /\ UNCHANGED <<phase, scan, errs, interrupted, queue, buf, exit, lost>>
        /\ result' = [result EXCEPT ![r][v] = what]
        /\ warns' = IF what = "warned" THEN Collected(r, warns, About(r, v)) ELSE warns
    BY <1>3 DEF ServiceDone, Todo, Becomes
  <2>2. About(r, v) \in Entry /\ warns \in [Runs -> Seq(Entry)]
    BY AboutType DEF TypeOK
  <2>3. \A q \in Runs : warns'[q] = IF q = r /\ what = "warned"
                                     THEN Append(warns[r], About(r, v)) ELSE warns[q]
    <3>1. \A q \in Runs : Collected(r, warns, About(r, v))[q]
                             = IF q = r THEN Append(warns[r], About(r, v)) ELSE warns[q]
      BY <2>1, <2>2, ReportReaches
    <3>2. CASE what = "warned"
      BY <2>1, <3>1, <3>2
    <3>3. CASE what # "warned"
      BY <2>1, <3>3
    <3>4. QED
      BY <3>2, <3>3
  <2>4. /\ \A q \in Runs \ {r} : result'[q] = result[q]
        /\ \A x \in Services : result'[r][x] = IF x = v THEN what ELSE result[r][x]
    BY <2>1 DEF TypeOK
  <2>5. Heard(r)'
    <3>1. WithWarning(r)' = IF what = "warned" THEN WithWarning(r) \cup {v} ELSE WithWarning(r)
      BY <2>1, <2>4 DEF WithWarning
    <3>2. v \notin WithWarning(r)
      BY <2>1 DEF WithWarning
    <3>3. CASE what = "done"
      BY <2>1, <2>3, <2>4, <3>1, <3>3 DEF Heard, Among, About, Settled
    <3>4. CASE what = "warned"
      <4>1. warns'[r] = Append(warns[r], About(r, v)) /\ warns[r] \in Seq(Entry)
        BY <2>2, <2>3, <3>4
      <4>2. /\ Len(warns[r]) \in Nat /\ DOMAIN warns[r] = 1..Len(warns[r])
            /\ DOMAIN warns'[r] = 1..Len(warns[r]) + 1
            /\ \A i \in 1..Len(warns[r]) : warns'[r][i] = warns[r][i]
            /\ warns'[r][Len(warns[r]) + 1] = About(r, v)
        BY <2>2, <4>1
      <4>3. /\ \A x \in WithWarning(r) : Among(About(r, x), warns[r])
            /\ \A i \in DOMAIN warns[r] : \E x \in WithWarning(r) : warns[r][i] = About(r, x)
            /\ \A i, j \in DOMAIN warns[r] : warns[r][i] = warns[r][j] => i = j
        BY <2>1 DEF Heard
      <4>4. \A i \in DOMAIN warns[r] : warns[r][i] # About(r, v)
        <5>1. \A x : About(r, x).topic = x
          BY DEF About
        <5>2. QED
          BY <3>2, <4>3, <5>1
      <4>5. \A x \in WithWarning(r)' : Among(About(r, x), warns'[r])
        <5>1. \A e : Among(e, warns'[r]) <=> Among(e, warns[r]) \/ e = About(r, v)
          BY <2>2, <4>1, AmongAppend
        <5>2. QED
          BY <3>1, <3>4, <4>3, <5>1
      <4>6. \A i \in DOMAIN warns'[r] : \E x \in WithWarning(r)' : warns'[r][i] = About(r, x)
        <5>1. SUFFICES ASSUME NEW i \in DOMAIN warns'[r]
                       PROVE  \E x \in WithWarning(r)' : warns'[r][i] = About(r, x)
          OBVIOUS
        <5>2. CASE i = Len(warns[r]) + 1
          BY <3>1, <3>4, <4>2, <5>2
        <5>3. CASE i # Len(warns[r]) + 1
          <6>1. i \in DOMAIN warns[r] /\ warns'[r][i] = warns[r][i]
            BY <4>2, <5>3
          <6>2. QED
            BY <3>1, <3>4, <4>3, <6>1
        <5>4. QED
          BY <5>2, <5>3
      <4>7. \A i, j \in DOMAIN warns'[r] : warns'[r][i] = warns'[r][j] => i = j
        BY <4>2, <4>3, <4>4
      <4>8. /\ \A x \in Services : result'[r][x] = "failed" => result[r][x] = "failed"
            /\ errs'[r] = errs[r] /\ phase'[r] = "running"
        BY <2>1, <2>4, <3>4
      <4>9. QED
        BY <2>1, <4>5, <4>6, <4>7, <4>8 DEF Heard, Among, About, Settled
    <3>5. QED
      BY <3>3, <3>4
  <2>6. LandAt(r)'
    BY <2>1, <2>5, QuietStep DEF Writing
  <2>7. \A q \in Runs \ {r} : Untouched(q) /\ buf'[q] = buf[q]
    BY <2>1, <2>3, <2>4 DEF Untouched
  <2>8. QED
    BY <1>1, <2>6, <2>7
<1>4. ASSUME NEW E \in Entry, E.run = r, phase[r] = "running",
             errs' = [q \in Runs |-> IF q = r THEN Append(errs[r], E) ELSE errs[q]],
             warns' = warns,
             \A q \in Runs \ {r} : result'[q] = result[q],
             WithWarning(r)' = WithWarning(r),
             \A v \in Services : result'[r][v] = "failed" =>
               result[r][v] = "failed" \/ E = About(r, v) \/ E = About(r, ProviderOf[v]),
             UNCHANGED <<phase, scan, interrupted, queue, buf, exit, lost>>
      PROVE  \A q \in Runs : LandAt(q)'
  <2>1. /\ errs'[r] = Append(errs[r], E) /\ \A q \in Runs \ {r} : errs'[q] = errs[q]
        /\ errs[r] \in Seq(Entry)
    BY <1>4 DEF TypeOK
  <2>2. \A e : Among(e, errs'[r]) <=> Among(e, errs[r]) \/ e = E
    BY <1>4, <2>1, AmongAppend
  <2>3. \A i \in DOMAIN errs'[r] : errs'[r][i].run = r
    <3>1. SUFFICES ASSUME NEW i \in DOMAIN errs'[r] PROVE errs'[r][i].run = r
      OBVIOUS
    <3>2. Among(errs'[r][i], errs'[r])
      BY DEF Among
    <3>3. Among(errs'[r][i], errs[r]) \/ errs'[r][i] = E
      BY <2>2, <3>2
    <3>4. QED
      BY <1>4, <3>3 DEF Heard, Among
  <2>4. \A v \in Services : result'[r][v] = "failed" =>
          Among(About(r, v), errs'[r]) \/ Among(About(r, ProviderOf[v]), errs'[r])
    <3>1. \A v \in Services : result[r][v] = "failed" =>
            Among(About(r, v), errs[r]) \/ Among(About(r, ProviderOf[v]), errs[r])
      BY <1>4 DEF Heard
    <3>2. QED
      BY <1>4, <2>2, <3>1
  <2>5. Heard(r)'
    <3>1. /\ \A v \in WithWarning(r)' : Among(About(r, v), warns'[r])
          /\ \A i \in DOMAIN warns'[r] :
               \E v \in WithWarning(r)' : warns'[r][i] = About(r, v)
          /\ \A i, j \in DOMAIN warns'[r] : warns'[r][i] = warns'[r][j] => i = j
      BY <1>4 DEF Heard
    <3>2. phase'[r] = "running"
      BY <1>4
    <3>3. QED
      BY <2>3, <2>4, <3>1, <3>2 DEF Heard, Among, About
  <2>6. LandAt(r)'
    BY <1>4, <2>5, QuietStep DEF Writing
  <2>7. \A q \in Runs \ {r} : Untouched(q) /\ buf'[q] = buf[q]
    BY <1>4, <2>1 DEF Untouched
  <2>8. QED
    BY <1>1, <2>6, <2>7
<1>5. ASSUME NEW v \in Services, NEW how \in Listings, ServiceFails(r, v, how)
      PROVE  \A q \in Runs : LandAt(q)'
  <2>1. /\ phase[r] = "running" /\ result[r][v] = "todo"
        /\ UNCHANGED <<phase, scan, warns, interrupted, queue, buf, exit, lost>>
        /\ result' = [result EXCEPT ![r][v] = "failed"]
        /\ errs' = Collected(r, errs, About(r, v))
    BY <1>5 DEF ServiceFails, Todo, Becomes
  <2>2. About(r, v) \in Entry /\ errs \in [Runs -> Seq(Entry)] /\ About(r, v).run = r
    BY AboutType DEF TypeOK, About
  <2>3. errs' = [q \in Runs |-> IF q = r THEN Append(errs[r], About(r, v)) ELSE errs[q]]
    <3>1. \A q \in Runs : Collected(r, errs, About(r, v))[q]
            = IF q = r THEN Append(errs[r], About(r, v)) ELSE errs[q]
      BY <2>1, <2>2, ReportReaches
    <3>2. QED
      BY <2>1, <3>1 DEF Collected
  <2>4. /\ \A q \in Runs \ {r} : result'[q] = result[q]
        /\ \A x \in Services : result'[r][x] = IF x = v THEN "failed" ELSE result[r][x]
    BY <2>1 DEF TypeOK
  <2>5. WithWarning(r)' = WithWarning(r)
    BY <2>1, <2>4 DEF WithWarning
  <2>6. \A x \in Services : result'[r][x] = "failed" =>
          result[r][x] = "failed" \/ About(r, v) = About(r, x)
    BY <2>4
  <2>7. QED
    BY <1>4, <2>1, <2>2, <2>3, <2>4, <2>5, <2>6
<1>6. ASSUME NEW p \in Providers, ScannerFails(r, p)
      PROVE  \A q \in Runs : LandAt(q)'
  <2>1. /\ phase[r] = "running"
        /\ UNCHANGED <<phase, scan, warns, interrupted, queue, buf, exit, lost>>
        /\ errs' = [errs EXCEPT ![r] = Append(@, About(r, p))]
        /\ \A v \in Services : ProviderOf[v] = p => result[r][v] = "todo"
    BY <1>6 DEF ScannerFails
  <2>2. About(r, p) \in Entry /\ errs \in [Runs -> Seq(Entry)] /\ About(r, p).run = r
    BY AboutType DEF TypeOK, About
  <2>3. errs' = [q \in Runs |-> IF q = r THEN Append(errs[r], About(r, p)) ELSE errs[q]]
    BY <2>1, <2>2
  <2>4. /\ \A q \in Runs \ {r} : result'[q] = result[q]
        /\ \A x \in Services :
             result'[r][x] = IF ProviderOf[x] = p THEN "failed" ELSE result[r][x]
    BY <1>6 DEF ScannerFails, TypeOK
  <2>5. WithWarning(r)' = WithWarning(r)
    BY <2>1, <2>4 DEF WithWarning
  <2>6. \A v \in Services : result'[r][v] = "failed" =>
          result[r][v] = "failed" \/ About(r, p) = About(r, ProviderOf[v])
    BY <2>4
  <2>7. QED
    BY <1>4, <2>1, <2>2, <2>3, <2>4, <2>5, <2>6
<1>7. ASSUME NEW v \in Services, ServiceMissed(r, v)
      PROVE  \A q \in Runs : LandAt(q)'
  <2>1. /\ phase[r] = "running" /\ result[r][v] = "todo"
        /\ UNCHANGED <<phase, scan, errs, warns, interrupted, queue, buf, exit, lost>>
        /\ result' = [result EXCEPT ![r][v] = "missed"]
    BY <1>7 DEF ServiceMissed, Todo, Becomes, rowVars
  <2>2. /\ \A q \in Runs \ {r} : result'[q] = result[q]
        /\ \A x \in Services : result'[r][x] = IF x = v THEN "missed" ELSE result[r][x]
    BY <2>1 DEF TypeOK
  <2>3. WithWarning(r)' = WithWarning(r)
    BY <2>1, <2>2 DEF WithWarning
  <2>4. Heard(r)'
    BY <2>1, <2>2, <2>3 DEF Heard, Among, About, Settled
  <2>5. LandAt(r)'
    BY <2>1, <2>4, QuietStep DEF Writing
  <2>6. \A q \in Runs \ {r} : Untouched(q) /\ buf'[q] = buf[q]
    BY <2>1, <2>2 DEF Untouched
  <2>7. QED
    BY <1>1, <2>5, <2>6
<1>8. QED
  BY <1>2, <1>3, <1>5, <1>6, <1>7

-----------------------------------------------------------------------------
(* Finalize. *)

\* The entries of two lists, one after the other.
LEMMA AmongConcat ==
    ASSUME NEW T, NEW l \in Seq(T), NEW m \in Seq(T), NEW e
    PROVE  Among(e, l \o m) <=> Among(e, l) \/ Among(e, m)
<1>1. /\ Len(l) \in Nat /\ Len(m) \in Nat
      /\ DOMAIN l = 1..Len(l) /\ DOMAIN m = 1..Len(m)
      /\ DOMAIN (l \o m) = 1..Len(l) + Len(m)
      /\ \A i \in 1..Len(l) : (l \o m)[i] = l[i]
      /\ \A i \in 1..Len(m) : (l \o m)[Len(l) + i] = m[i]
  OBVIOUS
<1>2. ASSUME NEW i \in 1..Len(l) + Len(m), (l \o m)[i] = e
      PROVE  Among(e, l) \/ Among(e, m)
  <2>1. CASE i <= Len(l)
    BY <1>1, <1>2, <2>1 DEF Among
  <2>2. CASE ~(i <= Len(l))
    <3>1. i - Len(l) \in 1..Len(m) /\ Len(l) + (i - Len(l)) = i
      BY <1>1, <2>2
    <3>2. m[i - Len(l)] = e
      BY <1>1, <1>2, <3>1
    <3>3. QED
      BY <1>1, <3>1, <3>2 DEF Among
  <2>3. QED
    BY <2>1, <2>2
<1>3. ASSUME NEW i \in 1..Len(l), l[i] = e PROVE Among(e, l \o m)
  <2>1. i \in 1..Len(l) + Len(m) /\ (l \o m)[i] = e
    BY <1>1, <1>3
  <2>2. QED
    BY <1>1, <2>1 DEF Among
<1>4. ASSUME NEW i \in 1..Len(m), m[i] = e PROVE Among(e, l \o m)
  <2>1. Len(l) + i \in 1..Len(l) + Len(m) /\ (l \o m)[Len(l) + i] = e
    BY <1>1, <1>4
  <2>2. QED
    BY <1>1, <2>1 DEF Among
<1>5. QED
  BY <1>1, <1>2, <1>3, <1>4 DEF Among

\* The entry that says how many warnings of r are left out.
Cut(r) == [run |-> r, topic |-> Truncated, dropped |-> Len(warns[r]) - WarnCap]

\* What Finalize reports: of failures all, of warnings the first ones.
LEMMA ReportsOf ==
    ASSUME TypeOK, NEW r \in Runs
    PROVE  /\ \A e : Among(e, Failures(r)) <=>
                (interrupted[r] /\ e = About(r, Interrupted)) \/ Among(e, errs[r])
           /\ KeptWarnings(r) \in Seq(Entry)
           /\ Len(warns[r]) > WarnCap =>
                \A e : Among(e, KeptWarnings(r)) <=>
                  e = Cut(r) \/ \E i \in 1..WarnCap : warns[r][i] = e
           /\ ~(Len(warns[r]) > WarnCap) => KeptWarnings(r) = warns[r]
<1>1. /\ errs[r] \in Seq(Entry) /\ warns[r] \in Seq(Entry) /\ Len(warns[r]) \in Nat
      /\ WarnCap \in Nat
  BY ConstantsAssumption DEF TypeOK
<1>2. \A e : Among(e, Failures(r)) <=>
        (interrupted[r] /\ e = About(r, Interrupted)) \/ Among(e, errs[r])
  <2>1. CASE interrupted[r]
    <3>1. <<About(r, Interrupted)>> \in Seq(Entry)
      BY AboutType
    <3>2. \A e : Among(e, <<About(r, Interrupted)>>) <=> e = About(r, Interrupted)
      BY DEF Among
    <3>3. Failures(r) = <<About(r, Interrupted)>> \o errs[r]
      BY <2>1 DEF Failures
    <3>4. \A e : Among(e, <<About(r, Interrupted)>> \o errs[r])
                <=> Among(e, <<About(r, Interrupted)>>) \/ Among(e, errs[r])
      BY <1>1, <3>1, AmongConcat
    <3>5. QED
      BY <2>1, <3>2, <3>3, <3>4
  <2>2. CASE ~interrupted[r]
    <3>1. <<>> \in Seq(Entry) /\ \A e : ~Among(e, <<>>)
      BY DEF Among
    <3>2. Failures(r) = <<>> \o errs[r]
      BY <2>2 DEF Failures
    <3>3. QED
      BY <1>1, <2>2, <3>1, <3>2, AmongConcat
  <2>3. QED
    BY <2>1, <2>2
<1>3. ASSUME Len(warns[r]) > WarnCap
      PROVE  /\ KeptWarnings(r) \in Seq(Entry)
             /\ \A e : Among(e, KeptWarnings(r)) <=>
                  e = Cut(r) \/ \E i \in 1..WarnCap : warns[r][i] = e
  <2> DEFINE kept == SubSeq(warns[r], 1, WarnCap)
  <2>1. /\ kept \in Seq(Entry) /\ DOMAIN kept = 1..WarnCap
        /\ \A i \in 1..WarnCap : kept[i] = warns[r][i]
    BY <1>1, <1>3
  <2>2. Cut(r) \in Entry
    BY <1>1, <1>3 DEF Cut, Entry
  <2>3. <<Cut(r)>> \in Seq(Entry) /\ \A e : Among(e, <<Cut(r)>>) <=> e = Cut(r)
    BY <2>2 DEF Among
  <2>4. KeptWarnings(r) = kept \o <<Cut(r)>>
    BY <1>3 DEF KeptWarnings, Cut
  <2>5. \A e : Among(e, kept) <=> \E i \in 1..WarnCap : warns[r][i] = e
    BY <2>1 DEF Among
  <2> HIDE DEF kept
  <2>6. KeptWarnings(r) \in Seq(Entry)
    BY <2>1, <2>3, <2>4
  <2>7. \A e : Among(e, kept \o <<Cut(r)>>) <=> Among(e, kept) \/ Among(e, <<Cut(r)>>)
    BY <2>1, <2>3, AmongConcat
  <2>8. QED
    BY <2>3, <2>4, <2>5, <2>6, <2>7
<1>4. ASSUME ~(Len(warns[r]) > WarnCap) PROVE KeptWarnings(r) = warns[r]
  BY <1>4 DEF KeptWarnings
<1>5. KeptWarnings(r) \in Seq(Entry)
  BY <1>1, <1>3, <1>4
<1>6. QED
  BY <1>2, <1>3, <1>4, <1>5

\* The appends of one list, all to one column.
Tagged(c, l) == [i \in 1..Len(l) |-> [column |-> c, entry |-> l[i]]]
LEMMA TaggedOf ==
    ASSUME NEW l \in Seq(Entry), NEW c \in Columns
    PROVE  /\ Tagged(c, l) \in Seq(Pending)
           /\ \A e : Among(e, l) => Among([column |-> c, entry |-> e], Tagged(c, l))
           /\ \A p : Among(p, Tagged(c, l)) => p.column = c /\ Among(p.entry, l)
<1> DEFINE q == Tagged(c, l)
<1>1. Len(l) \in Nat /\ DOMAIN l = 1..Len(l) /\ \A i \in 1..Len(l) : l[i] \in Entry
  OBVIOUS
<1>2. \A i \in 1..Len(l) : [column |-> c, entry |-> l[i]] \in Pending
  BY <1>1 DEF Pending
<1>3. q \in Seq(Pending)
  BY <1>1, <1>2 DEF Tagged
<1>4. DOMAIN q = 1..Len(l) /\ \A i \in 1..Len(l) : q[i] = [column |-> c, entry |-> l[i]]
  BY DEF Tagged
<1> HIDE DEF q
<1>5. \A e : Among(e, l) => Among([column |-> c, entry |-> e], q)
  BY <1>1, <1>4 DEF Among
<1>6. \A p : Among(p, q) => p.column = c /\ Among(p.entry, l)
  BY <1>1, <1>4 DEF Among
<1>7. QED
  BY <1>3, <1>5, <1>6 DEF q

\* The queue of Finalize holds exactly what it has to report.
LEMMA QueueOf ==
    ASSUME TypeOK, NEW r \in Runs
    PROVE  /\ \A e : ~Clean(r) /\ Among(e, Failures(r))
                       => Among([column |-> "errors", entry |-> e], Appends(r))
           /\ \A e : Among(e, KeptWarnings(r))
                       => Among([column |-> "warnings", entry |-> e], Appends(r))
           /\ \A p : Among(p, Appends(r)) =>
                \/ p.column = "errors" /\ Among(p.entry, Failures(r))
                \/ p.column = "warnings" /\ Among(p.entry, KeptWarnings(r))
<1> DEFINE es == IF Clean(r) THEN <<>> ELSE Failures(r)
           ws == KeptWarnings(r)
           qe == Tagged("errors", es)
           qw == Tagged("warnings", ws)
<1>1. es \in Seq(Entry) /\ ws \in Seq(Entry)
  BY FailuresType, ReportsOf
<1>3. "errors" \in Columns /\ "warnings" \in Columns
  BY DEF Columns
<1>4. Appends(r) = qe \o qw
  BY DEF Appends, Tagged
<1>5. /\ qe \in Seq(Pending)
      /\ \A e : Among(e, es) => Among([column |-> "errors", entry |-> e], qe)
      /\ \A p : Among(p, qe) => p.column = "errors" /\ Among(p.entry, es)
  <2> HIDE DEF es
  <2>1. QED
    BY <1>1, <1>3, TaggedOf
<1>6. /\ qw \in Seq(Pending)
      /\ \A e : Among(e, ws) => Among([column |-> "warnings", entry |-> e], qw)
      /\ \A p : Among(p, qw) => p.column = "warnings" /\ Among(p.entry, ws)
  <2> HIDE DEF ws
  <2>1. QED
    BY <1>1, <1>3, TaggedOf
<1>7. \A e : Among(e, es) <=> ~Clean(r) /\ Among(e, Failures(r))
  BY DEF Among
<1> HIDE DEF es, qe, qw
<1>8. \A p : Among(p, Appends(r)) <=> Among(p, qe) \/ Among(p, qw)
  BY <1>4, <1>5, <1>6, AmongConcat
<1>9. QED
  BY <1>5, <1>6, <1>7, <1>8

\* Every report names its run.
LEMMA ReportsName ==
    ASSUME TypeOK, NEW r \in Runs, Heard(r), phase[r] \in Settled, NEW e,
           Among(e, Failures(r)) \/ Among(e, KeptWarnings(r))
    PROVE  e.run = r
<1>1. \A x : Among(x, errs[r]) => x.run = r
  BY DEF Heard, Among
<1>2. \A x : Among(x, warns[r]) => x.run = r
  <2>1. SUFFICES ASSUME NEW i \in DOMAIN warns[r] PROVE warns[r][i].run = r
    BY DEF Among
  <2>2. PICK v \in WithWarning(r) : warns[r][i] = About(r, v)
    BY DEF Heard
  <2>3. About(r, v).run = r
    BY DEF About
  <2>4. QED
    BY <2>2, <2>3
<1>3. About(r, Interrupted).run = r /\ Cut(r).run = r
  BY DEF About, Cut
<1>4. CASE Among(e, Failures(r))
  BY <1>1, <1>3, <1>4, ReportsOf
<1>5. CASE Among(e, KeptWarnings(r)) /\ ~(Len(warns[r]) > WarnCap)
  BY <1>2, <1>5, ReportsOf
<1>6. CASE Among(e, KeptWarnings(r)) /\ Len(warns[r]) > WarnCap
  <2>1. e = Cut(r) \/ \E i \in 1..WarnCap : warns[r][i] = e
    BY <1>6, ReportsOf
  <2>2. ASSUME NEW i \in 1..WarnCap, warns[r][i] = e PROVE Among(e, warns[r])
    <3>1. i \in DOMAIN warns[r]
      <4>1. Len(warns[r]) \in Nat /\ DOMAIN warns[r] = 1..Len(warns[r]) /\ WarnCap \in Nat
        BY ConstantsAssumption DEF TypeOK
      <4>2. QED
        BY <1>6, <4>1
    <3>2. QED
      BY <2>2, <3>1 DEF Among
  <2>3. QED
    BY <1>2, <1>3, <2>1, <2>2
<1>7. QED
  BY <1>4, <1>5, <1>6

\* Marking the row puts all that is to report into the queue (CompleteScan,
\* PartialScan, persistWarnings).
LEMMA MarkLands ==
    ASSUME ScanInv, Unshared, [Next]_vars, NEW r \in Runs, Mark(r)
    PROVE  \A q \in Runs : LandAt(q)'
<1>0. TypeOK /\ LandAt(r)
  BY DEF ScanInv, LifeInv
<1>1. /\ phase[r] = "mark" /\ phase'[r] = "count" /\ queue'[r] = Appends(r)
      /\ UNCHANGED <<scan, result, errs, warns, interrupted, buf, exit, lost>>
      /\ \A q \in Runs \ {r} : phase'[q] = phase[q] /\ queue'[q] = queue[q]
  BY <1>0 DEF Mark, Goto, TypeOK
<1>2. \A q \in Runs \ {r} : LandAt(q)'
  BY <1>1, OthersLeave DEF Untouched, LandAt
<1>3. Heard(r)
  BY <1>0 DEF LandAt
<1>4. Heard(r)'
  BY <1>1, <1>3, HeardFrame DEF Settled
<1>5. /\ Failures(r)' = Failures(r) /\ Clean(r)' = Clean(r)
      /\ KeptWarnings(r)' = KeptWarnings(r)
  BY <1>1, SameReports
<1>6. Underway(r)'
  <2>1. ASSUME NEW j \in DOMAIN queue'[r]
        PROVE  /\ queue'[r][j].entry.run = r
               /\ queue'[r][j].column = "warnings" => Among(queue'[r][j].entry, KeptWarnings(r))
    <3>1. Among(queue'[r][j], Appends(r))
      BY <1>1 DEF Among
    <3>2. \/ queue'[r][j].column = "errors" /\ Among(queue'[r][j].entry, Failures(r))
          \/ queue'[r][j].column = "warnings" /\ Among(queue'[r][j].entry, KeptWarnings(r))
      BY <1>0, <3>1, QueueOf
    <3>3. QED
      BY <1>0, <1>1, <1>3, <3>2, ReportsName DEF Settled
  <2>2. ~Clean(r) => \A i \in DOMAIN Failures(r) :
          Among([column |-> "errors", entry |-> Failures(r)[i]], queue'[r])
    <3>1. \A i \in DOMAIN Failures(r) : Among(Failures(r)[i], Failures(r))
      BY DEF Among
    <3>2. QED
      BY <1>0, <1>1, <3>1, QueueOf
  <2>3. \A i \in DOMAIN KeptWarnings(r) :
          Among([column |-> "warnings", entry |-> KeptWarnings(r)[i]], queue'[r])
    <3>1. \A i \in DOMAIN KeptWarnings(r) : Among(KeptWarnings(r)[i], KeptWarnings(r))
      BY DEF Among
    <3>2. QED
      BY <1>0, <1>1, <3>1, QueueOf
  <2>4. QED
    BY <1>1, <1>5, <2>1, <2>2, <2>3 DEF Underway, Due, Among, Writing
<1>7. Attributed(r)'
  BY <1>1, AttributedStep, NoAddition DEF Writing
<1>8. Buffered(r)' /\ Arrived(r)'
  BY <1>0, <1>1 DEF ScanInv, LifeInv, LandAt, Buffered, Appending, Arrived, Ended, Concluded
<1>9. QED
  BY <1>2, <1>4, <1>6, <1>7, <1>8 DEF LandAt

\* Reading the count, and reading an array, change nothing of that.
LEMMA ReadsLand ==
    ASSUME ScanInv, Unshared, [Next]_vars, NEW r \in Runs
    PROVE  /\ ReadCount(r) => \A q \in Runs : LandAt(q)'
           /\ AppendRead(r) => \A q \in Runs : LandAt(q)'
<1>0. TypeOK /\ LandAt(r) /\ LifeInv
  BY DEF ScanInv, LifeInv
<1>1. ASSUME ReadCount(r) PROVE \A q \in Runs : LandAt(q)'
  <2>1. /\ phase[r] = "count" /\ phase'[r] = "append"
        /\ UNCHANGED <<scans, scan, result, errs, warns, interrupted, queue, buf, exit, lost>>
        /\ \A q \in Runs \ {r} : phase'[q] = phase[q]
    BY <1>0, <1>1 DEF ReadCount, Goto, TypeOK, rowVars
  <2>2. \A q \in Runs \ {r} : LandAt(q)'
    BY <2>1, OthersLeave DEF Untouched, LandAt
  <2>3. Heard(r)'
    BY <1>0, <2>1, HeardFrame DEF Settled, LandAt
  <2>4. /\ Failures(r)' = Failures(r) /\ Clean(r)' = Clean(r)
        /\ KeptWarnings(r)' = KeptWarnings(r)
    BY <2>1, SameReports
  <2>5. Underway(r)'
    BY <1>0, <2>1, <2>4 DEF LandAt, Underway, Due, Among, Writing
  <2>6. Attributed(r)'
    BY <2>1, <2>4, AttributedStep, NoAddition DEF Writing
  <2>7. Buffered(r)' /\ Arrived(r)'
    BY <1>0, <2>1 DEF LifeInv, LandAt, Buffered, Appending, Arrived, Ended, Concluded
  <2>8. QED
    BY <2>2, <2>3, <2>5, <2>6, <2>7 DEF LandAt
<1>2. ASSUME AppendRead(r) PROVE \A q \in Runs : LandAt(q)'
  <2>1. /\ UNCHANGED <<scans, phase, scan, result, errs, warns, interrupted, queue, exit, lost>>
        /\ buf' = [buf EXCEPT ![r] = Column(scans[scan[r]], NextAppend(r).column)]
        /\ ~Postgres /\ Appending(r)
    BY <1>2 DEF AppendRead, rowVars
  <2>2. \A q \in Runs : Untouched(q)
    BY <2>1 DEF Untouched
  <2>3. \A q \in Runs \ {r} : buf'[q] = buf[q]
    BY <1>0, <2>1 DEF TypeOK
  <2>4. Buffered(r)'
    BY <1>0, <2>1 DEF Buffered, Appending, NextAppend, TypeOK
  <2>5. QED
    BY <2>2, <2>3, <2>4, OthersLeave DEF LandAt
<1>3. QED
  BY <1>1, <1>2

\* An append that goes through takes an entry from the queue into the row.
LEMMA AddLands ==
    ASSUME ScanInv, Unshared, [Next]_vars, NEW r \in Runs, Adds(r)
    PROVE  \A q \in Runs : LandAt(q)'
<1> DEFINE p == NextAppend(r)
<1>0. TypeOK /\ LandAt(r) /\ LifeInv
  BY DEF ScanInv, LifeInv
<1>1. /\ Appending(r) /\ Dequeue(r) /\ lost' = lost
      /\ scan[r] \in ScanIds /\ Exists(scan[r]) /\ scans[scan[r]] \in Row
      /\ queue[r] \in Seq(Pending) /\ queue[r] # <<>> /\ 1 \in DOMAIN queue[r]
      /\ p = queue[r][1] /\ p \in Pending /\ p.column \in Columns /\ p.entry \in Entry
      /\ scans' = [scans EXCEPT ![scan[r]] =
           WithEntry(@, p.column, Column(@, p.column), p.entry)]
  BY <1>0, AddsEntry, NextAppendType
<1>2. /\ UNCHANGED <<phase, scan, result, errs, warns, interrupted, exit, lost>>
      /\ queue'[r] = Tail(queue[r]) /\ buf'[r] = NoBuf /\ phase[r] = "append"
      /\ \A q \in Runs \ {r} : queue'[q] = queue[q] /\ buf'[q] = buf[q]
  BY <1>0, <1>1 DEF Dequeue, Appending, TypeOK
<1>3. \A q \in Runs \ {r} : LandAt(q)'
  BY <1>2, OthersLeave DEF Untouched, LandAt
<1>4. Heard(r)'
  BY <1>0, <1>2, HeardFrame DEF Settled, LandAt
<1>5. /\ Failures(r)' = Failures(r) /\ Clean(r)' = Clean(r)
      /\ KeptWarnings(r)' = KeptWarnings(r)
  BY <1>2, SameReports
<1>6. \A e : Among(e, queue[r]) <=> e = p \/ Among(e, queue'[r])
  <2>1. p = Head(queue[r])
    BY DEF NextAppend
  <2>2. QED
    BY <1>1, <1>2, <2>1, AmongTail
<1>7. \A c \in Columns : \A e :
        Due(r, c, e) => \/ Among(e, Column(scans'[scan'[r]], c))
                        \/ Among([column |-> c, entry |-> e], queue'[r])
  <2>1. SUFFICES ASSUME NEW c \in Columns, NEW e, Due(r, c, e),
                        ~Among([column |-> c, entry |-> e], queue'[r])
                 PROVE  Among(e, Column(scans'[scan'[r]], c))
    OBVIOUS
  <2>2. CASE Among(e, Column(scans[scan[r]], c))
    BY <1>1, <1>2, <2>2, RowKeeps
  <2>3. CASE Among([column |-> c, entry |-> e], queue[r])
    <3>1. p = [column |-> c, entry |-> e]
      BY <1>6, <2>1, <2>3
    <3>2. p.column = c /\ p.entry = e
      BY <3>1
    <3>3. scans'[scan[r]] = WithEntry(scans[scan[r]], c, Column(scans[scan[r]], c), e)
      BY <1>0, <1>1, <3>2 DEF TypeOK
    <3>4. Column(scans'[scan[r]], c) = Append(Column(scans[scan[r]], c), e)
      BY <1>1, <3>3, ColumnOfEntry
    <3>5. Column(scans[scan[r]], c) \in Seq(Entry)
      BY <1>1, ColumnType
    <3>6. Among(e, Append(Column(scans[scan[r]], c), e))
      BY <1>1, <3>2, <3>5, AmongAppend
    <3>7. QED
      BY <1>2, <3>4, <3>6
  <2>4. QED
    BY <2>1, <2>2, <2>3 DEF Due
<1>8. Underway(r)'
  <2>1. "errors" \in Columns /\ "warnings" \in Columns
    BY DEF Columns
  <2>2. ASSUME NEW j \in DOMAIN queue'[r]
        PROVE  /\ queue'[r][j].entry.run = r
               /\ queue'[r][j].column = "warnings" => Among(queue'[r][j].entry, KeptWarnings(r))
    <3>1. Among(queue'[r][j], queue[r])
      BY <1>6 DEF Among
    <3>2. PICK k \in DOMAIN queue[r] : queue[r][k] = queue'[r][j]
      BY <3>1 DEF Among
    <3>3. QED
      BY <1>0, <1>2, <3>2 DEF LandAt, Underway, Writing
  <2>3. lost[r] = 0 /\ ~Clean(r) => \A i \in DOMAIN Failures(r) : Due(r, "errors", Failures(r)[i])
    BY <1>0, <1>2 DEF LandAt, Underway, Writing
  <2>4. lost[r] = 0 => \A i \in DOMAIN KeptWarnings(r) : Due(r, "warnings", KeptWarnings(r)[i])
    BY <1>0, <1>2 DEF LandAt, Underway, Writing
  <2>5. lost'[r] = 0 /\ ~Clean(r) => \A i \in DOMAIN Failures(r) :
           \/ Among(Failures(r)[i], Column(scans'[scan'[r]], "errors"))
           \/ Among([column |-> "errors", entry |-> Failures(r)[i]], queue'[r])
    BY <1>2, <1>7, <2>1, <2>3
  <2>6. lost'[r] = 0 => \A i \in DOMAIN KeptWarnings(r) :
           \/ Among(KeptWarnings(r)[i], Column(scans'[scan'[r]], "warnings"))
           \/ Among([column |-> "warnings", entry |-> KeptWarnings(r)[i]], queue'[r])
    BY <1>2, <1>7, <2>1, <2>4
  <2>7. QED
    BY <1>2, <1>5, <2>2, <2>5, <2>6 DEF Underway, Due, Among, Writing
<1>9. Attributed(r)'
  <2>1. SUFFICES ASSUME NEW s \in ScanIds, scans'[s] # NoScan,
                        NEW i \in DOMAIN scans'[s].warnings, scans'[s].warnings[i].run = r
                 PROVE  s = scan[r] => Among(scans'[s].warnings[i], KeptWarnings(r))
    BY <1>2, <1>5 DEF Attributed, Exists, Among, Writing
  <2> DEFINE e == scans'[s].warnings[i]
  <2>2. Among(e, Column(scans'[s], "warnings")) /\ "warnings" \in Columns
    BY DEF Among, Column, Columns
  <2>3. \/ Exists(s) /\ Among(e, Column(scans[s], "warnings"))
        \/ \E q \in Runs : /\ Adds(q) /\ scan[q] = s /\ NextAppend(q).column = "warnings"
                           /\ e = NextAppend(q).entry /\ e.run = q
    BY <2>1, <2>2, EntriesMove
  <2>4. CASE Exists(s) /\ Among(e, Column(scans[s], "warnings"))
    <3>1. PICK j \in DOMAIN scans[s].warnings : scans[s].warnings[j] = e
      BY <2>4 DEF Among, Column
    <3>2. QED
      BY <1>0, <1>2, <2>1, <2>4, <3>1 DEF LandAt, Attributed, Writing
  <2>5. CASE \E q \in Runs : /\ Adds(q) /\ scan[q] = s /\ NextAppend(q).column = "warnings"
                             /\ e = NextAppend(q).entry /\ e.run = q
    <3>1. p.column = "warnings" /\ e = p.entry
      BY <2>1, <2>5
    <3>2. QED
      BY <1>0, <1>1, <1>2, <3>1 DEF LandAt, Underway, Writing
  <2>6. QED
    BY <2>3, <2>4, <2>5
<1>10. Buffered(r)' /\ Arrived(r)'
  BY <1>0, <1>2 DEF LifeInv, Buffered, Arrived, Ended, Concluded
<1>11. QED
  BY <1>3, <1>4, <1>8, <1>9, <1>10 DEF LandAt

\* An append that fails is counted, and its entry is no longer owed.
LEMMA FailLands ==
    ASSUME ScanInv, Unshared, [Next]_vars, NEW r \in Runs, AppendFails(r)
    PROVE  \A q \in Runs : LandAt(q)'
<1>0. TypeOK /\ LandAt(r) /\ LifeInv
  BY DEF ScanInv, LifeInv
<1>1. /\ UNCHANGED <<scans, phase, scan, result, errs, warns, interrupted, exit>>
      /\ queue'[r] = Tail(queue[r]) /\ buf'[r] = NoBuf /\ phase[r] = "append"
      /\ lost'[r] = lost[r] + 1 /\ lost[r] \in Nat
      /\ queue[r] \in Seq(Pending) /\ queue[r] # <<>>
      /\ \A q \in Runs \ {r} : queue'[q] = queue[q] /\ buf'[q] = buf[q] /\ lost'[q] = lost[q]
  BY <1>0 DEF AppendFails, Dequeue, Appending, TypeOK
<1>2. lost'[r] # 0 /\ lost'[r] # lost[r]
  BY <1>1
<1>3. \A q \in Runs \ {r} : LandAt(q)'
  BY <1>1, OthersLeave DEF Untouched, LandAt
<1>4. Heard(r)'
  BY <1>0, <1>1, HeardFrame DEF Settled, LandAt
<1>5. /\ Failures(r)' = Failures(r) /\ Clean(r)' = Clean(r)
      /\ KeptWarnings(r)' = KeptWarnings(r)
  BY <1>1, SameReports
<1>6. \A e : Among(e, queue'[r]) => Among(e, queue[r])
  BY <1>1, AmongTail
<1>7. Underway(r)'
  <2>1. ASSUME NEW j \in DOMAIN queue'[r]
        PROVE  /\ queue'[r][j].entry.run = r
               /\ queue'[r][j].column = "warnings" => Among(queue'[r][j].entry, KeptWarnings(r))
    <3>1. Among(queue'[r][j], queue[r])
      BY <1>6 DEF Among
    <3>2. PICK k \in DOMAIN queue[r] : queue[r][k] = queue'[r][j]
      BY <3>1 DEF Among
    <3>3. QED
      BY <1>0, <1>1, <3>2 DEF LandAt, Underway, Writing
  <2>2. QED
    BY <1>1, <1>2, <1>5, <2>1 DEF Underway, Among, Writing
<1>8. ~Adds(r)
  BY <1>2, AddsEntry
<1>9. Attributed(r)'
  BY <1>1, <1>5, <1>8, AttributedStep DEF Writing
<1>10. Buffered(r)' /\ Arrived(r)'
  BY <1>0, <1>1 DEF LifeInv, Buffered, Arrived, Ended, Concluded
<1>11. QED
  BY <1>3, <1>4, <1>7, <1>9, <1>10 DEF LandAt

\* Those of the services W that one of the first n entries of w is about.
Named(r, W, w, n) == {v \in W : \E i \in 1..n : w[i] = About(r, v)}

\* Warnings of r that are all different are as many as the services they are about.
LEMMA Counted ==
    ASSUME NEW r, NEW W, NEW w, NEW n \in Nat,
           \A i \in 1..n : \E v \in W : w[i] = About(r, v),
           \A i, j \in 1..n : w[i] = w[j] => i = j
    PROVE  Cardinality(Named(r, W, w, n)) = n
<1> DEFINE V == {v \in W : \E i \in 1..n : w[i] = About(r, v)}
           f == [i \in 1..n |-> w[i].topic]
<1>1. \A v : About(r, v).topic = v
  BY DEF About
<1>2. \A i \in 1..n : f[i] \in V /\ w[i] = About(r, f[i])
  <2>1. SUFFICES ASSUME NEW i \in 1..n PROVE f[i] \in V /\ w[i] = About(r, f[i])
    OBVIOUS
  <2>2. PICK v \in W : w[i] = About(r, v)
    OBVIOUS
  <2>3. f[i] = v
    BY <1>1, <2>2
  <2>4. QED
    BY <2>2, <2>3
<1>3. f \in [1..n -> V]
  BY <1>2
<1>4. \A i, j \in 1..n : f[i] = f[j] => i = j
  BY <1>2
<1>5. \A v \in V : \E i \in 1..n : f[i] = v
  BY <1>1
<1> HIDE DEF f, V
<1>6. f \in Bijection(1..n, V)
  BY <1>3, <1>4, <1>5 DEF Bijection, Injection, Surjection, IsInjective
<1>7. Cardinality(V) = n
  BY <1>6, FS_CountingElements DEF ExistsBijection
<1>8. QED
  BY <1>7 DEF V, Named

\* When Finalize returns with every append done, the row has it all: the failures, the
\* interruption, and of the warnings the first WarnCap with the number of the others.
LEMMA AllLanded ==
    ASSUME ScanInv, NEW r \in Runs, phase[r] = "append", queue[r] = <<>>, lost[r] = 0,
           UNCHANGED <<scans, scan, result>>, exit'[r] = "interrupted" => interrupted[r]
    PROVE  Lands(r)'
<1> DEFINE row == scans[scan[r]]
           W == WithWarning(r)
           n == Len(warns[r])
<1>0. TypeOK /\ LandAt(r) /\ scan[r] \in ScanIds /\ Exists(scan[r])
  BY DEF ScanInv, LifeInv, HasRow, Working
<1>1. /\ \A v \in Services : result[r][v] = "failed" =>
            Among(About(r, v), errs[r]) \/ Among(About(r, ProviderOf[v]), errs[r])
      /\ \A v \in W : Among(About(r, v), warns[r])
      /\ \A i \in DOMAIN warns[r] : \E v \in W : warns[r][i] = About(r, v)
      /\ \A i, j \in DOMAIN warns[r] : warns[r][i] = warns[r][j] => i = j
  BY <1>0 DEF LandAt, Heard, Settled
<1>2. \A p : ~Among(p, queue[r])
  BY DEF Among
<1>3. ~Clean(r) => \A e : Among(e, Failures(r)) => Among(e, row.errors)
  <2>1. ~Clean(r) => \A i \in DOMAIN Failures(r) : Due(r, "errors", Failures(r)[i])
    BY <1>0 DEF LandAt, Underway, Writing
  <2>2. ~Clean(r) => \A i \in DOMAIN Failures(r) : Among(Failures(r)[i], row.errors)
    BY <1>2, <2>1 DEF Due, Column
  <2>3. QED
    BY <2>2 DEF Among
<1>4. \A e : Among(e, KeptWarnings(r)) => Among(e, row.warnings)
  <2>1. \A i \in DOMAIN KeptWarnings(r) : Due(r, "warnings", KeptWarnings(r)[i])
    BY <1>0 DEF LandAt, Underway, Writing
  <2>2. \A i \in DOMAIN KeptWarnings(r) : Among(KeptWarnings(r)[i], row.warnings)
    BY <1>2, <2>1 DEF Due, Column
  <2>3. QED
    BY <2>2 DEF Among
<1>5. \A e : Among(e, errs[r]) => Among(e, row.errors)
  <2>1. \A e : Among(e, errs[r]) => errs[r] # <<>>
    BY DEF Among
  <2>2. \A e : Among(e, errs[r]) => Among(e, Failures(r))
    BY <1>0, ReportsOf
  <2>3. errs[r] # <<>> => ~Clean(r)
    BY DEF Clean
  <2>4. QED
    BY <1>3, <2>1, <2>2, <2>3
<1>6. interrupted[r] => Among(About(r, Interrupted), row.errors)
  <2>1. interrupted[r] => ~Clean(r) /\ Among(About(r, Interrupted), Failures(r))
    BY <1>0, ReportsOf DEF Clean
  <2>2. QED
    BY <1>3, <2>1
<1>7. n \in Nat /\ DOMAIN warns[r] = 1..n /\ WarnCap \in Nat /\ W \subseteq Services
  BY <1>0, ConstantsAssumption DEF TypeOK, WithWarning
<1>8. Cardinality(W) = n
  <2>1. Named(r, W, warns[r], n) = W
    BY <1>1, <1>7 DEF Among, Named
  <2>2. Cardinality(Named(r, W, warns[r], n)) = n
    BY <1>1, <1>7, Counted
  <2>3. QED
    BY <2>1, <2>2
<1>9. \/ Cardinality(W) - Cardinality(Recorded(r)) = 0
      \/ /\ Cardinality(Recorded(r)) = WarnCap
         /\ Among([run |-> r, topic |-> Truncated,
                   dropped |-> Cardinality(W) - Cardinality(Recorded(r))], row.warnings)
  <2>1. CASE ~(n > WarnCap)
    <3>1. KeptWarnings(r) = warns[r]
      BY <1>0, <2>1, ReportsOf
    <3>2. Recorded(r) = W
      BY <1>1, <1>4, <3>1 DEF Recorded
    <3>3. Cardinality(W) - Cardinality(Recorded(r)) = 0
      <4> HIDE DEF W
      <4>1. QED
        BY <1>7, <1>8, <3>2
    <3>4. QED
      BY <3>3
  <2>2. CASE n > WarnCap
    <3>1. \A e : Among(e, KeptWarnings(r)) <=>
                   e = Cut(r) \/ \E i \in 1..WarnCap : warns[r][i] = e
      BY <1>0, <2>2, ReportsOf
    <3>2. \A v : About(r, v) # Cut(r)
      <4>1. Cut(r).dropped = n - WarnCap /\ n - WarnCap # 0
        BY <1>7, <2>2 DEF Cut
      <4>2. \A v : About(r, v).dropped = 0
        BY DEF About
      <4>3. QED
        BY <4>1, <4>2
    <3>3. \A v \in W : Among(About(r, v), row.warnings) => Among(About(r, v), KeptWarnings(r))
      <4>1. SUFFICES ASSUME NEW v \in W, NEW i \in DOMAIN row.warnings,
                            row.warnings[i] = About(r, v)
                     PROVE  Among(About(r, v), KeptWarnings(r))
        BY DEF Among
      <4>2. row.warnings[i].run = r
        BY <4>1 DEF About
      <4>3. QED
        BY <1>0, <4>1, <4>2 DEF LandAt, Attributed, Writing
    <3>4. \A v \in W : Among(About(r, v), row.warnings)
                         <=> \E i \in 1..WarnCap : warns[r][i] = About(r, v)
      BY <1>4, <3>1, <3>2, <3>3
    <3>5. Recorded(r) = Named(r, W, warns[r], WarnCap)
      BY <3>4 DEF Recorded, Named
    <3>6. 1..WarnCap \subseteq 1..n
      BY <1>7, <2>2
    <3>7. /\ \A i \in 1..WarnCap : \E v \in W : warns[r][i] = About(r, v)
          /\ \A i, j \in 1..WarnCap : warns[r][i] = warns[r][j] => i = j
      BY <1>1, <1>7, <3>6
    <3>8. Cardinality(Recorded(r)) = WarnCap
      <4>1. Cardinality(Named(r, W, warns[r], WarnCap)) = WarnCap
        BY <1>7, <3>7, Counted
      <4>2. QED
        BY <3>5, <4>1
    <3>9. Among(Cut(r), row.warnings)
      BY <1>4, <3>1
    <3>10. QED
      BY <1>8, <3>8, <3>9 DEF Cut
  <2>3. QED
    BY <2>1, <2>2
<1>10. \A v \in Services : result[r][v] = "failed" =>
         Among(About(r, v), row.errors) \/ Among(About(r, ProviderOf[v]), row.errors)
  BY <1>1, <1>5
<1>11. W' = W /\ Recorded(r)' = Recorded(r)
  BY DEF WithWarning, Recorded, Among, About
<1>12. exit'[r] = "interrupted" => Among(About(r, Interrupted), row.errors)
  BY <1>6
<1>13. row' = row
  OBVIOUS
<1>14. QED
  BY <1>9, <1>10, <1>11, <1>12, <1>13 DEF Lands, Among, About

\* The run ends with what Finalize returns.
LEMMA FinishLands ==
    ASSUME ScanInv, Unshared, [Next]_vars, NEW r \in Runs, Finish(r)
    PROVE  \A q \in Runs : LandAt(q)'
<1> DEFINE how == IF interrupted[r] THEN "interrupted"
                  ELSE IF errs[r] # <<>> THEN "partial" ELSE "complete"
<1>1. /\ phase[r] = "append" /\ queue[r] = <<>> /\ End({r}, how)
      /\ UNCHANGED <<scans, scan, result, lost>>
  BY DEF Finish, rowVars
<1>2. /\ phase'[r] = "over" /\ exit'[r] = how /\ queue'[r] = <<>> /\ buf'[r] = NoBuf
      /\ how = "interrupted" => interrupted[r]
  BY <1>1 DEF End
<1> HIDE DEF how
<1>3. \A q \in Runs \ {r} : LandAt(q)'
  <2>1. \A q \in Runs \ {r} : Untouched(q) /\ buf'[q] = buf[q]
    BY <1>1 DEF End, Untouched
  <2>2. QED
    BY <2>1, OthersLeave DEF LandAt
<1>4. Heard(r)' /\ Underway(r)' /\ Buffered(r)'
  BY <1>2 DEF Heard, Settled, Underway, Writing, Buffered
<1>5. Attributed(r)'
  BY <1>2, AttributedStep, NoAddition
<1>6. Arrived(r)'
  <2>1. scan[r] \in ScanIds /\ Exists(scan[r])
    BY <1>1 DEF ScanInv, LifeInv, HasRow, Working
  <2>2. lost[r] = 0 => Lands(r)'
    BY <1>1, <1>2, AllLanded
  <2>3. QED
    BY <1>1, <2>1, <2>2 DEF Arrived, Exists
<1>7. QED
  BY <1>3, <1>4, <1>5, <1>6 DEF LandAt

\* Getting a row, and the last steps before Finalize.
LEMMA EarlyLands ==
    ASSUME ScanInv, Unshared, [Next]_vars, NEW r \in Runs
    PROVE  /\ Gate(r) \/ Cancel(r) \/ Collect(r) => \A q \in Runs : LandAt(q)'
           /\ \A s \in ScanIds : CreateScan(r, s) \/ ResumeLatest(r, s) \/ ResumeNamed(r, s)
                => \A q \in Runs : LandAt(q)'
<1>0. TypeOK /\ Heard(r)
  BY DEF ScanInv, LifeInv, LandAt
<1>1. ASSUME UNCHANGED <<result, errs, warns, queue, buf, exit, lost>>,
             \A q \in Runs \ {r} : /\ phase'[q] = phase[q] /\ scan'[q] = scan[q]
                                   /\ interrupted'[q] = interrupted[q],
             \/ phase[r] \in {"new", "gated"} /\ phase'[r] \in {"gated", "started"}
             \/ phase[r] = "started" /\ phase'[r] = "started"
             \/ phase[r] = "running" /\ phase'[r] \in {"running", "mark"}
      PROVE  \A q \in Runs : LandAt(q)'
  <2>1. \A q \in Runs \ {r} : LandAt(q)'
    BY <1>1, OthersLeave DEF Untouched, LandAt
  <2>2. Heard(r)'
    BY <1>0, <1>1, HeardFrame DEF Settled
  <2>3. LandAt(r)'
    BY <1>1, <2>2, QuietStep DEF Writing
  <2>4. QED
    BY <2>1, <2>3
<1>2. ASSUME Gate(r) PROVE \A q \in Runs : LandAt(q)'
  <2>1. CASE End({r}, "skipped")
    BY <1>2, <2>1, EndStep DEF Gate, Concluded
  <2>2. CASE Goto(r, "gated") /\ UNCHANGED <<exit, localVars>>
    BY <1>0, <1>1, <1>2, <2>2 DEF Gate, Goto, TypeOK, localVars
  <2>3. QED
    BY <1>2, <2>1, <2>2 DEF Gate
<1>3. ASSUME Cancel(r) PROVE \A q \in Runs : LandAt(q)'
  BY <1>0, <1>1, <1>3 DEF Cancel, TypeOK
<1>4. ASSUME Collect(r) PROVE \A q \in Runs : LandAt(q)'
  BY <1>0, <1>1, <1>4 DEF Collect, Goto, TypeOK
<1>5. ASSUME NEW s \in ScanIds, Begin(r, s) PROVE \A q \in Runs : LandAt(q)'
  BY <1>0, <1>1, <1>5 DEF Begin, Goto, TypeOK
<1>6. QED
  BY <1>2, <1>3, <1>4, <1>5 DEF CreateScan, ResumeLatest, ResumeNamed

\* Every step keeps every report on its way.
LEMMA LandStep ==
    ASSUME ScanInv, Unshared, [Next]_vars
    PROVE  \A q \in Runs : LandAt(q)'
<1>1. ASSUME NEW p \in Procs, Kill(p) PROVE \A q \in Runs : LandAt(q)'
  <2>1. WorkingIn(p) \in SUBSET Runs
    BY DEF WorkingIn
  <2>2. QED
    BY <1>1, <2>1, EndStep DEF Kill, Concluded
<1>2. ASSUME NEW r \in Runs, StoreFails(r) PROVE \A q \in Runs : LandAt(q)'
  BY <1>2, EndStep DEF StoreFails, Concluded
<1>3. ASSUME Tick \/ UNCHANGED vars PROVE \A q \in Runs : LandAt(q)'
  <2>1. \A q \in Runs : Untouched(q) /\ buf'[q] = buf[q]
    BY <1>3 DEF Tick, vars, runVars, localVars, Untouched
  <2>2. QED
    BY <2>1, OthersLeave DEF LandAt
<1>4. QED
  BY <1>1, <1>2, <1>3, Collecting, MarkLands, ReadsLand, AddLands, FailLands, FinishLands,
     EarlyLands, StepCases DEF Adds

\* Without ShareLive no second run takes a row that has one (--resume, CreateScanWithID).
LEMMA OneAtWorkStep == ScanInv /\ [Next]_vars => OneAtWork'
<1> SUFFICES ASSUME ScanInv, [Next]_vars, ~ShareLive PROVE OneAtWork'
  BY DEF OneAtWork
<1>0. /\ TypeOK /\ \A r \in Runs : phase'[r] # "over" => phase[r] # "over"
      /\ \A q, r \in Runs :
           scan[q] = scan[r] /\ scan[r] # NoId /\ phase[q] # "over" /\ phase[r] # "over" => q = r
  <2>1. \A r \in Runs : Moves(r)
    BY RunsMove DEF ScanInv
  <2>2. QED
    BY <2>1 DEF ScanInv, LifeInv, OneAtWork, Moves, GoesOn, TakesRow, Ends
<1>1. ASSUME NEW r \in Runs, NEW s \in ScanIds, Begin(r, s) PROVE OneAtWork'
  <2>1. /\ scan' = [scan EXCEPT ![r] = s]
        /\ \A q \in Runs : ~(scan[q] = s /\ phase[q] # "over")
    BY <1>1 DEF Begin, Live
  <2>2. QED
    BY <1>0, <2>1 DEF OneAtWork, TypeOK
<1>2. CASE UNCHANGED scan
  BY <1>0, <1>2 DEF OneAtWork
<1>3. UNCHANGED scan \/ \E r \in Runs, s \in ScanIds : Begin(r, s)
  BY StepCases DEF Gate, Launch, Cancel, Collect, Mark, ReadCount, AppendRead, AppendWrite,
     AppendJsonb, AppendFails, Dequeue, Finish, StoreFails, CreateScan, ResumeLatest,
     ResumeNamed, ServiceDone, ServiceFails, ServiceMissed, ScannerFails, Kill, Tick,
     runVars, vars
<1>4. QED
  BY <1>1, <1>2, <1>3

\* With nothing scanned nothing is owed.
LEMMA InitScan == Init => ScanInv
<1> SUFFICES ASSUME Init PROVE ScanInv
  OBVIOUS
<1>1. OneAtWork
  BY DEF Init, OneAtWork
<1>2. ASSUME NEW r \in Runs PROVE LandAt(r)
  BY DEF Init, LandAt, Heard, Underway, Attributed, Buffered, Arrived, Settled, Writing,
         Concluded, Exists
<1>3. QED
  BY <1>1, <1>2, InitLife DEF ScanInv

\* What a run has to report is in its lists, then in its queue, then in its row, in
\* every state.
THEOREM ScanInvariance == ASSUME Unshared PROVE Spec => []ScanInv
<1>1. ScanInv /\ [Next]_vars => ScanInv'
  <2>1. SUFFICES ASSUME ScanInv, [Next]_vars PROVE ScanInv'
    OBVIOUS
  <2>2. LifeInv'
    BY <2>1, TypeStep, HasRowStep, EndedStep, OneSinkStep, ToldStep, OwnedStep,
       CompletedStep, TimelyStep, TalliedStep DEF LifeInv, ScanInv
  <2>3. \A q \in Runs : LandAt(q)'
    BY <2>1, LandStep
  <2>4. QED
    BY <2>1, <2>2, <2>3, OneAtWorkStep DEF ScanInv
<1>2. QED
  BY InitScan, <1>1, PTL DEF Spec

\* A concluded run whose appends went through has in its row every failure, the
\* interruption, and every warning or the number left out; whatever other runs do,
\* on Postgres, and on SQLite when no row is shared by two live runs (Finalize,
\* persistWarnings, AppendScanError).
THEOREM ReportsArrive == ASSUME Unshared PROVE Spec => []ReportsLand
<1>1. ScanInv => ReportsLand
  BY DEF ScanInv, LandAt, Arrived, ReportsLand, Concluded
<1>2. QED
  BY <1>1, ScanInvariance, PTL
=============================================================================
