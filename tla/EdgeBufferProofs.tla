--------------------------- MODULE EdgeBufferProofs ---------------------------
(***************************************************************************)
(* Proof that EdgeBuffer loses no edge in silence, for every value of its  *)
(* constants: any number of writers, jobs and attempts, any interleaving   *)
(* of statements, outages, lost answers and deadlocks; and that a flush    *)
(* that commits refreshes the edges it found.                              *)
(***************************************************************************)
EXTENDS EdgeBuffer, WellFoundedInduction, TLAPS

Emitted == [edge : Edges, attrs : Attrs]
Rows == [Edges -> Attrs \union {Absent}]

EdgeTypeOK ==
    /\ RetryTypeOK
    /\ table \in Rows
    /\ job \in [Writers -> Nat]
    /\ phase \in [Writers -> {"between", "flushing"}]
    /\ buffer \in [Writers -> Seq(Emitted)]
    /\ batch \in [Writers -> Seq(Emitted)]
    /\ tx \in [Writers -> [at : Nat, stmt : {"none", "update", "insert"}, wrote : Rows]]

\* A flush works on a job of its writer, and the buffer is empty meanwhile.
InJob(w) ==
    /\ phase[w] = "flushing" => job[w] \in 1 .. Len(Jobs[w])
    /\ call[w].st # "idle" => phase[w] = "flushing" /\ buffer[w] = <<>>

\* Where the edges of the job are, if its resolver emitted them all: in the buffer,
\* then in the batch.
Carries(w) ==
    phase[w] = "flushing" /\ <<w, job[w], "resolver">> \notin reported =>
        Jobs[w][job[w]] = IF call[w].st = "idle" THEN buffer[w] ELSE batch[w]

\* The edges an attempt has passed are rows, or will be when it commits; a pause has
\* forgotten them; those of a call that succeeded are rows.
Passed(w) ==
    /\ call[w].st = "trying" =>
         /\ tx[w].at \in 1 .. Len(batch[w]) + 1
         /\ \A k \in 1 .. tx[w].at - 1 :
               table[batch[w][k].edge] # Absent \/ Wrote(w, batch[w][k].edge)
    /\ call[w].st = "pausing" => tx[w] = Begin
    /\ call[w].st \in {"won", "ok"} =>
         \A k \in 1 .. Len(batch[w]) : table[batch[w][k].edge] # Absent

FlushInv ==
    /\ EdgeTypeOK
    /\ \A w \in Writers : InJob(w) /\ Carries(w) /\ Passed(w)
    /\ EdgesStoredOrReported

-----------------------------------------------------------------------------
(* The retry. *)

\* What a step of the retry does to the calls: only that of its writer moves.
LEMMA RetryTypes ==
  ASSUME RetryTypeOK, NEW w \in Writers,
         \/ CallStarts(w, FALSE) \/ AttemptSucceeds(w) \/ CloseCircuit(w) \/ AttemptFails(w)
         \/ AttemptRefused(w) \/ Wake(w) \/ CallReturns(w)
  PROVE  /\ RetryTypeOK'
         /\ \A v \in Writers \ {w} : call'[v] = call[v]
<1> USE RetryAssumption DEF RetryTypeOK
<1>1. CASE CallStarts(w, FALSE)
  <2>1. AttemptsAllowed(FALSE) \in 0 .. MaxAttempts
    BY DEF AttemptsAllowed
  <2> QED
    BY <1>1, <2>1 DEF CallStarts, Start
<1>2. CASE AttemptSucceeds(w)
  BY <1>2 DEF AttemptSucceeds
<1>3. CASE CloseCircuit(w)
  BY <1>3 DEF CloseCircuit
<1>4. CASE AttemptFails(w)
  <2>1. CASE Pause(w)
    BY <2>1 DEF Pause
  <2>2. CASE Exhaust(w)
    BY <2>2 DEF Exhaust
  <2> QED
    BY <1>4, <2>1, <2>2 DEF AttemptFails
<1>5. CASE AttemptRefused(w)
  BY <1>5 DEF AttemptRefused
<1>6. CASE Wake(w)
  BY <1>6 DEF Wake
<1>7. CASE CallReturns(w)
  BY <1>7 DEF CallReturns, NoCall
<1> QED
  BY <1>1, <1>2, <1>3, <1>4, <1>5, <1>6, <1>7

\* Where a call is before and after a step of the retry.
LEMMA RetryMoves ==
  ASSUME RetryTypeOK, NEW w \in Writers
  PROVE  /\ CallStarts(w, FALSE) => call[w].st = "idle" /\ call'[w].st = "trying"
         /\ AttemptSucceeds(w) => call[w].st = "trying" /\ call'[w].st = "won"
         /\ CloseCircuit(w) => call[w].st = "won" /\ call'[w].st = "ok"
         /\ AttemptFails(w) => call[w].st = "trying" /\ call'[w].st \in {"pausing", "failed"}
         /\ AttemptRefused(w) => call[w].st = "trying" /\ call'[w].st = "failed"
         /\ Wake(w) => call[w].st = "pausing" /\ call'[w].st = "trying"
         /\ CallReturns(w) => call[w].st \in {"ok", "failed"} /\ call'[w].st = "idle"
<1> USE DEF RetryTypeOK
<1>1. AttemptFails(w) => call[w].st = "trying" /\ call'[w].st \in {"pausing", "failed"}
  BY DEF AttemptFails, Pause, Exhaust
<1>2. AttemptSucceeds(w) => call[w].st = "trying" /\ call'[w].st = "won"
  BY DEF AttemptSucceeds
<1>3. CloseCircuit(w) => call[w].st = "won" /\ call'[w].st = "ok"
  BY DEF CloseCircuit
<1>4. AttemptRefused(w) => call[w].st = "trying" /\ call'[w].st = "failed"
  BY DEF AttemptRefused
<1>5. Wake(w) => call[w].st = "pausing" /\ call'[w].st = "trying"
  BY DEF Wake
<1>6. CallReturns(w) => call[w].st \in {"ok", "failed"} /\ call'[w].st = "idle"
  BY DEF CallReturns, NoCall
<1>7. CallStarts(w, FALSE) => call[w].st = "idle" /\ call'[w].st = "trying"
  BY DEF CallStarts, Start
<1> QED
  BY <1>1, <1>2, <1>3, <1>4, <1>5, <1>6, <1>7

-----------------------------------------------------------------------------
(* The steps of a writer. *)

\* A writer at a statement has a row of its batch before it.
LEMMA Statement ==
  ASSUME EdgeTypeOK, NEW w \in Writers, Trying(w)
  PROVE  /\ This(w) \in Emitted
         /\ tx[w].wrote \in Rows
         /\ tx[w].at \in 1 .. Len(batch[w])
<1>1. batch[w] \in Seq(Emitted) /\ tx[w].wrote \in Rows /\ tx[w].at \in 1 .. Len(batch[w])
  BY DEF EdgeTypeOK, Trying
<1> QED
  BY <1>1 DEF This

\* What a row is written to: the table or the attempt, where it is and stays.
LEMMA WriteTypes ==
  ASSUME EdgeTypeOK, NEW w \in Writers, Trying(w), Write(w, This(w).edge)
  PROVE  /\ table' \in Rows
         /\ \A e \in Edges : table[e] # Absent => table'[e] # Absent
         /\ tx' \in [Writers -> [at : Nat, stmt : {"none", "update", "insert"}, wrote : Rows]]
         /\ \A v \in Writers \ {w} : tx'[v] = tx[v]
         /\ tx'[w].at = tx[w].at + 1
         /\ \A e \in Edges : tx[w].wrote[e] # Absent => tx'[w].wrote[e] # Absent
         /\ table'[This(w).edge] # Absent \/ tx'[w].wrote[This(w).edge] # Absent
<1>1. This(w) \in Emitted /\ tx[w].wrote \in Rows /\ tx[w].at \in Nat
  BY Statement DEF Trying
<1>2. This(w).edge \in Edges /\ This(w).attrs \in Attrs /\ This(w).attrs # Absent
  BY <1>1, EdgeAssumption DEF Emitted
<1>3. CASE w \in Direct
  <2>1. table' = [table EXCEPT ![This(w).edge] = This(w).attrs] /\ Advance(w, tx[w].wrote)
    BY <1>3 DEF Write
  <2>2. /\ table' \in Rows
        /\ \A e \in Edges : table[e] # Absent => table'[e] # Absent
        /\ table'[This(w).edge] # Absent
    BY <1>2, <2>1 DEF EdgeTypeOK, Rows
  <2> QED
    BY <1>1, <2>1, <2>2 DEF Advance, EdgeTypeOK
<1>4. CASE w \notin Direct
  <2> DEFINE now == [tx[w].wrote EXCEPT ![This(w).edge] = This(w).attrs]
  <2>1. /\ now \in Rows
        /\ \A e \in Edges : tx[w].wrote[e] # Absent => now[e] # Absent
        /\ now[This(w).edge] # Absent
    BY <1>1, <1>2 DEF Rows
  <2>2. Advance(w, now) /\ table' = table
    BY <1>4 DEF Write
  <2> HIDE DEF now
  <2> QED
    BY <1>1, <2>1, <2>2 DEF Advance, EdgeTypeOK
<1> QED
  BY <1>3, <1>4

\* What a transaction wrote is added to the table.
LEMMA ApplyTypes ==
  ASSUME EdgeTypeOK, NEW w \in Writers
  PROVE  /\ Apply(w) \in Rows
         /\ \A e \in Edges : table[e] # Absent => Apply(w)[e] # Absent
         /\ \A e \in Edges : Wrote(w, e) => Apply(w)[e] # Absent
<1>1. tx[w].wrote \in Rows /\ table \in Rows
  BY DEF EdgeTypeOK
<1> QED
  BY <1>1 DEF Apply, Wrote, Rows

\* A rollback leaves an attempt in its type, and starts it over before a pause.
LEMMA RollBackTypes ==
  ASSUME EdgeTypeOK, NEW w \in Writers, RollBack(w)
  PROVE  /\ tx' \in [Writers -> [at : Nat, stmt : {"none", "update", "insert"}, wrote : Rows]]
         /\ \A v \in Writers \ {w} : tx'[v] = tx[v]
         /\ call'[w].st = "pausing" => tx'[w] = Begin
<1>1. {Begin, NoTx} \subseteq [at : Nat, stmt : {"none", "update", "insert"}, wrote : Rows]
  BY DEF Begin, NoTx, Nothing, Rows
<1>2. tx' = [tx EXCEPT ![w] = IF call'[w].st = "pausing" THEN Begin ELSE NoTx]
  BY DEF RollBack
<1> QED
  BY <1>1, <1>2 DEF EdgeTypeOK

Step(w) == Progress(w) \/ ConnectionFails(w) \/ CommitLost(w)

\* Rows stay and reports stay; of the rest only what is the writer's own moves.
Stay ==
    /\ \A e \in Edges : table[e] # Absent => table'[e] # Absent
    /\ reported \subseteq reported'

Frame(w) ==
    /\ EdgeTypeOK'
    /\ Stay
    /\ \A v \in Writers \ {w} :
          /\ call'[v] = call[v] /\ tx'[v] = tx[v] /\ job'[v] = job[v]
          /\ phase'[v] = phase[v] /\ buffer'[v] = buffer[v] /\ batch'[v] = batch[v]

LEMMA FrameStep ==
  ASSUME EdgeTypeOK, NEW w \in Writers, Step(w)
  PROVE  Frame(w)
<1>0. Jobs \in [Writers -> Seq(Seq(Emitted))]
  BY EdgeAssumption DEF Emitted
<1>1. CASE Emit(w)
  <2>1. job' = [job EXCEPT ![w] = @ + 1] /\ job[w] \in Nat
    BY <1>1 DEF Emit, EdgeTypeOK
  <2>2. PICK n \in 0 .. Len(Jobs[w][job'[w]]) :
           /\ buffer' = [buffer EXCEPT ![w] = SubSeq(Jobs[w][job'[w]], 1, n)]
           /\ reported' = IF n < Len(Jobs[w][job'[w]])
                          THEN reported \union {<<w, job'[w], "resolver">>} ELSE reported
    BY <1>1 DEF Emit
  <2>3. Jobs[w][job'[w]] \in Seq(Emitted)
    BY <1>0, <1>1, <2>1 DEF Emit, EdgeTypeOK
  <2>4. SubSeq(Jobs[w][job'[w]], 1, n) \in Seq(Emitted)
    BY <2>2, <2>3
  <2> QED
    BY <1>1, <2>1, <2>2, <2>4 DEF Emit, Frame, Stay, EdgeTypeOK, RetryTypeOK, retryVars
<1>2. CASE FlushNothing(w)
  BY <1>2 DEF FlushNothing, Frame, Stay, EdgeTypeOK, RetryTypeOK, retryVars
<1>3. CASE FlushStarts(w)
  <2>1. RetryTypeOK' /\ \A v \in Writers \ {w} : call'[v] = call[v]
    BY <1>3, RetryTypes DEF FlushStarts, EdgeTypeOK
  <2>2. Begin \in [at : Nat, stmt : {"none", "update", "insert"}, wrote : Rows]
    BY DEF Begin, Nothing, Rows
  <2>3. <<>> \in Seq(Emitted)
    OBVIOUS
  <2> HIDE DEF Begin
  <2> QED
    BY <1>3, <2>1, <2>2, <2>3 DEF FlushStarts, TakeBuffer, Frame, Stay, EdgeTypeOK
<1>4. CASE FlushReturns(w)
  <2>1. RetryTypeOK' /\ \A v \in Writers \ {w} : call'[v] = call[v]
    BY <1>4, RetryTypes DEF FlushReturns, EdgeTypeOK
  <2> QED
    BY <1>4, <2>1 DEF FlushReturns, Frame, Stay, EdgeTypeOK
<1>5. CASE UpdateEdge(w)
  <2>1. Trying(w) /\ UNCHANGED <<retryVars, job, phase, buffer, batch, reported>>
    BY <1>5 DEF UpdateEdge
  <2>2. CASE Write(w, This(w).edge)
    BY <2>1, <2>2, WriteTypes DEF Frame, Stay, EdgeTypeOK, RetryTypeOK, retryVars
  <2>3. CASE tx' = [tx EXCEPT ![w].stmt = "insert"] /\ UNCHANGED table
    BY <2>1, <2>3 DEF Frame, Stay, EdgeTypeOK, RetryTypeOK, retryVars
  <2> QED
    BY <1>5, <2>2, <2>3 DEF UpdateEdge
<1>6. CASE InsertEdge(w)
  <2>1. Trying(w) /\ UNCHANGED <<retryVars, job, phase, buffer, batch, reported>>
    BY <1>6 DEF InsertEdge
  <2>2. CASE Write(w, This(w).edge)
    BY <2>1, <2>2, WriteTypes DEF Frame, Stay, EdgeTypeOK, RetryTypeOK, retryVars
  <2>3. CASE Advance(w, tx[w].wrote) /\ UNCHANGED table
    <3>1. tx[w].wrote \in Rows /\ tx[w].at + 1 \in Nat
      BY DEF EdgeTypeOK
    <3> QED
      BY <2>1, <2>3, <3>1 DEF Advance, Frame, Stay, EdgeTypeOK, RetryTypeOK, retryVars
  <2> QED
    BY <1>6, <2>2, <2>3 DEF InsertEdge
<1>7. CASE Commit(w)
  <2>1. RetryTypeOK' /\ \A v \in Writers \ {w} : call'[v] = call[v]
    BY <1>7, RetryTypes DEF Commit, EdgeTypeOK
  <2>2. NoTx \in [at : Nat, stmt : {"none", "update", "insert"}, wrote : Rows]
    BY DEF NoTx, Nothing, Rows
  <2>3. table' = Apply(w) /\ tx' = [tx EXCEPT ![w] = NoTx]
        /\ UNCHANGED <<job, phase, buffer, batch, reported>>
    BY <1>7 DEF Commit
  <2> HIDE DEF NoTx, Apply
  <2> QED
    BY <2>1, <2>2, <2>3, ApplyTypes DEF Frame, Stay, EdgeTypeOK
<1>8. CASE ConnectionFails(w)
  <2>1. RetryTypeOK' /\ \A v \in Writers \ {w} : call'[v] = call[v]
    BY <1>8, RetryTypes DEF ConnectionFails, EdgeTypeOK
  <2>2. RollBack(w) /\ UNCHANGED <<table, job, phase, buffer, batch, reported>>
    BY <1>8 DEF ConnectionFails, RollBack
  <2> QED
    BY <2>1, <2>2, RollBackTypes DEF Frame, Stay, EdgeTypeOK
<1>9. CASE CommitLost(w)
  <2>1. RetryTypeOK' /\ \A v \in Writers \ {w} : call'[v] = call[v]
    BY <1>9, RetryTypes DEF CommitLost, AttemptLost, EdgeTypeOK
  <2>2. RollBack(w) /\ table' = Apply(w) /\ UNCHANGED <<job, phase, buffer, batch, reported>>
    BY <1>9 DEF CommitLost, RollBack
  <2> QED
    BY <2>1, <2>2, RollBackTypes, ApplyTypes DEF Frame, Stay, EdgeTypeOK
<1>10. CASE DeadlockVictim(w)
  <2>1. RetryTypeOK' /\ \A v \in Writers \ {w} : call'[v] = call[v]
    BY <1>10, RetryTypes DEF DeadlockVictim, EdgeTypeOK
  <2>2. RollBack(w) /\ UNCHANGED <<table, job, phase, buffer, batch, reported>>
    BY <1>10 DEF DeadlockVictim, RollBack
  <2> QED
    BY <2>1, <2>2, RollBackTypes DEF Frame, Stay, EdgeTypeOK
<1>11. CASE RetryStep(w)
  <2>1. RetryTypeOK' /\ \A v \in Writers \ {w} : call'[v] = call[v]
    BY <1>11, RetryTypes DEF RetryStep, EdgeTypeOK
  <2> QED
    BY <1>11, <2>1 DEF RetryStep, edgeVars, Frame, Stay, EdgeTypeOK
<1> QED
  BY <1>1, <1>2, <1>3, <1>4, <1>5, <1>6, <1>7, <1>8, <1>9, <1>10, <1>11 DEF Step, Progress

-----------------------------------------------------------------------------
(* The invariant. *)

\* A batch is of edges.
LEMMA BatchEdges ==
  ASSUME EdgeTypeOK, NEW w \in Writers, NEW k \in 1 .. Len(batch[w])
  PROVE  batch[w][k].edge \in Edges
<1>1. batch[w] \in Seq(Emitted)
  BY DEF EdgeTypeOK
<1>2. batch[w][k] \in Emitted
  BY <1>1
<1> QED
  BY <1>2 DEF Emitted

\* What a writer knows is not disturbed by the step of another.
LEMMA Siblings ==
  ASSUME FlushInv, NEW w \in Writers, Frame(w), NEW v \in Writers \ {w}
  PROVE  InJob(v)' /\ Carries(v)' /\ Passed(v)'
<1>1. /\ call'[v] = call[v] /\ tx'[v] = tx[v] /\ job'[v] = job[v]
      /\ phase'[v] = phase[v] /\ buffer'[v] = buffer[v] /\ batch'[v] = batch[v]
      /\ InJob(v) /\ Carries(v) /\ Passed(v)
  BY DEF Frame, FlushInv
<1>2. InJob(v)' /\ Carries(v)'
  BY <1>1 DEF InJob, Carries, Frame, Stay
<1>3. \A k \in 1 .. Len(batch[v]) : batch[v][k].edge \in Edges
  BY BatchEdges DEF FlushInv
<1>4. CASE call[v].st = "trying"
  <2>1. tx[v].at \in 1 .. Len(batch[v]) + 1
    BY <1>1, <1>4 DEF Passed
  <2>2. \A k \in 1 .. tx[v].at - 1 : k \in 1 .. Len(batch[v])
    BY <2>1 DEF FlushInv, EdgeTypeOK
  <2>3. Passed(v)'
    <3>1. \A k \in 1 .. tx[v].at - 1 : table'[batch[v][k].edge] # Absent \/ Wrote(v, batch[v][k].edge)
      BY <1>1, <1>3, <1>4, <2>2 DEF Passed, Frame, Stay
    <3> QED
      BY <1>1, <1>4, <2>1, <3>1 DEF Passed, Wrote
  <2> QED
    BY <1>2, <2>3
<1>5. CASE call[v].st # "trying"
  <2>1. call[v].st \in {"won", "ok"} =>
          \A k \in 1 .. Len(batch[v]) : table'[batch[v][k].edge] # Absent
    BY <1>1, <1>3 DEF Passed, Frame, Stay
  <2> QED
    BY <1>1, <1>2, <1>5, <2>1 DEF Passed
<1> QED
  BY <1>2, <1>4, <1>5

\* When a whole batch was passed, what its attempt adds to the table completes it.
LEMMA PassedAll ==
  ASSUME FlushInv, NEW w \in Writers, Committing(w)
  PROVE  \A k \in 1 .. Len(batch[w]) : Apply(w)[batch[w][k].edge] # Absent
<1> SUFFICES ASSUME NEW k \in 1 .. Len(batch[w])
             PROVE  Apply(w)[batch[w][k].edge] # Absent
  OBVIOUS
<1>1. batch[w][k].edge \in Edges
  BY BatchEdges DEF FlushInv
<1>2. k \in 1 .. tx[w].at - 1 /\ Passed(w) /\ call[w].st = "trying"
  BY DEF Committing, FlushInv, EdgeTypeOK
<1>3. table[batch[w][k].edge] # Absent \/ Wrote(w, batch[w][k].edge)
  BY <1>2 DEF Passed
<1> QED
  BY <1>1, <1>3, ApplyTypes DEF FlushInv

\* A statement passes one edge, which it leaves in the table or in the attempt.
LEMMA PassesOne ==
  ASSUME FlushInv, NEW w \in Writers, Trying(w), Frame(w), call' = call, batch' = batch,
         tx'[w].at = tx[w].at + 1,
         \A e \in Edges : tx[w].wrote[e] # Absent => tx'[w].wrote[e] # Absent,
         table'[This(w).edge] # Absent \/ tx'[w].wrote[This(w).edge] # Absent
  PROVE  Passed(w)'
<1>1. tx[w].at \in 1 .. Len(batch[w]) /\ call[w].st = "trying"
  BY DEF Trying
<1>2. ASSUME NEW k \in 1 .. tx'[w].at - 1
      PROVE  table'[batch[w][k].edge] # Absent \/ tx'[w].wrote[batch[w][k].edge] # Absent
  <2>1. k \in 1 .. Len(batch[w]) /\ (k = tx[w].at \/ k \in 1 .. tx[w].at - 1)
    BY <1>1, <1>2 DEF FlushInv, EdgeTypeOK
  <2>2. batch[w][k].edge \in Edges
    BY <2>1, BatchEdges DEF FlushInv
  <2>3. CASE k = tx[w].at
    BY <2>3 DEF This
  <2>4. CASE k \in 1 .. tx[w].at - 1
    BY <1>1, <2>2, <2>4 DEF FlushInv, Passed, Wrote, Frame, Stay
  <2> QED
    BY <2>1, <2>3, <2>4
<1> QED
  BY <1>1, <1>2 DEF Passed, Wrote, FlushInv, EdgeTypeOK

\* A failed attempt is over, or starts over.
LEMMA Forgets ==
  ASSUME EdgeTypeOK, NEW w \in Writers, RollBack(w), call'[w].st \in {"pausing", "failed"}
  PROVE  Passed(w)'
BY RollBackTypes DEF Passed

\* Every step of a writer keeps what it knows of its own flush.
LEMMA OwnStep ==
  ASSUME FlushInv, NEW w \in Writers, Step(w)
  PROVE  InJob(w)' /\ Carries(w)' /\ Passed(w)'
<1>0. /\ Frame(w) /\ EdgeTypeOK /\ RetryTypeOK
      /\ InJob(w) /\ Carries(w) /\ Passed(w)
  BY FrameStep DEF FlushInv, EdgeTypeOK
<1>1. CASE Emit(w)
  <2>1. /\ phase[w] = "between" /\ job[w] \in Nat /\ job[w] < Len(Jobs[w])
        /\ job'[w] = job[w] + 1 /\ phase'[w] = "flushing" /\ call' = call
    BY <1>0, <1>1 DEF Emit, EdgeTypeOK, retryVars
  <2>2. call[w].st = "idle"
    BY <1>0, <2>1 DEF InJob
  <2>3. PICK n \in 0 .. Len(Jobs[w][job'[w]]) :
           /\ buffer' = [buffer EXCEPT ![w] = SubSeq(Jobs[w][job'[w]], 1, n)]
           /\ reported' = IF n < Len(Jobs[w][job'[w]])
                          THEN reported \union {<<w, job'[w], "resolver">>} ELSE reported
    BY <1>1 DEF Emit
  <2>4. Jobs[w] \in Seq(Seq(Emitted)) /\ Jobs[w][job'[w]] \in Seq(Emitted)
    <3>1. Jobs \in [Writers -> Seq(Seq(Emitted))]
      BY EdgeAssumption DEF Emitted
    <3>2. Jobs[w] \in Seq(Seq(Emitted))
      BY <3>1
    <3>3. job'[w] \in 1 .. Len(Jobs[w])
      BY <2>1, <3>2
    <3> QED
      BY <3>2, <3>3
  <2>5. InJob(w)' /\ Passed(w)'
    BY <2>1, <2>2, <2>4 DEF InJob, Passed
  <2>6. Carries(w)'
    <3> SUFFICES ASSUME <<w, job'[w], "resolver">> \notin reported'
                 PROVE  Jobs[w][job'[w]] = buffer'[w]
      BY <2>1, <2>2 DEF Carries
    <3>1. n = Len(Jobs[w][job'[w]])
      BY <2>3
    <3>2. SubSeq(Jobs[w][job'[w]], 1, n) = Jobs[w][job'[w]]
      BY <2>4, <3>1
    <3> QED
      BY <1>0, <2>3, <3>2 DEF EdgeTypeOK
  <2> QED
    BY <2>5, <2>6
<1>2. CASE FlushNothing(w)
  BY <1>0, <1>2 DEF FlushNothing, InJob, Carries, Passed, EdgeTypeOK, retryVars
<1>3. CASE FlushStarts(w)
  <2>1. call[w].st = "idle" /\ call'[w].st = "trying"
    BY <1>0, <1>3, RetryMoves DEF FlushStarts
  <2>2. /\ phase[w] = "flushing" /\ phase' = phase /\ job' = job /\ reported' = reported
        /\ batch'[w] = buffer[w] /\ buffer'[w] = <<>> /\ tx'[w] = Begin
    BY <1>0, <1>3 DEF FlushStarts, TakeBuffer, EdgeTypeOK
  <2>3. InJob(w)' /\ Carries(w)'
    BY <1>0, <2>1, <2>2 DEF InJob, Carries
  <2>4. Passed(w)'
    <3>1. Begin.at = 1 /\ Len(batch'[w]) \in Nat
      BY <1>0 DEF Begin, Frame, EdgeTypeOK
    <3> QED
      BY <2>1, <2>2, <3>1 DEF Passed
  <2> QED
    BY <2>3, <2>4
<1>4. CASE FlushReturns(w)
  <2>1. call'[w].st = "idle"
    BY <1>0, <1>4, RetryMoves DEF FlushReturns
  <2>2. phase'[w] = "between"
    BY <1>0, <1>4 DEF FlushReturns, EdgeTypeOK
  <2> QED
    BY <2>1, <2>2 DEF InJob, Carries, Passed
<1>5. CASE UpdateEdge(w) \/ InsertEdge(w)
  <2>1. Trying(w) /\ UNCHANGED <<call, job, phase, buffer, batch, reported>>
    BY <1>5 DEF UpdateEdge, InsertEdge, retryVars
  <2>2. InJob(w)' /\ Carries(w)'
    BY <1>0, <2>1 DEF InJob, Carries
  <2>3. CASE Write(w, This(w).edge)
    BY <1>0, <2>1, <2>2, <2>3, WriteTypes, PassesOne
  <2>4. CASE UpdateEdge(w) /\ tx' = [tx EXCEPT ![w].stmt = "insert"] /\ UNCHANGED table
    <3>1. tx'[w].at = tx[w].at /\ tx'[w].wrote = tx[w].wrote
      BY <1>0, <2>4 DEF EdgeTypeOK
    <3> QED
      BY <1>0, <2>1, <2>2, <2>4, <3>1 DEF Passed, Trying, Wrote
  <2>5. CASE InsertEdge(w) /\ table[This(w).edge] # Absent /\ Advance(w, tx[w].wrote)
             /\ UNCHANGED table
    <3>1. tx'[w].at = tx[w].at + 1 /\ tx'[w].wrote = tx[w].wrote
      BY <1>0, <2>5 DEF Advance, EdgeTypeOK
    <3> QED
      BY <1>0, <2>1, <2>2, <2>5, <3>1, PassesOne
  <2> QED
    BY <1>5, <2>2, <2>3, <2>4, <2>5 DEF UpdateEdge, InsertEdge
<1>6. CASE Commit(w)
  <2>1. call[w].st = "trying" /\ call'[w].st = "won"
    BY <1>0, <1>6, RetryMoves DEF Commit
  <2>2. Committing(w) /\ table' = Apply(w) /\ UNCHANGED <<job, phase, buffer, batch, reported>>
    BY <1>6 DEF Commit
  <2> QED
    BY <1>0, <2>1, <2>2, PassedAll DEF InJob, Carries, Passed
<1>7. CASE ConnectionFails(w) \/ CommitLost(w) \/ DeadlockVictim(w)
  <2>1. call[w].st = "trying" /\ call'[w].st \in {"pausing", "failed"}
    BY <1>0, <1>7, RetryMoves DEF ConnectionFails, CommitLost, AttemptLost, DeadlockVictim
  <2>2. RollBack(w) /\ UNCHANGED <<job, phase, buffer, batch, reported>>
    BY <1>7 DEF ConnectionFails, CommitLost, DeadlockVictim, RollBack
  <2> QED
    BY <1>0, <2>1, <2>2, Forgets DEF InJob, Carries
<1>8. CASE RetryStep(w)
  <2>1. UNCHANGED <<table, job, phase, buffer, batch, tx, reported>>
    BY <1>8 DEF RetryStep, edgeVars
  <2>2. CASE CloseCircuit(w)
    <3>1. call[w].st = "won" /\ call'[w].st = "ok"
      BY <1>0, <2>2, RetryMoves
    <3> QED
      BY <1>0, <2>1, <3>1 DEF InJob, Carries, Passed
  <2>3. CASE Wake(w)
    <3>1. call[w].st = "pausing" /\ call'[w].st = "trying"
      BY <1>0, <2>3, RetryMoves
    <3>2. tx[w] = Begin /\ Begin.at = 1 /\ Len(batch[w]) \in Nat
      BY <1>0, <3>1 DEF Passed, Begin, EdgeTypeOK
    <3>3. Passed(w)'
      BY <2>1, <3>1, <3>2 DEF Passed
    <3> QED
      BY <1>0, <2>1, <3>1, <3>3 DEF InJob, Carries
  <2> QED
    BY <1>8, <2>2, <2>3 DEF RetryStep
<1> QED
  BY <1>1, <1>2, <1>3, <1>4, <1>5, <1>6, <1>7, <1>8 DEF Step, Progress

\* A job that ends well has put its edges into the table.
LEMMA StoredStep ==
  ASSUME FlushInv, NEW w \in Writers, Step(w)
  PROVE  EdgesStoredOrReported'
<1>0. Frame(w) /\ EdgeTypeOK /\ RetryTypeOK /\ EdgesStoredOrReported
  BY FrameStep DEF FlushInv, EdgeTypeOK
<1> SUFFICES ASSUME NEW v \in Writers, NEW i \in 1 .. Len(Jobs[v]), Finished(v, i)',
                    {<<v, i, "resolver">>, <<v, i, "flush">>} \cap reported' = {},
                    NEW x \in ToSet(Jobs[v][i])
             PROVE  table'[x.edge] # Absent
  BY DEF EdgesStoredOrReported
<1>1. {<<v, i, "resolver">>, <<v, i, "flush">>} \cap reported = {}
  BY <1>0 DEF Frame, Stay
<1>2. Jobs[v][i] \in Seq(Emitted) /\ x.edge \in Edges
  <2>1. Jobs \in [Writers -> Seq(Seq(Emitted))]
    BY EdgeAssumption DEF Emitted
  <2>2. Jobs[v] \in Seq(Seq(Emitted))
    BY <2>1
  <2>3. Jobs[v][i] \in Seq(Emitted)
    BY <2>2
  <2>4. x \in Emitted
    BY <2>3 DEF ToSet
  <2> QED
    BY <2>3, <2>4 DEF Emitted
<1>3. CASE Finished(v, i)
  BY <1>0, <1>1, <1>2, <1>3 DEF EdgesStoredOrReported, Frame, Stay
<1>4. CASE ~Finished(v, i)
  <2>1. v = w
    BY <1>0, <1>4 DEF Finished, Frame
  <2>2. CASE Emit(w)
    <3>1. job[w] \in Nat /\ job'[w] = job[w] + 1 /\ phase[w] = "between"
          /\ phase'[w] = "flushing"
      BY <1>0, <2>2 DEF Emit, EdgeTypeOK
    <3> QED
      BY <1>4, <2>1, <3>1 DEF Finished
  <2>3. CASE FlushNothing(w)
    <3>1. call[w].st = "idle" /\ phase[w] = "flushing" /\ buffer[w] = <<>> /\ job' = job
      BY <2>3 DEF FlushNothing
    <3>2. i = job[w] /\ InJob(w) /\ Carries(w)
      BY <1>0, <1>4, <2>1, <3>1 DEF Finished, FlushInv, EdgeTypeOK
    <3>3. Jobs[v][i] = <<>>
      BY <1>1, <2>1, <3>1, <3>2 DEF Carries
    <3> QED
      BY <1>2, <3>3 DEF ToSet
  <2>4. CASE FlushReturns(w)
    <3>1. call[w].st \in {"ok", "failed"} /\ job' = job /\ table' = table
      BY <1>0, <2>4, RetryMoves DEF FlushReturns
    <3>2. i = job[w] /\ InJob(w) /\ Carries(w) /\ Passed(w)
      BY <1>0, <1>4, <2>1, <3>1 DEF Finished, FlushInv, EdgeTypeOK
    <3>3. call[w].st = "ok"
      BY <1>0, <2>1, <2>4, <3>1, <3>2 DEF FlushReturns
    <3>4. Jobs[v][i] = batch[w]
      BY <1>1, <2>1, <3>2, <3>3 DEF Carries, InJob
    <3>5. \A k \in 1 .. Len(batch[w]) : table[batch[w][k].edge] # Absent
      BY <3>2, <3>3 DEF Passed
    <3>6. PICK k \in 1 .. Len(batch[w]) : x = batch[w][k]
      BY <1>2, <3>4 DEF ToSet
    <3> QED
      BY <3>1, <3>5, <3>6
  <2>5. CASE job' = job /\ phase' = phase
    BY <1>4, <2>5 DEF Finished
  <2>6. Emit(w) \/ FlushNothing(w) \/ FlushReturns(w) \/ (job' = job /\ phase' = phase)
    BY DEF Step, Progress, FlushStarts, UpdateEdge, InsertEdge, Commit, ConnectionFails,
           CommitLost, DeadlockVictim, RollBack, RetryStep, edgeVars
  <2> QED
    BY <2>2, <2>3, <2>4, <2>5, <2>6
<1> QED
  BY <1>3, <1>4

LEMMA FlushStep == FlushInv /\ [EdgeNext]_flushVars => FlushInv'
<1> SUFFICES ASSUME FlushInv, [EdgeNext]_flushVars PROVE FlushInv'
  OBVIOUS
<1>1. ASSUME NEW w \in Writers, Step(w) PROVE FlushInv'
  <2>1. EdgeTypeOK'
    BY <1>1, FrameStep DEF FlushInv, Frame
  <2>2. ASSUME NEW v \in Writers PROVE InJob(v)' /\ Carries(v)' /\ Passed(v)'
    <3>1. CASE v = w
      BY <1>1, <3>1, OwnStep
    <3>2. CASE v # w
      BY <1>1, <3>2, FrameStep, Siblings DEF FlushInv
    <3> QED
      BY <3>1, <3>2
  <2> QED
    BY <1>1, <2>1, <2>2, StoredStep DEF FlushInv
<1>2. CASE DatabaseStep \/ UNCHANGED flushVars
  <2>1. UNCHANGED <<call, streak, edgeVars>> /\ db' \in {"up", "down"}
    BY <1>2 DEF DatabaseStep, OutageBegins, OutageEnds, flushVars, retryVars, FlushInv,
                EdgeTypeOK, RetryTypeOK
  <2>2. EdgeTypeOK'
    BY <2>1 DEF FlushInv, EdgeTypeOK, RetryTypeOK, edgeVars
  <2>3. \A w \in Writers : InJob(w)' /\ Carries(w)' /\ Passed(w)'
    BY <2>1 DEF FlushInv, InJob, Carries, Passed, Wrote, edgeVars
  <2>4. EdgesStoredOrReported'
    BY <2>1 DEF FlushInv, EdgesStoredOrReported, Finished, edgeVars
  <2> QED
    BY <2>2, <2>3, <2>4 DEF FlushInv
<1> QED
  BY <1>1, <1>2 DEF EdgeNext, Step

LEMMA FlushStart == EdgeInit => FlushInv
<1> SUFFICES ASSUME EdgeInit PROVE FlushInv
  OBVIOUS
<1>0. Jobs \in [Writers -> Seq(Seq(Emitted))]
  BY EdgeAssumption DEF Emitted
<1>1. RetryTypeOK /\ \A w \in Writers : call[w].st = "idle"
  BY RetryAssumption DEF EdgeInit, RetryInit, RetryTypeOK, NoCall
<1>2. PICK team \in Teams :
         job = [w \in Writers |-> IF w \in team THEN 0 ELSE Len(Jobs[w]) + 1]
  BY DEF EdgeInit
<1>3. job \in [Writers -> Nat] /\ \A w \in Writers : job[w] = 0 \/ job[w] > Len(Jobs[w])
  <2>1. \A w \in Writers : Len(Jobs[w]) \in Nat
    BY <1>0
  <2> QED
    BY <1>2, <2>1
<1>4. EdgeTypeOK
  BY <1>1, <1>3 DEF EdgeInit, EdgeTypeOK, NoTx, Nothing, Rows
<1>5. \A w \in Writers : InJob(w) /\ Carries(w) /\ Passed(w)
  BY <1>1 DEF EdgeInit, InJob, Carries, Passed
<1>6. EdgesStoredOrReported
  <2>1. \A w \in Writers : \A i \in 1 .. Len(Jobs[w]) : ~Finished(w, i)
    BY <1>0, <1>3 DEF Finished
  <2> QED
    BY <2>1 DEF EdgesStoredOrReported
<1> QED
  BY <1>4, <1>5, <1>6 DEF FlushInv

\* Whatever becomes of flushes, their attempts and their siblings, the invariant
\* about what a writer carries and has passed holds (FlushRelBuffer).
THEOREM FlushInvariance == EdgeSpec => []FlushInv
BY FlushStart, FlushStep, PTL DEF EdgeSpec

\* For any number of writers, jobs, edges and attempts: when neither a resolver nor
\* its flush was reported as an error, every edge it emitted is a row, although the
\* buffer was emptied before the write (FlushRelBuffer).
THEOREM NoEdgeIsLost == EdgeSpec => []EdgesStoredOrReported
<1>1. FlushInv => EdgesStoredOrReported
  BY DEF FlushInv
<1> QED
  BY <1>1, FlushInvariance, PTL

-----------------------------------------------------------------------------
(* What a flush found it refreshes. *)

\* Of the first n - 1 edges of b the last that names e is at j.
NewestOf(b, n, j, e) == b[j].edge = e /\ \A m \in j + 1 .. n - 1 : b[m].edge # e

\* The edges a flush found are rows; it inserts none of them, and what it has passed
\* of them it carries as the batch last named it.
Refreshed(w) ==
    /\ \A e \in known[w] : e \in Edges /\ table[e] # Absent
    /\ w \notin Direct /\ call[w].st = "trying" =>
          /\ Trying(w) /\ tx[w].stmt = "insert" => This(w).edge \notin known[w]
          /\ \A e \in known[w] : \A j \in 1 .. tx[w].at - 1 :
                NewestOf(batch[w], tx[w].at, j, e) => tx[w].wrote[e] = batch[w][j].attrs

RefreshInv ==
    /\ FlushInv
    /\ known \in [Writers -> SUBSET Edges]
    /\ \A w \in Writers : Refreshed(w)

\* What a call knows changes when it starts.
LEMMA KnownStep ==
  ASSUME NEW w \in Writers, Step(w), known \in [Writers -> SUBSET Edges]
  PROVE  /\ known' \in [Writers -> SUBSET Edges]
         /\ \A v \in Writers \ {w} : known'[v] = known[v]
         /\ known' = known \/ (FlushStarts(w) /\ known'[w] = {e \in Edges : table[e] # Absent})
<1>1. CASE FlushStarts(w)
  BY <1>1 DEF FlushStarts
<1>2. CASE ~FlushStarts(w)
  <2>1. known' = known
    BY <1>2 DEF Step, Progress, Emit, FlushNothing, FlushReturns, UpdateEdge, InsertEdge, Commit,
                ConnectionFails, CommitLost, DeadlockVictim, RollBack, RetryStep, edgeVars
  <2> QED
    BY <2>1
<1> QED
  BY <1>1, <1>2

\* The step of a sibling lets rows stand.
LEMMA SiblingRefreshed ==
  ASSUME RefreshInv, NEW w \in Writers, Step(w), NEW v \in Writers \ {w}
  PROVE  Refreshed(v)'
<1>1. /\ call'[v] = call[v] /\ tx'[v] = tx[v] /\ batch'[v] = batch[v]
      /\ \A e \in Edges : table[e] # Absent => table'[e] # Absent
  BY FrameStep DEF RefreshInv, FlushInv, Frame, Stay
<1>2. known'[v] = known[v] /\ Refreshed(v)
  BY KnownStep DEF RefreshInv
<1>3. Trying(v)' <=> Trying(v)
  BY <1>1 DEF Trying
<1>4. This(v)' = This(v)
  BY <1>1 DEF This
<1> QED
  BY <1>1, <1>2, <1>3, <1>4 DEF Refreshed

\* A statement that leaves behind what the batch says of a known edge goes on.
LEMMA GoesOn ==
  ASSUME RefreshInv, NEW w \in Writers, Trying(w), w \notin Direct,
         call' = call, batch' = batch, known' = known,
         \A e \in Edges : table[e] # Absent => table'[e] # Absent,
         tx'[w].at = tx[w].at + 1, tx'[w].stmt = "update",
         \A e \in known[w] \ {This(w).edge} : tx'[w].wrote[e] = tx[w].wrote[e],
         This(w).edge \in known[w] => tx'[w].wrote[This(w).edge] = This(w).attrs
  PROVE  Refreshed(w)'
<1>1. /\ tx[w].at \in 1 .. Len(batch[w]) /\ call[w].st = "trying" /\ Refreshed(w)
      /\ Len(batch[w]) \in Nat
  BY DEF Trying, RefreshInv, FlushInv, EdgeTypeOK
<1>2. ASSUME NEW e \in known[w], NEW j \in 1 .. tx'[w].at - 1, NewestOf(batch[w], tx'[w].at, j, e)
      PROVE  tx'[w].wrote[e] = batch[w][j].attrs
  <2>1. j \in Nat /\ (j = tx[w].at \/ j \in 1 .. tx[w].at - 1)
    BY <1>1
  <2>2. CASE j = tx[w].at
    <3>1. This(w) = batch[w][j] /\ This(w).edge = e
      BY <1>2, <2>2 DEF This, NewestOf
    <3> QED
      BY <3>1
  <2>3. CASE j \in 1 .. tx[w].at - 1
    <3>1. tx[w].at \in j + 1 .. tx'[w].at - 1
      BY <1>1, <2>1, <2>3
    <3>2. This(w).edge # e
      BY <1>2, <3>1 DEF NewestOf, This
    <3>3. NewestOf(batch[w], tx[w].at, j, e)
      BY <1>1, <1>2, <2>1, <2>3 DEF NewestOf
    <3> QED
      BY <1>1, <2>3, <3>2, <3>3 DEF Refreshed
  <2> QED
    BY <2>1, <2>2, <2>3
<1>3. \A e \in known'[w] : e \in Edges /\ table'[e] # Absent
  BY <1>1 DEF Refreshed
<1> QED
  BY <1>2, <1>3 DEF Refreshed

\* Every step of a writer keeps what its flush owes to the edges it found.
LEMMA OwnRefreshed ==
  ASSUME RefreshInv, NEW w \in Writers, Step(w)
  PROVE  Refreshed(w)'
<1>0. /\ EdgeTypeOK /\ RetryTypeOK /\ InJob(w) /\ Passed(w) /\ Refreshed(w)
      /\ \A e \in Edges : table[e] # Absent => table'[e] # Absent
      /\ known' = known \/ (FlushStarts(w) /\ known'[w] = {e \in Edges : table[e] # Absent})
  BY FrameStep, KnownStep DEF RefreshInv, FlushInv, EdgeTypeOK, Frame, Stay
<1>1. \A e \in known'[w] : e \in Edges /\ table'[e] # Absent
  BY <1>0 DEF Refreshed
<1>2. CASE call'[w].st # "trying"
  BY <1>1, <1>2 DEF Refreshed
<1>3. CASE w \in Direct
  BY <1>1, <1>3 DEF Refreshed
<1>4. CASE call'[w].st = "trying" /\ tx'[w] = Begin
  BY <1>1, <1>4 DEF Refreshed, Begin
<1>5. ASSUME FlushStarts(w) \/ Wake(w) PROVE tx'[w] = Begin \/ call'[w].st # "trying"
  <2>1. CASE FlushStarts(w)
    BY <1>0, <2>1 DEF FlushStarts, EdgeTypeOK
  <2>2. CASE Wake(w)
    <3>1. call[w].st = "pausing" /\ tx[w] = Begin
      BY <1>0, <2>2, RetryMoves DEF Passed
    <3>2. tx' = tx
      BY <2>2, <3>1, RetryMoves, <1>0 DEF Step, Progress, Emit, InJob, FlushNothing, FlushStarts,
         CallStarts, FlushReturns, CallReturns, UpdateEdge, InsertEdge, Trying, Commit, Committing,
         DeadlockVictim, AttemptRefused, RetryStep, ConnectionFails, AttemptFails, CommitLost,
         edgeVars
    <3> QED
      BY <3>1, <3>2
  <2> QED
    BY <1>5, <2>1, <2>2
<1>6. CASE (UpdateEdge(w) \/ InsertEdge(w)) /\ w \notin Direct
  <2>1. Trying(w) /\ UNCHANGED <<call, batch, known>>
    BY <1>6 DEF UpdateEdge, InsertEdge, retryVars
  <2>2. /\ This(w) \in Emitted /\ tx[w].wrote \in Rows /\ call[w].st = "trying"
        /\ This(w).edge \in Edges
    BY <1>0, <2>1, Statement DEF Trying, Emitted
  <2>3. CASE Write(w, This(w).edge)
    <3>1. Advance(w, [tx[w].wrote EXCEPT ![This(w).edge] = This(w).attrs])
      BY <1>6, <2>3 DEF Write
    <3>2. /\ tx'[w].at = tx[w].at + 1 /\ tx'[w].stmt = "update"
          /\ tx'[w].wrote = [tx[w].wrote EXCEPT ![This(w).edge] = This(w).attrs]
      BY <1>0, <3>1 DEF Advance, EdgeTypeOK
    <3>3. /\ \A e \in known[w] \ {This(w).edge} : tx'[w].wrote[e] = tx[w].wrote[e]
          /\ tx'[w].wrote[This(w).edge] = This(w).attrs
      BY <1>0, <2>2, <3>2 DEF Rows, Refreshed
    <3> QED
      BY <1>0, <1>6, <2>1, <3>2, <3>3, GoesOn
  <2>4. CASE UpdateEdge(w) /\ ~Write(w, This(w).edge)
    <3>1. /\ table[This(w).edge] = Absent
          /\ tx' = [tx EXCEPT ![w].stmt = "insert"]
      BY <2>4 DEF UpdateEdge
    <3>2. tx'[w].at = tx[w].at /\ tx'[w].wrote = tx[w].wrote
      BY <1>0, <3>1 DEF EdgeTypeOK
    <3>3. This(w)' = This(w)
      BY <2>1, <3>2 DEF This
    <3>4. This(w).edge \notin known[w]
      BY <1>0, <3>1 DEF Refreshed
    <3> QED
      BY <1>0, <1>1, <1>6, <2>1, <2>2, <3>2, <3>3, <3>4 DEF Refreshed
  <2>5. CASE InsertEdge(w) /\ ~Write(w, This(w).edge)
    <3>1. tx[w].stmt = "insert" /\ Advance(w, tx[w].wrote)
      BY <2>5 DEF InsertEdge
    <3>2. This(w).edge \notin known[w]
      BY <1>0, <1>6, <2>1, <2>2, <3>1 DEF Refreshed
    <3>3. tx'[w].at = tx[w].at + 1 /\ tx'[w].stmt = "update" /\ tx'[w].wrote = tx[w].wrote
      BY <1>0, <3>1 DEF Advance, EdgeTypeOK
    <3> QED
      BY <1>0, <1>6, <2>1, <3>2, <3>3, GoesOn
  <2> QED
    BY <1>6, <2>3, <2>4, <2>5
<1>7. ASSUME ~FlushStarts(w), ~Wake(w), ~UpdateEdge(w), ~InsertEdge(w)
      PROVE  call'[w].st # "trying"
  <2>1. CASE Emit(w) \/ FlushNothing(w)
    <3>1. call' = call /\ (phase[w] = "between" \/ call[w].st = "idle")
      BY <2>1 DEF Emit, FlushNothing, retryVars
    <3> QED
      BY <1>0, <3>1 DEF InJob
  <2>2. CASE FlushReturns(w)
    BY <1>0, <2>2, RetryMoves DEF FlushReturns
  <2>3. CASE Commit(w)
    BY <1>0, <2>3, RetryMoves DEF Commit
  <2>4. CASE ConnectionFails(w) \/ CommitLost(w) \/ DeadlockVictim(w)
    BY <1>0, <2>4, RetryMoves DEF ConnectionFails, CommitLost, AttemptLost, DeadlockVictim
  <2>5. CASE CloseCircuit(w)
    BY <1>0, <2>5, RetryMoves
  <2> QED
    BY <1>7, <2>1, <2>2, <2>3, <2>4, <2>5 DEF Step, Progress, RetryStep
<1> QED
  BY <1>2, <1>3, <1>4, <1>5, <1>6, <1>7

LEMMA RefreshStep == RefreshInv /\ [EdgeNext]_flushVars => RefreshInv'
<1> SUFFICES ASSUME RefreshInv, [EdgeNext]_flushVars PROVE RefreshInv'
  OBVIOUS
<1>0. FlushInv'
  BY FlushStep DEF RefreshInv
<1>1. ASSUME NEW w \in Writers, Step(w) PROVE RefreshInv'
  <2>1. known' \in [Writers -> SUBSET Edges]
    BY <1>1, KnownStep DEF RefreshInv
  <2>2. ASSUME NEW v \in Writers PROVE Refreshed(v)'
    <3>1. CASE v = w
      BY <1>1, <3>1, OwnRefreshed
    <3>2. CASE v # w
      BY <1>1, <3>2, SiblingRefreshed
    <3> QED
      BY <3>1, <3>2
  <2> QED
    BY <1>0, <2>1, <2>2 DEF RefreshInv
<1>2. CASE DatabaseStep \/ UNCHANGED flushVars
  <2>1. UNCHANGED <<call, edgeVars>>
    BY <1>2 DEF DatabaseStep, OutageBegins, OutageEnds, flushVars, retryVars
  <2> QED
    BY <1>0, <2>1 DEF RefreshInv, Refreshed, Trying, This, edgeVars
<1> QED
  BY <1>1, <1>2 DEF EdgeNext, Step

\* A call that succeeds has put into the table what its batch says last.
LEMMA CommitRefreshes ==
  ASSUME RefreshInv, NEW w \in Writers \ Direct, Committing(w), table' = Apply(w),
         NEW e \in known[w], NEW i \in 1 .. Len(batch[w]), batch[w][i].edge = e,
         \A m \in 1 .. Len(batch[w]) : batch[w][m].edge = e => m <= i
  PROVE  table'[e] = batch[w][i].attrs
<1>1. /\ call[w].st = "trying" /\ tx[w].at = Len(batch[w]) + 1 /\ batch[w] \in Seq(Emitted)
      /\ Refreshed(w) /\ e \in Edges /\ Len(batch[w]) \in Nat
  BY DEF Committing, RefreshInv, FlushInv, EdgeTypeOK, Refreshed
<1>2. i \in 1 .. tx[w].at - 1 /\ NewestOf(batch[w], tx[w].at, i, e)
  BY <1>1 DEF NewestOf
<1>3. tx[w].wrote[e] = batch[w][i].attrs
  BY <1>1, <1>2 DEF Refreshed
<1>4. batch[w][i] \in Emitted
  BY <1>1
<1>5. Wrote(w, e)
  BY <1>3, <1>4, EdgeAssumption DEF Wrote, Emitted
<1> QED
  BY <1>1, <1>3, <1>5 DEF Apply

\* A set of natural numbers that is not empty has a least element.
LEMMA LeastNatural ==
    ASSUME NEW T, T \subseteq Nat, T # {}
    PROVE  \E x \in T : \A y \in T : x <= y
<1> DEFINE R == OpToRel(<, Nat)
<1>1. IsWellFoundedOn(R, Nat)
  BY NatLessThanWellFounded
<1>2. \A x, y \in Nat : y < x => <<y, x>> \in R
  BY DEF OpToRel
<1> HIDE DEF R
<1>3. PICK x \in T : \A y \in T : ~(<<y, x>> \in R)
  BY <1>1, WFMin
<1>4. \A y \in T : ~(y < x)
  BY <1>2, <1>3
<1>5. QED
  BY <1>4

\* The greatest number of a set that has a bound.
LEMMA MaxOfBounded ==
    ASSUME NEW T, T \subseteq Nat, T # {}, NEW b \in Nat, \A y \in T : y <= b
    PROVE  Max(T) \in T /\ \A y \in T : y <= Max(T)
<1>1. PICK c \in {n \in Nat : \A y \in T : y <= n} :
          \A n \in {k \in Nat : \A y \in T : y <= k} : c <= n
  BY LeastNatural
<1>2. c \in T
  <2>1. SUFFICES ASSUME c \notin T PROVE FALSE
    OBVIOUS
  <2>2. PICK z \in T : TRUE
    OBVIOUS
  <2>3. \A y \in T : y <= c /\ y # c
    BY <1>1, <2>1
  <2>4. c - 1 \in Nat /\ \A y \in T : y <= c - 1
    BY <1>1, <2>2, <2>3
  <2>5. QED
    BY <1>1, <2>4
<1>3. \E x \in T : \A y \in T : y <= x
  BY <1>1, <1>2
<1>4. QED
  BY <1>3 DEF Max

\* The place of the last edge of a batch that is e.
LastOf(b, e) == SelectLastInSeq(b, LAMBDA x : x.edge = e)

LEMMA LastIsLast ==
  ASSUME NEW S, NEW b \in Seq(S), NEW e, NEW i, i = LastOf(b, e), i > 0
  PROVE  /\ i \in 1 .. Len(b) /\ b[i].edge = e
         /\ \A m \in 1 .. Len(b) : b[m].edge = e => m <= i
<1> DEFINE I == {m \in 1 .. Len(b) : b[m].edge = e}
<1>1. i = IF I # {} THEN Max(I) ELSE 0
  BY DEF LastOf, SelectLastInSeq
<1>2. I \subseteq Nat /\ Len(b) \in Nat /\ \A m \in I : m <= Len(b)
  OBVIOUS
<1>3. I # {} /\ i = Max(I)
  BY <1>1
<1> HIDE DEF I
<1>4. Max(I) \in I /\ \A m \in I : m <= Max(I)
  BY <1>2, <1>3, MaxOfBounded
<1> QED
  BY <1>3, <1>4 DEF I

\* For any number of writers, jobs, edges and attempts: a flush that commits leaves
\* every edge that was a row when it began as its batch last names it, whatever
\* siblings wrote meanwhile and however often it was tried (upsertRelationshipsTx).
THEOREM EdgesAreRefreshed == EdgeSpec => RefreshLands
<1> DEFINE Lands ==
      \A w \in Writers \ Direct :
         call[w].st = "trying" /\ call'[w].st = "won" =>
             \A e \in known[w] :
                 LET i == SelectLastInSeq(batch[w], LAMBDA x : x.edge = e)
                 IN  i > 0 => table'[e] = batch[w][i].attrs
<1>1. EdgeInit => RefreshInv
  BY FlushStart DEF EdgeInit, RefreshInv, Refreshed, RetryInit, NoCall
<1>2. RefreshInv /\ [EdgeNext]_flushVars => [Lands]_flushVars
  <2> SUFFICES ASSUME RefreshInv, EdgeNext, NEW w \in Writers \ Direct,
                      call[w].st = "trying", call'[w].st = "won", NEW e \in known[w],
                      NEW i, i = SelectLastInSeq(batch[w], LAMBDA x : x.edge = e), i > 0
               PROVE  table'[e] = batch[w][i].attrs
    OBVIOUS
  <2>1. RetryTypeOK /\ EdgeTypeOK
    BY DEF RefreshInv, FlushInv, EdgeTypeOK
  <2>2. PICK v \in Writers : Step(v)
    BY <2>1 DEF EdgeNext, Step, DatabaseStep, OutageBegins, OutageEnds
  <2>3. v = w
    BY <2>1, <2>2, FrameStep DEF Frame
  <2>4. CASE Commit(w)
    <3>1. Committing(w) /\ table' = Apply(w) /\ batch[w] \in Seq(Emitted)
      BY <2>1, <2>4 DEF Commit, EdgeTypeOK
    <3>2. i = LastOf(batch[w], e)
      BY DEF LastOf, SelectLastInSeq
    <3>3. /\ i \in 1 .. Len(batch[w]) /\ batch[w][i].edge = e
          /\ \A m \in 1 .. Len(batch[w]) : batch[w][m].edge = e => m <= i
      BY <3>1, <3>2, LastIsLast
    <3> QED
      BY <3>1, <3>3, CommitRefreshes
  <2>5. CASE ~Commit(w)
    <3>1. call' = call \/ FlushStarts(w) \/ FlushReturns(w) \/ CloseCircuit(w) \/ Wake(w)
            \/ ConnectionFails(w) \/ CommitLost(w) \/ DeadlockVictim(w)
      BY <2>2, <2>3, <2>5 DEF Step, Progress, Emit, FlushNothing, UpdateEdge, InsertEdge,
                              RetryStep, retryVars
    <3> QED
      BY <2>1, <3>1, RetryMoves DEF FlushStarts, FlushReturns, ConnectionFails, CommitLost,
                                    AttemptLost, DeadlockVictim
  <2> QED
    BY <2>4, <2>5
<1> QED
  BY <1>1, <1>2, RefreshStep, PTL DEF EdgeSpec, RefreshLands
=============================================================================
