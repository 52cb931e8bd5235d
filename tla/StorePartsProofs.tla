--------------------------- MODULE StorePartsProofs ---------------------------
(***************************************************************************)
(* Proofs about the smaller parts around the store, each for every value   *)
(* of its constants: the write breaker, the migrations, the paged reads,   *)
(* the sightings of native ids, the SDK cache, the graph searches and the  *)
(* quotas.  The parts share no state; the lemmas about natural numbers     *)
(* serve several of them.                                                  *)
(***************************************************************************)
EXTENDS WriteBreaker, Migrations, PagedRead, TypeSightings, SdkCache, GraphWalk, QuotaChain,
        FiniteSetTheorems, SequenceTheorems, WellFoundedInduction, TLAPS

-----------------------------------------------------------------------------
(* Natural numbers: induction over a set of them, least and greatest. *)

\* A set of natural numbers that is not empty has a least element.
LEMMA LeastNatural ==
    ASSUME NEW T, T \subseteq Nat, T # {}
    PROVE  \E x \in T : \A y \in T : x <= y
<1> DEFINE R == OpToRel(<, Nat)
<1>1. IsWellFoundedOn(R, Nat)
  BY NatLessThanWellFounded
<1>2. \A x, y \in Nat : y < x => <<y, x>> \in R
  BY DEF OpToRel
<1> HIDE DEF R
<1>3. PICK x \in T : \A y \in T : ~(<<y, x>> \in R)
  BY <1>1, WFMin
<1>4. \A y \in T : ~(y < x)
  BY <1>2, <1>3
<1>5. QED
  BY <1>4

\* Induction, the predicate given as the set of the numbers it holds of.
LEMMA NaturalInduction ==
    ASSUME NEW S, 0 \in S, \A n \in Nat : n \in S => n + 1 \in S
    PROVE  Nat \subseteq S
<1> SUFFICES ASSUME Nat \ S # {} PROVE FALSE
  OBVIOUS
<1>1. PICK x \in Nat \ S : \A y \in Nat \ S : x <= y
  BY LeastNatural
<1>2. x # 0 /\ x - 1 \in Nat /\ x - 1 \in S
  BY <1>1
<1>3. QED
  BY <1>1, <1>2

\* The least number of a set.
LEMMA MinOfNaturals ==
    ASSUME NEW T, T \subseteq Nat, T # {}
    PROVE  Min(T) \in T /\ \A y \in T : Min(T) <= y
BY LeastNatural DEF Min

\* The smaller of two numbers.
LEMMA MinOfTwo ==
    ASSUME NEW a \in Nat, NEW b \in Nat
    PROVE  Min({a, b}) = IF a <= b THEN a ELSE b
<1>1. {a, b} \subseteq Nat /\ {a, b} # {}
  OBVIOUS
<1>2. Min({a, b}) \in {a, b} /\ \A y \in {a, b} : Min({a, b}) <= y
  BY <1>1, MinOfNaturals
<1>3. Min({a, b}) = a \/ Min({a, b}) = b
  BY <1>2
<1>4. Min({a, b}) <= a /\ Min({a, b}) <= b
  BY <1>2
<1>5. QED
  BY <1>3, <1>4

\* The greatest number of a set that has a bound.
LEMMA MaxOfBounded ==
    ASSUME NEW T, T \subseteq Nat, T # {}, NEW b \in Nat, \A y \in T : y <= b
    PROVE  Max(T) \in T /\ \A y \in T : y <= Max(T)
<1>1. PICK c \in {n \in Nat : \A y \in T : y <= n} :
          \A n \in {k \in Nat : \A y \in T : y <= k} : c <= n
  BY LeastNatural
<1>2. c \in T
  <2>1. SUFFICES ASSUME c \notin T PROVE FALSE
    OBVIOUS
  <2>2. PICK z \in T : TRUE
    OBVIOUS
  <2>3. \A y \in T : y <= c /\ y # c
    BY <1>1, <2>1
  <2>4. c - 1 \in Nat /\ \A y \in T : y <= c - 1
    BY <1>1, <2>2, <2>3
  <2>5. QED
    BY <1>1, <2>4
<1>3. \E x \in T : \A y \in T : y <= x
  BY <1>1, <1>2
<1>4. QED
  BY <1>3 DEF Max

\* A finite set of natural numbers has a bound.
LEMMA FiniteIsBounded ==
    ASSUME NEW T, T \subseteq Nat, IsFiniteSet(T)
    PROVE  \E b \in Nat : \A y \in T : y <= b
<1>1. PICK n \in Nat : ExistsBijection(1 .. n, T)
  BY FS_NatBijection
<1>2. PICK f : f \in Bijection(1 .. n, T)
  BY <1>1 DEF ExistsBijection
<1>3. f \in [1 .. n -> T] /\ \A y \in T : \E i \in 1 .. n : f[i] = y
  BY <1>2 DEF Bijection, Surjection, Injection
<1>4. \A i \in 1 .. n : f[i] \in Nat
  BY <1>3
<1> DEFINE S == {k \in Nat : k <= n => \E b \in Nat : \A i \in 1 .. k : f[i] <= b}
<1>5. 0 \in S
  OBVIOUS
<1>6. ASSUME NEW k \in Nat, k \in S PROVE k + 1 \in S
  <2>1. SUFFICES ASSUME k + 1 <= n PROVE \E b \in Nat : \A i \in 1 .. k + 1 : f[i] <= b
    OBVIOUS
  <2>2. PICK b \in Nat : \A i \in 1 .. k : f[i] <= b
    BY <1>6, <2>1
  <2>3. f[k + 1] \in Nat /\ \A i \in 1 .. k : f[i] \in Nat
    <3>1. \A i \in 1 .. k + 1 : i \in 1 .. n
      BY <2>1
    <3>2. k + 1 \in 1 .. k + 1 /\ (\A i \in 1 .. k : i \in 1 .. k + 1)
      OBVIOUS
    <3>3. QED
      BY <1>4, <3>1, <3>2
  <2>4. \A i \in 1 .. k + 1 : f[i] <= b + f[k + 1]
    BY <2>2, <2>3
  <2>5. b + f[k + 1] \in Nat
    BY <2>3
  <2>6. QED
    BY <2>4, <2>5
<1>7. Nat \subseteq S
  <2> HIDE DEF S
  <2>1. QED
    BY <1>5, <1>6, NaturalInduction
<1>8. QED
  <2>1. n \in Nat /\ n \in S
    BY <1>7
  <2>2. PICK b \in Nat : \A i \in 1 .. n : f[i] <= b
    BY <2>1
  <2>3. QED
    BY <1>3, <2>2

\* The first n numbers are n numbers.
LEMMA NumbersCounted ==
    ASSUME NEW n \in Nat
    PROVE  IsFiniteSet(1 .. n) /\ Cardinality(1 .. n) = n
<1>1. IsFiniteSet(1 .. n) /\ Cardinality(1 .. n) = IF 1 > n THEN 0 ELSE n - 1 + 1
  BY FS_Interval
<1>2. QED
  BY <1>1

-----------------------------------------------------------------------------
(* WriteBreaker. *)

\* A call that may still have its first pause, and one that has had it and goes on.
FreshCall(c) == c.st = "trying" /\ ~c.failed /\ c.left > 1
WaitingCall(c) == c.st \in {"trying", "pausing"} /\ c.failed
Fresh == {w \in Writers : FreshCall(call[w])}
Waiting == {w \in Writers : WaitingCall(call[w])}
Won == {w \in Writers : call[w].st = "won"}

WriterCount == Cardinality(Writers)
\* What r resets and the start of the outage allow to stall.
Budget(r) == (r + 1) * (WriterCount + Trip - 1)

\* In an outage nobody wins, so each reset uses up a call that had won before; a
\* stalled call waits or has counted towards the circuit since the last reset; and
\* what may still stall is within the budget, too.
BreakerInv ==
    /\ BreakerTypeOK
    /\ \A w \in Writers : call[w].st = "pausing" => call[w].failed
    /\ spell.resets <= WriterCount /\ spell.stalled <= Budget(spell.resets)
    /\ db = "down" =>
          /\ spell.resets + Cardinality(Won) <= WriterCount
          /\ spell.stalled + (WriterCount + Trip - 1) <= Budget(spell.resets) + streak + Cardinality(Waiting)
          /\ spell.stalled + Cardinality(Fresh) <= Budget(spell.resets)

\* The budget is a number that each reset raises by the same amount.
LEMMA BudgetGrows ==
    /\ WriterCount \in Nat /\ Trip \in Nat /\ WriterCount + Trip - 1 \in Nat
    /\ \A r \in Nat : Budget(r) \in Nat /\ Budget(r + 1) = Budget(r) + (WriterCount + Trip - 1)
    /\ Budget(0) = WriterCount + Trip - 1
<1>1. WriterCount \in Nat /\ Trip \in Nat \ {0}
  BY RetryAssumption, FS_CardinalityType DEF WriterCount
<1>2. WriterCount + Trip - 1 \in Nat
  BY <1>1
<1>3. ASSUME NEW b \in Nat, NEW r \in Nat
      PROVE  (r + 1) * b \in Nat /\ (r + 1 + 1) * b = (r + 1) * b + b /\ (0 + 1) * b = b
  OBVIOUS
<1>4. QED
  BY <1>1, <1>2, <1>3 DEF Budget

\* How a set counts with an element, and without.
LEMMA OneMoreOrLess ==
    ASSUME NEW S, IsFiniteSet(S), NEW w
    PROVE  /\ Cardinality(S) \in Nat
           /\ IsFiniteSet(S \union {w}) /\ IsFiniteSet(S \ {w})
           /\ Cardinality(S \union {w}) = IF w \in S THEN Cardinality(S) ELSE Cardinality(S) + 1
           /\ Cardinality(S \ {w}) = IF w \in S THEN Cardinality(S) - 1 ELSE Cardinality(S)
<1>1. Cardinality(S) \in Nat
  BY FS_CardinalityType
<1>2. CASE w \in S
  <2>1. S \union {w} = S
    BY <1>2
  <2>2. QED
    BY <1>1, <1>2, <2>1, FS_RemoveElement
<1>3. CASE w \notin S
  <2>1. S \ {w} = S
    BY <1>3
  <2>2. QED
    BY <1>1, <1>3, <2>1, FS_AddElement
<1>4. QED
  BY <1>2, <1>3

\* Calls that may stall and calls that have are calls of different writers.
CountsFit ==
    /\ IsFiniteSet(Fresh) /\ IsFiniteSet(Waiting) /\ IsFiniteSet(Won)
    /\ Cardinality(Fresh) \in Nat /\ Cardinality(Waiting) \in Nat /\ Cardinality(Won) \in Nat
    /\ Cardinality(Fresh) + Cardinality(Waiting) <= WriterCount
    /\ Cardinality(Won) <= WriterCount

LEMMA WriterCounts == CountsFit
<1>1. /\ IsFiniteSet(Fresh) /\ IsFiniteSet(Waiting) /\ IsFiniteSet(Won)
      /\ Cardinality(Won) <= WriterCount
  BY RetryAssumption, FS_Subset DEF Fresh, Waiting, Won, WriterCount
<1>2. Cardinality(Fresh) \in Nat /\ Cardinality(Waiting) \in Nat /\ Cardinality(Won) \in Nat
  BY <1>1, FS_CardinalityType
<1>3. Fresh \intersect Waiting = {}
  BY DEF Fresh, Waiting, FreshCall, WaitingCall
<1>4. Cardinality(Fresh \union Waiting) = Cardinality(Fresh) + Cardinality(Waiting)
  <2>1. Cardinality(Fresh \intersect Waiting) = 0
    BY <1>3, FS_EmptySet
  <2>2. Cardinality(Fresh \union Waiting)
        = Cardinality(Fresh) + Cardinality(Waiting) - Cardinality(Fresh \intersect Waiting)
    BY <1>1, FS_Union
  <2>3. QED
    BY <1>2, <2>1, <2>2
<1>5. Cardinality(Fresh \union Waiting) <= WriterCount
  <2>1. Fresh \union Waiting \subseteq Writers
    BY DEF Fresh, Waiting
  <2>2. QED
    BY <2>1, RetryAssumption, FS_Subset DEF WriterCount
<1>6. QED
  BY <1>1, <1>2, <1>4, <1>5 DEF CountsFit

\* How much more, or less, a set counts when its element w changes.
LEMMA CountChanges ==
    ASSUME NEW S, IsFiniteSet(S), NEW T, NEW w, NEW before \in BOOLEAN, NEW after \in BOOLEAN,
           before <=> w \in S, T = IF after THEN S \union {w} ELSE S \ {w}
    PROVE  Cardinality(T)
           = Cardinality(S) + (IF after THEN 1 ELSE 0) - (IF before THEN 1 ELSE 0)
<1>1. /\ Cardinality(S) \in Nat
      /\ Cardinality(S \union {w}) = IF w \in S THEN Cardinality(S) ELSE Cardinality(S) + 1
      /\ Cardinality(S \ {w}) = IF w \in S THEN Cardinality(S) - 1 ELSE Cardinality(S)
  BY OneMoreOrLess
<1>2. CASE after
  <2>1. T = S \union {w}
    BY <1>2
  <2>2. Cardinality(T) = Cardinality(S \union {w})
    BY <2>1, Zenon
  <2>3. QED
    BY <1>1, <1>2, <2>2
<1>3. CASE ~after
  <2>1. T = S \ {w}
    BY <1>3
  <2>2. Cardinality(T) = Cardinality(S \ {w})
    BY <2>1, Zenon
  <2>3. QED
    BY <1>1, <1>3, <2>2
<1>4. QED
  BY <1>2, <1>3

\* What a set of one element at most counts.
LEMMA CountOfOne ==
    ASSUME NEW S, NEW w, NEW there \in BOOLEAN, S = IF there THEN {w} ELSE {}
    PROVE  Cardinality(S) = IF there THEN 1 ELSE 0
<1>1. CASE there
  BY <1>1, FS_Singleton, Zenon
<1>2. CASE ~there
  BY <1>2, FS_EmptySet, Zenon
<1>3. QED
  BY <1>1, <1>2

\* What a call counts for, and the step of a call from c to d.
FreshOne(c) == IF FreshCall(c) THEN 1 ELSE 0
WaitingOne(c) == IF WaitingCall(c) THEN 1 ELSE 0
WonOne(c) == IF c.st = "won" THEN 1 ELSE 0
PauseOne(c, d) == IF ~c.failed /\ d.st = "pausing" THEN 1 ELSE 0
ResetOne(c, d) == IF c.st = "won" /\ d.st = "ok" THEN 1 ELSE 0

\* What a step of the call of one writer counts for.
LEMMA OneCall ==
    ASSUME BreakerInv, NEW w \in Writers, call'[w].failed \in BOOLEAN,
           \A v \in Writers \ {w} : call'[v] = call[v]
    PROVE  /\ Cardinality(Fresh)' = Cardinality(Fresh) + FreshOne(call'[w]) - FreshOne(call[w])
           /\ Cardinality(Waiting)'
              = Cardinality(Waiting) + WaitingOne(call'[w]) - WaitingOne(call[w])
           /\ Cardinality(Won)' = Cardinality(Won) + WonOne(call'[w]) - WonOne(call[w])
           /\ Cardinality(FirstPauses) = PauseOne(call[w], call'[w])
           /\ Cardinality(Resets) = ResetOne(call[w], call'[w])
<1>1. Fresh' = {v \in Writers : FreshCall(call'[v])}
  BY DEF Fresh, FreshCall
<1>2. Waiting' = {v \in Writers : WaitingCall(call'[v])}
  BY DEF Waiting, WaitingCall
<1>3. /\ FreshCall(call'[w]) \in BOOLEAN /\ FreshCall(call[w]) \in BOOLEAN
      /\ WaitingCall(call'[w]) \in BOOLEAN /\ WaitingCall(call[w]) \in BOOLEAN
  BY DEF FreshCall, WaitingCall, BreakerInv, BreakerTypeOK, RetryTypeOK
<1>4. /\ FreshCall(call[w]) <=> w \in Fresh
      /\ Fresh' = IF FreshCall(call'[w]) THEN Fresh \union {w} ELSE Fresh \ {w}
  BY <1>1 DEF Fresh
<1>5. /\ WaitingCall(call[w]) <=> w \in Waiting
      /\ Waiting' = IF WaitingCall(call'[w]) THEN Waiting \union {w} ELSE Waiting \ {w}
  BY <1>2 DEF Waiting
<1>6. /\ (call[w].st = "won") <=> w \in Won
      /\ Won' = IF call'[w].st = "won" THEN Won \union {w} ELSE Won \ {w}
  BY DEF Won
<1>7. FirstPauses = IF ~call[w].failed /\ call'[w].st = "pausing" THEN {w} ELSE {}
  BY DEF FirstPauses, BreakerInv
<1>8. Resets = IF call[w].st = "won" /\ call'[w].st = "ok" THEN {w} ELSE {}
  BY DEF Resets
<1>9. Cardinality(Fresh') = Cardinality(Fresh) + FreshOne(call'[w]) - FreshOne(call[w])
  <2> HIDE DEF FreshCall
  <2>1. QED
    BY <1>3, <1>4, WriterCounts, CountChanges DEF CountsFit, FreshOne, WaitingOne, WonOne,
       PauseOne, ResetOne
<1>10. Cardinality(Waiting') = Cardinality(Waiting) + WaitingOne(call'[w]) - WaitingOne(call[w])
  BY <1>3, <1>5, WriterCounts, CountChanges DEF CountsFit, FreshOne, WaitingOne, WonOne,
     PauseOne, ResetOne
<1>11. Cardinality(Won') = Cardinality(Won) + WonOne(call'[w]) - WonOne(call[w])
  BY <1>6, WriterCounts, CountChanges DEF CountsFit, FreshOne, WaitingOne, WonOne, PauseOne,
     ResetOne
<1>12. Cardinality(FirstPauses) = PauseOne(call[w], call'[w])
  BY <1>7, CountOfOne DEF FreshOne, WaitingOne, WonOne, PauseOne, ResetOne
<1>13. Cardinality(Resets) = ResetOne(call[w], call'[w])
  BY <1>8, CountOfOne DEF FreshOne, WaitingOne, WonOne, PauseOne, ResetOne
<1>14. QED
  BY <1>9, <1>10, <1>11, <1>12, <1>13

\* A call that only changes its state.
CallRecords == [st : {"idle", "trying", "pausing", "won", "ok", "failed"},
                left : 0 .. MaxAttempts, failed : BOOLEAN]

LEMMA StateReplaced ==
    ASSUME NEW c \in CallRecords, NEW st
    PROVE  [c EXCEPT !.st = st] = [st |-> st, left |-> c.left, failed |-> c.failed]
BY DEF CallRecords

\* The types of the calls.
LEMMA CallsStayTyped ==
    ASSUME BreakerInv, RetryNext
    PROVE  RetryTypeOK' /\ \A w \in Writers : call'[w].st = "pausing" => call'[w].failed
<1> USE RetryAssumption DEF BreakerInv, BreakerTypeOK, RetryTypeOK
<1> USE DEF CallRecords
<1>1. CASE OutageBegins \/ OutageEnds
  BY <1>1 DEF OutageBegins, OutageEnds
<1>2. ASSUME NEW w \in Writers, NEW c \in CallRecords, call' = [call EXCEPT ![w] = c],
             c.st = "pausing" => c.failed, db' = db, streak' \in Nat
      PROVE  RetryTypeOK' /\ \A v \in Writers : call'[v].st = "pausing" => call'[v].failed
  BY <1>2
<1>3. ASSUME NEW w \in Writers, NEW st \in {"trying", "won", "ok"},
             call' = [call EXCEPT ![w].st = st], db' = db, streak' \in Nat
      PROVE  RetryTypeOK' /\ \A v \in Writers : call'[v].st = "pausing" => call'[v].failed
  <2> DEFINE c == [st |-> st, left |-> call[w].left, failed |-> call[w].failed]
  <2>1. c \in CallRecords /\ call[w] \in CallRecords
    OBVIOUS
  <2>2. [call[w] EXCEPT !.st = st] = c
    BY <2>1, StateReplaced
  <2>3. call' = [call EXCEPT ![w] = c]
    BY <1>3, <2>2
  <2>4. QED
    BY <1>2, <1>3, <2>1, <2>3
<1>4. ASSUME NEW w \in Writers, NEW owned \in BOOLEAN, CallStarts(w, owned)
      PROVE  RetryTypeOK' /\ \A v \in Writers : call'[v].st = "pausing" => call'[v].failed
  <2>1. Start(AttemptsAllowed(owned)) \in CallRecords
    <3>1. AttemptsAllowed(owned) \in 0 .. MaxAttempts
      <4>1. MaxAttempts \in Nat /\ 1 <= MaxAttempts
        OBVIOUS
      <4>2. AttemptsAllowed(owned) = 1 \/ AttemptsAllowed(owned) = MaxAttempts
        BY DEF AttemptsAllowed
      <4>3. QED
        BY <4>1, <4>2
    <3>2. QED
      BY <3>1 DEF Start
  <2>2. Start(AttemptsAllowed(owned)).st # "pausing"
    BY DEF Start
  <2>3. QED
    BY <1>2, <1>4, <2>1, <2>2 DEF CallStarts
<1>5. ASSUME NEW w \in Writers, Pause(w)
      PROVE  RetryTypeOK' /\ \A v \in Writers : call'[v].st = "pausing" => call'[v].failed
  <2> DEFINE c == [st |-> "pausing", left |-> call[w].left - 1, failed |-> TRUE]
  <2>1. c \in CallRecords /\ call' = [call EXCEPT ![w] = c]
    BY <1>5 DEF Pause
  <2>2. QED
    BY <1>2, <1>5, <2>1 DEF Pause
<1>6. ASSUME NEW w \in Writers, Exhaust(w)
      PROVE  RetryTypeOK' /\ \A v \in Writers : call'[v].st = "pausing" => call'[v].failed
  BY <1>2, <1>6 DEF Exhaust
<1>7. ASSUME NEW w \in Writers, AttemptSucceeds(w) \/ CloseCircuit(w) \/ Wake(w)
      PROVE  RetryTypeOK' /\ \A v \in Writers : call'[v].st = "pausing" => call'[v].failed
  BY <1>3, <1>7 DEF AttemptSucceeds, CloseCircuit, Wake
<1>8. ASSUME NEW w \in Writers, AttemptRefused(w)
      PROVE  RetryTypeOK' /\ \A v \in Writers : call'[v].st = "pausing" => call'[v].failed
  BY <1>2, <1>8 DEF AttemptRefused
<1>9. ASSUME NEW w \in Writers, CallReturns(w)
      PROVE  RetryTypeOK' /\ \A v \in Writers : call'[v].st = "pausing" => call'[v].failed
  BY <1>2, <1>9 DEF CallReturns, NoCall
<1>10. QED
  BY <1>1, <1>4, <1>5, <1>6, <1>7, <1>8, <1>9 DEF RetryNext, AttemptFails, AttemptLost

\* What Watch counts in an outage.
LEMMA WatchCounts ==
    ASSUME BreakerInv, BreakerNext, db = "down"
    PROVE  /\ spell'.stalled = spell.stalled + Cardinality(FirstPauses)
           /\ spell'.resets = spell.resets + Cardinality(Resets)
           /\ BreakerTypeOK'
<1>1. IsFiniteSet(Starts) /\ IsFiniteSet(FirstPauses) /\ IsFiniteSet(Resets)
  BY RetryAssumption, FS_Subset DEF Starts, FirstPauses, Resets
<1>2. Cardinality(Starts) \in Nat /\ Cardinality(FirstPauses) \in Nat /\ Cardinality(Resets) \in Nat
  BY <1>1, FS_CardinalityType
<1>3. spell \in [nr : 0 .. MaxOutages, calls : 0 .. MaxCalls, stalled : Nat, resets : Nat]
  BY DEF BreakerInv, BreakerTypeOK
<1>4. spell' = [nr |-> spell.nr, calls |-> spell.calls + Cardinality(Starts),
                stalled |-> spell.stalled + Cardinality(FirstPauses),
                resets |-> spell.resets + Cardinality(Resets)]
  BY <1>3 DEF BreakerNext, Watch
<1>5. spell' \in [nr : 0 .. MaxOutages, calls : 0 .. MaxCalls, stalled : Nat, resets : Nat]
  BY <1>2, <1>3, <1>4, BreakerAssumption DEF BreakerNext
<1>6. RetryTypeOK'
  BY CallsStayTyped DEF BreakerNext
<1>7. QED
  BY <1>4, <1>5, <1>6 DEF BreakerTypeOK

\* A step in an outage keeps the counts.
LEMMA OutageStep ==
    ASSUME BreakerInv, BreakerNext, db = "down"
    PROVE  BreakerInv'
<1>1. /\ spell'.stalled = spell.stalled + Cardinality(FirstPauses)
      /\ spell'.resets = spell.resets + Cardinality(Resets)
      /\ BreakerTypeOK' /\ \A w \in Writers : call'[w].st = "pausing" => call'[w].failed
  BY WatchCounts, CallsStayTyped DEF BreakerNext
<1> DEFINE r == spell.resets
           n == spell.stalled
           f == Cardinality(Fresh)
           p == Cardinality(Waiting)
           won == Cardinality(Won)
           b == WriterCount + Trip - 1
<1>2. /\ r \in Nat /\ n \in Nat /\ streak \in Nat
      /\ r + won <= WriterCount
      /\ n + b <= Budget(r) + streak + p
      /\ n + f <= Budget(r)
  BY DEF BreakerInv, BreakerTypeOK, RetryTypeOK
<1>3. f \in Nat /\ p \in Nat /\ won \in Nat /\ f + p <= WriterCount
  BY WriterCounts DEF CountsFit
<1>4. /\ WriterCount \in Nat /\ Trip \in Nat /\ b \in Nat /\ Budget(r) \in Nat /\ Budget(r + 1) = Budget(r) + b
  BY <1>2, BudgetGrows
<1> DEFINE Kept ==
              /\ spell'.resets + Cardinality(Won)' <= WriterCount
              /\ spell'.stalled + b <= Budget(spell'.resets) + streak' + Cardinality(Waiting)'
              /\ spell'.stalled + Cardinality(Fresh)' <= Budget(spell'.resets)
<1>5. ASSUME OutageEnds PROVE Kept
  <2>1. UNCHANGED <<streak, call>>
    BY <1>5 DEF OutageEnds
  <2>2. Fresh' = Fresh /\ Waiting' = Waiting /\ Won' = Won
    BY <2>1 DEF Fresh, Waiting, Won, FreshCall, WaitingCall
  <2>3. FirstPauses = {} /\ Resets = {}
    BY <2>1 DEF FirstPauses, Resets, BreakerInv
  <2>4. Cardinality(FirstPauses) = 0 /\ Cardinality(Resets) = 0
    BY <2>3, FS_EmptySet
  <2>5. Kept
    BY <1>1, <1>2, <1>3, <1>4, <2>1, <2>2, <2>4
  <2>6. QED
    BY <2>5
<1>6. ASSUME NEW w \in Writers, NEW owned \in BOOLEAN, CallStarts(w, owned) PROVE Kept
  <2> DEFINE c == Start(AttemptsAllowed(owned))
  <2>1. call[w].st = "idle" /\ call' = [call EXCEPT ![w] = c] /\ UNCHANGED streak
    BY <1>6 DEF CallStarts
  <2>2. call'[w] = c /\ \A v \in Writers \ {w} : call'[v] = call[v]
    BY <2>1 DEF BreakerInv, BreakerTypeOK, RetryTypeOK
  <2> HIDE DEF c
  <2>3. c.st = "trying" /\ c.failed = FALSE /\ (streak >= Trip => c.left = 1)
    BY DEF c, Start, AttemptsAllowed
  <2>4. /\ FreshOne(c) \in {0, 1} /\ (streak >= Trip => FreshOne(c) = 0)
        /\ FreshOne(call[w]) = 0 /\ WaitingOne(call[w]) = 0
        /\ WonOne(call[w]) = 0 /\ WaitingOne(c) = 0 /\ WonOne(c) = 0
        /\ PauseOne(call[w], c) = 0 /\ ResetOne(call[w], c) = 0
    BY <2>1, <2>3 DEF FreshOne, WaitingOne, WonOne, PauseOne, ResetOne, FreshCall, WaitingCall
  <2>5. /\ Cardinality(Fresh)' = Cardinality(Fresh) + FreshOne(c) - FreshOne(call[w])
        /\ Cardinality(Waiting)' = Cardinality(Waiting) + WaitingOne(c) - WaitingOne(call[w])
        /\ Cardinality(Won)' = Cardinality(Won) + WonOne(c) - WonOne(call[w])
        /\ Cardinality(FirstPauses) = PauseOne(call[w], c)
        /\ Cardinality(Resets) = ResetOne(call[w], c)
    BY <2>1, <2>2, <2>3, OneCall
  <2>6. /\ Cardinality(Fresh)' = f + FreshOne(c) /\ Cardinality(Waiting)' = p
        /\ Cardinality(Won)' = won /\ Cardinality(FirstPauses) = 0 /\ Cardinality(Resets) = 0
    BY <1>3, <2>4, <2>5
  <2>7. Cardinality(Fresh)' + Cardinality(Waiting)' <= WriterCount
    <3>1. CountsFit'
      BY WriterCounts, PTL
    <3>2. QED
      BY <3>1 DEF CountsFit
  <2>8. QED
    BY <1>1, <1>2, <1>3, <1>4, <2>1, <2>4, <2>6, <2>7
<1>7. ASSUME NEW w \in Writers, call[w].st = "trying", Pause(w) PROVE Kept
  <2> DEFINE c == [st |-> "pausing", left |-> call[w].left - 1, failed |-> TRUE]
  <2>1. /\ call[w].st = "trying" /\ call[w].left > 1 /\ call[w].failed \in BOOLEAN /\ c.failed \in BOOLEAN
        /\ call' = [call EXCEPT ![w] = c] /\ UNCHANGED streak
    BY <1>7 DEF Pause, BreakerInv, BreakerTypeOK, RetryTypeOK
  <2>2. call'[w] = c /\ \A v \in Writers \ {w} : call'[v] = call[v]
    BY <2>1 DEF BreakerInv, BreakerTypeOK, RetryTypeOK
  <2> HIDE DEF c
  <2>3. /\ FreshOne(c) = 0 /\ FreshOne(call[w]) = PauseOne(call[w], c)
        /\ WaitingOne(c) = 1 /\ WaitingOne(call[w]) = 1 - PauseOne(call[w], c)
        /\ WonOne(c) = 0 /\ WonOne(call[w]) = 0
        /\ ResetOne(call[w], c) = 0 /\ PauseOne(call[w], c) \in {0, 1}
    BY <2>1, RetryAssumption DEF c, FreshOne, WaitingOne, WonOne, PauseOne, ResetOne,
       FreshCall, WaitingCall, BreakerInv, BreakerTypeOK, RetryTypeOK, CallRecords, NoCall
  <2>4. /\ Cardinality(Fresh)' = Cardinality(Fresh) + FreshOne(c) - FreshOne(call[w])
        /\ Cardinality(Waiting)' = Cardinality(Waiting) + WaitingOne(c) - WaitingOne(call[w])
        /\ Cardinality(Won)' = Cardinality(Won) + WonOne(c) - WonOne(call[w])
        /\ Cardinality(FirstPauses) = PauseOne(call[w], c)
        /\ Cardinality(Resets) = ResetOne(call[w], c)
    BY <2>1, <2>2, OneCall
  <2>5. /\ Cardinality(Fresh)' = f - PauseOne(call[w], c) /\ PauseOne(call[w], c) \in {0, 1}
        /\ Cardinality(Waiting)' = p + PauseOne(call[w], c) /\ Cardinality(Won)' = won
        /\ Cardinality(FirstPauses) = PauseOne(call[w], c) /\ Cardinality(Resets) = 0
    BY <1>3, <2>1, <2>3, <2>4
  <2>6. QED
    BY <1>1, <1>2, <1>3, <1>4, <2>1, <2>5
<1>8. ASSUME NEW w \in Writers, call[w].st = "trying", Exhaust(w) PROVE Kept
  <2> DEFINE c == [st |-> "failed", left |-> 0, failed |-> TRUE]
  <2>1. /\ call[w].st = "trying" /\ call[w].left = 1
        /\ call' = [call EXCEPT ![w] = c] /\ streak' = streak + 1 /\ c.failed = TRUE
    BY <1>8 DEF Exhaust
  <2>2. call'[w] = c /\ \A v \in Writers \ {w} : call'[v] = call[v]
    BY <2>1 DEF BreakerInv, BreakerTypeOK, RetryTypeOK
  <2> HIDE DEF c
  <2>3. /\ FreshOne(c) = 0 /\ FreshOne(call[w]) = 0
        /\ WaitingOne(c) = 0 /\ WaitingOne(call[w]) \in {0, 1}
        /\ WonOne(c) = 0 /\ WonOne(call[w]) = 0
        /\ PauseOne(call[w], c) = 0 /\ ResetOne(call[w], c) = 0
    BY <2>1, RetryAssumption DEF c, FreshOne, WaitingOne, WonOne, PauseOne, ResetOne,
       FreshCall, WaitingCall, BreakerInv, BreakerTypeOK, RetryTypeOK, CallRecords, NoCall
  <2>4. /\ Cardinality(Fresh)' = Cardinality(Fresh) + FreshOne(c) - FreshOne(call[w])
        /\ Cardinality(Waiting)' = Cardinality(Waiting) + WaitingOne(c) - WaitingOne(call[w])
        /\ Cardinality(Won)' = Cardinality(Won) + WonOne(c) - WonOne(call[w])
        /\ Cardinality(FirstPauses) = PauseOne(call[w], c)
        /\ Cardinality(Resets) = ResetOne(call[w], c)
    BY <2>1, <2>2, OneCall
  <2>5. /\ Cardinality(Fresh)' = f /\ Cardinality(Waiting)' \in {p, p - 1} /\ Cardinality(Won)' = won
        /\ Cardinality(FirstPauses) = 0 /\ Cardinality(Resets) = 0
    BY <1>3, <2>1, <2>3, <2>4
  <2>6. QED
    BY <1>1, <1>2, <1>3, <1>4, <2>1, <2>5
<1>9. ASSUME NEW w \in Writers, CloseCircuit(w) PROVE Kept
  <2> DEFINE c == [st |-> "ok", left |-> call[w].left, failed |-> call[w].failed]
  <2>1. /\ call[w].st = "won" /\ call[w].failed \in BOOLEAN /\ c.failed \in BOOLEAN
        /\ call' = [call EXCEPT ![w] = c] /\ streak' = 0
    <3>1. call[w] \in CallRecords
      BY DEF BreakerInv, BreakerTypeOK, RetryTypeOK, CallRecords
    <3>2. [call[w] EXCEPT !.st = "ok"] = c
      BY <3>1, StateReplaced
    <3>3. QED
      BY <1>9, <3>1, <3>2 DEF CloseCircuit, BreakerInv, CallRecords
  <2>2. call'[w] = c /\ \A v \in Writers \ {w} : call'[v] = call[v]
    BY <2>1 DEF BreakerInv, BreakerTypeOK, RetryTypeOK
  <2> HIDE DEF c
  <2>3. /\ FreshOne(c) = 0 /\ FreshOne(call[w]) = 0
        /\ WaitingOne(c) = 0 /\ WaitingOne(call[w]) = 0
        /\ WonOne(c) = 0 /\ WonOne(call[w]) = 1
        /\ PauseOne(call[w], c) = 0 /\ ResetOne(call[w], c) = 1
    BY <2>1, RetryAssumption DEF c, FreshOne, WaitingOne, WonOne, PauseOne, ResetOne,
       FreshCall, WaitingCall, BreakerInv, BreakerTypeOK, RetryTypeOK, CallRecords, NoCall
  <2>4. /\ Cardinality(Fresh)' = Cardinality(Fresh) + FreshOne(c) - FreshOne(call[w])
        /\ Cardinality(Waiting)' = Cardinality(Waiting) + WaitingOne(c) - WaitingOne(call[w])
        /\ Cardinality(Won)' = Cardinality(Won) + WonOne(c) - WonOne(call[w])
        /\ Cardinality(FirstPauses) = PauseOne(call[w], c)
        /\ Cardinality(Resets) = ResetOne(call[w], c)
    BY <2>1, <2>2, OneCall
  <2>5. /\ Cardinality(Fresh)' = f /\ Cardinality(Waiting)' = p /\ Cardinality(Won)' = won - 1
        /\ Cardinality(FirstPauses) = 0 /\ Cardinality(Resets) = 1
    BY <1>3, <2>1, <2>3, <2>4
  <2>6. QED
    BY <1>1, <1>2, <1>3, <1>4, <2>1, <2>5
<1>10. ASSUME NEW w \in Writers, Wake(w) PROVE Kept
  <2> DEFINE c == [st |-> "trying", left |-> call[w].left, failed |-> call[w].failed]
  <2>1. /\ call[w].st = "pausing" /\ call[w].failed = TRUE /\ c.failed \in BOOLEAN
        /\ call' = [call EXCEPT ![w] = c] /\ UNCHANGED streak
    <3>1. call[w] \in CallRecords
      BY DEF BreakerInv, BreakerTypeOK, RetryTypeOK, CallRecords
    <3>2. [call[w] EXCEPT !.st = "trying"] = c
      BY <3>1, StateReplaced
    <3>3. QED
      BY <1>10, <3>1, <3>2 DEF Wake, BreakerInv, CallRecords
  <2>2. call'[w] = c /\ \A v \in Writers \ {w} : call'[v] = call[v]
    BY <2>1 DEF BreakerInv, BreakerTypeOK, RetryTypeOK
  <2> HIDE DEF c
  <2>3. /\ FreshOne(c) = 0 /\ FreshOne(call[w]) = 0
        /\ WaitingOne(c) = 1 /\ WaitingOne(call[w]) = 1
        /\ WonOne(c) = 0 /\ WonOne(call[w]) = 0
        /\ PauseOne(call[w], c) = 0 /\ ResetOne(call[w], c) = 0
    BY <2>1, RetryAssumption DEF c, FreshOne, WaitingOne, WonOne, PauseOne, ResetOne,
       FreshCall, WaitingCall, BreakerInv, BreakerTypeOK, RetryTypeOK, CallRecords, NoCall
  <2>4. /\ Cardinality(Fresh)' = Cardinality(Fresh) + FreshOne(c) - FreshOne(call[w])
        /\ Cardinality(Waiting)' = Cardinality(Waiting) + WaitingOne(c) - WaitingOne(call[w])
        /\ Cardinality(Won)' = Cardinality(Won) + WonOne(c) - WonOne(call[w])
        /\ Cardinality(FirstPauses) = PauseOne(call[w], c)
        /\ Cardinality(Resets) = ResetOne(call[w], c)
    BY <2>1, <2>2, OneCall
  <2>5. /\ Cardinality(Fresh)' = f /\ Cardinality(Waiting)' = p /\ Cardinality(Won)' = won
        /\ Cardinality(FirstPauses) = 0 /\ Cardinality(Resets) = 0
    BY <1>3, <2>1, <2>3, <2>4
  <2>6. QED
    BY <1>1, <1>2, <1>3, <1>4, <2>1, <2>5
<1>11. ASSUME NEW w \in Writers, CallReturns(w) PROVE Kept
  <2> DEFINE c == NoCall
  <2>1. /\ call[w].st \in {"ok", "failed"} /\ c.failed = FALSE /\ c.st = "idle"
        /\ call' = [call EXCEPT ![w] = c] /\ UNCHANGED streak
    BY <1>11 DEF CallReturns, NoCall
  <2>2. call'[w] = c /\ \A v \in Writers \ {w} : call'[v] = call[v]
    BY <2>1 DEF BreakerInv, BreakerTypeOK, RetryTypeOK
  <2> HIDE DEF c
  <2>3. /\ FreshOne(c) = 0 /\ FreshOne(call[w]) = 0
        /\ WaitingOne(c) = 0 /\ WaitingOne(call[w]) = 0
        /\ WonOne(c) = 0 /\ WonOne(call[w]) = 0
        /\ PauseOne(call[w], c) = 0 /\ ResetOne(call[w], c) = 0
    BY <2>1, RetryAssumption DEF c, FreshOne, WaitingOne, WonOne, PauseOne, ResetOne,
       FreshCall, WaitingCall, BreakerInv, BreakerTypeOK, RetryTypeOK, CallRecords, NoCall
  <2>4. /\ Cardinality(Fresh)' = Cardinality(Fresh) + FreshOne(c) - FreshOne(call[w])
        /\ Cardinality(Waiting)' = Cardinality(Waiting) + WaitingOne(c) - WaitingOne(call[w])
        /\ Cardinality(Won)' = Cardinality(Won) + WonOne(c) - WonOne(call[w])
        /\ Cardinality(FirstPauses) = PauseOne(call[w], c)
        /\ Cardinality(Resets) = ResetOne(call[w], c)
    BY <2>1, <2>2, OneCall
  <2>5. /\ Cardinality(Fresh)' = f /\ Cardinality(Waiting)' = p /\ Cardinality(Won)' = won
        /\ Cardinality(FirstPauses) = 0 /\ Cardinality(Resets) = 0
    BY <1>3, <2>1, <2>3, <2>4
  <2>6. QED
    BY <1>1, <1>2, <1>3, <1>4, <2>1, <2>5
<1>12. Kept
  BY <1>5, <1>6, <1>7, <1>8, <1>9, <1>10, <1>11
     DEF BreakerNext, RetryNext, OutageBegins, AttemptSucceeds, AttemptFails, AttemptLost,
        AttemptRefused
<1>13. CountsFit' /\ (CountsFit' => Cardinality(Won)' \in Nat /\ Cardinality(Fresh)' \in Nat)
  <2>1. CountsFit'
    BY WriterCounts, PTL
  <2>2. QED
    BY <2>1 DEF CountsFit
<1>14. spell'.resets \in Nat /\ spell'.stalled \in Nat /\ Budget(spell'.resets) \in Nat
  <2>1. spell'.resets \in Nat /\ spell'.stalled \in Nat
    BY <1>1 DEF BreakerTypeOK
  <2>2. QED
    BY <2>1, BudgetGrows
<1>15. WriterCount' = WriterCount /\ Trip' = Trip /\ Budget(spell.resets)' = Budget(spell'.resets)
  BY DEF WriterCount, Budget
<1>16. QED
  BY <1>1, <1>4, <1>12, <1>13, <1>14, <1>15 DEF BreakerInv

\* Every step keeps it.
LEMMA BreakerStep == BreakerInv /\ [BreakerNext]_breakerVars => BreakerInv'
<1> SUFFICES ASSUME BreakerInv, [BreakerNext]_breakerVars PROVE BreakerInv'
  OBVIOUS
<1>1. CASE UNCHANGED breakerVars
  BY <1>1 DEF breakerVars, retryVars, BreakerInv, BreakerTypeOK, RetryTypeOK, Won, Fresh, Waiting,
     FreshCall, WaitingCall, Budget, WriterCount
<1>2. CASE BreakerNext /\ db = "down"
  BY <1>2, OutageStep
<1>3. CASE BreakerNext /\ db = "up"
  <2>1. RetryTypeOK' /\ \A w \in Writers : call'[w].st = "pausing" => call'[w].failed
    BY <1>3, CallsStayTyped DEF BreakerNext
  <2>2. spell' = IF db' = "down" THEN NewSpell(spell.nr + 1) ELSE spell
    BY <1>3 DEF BreakerNext, Watch
  <2>3. CASE db' = "down"
    <3>1. UNCHANGED <<streak, call>>
      BY <1>3, <2>3 DEF BreakerNext, RetryNext, OutageBegins, OutageEnds, CallStarts,
         AttemptSucceeds,
         AttemptFails, AttemptLost, AttemptRefused, Pause, Exhaust, CloseCircuit, Wake, CallReturns
    <3>2. Fresh' = Fresh /\ Waiting' = Waiting /\ Won' = Won
      BY <3>1 DEF Fresh, Waiting, Won, FreshCall, WaitingCall
    <3>3. /\ spell'.nr = spell.nr + 1 /\ spell'.calls = 0 /\ spell'.stalled = 0 /\ spell'.resets = 0
          /\ spell' = [nr |-> spell.nr + 1, calls |-> 0, stalled |-> 0, resets |-> 0]
      BY <2>2, <2>3 DEF NewSpell
    <3>4. BreakerTypeOK'
      BY <1>3, <2>1, <3>3, BreakerAssumption DEF BreakerInv, BreakerTypeOK, BreakerNext
    <3>5. streak \in Nat /\ WriterCount' = WriterCount /\ Trip' = Trip /\ Budget(spell'.resets) = WriterCount + Trip - 1
      BY <3>3, BudgetGrows DEF BreakerInv, BreakerTypeOK, RetryTypeOK, WriterCount
    <3>6. /\ Cardinality(Fresh) \in Nat /\ Cardinality(Waiting) \in Nat /\ Cardinality(Won) \in Nat
          /\ Cardinality(Fresh) <= WriterCount /\ Cardinality(Won) <= WriterCount
          /\ WriterCount \in Nat /\ Trip \in Nat /\ WriterCount <= WriterCount + Trip - 1
      BY WriterCounts, BudgetGrows, RetryAssumption DEF CountsFit
    <3>7. Budget(spell.resets)' = Budget(spell'.resets)
      BY DEF Budget, WriterCount
    <3>8. QED
      BY <2>1, <3>1, <3>2, <3>3, <3>4, <3>5, <3>6, <3>7 DEF BreakerInv
  <2>4. CASE db' # "down"
    <3>1. UNCHANGED spell
      BY <2>2, <2>4
    <3>2. BreakerTypeOK'
      BY <2>1, <3>1 DEF BreakerInv, BreakerTypeOK
    <3>3. WriterCount' = WriterCount /\ Budget(spell.resets)' = Budget(spell.resets)
      BY <3>1 DEF Budget, WriterCount
    <3>4. QED
      BY <2>1, <2>4, <3>1, <3>2, <3>3 DEF BreakerInv
  <2>5. QED
    BY <2>3, <2>4
<1>4. QED
  BY <1>1, <1>2, <1>3 DEF BreakerInv, BreakerTypeOK, RetryTypeOK

\* In one outage the circuit and the writers bound the calls that wait for a retry, not
\* the number of writes (withWriteRetry).
THEOREM BreakerKeepsBound == BreakerSpec => []BreakerBoundsRetries
<1>1. BreakerInit => BreakerInv
  <2> SUFFICES ASSUME BreakerInit PROVE BreakerInv
    OBVIOUS
  <2>1. RetryTypeOK
    BY RetryAssumption DEF BreakerInit, RetryInit, RetryTypeOK, NoCall
  <2>2. spell = [nr |-> 0, calls |-> 0, stalled |-> 0, resets |-> 0]
    BY DEF BreakerInit, NewSpell
  <2>3. BreakerTypeOK
    BY <2>1, <2>2, BreakerAssumption DEF BreakerTypeOK
  <2>4. 0 <= WriterCount /\ 0 <= Budget(0) /\ spell.resets = 0 /\ spell.stalled = 0
    BY <2>2, BudgetGrows
  <2>5. QED
    BY <2>3, <2>4 DEF BreakerInit, RetryInit, NoCall, BreakerInv
<1>2. BreakerInv => BreakerBoundsRetries
  BY DEF BreakerInv, BreakerBoundsRetries, Budget, WriterCount
<1>3. QED
  BY <1>1, <1>2, BreakerStep, PTL DEF BreakerSpec

-----------------------------------------------------------------------------
(* Migrations. *)

AtWork == {"behind", "next", "applied", "noted"}
OpenerPlaces == AtWork \union {"closed", "open", "failed"}

\* What keeps the schema whole: versions are recorded from 1 on, an opener at work
\* has recorded or seen everything it knows but what it has left to do, and two of
\* them never hold a record of the same version that is not committed.
MigInv ==
    /\ serial \in BOOLEAN /\ tracked \in BOOLEAN
    /\ opener \in [Openers -> [at : OpenerPlaces, todo : SUBSET Nat, sawTable : BOOLEAN]]
    /\ recorded \subseteq Versions \intersect Nat /\ IsFiniteSet(recorded)
    /\ effects = [v \in Versions |-> IF v \in recorded THEN 1 ELSE 0]
    /\ \A v \in recorded : 1 .. v \subseteq recorded
    /\ \A o \in Openers : At(o, "open") => 1 .. Known[o] \subseteq recorded
    /\ \A o \in Openers : opener[o].at \in AtWork =>
          /\ opener[o].todo # {} /\ opener[o].todo \subseteq 1 .. Known[o]
          /\ (1 .. Known[o]) \ opener[o].todo \subseteq recorded
    /\ \A o \in Openers : At(o, "noted") => Turn(o) \notin recorded
    /\ \A o, q \in Openers : At(o, "noted") /\ At(q, "noted") /\ Turn(o) = Turn(q) => o = q

\* What an opener knows is a version.
LEMMA KnownVersions ==
    ASSUME NEW o \in Openers
    PROVE  1 .. Known[o] \subseteq Versions
<1> DEFINE K == {Known[q] : q \in Openers}
           f == [q \in Openers |-> Known[q]]
<1>1. f \in Surjection(Openers, K)
  BY DEF Surjection
<1>2. IsFiniteSet(K)
  BY <1>1, FS_Surjection, MigrationsAssumption
<1>3. K \subseteq Nat /\ Known[o] \in K /\ K # {}
  BY MigrationsAssumption
<1> HIDE DEF K
<1>4. PICK b \in Nat : \A y \in K : y <= b
  BY <1>2, <1>3, FiniteIsBounded
<1>5. Max(K) \in K /\ \A y \in K : y <= Max(K)
  BY <1>3, <1>4, MaxOfBounded
<1>6. Known[o] \in Nat /\ Max(K) \in Nat /\ Known[o] <= Max(K)
  BY <1>3, <1>5
<1>7. Versions = 1 .. Max(K)
  BY DEF Versions, K
<1>8. QED
  BY <1>6, <1>7

\* The turn of an opener at work is what it has left to do first.
LEMMA TurnIsNext ==
    ASSUME MigInv, NEW o \in Openers, opener[o].at \in AtWork
    PROVE  /\ Turn(o) \in opener[o].todo /\ Turn(o) \in Versions /\ Turn(o) \in Nat
           /\ \A y \in opener[o].todo : Turn(o) <= y
           /\ 1 .. (Turn(o) - 1) \subseteq recorded
<1>1. opener[o].todo # {} /\ opener[o].todo \subseteq 1 .. Known[o] /\ Known[o] \in Nat
      /\ (1 .. Known[o]) \ opener[o].todo \subseteq recorded
  BY MigrationsAssumption DEF MigInv
<1>2. opener[o].todo \subseteq Nat
  BY <1>1
<1>3. Turn(o) \in opener[o].todo /\ \A y \in opener[o].todo : Turn(o) <= y
  BY <1>1, <1>2, MinOfNaturals DEF Turn
<1>4. Turn(o) \in Versions
  BY <1>1, <1>3, KnownVersions
<1>5. \A i \in 1 .. (Turn(o) - 1) : i \in 1 .. Known[o] /\ i \notin opener[o].todo
  BY <1>1, <1>2, <1>3
<1>6. QED
  BY <1>1, <1>2, <1>3, <1>4, <1>5

\* An opener that only moves to a place keeps the invariant, if it has no record
\* there that stands in another's way.
LEMMA MoveKeeps ==
    ASSUME MigInv, NEW o \in Openers, NEW place \in OpenerPlaces, Moves(o, place),
           UNCHANGED <<serial, recorded, effects>>, tracked' \in BOOLEAN,
           place # "open" /\ place # "noted",
           place \in AtWork => opener[o].at \in AtWork
    PROVE  MigInv'
<1> USE DEF MigInv, At, Moves
<1>1. opener' = [opener EXCEPT ![o].at = place]
  OBVIOUS
<1>2. /\ \A q \in Openers : opener'[q].todo = opener[q].todo /\ Turn(q)' = Turn(q)
      /\ opener'[o].at = place
      /\ \A q \in Openers : q # o => opener'[q] = opener[q]
  BY <1>1 DEF Turn
<1>3. opener' \in [Openers -> [at : OpenerPlaces, todo : SUBSET Nat, sawTable : BOOLEAN]]
  BY <1>1
<1>4. \A q \in Openers : At(q, "noted")' => At(q, "noted")
  BY <1>2
<1>5. \A q \in Openers : At(q, "open")' => At(q, "open")
  BY <1>2
<1>6. \A q \in Openers : opener'[q].at \in AtWork => opener[q].at \in AtWork
  BY <1>2
<1>7. Versions' = Versions /\ Known' = Known
  BY DEF Versions
<1>8. QED
  BY <1>2, <1>3, <1>4, <1>5, <1>6, <1>7

\* Every step keeps it.
LEMMA MigStep == MigInv /\ [MigrationsNext]_migrationVars => MigInv'
<1> SUFFICES ASSUME MigInv, [MigrationsNext]_migrationVars PROVE MigInv'
  OBVIOUS
<1>1. ASSUME NEW o \in Openers, ReadApplied(o) PROVE MigInv'
  <2> DEFINE todo == (1 .. Known[o]) \ recorded
             new == [at |-> IF todo = {} THEN "open" ELSE "behind", todo |-> todo,
                     sawTable |-> tracked]
  <2>1. opener' = [opener EXCEPT ![o] = new] /\ UNCHANGED <<serial, tracked, recorded, effects>>
    BY <1>1 DEF ReadApplied
  <2>2. /\ \A q \in Openers \ {o} : opener'[q] = opener[q] /\ Turn(q)' = Turn(q)
        /\ opener'[o] = new
    BY <2>1 DEF Turn, MigInv
  <2>3. opener' \in [Openers -> [at : OpenerPlaces, todo : SUBSET Nat, sawTable : BOOLEAN]]
    <3>1. todo \in SUBSET Nat /\ new.at \in OpenerPlaces /\ tracked \in BOOLEAN
      BY MigrationsAssumption DEF MigInv, OpenerPlaces, AtWork
    <3>2. new \in [at : OpenerPlaces, todo : SUBSET Nat, sawTable : BOOLEAN]
      BY <3>1
    <3>3. QED
      BY <2>1, <3>2 DEF MigInv
  <2>4. ~At(o, "noted")' /\ Versions' = Versions /\ Known' = Known
    BY <2>2 DEF At, Versions
  <2>5. At(o, "open")' => 1 .. Known[o] \subseteq recorded
    BY <2>2 DEF At
  <2>6. opener'[o].at \in AtWork => todo # {} /\ opener'[o].todo = todo
    BY <2>2 DEF AtWork
  <2>7. QED
    BY <2>1, <2>2, <2>3, <2>4, <2>5, <2>6 DEF MigInv, At
<1>2. ASSUME NEW o \in Openers, CreateTable(o) PROVE MigInv'
  <2>1. PICK place \in {"next", "failed"} : Moves(o, place)
    BY <1>2 DEF CreateTable
  <2>2. opener[o].at \in AtWork /\ UNCHANGED <<serial, recorded, effects>> /\ tracked' = TRUE
    BY <1>2 DEF CreateTable, At, AtWork
  <2>3. QED
    BY <2>1, <2>2, MoveKeeps DEF OpenerPlaces, AtWork, MigInv
<1>3. ASSUME NEW o \in Openers, RunBody(o) PROVE MigInv'
  <2>1. PICK place \in {"applied", "failed"} : Moves(o, place)
    BY <1>3 DEF RunBody
  <2>2. opener[o].at \in AtWork /\ UNCHANGED <<serial, tracked, recorded, effects>>
    BY <1>3 DEF RunBody, At, AtWork
  <2>3. QED
    BY <2>1, <2>2, MoveKeeps DEF OpenerPlaces, AtWork, MigInv
<1>4. ASSUME NEW o \in Openers, Stops(o) PROVE MigInv'
  <2>1. opener[o].at \in AtWork /\ UNCHANGED <<serial, tracked, recorded, effects>> /\ Moves(o, "failed")
    BY <1>4 DEF Stops, AtWork
  <2>2. QED
    BY <2>1, MoveKeeps DEF OpenerPlaces, AtWork, MigInv
<1>5. ASSUME NEW o \in Openers, OpenAgain(o) PROVE MigInv'
  <2>1. opener' = [opener EXCEPT ![o] = Closed] /\ UNCHANGED <<serial, tracked, recorded, effects>>
    BY <1>5 DEF OpenAgain
  <2>2. /\ \A q \in Openers \ {o} : opener'[q] = opener[q] /\ Turn(q)' = Turn(q)
        /\ opener'[o].at = "closed"
    BY <2>1 DEF Turn, Closed, MigInv
  <2>3. opener' \in [Openers -> [at : OpenerPlaces, todo : SUBSET Nat, sawTable : BOOLEAN]]
    BY <2>1 DEF MigInv, Closed, OpenerPlaces
  <2>4. QED
    BY <2>1, <2>2, <2>3 DEF MigInv, At, AtWork, Versions
<1>6. ASSUME NEW o \in Openers, Note(o) PROVE MigInv'
  <2>1. /\ At(o, "applied") /\ Blockers(o, Noting(Turn(o))) = {}
        /\ Moves(o, IF Turn(o) \in recorded THEN "failed" ELSE "noted")
        /\ UNCHANGED <<serial, tracked, recorded, effects>> /\ opener[o].at \in AtWork
    BY <1>6 DEF Note, At, AtWork
  <2>2. CASE Turn(o) \in recorded
    BY <2>1, <2>2, MoveKeeps DEF OpenerPlaces, AtWork, MigInv
  <2>3. CASE Turn(o) \notin recorded
    <3>1. opener' = [opener EXCEPT ![o].at = "noted"]
      BY <2>1, <2>3 DEF Moves
    <3>2. /\ \A q \in Openers : opener'[q].todo = opener[q].todo /\ Turn(q)' = Turn(q)
          /\ \A q \in Openers \ {o} : opener'[q] = opener[q]
          /\ opener'[o].at = "noted"
      BY <3>1 DEF MigInv, Turn
    <3>3. opener' \in [Openers -> [at : OpenerPlaces, todo : SUBSET Nat, sawTable : BOOLEAN]]
      BY <3>1 DEF MigInv, OpenerPlaces, AtWork
    <3>4. \A q \in Openers \ {o} : ~(At(q, "noted") /\ Turn(q) = Turn(o))
      <4>1. SUFFICES ASSUME NEW q \in Openers, q # o, At(q, "noted"), Turn(q) = Turn(o)
                     PROVE  FALSE
        OBVIOUS
      <4>2. q \in Noting(Turn(o)) /\ q \in Applying(Turn(o)) /\ Turn(o) \in Versions
        BY <2>1, <4>1, TurnIsNext DEF Noting, Applying, At
      <4>3. QED
        BY <2>1, <4>1, <4>2 DEF Blockers, MigInv
    <3>5. Versions' = Versions
      BY DEF Versions
    <3>6. QED
      BY <2>1, <2>3, <3>2, <3>3, <3>4, <3>5, SMTT(30) DEF MigInv, At, AtWork
  <2>4. QED
    BY <2>2, <2>3
<1>7. ASSUME NEW o \in Openers, CommitVersion(o) PROVE MigInv'
  <2> DEFINE v == Turn(o)
             rest == opener[o].todo \ {v}
             place == IF rest = {} THEN "open" ELSE "next"
  <2>1. /\ opener[o].at = "noted" /\ UNCHANGED <<serial, tracked>>
        /\ recorded' = recorded \union {v}
        /\ effects' = [effects EXCEPT ![v] = @ + 1]
        /\ opener' = [opener EXCEPT ![o].todo = rest, ![o].at = place]
    BY <1>7 DEF CommitVersion, At
  <2>2. /\ v \in opener[o].todo /\ v \in Versions /\ v \in Nat
        /\ 1 .. (v - 1) \subseteq recorded
    BY <2>1, TurnIsNext DEF AtWork
  <2>3. v \notin recorded
    BY <2>1 DEF MigInv, At
  <2>4. opener' \in [Openers -> [at : OpenerPlaces, todo : SUBSET Nat, sawTable : BOOLEAN]]
    <3>1. rest \in SUBSET Nat /\ place \in OpenerPlaces
      BY DEF MigInv, OpenerPlaces, AtWork
    <3>2. opener' = [opener EXCEPT ![o] = [at |-> place, todo |-> rest, sawTable |-> opener[o].sawTable]]
      BY <2>1 DEF MigInv
    <3>3. QED
      BY <3>1, <3>2 DEF MigInv
  <2>5. /\ \A q \in Openers \ {o} : opener'[q] = opener[q] /\ Turn(q)' = Turn(q)
        /\ opener'[o].at = place /\ opener'[o].todo = rest
    BY <2>1 DEF MigInv, Turn
  <2>6. effects' = [u \in Versions |-> IF u \in recorded' THEN 1 ELSE 0]
    BY <2>1, <2>2, <2>3 DEF MigInv
  <2>7. \A u \in recorded' : 1 .. u \subseteq recorded'
    <3>1. 1 .. v \subseteq recorded'
      BY <2>1, <2>2
    <3>2. QED
      BY <2>1, <3>1 DEF MigInv
  <2>8. (1 .. Known[o]) \ rest \subseteq recorded' /\ rest \subseteq 1 .. Known[o]
    BY <2>1 DEF MigInv, AtWork
  <2>9. \A q \in Openers : opener'[q].at \in AtWork =>
          /\ opener'[q].todo # {} /\ opener'[q].todo \subseteq 1 .. Known[q]
          /\ (1 .. Known[q]) \ opener'[q].todo \subseteq recorded'
    BY <2>1, <2>5, <2>8 DEF MigInv, AtWork
  <2>10. \A q \in Openers : At(q, "open")' => 1 .. Known[q] \subseteq recorded'
    BY <2>1, <2>5, <2>8 DEF MigInv, At
  <2>11. \A q \in Openers : At(q, "noted")' => q # o /\ Turn(q)' \notin recorded'
    BY <2>1, <2>5 DEF MigInv, At
  <2>12. \A q, r \in Openers : At(q, "noted")' /\ At(r, "noted")' /\ Turn(q)' = Turn(r)' => q = r
    BY <2>5, <2>11 DEF MigInv, At
  <2>13. /\ recorded' \subseteq Versions' \intersect Nat /\ IsFiniteSet(recorded')
         /\ Versions' = Versions /\ Known' = Known
    BY <2>1, <2>2, FS_AddElement DEF MigInv, Versions
  <2>14. QED
    BY <2>1, <2>4, <2>6, <2>7, <2>9, <2>10, <2>11, <2>12, <2>13 DEF MigInv
<1>8. CASE UNCHANGED migrationVars
  BY <1>8 DEF migrationVars, MigInv, At, Turn, Versions
<1>9. QED
  BY <1>1, <1>2, <1>3, <1>4, <1>5, <1>6, <1>7, <1>8 DEF MigrationsNext, Advances

\* However many workers and binaries open a store, its schema is made once and of
\* one piece (migratePG, migrate).
THEOREM SchemaIsMadeOnce == MigrationsSpec => []MigrationsAreWhole
<1>1. MigrationsInit => MigInv
  <2> SUFFICES ASSUME MigrationsInit PROVE MigInv
    OBVIOUS
  <2>1. \A o \in Openers : opener[o] = Closed
    BY DEF MigrationsInit
  <2>2. Closed \in [at : OpenerPlaces, todo : SUBSET Nat, sawTable : BOOLEAN]
    BY DEF Closed, OpenerPlaces
  <2>3. opener \in [Openers -> [at : OpenerPlaces, todo : SUBSET Nat, sawTable : BOOLEAN]]
    BY <2>2 DEF MigrationsInit
  <2>4. \A o \in Openers : opener[o].at = "closed"
    BY <2>1 DEF Closed
  <2>5. QED
    BY <2>3, <2>4, FS_EmptySet DEF MigrationsInit, MigInv, At, AtWork
<1>2. MigInv => MigrationsAreWhole
  <2> SUFFICES ASSUME MigInv PROVE MigrationsAreWhole
    OBVIOUS
  <2>1. BodiesRunOnce
    BY DEF MigInv, BodiesRunOnce
  <2>2. 1 .. CurrentSchemaVersion \subseteq recorded
    <3>1. CASE recorded = {}
      BY <3>1 DEF CurrentSchemaVersion
    <3>2. CASE recorded # {}
      <4>1. PICK b \in Nat : \A y \in recorded : y <= b
        BY FiniteIsBounded DEF MigInv
      <4>2. Max(recorded) \in recorded
        BY <3>2, <4>1, MaxOfBounded DEF MigInv
      <4>3. QED
        BY <3>2, <4>2 DEF MigInv, CurrentSchemaVersion
    <3>3. QED
      BY <3>1, <3>2
  <2>3. QED
    BY <2>1, <2>2 DEF MigrationsAreWhole, SchemaIsWhole, MigInv
<1>3. QED
  BY <1>1, <1>2, MigStep, PTL DEF MigrationsSpec

-----------------------------------------------------------------------------
(* PagedRead. *)

\* The order of the rows, and how many come before a row.
Precedes(j, i) == named[j] < named[i] \/ (named[j] = named[i] /\ j < i)
Ahead(i) == {j \in Current : Precedes(j, i)}
Place(i) == Cardinality(Ahead(i))
Hits(i) == {k \in 1 .. Len(rows) : rows[k] = i}
Passed(i) == IF Place(i) < Offset THEN 1 ELSE 0

\* Rows at rest that the pages have passed and not read.
Missed == {i \in steady : Place(i) < Offset /\ Times(i) = 0}

PagedTypes ==
    /\ named \in [Ids -> Nat] /\ rows \in Seq(Ids) /\ writes \in Nat
    /\ grew \in BOOLEAN /\ shrank \in BOOLEAN /\ ended \in BOOLEAN
    /\ steady \subseteq Current

\* While the pages are read, a row at rest comes back at most once for each write, and
\* each write takes at most one row past the pages; without arrivals a row is read
\* only as the pages pass it, without departures none passes unread.
UnderWay ==
    /\ \A i \in steady : /\ Times(i) <= writes + Passed(i)
                         /\ ~grew => Times(i) <= Passed(i)
                         /\ ~shrank /\ Place(i) < Offset => Times(i) >= 1
    /\ Cardinality(Missed) <= writes

PagedInv ==
    /\ PagedTypes
    /\ ~ended => UnderWay
    /\ PagesAreTrue

\* The rows that are counted are finite sets.
LEMMA RowsFinite ==
    ASSUME PagedTypes
    PROVE  /\ Current \subseteq Ids /\ IsFiniteSet(Current) /\ Current \subseteq Nat
           /\ \A S \in SUBSET Current : IsFiniteSet(S) /\ Cardinality(S) \in Nat
           /\ \A i : Place(i) \in Nat /\ IsFiniteSet(Ahead(i))
           /\ \A i : Times(i) \in Nat /\ Times(i) = Cardinality(Hits(i)) /\ IsFiniteSet(Hits(i))
           /\ Offset \in Nat
<1>1. Current \subseteq Ids /\ IsFiniteSet(Current) /\ Current \subseteq Nat
  BY PagedAssumption, FS_Subset DEF Current
<1>2. \A S \in SUBSET Current : IsFiniteSet(S) /\ Cardinality(S) \in Nat
  BY <1>1, FS_Subset, FS_CardinalityType
<1>3. \A i : Place(i) \in Nat /\ IsFiniteSet(Ahead(i))
  <2>1. \A i : Ahead(i) \in SUBSET Current
    BY DEF Ahead
  <2>2. QED
    BY <1>2, <2>1 DEF Place
<1>4. Len(rows) \in Nat
  BY LenProperties DEF PagedTypes
<1>5. \A i : Times(i) = Cardinality(Hits(i))
  BY DEF Times, Hits
<1>6. \A i : IsFiniteSet(Hits(i)) /\ Cardinality(Hits(i)) \in Nat
  <2>1. IsFiniteSet(1 .. Len(rows))
    BY <1>4, FS_Interval
  <2>2. \A i : Hits(i) \in SUBSET (1 .. Len(rows))
    BY DEF Hits
  <2>3. QED
    BY <2>1, <2>2, FS_Subset, FS_CardinalityType
<1>7. QED
  BY <1>1, <1>2, <1>3, <1>4, <1>5, <1>6 DEF Offset

\* The order is one: two rows have a different place, and one ahead of the other
\* has the smaller place.
LEMMA PlacesDiffer ==
    ASSUME PagedTypes, NEW i \in Current, NEW j \in Current, i # j
    PROVE  Place(i) # Place(j)
<1>1. \A x \in Current : x \in Nat /\ named[x] \in Nat
  BY RowsFinite DEF PagedTypes, Current
<1>2. ASSUME NEW x \in Current, NEW y \in Current, Precedes(x, y) PROVE Place(x) < Place(y)
  <2>1. Ahead(x) \subseteq Ahead(y)
    BY <1>1, <1>2 DEF Ahead, Precedes
  <2>2. x \in Ahead(y) /\ x \notin Ahead(x)
    BY <1>1, <1>2 DEF Ahead, Precedes
  <2>3. /\ Cardinality(Ahead(x)) <= Cardinality(Ahead(y))
        /\ Cardinality(Ahead(x)) = Cardinality(Ahead(y)) => Ahead(x) = Ahead(y)
    BY <2>1, RowsFinite, FS_Subset
  <2>4. Place(x) \in Nat /\ Place(y) \in Nat
    BY RowsFinite
  <2>5. QED
    BY <2>2, <2>3, <2>4 DEF Place
<1>3. Precedes(i, j) \/ Precedes(j, i)
  BY <1>1 DEF Precedes
<1>4. Place(i) \in Nat /\ Place(j) \in Nat
  BY RowsFinite
<1>5. QED
  BY <1>2, <1>3, <1>4

\* In an order of the rows each stands at its place.
LEMMA OrderPlaces ==
    ASSUME PagedTypes, NEW q \in Orders(Current)
    PROVE  /\ q \in Seq(Current) /\ Len(q) = Cardinality(Current) /\ Len(q) \in Nat
           /\ \A k \in 1 .. Len(q) : q[k] \in Current /\ Place(q[k]) = k - 1
           /\ \A i \in Current : Place(i) + 1 \in 1 .. Len(q) /\ q[Place(i) + 1] = i
<1> DEFINE n == Cardinality(Current)
<1>1. n \in Nat /\ IsFiniteSet(Current)
  BY RowsFinite, FS_CardinalityType
<1>2. q \in [1 .. n -> Current] /\ \A a, b \in 1 .. n : a # b => q[a] # q[b]
  BY DEF Orders, SetToSeqs
<1>3. q \in Seq(Current) /\ Len(q) = n
  BY <1>1, <1>2, SeqDef
<1>4. \A a, b \in 1 .. n : a < b => Precedes(q[a], q[b])
  BY <1>3 DEF Orders, Precedes
<1>5. \A i \in Current : \E k \in 1 .. n : q[k] = i
  <2>1. q \in Injection(1 .. n, Current)
    BY <1>2 DEF Injection, IsInjective
  <2>2. Cardinality(1 .. n) = n
    BY <1>1, FS_Interval
  <2>3. q \in Surjection(1 .. n, Current)
    <3>1. IsFiniteSet(Current) /\ Cardinality(1 .. n) = Cardinality(Current)
      BY <1>1, <2>2
    <3>2. Cardinality(1 .. n) = Cardinality(Current) <=> q \in Surjection(1 .. n, Current)
      BY <1>1, <2>1, FS_Injection, Zenon
    <3>3. QED
      BY <3>1, <3>2
  <2>4. QED
    BY <2>3 DEF Surjection
<1>6. \A x \in Current : x \in Nat /\ named[x] \in Nat
  BY RowsFinite DEF PagedTypes, Current
<1>7. ASSUME NEW k \in 1 .. n PROVE Place(q[k]) = k - 1
  <2> DEFINE f == [a \in 1 .. k - 1 |-> q[a]]
  <2>1. \A a \in 1 .. k - 1 : a \in 1 .. n /\ a < k
    BY <1>1
  <2>2. \A a \in 1 .. k - 1 : q[a] \in Ahead(q[k])
    BY <1>2, <1>4, <2>1 DEF Ahead
  <2>3. ASSUME NEW j \in Ahead(q[k]) PROVE \E a \in 1 .. k - 1 : q[a] = j
    <3>1. j \in Current /\ Precedes(j, q[k])
      BY DEF Ahead
    <3>2. PICK a \in 1 .. n : q[a] = j
      BY <1>5, <3>1
    <3>3. ~(k < a) /\ k # a
      BY <1>2, <1>4, <1>6, <3>1, <3>2 DEF Precedes
    <3>4. QED
      BY <1>1, <3>2, <3>3
  <2>4. f \in Bijection(1 .. k - 1, Ahead(q[k]))
    <3>1. f \in [1 .. k - 1 -> Ahead(q[k])]
      BY <2>2
    <3>2. \A a, b \in 1 .. k - 1 : a # b => f[a] # f[b]
      BY <1>2, <2>1
    <3>3. \A j \in Ahead(q[k]) : \E a \in 1 .. k - 1 : f[a] = j
      BY <2>3
    <3>4. QED
      BY <3>1, <3>2, <3>3 DEF Bijection, Injection, Surjection, IsInjective
  <2>5. IsFiniteSet(1 .. k - 1) /\ Cardinality(1 .. k - 1) = k - 1
    <3>1. \A b \in Nat : IsFiniteSet(1 .. b) /\ Cardinality(1 .. b) = b
      BY NumbersCounted
    <3>2. k - 1 \in Nat
      BY <1>1
    <3>3. QED
      BY <3>1, <3>2, Zenon
  <2>6. ExistsBijection(1 .. k - 1, Ahead(q[k]))
    BY <2>4 DEF ExistsBijection
  <2>7. QED
    BY <2>5, <2>6, FS_Bijection DEF Place
<1>8. \A i \in Current : Place(i) + 1 \in 1 .. n /\ q[Place(i) + 1] = i
  <2>1. SUFFICES ASSUME NEW i \in Current PROVE Place(i) + 1 \in 1 .. n /\ q[Place(i) + 1] = i
    OBVIOUS
  <2>2. PICK k \in 1 .. n : q[k] = i
    BY <1>5
  <2>3. Place(i) = k - 1
    BY <1>7, <2>2
  <2>4. Place(i) + 1 = k
    BY <2>3, <1>1
  <2>5. QED
    BY <2>2, <2>4
<1>9. QED
  BY <1>1, <1>2, <1>3, <1>7, <1>8

\* One element more counts for one at most.
LEMMA OneMore ==
    ASSUME NEW S, IsFiniteSet(S), NEW x
    PROVE  /\ IsFiniteSet(S \union {x}) /\ Cardinality(S) \in Nat
           /\ Cardinality(S \union {x}) <= Cardinality(S) + 1 /\ Cardinality(S \union {x}) \in Nat
<1>1. IsFiniteSet(S \union {x}) /\ Cardinality(S) \in Nat
      /\ Cardinality(S \union {x}) = IF x \in S THEN Cardinality(S) ELSE Cardinality(S) + 1
  BY FS_AddElement, FS_CardinalityType
<1>2. QED
  BY <1>1

\* A write of row x moves another row by one place at most: towards the end only as x
\* arrives, towards the front only as x departs.
LEMMA WriteMoves ==
    ASSUME PagedTypes, PagedTypes', NEW x \in Ids, NEW name, named' = [named EXCEPT ![x] = name],
           NEW i \in Current, i # x
    PROVE  /\ i \in Current' /\ Place(i)' \in Nat /\ Place(i) \in Nat
           /\ Place(i)' <= Place(i) + 1 /\ Place(i) <= Place(i)' + 1
           /\ name = Gap => Place(i)' <= Place(i)
           /\ named[x] = Gap => Place(i) <= Place(i)'
<1>1. \A j \in Ids \ {x} : named'[j] = named[j]
  BY DEF PagedTypes
<1>2. i \in Ids /\ i \in Current'
  BY <1>1 DEF Current
<1>3. named'[x] = name
  BY DEF PagedTypes
<1>4. Ahead(i)' \subseteq Ahead(i) \union {x} /\ Ahead(i) \subseteq Ahead(i)' \union {x}
  BY <1>1, <1>2 DEF Ahead, Precedes, Current
<1>5. name = Gap => Ahead(i)' \subseteq Ahead(i)
  BY <1>3, <1>4 DEF Ahead, Current
<1>6. named[x] = Gap => Ahead(i) \subseteq Ahead(i)'
  BY <1>4 DEF Ahead, Current
<1>7. /\ IsFiniteSet(Ahead(i)) /\ Place(i) \in Nat /\ Place(i) = Cardinality(Ahead(i))
      /\ IsFiniteSet(Ahead(i)') /\ Place(i)' \in Nat /\ Place(i)' = Cardinality(Ahead(i)')
  <2>1. \A S \in SUBSET Current' : IsFiniteSet(S) /\ Cardinality(S) \in Nat
    BY PagedAssumption, FS_Subset, FS_CardinalityType DEF Current
  <2>2. Ahead(i)' \subseteq Current'
    BY DEF Ahead
  <2>3. QED
    BY <2>1, <2>2, RowsFinite DEF Place
<1>8. \A S, T : IsFiniteSet(T) /\ S \subseteq T \union {x} => Cardinality(S) <= Cardinality(T) + 1
  <2>1. SUFFICES ASSUME NEW S, NEW T, IsFiniteSet(T), S \subseteq T \union {x}
                 PROVE  Cardinality(S) <= Cardinality(T) + 1
    OBVIOUS
  <2>2. /\ IsFiniteSet(T \union {x}) /\ Cardinality(T) \in Nat
        /\ Cardinality(T \union {x}) <= Cardinality(T) + 1 /\ Cardinality(T \union {x}) \in Nat
    BY <2>1, OneMore
  <2>3. Cardinality(S) <= Cardinality(T \union {x}) /\ Cardinality(S) \in Nat
    BY <2>1, <2>2, FS_Subset, FS_CardinalityType
  <2>4. QED
    BY <2>2, <2>3
<1>9. \A S, T : IsFiniteSet(T) /\ S \subseteq T => Cardinality(S) <= Cardinality(T)
  BY FS_Subset
<1>10. Place(i)' <= Place(i) + 1 /\ Place(i) <= Place(i)' + 1
  BY <1>4, <1>7, <1>8
<1>11. name = Gap => Place(i)' <= Place(i)
  BY <1>5, <1>7, <1>9
<1>12. named[x] = Gap => Place(i) <= Place(i)'
  BY <1>6, <1>7, <1>9
<1>13. QED
  BY <1>2, <1>7, <1>10, <1>11, <1>12

\* A write keeps the counts.
LEMMA WriteKeeps ==
    ASSUME PagedInv, NEW x \in Ids, NEW name \in Names \union {Gap}, Write(x, name)
    PROVE  PagedInv'
<1>1. /\ ~ended /\ UNCHANGED <<rows, ended>>
      /\ named' = [named EXCEPT ![x] = name]
      /\ writes' = writes + 1 /\ steady' = steady \ {x}
      /\ grew' = (grew \/ name # Gap) /\ shrank' = (shrank \/ named[x] # Gap)
  BY DEF Write
<1>2. PagedTypes /\ UnderWay
  BY <1>1 DEF PagedInv
<1>3. PagedTypes'
  <2>1. named' \in [Ids -> Nat]
    BY <1>1, <1>2, PagedAssumption DEF PagedTypes, Gap
  <2>2. steady' \subseteq Current'
    BY <1>1, <1>2 DEF PagedTypes, Current
  <2>3. QED
    BY <1>1, <1>2, <2>1, <2>2 DEF PagedTypes
<1>4. Offset' = Offset /\ \A i : Times(i)' = Times(i)
  BY <1>1 DEF Offset, Times
<1>5. Offset \in Nat /\ writes \in Nat /\ \A i : Times(i) \in Nat
  BY <1>2, RowsFinite DEF PagedTypes
<1>6. \A i \in steady' : /\ i \in steady /\ i \in Current /\ i # x
                         /\ Place(i)' \in Nat /\ Place(i) \in Nat
                         /\ Place(i)' <= Place(i) + 1 /\ Place(i) <= Place(i)' + 1
                         /\ name = Gap => Place(i)' <= Place(i)
                         /\ named[x] = Gap => Place(i) <= Place(i)'
  BY <1>1, <1>2, <1>3, WriteMoves DEF PagedTypes
<1>7. ASSUME NEW i \in steady'
      PROVE  /\ Times(i) <= writes' + Passed(i)'
             /\ ~grew' => Times(i) <= Passed(i)'
             /\ ~shrank' /\ Place(i)' < Offset => Times(i) >= 1
  <2>1. /\ Times(i) <= writes + Passed(i)
        /\ ~grew => Times(i) <= Passed(i)
        /\ ~shrank /\ Place(i) < Offset => Times(i) >= 1
    BY <1>2, <1>6 DEF UnderWay
  <2>2. /\ Place(i)' \in Nat /\ Place(i) \in Nat
        /\ Place(i)' <= Place(i) + 1 /\ Place(i) <= Place(i)' + 1
        /\ name = Gap => Place(i)' <= Place(i)
        /\ named[x] = Gap => Place(i) <= Place(i)'
    BY <1>6
  <2>3. Passed(i) = IF Place(i) < Offset THEN 1 ELSE 0
    BY DEF Passed
  <2>4. Passed(i)' = IF Place(i)' < Offset THEN 1 ELSE 0
    BY <1>4 DEF Passed
  <2>5. Times(i) \in Nat
    BY <1>5
  <2>6. Times(i) <= writes' + Passed(i)'
    BY <1>1, <1>5, <2>1, <2>2, <2>3, <2>4, <2>5
  <2>7. ASSUME ~grew' PROVE Times(i) <= Passed(i)'
    <3>1. ~grew /\ name = Gap
      BY <1>1, <2>7
    <3>2. QED
      BY <1>5, <2>1, <2>2, <2>3, <2>4, <2>5, <3>1
  <2>8. ASSUME ~shrank', Place(i)' < Offset PROVE Times(i) >= 1
    <3>1. ~shrank /\ named[x] = Gap
      BY <1>1, <2>8
    <3>2. QED
      BY <1>5, <2>1, <2>2, <2>8, <3>1
  <2>9. QED
    BY <2>6, <2>7, <2>8
<1>8. Cardinality(Missed)' <= writes'
  <2> DEFINE Crossed == {i \in steady' : Place(i) >= Offset /\ Place(i)' < Offset}
  <2>1. Missed' \subseteq Missed \union Crossed
    <3>1. Missed' = {i \in steady' : Place(i)' < Offset /\ Times(i) = 0}
      BY <1>4 DEF Missed
    <3>2. QED
      BY <1>5, <1>6, <3>1 DEF Missed
  <2>2. \A i, j \in Crossed : i = j
    <3>1. \A i \in Crossed : Place(i) = Offset
      BY <1>5, <1>6
    <3>2. QED
      BY <1>2, <1>6, <3>1, PlacesDiffer
  <2>3. IsFiniteSet(Missed) /\ Cardinality(Missed) \in Nat
    BY <1>2, RowsFinite DEF Missed, PagedTypes
  <2>4. PICK y : Crossed \subseteq {y}
    BY <2>2
  <2>5. IsFiniteSet(Missed \union {y}) /\ Cardinality(Missed \union {y}) <= Cardinality(Missed) + 1
        /\ Cardinality(Missed \union {y}) \in Nat
    BY <2>3, OneMore
  <2>6. Missed' \subseteq Missed \union {y}
    BY <2>1, <2>4
  <2>7. Cardinality(Missed') <= Cardinality(Missed \union {y}) /\ Cardinality(Missed') \in Nat
    BY <2>5, <2>6, FS_Subset, FS_CardinalityType
  <2>8. QED
    BY <1>1, <1>2, <1>5, <2>3, <2>5, <2>7 DEF UnderWay
<1>9. UnderWay'
  BY <1>4, <1>7, <1>8 DEF UnderWay
<1>10. QED
  BY <1>1, <1>3, <1>9 DEF PagedInv, PagesAreTrue, PagesAgree, DriftIsBounded

\* What the page adds to the rows: the order from Offset on, as far as PageSize goes.
LEMMA PageOfOrder ==
    ASSUME PagedTypes, NEW q \in Orders(Current),
           rows' = rows \o SubSeq(q, Offset + 1, Min({Offset + PageSize, Len(q)}))
    PROVE  \E m \in Nat :
              /\ m = (IF Offset + PageSize <= Len(q) THEN Offset + PageSize
                      ELSE IF Offset <= Len(q) THEN Len(q) ELSE Offset)
              /\ rows' \in Seq(Ids) /\ Len(rows') = m
              /\ Len(SubSeq(q, Offset + 1, Min({Offset + PageSize, Len(q)}))) = m - Offset
              /\ \A k \in 1 .. m : rows'[k] = IF k <= Offset THEN rows[k] ELSE q[k]
<1> DEFINE top == Min({Offset + PageSize, Len(q)})
           page == SubSeq(q, Offset + 1, top)
           m == IF Offset + PageSize <= Len(q) THEN Offset + PageSize
                ELSE IF Offset <= Len(q) THEN Len(q) ELSE Offset
<1>1. Offset \in Nat /\ PageSize \in Nat \ {0} /\ Len(q) \in Nat /\ Offset = Len(rows)
  BY RowsFinite, OrderPlaces, PagedAssumption DEF Offset
<1>2. top = IF Offset + PageSize <= Len(q) THEN Offset + PageSize ELSE Len(q)
  <2>1. Offset + PageSize \in Nat
    BY <1>1
  <2>2. QED
    BY <1>1, <2>1, MinOfTwo
<1> HIDE DEF top
<1>3. top \in Nat /\ top <= Len(q)
  <2>1. Offset + PageSize \in Nat
    BY <1>1
  <2>2. QED
    BY <1>1, <1>2, <2>1
<1>4. \A i \in Offset + 1 .. top : q[i] \in Ids
  BY <1>1, <1>3, OrderPlaces, RowsFinite
<1>5. /\ page \in Seq(Ids)
      /\ Len(page) = IF Offset + 1 <= top THEN top - (Offset + 1) + 1 ELSE 0
      /\ \A i \in 1 .. top - (Offset + 1) + 1 : page[i] = q[Offset + 1 + i - 1]
  <2>1. Offset + 1 \in Int /\ top \in Int
    BY <1>1, <1>3
  <2>2. QED
    BY <1>4, <2>1, SubSeqProperties
<1>6. Len(page) = m - Offset /\ m \in Nat /\ Offset <= m
  BY <1>1, <1>2, <1>5, SMTT(30)
<1>7. /\ rows \o page \in Seq(Ids) /\ Len(rows \o page) = Offset + Len(page)
      /\ \A i \in 1 .. Offset + Len(page) :
            (rows \o page)[i] = IF i <= Offset THEN rows[i] ELSE page[i - Offset]
  <2>1. rows \in Seq(Ids)
    BY DEF PagedTypes
  <2>2. QED
    BY <1>1, <1>5, <2>1, ConcatProperties, SMTT(30)
<1>8. \A k \in 1 .. m : k > Offset => page[k - Offset] = q[k]
  BY <1>1, <1>3, <1>5, <1>6
<1>9. rows' = rows \o page
  BY DEF top
<1> HIDE DEF page
<1>10. rows' \in Seq(Ids) /\ Len(rows') = m /\ Len(page) = m - Offset
  <2>1. Len(page) = m - Offset
    BY <1>6
  <2>2. rows' \in Seq(Ids) /\ Len(rows') = Offset + Len(page)
    BY <1>7, <1>9, Zenon
  <2>3. Offset + Len(page) = m
    BY <1>1, <1>6
  <2>4. QED
    BY <2>1, <2>2, <2>3, Zenon
<1>11. \A k \in 1 .. m : rows'[k] = IF k <= Offset THEN rows[k] ELSE q[k]
  <2>1. \A k \in 1 .. Offset + Len(page) : rows'[k] = IF k <= Offset THEN rows[k] ELSE page[k - Offset]
    BY <1>7, <1>9, Zenon
  <2>2. Offset + Len(page) = m
    BY <1>1, <1>6
  <2>3. \A k \in 1 .. m : rows'[k] = IF k <= Offset THEN rows[k] ELSE page[k - Offset]
    BY <2>1, <2>2, Zenon
  <2>4. \A k \in 1 .. m : ~(k <= Offset) => k > Offset
    BY <1>1, <1>6
  <2> HIDE DEF m
  <2>5. QED
    BY <1>8, <2>3, <2>4
<1>12. QED
  BY <1>6, <1>10, <1>11 DEF page, top

\* A page keeps the counts, and the last one leaves what the report may rely on.
LEMMA PageKeeps ==
    ASSUME PagedInv, ReadPage
    PROVE  PagedInv'
<1>1. ~ended /\ UNCHANGED <<named, writes, steady, grew, shrank>>
  BY DEF ReadPage
<1>2. PagedTypes /\ UnderWay
  BY <1>1 DEF PagedInv
<1>3. PICK q \in Orders(Current) :
         /\ rows' = rows \o SubSeq(q, Offset + 1, Min({Offset + PageSize, Len(q)}))
         /\ ended' = (Len(SubSeq(q, Offset + 1, Min({Offset + PageSize, Len(q)}))) < PageSize)
  BY DEF ReadPage
<1>4. PICK m \in Nat :
         /\ m = (IF Offset + PageSize <= Len(q) THEN Offset + PageSize
                 ELSE IF Offset <= Len(q) THEN Len(q) ELSE Offset)
         /\ rows' \in Seq(Ids) /\ Len(rows') = m
         /\ Len(SubSeq(q, Offset + 1, Min({Offset + PageSize, Len(q)}))) = m - Offset
         /\ \A k \in 1 .. m : rows'[k] = IF k <= Offset THEN rows[k] ELSE q[k]
  BY <1>2, <1>3, PageOfOrder
<1>5. /\ Offset \in Nat /\ PageSize \in Nat \ {0} /\ Len(q) \in Nat /\ Offset = Len(rows)
      /\ writes \in Nat
  BY <1>2, RowsFinite, OrderPlaces, PagedAssumption DEF Offset, PagedTypes
<1>6. Offset' = m /\ Offset <= m /\ m <= Offset + PageSize /\ ended' \in BOOLEAN
      /\ (ended' => Len(q) <= m) /\ (~ended' => m = Offset + PageSize /\ m <= Len(q))
  <2>1. Offset' = m
    BY <1>4 DEF Offset
  <2>2. ended' = (m - Offset < PageSize)
    BY <1>3, <1>4
  <2>3. ended' \in BOOLEAN /\ (ended' <=> m - Offset < PageSize)
    <3>1. CASE m - Offset < PageSize
      <4>1. ended' = TRUE
        BY <2>2, <3>1, <1>5
      <4>2. QED
        BY <3>1, <4>1
    <3>2. CASE ~(m - Offset < PageSize)
      <4>1. (m - Offset < PageSize) \in BOOLEAN
        BY <1>5
      <4>2. (m - Offset < PageSize) = FALSE
        BY <3>2, <4>1, Zenon
      <4>3. ended' = FALSE
        BY <2>2, <4>2, Zenon
      <4>4. QED
        BY <3>2, <4>3
    <3>3. QED
      BY <3>1, <3>2
  <2>4. Offset <= m /\ m <= Offset + PageSize
    <3>1. m = IF Offset + PageSize <= Len(q) THEN Offset + PageSize
              ELSE IF Offset <= Len(q) THEN Len(q) ELSE Offset
      BY <1>4
    <3>2. CASE Offset + PageSize <= Len(q)
      BY <1>5, <3>1, <3>2
    <3>3. CASE ~(Offset + PageSize <= Len(q)) /\ Offset <= Len(q)
      BY <1>5, <3>1, <3>3
    <3>4. CASE ~(Offset + PageSize <= Len(q)) /\ ~(Offset <= Len(q))
      BY <1>5, <3>1, <3>4
    <3>5. QED
      BY <3>2, <3>3, <3>4
  <2>5. \/ m = Offset + PageSize /\ m <= Len(q)
        \/ Len(q) <= m /\ m < Offset + PageSize
    BY <1>4, <1>5
  <2>6. /\ m = Offset + PageSize => ~(m - Offset < PageSize)
        /\ m < Offset + PageSize => m - Offset < PageSize
    BY <1>5
  <2>7. QED
    BY <2>1, <2>3, <2>4, <2>5, <2>6
<1>7. \A i : Place(i)' = Place(i)
  BY <1>1 DEF Place, Ahead, Current, Precedes
<1>8. ASSUME NEW i \in steady
      PROVE  Times(i)' = IF Offset <= Place(i) /\ Place(i) < m THEN Times(i) + 1 ELSE Times(i)
  <2>1. i \in Current /\ Place(i) \in Nat
    BY <1>2, RowsFinite DEF PagedTypes
  <2>2. Place(i) + 1 \in 1 .. Len(q) /\ q[Place(i) + 1] = i
    BY <1>2, <2>1, OrderPlaces
  <2>3. \A k \in 1 .. Len(q) : q[k] = i => k = Place(i) + 1
    <3>1. \A k \in 1 .. Len(q) : Place(q[k]) = k - 1
      BY <1>2, OrderPlaces
    <3>2. QED
      BY <1>5, <3>1
  <2>4. \A k \in 1 .. m : k > Offset => k \in 1 .. Len(q)
    BY <1>4, <1>5
  <2>5. Hits(i)' = {k \in 1 .. m : rows'[k] = i}
    BY <1>4 DEF Hits
  <2>6. Hits(i)' = IF Offset <= Place(i) /\ Place(i) < m THEN Hits(i) \union {Place(i) + 1} ELSE Hits(i)
    <3>1. ASSUME NEW k \in 1 .. m
          PROVE  rows'[k] = i <=> \/ k <= Offset /\ rows[k] = i
                                  \/ k > Offset /\ k = Place(i) + 1
      <4>1. CASE k <= Offset
        <5>1. rows'[k] = rows[k]
          BY <1>4, <4>1
        <5>2. ~(k > Offset)
          BY <1>5, <4>1
        <5>3. QED
          BY <4>1, <5>1, <5>2
      <4>2. CASE ~(k <= Offset)
        <5>1. k > Offset /\ k \in 1 .. Len(q)
          BY <1>5, <2>4, <4>2
        <5>2. rows'[k] = q[k]
          BY <1>4, <4>2
        <5>3. QED
          BY <2>2, <2>3, <4>2, <5>1, <5>2
      <4>3. QED
        BY <4>1, <4>2
    <3>2. Hits(i) = {k \in 1 .. Offset : rows[k] = i}
      BY <1>5 DEF Hits
    <3>3. QED
      BY <1>5, <1>6, <2>1, <2>5, <3>1, <3>2
  <2>7. IsFiniteSet(Hits(i)) /\ Cardinality(Hits(i)) = Times(i) /\ Times(i) \in Nat
    BY <1>2, RowsFinite
  <2>8. Times(i)' = Cardinality(Hits(i)')
    BY DEF Times, Hits
  <2>9. CASE Offset <= Place(i) /\ Place(i) < m
    <3>1. Place(i) + 1 \notin Hits(i)
      BY <1>5, <2>1, <2>9 DEF Hits
    <3>2. Cardinality(Hits(i) \union {Place(i) + 1}) = Cardinality(Hits(i)) + 1
      BY <2>7, <3>1, FS_AddElement
    <3>3. Hits(i)' = Hits(i) \union {Place(i) + 1}
      BY <2>6, <2>9
    <3>4. Cardinality(Hits(i)') = Cardinality(Hits(i) \union {Place(i) + 1})
      BY <3>3, Zenon
    <3>5. QED
      BY <2>7, <2>8, <2>9, <3>2, <3>4
  <2>10. CASE ~(Offset <= Place(i) /\ Place(i) < m)
    <3>1. Hits(i)' = Hits(i)
      BY <2>6, <2>10
    <3>2. Cardinality(Hits(i)') = Cardinality(Hits(i))
      BY <3>1, Zenon
    <3>3. QED
      BY <2>7, <2>8, <2>10, <3>2
  <2>11. QED
    BY <2>9, <2>10
<1>9. PagedTypes'
  BY <1>1, <1>2, <1>4, <1>6 DEF PagedTypes, Current
<1>10. \A i \in steady : Place(i) \in Nat /\ Times(i) \in Nat
  BY <1>2, RowsFinite
<1>11. ASSUME NEW i \in steady
       PROVE  /\ Times(i)' <= writes + Passed(i)'
              /\ ~grew => Times(i)' <= Passed(i)'
              /\ ~shrank /\ Place(i) < m => Times(i)' >= 1
              /\ Place(i) < m /\ Times(i)' = 0 => Place(i) < Offset /\ Times(i) = 0
              /\ Times(i)' \in Nat
  <2>1. /\ Times(i) <= writes + Passed(i)
        /\ ~grew => Times(i) <= Passed(i)
        /\ ~shrank /\ Place(i) < Offset => Times(i) >= 1
    BY <1>2 DEF UnderWay
  <2>2. Passed(i) = IF Place(i) < Offset THEN 1 ELSE 0
    BY DEF Passed
  <2>3. Passed(i)' = IF Place(i) < m THEN 1 ELSE 0
    BY <1>6, <1>7 DEF Passed
  <2>4. Times(i)' = IF Offset <= Place(i) /\ Place(i) < m THEN Times(i) + 1 ELSE Times(i)
    BY <1>8
  <2>5. QED
    BY <1>5, <1>6, <1>10, <2>1, <2>2, <2>3, <2>4
<1>12. \A i \in steady : ended' => Place(i) < m
  <2>1. \A i \in steady : Place(i) + 1 \in 1 .. Len(q)
    BY <1>2, OrderPlaces DEF PagedTypes
  <2>2. QED
    BY <1>5, <1>6, <1>10, <2>1
<1>13. \A S : S \subseteq Missed => Cardinality(S) <= writes
  <2>1. IsFiniteSet(Missed) /\ Cardinality(Missed) \in Nat /\ Cardinality(Missed) <= writes
    BY <1>2, RowsFinite DEF Missed, PagedTypes, UnderWay
  <2>2. SUFFICES ASSUME NEW S, S \subseteq Missed PROVE Cardinality(S) <= writes
    OBVIOUS
  <2>3. Cardinality(S) <= Cardinality(Missed) /\ Cardinality(S) \in Nat
    BY <2>1, <2>2, FS_Subset, FS_CardinalityType
  <2>4. QED
    BY <1>5, <2>1, <2>3
<1>14. UnderWay'
  <2>1. Missed' \subseteq Missed
    BY <1>1, <1>6, <1>7, <1>11 DEF Missed
  <2>2. Cardinality(Missed') <= writes
    BY <1>13, <2>1
  <2>3. \A i \in steady' : /\ Times(i)' <= writes' + Passed(i)'
                           /\ ~grew' => Times(i)' <= Passed(i)'
                           /\ ~shrank' /\ Place(i)' < Offset' => Times(i)' >= 1
    BY <1>1, <1>6, <1>7, <1>11
  <2>4. QED
    BY <1>1, <2>2, <2>3 DEF UnderWay
<1>15. PagesAreTrue'
  <2>1. SUFFICES ASSUME ended' PROVE PagesAreTrue'
    BY DEF PagesAreTrue, PagesAgree, DriftIsBounded
  <2>2. \A i \in steady : Passed(i)' = 1 /\ Place(i) < m
    BY <1>6, <1>7, <1>12, <2>1 DEF Passed
  <2>3. {i \in steady : Times(i)' = 0} \subseteq Missed
    BY <1>11, <2>2 DEF Missed
  <2>4. Cardinality({i \in steady : Times(i)' = 0}) <= writes
    BY <1>13, <2>3
  <2>5. Cardinality({i \in steady : Times(i) = 0})' <= writes
    BY <1>1, <2>4
  <2>6. \A i \in steady : /\ Times(i)' <= 1 + writes
                          /\ ~grew => Times(i)' <= 1
                          /\ ~shrank => Times(i)' >= 1
    BY <1>5, <1>11, <2>2
  <2>7. QED
    BY <1>1, <2>5, <2>6 DEF PagesAreTrue, PagesAgree, DriftIsBounded
<1>16. QED
  BY <1>9, <1>14, <1>15 DEF PagedInv

\* What a report read in pages can be relied on for (loadAllResourcesPaged, GraphAll).
THEOREM PagesStayTrue == PagedSpec => []PagesAreTrue
<1>1. PagedInit => PagedInv
  <2> SUFFICES ASSUME PagedInit PROVE PagedInv
    OBVIOUS
  <2>1. PagedTypes
    <3>1. named \in [Ids -> Nat] /\ rows \in Seq(Ids)
      <4>1. Names \union {Gap} \subseteq Nat
        BY PagedAssumption DEF Gap
      <4>2. named \in [Ids -> Nat]
        BY <4>1 DEF PagedInit
      <4>3. <<>> \in Seq(Ids)
        BY EmptySeq
      <4>4. QED
        BY <4>2, <4>3 DEF PagedInit
    <3>2. QED
      BY <3>1 DEF PagedInit, PagedTypes
  <2>2. Offset = 0 /\ \A i : Times(i) = 0
    <3>1. Len(rows) = 0
      BY DEF PagedInit
    <3>2. \A i : Hits(i) = {}
      BY <3>1 DEF Hits
    <3>3. QED
      BY <2>1, <3>1, <3>2, RowsFinite, FS_EmptySet DEF Offset
  <2>3. \A i : Place(i) \in Nat
    BY <2>1, RowsFinite
  <2>4. Missed = {} /\ Cardinality(Missed) = 0
    BY <2>2, <2>3, FS_EmptySet DEF Missed
  <2>5. UnderWay
    BY <2>2, <2>3, <2>4 DEF UnderWay, Passed, PagedInit
  <2>6. QED
    BY <2>1, <2>5 DEF PagedInv, PagedInit, PagesAreTrue, PagesAgree, DriftIsBounded
<1>2. PagedInv /\ [PagedNext]_pageVars => PagedInv'
  <2> SUFFICES ASSUME PagedInv, [PagedNext]_pageVars PROVE PagedInv'
    OBVIOUS
  <2>1. CASE ReadPage
    BY <2>1, PageKeeps
  <2>2. ASSUME NEW i \in Ids, NEW name \in Names \union {Gap}, Write(i, name) PROVE PagedInv'
    BY <2>2, WriteKeeps
  <2>3. CASE UNCHANGED pageVars
    BY <2>3 DEF pageVars, PagedInv, PagedTypes, UnderWay, PagesAreTrue, PagesAgree,
       DriftIsBounded,
       Missed, Passed, Place, Ahead, Precedes, Times, Offset, Current
  <2>4. QED
    BY <2>1, <2>2, <2>3 DEF PagedNext
<1>3. PagedInv => PagesAreTrue
  BY DEF PagedInv
<1>4. QED
  BY <1>1, <1>2, <1>3, PTL DEF PagedSpec

-----------------------------------------------------------------------------
(* TypeSightings. *)

\* The identity has been given two types by calls of scan s.
TwoTypes(s) == \E p, q \in Begun(s) : noted[p].typ # noted[q].typ

\* As long as nothing came between the calls of scan s they see each other: one is
\* under way at a time, and what is stored is of the last.
Undisturbed(s) ==
    /\ ~TwoTypes(s)
    /\ \A p, q \in Begun(s) : spotter[p] = "loaded" /\ spotter[q] = "loaded" => p = q
    /\ Begun(s) # {} /\ (\A p \in Begun(s) : spotter[p] # "loaded")
         => \E p \in Begun(s) : sighting = noted[p]

SightInv ==
    /\ noted \in [Spotters -> Sightings]
    /\ spotter \in [Spotters -> {"before", "loaded", "after"}]
    /\ warned \subseteq SpotScans
    /\ sighting # NoSighting => \E p \in Spotters : spotter[p] # "before" /\ sighting = noted[p]
    /\ \A s \in warned : TwoTypes(s)
    /\ \A s \in SpotScans \ (warned \union blurred) : Undisturbed(s)

\* The types a scan has given the identity are counted.
LEMMA CountOfTypes ==
    ASSUME NEW s
    PROVE  /\ TwoTypes(s) => Cardinality(TypesOf(s)) > 1
           /\ ~TwoTypes(s) => Cardinality(TypesOf(s)) <= 1
<1>1. IsFiniteSet(Begun(s))
  BY SightAssumption, FS_Subset DEF Begun
<1>2. IsFiniteSet(TypesOf(s))
  <2> DEFINE f == [p \in Begun(s) |-> noted[p].typ]
  <2>1. f \in Surjection(Begun(s), TypesOf(s))
    BY DEF Surjection, TypesOf
  <2>2. QED
    BY <1>1, <2>1, FS_Surjection
<1>3. ASSUME NEW p \in Begun(s), NEW q \in Begun(s), noted[p].typ # noted[q].typ
      PROVE  Cardinality(TypesOf(s)) > 1
  <2> DEFINE a == noted[p].typ
             b == noted[q].typ
  <2>1. {a, b} \subseteq TypesOf(s)
    BY DEF TypesOf
  <2>2. Cardinality({a, b}) = 2
    <3>1. IsFiniteSet({a}) /\ Cardinality({a}) = 1
      BY FS_Singleton
    <3>2. Cardinality({a} \union {b}) = 2
      BY <1>3, <3>1, FS_AddElement
    <3>3. {a, b} = {a} \union {b}
      OBVIOUS
    <3>4. QED
      BY <3>2, <3>3
  <2>3. Cardinality({a, b}) <= Cardinality(TypesOf(s)) /\ Cardinality(TypesOf(s)) \in Nat
    BY <1>2, <2>1, FS_Subset, FS_CardinalityType
  <2>4. QED
    BY <2>2, <2>3
<1>4. ASSUME ~TwoTypes(s) PROVE Cardinality(TypesOf(s)) <= 1
  <2>1. CASE Begun(s) = {}
    <3>1. TypesOf(s) = {}
      BY <2>1 DEF TypesOf
    <3>2. QED
      BY <3>1, FS_EmptySet
  <2>2. CASE Begun(s) # {}
    <3>1. PICK p : p \in Begun(s)
      BY <2>2
    <3>2. TypesOf(s) = {noted[p].typ}
      BY <1>4, <3>1 DEF TypesOf, TwoTypes
    <3>3. QED
      <4>1. Cardinality({noted[p].typ}) = 1
        BY FS_Singleton
      <4>2. QED
        BY <3>2, <4>1
  <2>3. QED
    BY <2>1, <2>2
<1>5. QED
  BY <1>3, <1>4 DEF TwoTypes

\* Every step keeps it.
LEMMA SightStep == SightInv /\ [SightNext]_sightVars => SightInv'
<1> SUFFICES ASSUME SightInv, [SightNext]_sightVars PROVE SightInv'
  OBVIOUS
<1> USE DEF SightInv
<1>1. ASSUME NEW p \in Spotters, LoadSighting(p) PROVE SightInv'
  <2>1. /\ spotter[p] = "before" /\ UNCHANGED <<noted, sighting>>
        /\ spotter' = [spotter EXCEPT ![p] = "loaded"]
        /\ warned' = IF Clashes(p) THEN warned \union {noted[p].scan} ELSE warned
        /\ blurred' = blurred \union Blurs(p)
        /\ noted[p] \in Sightings /\ noted[p].scan \in SpotScans
    BY <1>1 DEF LoadSighting, Sightings
  <2>2. \A s : Begun(s)' = IF s = noted[p].scan THEN Begun(s) \union {p} ELSE Begun(s)
    BY <2>1 DEF Begun
  <2>3. \A s : TwoTypes(s) => TwoTypes(s)'
    BY <2>1, <2>2 DEF TwoTypes
  <2>4. Clashes(p) => TwoTypes(noted[p].scan)'
    <3>1. SUFFICES ASSUME Clashes(p) PROVE TwoTypes(noted[p].scan)'
      OBVIOUS
    <3>2. PICK q \in Spotters : spotter[q] # "before" /\ sighting = noted[q]
      BY <3>1 DEF Clashes
    <3>3. q \in Begun(noted[p].scan) /\ noted[q].typ # noted[p].typ
      BY <3>1, <3>2 DEF Clashes, Begun
    <3>4. QED
      BY <2>1, <2>2, <3>3 DEF TwoTypes
  <2>5. \A s \in warned' : TwoTypes(s)'
    BY <2>1, <2>3, <2>4
  <2>6. ASSUME NEW s \in SpotScans, s \notin warned', s \notin blurred' PROVE Undisturbed(s)'
    <3>1. Undisturbed(s) /\ s \notin Blurs(p) /\ s \notin warned /\ s \notin blurred
      BY <2>1, <2>6
    <3>2. CASE s # noted[p].scan
      <4>1. Begun(s) = {} /\ Begun(s)' = {}
        BY <2>2, <2>6, <3>1, <3>2 DEF Blurs
      <4>2. QED
        BY <4>1 DEF Undisturbed, TwoTypes
    <3>3. CASE s = noted[p].scan /\ Begun(s) = {}
      <4>1. Begun(s)' = {p} /\ spotter'[p] = "loaded"
        BY <2>1, <2>2, <3>3
      <4>2. QED
        BY <4>1 DEF Undisturbed, TwoTypes
    <3>4. CASE s = noted[p].scan /\ Begun(s) # {}
      <4>1. \A q \in Begun(s) : spotter[q] # "loaded"
        BY <2>1, <2>6, <3>1, <3>4 DEF Blurs, Between, Begun
      <4>2. PICK q \in Begun(s) : sighting = noted[q]
        BY <3>1, <3>4, <4>1 DEF Undisturbed
      <4>3. noted[q] \in Sightings /\ noted[q].scan = s /\ sighting # NoSighting
        BY <4>2, SightAssumption DEF Begun, Sightings
      <4>4. noted[p].typ = noted[q].typ
        BY <2>1, <2>6, <3>4, <4>2, <4>3 DEF Clashes
      <4>5. Begun(s)' = Begun(s) \union {p}
        BY <2>2, <3>4
      <4>6. ~TwoTypes(s)'
        BY <2>1, <3>1, <4>2, <4>4, <4>5 DEF Undisturbed, TwoTypes
      <4>7. \A u \in Begun(s)' : spotter'[u] = "loaded" => u = p
        BY <2>1, <4>1, <4>5 DEF Begun
      <4>8. spotter'[p] = "loaded"
        BY <2>1
      <4>9. QED
        BY <4>5, <4>6, <4>7, <4>8 DEF Undisturbed
    <3>5. QED
      BY <3>2, <3>3, <3>4
  <2>7. sighting' # NoSighting => \E q \in Spotters : spotter'[q] # "before" /\ sighting' = noted'[q]
    BY <2>1
  <2>8. QED
    BY <2>1, <2>5, <2>6, <2>7
<1>2. ASSUME NEW p \in Spotters, StoreSighting(p) PROVE SightInv'
  <2>1. /\ spotter[p] = "loaded" /\ UNCHANGED <<noted, warned>>
        /\ spotter' = [spotter EXCEPT ![p] = "after"]
        /\ sighting' = noted[p]
        /\ blurred' = blurred \union Blurs(p)
    BY <1>2 DEF StoreSighting
  <2>2. \A s : Begun(s)' = Begun(s)
    BY <2>1 DEF Begun
  <2>3. \A s : TwoTypes(s)' <=> TwoTypes(s)
    BY <2>1, <2>2 DEF TwoTypes
  <2>4. ASSUME NEW s \in SpotScans, s \notin warned', s \notin blurred' PROVE Undisturbed(s)'
    <3>1. Undisturbed(s) /\ s \notin Blurs(p)
      BY <2>1, <2>4
    <3>2. CASE Begun(s) = {}
      BY <2>2, <2>3, <3>1, <3>2 DEF Undisturbed
    <3>3. CASE Begun(s) # {}
      <4>1. s = noted[p].scan
        BY <2>4, <3>1, <3>3 DEF Blurs
      <4>2. p \in Begun(s)
        BY <2>1, <4>1 DEF Begun
      <4>3. \A q \in Begun(s) : spotter'[q] = "loaded" => spotter[q] = "loaded"
        BY <2>1 DEF Begun
      <4>4. QED
        BY <2>1, <2>2, <2>3, <3>1, <4>2, <4>3 DEF Undisturbed
    <3>4. QED
      BY <3>2, <3>3
  <2>5. QED
    BY <2>1, <2>3, <2>4
<1>3. CASE UNCHANGED sightVars
  BY <1>3 DEF sightVars, TwoTypes, Undisturbed, Begun
<1>4. QED
  BY <1>1, <1>2, <1>3 DEF SightNext

\* The detector of merged types warns of what one scan did and of nothing else, and it
\* misses a merge only when calls overlapped or scans alternated (noteNativeIDType).
THEOREM SightingsStayTrue == SightSpec => []SightingsAreTrue
<1>1. SightInit => SightInv
  BY DEF SightInit, SightInv, TwoTypes, Undisturbed, Begun
<1>2. SightInv => SightingsAreTrue
  BY CountOfTypes DEF SightInv, SightingsAreTrue, NoFalseAlarm, MergesAreSeen, Undisturbed
<1>3. QED
  BY <1>1, <1>2, SightStep, PTL DEF SightSpec

-----------------------------------------------------------------------------
(* SdkCache. *)

FetcherPlaces ==
    {"called", "fetching", "fetched", "removing", "renaming", "present", "renamed", "beaten",
     "no source"}

\* A directory at the target is whole unless it is being removed; what a removal has
\* left to do covers what the directory still holds; a maker makes one directory; and
\* a path that is empty after somebody came through is about to be filled.
SdkTypeOK ==
    /\ dir \in Directories \union {Missing}
    /\ tmp \in [Fetchers -> SUBSET WholeSnapshot]
    /\ fetcher \in [Fetchers -> FetcherPlaces]
    /\ opened \in [Fetchers -> Directories \union {Missing}]

FetchedWhole ==
    \A f \in Fetchers :
       /\ fetcher[f] \in {"called", "fetching"} => Manifest \notin tmp[f]
       /\ fetcher[f] \in {"fetched", "removing", "renaming"} => tmp[f] = WholeSnapshot

RemovalsCover ==
    \A f \in Fetchers :
       fetcher[f] = "removing" =>
          /\ opened[f] # Missing
          /\ dir # Missing /\ dir.by = opened[f].by => dir.files \subseteq opened[f].files

MadeOnce(d) == d # Missing /\ d.by # Earlier => fetcher[d.by] = "renamed"

WholeOrRemoved ==
    dir # Missing =>
       \/ dir.files = WholeSnapshot
       \/ \E f \in Fetchers : fetcher[f] = "removing" /\ opened[f].by = dir.by

SoonFilled ==
    (\E f \in Fetchers : fetcher[f] \in {"present", "renamed", "beaten"})
      => dir # Missing \/ \E f \in Fetchers : fetcher[f] = "renaming"

SdkInv ==
    /\ SdkTypeOK /\ FetchedWhole /\ RemovalsCover /\ WholeOrRemoved /\ SoonFilled
    /\ MadeOnce(dir) /\ \A f \in Fetchers : MadeOnce(opened[f])

\* A directory that loses files.
LEMMA FilesReplaced ==
    ASSUME NEW d \in Directories, NEW S
    PROVE  [d EXCEPT !.files = S] = [by |-> d.by, files |-> S]
BY DEF Directories

\* Every step keeps it.
LEMMA SdkStep == SdkInv /\ [SdkNext]_sdkVars => SdkInv'
<1> SUFFICES ASSUME SdkInv, [SdkNext]_sdkVars PROVE SdkInv'
  OBVIOUS
<1> USE SdkAssumption DEF SdkInv
<1>1. ASSUME NEW f \in Fetchers, CallEnsure(f) PROVE SdkInv'
  <2>1. SdkTypeOK'
    BY <1>1 DEF CallEnsure, FetcherAt, FetcherGoes, Status, SdkTypeOK, FetcherPlaces
  <2>2. FetchedWhole'
    BY <1>1 DEF CallEnsure, FetcherAt, FetcherGoes, Status, SdkTypeOK, FetchedWhole,
       WholeSnapshot, FetcherPlaces
  <2>3. RemovalsCover'
    BY <1>1 DEF CallEnsure, FetcherAt, FetcherGoes, Status, SdkTypeOK, RemovalsCover, Directories
  <2>4. WholeOrRemoved'
    BY <1>1 DEF CallEnsure, FetcherAt, FetcherGoes, Status, SdkTypeOK, RemovalsCover,
       WholeOrRemoved, Directories, FetchedWhole
  <2>5. SoonFilled'
    BY <1>1 DEF CallEnsure, FetcherAt, FetcherGoes, Status, SdkTypeOK, SoonFilled
  <2>6. MadeOnce(dir)'
    BY <1>1 DEF CallEnsure, FetcherAt, FetcherGoes, Status, SdkTypeOK, MadeOnce, Directories
  <2>7. \A g \in Fetchers : MadeOnce(opened[g])'
    BY <1>1 DEF CallEnsure, FetcherAt, FetcherGoes, Status, SdkTypeOK, MadeOnce, Directories
  <2>8. QED
    BY <2>1, <2>2, <2>3, <2>4, <2>5, <2>6, <2>7
<1>2. ASSUME NEW f \in Fetchers, FetchSource(f) PROVE SdkInv'
  <2>1. SdkTypeOK' /\ FetchedWhole'
    <3>1. CASE tmp' = [tmp EXCEPT ![f] = {}] /\ FetcherGoes(f, "no source")
      BY <1>2, <3>1 DEF FetchSource, FetcherGoes, SdkTypeOK, FetcherPlaces, FetchedWhole
    <3>2. ASSUME NEW file \in WholeSnapshot \ tmp[f],
                 file = Manifest => Sources \subseteq tmp[f],
                 tmp' = [tmp EXCEPT ![f] = @ \union {file}],
                 FetcherGoes(f, IF file = Manifest THEN "fetched" ELSE "fetching")
          PROVE  SdkTypeOK' /\ FetchedWhole'
      <4>1. tmp[f] \union {file} \in SUBSET WholeSnapshot
        BY DEF SdkTypeOK
      <4>2. SdkTypeOK'
        BY <1>2, <3>2, <4>1 DEF FetchSource, FetcherGoes, SdkTypeOK, FetcherPlaces
      <4>3. file = Manifest => tmp[f] \union {file} = WholeSnapshot
        BY <3>2, <4>1 DEF WholeSnapshot
      <4>4. file # Manifest => Manifest \notin tmp[f] \union {file}
        BY <1>2 DEF FetchSource, FetcherAt, FetchedWhole
      <4>5. QED
        BY <3>2, <4>2, <4>3, <4>4 DEF FetcherGoes, SdkTypeOK, FetchedWhole
    <3>3. QED
      BY <1>2, <3>1, <3>2 DEF FetchSource
  <2>2. FetchedWhole'
    BY <2>1
  <2>3. RemovalsCover'
    BY <1>2 DEF FetchSource, FetcherAt, FetcherGoes, WholeSnapshot, SdkTypeOK, RemovalsCover,
       Directories
  <2>4. WholeOrRemoved'
    BY <1>2 DEF FetchSource, FetcherAt, FetcherGoes, WholeSnapshot, SdkTypeOK, RemovalsCover,
       WholeOrRemoved, Directories, FetchedWhole
  <2>5. SoonFilled'
    BY <1>2 DEF FetchSource, FetcherAt, FetcherGoes, WholeSnapshot, SdkTypeOK, SoonFilled
  <2>6. MadeOnce(dir)'
    BY <1>2 DEF FetchSource, FetcherAt, FetcherGoes, WholeSnapshot, SdkTypeOK, MadeOnce,
       Directories
  <2>7. \A g \in Fetchers : MadeOnce(opened[g])'
    BY <1>2 DEF FetchSource, FetcherAt, FetcherGoes, WholeSnapshot, SdkTypeOK, MadeOnce,
       Directories
  <2>8. QED
    BY <2>1, <2>2, <2>3, <2>4, <2>5, <2>6, <2>7
<1>3. ASSUME NEW f \in Fetchers, OpenForRemoval(f) PROVE SdkInv'
  <2>1. SdkTypeOK'
    BY <1>3 DEF OpenForRemoval, FetcherAt, FetcherGoes, SdkTypeOK, FetcherPlaces
  <2>2. FetchedWhole'
    BY <1>3 DEF OpenForRemoval, FetcherAt, FetcherGoes, SdkTypeOK, FetchedWhole, WholeSnapshot,
       FetcherPlaces
  <2>3. RemovalsCover'
    BY <1>3 DEF OpenForRemoval, FetcherAt, FetcherGoes, SdkTypeOK, RemovalsCover, Directories
  <2>4. WholeOrRemoved'
    BY <1>3 DEF OpenForRemoval, FetcherAt, FetcherGoes, SdkTypeOK, RemovalsCover,
       WholeOrRemoved, Directories, FetchedWhole
  <2>5. SoonFilled'
    BY <1>3 DEF OpenForRemoval, FetcherAt, FetcherGoes, SdkTypeOK, SoonFilled
  <2>6. MadeOnce(dir)'
    BY <1>3 DEF OpenForRemoval, FetcherAt, FetcherGoes, SdkTypeOK, MadeOnce, Directories
  <2>7. \A g \in Fetchers : MadeOnce(opened[g])'
    BY <1>3 DEF OpenForRemoval, FetcherAt, FetcherGoes, SdkTypeOK, MadeOnce, Directories
  <2>8. QED
    BY <2>1, <2>2, <2>3, <2>4, <2>5, <2>6, <2>7
<1>4. ASSUME NEW f \in Fetchers, RemoveFile(f) PROVE SdkInv'
  <2>1. PICK file \in opened[f].files :
           /\ opened' = [opened EXCEPT ![f].files = @ \ {file}]
           /\ dir' = IF dir # Missing /\ dir.by = opened[f].by
                     THEN [dir EXCEPT !.files = @ \ {file}] ELSE dir
    BY <1>4 DEF RemoveFile
  <2>2. fetcher[f] = "removing" /\ opened[f] \in Directories /\ UNCHANGED <<tmp, fetcher>>
    BY <1>4 DEF RemoveFile, FetcherAt, RemovalsCover, SdkTypeOK
  <2> DEFINE left == [by |-> opened[f].by, files |-> opened[f].files \ {file}]
             there == [by |-> dir.by, files |-> dir.files \ {file}]
  <2>3. opened' = [opened EXCEPT ![f] = left] /\ left \in Directories
    <3>1. [opened[f] EXCEPT !.files = @ \ {file}] = left
      BY <2>2, FilesReplaced
    <3>2. left \in Directories
      BY <2>2 DEF Directories
    <3>3. QED
      BY <2>1, <3>1, <3>2
  <2>4. dir # Missing => there \in Directories
    BY DEF SdkTypeOK, Directories
  <2>5. dir' = IF dir # Missing /\ dir.by = opened[f].by THEN there ELSE dir
    <3>1. dir # Missing => [dir EXCEPT !.files = @ \ {file}] = there
      BY FilesReplaced DEF SdkTypeOK
    <3>2. QED
      BY <2>1, <3>1
  <2>6. SdkTypeOK'
    BY <2>2, <2>3, <2>4, <2>5 DEF SdkTypeOK
  <2>7. FetchedWhole'
    BY <2>2 DEF FetchedWhole
  <2>8. /\ dir' = Missing <=> dir = Missing
        /\ dir # Missing => dir'.by = dir.by /\ dir'.files \subseteq dir.files
    BY <2>4, <2>5
  <2>9. RemovalsCover'
    BY <2>2, <2>3, <2>5, <2>8 DEF RemovalsCover, SdkTypeOK
  <2>10. WholeOrRemoved'
    BY <2>2, <2>3, <2>5, <2>8 DEF WholeOrRemoved, SdkTypeOK
  <2>11. SoonFilled'
    BY <2>2, <2>8 DEF SoonFilled
  <2>12. MadeOnce(dir)'
    BY <2>2, <2>8 DEF MadeOnce
  <2>13. \A g \in Fetchers : opened'[g] # Missing => opened[g] # Missing /\ opened'[g].by = opened[g].by
    BY <2>2, <2>3 DEF SdkTypeOK
  <2>14. \A g \in Fetchers : MadeOnce(opened[g])'
    BY <2>2, <2>13 DEF MadeOnce
  <2>15. QED
    BY <2>6, <2>7, <2>9, <2>10, <2>11, <2>12, <2>14
<1>5. ASSUME NEW f \in Fetchers, EndRemoval(f) PROVE SdkInv'
  <2>1. SdkTypeOK'
    BY <1>5 DEF EndRemoval, FetcherAt, FetcherGoes, Directories, SdkTypeOK, FetcherPlaces
  <2>2. FetchedWhole'
    BY <1>5 DEF EndRemoval, FetcherAt, FetcherGoes, Directories, SdkTypeOK, FetchedWhole,
       WholeSnapshot, FetcherPlaces
  <2>3. RemovalsCover'
    BY <1>5 DEF EndRemoval, FetcherAt, FetcherGoes, Directories, SdkTypeOK, RemovalsCover
  <2>4. WholeOrRemoved'
    BY <1>5 DEF EndRemoval, FetcherAt, FetcherGoes, Directories, SdkTypeOK, RemovalsCover,
       WholeOrRemoved, FetchedWhole
  <2>5. SoonFilled'
    BY <1>5 DEF EndRemoval, FetcherAt, FetcherGoes, Directories, SdkTypeOK, SoonFilled
  <2>6. MadeOnce(dir)'
    BY <1>5 DEF EndRemoval, FetcherAt, FetcherGoes, Directories, SdkTypeOK, MadeOnce
  <2>7. \A g \in Fetchers : MadeOnce(opened[g])'
    BY <1>5 DEF EndRemoval, FetcherAt, FetcherGoes, Directories, SdkTypeOK, MadeOnce
  <2>8. QED
    BY <2>1, <2>2, <2>3, <2>4, <2>5, <2>6, <2>7
<1>6. ASSUME NEW f \in Fetchers, RenameIn(f) PROVE SdkInv'
  <2>1. SdkTypeOK'
    <3>1. Directory(f, tmp[f]) \in Directories
      BY DEF Directory, Directories, SdkTypeOK
    <3>2. QED
      BY <1>6, <3>1 DEF RenameIn, FetcherGoes, SdkTypeOK, FetcherPlaces
  <2>2. FetchedWhole'
    BY <1>6 DEF RenameIn, FetcherAt, FetcherGoes, Directory, Directories, Status, SdkTypeOK,
       FetchedWhole, WholeSnapshot, FetcherPlaces
  <2>3. RemovalsCover'
    <3>1. \A g \in Fetchers : fetcher'[g] = "removing" => fetcher[g] = "removing"
      BY <1>6 DEF RenameIn, FetcherGoes, SdkTypeOK
    <3>2. CASE dir = Missing
      <4>1. dir'.by = f /\ UNCHANGED opened
        BY <1>6, <3>2 DEF RenameIn, Directory
      <4>2. \A g \in Fetchers : opened[g] # Missing => opened[g].by # f
        BY <1>6 DEF RenameIn, FetcherAt, MadeOnce
      <4>3. QED
        BY <3>1, <4>1, <4>2 DEF RemovalsCover
    <3>3. CASE dir # Missing
      BY <1>6, <3>1, <3>3 DEF RenameIn, RemovalsCover
    <3>4. QED
      BY <3>2, <3>3
  <2>4. WholeOrRemoved'
    BY <1>6 DEF RenameIn, FetcherAt, FetcherGoes, Directory, Directories, Status, SdkTypeOK,
       RemovalsCover, WholeOrRemoved, FetchedWhole
  <2>5. SoonFilled'
    BY <1>6 DEF RenameIn, FetcherAt, FetcherGoes, Directory, Directories, Status, SdkTypeOK,
       SoonFilled
  <2>6. MadeOnce(dir)'
    BY <1>6 DEF RenameIn, FetcherAt, FetcherGoes, Directory, Directories, Status, SdkTypeOK,
       MadeOnce
  <2>7. \A g \in Fetchers : MadeOnce(opened[g])'
    BY <1>6 DEF RenameIn, FetcherAt, FetcherGoes, Directory, Directories, Status, SdkTypeOK,
       MadeOnce
  <2>8. QED
    BY <2>1, <2>2, <2>3, <2>4, <2>5, <2>6, <2>7
<1>7. ASSUME NEW f \in Fetchers, Kill(f) PROVE SdkInv'
  <2>1. SdkTypeOK'
    BY <1>7 DEF Kill, SdkTypeOK, FetcherPlaces
  <2>2. FetchedWhole'
    BY <1>7 DEF Kill, SdkTypeOK, FetchedWhole, WholeSnapshot, FetcherPlaces
  <2>3. RemovalsCover'
    BY <1>7 DEF Kill, SdkTypeOK, RemovalsCover, Directories
  <2>4. WholeOrRemoved'
    BY <1>7 DEF Kill, SdkTypeOK, RemovalsCover, WholeOrRemoved, Directories, FetchedWhole
  <2>5. SoonFilled'
    BY <1>7 DEF Kill, SdkTypeOK, SoonFilled
  <2>6. MadeOnce(dir)'
    BY <1>7 DEF Kill, SdkTypeOK, MadeOnce, Directories
  <2>7. \A g \in Fetchers : MadeOnce(opened[g])'
    BY <1>7 DEF Kill, SdkTypeOK, MadeOnce, Directories
  <2>8. QED
    BY <2>1, <2>2, <2>3, <2>4, <2>5, <2>6, <2>7
<1>8. CASE UNCHANGED sdkVars
  BY <1>8 DEF sdkVars, SdkTypeOK, FetchedWhole, RemovalsCover, WholeOrRemoved, SoonFilled,
     MadeOnce
<1>9. QED
  BY <1>1, <1>2, <1>3, <1>4, <1>5, <1>6, <1>7, <1>8 DEF SdkNext, FetcherStep

\* Racing and killed fetches leave a cache that can be used (Ensure).
THEOREM CacheStaysUsable == SdkSpec => []CacheIsUsable
<1>1. SdkInit => SdkInv
  <2> SUFFICES ASSUME SdkInit PROVE SdkInv
    OBVIOUS
  <2>1. Directory(Earlier, WholeSnapshot) \in Directories
    BY DEF Directory, Directories
  <2>2. SdkTypeOK
    BY <2>1 DEF SdkInit, SdkTypeOK, FetcherPlaces
  <2>3. FetchedWhole /\ RemovalsCover /\ SoonFilled
    BY DEF SdkInit, FetchedWhole, RemovalsCover, SoonFilled
  <2>4. WholeOrRemoved /\ MadeOnce(dir) /\ \A f \in Fetchers : MadeOnce(opened[f])
    BY DEF SdkInit, WholeOrRemoved, MadeOnce, Directory
  <2>5. QED
    BY <2>2, <2>3, <2>4 DEF SdkInv
<1>2. SdkInv => CacheIsUsable
  <2> SUFFICES ASSUME SdkInv PROVE CacheIsUsable
    OBVIOUS
  <2>1. SnapshotsAreWhole
    BY DEF SdkInv, SdkTypeOK, WholeOrRemoved, SnapshotsAreWhole, Status, WholeSnapshot
  <2>2. SomebodySucceeds
    BY DEF SdkInv, WholeOrRemoved, SoonFilled, SomebodySucceeds, Returned
  <2>3. QED
    BY <2>1, <2>2 DEF CacheIsUsable
<1>3. QED
  BY <1>1, <1>2, SdkStep, PTL DEF SdkSpec

-----------------------------------------------------------------------------
(* Graph searches: distances. *)

\* Is n the other end of a relationship of q, followed from m?
Adjacent(q, m, n) ==
    \E l \in q.links : \/ q.dir \in {"out", "both"} /\ l = <<m, n>>
                       \/ q.dir \in {"in", "both"} /\ l = <<n, m>>

\* Where one step leads from S; the seed is walked through, managed or not.
Onward(q, S, blocked) ==
    {n \in Nodes \ blocked : \E m \in S : (m = Seed \/ m \notin q.managed) /\ Adjacent(q, m, n)}

\* The function Ball is defined by, and Ball with the query for a parameter, so that a
\* step that keeps the query keeps every ball.
IsBall(q, k, blocked, g) ==
    g = [i \in 0 .. k |-> IF i = 0 THEN {Seed} ELSE g[i - 1] \union Onward(q, g[i - 1], blocked)]

BallOf(q, k, blocked) == (CHOOSE g : IsBall(q, k, blocked, g))[k]

\* BallOf is the Ball of the properties.
LEMMA BallIsBallOf ==
  ASSUME NEW k, NEW blocked
  PROVE  Ball(k, blocked) = BallOf(query, k, blocked)
BY Zenon DEF Ball, BallOf, IsBall, Onward, Adjacent, Reached, Leads

\* The recursion of balls is well founded.
LEMMA BallExists ==
  ASSUME NEW q, NEW blocked, NEW k \in Nat
  PROVE  \E g : IsBall(q, k, blocked, g)
<1> DEFINE S == {j \in Nat : \E g : IsBall(q, j, blocked, g)}
<1>1. 0 \in S
  <2> DEFINE g == [i \in 0 .. 0 |-> {Seed}]
  <2>1. IsBall(q, 0, blocked, g)
    BY DEF IsBall
  <2> QED
    BY <2>1
<1>2. ASSUME NEW j \in Nat, j \in S PROVE j + 1 \in S
  <2>1. PICK g : IsBall(q, j, blocked, g)
    BY <1>2
  <2> DEFINE h == [i \in 0 .. (j + 1) |-> IF i = j + 1 THEN g[j] \union Onward(q, g[j], blocked)
                                          ELSE g[i]]
  <2>2. \A i \in 0 .. j : h[i] = g[i]
    OBVIOUS
  <2>3. \A i \in 0 .. j : g[i] = IF i = 0 THEN {Seed}
                                  ELSE g[i - 1] \union Onward(q, g[i - 1], blocked)
    BY <2>1 DEF IsBall
  <2>4. \A i \in 0 .. (j + 1) : h[i] = IF i = 0 THEN {Seed}
                                        ELSE h[i - 1] \union Onward(q, h[i - 1], blocked)
    <3> SUFFICES ASSUME NEW i \in 0 .. (j + 1)
                 PROVE  h[i] = IF i = 0 THEN {Seed}
                               ELSE h[i - 1] \union Onward(q, h[i - 1], blocked)
      OBVIOUS
    <3> HIDE DEF h
    <3>1. CASE i = j + 1
      <4>1. h[i] = g[j] \union Onward(q, g[j], blocked) /\ i - 1 = j /\ i # 0
        BY <3>1 DEF h
      <4>2. h[i - 1] = g[j]
        BY <2>2, <4>1
      <4> QED
        BY <4>1, <4>2
    <3>2. CASE i # j + 1
      <4>1. i \in 0 .. j
        BY <3>2
      <4>2. i # 0 => i - 1 \in 0 .. j
        BY <4>1
      <4> QED
        BY <2>2, <2>3, <4>1, <4>2
    <3> QED
      BY <3>1, <3>2
  <2>5. h = [i \in 0 .. (j + 1) |-> h[i]]
    OBVIOUS
  <2> HIDE DEF h
  <2>6. IsBall(q, j + 1, blocked, h)
    BY <2>4, <2>5 DEF IsBall
  <2> QED
    BY <2>6
<1> HIDE DEF S
<1>3. k \in S
  BY <1>1, <1>2, NaturalInduction
<1> QED
  BY <1>3 DEF S

\* Two functions of balls agree where both are defined.
LEMMA BallAlone ==
  ASSUME NEW q, NEW blocked, NEW k \in Nat, NEW j \in Nat, k <= j, NEW g, NEW h,
         IsBall(q, k, blocked, g), IsBall(q, j, blocked, h)
  PROVE  \A i \in 0 .. k : g[i] = h[i]
<1> DEFINE S == {i \in Nat : i <= k => g[i] = h[i]}
<1>1. /\ \A i \in 0 .. k : g[i] = IF i = 0 THEN {Seed}
                                   ELSE g[i - 1] \union Onward(q, g[i - 1], blocked)
      /\ \A i \in 0 .. j : h[i] = IF i = 0 THEN {Seed}
                                   ELSE h[i - 1] \union Onward(q, h[i - 1], blocked)
  BY DEF IsBall
<1>2. 0 \in S
  <2>1. 0 \in 0 .. k /\ 0 \in 0 .. j
    OBVIOUS
  <2>2. g[0] = {Seed} /\ h[0] = {Seed}
    BY <1>1, <2>1
  <2> QED
    BY <2>2
<1>3. ASSUME NEW i \in Nat, i \in S PROVE i + 1 \in S
  <2> SUFFICES ASSUME i + 1 <= k PROVE g[i + 1] = h[i + 1]
    OBVIOUS
  <2>1. i + 1 \in 0 .. k /\ i + 1 \in 0 .. j /\ i + 1 # 0 /\ (i + 1) - 1 = i /\ i <= k
    OBVIOUS
  <2>2. g[i] = h[i]
    BY <1>3, <2>1
  <2>3. g[i + 1] = g[i] \union Onward(q, g[i], blocked)
        /\ h[i + 1] = h[i] \union Onward(q, h[i], blocked)
    BY <1>1, <2>1
  <2> QED
    BY <2>2, <2>3
<1> HIDE DEF S
<1>4. Nat \subseteq S
  BY <1>2, <1>3, NaturalInduction
<1> QED
  BY <1>4 DEF S

\* A ball is the one before and what one step leads to.
LEMMA BallStep ==
  ASSUME NEW q, NEW blocked
  PROVE  /\ BallOf(q, 0, blocked) = {Seed}
         /\ \A k \in Nat : BallOf(q, k + 1, blocked) =
              BallOf(q, k, blocked) \union Onward(q, BallOf(q, k, blocked), blocked)
<1> DEFINE B(k) == CHOOSE g : IsBall(q, k, blocked, g)
<1>1. \A k \in Nat : IsBall(q, k, blocked, B(k)) /\ BallOf(q, k, blocked) = B(k)[k]
  <2> SUFFICES ASSUME NEW k \in Nat
               PROVE  IsBall(q, k, blocked, B(k)) /\ BallOf(q, k, blocked) = B(k)[k]
    OBVIOUS
  <2>1. \E g : IsBall(q, k, blocked, g)
    BY BallExists
  <2> QED
    BY <2>1, Zenon DEF BallOf
<1> HIDE DEF B
<1>2. BallOf(q, 0, blocked) = {Seed}
  <2>1. IsBall(q, 0, blocked, B(0)) /\ BallOf(q, 0, blocked) = B(0)[0]
    BY <1>1
  <2> QED
    BY <2>1 DEF IsBall
<1>3. ASSUME NEW k \in Nat
      PROVE  BallOf(q, k + 1, blocked) =
               BallOf(q, k, blocked) \union Onward(q, BallOf(q, k, blocked), blocked)
  <2>1. /\ IsBall(q, k, blocked, B(k)) /\ BallOf(q, k, blocked) = B(k)[k]
        /\ IsBall(q, k + 1, blocked, B(k + 1)) /\ BallOf(q, k + 1, blocked) = B(k + 1)[k + 1]
    BY <1>1
  <2>2. B(k)[k] = B(k + 1)[k]
    <3>1. \A i \in 0 .. k : B(k)[i] = B(k + 1)[i]
      BY <2>1, BallAlone
    <3> QED
      BY <3>1
  <2>3. \A i \in 0 .. (k + 1) : B(k + 1)[i] = IF i = 0 THEN {Seed}
            ELSE B(k + 1)[i - 1] \union Onward(q, B(k + 1)[i - 1], blocked)
    BY <2>1 DEF IsBall
  <2>4. k + 1 \in 0 .. (k + 1) /\ k + 1 # 0 /\ (k + 1) - 1 = k
    OBVIOUS
  <2>5. B(k + 1)[k + 1] = B(k + 1)[k] \union Onward(q, B(k + 1)[k], blocked)
    BY <2>3, <2>4
  <2> QED
    BY <2>1, <2>2, <2>5
<1> QED
  BY <1>2, <1>3

\* Balls hold the seed, otherwise nobody blocked, and grow with the number of steps.
LEMMA BallGrows ==
  ASSUME NEW q, NEW blocked, NEW k \in Nat
  PROVE  /\ Seed \in BallOf(q, k, blocked) /\ BallOf(q, k, blocked) \subseteq Nodes
         /\ \A n \in BallOf(q, k, blocked) : n = Seed \/ n \notin blocked
         /\ \A j \in Nat : BallOf(q, k, blocked) \subseteq BallOf(q, k + j, blocked)
<1> DEFINE B(i) == BallOf(q, i, blocked)
           S == {i \in Nat : /\ Seed \in B(i) /\ B(i) \subseteq Nodes
                             /\ \A n \in B(i) : n = Seed \/ n \notin blocked}
           T == {j \in Nat : B(k) \subseteq B(k + j)}
<1>1. B(0) = {Seed} /\ \A i \in Nat : B(i + 1) = B(i) \union Onward(q, B(i), blocked)
  BY BallStep
<1>2. \A i : \A n \in Onward(q, B(i), blocked) : n \in Nodes /\ n \notin blocked
  BY DEF Onward
<1> HIDE DEF B
<1>3. 0 \in S /\ \A i \in Nat : i \in S => i + 1 \in S
  BY <1>1, <1>2, GraphAssumption
<1>4. 0 \in T /\ \A j \in Nat : j \in T => j + 1 \in T
  <2>1. \A j \in Nat : k + j \in Nat /\ k + (j + 1) = (k + j) + 1 /\ k + 0 = k
    OBVIOUS
  <2> QED
    BY <1>1, <2>1
<1> HIDE DEF S, T
<1>5. Nat \subseteq S /\ Nat \subseteq T
  BY <1>3, <1>4, NaturalInduction
<1> QED
  BY <1>5 DEF S, T, B

\* More steps, a wider ball.
LEMMA BallWider ==
  ASSUME NEW q, NEW blocked, NEW k \in Nat, NEW j \in Nat, k <= j
  PROVE  BallOf(q, k, blocked) \subseteq BallOf(q, j, blocked)
<1>1. j - k \in Nat /\ k + (j - k) = j
  OBVIOUS
<1>2. BallOf(q, k, blocked) \subseteq BallOf(q, k + (j - k), blocked)
  BY <1>1, BallGrows
<1> QED
  BY <1>1, <1>2

\* A ball that does not grow once grows no more.
LEMMA BallStops ==
  ASSUME NEW q, NEW blocked, NEW k \in Nat, NEW j \in Nat, k <= j,
         BallOf(q, k + 1, blocked) \subseteq BallOf(q, k, blocked)
  PROVE  BallOf(q, j, blocked) \subseteq BallOf(q, k, blocked)
<1> DEFINE B(i) == BallOf(q, i, blocked)
           S == {i \in Nat : B(k + i) = B(k)}
<1>1. \A i \in Nat : B(i + 1) = B(i) \union Onward(q, B(i), blocked)
  BY BallStep
<1>2. B(k + 1) \subseteq B(k)
  OBVIOUS
<1> HIDE DEF B
<1>3. 0 \in S
  OBVIOUS
<1>4. ASSUME NEW i \in Nat, i \in S PROVE i + 1 \in S
  <2>1. B(k + i) = B(k) /\ k + i \in Nat /\ k + (i + 1) = (k + i) + 1
    BY <1>4
  <2>2. B((k + i) + 1) = B(k + i) \union Onward(q, B(k + i), blocked)
    BY <1>1, <2>1
  <2>3. B((k + i) + 1) = B(k) \union Onward(q, B(k), blocked)
    BY <2>1, <2>2
  <2>4. B(k + 1) = B(k) \union Onward(q, B(k), blocked)
    BY <1>1
  <2>5. B(k + (i + 1)) = B(k)
    BY <1>2, <2>1, <2>3, <2>4
  <2> QED
    BY <2>5
<1> HIDE DEF S
<1>5. Nat \subseteq S
  BY <1>3, <1>4, NaturalInduction
<1>6. j - k \in Nat /\ k + (j - k) = j
  OBVIOUS
<1>7. j - k \in S
  BY <1>5, <1>6
<1> QED
  BY <1>6, <1>7 DEF S, B

\* n is k steps from the seed.
AtSteps(q, n, k, blocked) ==
    n \in BallOf(q, k, blocked) /\ (k > 0 => n \notin BallOf(q, k - 1, blocked))

\* A node has one distance.
LEMMA AtOnce ==
  ASSUME NEW q, NEW blocked, NEW n, NEW k \in Nat, NEW j \in Nat,
         AtSteps(q, n, k, blocked), AtSteps(q, n, j, blocked)
  PROVE  k = j
<1>1. ASSUME NEW a \in Nat, NEW b \in Nat, a < b,
             AtSteps(q, n, a, blocked), AtSteps(q, n, b, blocked)
      PROVE  FALSE
  <2>1. b - 1 \in Nat /\ a <= b - 1 /\ b > 0
    BY <1>1
  <2>2. n \in BallOf(q, b - 1, blocked)
    BY <1>1, <2>1, BallWider DEF AtSteps
  <2> QED
    BY <1>1, <2>1, <2>2 DEF AtSteps
<1>2. ~(k < j) /\ ~(j < k)
  BY <1>1
<1> QED
  BY <1>2

\* What makes a node be in the ring k + 1.
RingRule(q, blocked, k, n) ==
    AtSteps(q, n, k + 1, blocked) <=>
        /\ n \notin BallOf(q, k, blocked) /\ n \in Nodes \ blocked
        /\ \E m \in Nodes : /\ AtSteps(q, m, k, blocked) /\ (m = Seed \/ m \notin q.managed)
                            /\ Adjacent(q, m, n)

\* What is reached first from a ball is reached from its rim.
LEMMA NextRing ==
  ASSUME NEW q, NEW blocked, NEW k \in Nat, NEW n
  PROVE  RingRule(q, blocked, k, n)
<1> DEFINE B(i) == BallOf(q, i, blocked)
<1>1. B(k + 1) = B(k) \union Onward(q, B(k), blocked) /\ B(k) \subseteq Nodes
  BY BallStep, BallGrows
<1>2. AtSteps(q, n, k + 1, blocked) <=> n \in B(k + 1) /\ n \notin B(k)
  BY DEF AtSteps
<1>3. ASSUME NEW m \in B(k), m = Seed \/ m \notin q.managed, Adjacent(q, m, n),
             n \notin B(k), n \in Nodes \ blocked
      PROVE  AtSteps(q, m, k, blocked)
  <2> SUFFICES ASSUME k > 0, m \in B(k - 1) PROVE FALSE
    BY DEF AtSteps
  <2>1. k - 1 \in Nat /\ (k - 1) + 1 = k
    OBVIOUS
  <2>2. B((k - 1) + 1) = B(k - 1) \union Onward(q, B(k - 1), blocked)
    BY <2>1, BallStep
  <2>3. n \in Onward(q, B(k - 1), blocked)
    BY <1>3 DEF Onward
  <2> QED
    BY <1>3, <2>1, <2>2, <2>3
<1>4. \A m : AtSteps(q, m, k, blocked) => m \in B(k)
  BY DEF AtSteps
<1> HIDE DEF B
<1>5. n \in Onward(q, B(k), blocked) <=>
         /\ n \in Nodes \ blocked
         /\ \E m \in B(k) : (m = Seed \/ m \notin q.managed) /\ Adjacent(q, m, n)
  BY DEF Onward
<1> QED
  BY <1>1, <1>2, <1>3, <1>4, <1>5 DEF B, RingRule

\* Every ball up to the distance of a node has grown, so the distance fits the nodes.
LEMMA AtWithin ==
  ASSUME NEW q, NEW blocked, NEW n, NEW k \in Nat, AtSteps(q, n, k, blocked)
  PROVE  k \in 0 .. Cardinality(Nodes)
<1> DEFINE B(i) == BallOf(q, i, blocked)
           S == {i \in Nat : i <= k => Cardinality(B(i)) >= i + 1}
<1>1. \A i \in Nat : /\ Seed \in B(i) /\ B(i) \subseteq Nodes /\ IsFiniteSet(B(i))
                     /\ Cardinality(B(i)) \in Nat
                     /\ B(i) \subseteq B(i + 1)
  <2> SUFFICES ASSUME NEW i \in Nat
               PROVE  /\ Seed \in B(i) /\ B(i) \subseteq Nodes /\ IsFiniteSet(B(i))
                      /\ Cardinality(B(i)) \in Nat
                      /\ B(i) \subseteq B(i + 1)
    OBVIOUS
  <2>1. Seed \in B(i) /\ B(i) \subseteq Nodes /\ B(i) \subseteq B(i + 1)
    BY BallGrows
  <2> QED
    BY <2>1, FS_Subset, FS_CardinalityType, GraphAssumption
<1>2. \A i \in Nat : i < k => B(i + 1) # B(i)
  <2> SUFFICES ASSUME NEW i \in Nat, i < k, B(i + 1) = B(i) PROVE FALSE
    OBVIOUS
  <2>1. k - 1 \in Nat /\ i <= k /\ i <= k - 1 /\ k > 0
    OBVIOUS
  <2>2. B(k) \subseteq B(i) /\ B(i) \subseteq B(k - 1)
    BY <2>1, BallStops, BallWider
  <2> QED
    BY <2>1, <2>2 DEF AtSteps
<1> HIDE DEF B
<1>3. 0 \in S
  <2>1. B(0) # {}
    BY <1>1
  <2>2. Cardinality(B(0)) # 0
    BY <1>1, <2>1, FS_EmptySet
  <2> QED
    BY <1>1, <2>2
<1>4. ASSUME NEW i \in Nat, i \in S PROVE i + 1 \in S
  <2> SUFFICES ASSUME i + 1 <= k PROVE Cardinality(B(i + 1)) >= i + 2
    OBVIOUS
  <2>1. Cardinality(B(i)) >= i + 1 /\ i < k
    BY <1>4
  <2>2. B(i) \subseteq B(i + 1) /\ B(i) # B(i + 1)
    BY <1>1, <1>2, <2>1
  <2>3. Cardinality(B(i)) < Cardinality(B(i + 1))
    <3>1. i + 1 \in Nat /\ IsFiniteSet(B(i + 1))
      BY <1>1
    <3>2. Cardinality(B(i)) <= Cardinality(B(i + 1))
      BY <2>2, <3>1, FS_Subset
    <3>3. Cardinality(B(i)) # Cardinality(B(i + 1))
      BY <2>2, <3>1, FS_Subset
    <3>4. Cardinality(B(i)) \in Nat /\ Cardinality(B(i + 1)) \in Nat
      BY <1>1, <3>1
    <3> QED
      BY <3>2, <3>3, <3>4
  <2>4. Cardinality(B(i)) \in Nat /\ Cardinality(B(i + 1)) \in Nat
    BY <1>1
  <2> QED
    BY <2>1, <2>3, <2>4
<1> HIDE DEF S
<1>5. k \in S
  BY <1>3, <1>4, NaturalInduction
<1>6. Cardinality(B(k)) >= k + 1
  BY <1>5 DEF S
<1>7. Cardinality(B(k)) <= Cardinality(Nodes) /\ Cardinality(Nodes) \in Nat
  BY <1>1, FS_Subset, FS_CardinalityType, GraphAssumption
<1> QED
  BY <1>1, <1>6, <1>7

\* The distance of the properties.
LEMMA DistanceIs ==
  ASSUME NEW blocked, NEW n, NEW k \in Nat, AtSteps(query, n, k, blocked)
  PROVE  Distance(n, blocked) = k
<1> DEFINE P(j) == n \in Ball(j, blocked) /\ (j > 0 => n \notin Ball(j - 1, blocked))
<1>1. \A j : P(j) <=> AtSteps(query, n, j, blocked)
  BY BallIsBallOf DEF AtSteps
<1>2. k \in 0 .. Cardinality(Nodes) /\ Cardinality(Nodes) \in Nat
  BY AtWithin, FS_CardinalityType, GraphAssumption
<1>3. \A j \in 0 .. Cardinality(Nodes) : P(j) <=> j = k
  <2>1. \A j \in 0 .. Cardinality(Nodes) : j \in Nat
    BY <1>2
  <2> QED
    BY <1>1, <2>1, AtOnce
<1>4. Distance(n, blocked) = CHOOSE j \in 0 .. Cardinality(Nodes) : P(j)
  BY DEF Distance
<1> HIDE DEF P
<1> QED
  BY <1>2, <1>3, <1>4

-----------------------------------------------------------------------------
(* The searches of GraphWalk: what holds at every layer. *)

\* A cap keeps within the set and the bound, and drops nobody while below it.
LEMMA CappedIs ==
  ASSUME NEW S, IsFiniteSet(S), NEW used \in Nat, NEW cap \in Nat, cap = 0 \/ used <= cap,
         NEW T \in Capped(S, used, cap)
  PROVE  /\ T \subseteq S /\ IsFiniteSet(T) /\ Cardinality(T) \in Nat
         /\ cap # 0 => used + Cardinality(T) <= cap
         /\ cap = 0 \/ used + Cardinality(T) < cap => T = S
<1>1. CASE cap = 0 \/ used + Cardinality(S) <= cap
  <2>1. T = S
    BY <1>1 DEF Capped
  <2>2. cap # 0 => used + Cardinality(S) <= cap
    BY <1>1, FS_CardinalityType
  <2> QED
    BY <2>1, <2>2, FS_CardinalityType
<1>2. CASE ~(cap = 0 \/ used + Cardinality(S) <= cap)
  <2>1. T \in SUBSET S /\ used + Cardinality(T) = IF used > cap THEN used ELSE cap
    BY <1>2 DEF Capped
  <2>2. IsFiniteSet(T) /\ Cardinality(T) \in Nat
    BY <2>1, FS_Subset, FS_CardinalityType
  <2>3. used + Cardinality(T) = cap
    BY <1>2, <2>1, <2>2
  <2> QED
    BY <1>2, <2>1, <2>2, <2>3
<1> QED
  BY <1>1, <1>2

\* The initial states have their types.
LEMMA GraphInitTyped == GraphInit => GraphTypeOK
<1> SUFFICES ASSUME GraphInit PROVE GraphTypeOK
  OBVIOUS
<1> USE DEF GraphInit
<1>1. Admitted = {Seed}
  BY GraphAssumption DEF Admitted
<1>2. query.maxDepth \in Nat /\ query.maxNodes \in Nat /\ query.maxEdges \in Nat
  BY GraphAssumption DEF Queries
<1>3. query.maxNodes # 0 => Cardinality(Admitted) <= query.maxNodes
  <2>1. Cardinality(Admitted) = 1
    BY <1>1, FS_Singleton
  <2> QED
    BY <1>2, <2>1
<1>4. query.maxEdges # 0 => Cardinality(edges) <= query.maxEdges
  BY <1>2, FS_EmptySet
<1>5. parent \in [Nodes -> Nodes \union {Unseen}] /\ visited \in [Nodes -> Nat \union {Unseen}]
  BY GraphAssumption
<1>6. /\ depth \in Nat /\ depth <= query.maxDepth
      /\ frontier \subseteq Nodes /\ edges \subseteq query.links
  BY <1>2, GraphAssumption
<1> QED
  BY <1>3, <1>4, <1>5, <1>6 DEF GraphTypeOK

\* What the type of a query says of its parts.
LEMMA QueryTyped ==
  ASSUME GraphTypeOK
  PROVE  /\ query.maxDepth \in Nat /\ query.maxNodes \in Nat /\ query.maxEdges \in Nat
         /\ query.what \in {"walk", "path"}
         /\ query.links \subseteq Nodes \X Nodes /\ IsFiniteSet(query.links)
         /\ query.managed \subseteq Managed /\ query.gone \subseteq Nodes \ {Seed, Goal}
         /\ IsFiniteSet(Admitted) /\ Cardinality(Admitted) \in Nat /\ Admitted \subseteq Nodes
         /\ IsFiniteSet(edges) /\ Cardinality(edges) \in Nat
<1>1. query \in Queries
  BY DEF GraphTypeOK
<1>2. /\ query.maxDepth \in Depths /\ query.maxNodes \in NodeCaps /\ query.maxEdges \in EdgeCaps
      /\ query.what \in {"walk", "path"} /\ query.links \subseteq Links
      /\ query.managed \subseteq Managed /\ query.gone \subseteq Gone
  BY <1>1 DEF Queries
<1>3. IsFiniteSet(query.links)
  BY <1>2, FS_Subset, GraphAssumption
<1>4. IsFiniteSet(edges) /\ Cardinality(edges) \in Nat
  BY <1>3, FS_Subset, FS_CardinalityType DEF GraphTypeOK
<1>5. Admitted \subseteq Nodes
  BY DEF Admitted
<1>6. IsFiniteSet(Admitted) /\ Cardinality(Admitted) \in Nat
  BY <1>5, FS_Subset, FS_CardinalityType, GraphAssumption
<1> QED
  BY <1>2, <1>3, <1>4, <1>5, <1>6, GraphAssumption

\* A layer of a walk: whom it admits and what it adds.
LEMMA WalkLayerIs ==
  ASSUME GraphTypeOK, WalkLayer
  PROVE  \E nodes, ls :
           /\ nodes \subseteq Found(visited) \ query.excluded
           /\ query.maxNodes = 0 \/ Cardinality(Admitted') < query.maxNodes
                => nodes = Found(visited) \ query.excluded
           /\ query.maxNodes # 0 => Cardinality(Admitted') <= query.maxNodes
           /\ query.maxNodes = 0 \/ Cardinality(Admitted) < query.maxNodes \/ nodes = {}
           /\ Admitted' = Admitted \union nodes
           /\ Cardinality(Admitted) <= Cardinality(Admitted')
           /\ ls \subseteq Candidates \ edges
           /\ query.maxEdges = 0 =>
                 \A l \in Candidates \ edges :
                    (\A n \in {l[1], l[2]} : n \in query.excluded => visited[n] # Unseen)
                      => l \in ls
           /\ query.maxEdges # 0 => Cardinality(edges \union ls) <= query.maxEdges
           /\ edges' = edges \union ls
           /\ visited' = [n \in Nodes |-> IF n \in nodes THEN depth + 1 ELSE visited[n]]
           /\ frontier' = Expandable(nodes)
<1> DEFINE new == Found(visited) \ query.excluded
           live == {l \in Candidates :
                      \A n \in {l[1], l[2]} : n \in query.excluded => visited[n] # Unseen}
<1>1. PICK nodes \in Capped(new, Cardinality(Admitted), query.maxNodes),
           ls \in Capped(live \ edges, Cardinality(edges), query.maxEdges) :
             /\ edges' = edges \union ls
             /\ visited' = [n \in Nodes |-> IF n \in nodes THEN depth + 1 ELSE visited[n]]
             /\ frontier' = Expandable(nodes)
  BY DEF WalkLayer
<1>2. new \subseteq Nodes /\ new \cap Admitted = {} /\ live \subseteq query.links
  BY DEF Found, Admitted, Candidates
<1>3. IsFiniteSet(new) /\ IsFiniteSet(live \ edges)
  <2>1. IsFiniteSet(new)
    BY <1>2, FS_Subset, GraphAssumption
  <2>2. (live \ edges) \subseteq query.links
    BY <1>2
  <2> QED
    BY <2>1, <2>2, FS_Subset, QueryTyped
<1>4. live \ edges \subseteq Candidates \ edges
  OBVIOUS
<1>5. \A l \in Candidates \ edges :
         (\A n \in {l[1], l[2]} : n \in query.excluded => visited[n] # Unseen)
           => l \in live \ edges
  OBVIOUS
<1>6. /\ query.maxNodes = 0 \/ Cardinality(Admitted) <= query.maxNodes
      /\ query.maxEdges = 0 \/ Cardinality(edges) <= query.maxEdges
  BY DEF GraphTypeOK
<1>n. new = Found(visited) \ query.excluded
  OBVIOUS
<1> HIDE DEF new, live
<1>7. /\ nodes \subseteq new /\ IsFiniteSet(nodes) /\ Cardinality(nodes) \in Nat
      /\ query.maxNodes # 0 => Cardinality(Admitted) + Cardinality(nodes) <= query.maxNodes
      /\ query.maxNodes = 0 \/ Cardinality(Admitted) + Cardinality(nodes) < query.maxNodes
           => nodes = new
  BY <1>1, <1>3, <1>6, CappedIs, QueryTyped
<1>8. /\ ls \subseteq live \ edges /\ IsFiniteSet(ls) /\ Cardinality(ls) \in Nat
      /\ query.maxEdges # 0 => Cardinality(edges) + Cardinality(ls) <= query.maxEdges
      /\ query.maxEdges = 0 => ls = live \ edges
  BY <1>1, <1>3, <1>6, CappedIs, QueryTyped
<1>9. Admitted' = Admitted \union nodes
  <2>1. depth + 1 # Unseen
    <3>1. depth \in Nat
      BY Zenon DEF GraphTypeOK
    <3>2. Unseen \notin Nat
      BY GraphAssumption
    <3>3. depth + 1 \in Nat
      BY <3>1
    <3> QED
      BY <3>2, <3>3, Zenon
  <2>2. Admitted' = {n \in Nodes : visited'[n] # Unseen}
    BY DEF Admitted
  <2>3. \A n \in Nodes : visited'[n] # Unseen <=> n \in nodes \/ visited[n] # Unseen
    BY <1>1, <2>1
  <2> QED
    BY <1>2, <1>7, <2>2, <2>3 DEF Admitted
<1>10. Cardinality(Admitted') = Cardinality(Admitted) + Cardinality(nodes)
  <2>1. Admitted \cap nodes = {}
    BY <1>2, <1>7
  <2>2. Cardinality(Admitted \union nodes) =
          Cardinality(Admitted) + Cardinality(nodes) - Cardinality(Admitted \cap nodes)
    BY <1>7, FS_Union, QueryTyped
  <2>3. Cardinality(Admitted \cap nodes) = 0
    BY <2>1, FS_EmptySet
  <2>4. Cardinality(Admitted \union nodes) = Cardinality(Admitted) + Cardinality(nodes)
    BY <1>7, <2>2, <2>3, QueryTyped
  <2> QED
    BY <1>9, <2>4
<1>11. Cardinality(edges \union ls) = Cardinality(edges) + Cardinality(ls)
  <2>1. edges \cap ls = {}
    BY <1>8
  <2>2. Cardinality(edges \union ls) =
          Cardinality(edges) + Cardinality(ls) - Cardinality(edges \cap ls)
    BY <1>8, FS_Union, QueryTyped
  <2>3. Cardinality(edges \cap ls) = 0
    BY <2>1, FS_EmptySet
  <2> QED
    BY <1>8, <2>2, <2>3, QueryTyped
<1>12. query.maxNodes = 0 \/ Cardinality(Admitted) < query.maxNodes \/ nodes = {}
  <2> SUFFICES ASSUME query.maxNodes # 0, ~(Cardinality(Admitted) < query.maxNodes)
               PROVE  nodes = {}
    OBVIOUS
  <2>1. Cardinality(nodes) = 0
    BY <1>7, QueryTyped
  <2> QED
    BY <1>7, <2>1, FS_EmptySet
<1>13. Cardinality(Admitted) <= Cardinality(Admitted')
  BY <1>7, <1>10, QueryTyped
<1>14. /\ nodes \subseteq Found(visited) \ query.excluded
       /\ query.maxNodes = 0 \/ Cardinality(Admitted') < query.maxNodes
            => nodes = Found(visited) \ query.excluded
       /\ query.maxNodes # 0 => Cardinality(Admitted') <= query.maxNodes
  BY <1>7, <1>10, <1>n
<1>15. /\ ls \subseteq Candidates \ edges
       /\ query.maxEdges = 0 =>
            \A l \in Candidates \ edges :
               (\A n \in {l[1], l[2]} : n \in query.excluded => visited[n] # Unseen) => l \in ls
       /\ query.maxEdges # 0 => Cardinality(edges \union ls) <= query.maxEdges
  BY <1>4, <1>5, <1>8, <1>11
<1> HIDE DEF Admitted, Candidates, Found, Expandable
<1> QED
  BY <1>1, <1>9, <1>12, <1>13, <1>14, <1>15

\* Nodes no search passes: excluded ones, and ones whose resource is missing.
Blocked == query.excluded \union query.gone

\* A walk so far: nodes are admitted at their distance; while the cap on nodes is
\* not reached nobody within depth is left out, and the next layer starts from
\* everybody at that distance who is walked through.
WalkSoFar ==
    /\ answer \in {"searching", "done"}
    /\ Seed \in Admitted
    /\ \A m \in frontier : /\ m \in Admitted /\ visited[m] = depth
                           /\ m = Seed \/ m \notin query.managed
    /\ \A n \in Admitted : visited[n] \in 0 .. depth /\ AtSteps(query, n, visited[n], Blocked)
    /\ query.maxNodes = 0 \/ Cardinality(Admitted) < query.maxNodes =>
         /\ BallOf(query, depth, Blocked) \subseteq Admitted
         /\ \A n \in Admitted :
              visited[n] = depth /\ (n = Seed \/ n \notin query.managed) => n \in frontier
    /\ query.maxEdges = 0 =>
         \A n \in Admitted \ {Seed} : \E m \in Admitted, l \in edges :
             Leads(l, m, n) /\ visited[m] + 1 = visited[n]
    /\ answer = "done" => /\ depth >= query.maxDepth \/ frontier = {}
                          /\ \A l \in edges : l[1] \in Admitted /\ l[2] \in Admitted

\* A walk starts at its seed.
LEMMA WalkStarts == GraphInit => WalkSoFar
<1> SUFFICES ASSUME GraphInit PROVE WalkSoFar
  OBVIOUS
<1> USE DEF GraphInit
<1>1. Admitted = {Seed} /\ visited[Seed] = 0
  BY GraphAssumption DEF Admitted
<1>2. BallOf(query, 0, Blocked) = {Seed}
  BY BallStep
<1>3. AtSteps(query, Seed, 0, Blocked)
  BY <1>2 DEF AtSteps
<1> QED
  BY <1>1, <1>2, <1>3 DEF WalkSoFar

\* The condition under which a walk has left nobody out.
Roomy == query.maxNodes = 0 \/ Cardinality(Admitted) < query.maxNodes

\* A layer of a walk.
LEMMA WalkLayerKeeps ==
  ASSUME GraphTypeOK, WalkSoFar, WalkLayer
  PROVE  WalkSoFar' /\ GraphTypeOK'
<1>1. PICK nodes, ls :
           /\ nodes \subseteq Found(visited) \ query.excluded
           /\ query.maxNodes = 0 \/ Cardinality(Admitted') < query.maxNodes
                => nodes = Found(visited) \ query.excluded
           /\ query.maxNodes # 0 => Cardinality(Admitted') <= query.maxNodes
           /\ query.maxNodes = 0 \/ Cardinality(Admitted) < query.maxNodes \/ nodes = {}
           /\ Admitted' = Admitted \union nodes
           /\ Cardinality(Admitted) <= Cardinality(Admitted')
           /\ ls \subseteq Candidates \ edges
           /\ query.maxEdges = 0 =>
                 \A l \in Candidates \ edges :
                    (\A n \in {l[1], l[2]} : n \in query.excluded => visited[n] # Unseen)
                      => l \in ls
           /\ query.maxEdges # 0 => Cardinality(edges \union ls) <= query.maxEdges
           /\ edges' = edges \union ls
           /\ visited' = [n \in Nodes |-> IF n \in nodes THEN depth + 1 ELSE visited[n]]
           /\ frontier' = Expandable(nodes)
  <2> HIDE DEF WalkLayer, Found, Candidates, Admitted, Expandable
  <2> QED
    BY WalkLayerIs, Zenon
<1>2. /\ query' = query /\ parent' = parent /\ answer' = answer /\ depth' = depth + 1
      /\ depth < query.maxDepth /\ answer = "searching"
  BY DEF WalkLayer, Searching, More
<1>3. Blocked' = Blocked
  BY <1>2 DEF Blocked
<1>4. /\ depth \in Nat /\ query.maxDepth \in Nat /\ query.maxNodes \in Nat
      /\ Cardinality(Admitted) \in Nat /\ Unseen \notin Nat
      /\ visited \in [Nodes -> Nat \union {Unseen}] /\ frontier \subseteq Nodes
      /\ Admitted \subseteq Nodes
  BY QueryTyped, GraphAssumption DEF GraphTypeOK
<1>5. /\ nodes \subseteq Nodes
      /\ \A n \in nodes : /\ n \notin Admitted /\ n \in Nodes \ Blocked
                          /\ \E m \in frontier : Reached(m, n)
  BY <1>1 DEF Found, Admitted, Blocked
<1>6. \A n \in Nodes : /\ n \in nodes => visited'[n] = depth + 1
                       /\ n \notin nodes => visited'[n] = visited[n]
  BY <1>1
<1>7. Cardinality(Admitted') \in Nat
  <2>1. Admitted' \subseteq Nodes
    BY <1>1, <1>4, <1>5
  <2> QED
    BY <2>1, FS_Subset, FS_CardinalityType, GraphAssumption
<1>8. \A m, n : Reached(m, n) <=> Adjacent(query, m, n)
  BY DEF Reached, Leads, Adjacent
<1>9. /\ Seed \in Admitted
      /\ \A m \in frontier : /\ m \in Admitted /\ visited[m] = depth
                             /\ m = Seed \/ m \notin query.managed
      /\ \A n \in Admitted : visited[n] \in 0 .. depth /\ AtSteps(query, n, visited[n], Blocked)
      /\ Roomy => /\ BallOf(query, depth, Blocked) \subseteq Admitted
                  /\ \A n \in Admitted :
                       visited[n] = depth /\ (n = Seed \/ n \notin query.managed)
                         => n \in frontier
      /\ query.maxEdges = 0 =>
           \A n \in Admitted \ {Seed} : \E m \in Admitted, l \in edges :
               Leads(l, m, n) /\ visited[m] + 1 = visited[n]
  BY DEF WalkSoFar, Roomy
<1>10. ASSUME NEW n \in nodes PROVE AtSteps(query, n, depth + 1, Blocked)
  <2>1. Roomy
    BY <1>1 DEF Roomy
  <2>2. n \notin BallOf(query, depth, Blocked) /\ n \in Nodes \ Blocked
    BY <1>5, <1>9, <2>1
  <2>3. PICK m \in frontier : Adjacent(query, m, n)
    BY <1>5, <1>8
  <2>4. m \in Nodes /\ AtSteps(query, m, depth, Blocked) /\ (m = Seed \/ m \notin query.managed)
    BY <1>4, <1>9
  <2> QED
    BY <1>4, <2>2, <2>3, <2>4, NextRing DEF RingRule
<1>11. \A n \in Admitted' : visited'[n] \in 0 .. (depth + 1)
                             /\ AtSteps(query, n, visited'[n], Blocked)
  <2> SUFFICES ASSUME NEW n \in Admitted'
               PROVE  visited'[n] \in 0 .. (depth + 1) /\ AtSteps(query, n, visited'[n], Blocked)
    OBVIOUS
  <2>1. CASE n \in nodes
    <3>1. visited'[n] = depth + 1
      BY <1>5, <1>6, <2>1
    <3> QED
      BY <1>4, <1>10, <2>1, <3>1
  <2>2. CASE n \notin nodes
    <3>1. n \in Admitted /\ visited'[n] = visited[n]
      BY <1>1, <1>4, <1>6, <2>2
    <3> QED
      BY <1>4, <1>9, <3>1
  <2> QED
    BY <2>1, <2>2
<1>12. \A m \in frontier' : /\ m \in Admitted' /\ visited'[m] = depth + 1
                            /\ m = Seed \/ m \notin query.managed
  BY <1>1, <1>5, <1>6 DEF Expandable
<1>13. ASSUME Roomy'
       PROVE  /\ BallOf(query, depth + 1, Blocked) \subseteq Admitted'
              /\ \A n \in Admitted' :
                   visited'[n] = depth + 1 /\ (n = Seed \/ n \notin query.managed)
                     => n \in frontier'
  <2>1. query.maxNodes = 0 \/ Cardinality(Admitted') < query.maxNodes
    BY <1>2, <1>13 DEF Roomy
  <2>2. Roomy /\ nodes = Found(visited) \ query.excluded
    BY <1>1, <1>4, <1>7, <2>1 DEF Roomy
  <2>3. ASSUME NEW n \in BallOf(query, depth + 1, Blocked) PROVE n \in Admitted'
    <3> SUFFICES ASSUME n \notin BallOf(query, depth, Blocked) PROVE n \in Admitted'
      BY <1>1, <1>9, <2>2
    <3>1. AtSteps(query, n, depth + 1, Blocked)
      BY <1>4, <2>3 DEF AtSteps
    <3>2. /\ n \in Nodes \ Blocked
          /\ \E m \in Nodes : /\ AtSteps(query, m, depth, Blocked)
                              /\ (m = Seed \/ m \notin query.managed)
                              /\ Adjacent(query, m, n)
      BY <1>4, <3>1, NextRing DEF RingRule
    <3>3. PICK m \in Nodes : /\ AtSteps(query, m, depth, Blocked)
                             /\ (m = Seed \/ m \notin query.managed) /\ Adjacent(query, m, n)
      BY <3>2
    <3>4. m \in Admitted
      BY <1>9, <2>2, <3>3 DEF AtSteps
    <3>5. visited[m] = depth
      <4>1. visited[m] \in Nat /\ AtSteps(query, m, visited[m], Blocked)
        BY <1>4, <1>9, <3>4
      <4> QED
        BY <1>4, <3>3, <4>1, AtOnce
    <3>6. m \in frontier
      BY <1>9, <2>2, <3>3, <3>4, <3>5
    <3>7. n \in Admitted \/ n \in Found(visited) \ query.excluded
      BY <1>8, <3>2, <3>3, <3>6 DEF Found, Admitted, Blocked
    <3> QED
      BY <1>1, <2>2, <3>7
  <2>4. ASSUME NEW n \in Admitted', visited'[n] = depth + 1, n = Seed \/ n \notin query.managed
        PROVE  n \in frontier'
    <3>1. n \in nodes
      <4> SUFFICES ASSUME n \notin nodes PROVE FALSE
        OBVIOUS
      <4>1. n \in Admitted /\ visited[n] = depth + 1
        BY <1>1, <1>4, <1>6, <2>4
      <4>2. visited[n] \in 0 .. depth
        BY <1>9, <4>1
      <4> QED
        BY <1>4, <4>1, <4>2
    <3>2. n # Seed
      BY <1>5, <1>9, <3>1
    <3> QED
      BY <1>1, <2>4, <3>1, <3>2 DEF Expandable
  <2> QED
    BY <2>3, <2>4
<1>14. ASSUME query.maxEdges = 0, NEW n \in Admitted' \ {Seed}
       PROVE  \E m \in Admitted', l \in edges' : Leads(l, m, n) /\ visited'[m] + 1 = visited'[n]
  <2>1. CASE n \in nodes
    <3>1. PICK m \in frontier : Reached(m, n)
      BY <1>5, <2>1
    <3>2. PICK l \in query.links : Leads(l, m, n)
      BY <3>1 DEF Reached
    <3>3. m \in Nodes /\ m \in Admitted /\ visited[m] = depth /\ n \in Nodes
      BY <1>4, <1>5, <1>9, <2>1
    <3>4. l \in Candidates
      BY <3>1, <3>2, <3>3 DEF Candidates
    <3>5. {l[1], l[2]} = {m, n}
      BY <3>2 DEF Leads
    <3>6. n \notin query.excluded /\ visited[m] # Unseen
      BY <1>5, <2>1, <3>3 DEF Blocked, Admitted
    <3>7. l \in edges'
      <4>1. \A x \in {l[1], l[2]} : x \in query.excluded => visited[x] # Unseen
        BY <3>5, <3>6
      <4>2. l \in edges \/ l \in ls
        BY <1>1, <1>14, <3>4, <4>1
      <4> QED
        BY <1>1, <4>2
    <3>8. m \notin nodes
      BY <1>5, <3>3
    <3>9. visited'[m] + 1 = visited'[n] /\ m \in Admitted'
      BY <1>1, <1>6, <2>1, <3>3, <3>8
    <3> QED
      BY <3>2, <3>7, <3>9
  <2>2. CASE n \notin nodes
    <3>1. n \in Admitted \ {Seed}
      BY <1>1, <1>14, <2>2
    <3>2. PICK m \in Admitted, l \in edges : Leads(l, m, n) /\ visited[m] + 1 = visited[n]
      BY <1>9, <1>14, <3>1
    <3>3. m \notin nodes /\ m \in Nodes /\ n \in Nodes
      BY <1>4, <1>5, <3>1, <3>2
    <3>4. visited'[m] + 1 = visited'[n]
      BY <1>6, <2>2, <3>2, <3>3
    <3> QED
      BY <1>1, <3>2, <3>4
  <2> QED
    BY <2>1, <2>2
<1>15. \A l, m, n : Leads(l, m, n)' <=> Leads(l, m, n)
  BY <1>2 DEF Leads
<1>16. WalkSoFar'
  <2>1. answer' \in {"searching", "done"} /\ answer' # "done"
    BY <1>2
  <2>2. Seed \in Admitted'
    BY <1>1, <1>9
  <2>3. (query.maxNodes = 0 \/ Cardinality(Admitted) < query.maxNodes)' =>
         /\ BallOf(query, depth + 1, Blocked) \subseteq Admitted'
         /\ \A n \in Admitted' :
              visited'[n] = depth + 1 /\ (n = Seed \/ n \notin query.managed) => n \in frontier'
    BY <1>13 DEF Roomy
  <2> HIDE DEF Admitted, Blocked, Leads
  <2> QED
    BY <1>2, <1>3, <1>11, <1>12, <1>14, <1>15, <2>1, <2>2, <2>3 DEF WalkSoFar
<1>17. GraphTypeOK'
  <2>1. Candidates \subseteq query.links
    BY DEF Candidates
  <2>2. edges' \subseteq query.links
    BY <1>1, <2>1 DEF GraphTypeOK
  <2>3. query.maxEdges # 0 => Cardinality(edges') <= query.maxEdges
    BY <1>1
  <2>4. depth + 1 \in Nat /\ depth + 1 <= query.maxDepth
    BY <1>2, <1>4
  <2>5. visited' \in [Nodes -> Nat \union {Unseen}]
    BY <1>1, <1>4, <2>4
  <2>6. frontier' \subseteq Nodes
    BY <1>1, <1>5 DEF Expandable
  <2>7. query.maxNodes # 0 => Cardinality(Admitted') <= query.maxNodes
    BY <1>1
  <2> HIDE DEF Admitted
  <2> QED
    BY <1>2, <2>2, <2>3, <2>4, <2>5, <2>6, <2>7 DEF GraphTypeOK
<1> QED
  BY <1>16, <1>17

\* The end of a walk drops edges only.
LEMMA WalkEndsKeeps ==
  ASSUME GraphTypeOK, WalkSoFar, WalkEnds
  PROVE  WalkSoFar' /\ GraphTypeOK'
<1>1. /\ edges' = Pruned(edges) /\ answer' = "done"
      /\ query' = query /\ depth' = depth /\ frontier' = frontier
      /\ visited' = visited /\ parent' = parent
      /\ ~(depth < query.maxDepth) \/ frontier = {}
  BY DEF WalkEnds, More
<1>2. Admitted' = Admitted /\ Blocked' = Blocked
  BY <1>1 DEF Admitted, Blocked
<1>3. \A l, m, n : Leads(l, m, n)' <=> Leads(l, m, n)
  BY <1>1 DEF Leads
<1>4. \A l \in edges' : l \in edges /\ l[1] \in Admitted /\ l[2] \in Admitted
  BY <1>1 DEF Pruned
<1>5. ASSUME query.maxEdges = 0, NEW n \in Admitted \ {Seed}
      PROVE  \E m \in Admitted, l \in edges' : Leads(l, m, n) /\ visited[m] + 1 = visited[n]
  <2>1. PICK m \in Admitted, l \in edges : Leads(l, m, n) /\ visited[m] + 1 = visited[n]
    BY <1>5 DEF WalkSoFar
  <2>2. l[1] \in {m, n} /\ l[2] \in {m, n}
    BY <2>1 DEF Leads
  <2>3. l \in edges'
    BY <1>1, <1>5, <2>2 DEF Pruned
  <2> QED
    BY <2>1, <2>3
<1>6. WalkSoFar'
  <2>1. depth >= query.maxDepth \/ frontier = {}
    <3>1. depth \in Nat
      BY Zenon DEF GraphTypeOK
    <3> QED
      BY <1>1, <3>1, QueryTyped
  <2>2. /\ Seed \in Admitted
        /\ \A m \in frontier : /\ m \in Admitted /\ visited[m] = depth
                               /\ m = Seed \/ m \notin query.managed
        /\ \A n \in Admitted : visited[n] \in 0 .. depth /\ AtSteps(query, n, visited[n], Blocked)
        /\ query.maxNodes = 0 \/ Cardinality(Admitted) < query.maxNodes =>
             /\ BallOf(query, depth, Blocked) \subseteq Admitted
             /\ \A n \in Admitted :
                  visited[n] = depth /\ (n = Seed \/ n \notin query.managed) => n \in frontier
    BY Zenon DEF WalkSoFar
  <2> HIDE DEF Admitted, Blocked, Leads
  <2> QED
    BY <1>1, <1>2, <1>3, <1>4, <1>5, <2>1, <2>2 DEF WalkSoFar
<1>7. GraphTypeOK'
  <2>1. edges' \subseteq edges
    BY <1>4
  <2>2. query.maxEdges # 0 => Cardinality(edges') <= query.maxEdges
    <3>1. Cardinality(edges') <= Cardinality(edges) /\ Cardinality(edges') \in Nat
      BY <2>1, FS_Subset, FS_CardinalityType, QueryTyped
    <3>2. query.maxEdges # 0 => Cardinality(edges) <= query.maxEdges
      BY Zenon DEF GraphTypeOK
    <3> QED
      BY <3>1, <3>2, QueryTyped
  <2> HIDE DEF Admitted
  <2> QED
    BY <1>1, <1>2, <2>1, <2>2 DEF GraphTypeOK
<1> QED
  BY <1>6, <1>7

\* A search that has stopped has met everybody it could.
LEMMA NothingBeyond ==
  ASSUME NEW q, NEW blocked, NEW k \in Nat, NEW j \in Nat,
         \A n \in Nodes : AtSteps(q, n, k, blocked) => ~(n = Seed \/ n \notin q.managed)
  PROVE  BallOf(q, j, blocked) \subseteq BallOf(q, k, blocked)
<1>1. CASE j <= k
  BY <1>1, BallWider
<1>2. CASE k <= j
  <2>1. BallOf(q, k + 1, blocked) \subseteq BallOf(q, k, blocked)
    <3> SUFFICES ASSUME NEW n \in BallOf(q, k + 1, blocked), n \notin BallOf(q, k, blocked)
                 PROVE  FALSE
      OBVIOUS
    <3>1. AtSteps(q, n, k + 1, blocked)
      BY DEF AtSteps
    <3>2. \E m \in Nodes : AtSteps(q, m, k, blocked) /\ (m = Seed \/ m \notin q.managed)
      BY <3>1, NextRing DEF RingRule
    <3> QED
      BY <3>2
  <2> QED
    BY <1>2, <2>1, BallStops
<1> QED
  BY <1>1, <1>2

\* What WalkSoFar says of the end of a walk.
LEMMA WalkShows ==
  ASSUME GraphTypeOK, WalkSoFar, query.what = "walk"
  PROVE  WalkIsExact /\ WalkIsConnected
<1>1. /\ depth \in Nat /\ query.maxDepth \in Nat /\ query.maxNodes \in Nat
      /\ Cardinality(Admitted) \in Nat /\ depth <= query.maxDepth
      /\ query.maxNodes # 0 => Cardinality(Admitted) <= query.maxNodes
  BY QueryTyped DEF GraphTypeOK
<1>2. ASSUME answer = "done", NEW n \in Admitted
      PROVE  n \in Ball(query.maxDepth, Blocked) /\ visited[n] = Distance(n, Blocked)
  <2>1. visited[n] \in 0 .. depth /\ AtSteps(query, n, visited[n], Blocked)
    BY DEF WalkSoFar
  <2>2. visited[n] \in Nat /\ visited[n] <= query.maxDepth
    BY <1>1, <2>1
  <2>3. n \in BallOf(query, query.maxDepth, Blocked)
    BY <1>1, <2>1, <2>2, BallWider DEF AtSteps
  <2> QED
    BY <2>1, <2>2, <2>3, BallIsBallOf, DistanceIs
<1>3. ASSUME answer = "done", query.maxNodes \notin 1 .. Cardinality(Admitted)
      PROVE  Ball(query.maxDepth, Blocked) \subseteq Admitted
  <2>1. query.maxNodes = 0 \/ Cardinality(Admitted) < query.maxNodes
    BY <1>1, <1>3
  <2>2. /\ BallOf(query, depth, Blocked) \subseteq Admitted
        /\ \A n \in Admitted :
             visited[n] = depth /\ (n = Seed \/ n \notin query.managed) => n \in frontier
    BY <2>1 DEF WalkSoFar
  <2>3. BallOf(query, query.maxDepth, Blocked) \subseteq BallOf(query, depth, Blocked)
    <3>1. CASE depth >= query.maxDepth
      <4>1. depth = query.maxDepth
        BY <1>1, <3>1
      <4> QED
        BY <4>1
    <3>2. CASE frontier = {}
      <4>1. ASSUME NEW n \in Nodes, AtSteps(query, n, depth, Blocked)
            PROVE  ~(n = Seed \/ n \notin query.managed)
        <5>1. n \in Admitted
          BY <2>2, <4>1 DEF AtSteps
        <5>2. visited[n] \in Nat /\ AtSteps(query, n, visited[n], Blocked)
          BY <1>1, <5>1 DEF WalkSoFar
        <5>3. visited[n] = depth
          BY <1>1, <4>1, <5>2, AtOnce
        <5> QED
          BY <2>2, <3>2, <5>1, <5>3
      <4> QED
        BY <1>1, <4>1, NothingBeyond
    <3>3. depth >= query.maxDepth \/ frontier = {}
      BY <1>3 DEF WalkSoFar
    <3> QED
      BY <3>1, <3>2, <3>3
  <2> QED
    BY <2>2, <2>3, BallIsBallOf
<1>4. WalkIsExact
  <2>1. Blocked = query.excluded \union query.gone
    BY DEF Blocked
  <2> HIDE DEF Admitted
  <2> QED
    BY <1>2, <1>3, <2>1, Zenon DEF WalkIsExact
<1>5. WalkIsConnected
  BY Zenon DEF WalkIsConnected, WalkSoFar
<1> QED
  BY <1>4, <1>5

-----------------------------------------------------------------------------
(* The searches of GraphPath. *)

\* Nodes no path passes.  The goal counts even if it is excluded.
Barred == (query.excluded \union query.gone) \ {Goal}

\* A path search so far: predecessors lead back one step at a time; until the goal is
\* met, the nodes with a predecessor are those within depth, and the next layer
\* starts from everybody at that distance who is walked through.
PathSoFar ==
    /\ answer \in {"searching", "found", "no path"}
    /\ \A k \in Nat, n \in Nodes :
         k < depth /\ AtSteps(query, n, k + 1, Barred) =>
             /\ parent[n] \in Nodes /\ AtSteps(query, parent[n], k, Barred)
             /\ Adjacent(query, parent[n], n)
    /\ answer # "found" =>
         /\ \A n \in Nodes : parent[n] # Unseen <=> n \in BallOf(query, depth, Barred)
         /\ Goal \notin BallOf(query, depth, Barred)
         /\ \A n \in Nodes : n \in frontier <=>
              AtSteps(query, n, depth, Barred) /\ (n = Seed \/ n \notin query.managed)
    /\ answer = "found" => AtSteps(query, Goal, depth, Barred)
    /\ answer = "no path" => depth >= query.maxDepth \/ frontier = {}

\* A path search starts at its seed.
LEMMA PathStarts == GraphInit => PathSoFar
<1> SUFFICES ASSUME GraphInit PROVE PathSoFar
  OBVIOUS
<1> USE DEF GraphInit
<1>1. BallOf(query, 0, Barred) = {Seed}
  BY BallStep
<1>2. \A n : AtSteps(query, n, 0, Barred) <=> n = Seed
  BY <1>1 DEF AtSteps
<1>3. \A n \in Nodes : parent[n] # Unseen <=> n = Seed
  BY GraphAssumption
<1>4. Goal # Seed
  BY GraphAssumption
<1>5. \A k \in Nat : ~(k < depth)
  OBVIOUS
<1> HIDE DEF Barred
<1> QED
  BY <1>1, <1>2, <1>3, <1>4, <1>5 DEF PathSoFar

\* A layer of a path search.
LEMMA PathLayerKeeps ==
  ASSUME GraphTypeOK, PathSoFar, PathLayer
  PROVE  PathSoFar' /\ GraphTypeOK'
<1> DEFINE found == Found(parent)
           kept == IF Goal \in found THEN found ELSE found \ query.excluded
<1>1. /\ answer' = IF Goal \in found THEN "found" ELSE answer
      /\ frontier' = Passable(found)
      /\ depth' = depth + 1 /\ query' = query /\ visited' = visited /\ edges' = edges
      /\ answer = "searching" /\ depth < query.maxDepth
      /\ \E p \in [kept -> frontier] :
           /\ \A n \in kept : Reached(p[n], n)
           /\ parent' = [n \in Nodes |-> IF n \in kept THEN p[n] ELSE parent[n]]
  BY DEF PathLayer, Searching, More
<1>2. PICK p \in [kept -> frontier] :
         /\ \A n \in kept : Reached(p[n], n)
         /\ parent' = [n \in Nodes |-> IF n \in kept THEN p[n] ELSE parent[n]]
  BY <1>1
<1>3. \A m, n : Reached(m, n) <=> Adjacent(query, m, n)
  BY DEF Reached, Leads, Adjacent
<1>4. \A n : n \in found <=> /\ n \in Nodes \ query.gone /\ parent[n] = Unseen
                             /\ \E m \in frontier : Adjacent(query, m, n)
  BY <1>3 DEF Found
<1>5. /\ Goal \notin found => kept = found \ query.excluded
      /\ Goal \in found => kept = found
  OBVIOUS
<1>6. Barred' = Barred
  BY <1>1 DEF Barred
<1>7. depth \in Nat /\ query.maxDepth \in Nat /\ frontier \subseteq Nodes /\ Goal \in Nodes
      /\ Goal \notin query.gone
  <2>1. depth \in Nat /\ frontier \subseteq Nodes
    BY Zenon DEF GraphTypeOK
  <2> QED
    BY <2>1, QueryTyped, GraphAssumption
<1>8. /\ \A n \in Nodes : parent[n] # Unseen <=> n \in BallOf(query, depth, Barred)
      /\ Goal \notin BallOf(query, depth, Barred)
      /\ \A n \in Nodes : n \in frontier <=>
           AtSteps(query, n, depth, Barred) /\ (n = Seed \/ n \notin query.managed)
      /\ \A k \in Nat, n \in Nodes :
           k < depth /\ AtSteps(query, n, k + 1, Barred) =>
               /\ parent[n] \in Nodes /\ AtSteps(query, parent[n], k, Barred)
               /\ Adjacent(query, parent[n], n)
  BY <1>1 DEF PathSoFar
<1>n. kept \subseteq found
  OBVIOUS
<1> HIDE DEF found, kept
<1>9. \A n \in Nodes : AtSteps(query, n, depth + 1, Barred) <=> n \in found /\ n \notin Barred
  <2> SUFFICES ASSUME NEW n \in Nodes
               PROVE  AtSteps(query, n, depth + 1, Barred) <=> n \in found /\ n \notin Barred
    OBVIOUS
  <2>1. AtSteps(query, n, depth + 1, Barred) <=>
            /\ n \notin BallOf(query, depth, Barred) /\ n \in Nodes \ Barred
            /\ \E m \in Nodes : /\ AtSteps(query, m, depth, Barred)
                                /\ (m = Seed \/ m \notin query.managed)
                                /\ Adjacent(query, m, n)
    <3>1. depth \in Nat
      BY <1>7
    <3>2. RingRule(query, Barred, depth, n)
      BY <3>1, NextRing
    <3> QED
      BY <3>2 DEF RingRule
  <2>2. n \notin Barred => n \notin query.gone
    BY <1>7 DEF Barred
  <2>3. (\E m \in Nodes : /\ AtSteps(query, m, depth, Barred)
                          /\ (m = Seed \/ m \notin query.managed)
                          /\ Adjacent(query, m, n))
          <=> \E m \in frontier : Adjacent(query, m, n)
    BY <1>7, <1>8
  <2> QED
    BY <1>4, <1>8, <2>1, <2>2, <2>3
<1>10. Goal \notin Barred
  BY DEF Barred
<1>11. \A n \in Nodes : AtSteps(query, n, depth + 1, Barred) => n \in kept
  <2> SUFFICES ASSUME NEW n \in Nodes, AtSteps(query, n, depth + 1, Barred) PROVE n \in kept
    OBVIOUS
  <2>1. n \in found /\ n \notin Barred
    BY <1>9
  <2>2. n # Goal => n \notin query.excluded
    BY <2>1 DEF Barred
  <2> QED
    BY <1>5, <2>1, <2>2
<1>12. \A n \in Nodes : /\ n \in kept => parent'[n] = p[n] /\ p[n] \in frontier
                                           /\ Adjacent(query, p[n], n)
                        /\ n \notin kept => parent'[n] = parent[n]
  <2>1. \A n \in kept : p[n] \in frontier
    BY <1>2
  <2>2. \A n \in Nodes : /\ n \in kept => parent'[n] = p[n]
                         /\ n \notin kept => parent'[n] = parent[n]
    BY <1>2
  <2> QED
    BY <1>2, <1>3, <2>1, <2>2
<1>13. ASSUME NEW k \in Nat, NEW n \in Nodes, k < depth + 1, AtSteps(query, n, k + 1, Barred)
       PROVE  /\ parent'[n] \in Nodes /\ AtSteps(query, parent'[n], k, Barred)
              /\ Adjacent(query, parent'[n], n)
  <2>1. CASE k = depth
    <3>1. n \in kept
      BY <1>11, <1>13, <2>1
    <3>2. parent'[n] \in frontier /\ Adjacent(query, parent'[n], n)
      BY <1>12, <3>1
    <3> QED
      BY <1>7, <1>8, <2>1, <3>2
  <2>2. CASE k # depth
    <3>1. k < depth
      BY <1>7, <1>13, <2>2
    <3>2. n \notin kept
      <4>1. k + 1 \in Nat /\ k + 1 <= depth
        BY <1>7, <3>1
      <4>2. n \in BallOf(query, depth, Barred)
        BY <1>7, <1>13, <4>1, BallWider DEF AtSteps
      <4> QED
        BY <1>4, <1>8, <1>n, <4>2
    <3> QED
      BY <1>8, <1>12, <1>13, <3>1, <3>2
  <2> QED
    BY <2>1, <2>2
<1>14. ASSUME answer' # "found"
       PROVE  /\ \A n \in Nodes : parent'[n] # Unseen <=> n \in BallOf(query, depth + 1, Barred)
              /\ Goal \notin BallOf(query, depth + 1, Barred)
              /\ \A n \in Nodes : n \in frontier' <=>
                   AtSteps(query, n, depth + 1, Barred) /\ (n = Seed \/ n \notin query.managed)
  <2>1. Goal \notin found
    BY <1>1, <1>14
  <2>2. \A n \in Nodes : n \in kept <=> AtSteps(query, n, depth + 1, Barred)
    BY <1>5, <1>9, <1>4, <2>1 DEF Barred
  <2>3. \A n \in Nodes : n \in BallOf(query, depth + 1, Barred) <=>
            n \in BallOf(query, depth, Barred) \/ AtSteps(query, n, depth + 1, Barred)
    <3>1. BallOf(query, depth, Barred) \subseteq BallOf(query, depth + 1, Barred)
      BY <1>7, BallWider
    <3>2. \A n : AtSteps(query, n, depth + 1, Barred) <=>
             n \in BallOf(query, depth + 1, Barred) /\ n \notin BallOf(query, depth, Barred)
      BY <1>7 DEF AtSteps
    <3> QED
      BY <3>1, <3>2
  <2>4. \A n \in kept : p[n] # Unseen
    BY <1>2, <1>7, GraphAssumption
  <2>5. \A n \in Nodes : parent'[n] # Unseen <=> n \in kept \/ parent[n] # Unseen
    BY <1>12, <2>4
  <2>6. \A n \in Nodes : n \in frontier' <=> n \in kept /\ n \notin query.managed
    BY <1>1, <1>5, <2>1 DEF Passable
  <2>7. \A n \in Nodes : AtSteps(query, n, depth + 1, Barred) => n # Seed
    <3>1. Seed \in BallOf(query, depth, Barred)
      BY <1>7, BallGrows
    <3> QED
      BY <1>7, <3>1, NextRing DEF RingRule
  <2>8. Goal \notin BallOf(query, depth + 1, Barred)
    BY <1>7, <1>8, <1>9, <2>1, <2>3
  <2> QED
    BY <1>8, <2>2, <2>3, <2>5, <2>6, <2>7, <2>8
<1>15. answer' = "found" => AtSteps(query, Goal, depth + 1, Barred)
  BY <1>1, <1>7, <1>9, <1>10
<1>16. PathSoFar'
  <2>1. answer' \in {"searching", "found", "no path"} /\ answer' # "no path"
    BY <1>1
  <2> HIDE DEF Barred
  <2> QED
    BY <1>1, <1>6, <1>13, <1>14, <1>15, <2>1 DEF PathSoFar
<1>17. GraphTypeOK'
  <2>1. depth + 1 \in Nat /\ depth + 1 <= query.maxDepth
    BY <1>1, <1>7
  <2>2. Admitted' = Admitted
    BY <1>1 DEF Admitted
  <2>3. frontier' \subseteq Nodes
    BY <1>1, <1>4 DEF Passable
  <2>4. parent' \in [Nodes -> Nodes \union {Unseen}]
    <3>1. parent \in [Nodes -> Nodes \union {Unseen}]
      BY Zenon DEF GraphTypeOK
    <3>2. \A n \in Nodes : parent'[n] \in Nodes \union {Unseen}
      BY <1>7, <1>12, <3>1
    <3>3. parent' = [n \in Nodes |-> parent'[n]]
      BY <1>2
    <3> QED
      BY <3>2, <3>3
  <2>5. answer' \in {"searching", "done", "found", "no path"}
    BY <1>1
  <2> HIDE DEF Admitted
  <2> QED
    BY <1>1, <2>1, <2>2, <2>3, <2>4, <2>5 DEF GraphTypeOK
<1> QED
  BY <1>16, <1>17

\* The end of a path search changes the answer only.
LEMMA PathEndsKeeps ==
  ASSUME GraphTypeOK, PathSoFar, PathEnds
  PROVE  PathSoFar' /\ GraphTypeOK'
<1>1. /\ answer' = "no path" /\ answer = "searching"
      /\ query' = query /\ depth' = depth /\ frontier' = frontier
      /\ visited' = visited /\ parent' = parent /\ edges' = edges
      /\ ~(depth < query.maxDepth) \/ frontier = {}
  BY DEF PathEnds, More, Searching
<1>2. Admitted' = Admitted /\ Barred' = Barred
  BY <1>1 DEF Admitted, Barred
<1>3. depth >= query.maxDepth \/ frontier = {}
  <2>1. depth \in Nat
    BY Zenon DEF GraphTypeOK
  <2>2. query.maxDepth \in Nat
    BY QueryTyped, Zenon
  <2>3. ~(depth < query.maxDepth) \/ frontier = {}
    BY <1>1
  <2> QED
    BY <2>1, <2>2, <2>3
<1> HIDE DEF Admitted, Barred
<1>4. PathSoFar'
  BY <1>1, <1>2, <1>3 DEF PathSoFar
<1>5. GraphTypeOK'
  BY <1>1, <1>2 DEF GraphTypeOK
<1> QED
  BY <1>4, <1>5

\* The way back from the goal over d steps.
IsBack(d, g) == g = [i \in 0 .. d |-> IF i = 0 THEN Goal ELSE parent[g[i - 1]]]
BackOf(d) == CHOOSE g : IsBack(d, g)

\* The recursion of the way back is well founded.
LEMMA BackExists ==
  ASSUME NEW d \in Nat
  PROVE  \E g : IsBack(d, g)
<1> DEFINE S == {j \in Nat : \E g : IsBack(j, g)}
<1>1. 0 \in S
  <2> DEFINE g == [i \in 0 .. 0 |-> Goal]
  <2>1. IsBack(0, g)
    BY DEF IsBack
  <2> QED
    BY <2>1
<1>2. ASSUME NEW j \in Nat, j \in S PROVE j + 1 \in S
  <2>1. PICK g : IsBack(j, g)
    BY <1>2
  <2> DEFINE h == [i \in 0 .. (j + 1) |-> IF i = j + 1 THEN parent[g[j]] ELSE g[i]]
  <2>2. \A i \in 0 .. j : h[i] = g[i]
    OBVIOUS
  <2>3. \A i \in 0 .. j : g[i] = IF i = 0 THEN Goal ELSE parent[g[i - 1]]
    BY <2>1 DEF IsBack
  <2>4. \A i \in 0 .. (j + 1) : h[i] = IF i = 0 THEN Goal ELSE parent[h[i - 1]]
    <3> SUFFICES ASSUME NEW i \in 0 .. (j + 1)
                 PROVE  h[i] = IF i = 0 THEN Goal ELSE parent[h[i - 1]]
      OBVIOUS
    <3> HIDE DEF h
    <3>1. CASE i = j + 1
      <4>1. h[i] = parent[g[j]] /\ i - 1 = j /\ i # 0
        BY <3>1 DEF h
      <4>2. h[i - 1] = g[j]
        BY <2>2, <4>1
      <4> QED
        BY <4>1, <4>2
    <3>2. CASE i # j + 1
      <4>1. i \in 0 .. j
        BY <3>2
      <4>2. i # 0 => i - 1 \in 0 .. j
        BY <4>1
      <4> QED
        BY <2>2, <2>3, <4>1, <4>2
    <3> QED
      BY <3>1, <3>2
  <2>5. h = [i \in 0 .. (j + 1) |-> h[i]]
    OBVIOUS
  <2> HIDE DEF h
  <2>6. IsBack(j + 1, h)
    BY <2>4, <2>5 DEF IsBack
  <2> QED
    BY <2>6
<1> HIDE DEF S
<1>3. d \in S
  BY <1>1, <1>2, NaturalInduction
<1> QED
  BY <1>3 DEF S

\* Back from a goal at distance depth, every step is one closer to the seed.
LEMMA BackLeads ==
  ASSUME GraphTypeOK, PathSoFar, AtSteps(query, Goal, depth, Barred), NEW g, IsBack(depth, g)
  PROVE  /\ \A i \in 0 .. depth : g[i] \in Nodes /\ AtSteps(query, g[i], depth - i, Barred)
         /\ \A i \in 1 .. depth : Adjacent(query, g[i], g[i - 1])
<1> DEFINE S == {i \in Nat : i <= depth => /\ g[i] \in Nodes
                                           /\ AtSteps(query, g[i], depth - i, Barred)
                                           /\ i # 0 => Adjacent(query, g[i], g[i - 1])}
<1>1. depth \in Nat
  BY Zenon DEF GraphTypeOK
<1>2. \A i \in 0 .. depth : g[i] = IF i = 0 THEN Goal ELSE parent[g[i - 1]]
  BY DEF IsBack
<1>3. \A k \in Nat, n \in Nodes :
         k < depth /\ AtSteps(query, n, k + 1, Barred) =>
             /\ parent[n] \in Nodes /\ AtSteps(query, parent[n], k, Barred)
             /\ Adjacent(query, parent[n], n)
  BY DEF PathSoFar
<1>4. 0 \in S
  <2>1. 0 \in 0 .. depth /\ depth - 0 = depth
    BY <1>1
  <2>2. g[0] = Goal
    BY <1>2, <2>1
  <2> QED
    BY <2>1, <2>2, GraphAssumption
<1>5. ASSUME NEW i \in Nat, i \in S PROVE i + 1 \in S
  <2> SUFFICES ASSUME i + 1 <= depth
               PROVE  /\ g[i + 1] \in Nodes /\ AtSteps(query, g[i + 1], depth - (i + 1), Barred)
                      /\ Adjacent(query, g[i + 1], g[(i + 1) - 1])
    OBVIOUS
  <2>1. /\ depth - (i + 1) \in Nat /\ depth - (i + 1) < depth /\ (depth - (i + 1)) + 1 = depth - i
        /\ i + 1 \in 0 .. depth /\ i + 1 # 0 /\ (i + 1) - 1 = i /\ i <= depth
    BY <1>1
  <2>2. g[i] \in Nodes /\ AtSteps(query, g[i], depth - i, Barred)
    BY <1>5, <2>1
  <2>3. g[i + 1] = parent[g[i]]
    BY <1>2, <2>1
  <2>4. /\ parent[g[i]] \in Nodes /\ AtSteps(query, parent[g[i]], depth - (i + 1), Barred)
        /\ Adjacent(query, parent[g[i]], g[i])
    BY <1>3, <2>1, <2>2
  <2> QED
    BY <2>1, <2>3, <2>4
<1> HIDE DEF S
<1>6. Nat \subseteq S
  BY <1>4, <1>5, NaturalInduction
<1>7. \A i \in 0 .. depth : i \in Nat /\ i <= depth
  BY <1>1
<1>8. \A i \in 1 .. depth : i \in Nat /\ i <= depth /\ i # 0
  BY <1>1
<1> QED
  BY <1>6, <1>7, <1>8 DEF S

\* What PathSoFar says of the end of a path search.
LEMMA PathShows ==
  ASSUME GraphTypeOK, PathSoFar
  PROVE  PathIsShortest
<1> DEFINE back == BackOf(depth)
<1>1. depth \in Nat /\ query.maxDepth \in Nat
  <2>1. depth \in Nat
    BY Zenon DEF GraphTypeOK
  <2> QED
    BY <2>1, QueryTyped, Zenon
<1>2. IsBack(depth, back)
  <2>1. \E g : IsBack(depth, g)
    BY <1>1, BackExists
  <2> QED
    BY <2>1, Zenon DEF BackOf
<1> HIDE DEF back
<1>3. ASSUME answer = "found"
      PROVE  /\ back[depth] = Seed
             /\ \A i \in 1 .. depth :
                  Reached(back[i], back[i - 1]) /\ back[i] \notin Barred \ {Seed}
             /\ depth = Distance(Goal, Barred)
  <2>1. AtSteps(query, Goal, depth, Barred)
    BY <1>3 DEF PathSoFar
  <2>2. /\ \A i \in 0 .. depth : back[i] \in Nodes /\ AtSteps(query, back[i], depth - i, Barred)
        /\ \A i \in 1 .. depth : Adjacent(query, back[i], back[i - 1])
    BY <1>2, <2>1, BackLeads
  <2>3. back[depth] = Seed
    <3>1. depth \in 0 .. depth /\ depth - depth = 0
      BY <1>1
    <3>2. back[depth] \in BallOf(query, 0, Barred)
      BY <2>2, <3>1 DEF AtSteps
    <3> QED
      BY <3>2, BallStep
  <2>4. ASSUME NEW i \in 1 .. depth
        PROVE  Reached(back[i], back[i - 1]) /\ back[i] \notin Barred \ {Seed}
    <3>1. i \in 0 .. depth /\ depth - i \in Nat
      BY <1>1
    <3>2. back[i] \in BallOf(query, depth - i, Barred)
      BY <2>2, <3>1 DEF AtSteps
    <3>3. back[i] = Seed \/ back[i] \notin Barred
      BY <3>1, <3>2, BallGrows
    <3>4. Adjacent(query, back[i], back[i - 1])
      BY <2>2
    <3>5. Reached(back[i], back[i - 1])
      BY <3>4 DEF Reached, Leads, Adjacent
    <3> QED
      BY <3>3, <3>5
  <2>5. depth = Distance(Goal, Barred)
    BY <1>1, <2>1, DistanceIs
  <2> QED
    BY <2>3, <2>4, <2>5
<1>4. ASSUME answer = "no path"
      PROVE  Goal \notin Ball(query.maxDepth, Barred)
  <2>1. /\ Goal \notin BallOf(query, depth, Barred)
        /\ \A n \in Nodes : n \in frontier <=>
             AtSteps(query, n, depth, Barred) /\ (n = Seed \/ n \notin query.managed)
        /\ depth >= query.maxDepth \/ frontier = {}
    BY <1>4 DEF PathSoFar
  <2>2. BallOf(query, query.maxDepth, Barred) \subseteq BallOf(query, depth, Barred)
    <3>1. CASE depth >= query.maxDepth
      BY <1>1, <3>1, BallWider
    <3>2. CASE frontier = {}
      <4>1. \A n \in Nodes :
              AtSteps(query, n, depth, Barred) => ~(n = Seed \/ n \notin query.managed)
        BY <2>1, <3>2
      <4> QED
        BY <1>1, <4>1, NothingBeyond
    <3> QED
      BY <2>1, <3>1, <3>2
  <2> QED
    BY <2>1, <2>2, BallIsBallOf
<1>5. back = CHOOSE g : g = [i \in 0 .. depth |-> IF i = 0 THEN Goal ELSE parent[g[i - 1]]]
  BY Zenon DEF back, BackOf, IsBack
<1>6. Barred = (query.excluded \union query.gone) \ {Goal}
  BY DEF Barred
<1> QED
  BY <1>3, <1>4, <1>5, <1>6, Zenon DEF PathIsShortest

-----------------------------------------------------------------------------
\* What the searches keep: the part that belongs to the question.
GraphKeeps ==
    /\ GraphTypeOK
    /\ query.what = "walk" => WalkSoFar
    /\ query.what = "path" => PathSoFar

\* The layers of GraphWalk and GraphPath (src/store/graph.go) answer for the graph they
\* search, whatever graph, query, caps and order of visits: a walk holds each node at its
\* distance and leaves nobody out but for a cap, every edge has both its ends, the
\* predecessors of a path lead back along a shortest one, and no path means none.
THEOREM WalksStayTrue == GraphSpec => []WalksAreTrue
<1>1. GraphInit => GraphKeeps
  BY GraphInitTyped, WalkStarts, PathStarts DEF GraphKeeps
<1>2. GraphKeeps /\ [GraphNext]_graphVars => GraphKeeps'
  <2> SUFFICES ASSUME GraphKeeps, [GraphNext]_graphVars PROVE GraphKeeps'
    OBVIOUS
  <2>1. CASE WalkLayer
    <3>1. query' = query /\ query.what = "walk"
      BY <2>1 DEF WalkLayer, Searching
    <3>2. GraphTypeOK /\ WalkSoFar
      BY <3>1 DEF GraphKeeps
    <3> QED
      BY <2>1, <3>1, <3>2, WalkLayerKeeps, Zenon DEF GraphKeeps
  <2>2. CASE WalkEnds
    <3>1. query' = query /\ query.what = "walk"
      BY <2>2 DEF WalkEnds, Searching
    <3>2. GraphTypeOK /\ WalkSoFar
      BY <3>1 DEF GraphKeeps
    <3> QED
      BY <2>2, <3>1, <3>2, WalkEndsKeeps, Zenon DEF GraphKeeps
  <2>3. CASE PathLayer
    <3>1. query' = query /\ query.what = "path"
      BY <2>3 DEF PathLayer, Searching
    <3>2. GraphTypeOK /\ PathSoFar
      BY <3>1 DEF GraphKeeps
    <3> QED
      BY <2>3, <3>1, <3>2, PathLayerKeeps, Zenon DEF GraphKeeps
  <2>4. CASE PathEnds
    <3>1. query' = query /\ query.what = "path"
      BY <2>4 DEF PathEnds, Searching
    <3>2. GraphTypeOK /\ PathSoFar
      BY <3>1 DEF GraphKeeps
    <3> QED
      BY <2>4, <3>1, <3>2, PathEndsKeeps, Zenon DEF GraphKeeps
  <2>5. CASE UNCHANGED graphVars
    <3>1. GraphTypeOK' <=> GraphTypeOK
      BY <2>5 DEF graphVars, GraphTypeOK, Admitted
    <3>2. WalkSoFar' <=> WalkSoFar
      BY <2>5 DEF graphVars, WalkSoFar, Admitted, Blocked, Leads
    <3>3. PathSoFar' <=> PathSoFar
      BY <2>5 DEF graphVars, PathSoFar, Barred
    <3> QED
      BY <2>5, <3>1, <3>2, <3>3 DEF GraphKeeps, graphVars
  <2> QED
    BY <2>1, <2>2, <2>3, <2>4, <2>5 DEF GraphNext
<1>3. GraphKeeps => WalksAreTrue
  <2> SUFFICES ASSUME GraphKeeps PROVE WalksAreTrue
    OBVIOUS
  <2>1. query.what \in {"walk", "path"}
    BY QueryTyped, Zenon DEF GraphKeeps
  <2>2. CASE query.what = "walk"
    <3>1. answer \in {"searching", "done"} /\ GraphTypeOK /\ WalkSoFar
      BY <2>2 DEF GraphKeeps, WalkSoFar
    <3>2. PathIsShortest
      BY <3>1 DEF PathIsShortest
    <3> QED
      BY <2>2, <3>1, <3>2, WalkShows, Zenon DEF WalksAreTrue
  <2>3. CASE query.what = "path"
    <3>1. answer # "done" /\ GraphTypeOK /\ PathSoFar
      BY <2>3 DEF GraphKeeps, PathSoFar
    <3>2. WalkIsExact /\ WalkIsConnected
      BY <3>1 DEF WalkIsExact, WalkIsConnected
    <3> QED
      BY <3>1, <3>2, PathShows, Zenon DEF WalksAreTrue
  <2> QED
    BY <2>1, <2>2, <2>3
<1>4. QED
  BY <1>1, <1>2, <1>3, PTL DEF GraphSpec

-----------------------------------------------------------------------------
(* Quotas: the table and the open transactions. *)

RowType == [quota : Quotas, value : Values, previous : Nat, supersededBy : Nat, attested : Values]
WriteType == [do : {"verify", "insert"}, row : Nat, quota : Quotas, value : Values]
\* A write as the transaction knows it: a row of its own has no number yet.
WrittenType == [do : {"verify", "insert"}, row : Nat \union {Own}, quota : Quotas, value : Values]
LimitType == [quota : Quotas, value : Values]
\* The parts of TableIs: rows attest what they hold; of a chain one row is live, one is the
\* first; a mark of a successor is answered.
RowsIs(table) ==
    \A i \in 1 .. Len(table) :
        /\ table[i].attested = table[i].value
        /\ table[i].previous <= Len(table) /\ table[i].supersededBy <= Len(table)

LiveIs(table) ==
    \A i \in 1 .. Len(table) :
        /\ \E j \in 1 .. Len(table) : table[j].quota = table[i].quota /\ table[j].supersededBy = 0
        /\ \A j \in 1 .. Len(table) :
              table[i].quota = table[j].quota /\ table[i].supersededBy = 0
              /\ table[j].supersededBy = 0 => i = j

FirstIs(table) ==
    \A i \in 1 .. Len(table) :
        /\ \E j \in 1 .. Len(table) : table[j].quota = table[i].quota /\ table[j].previous = 0
        /\ \A j \in 1 .. Len(table) :
              table[i].quota = table[j].quota /\ table[i].previous = 0
              /\ table[j].previous = 0 => i = j

NextIs(table) ==
    \A i \in 1 .. Len(table) : table[i].supersededBy # 0 =>
        /\ table[i].supersededBy \in 1 .. Len(table)
        /\ table[table[i].supersededBy].quota = table[i].quota
        /\ table[table[i].supersededBy].previous = i
        /\ table[table[i].supersededBy].value # table[i].value

\* The rows of every quota are one chain, and attest what they hold.
TableIs(table) ==
    table \in Seq(RowType) /\ RowsIs(table) /\ LiveIs(table) /\ FirstIs(table) /\ NextIs(table)

\* Row r is one of the quota of limit l.
IsOf(table, r, l) == r \in 1 .. Len(table) /\ table[r].quota = l.quota

\* Write x can still be made: a verified row holds the limit, and an insert continues the
\* chain or starts it.
Fits(table, x) ==
    /\ x.do = "verify" => IsOf(table, x.row, x) /\ table[x.row].value = x.value
    /\ x.do = "insert" =>
          \/ x.row = 0 /\ \A i \in 1 .. Len(table) : table[i].quota # x.quota
          \/ /\ IsOf(table, x.row, x) /\ table[x.row].supersededBy = 0
             /\ table[x.row].value # x.value

\* Two writes that do not insert into one chain.
Separate(x, y) == ~(x.do = "insert" /\ y.do = "insert" /\ x.quota = y.quota)

\* No row is gone, and none has changed what it is of.
Goes(table, later) ==
    \A i \in 1 .. Len(table) : i \in 1 .. Len(later) /\ later[i].quota = table[i].quota
                                                   /\ later[i].value = table[i].value

OnRecord(table, l) == \E r \in 1 .. Len(table) : table[r].quota = l.quota /\ table[r].value = l.value

\* The live row of the quota of l holds its limit.
IsLive(table, l) ==
    \E r \in 1 .. Len(table) : /\ table[r].quota = l.quota /\ table[r].supersededBy = 0
                               /\ table[r].value = l.value

\* Of the first n writes, no. j is the last that inserts a row of quota q.
InsertOf(x, q) == x.do = "insert" /\ x.quota = q
Latest(ws, n, q, j) ==
    InsertOf(ws[j], q) /\ \A l \in 1 .. n : InsertOf(ws[l], q) => l <= j

\* Write x can come after the first n: on a row of one's own it verifies the limit that row
\* holds or inserts another, and on a row that was found none of the chain is one's own.
Follows(ws, n, x) ==
    /\ x.row = Own => \E j \in 1 .. n : /\ Latest(ws, n, x.quota, j)
                                        /\ x.do = "verify" <=> ws[j].value = x.value
    /\ x.row # Own => \A j \in 1 .. n : ~InsertOf(ws[j], x.quota)

BatchIs(b) == b \in Seq(LimitType) /\ Len(b) # 0

\* An attempt is before the statement stmt, on the row it found, for limit no. at.
StatementIs(b, at, stmt, row, table) ==
    /\ at \in 1 .. (Len(b) + 1) /\ row \in Nat \union {Own}
    /\ stmt = "commit" <=> at = Len(b) + 1
    /\ stmt = "first" => row = 0
    /\ row # Own =>
          /\ stmt \in {"verify", "supersede", "insert"} => IsOf(table, row, b[at])
          /\ stmt = "verify" => table[row].value = b[at].value
          /\ stmt \in {"supersede", "insert"} => table[row].value # b[at].value

\* The write that statement is there for.
Aim(b, at, stmt, row) ==
    [do |-> IF stmt = "verify" THEN "verify" ELSE "insert", row |-> row,
     quota |-> b[at].quota, value |-> b[at].value]

\* It can come after what the attempt has written.
AimIs(b, at, stmt, row, wrote) ==
    stmt \in {"first", "verify", "supersede", "insert"} =>
        Follows(wrote, Len(wrote), Aim(b, at, stmt, row))

\* What writer w has written fits, each after those before it, under locks no other has.
WroteIs(w, wrote, table, locks) ==
    /\ wrote \in Seq(WrittenType)
    /\ \A k \in 1 .. Len(wrote) :
          /\ wrote[k].row # Own => Fits(table, wrote[k])
          /\ wrote[k].do = "insert" => locks[wrote[k].quota] = w
          /\ Follows(wrote, k - 1, wrote[k])

\* Every limit before no. at is written, or a sibling's.
PastIs(b, at, wrote, out) ==
    \A i \in 1 .. (at - 1) :
        \/ i \in out
        \/ \E k \in 1 .. Len(wrote) : wrote[k].quota = b[i].quota /\ wrote[k].value = b[i].value

TxIs(w, b, at, stmt, row, wrote, out, table, locks) ==
    /\ BatchIs(b) /\ StatementIs(b, at, stmt, row, table) /\ AimIs(b, at, stmt, row, wrote)
    /\ WroteIs(w, wrote, table, locks) /\ PastIs(b, at, wrote, out)

\* A call that has won has every limit of its batch on record.
WonIs(st, b, out, table) ==
    st \in {"won", "ok"} =>
        BatchIs(b) /\ \A i \in 1 .. Len(b) : i \in out \/ OnRecord(table, b[i])

\* What a call counts, and what it has inserted.
CountIs(c, ins, app) ==
    /\ ins \in Nat /\ app \in Nat
    /\ c.st = "idle" => app = 0
    /\ c.st \in {"trying", "pausing"} /\ ~c.failed => app = 0
    /\ c.st \in {"won", "ok"} => ins <= app /\ (~c.failed => ins = app)

Statements == {"lookup", "first", "verify", "supersede", "insert", "commit"}

AttemptIs(w, st, b, t, out, table, locks) ==
    IF st \in {"trying", "pausing"}
    THEN /\ t = [at |-> t.at, stmt |-> t.stmt, row |-> t.row, wrote |-> t.wrote]
         /\ t.stmt \in Statements
         /\ TxIs(w, b, t.at, t.stmt, t.row, t.wrote, out, table, locks)
    ELSE t = NoTx

WriterIs(w) ==
    /\ AttemptIs(w, call[w].st, batch[w], tx[w], outraced[w], quotas, held)
    /\ WonIs(call[w].st, batch[w], outraced[w], quotas)
    /\ CountIs(call[w], inserted[w], applied[w])

\* What the variables hold.
QuotaTyped ==
    /\ RetryTypeOK
    /\ limits \in [Quotas -> SUBSET Values] /\ moves \in 0 .. MaxMoves /\ calls \in 0 .. MaxUpserts
    /\ held \in [Items -> Writers \union {Free}]
    /\ DOMAIN batch = Writers /\ DOMAIN tx = Writers /\ DOMAIN outraced = Writers
    /\ DOMAIN inserted = Writers /\ DOMAIN applied = Writers

QuotaInv == QuotaTyped /\ TableIs(quotas) /\ \A w \in Writers : WriterIs(w)

\* What one write makes of the rows.
LEMMA VerifyIs ==
  ASSUME NEW table \in Seq(RowType), NEW x \in WriteType, x.do = "verify", x.row \in DOMAIN table
  PROVE  /\ Effect(table, x) \in Seq(RowType) /\ Len(Effect(table, x)) = Len(table)
         /\ \A i \in 1 .. Len(table) :
              /\ Effect(table, x)[i].quota = table[i].quota
              /\ Effect(table, x)[i].value = table[i].value
              /\ Effect(table, x)[i].previous = table[i].previous
              /\ Effect(table, x)[i].supersededBy = table[i].supersededBy
              /\ Effect(table, x)[i].attested = IF i = x.row THEN x.value ELSE table[i].attested
<1>1. Effect(table, x) = [table EXCEPT ![x.row].attested = x.value]
  BY DEF Effect
<1>2. x.row \in 1 .. Len(table) /\ x.value \in Values
  BY DEF WriteType
<1>3. \A i \in 1 .. Len(table) : table[i] \in RowType
  OBVIOUS
<1>4. [table EXCEPT ![x.row].attested = x.value] \in Seq(RowType)
  BY <1>2, <1>3, SMTT(30) DEF RowType
<1>5. Len([table EXCEPT ![x.row].attested = x.value]) = Len(table)
  BY <1>2
<1> QED
  BY <1>1, <1>2, <1>3, <1>4, <1>5 DEF RowType

LEMMA InsertIs ==
  ASSUME NEW table \in Seq(RowType), NEW x \in WriteType, x.do = "insert"
  PROVE  /\ Effect(table, x) \in Seq(RowType) /\ Len(Effect(table, x)) = Len(table) + 1
         /\ \A i \in 1 .. Len(table) :
              /\ Effect(table, x)[i].quota = table[i].quota
              /\ Effect(table, x)[i].value = table[i].value
              /\ Effect(table, x)[i].previous = table[i].previous
              /\ Effect(table, x)[i].attested = table[i].attested
              /\ Effect(table, x)[i].supersededBy =
                   IF i = x.row THEN Len(table) + 1 ELSE table[i].supersededBy
         /\ Effect(table, x)[Len(table) + 1] =
              [quota |-> x.quota, value |-> x.value, previous |-> x.row,
               supersededBy |-> 0, attested |-> x.value]
<1> DEFINE marked == [i \in DOMAIN table |-> IF i = x.row
                                            THEN [table[i] EXCEPT !.supersededBy = Len(table) + 1]
                                            ELSE table[i]]
           new == [quota |-> x.quota, value |-> x.value, previous |-> x.row,
                   supersededBy |-> 0, attested |-> x.value]
<1>1. Effect(table, x) = Append(marked, new)
  BY DEF Effect
<1>2. new \in RowType
  BY DEF WriteType, RowType
<1>3. DOMAIN table = 1 .. Len(table) /\ Len(table) \in Nat /\ \A i \in 1 .. Len(table) : table[i] \in RowType
  OBVIOUS
<1>4. \A i \in 1 .. Len(table) : marked[i] \in RowType
  BY <1>3 DEF RowType
<1>5. marked \in Seq(RowType) /\ Len(marked) = Len(table)
  <2>1. marked = [i \in 1 .. Len(table) |-> marked[i]]
    BY <1>3
  <2> HIDE DEF marked
  <2>2. [i \in 1 .. Len(table) |-> marked[i]] \in Seq(RowType)
    BY <1>3, <1>4
  <2> QED
    BY <1>3, <2>1, <2>2
<1>6. \A i \in 1 .. Len(table) :
         /\ marked[i].quota = table[i].quota /\ marked[i].value = table[i].value
         /\ marked[i].previous = table[i].previous /\ marked[i].attested = table[i].attested
         /\ marked[i].supersededBy = IF i = x.row THEN Len(table) + 1 ELSE table[i].supersededBy
  BY <1>3 DEF RowType
<1> HIDE DEF marked, new
<1>7. /\ Append(marked, new) \in Seq(RowType) /\ Len(Append(marked, new)) = Len(table) + 1
      /\ \A i \in 1 .. Len(table) : Append(marked, new)[i] = marked[i]
      /\ Append(marked, new)[Len(table) + 1] = new
  BY <1>2, <1>5
<1> QED
  BY <1>1, <1>6, <1>7 DEF new

\* A write that fits leaves chains, makes its limit a row's, which is live if it was inserted,
\* and disturbs no write and no live row of another chain.
LEMMA EffectIs ==
  ASSUME NEW table, TableIs(table), NEW x \in WriteType, Fits(table, x)
  PROVE  /\ TableIs(Effect(table, x)) /\ Goes(table, Effect(table, x)) /\ OnRecord(Effect(table, x), x)
         /\ \A y \in WriteType : Fits(table, y) /\ Separate(x, y) => Fits(Effect(table, x), y)
         /\ x.do = "insert" => IsLive(Effect(table, x), x)
         /\ \A l : IsLive(table, l) /\ ~InsertOf(x, l.quota) => IsLive(Effect(table, x), l)
<1> DEFINE n == Len(table)
           later == Effect(table, x)
<1>1. table \in Seq(RowType) /\ n \in Nat
  BY DEF TableIs
<1>2. \A i \in 1 .. n : /\ table[i].quota \in Quotas /\ table[i].value \in Values
                        /\ table[i].previous \in Nat /\ table[i].supersededBy \in Nat
  <2>1. \A i \in 1 .. n : table[i] \in RowType
    BY <1>1
  <2> QED
    BY <2>1 DEF RowType
<1>3. /\ x.do \in {"verify", "insert"} /\ x.row \in Nat /\ x.quota \in Quotas /\ x.value \in Values
      /\ n + 1 \notin 1 .. n
  BY <1>1 DEF WriteType
<1>4. RowsIs(table) /\ LiveIs(table) /\ FirstIs(table) /\ NextIs(table)
  BY Zenon DEF TableIs
<1>5. CASE x.do = "verify"
  <2>1. x.row \in 1 .. n /\ table[x.row].quota = x.quota /\ table[x.row].value = x.value
    BY <1>5 DEF Fits, IsOf
  <2>2. /\ later \in Seq(RowType) /\ Len(later) = n
        /\ \A i \in 1 .. n :
             /\ later[i].quota = table[i].quota /\ later[i].value = table[i].value
             /\ later[i].previous = table[i].previous
             /\ later[i].supersededBy = table[i].supersededBy
             /\ later[i].attested = IF i = x.row THEN x.value ELSE table[i].attested
    <3>1. x.row \in DOMAIN table
      BY <1>1, <2>1
    <3>2. \A i \in 1 .. Len(table) :
             /\ Effect(table, x)[i].quota = table[i].quota
             /\ Effect(table, x)[i].value = table[i].value
             /\ Effect(table, x)[i].previous = table[i].previous
             /\ Effect(table, x)[i].supersededBy = table[i].supersededBy
             /\ Effect(table, x)[i].attested = IF i = x.row THEN x.value ELSE table[i].attested
      BY <1>1, <1>5, <3>1, VerifyIs, Zenon
    <3>3. Effect(table, x) \in Seq(RowType) /\ Len(Effect(table, x)) = Len(table)
      BY <1>1, <1>5, <3>1, VerifyIs, Zenon
    <3> QED
      BY <3>2, <3>3
  <2> HIDE DEF later
  <2>3. RowsIs(later)
    BY <1>4, <2>1, <2>2 DEF RowsIs
  <2>4. LiveIs(later)
    BY <1>4, <2>2 DEF LiveIs
  <2>5. FirstIs(later)
    BY <1>4, <2>2 DEF FirstIs
  <2>6. NextIs(later)
    BY <1>4, <2>2 DEF NextIs
  <2>7. Goes(table, later) /\ OnRecord(later, x)
    BY <2>1, <2>2 DEF Goes, OnRecord
  <2>8. \A y \in WriteType : Fits(table, y) => Fits(later, y)
    BY <2>2 DEF Fits, IsOf
  <2>9. TableIs(later)
    BY <2>2, <2>3, <2>4, <2>5, <2>6 DEF TableIs
  <2>10. \A l : IsLive(table, l) => IsLive(later, l)
    BY <2>2 DEF IsLive
  <2> QED
    BY <1>5, <2>7, <2>8, <2>9, <2>10 DEF later
<1>6. CASE x.do = "insert"
  <2>1. \/ x.row = 0 /\ \A i \in 1 .. n : table[i].quota # x.quota
        \/ /\ x.row \in 1 .. n /\ table[x.row].quota = x.quota /\ table[x.row].supersededBy = 0
           /\ table[x.row].value # x.value
    BY <1>6 DEF Fits, IsOf
  <2>2. /\ later \in Seq(RowType) /\ Len(later) = n + 1
        /\ \A i \in 1 .. n :
             /\ later[i].quota = table[i].quota /\ later[i].value = table[i].value
             /\ later[i].previous = table[i].previous /\ later[i].attested = table[i].attested
             /\ later[i].supersededBy = IF i = x.row THEN n + 1 ELSE table[i].supersededBy
        /\ later[n + 1].quota = x.quota /\ later[n + 1].value = x.value
        /\ later[n + 1].previous = x.row /\ later[n + 1].supersededBy = 0
        /\ later[n + 1].attested = x.value
    <3>1. /\ later \in Seq(RowType) /\ Len(later) = n + 1
          /\ \A i \in 1 .. n :
               /\ later[i].quota = table[i].quota /\ later[i].value = table[i].value
               /\ later[i].previous = table[i].previous /\ later[i].attested = table[i].attested
               /\ later[i].supersededBy = IF i = x.row THEN n + 1 ELSE table[i].supersededBy
          /\ later[n + 1] = [quota |-> x.quota, value |-> x.value, previous |-> x.row,
                             supersededBy |-> 0, attested |-> x.value]
      BY <1>1, <1>6, InsertIs
    <3> HIDE DEF later, n
    <3> QED
      BY <3>1
  <2>3. \A i : i \in 1 .. (n + 1) <=> i \in 1 .. n \/ i = n + 1
    BY <1>1
  <2>4. \A i \in 1 .. n : later[i].quota = x.quota => x.row \in 1 .. n /\ later[i].supersededBy # 0
    <3> SUFFICES ASSUME NEW i \in 1 .. n, later[i].quota = x.quota
                 PROVE  x.row \in 1 .. n /\ later[i].supersededBy # 0
      OBVIOUS
    <3>1. table[i].quota = x.quota
      BY <2>2
    <3>2. /\ x.row \in 1 .. n /\ table[x.row].quota = x.quota /\ table[x.row].supersededBy = 0
          /\ table[x.row].value # x.value
      BY <2>1, <3>1
    <3>3. CASE i = x.row
      <4>1. later[i].supersededBy = n + 1
        BY <2>2, <3>3
      <4> QED
        BY <1>1, <3>2, <4>1
    <3>4. CASE i # x.row
      <4>1. later[i].supersededBy = table[i].supersededBy
        BY <2>2, <3>4
      <4>2. table[i].supersededBy # 0
        BY <1>4, <3>1, <3>2, <3>4 DEF LiveIs
      <4> QED
        BY <3>2, <4>1, <4>2
    <3> QED
      BY <3>3, <3>4
  <2> HIDE DEF later
  <2>5. RowsIs(later)
    <3>1. x.row <= n
      BY <1>1, <2>1
    <3>2. ASSUME NEW i \in 1 .. (n + 1)
          PROVE  /\ later[i].attested = later[i].value
                 /\ later[i].previous <= n + 1 /\ later[i].supersededBy <= n + 1
      <4>1. CASE i \in 1 .. n
        <5>1. /\ table[i].attested = table[i].value
              /\ table[i].previous <= n /\ table[i].supersededBy <= n
          BY <1>4, <4>1 DEF RowsIs
        <5>2. later[i].supersededBy = n + 1 \/ later[i].supersededBy = table[i].supersededBy
          BY <2>2, <4>1
        <5>3. later[i].previous = table[i].previous /\ later[i].attested = later[i].value
          BY <2>2, <4>1, <5>1
        <5> QED
          BY <1>1, <1>2, <4>1, <5>1, <5>2, <5>3
      <4>2. CASE i = n + 1
        BY <1>1, <1>3, <2>2, <3>1, <4>2
      <4> QED
        BY <2>3, <4>1, <4>2
    <3> QED
      BY <2>2, <3>2 DEF RowsIs
  <2>6. LiveIs(later)
    <3>1. ASSUME NEW i \in 1 .. (n + 1)
          PROVE  \E j \in 1 .. (n + 1) : later[j].quota = later[i].quota
                                         /\ later[j].supersededBy = 0
      <4>1. CASE later[i].quota = x.quota
        BY <2>2, <2>3, <4>1
      <4>2. CASE later[i].quota # x.quota
        <5>1. i \in 1 .. n
          BY <2>2, <2>3, <4>2
        <5>2. PICK j \in 1 .. n : table[j].quota = table[i].quota /\ table[j].supersededBy = 0
          BY <1>4, <5>1 DEF LiveIs
        <5>3. j # x.row
          BY <2>1, <2>2, <4>2, <5>1, <5>2
        <5> QED
          BY <2>2, <2>3, <5>1, <5>2, <5>3
      <4> QED
        BY <4>1, <4>2
    <3>2. ASSUME NEW i \in 1 .. n, NEW j \in 1 .. n, later[i].quota = later[j].quota,
                 later[i].supersededBy = 0, later[j].supersededBy = 0
          PROVE  i = j
      <4>1. table[i].quota = table[j].quota
        BY <2>2, <3>2
      <4>2. i # x.row /\ j # x.row
        BY <1>1, <2>2, <3>2
      <4>3. table[i].supersededBy = 0 /\ table[j].supersededBy = 0
        BY <2>2, <3>2, <4>2
      <4> QED
        BY <1>4, <4>1, <4>3 DEF LiveIs
    <3>3. ASSUME NEW i \in 1 .. (n + 1), NEW j \in 1 .. (n + 1), later[i].quota = later[j].quota,
                 later[i].supersededBy = 0, later[j].supersededBy = 0
          PROVE  i = j
      BY <2>2, <2>3, <2>4, <3>2, <3>3
    <3> QED
      BY <2>2, <3>1, <3>3 DEF LiveIs
  <2>7. FirstIs(later)
    <3>1. ASSUME NEW i \in 1 .. (n + 1)
          PROVE  \E j \in 1 .. (n + 1) : later[j].quota = later[i].quota
                                         /\ later[j].previous = 0
      <4>1. ASSUME NEW k \in 1 .. n, later[k].quota = later[i].quota
            PROVE  \E j \in 1 .. (n + 1) : later[j].quota = later[i].quota
                                           /\ later[j].previous = 0
        <5>1. PICK j \in 1 .. n : table[j].quota = table[k].quota /\ table[j].previous = 0
          BY <1>4, <4>1 DEF FirstIs
        <5> QED
          BY <2>2, <2>3, <4>1, <5>1
      <4>2. CASE i \in 1 .. n
        BY <4>1, <4>2
      <4>3. CASE i = n + 1 /\ x.row = 0
        BY <2>2, <2>3, <4>3
      <4>4. CASE i = n + 1 /\ x.row # 0
        <5>1. x.row \in 1 .. n /\ later[x.row].quota = later[i].quota
          BY <2>1, <2>2, <4>4
        <5> QED
          BY <4>1, <5>1
      <4> QED
        BY <2>3, <4>2, <4>3, <4>4
    <3>2. ASSUME NEW i \in 1 .. n, NEW j \in 1 .. n, later[i].quota = later[j].quota,
                 later[i].previous = 0, later[j].previous = 0
          PROVE  i = j
      BY <1>4, <2>2, <3>2 DEF FirstIs
    <3>3. \A i \in 1 .. n : later[i].quota = x.quota => x.row # 0
      BY <1>1, <2>4
    <3>4. ASSUME NEW i \in 1 .. (n + 1), NEW j \in 1 .. (n + 1), later[i].quota = later[j].quota,
                 later[i].previous = 0, later[j].previous = 0
          PROVE  i = j
      BY <2>2, <2>3, <3>2, <3>3, <3>4
    <3> QED
      BY <2>2, <3>1, <3>4 DEF FirstIs
  <2>8. NextIs(later)
    <3>1. ASSUME NEW i \in 1 .. (n + 1), later[i].supersededBy # 0
          PROVE  /\ later[i].supersededBy \in 1 .. (n + 1)
                 /\ later[later[i].supersededBy].quota = later[i].quota
                 /\ later[later[i].supersededBy].previous = i
                 /\ later[later[i].supersededBy].value # later[i].value
      <4>1. i \in 1 .. n
        BY <2>2, <2>3, <3>1
      <4>2. CASE i = x.row
        <5>1. later[i].supersededBy = n + 1
          BY <2>2, <4>1, <4>2
        <5>2. table[i].quota = x.quota /\ table[i].value # x.value
          BY <1>1, <2>1, <4>1, <4>2
        <5> QED
          BY <2>2, <2>3, <4>1, <4>2, <5>1, <5>2
      <4>3. CASE i # x.row
        <5>1. later[i].supersededBy = table[i].supersededBy
          BY <2>2, <4>1, <4>3
        <5>2. /\ table[i].supersededBy \in 1 .. n
              /\ table[table[i].supersededBy].quota = table[i].quota
              /\ table[table[i].supersededBy].previous = i
              /\ table[table[i].supersededBy].value # table[i].value
          BY <1>4, <3>1, <4>1, <5>1 DEF NextIs
        <5> QED
          BY <2>2, <2>3, <4>1, <5>1, <5>2
      <4> QED
        BY <4>2, <4>3
    <3> QED
      BY <2>2, <3>1 DEF NextIs
  <2>9. TableIs(later)
    BY <2>2, <2>5, <2>6, <2>7, <2>8 DEF TableIs
  <2>10. Goes(table, later) /\ OnRecord(later, x)
    BY <2>2, <2>3 DEF Goes, OnRecord
  <2>11. ASSUME NEW y \in WriteType, Fits(table, y), Separate(x, y)
         PROVE  Fits(later, y)
    <3>1. CASE y.do = "verify"
      BY <2>2, <2>3, <2>11, <3>1 DEF Fits, IsOf
    <3>2. CASE y.do = "insert"
      <4>1. y.quota # x.quota
        BY <1>6, <2>11, <3>2 DEF Separate
      <4>2. \/ y.row = 0 /\ \A i \in 1 .. n : table[i].quota # y.quota
            \/ /\ y.row \in 1 .. n /\ table[y.row].quota = y.quota
               /\ table[y.row].supersededBy = 0 /\ table[y.row].value # y.value
        BY <2>11, <3>2 DEF Fits, IsOf
      <4>3. CASE y.row = 0 /\ \A i \in 1 .. n : table[i].quota # y.quota
        <5>1. \A i \in 1 .. (n + 1) : later[i].quota # y.quota
          BY <2>2, <2>3, <4>1, <4>3
        <5> QED
          BY <2>2, <3>2, <4>3, <5>1 DEF Fits
      <4>4. CASE /\ y.row \in 1 .. n /\ table[y.row].quota = y.quota
                 /\ table[y.row].supersededBy = 0 /\ table[y.row].value # y.value
        <5>1. y.row # x.row
          BY <1>1, <2>1, <4>1, <4>4
        <5>2. /\ y.row \in 1 .. (n + 1) /\ later[y.row].quota = y.quota
              /\ later[y.row].supersededBy = 0 /\ later[y.row].value # y.value
          BY <2>2, <2>3, <4>4, <5>1
        <5> QED
          BY <2>2, <3>2, <5>2 DEF Fits, IsOf
      <4> QED
        BY <4>2, <4>3, <4>4
    <3> QED
      BY <3>1, <3>2 DEF WriteType
  <2>12. IsLive(later, x)
    BY <2>2, <2>3 DEF IsLive
  <2>13. ASSUME NEW l, IsLive(table, l), ~InsertOf(x, l.quota) PROVE IsLive(later, l)
    <3>1. PICK r \in 1 .. n : /\ table[r].quota = l.quota /\ table[r].supersededBy = 0
                              /\ table[r].value = l.value
      BY <2>13 DEF IsLive
    <3>2. l.quota # x.quota
      BY <1>6, <2>13 DEF InsertOf
    <3>3. r # x.row
      BY <1>1, <2>1, <3>1, <3>2
    <3>4. /\ r \in 1 .. (n + 1) /\ later[r].quota = l.quota /\ later[r].supersededBy = 0
          /\ later[r].value = l.value
      BY <2>2, <2>3, <3>1, <3>3
    <3> QED
      BY <2>2, <3>4 DEF IsLive
  <2> QED
    BY <2>9, <2>10, <2>11, <2>12, <2>13 DEF later
<1> QED
  BY <1>3, <1>5, <1>6

\* The function Effects is defined by.
IsAfter(table, ws, f) ==
    f = [i \in 0 .. Len(ws) |-> IF i = 0 THEN table
                                ELSE Effect(f[i - 1], Placed(f[i - 1], ws[i]))]

\* The recursion of Effects is well founded.
LEMMA AfterExists ==
  ASSUME NEW table, NEW ws, Len(ws) \in Nat
  PROVE  \E f : IsAfter(table, ws, f)
<1> DEFINE Then(table1, i) == Effect(table1, Placed(table1, ws[i]))
           Upto(j, g) == g = [i \in 0 .. j |-> IF i = 0 THEN table ELSE Then(g[i - 1], i)]
           S == {j \in Nat : \E g : Upto(j, g)}
<1>1. 0 \in S
  <2> DEFINE g == [i \in 0 .. 0 |-> table]
  <2>1. Upto(0, g)
    OBVIOUS
  <2> QED
    BY <2>1
<1>2. ASSUME NEW j \in Nat, j \in S PROVE j + 1 \in S
  <2>1. PICK g : Upto(j, g)
    BY <1>2
  <2> DEFINE h == [i \in 0 .. (j + 1) |-> IF i = j + 1 THEN Then(g[j], i) ELSE g[i]]
  <2>2. \A i \in 0 .. j : h[i] = g[i]
    OBVIOUS
  <2>3. \A i \in 0 .. j : g[i] = IF i = 0 THEN table ELSE Then(g[i - 1], i)
    BY <2>1
  <2>4. \A i \in 0 .. (j + 1) : h[i] = IF i = 0 THEN table ELSE Then(h[i - 1], i)
    <3> SUFFICES ASSUME NEW i \in 0 .. (j + 1)
                 PROVE  h[i] = IF i = 0 THEN table ELSE Then(h[i - 1], i)
      OBVIOUS
    <3> HIDE DEF h
    <3>1. CASE i = j + 1
      <4>1. h[i] = Then(g[j], i) /\ i - 1 = j /\ i # 0
        BY <3>1 DEF h
      <4>2. h[i - 1] = g[j]
        BY <2>2, <4>1
      <4> QED
        BY <4>1, <4>2
    <3>2. CASE i # j + 1
      <4>1. i \in 0 .. j
        BY <3>2
      <4>2. i # 0 => i - 1 \in 0 .. j
        BY <4>1
      <4> QED
        BY <2>2, <2>3, <4>1, <4>2
    <3> QED
      BY <3>1, <3>2
  <2>5. h = [i \in 0 .. (j + 1) |-> h[i]]
    OBVIOUS
  <2> HIDE DEF h
  <2>6. Upto(j + 1, h)
    BY <2>4, <2>5
  <2> QED
    BY <2>6
<1> HIDE DEF S
<1>3. Len(ws) \in S
  BY <1>1, <1>2, NaturalInduction
<1>4. \E g : Upto(Len(ws), g)
  BY <1>3 DEF S
<1> QED
  BY <1>4, Zenon DEF IsAfter

\* Where a write lands, when the rows hold what the transaction has written before it.
LEMMA PlacedFits ==
  ASSUME NEW table, TableIs(table), NEW x \in WrittenType,
         x.row # Own => Fits(table, x),
         x.row = Own => \E l : /\ IsLive(table, l) /\ l.quota = x.quota
                               /\ x.do = "verify" <=> l.value = x.value
  PROVE  /\ Placed(table, x) \in WriteType /\ Fits(table, Placed(table, x))
         /\ Placed(table, x).do = x.do /\ Placed(table, x).quota = x.quota
         /\ Placed(table, x).value = x.value
<1>1. /\ x.do \in {"verify", "insert"} /\ x.row \in Nat \union {Own} /\ x.quota \in Quotas
      /\ x.value \in Values
      /\ x = [do |-> x.do, row |-> x.row, quota |-> x.quota, value |-> x.value]
  BY DEF WrittenType
<1>2. table \in Seq(RowType) /\ LiveIs(table)
  BY DEF TableIs
<1>3. CASE x.row # Own
  <2>1. Placed(table, x) = x
    BY <1>3 DEF Placed
  <2>2. x \in WriteType
    BY <1>1, <1>3 DEF WriteType
  <2> QED
    BY <1>3, <2>1, <2>2
<1>4. CASE x.row = Own
  <2>1. PICK l : /\ IsLive(table, l) /\ l.quota = x.quota
                 /\ x.do = "verify" <=> l.value = x.value
    BY <1>4
  <2>2. PICK r \in 1 .. Len(table) : /\ table[r].quota = x.quota /\ table[r].supersededBy = 0
                                     /\ table[r].value = l.value
    BY <2>1 DEF IsLive
  <2> DEFINE e == CHOOSE i \in DOMAIN table : table[i].quota = x.quota /\ table[i].supersededBy = 0
  <2>3. DOMAIN table = 1 .. Len(table)
    BY <1>2
  <2>4. e \in DOMAIN table /\ table[e].quota = x.quota /\ table[e].supersededBy = 0
    BY <2>2, <2>3
  <2>5. Placed(table, x) = [x EXCEPT !.row = e]
    BY <1>4 DEF Placed
  <2> HIDE DEF e
  <2>6. e = r
    BY <1>2, <2>2, <2>3, <2>4 DEF LiveIs
  <2>7. Placed(table, x) = [do |-> x.do, row |-> e, quota |-> x.quota, value |-> x.value]
    BY <1>1, <2>5
  <2>8. e \in Nat
    BY <1>2, <2>3, <2>4
  <2> DEFINE p == [do |-> x.do, row |-> e, quota |-> x.quota, value |-> x.value]
  <2>9. p \in WriteType
    BY <1>1, <2>8 DEF WriteType
  <2>10. p.do = x.do /\ p.row = r /\ p.quota = x.quota /\ p.value = x.value
    BY <2>6
  <2> HIDE DEF p
  <2>11. Fits(table, p)
    BY <2>1, <2>2, <2>10 DEF Fits, IsOf
  <2> QED
    BY <2>7, <2>9, <2>10, <2>11 DEF p
<1> QED
  BY <1>3, <1>4

\* Writes that fit, one after the other.
LEMMA EffectsAre ==
  ASSUME NEW table, TableIs(table), NEW ws \in Seq(WrittenType),
         \A k \in DOMAIN ws : ws[k].row # Own => Fits(table, ws[k]),
         \A k \in DOMAIN ws : Follows(ws, k - 1, ws[k])
  PROVE  /\ TableIs(Effects(table, ws)) /\ Goes(table, Effects(table, ws))
         /\ \A k \in DOMAIN ws : OnRecord(Effects(table, ws), ws[k])
         /\ \A y \in WriteType :
              Fits(table, y) /\ (\A k \in DOMAIN ws : Separate(ws[k], y)) => Fits(Effects(table, ws), y)
<1>1. Len(ws) \in Nat /\ DOMAIN ws = 1 .. Len(ws) /\ \A k \in 1 .. Len(ws) : ws[k] \in WrittenType
  OBVIOUS
<1>2. Effects(table, ws) = (CHOOSE f : IsAfter(table, ws, f))[Len(ws)]
  BY Zenon DEF Effects, IsAfter
<1> DEFINE f == CHOOSE g : IsAfter(table, ws, g)
<1>3. IsAfter(table, ws, f)
  <2>1. \E g : IsAfter(table, ws, g)
    BY <1>1, AfterExists
  <2> QED
    BY <2>1, Zenon
<1>4. Effects(table, ws) = f[Len(ws)]
  BY <1>2
<1> HIDE DEF f
<1>5. \A i \in 0 .. Len(ws) :
         f[i] = IF i = 0 THEN table ELSE Effect(f[i - 1], Placed(f[i - 1], ws[i]))
  BY <1>3 DEF IsAfter
<1> DEFINE P(i) == /\ TableIs(f[i]) /\ Goes(table, f[i])
                   /\ \A k \in 1 .. i : OnRecord(f[i], ws[k])
                   /\ \A y \in WriteType :
                        Fits(table, y) /\ (\A k \in 1 .. i : Separate(ws[k], y)) => Fits(f[i], y)
                   /\ \A q, k : k \in 1 .. i /\ Latest(ws, i, q, k) => IsLive(f[i], ws[k])
           S == {i \in Nat : i <= Len(ws) => P(i)}
<1>6. 0 \in S
  <2>1. f[0] = table
    BY <1>1, <1>5
  <2>2. Goes(table, table)
    BY DEF Goes
  <2>3. \A k \in 1 .. 0 : FALSE
    OBVIOUS
  <2>4. P(0)
    BY <2>1, <2>2, <2>3
  <2> QED
    BY <2>4
<1>7. ASSUME NEW i \in Nat, i \in S PROVE i + 1 \in S
  <2> SUFFICES ASSUME i + 1 <= Len(ws) PROVE P(i + 1)
    OBVIOUS
  <2>1. /\ i + 1 \in 0 .. Len(ws) /\ i + 1 # 0 /\ (i + 1) - 1 = i /\ i <= Len(ws)
        /\ i + 1 \in 1 .. Len(ws) /\ \A k \in 1 .. i : k \in 1 .. Len(ws) /\ k # i + 1 /\ k < i + 1
        /\ \A k : k \in 1 .. (i + 1) <=> k \in 1 .. i \/ k = i + 1
    BY <1>1
  <2>2. /\ TableIs(f[i]) /\ Goes(table, f[i])
        /\ \A k \in 1 .. i : OnRecord(f[i], ws[k])
        /\ \A y \in WriteType :
             Fits(table, y) /\ (\A k \in 1 .. i : Separate(ws[k], y)) => Fits(f[i], y)
        /\ \A q, k : k \in 1 .. i /\ Latest(ws, i, q, k) => IsLive(f[i], ws[k])
    BY <1>7, <2>1
  <2> HIDE DEF P, S
  <2> DEFINE x == ws[i + 1]
             p == Placed(f[i], x)
  <2>3. f[i + 1] = Effect(f[i], p)
    BY <1>5, <2>1
  <2>4. /\ x \in WrittenType /\ (x.row # Own => Fits(table, x)) /\ Follows(ws, i, x)
        /\ x.do \in {"verify", "insert"}
    <3>1. x \in WrittenType /\ (x.row # Own => Fits(table, x)) /\ Follows(ws, (i + 1) - 1, x)
      BY <1>1, <2>1
    <3> QED
      BY <2>1, <3>1 DEF WrittenType
  <2> HIDE DEF x
  <2>5. x.row # Own => Fits(f[i], x)
    <3> SUFFICES ASSUME x.row # Own PROVE Fits(f[i], x)
      OBVIOUS
    <3>1. \A k \in 1 .. i : Separate(ws[k], x)
      BY <2>4 DEF Follows, InsertOf, Separate
    <3>2. x \in WriteType
      BY <2>4 DEF WrittenType, WriteType
    <3> QED
      BY <2>2, <2>4, <3>1, <3>2
  <2>6. x.row = Own => \E l : /\ IsLive(f[i], l) /\ l.quota = x.quota
                              /\ x.do = "verify" <=> l.value = x.value
    <3> SUFFICES ASSUME x.row = Own
                 PROVE  \E l : /\ IsLive(f[i], l) /\ l.quota = x.quota
                               /\ x.do = "verify" <=> l.value = x.value
      OBVIOUS
    <3>1. PICK j \in 1 .. i : /\ Latest(ws, i, x.quota, j)
                              /\ x.do = "verify" <=> ws[j].value = x.value
      BY <2>4 DEF Follows
    <3>2. IsLive(f[i], ws[j]) /\ ws[j].quota = x.quota
      BY <2>2, <3>1 DEF Latest, InsertOf
    <3> QED
      BY <3>1, <3>2
  <2>7. /\ p \in WriteType /\ Fits(f[i], p)
        /\ p.do = x.do /\ p.quota = x.quota /\ p.value = x.value
    BY <2>2, <2>4, <2>5, <2>6, PlacedFits
  <2> HIDE DEF p
  <2>8. /\ TableIs(f[i + 1]) /\ Goes(f[i], f[i + 1]) /\ OnRecord(f[i + 1], p)
        /\ \A y \in WriteType : Fits(f[i], y) /\ Separate(p, y) => Fits(f[i + 1], y)
        /\ p.do = "insert" => IsLive(f[i + 1], p)
        /\ \A l : IsLive(f[i], l) /\ ~InsertOf(p, l.quota) => IsLive(f[i + 1], l)
    BY <2>2, <2>3, <2>7, EffectIs
  <2>9. Goes(table, f[i + 1])
    BY <2>2, <2>8 DEF Goes
  <2>10. ASSUME NEW k \in 1 .. (i + 1) PROVE OnRecord(f[i + 1], ws[k])
    <3>1. CASE k = i + 1
      BY <2>7, <2>8, <3>1 DEF OnRecord, x
    <3>2. CASE k \in 1 .. i
      BY <2>2, <2>8, <3>2 DEF OnRecord, Goes
    <3> QED
      BY <2>1, <3>1, <3>2
  <2>11. ASSUME NEW y \in WriteType, Fits(table, y), \A k \in 1 .. (i + 1) : Separate(ws[k], y)
         PROVE  Fits(f[i + 1], y)
    <3>1. Fits(f[i], y)
      BY <2>1, <2>2, <2>11
    <3>2. Separate(ws[i + 1], y)
      BY <2>1, <2>11
    <3>3. Separate(p, y)
      BY <2>7, <3>2 DEF Separate, x
    <3> QED
      BY <2>8, <3>1, <3>3
  <2>12. ASSUME NEW q, NEW k, k \in 1 .. (i + 1), Latest(ws, i + 1, q, k)
         PROVE  IsLive(f[i + 1], ws[k])
    <3>1. InsertOf(ws[k], q) /\ \A l \in 1 .. (i + 1) : InsertOf(ws[l], q) => l <= k
      BY <2>12 DEF Latest
    <3>2. CASE k = i + 1
      <4>1. p.do = "insert"
        BY <2>7, <3>1, <3>2 DEF InsertOf, x
      <4>2. IsLive(f[i + 1], p)
        BY <2>8, <4>1
      <4>3. ws[k].quota = p.quota /\ ws[k].value = p.value
        BY <2>7, <3>2 DEF x
      <4> QED
        BY <4>2, <4>3 DEF IsLive
    <3>3. CASE k \in 1 .. i
      <4>1. Latest(ws, i, q, k)
        BY <2>1, <3>1 DEF Latest
      <4>2. IsLive(f[i], ws[k])
        BY <2>2, <3>3, <4>1
      <4>3. ~InsertOf(x, q)
        BY <2>1, <3>1, <3>3 DEF x
      <4>4. ~InsertOf(p, ws[k].quota)
        BY <2>7, <3>1, <4>3 DEF InsertOf
      <4> QED
        BY <2>8, <4>2, <4>4
    <3> QED
      BY <2>1, <2>12, <3>2, <3>3
  <2> QED
    BY <2>8, <2>9, <2>10, <2>11, <2>12 DEF P
<1> HIDE DEF S
<1>8. Len(ws) \in S
  BY <1>1, <1>6, <1>7, NaturalInduction
<1>9. P(Len(ws))
  BY <1>1, <1>8 DEF S
<1> QED
  BY <1>1, <1>4, <1>9

-----------------------------------------------------------------------------
(* Quotas: the steps of a writer. *)

\* A step of the retry moves one call.
LEMMA UpsertRetries ==
  ASSUME RetryTypeOK, NEW w \in Writers,
         \/ CallStarts(w, FALSE) \/ AttemptSucceeds(w) \/ CloseCircuit(w) \/ AttemptFails(w)
         \/ AttemptRefused(w) \/ Wake(w) \/ CallReturns(w)
  PROVE  /\ RetryTypeOK' /\ \A v \in Writers \ {w} : call'[v] = call[v]
         /\ CallStarts(w, FALSE) => call[w].st = "idle" /\ call'[w].st = "trying"
         /\ AttemptSucceeds(w) => /\ call[w].st = "trying" /\ call'[w].st = "won"
                                  /\ call'[w].failed = call[w].failed
         /\ CloseCircuit(w) => /\ call[w].st = "won" /\ call'[w].st = "ok"
                               /\ call'[w].failed = call[w].failed
         /\ AttemptFails(w) => /\ call[w].st = "trying" /\ call'[w].st \in {"pausing", "failed"}
                               /\ call'[w].failed
         /\ AttemptRefused(w) => call[w].st = "trying" /\ call'[w].st = "failed"
         /\ Wake(w) => /\ call[w].st = "pausing" /\ call'[w].st = "trying"
                       /\ call'[w].failed = call[w].failed
         /\ CallReturns(w) => call[w].st \in {"ok", "failed"} /\ call'[w].st = "idle"
<1> USE RetryAssumption DEF RetryTypeOK
<1>1. CASE CallStarts(w, FALSE)
  <2>1. AttemptsAllowed(FALSE) \in 0 .. MaxAttempts
    BY DEF AttemptsAllowed
  <2>2. /\ call[w].st = "idle" /\ db' = db /\ streak' = streak
        /\ call' = [call EXCEPT ![w] = Start(AttemptsAllowed(FALSE))]
    BY <1>1 DEF CallStarts
  <2>3. call'[w] = Start(AttemptsAllowed(FALSE)) /\ \A v \in Writers \ {w} : call'[v] = call[v]
    BY <2>2
  <2>4. RetryTypeOK' /\ call'[w].st = "trying"
    BY <2>1, <2>2, <2>3 DEF Start
  <2> QED
    BY <2>2, <2>3, <2>4 DEF AttemptSucceeds, CloseCircuit, AttemptFails, AttemptRefused, Wake,
       CallReturns
<1>2. CASE AttemptSucceeds(w)
  BY <1>2 DEF AttemptSucceeds, CallStarts, CloseCircuit, AttemptFails, AttemptRefused, Wake,
     CallReturns, Pause, Exhaust
<1>3. CASE CloseCircuit(w)
  BY <1>3 DEF AttemptSucceeds, CallStarts, CloseCircuit, AttemptFails, AttemptRefused, Wake,
     CallReturns
<1>4. CASE AttemptFails(w)
  <2>1. call[w].st = "trying"
    BY <1>4 DEF AttemptFails
  <2>2. CASE Pause(w)
    BY <2>1, <2>2 DEF Pause, AttemptSucceeds, CallStarts, CloseCircuit, AttemptRefused, Wake,
       CallReturns
  <2>3. CASE Exhaust(w)
    BY <2>1, <2>3 DEF Exhaust, AttemptSucceeds, CallStarts, CloseCircuit, AttemptRefused, Wake,
       CallReturns
  <2> QED
    BY <1>4, <2>2, <2>3 DEF AttemptFails
<1>5. CASE AttemptRefused(w)
  BY <1>5 DEF AttemptSucceeds, CallStarts, CloseCircuit, AttemptFails, AttemptRefused, Wake,
     CallReturns, Pause, Exhaust
<1>6. CASE Wake(w)
  BY <1>6 DEF AttemptSucceeds, CallStarts, CloseCircuit, AttemptFails, AttemptRefused, Wake,
     CallReturns
<1>7. CASE CallReturns(w)
  BY <1>7 DEF AttemptSucceeds, CallStarts, CloseCircuit, AttemptFails, AttemptRefused, Wake,
     CallReturns, NoCall
<1> QED
  BY <1>1, <1>2, <1>3, <1>4, <1>5, <1>6, <1>7

\* The statement a writer goes on to after limit no. at.
NextStatement(b, at) == IF at = Len(b) THEN "commit" ELSE "lookup"

\* One write more.
LEMMA OneWriteMore ==
  ASSUME NEW u \in Seq(WrittenType), NEW x \in WrittenType, NEW u1, u1 = u \o <<x>>
  PROVE  /\ u1 \in Seq(WrittenType) /\ Len(u) \in Nat /\ Len(u1) = Len(u) + 1
         /\ \A k \in 1 .. Len(u) : u1[k] = u[k]
         /\ u1[Len(u) + 1] = x
<1>1. <<x>> \in Seq(WrittenType) /\ Len(<<x>>) = 1 /\ <<x>>[1] = x
  OBVIOUS
<1>2. PICK s \in Seq(WrittenType) : s = <<x>>
  BY <1>1
<1>3. Len(s) = 1 /\ s[1] = x /\ u1 = u \o s
  BY <1>1, <1>2
<1> HIDE <1>2
<1> QED
  BY <1>3

\* The numbers up to that of the limit at hand.
LEMMA LimitsBefore ==
  ASSUME NEW b, BatchIs(b), NEW at \in 1 .. Len(b)
  PROVE  /\ Len(b) \in Nat /\ at + 1 \in 1 .. (Len(b) + 1) /\ (at + 1) - 1 = at
         /\ at + 1 = Len(b) + 1 <=> at = Len(b)
         /\ \A i : i \in 1 .. at <=> i \in 1 .. (at - 1) \/ i = at
<1>1. Len(b) \in Nat
  BY DEF BatchIs
<1> QED
  BY <1>1

\* The attempt goes on to the next limit.
LEMMA NextIsThere ==
  ASSUME NEW b, BatchIs(b), NEW at \in 1 .. Len(b), NEW table, NEW u
  PROVE  /\ StatementIs(b, at + 1, NextStatement(b, at), 0, table)
         /\ AimIs(b, at + 1, NextStatement(b, at), 0, u)
<1>1. /\ at + 1 \in 1 .. (Len(b) + 1) /\ at + 1 = Len(b) + 1 <=> at = Len(b)
  BY LimitsBefore
<1>2. /\ NextStatement(b, at) \in {"commit", "lookup"}
      /\ NextStatement(b, at) = "commit" <=> at = Len(b)
  BY DEF NextStatement
<1> QED
  BY <1>1, <1>2 DEF StatementIs, AimIs

\* A limit a sibling has put on record adds no write.
LEMMA PassKeeps ==
  ASSUME NEW w, NEW b, NEW at, NEW stmt, NEW row, NEW u, NEW out, NEW table, NEW locks,
         NEW out1, NEW u1, TxIs(w, b, at, stmt, row, u, out, table, locks), at \in 1 .. Len(b),
         u1 = u \o <<>>, out \subseteq out1, at \in out1
  PROVE  TxIs(w, b, at + 1, NextStatement(b, at), 0, u1, out1, table, locks)
<1>1. BatchIs(b) /\ WroteIs(w, u, table, locks) /\ PastIs(b, at, u, out)
  BY DEF TxIs
<1>2. at \in 1 .. Len(b)
  OBVIOUS
<1>3. (at + 1) - 1 = at /\ \A i : i \in 1 .. at <=> i \in 1 .. (at - 1) \/ i = at
  BY <1>1, <1>2, LimitsBefore
<1>4. u1 = u
  BY <1>1 DEF WroteIs
<1>5. /\ StatementIs(b, at + 1, NextStatement(b, at), 0, table)
      /\ AimIs(b, at + 1, NextStatement(b, at), 0, u)
  BY <1>1, <1>2, NextIsThere
<1>6. PastIs(b, at + 1, u, out1)
  BY <1>1, <1>3 DEF PastIs
<1> QED
  BY <1>1, <1>4, <1>5, <1>6 DEF TxIs

\* Write x answers limit no. at, after the writes u and under a lock of writer w if it inserts.
Answers(w, b, at, x, u, table, locks) ==
    /\ x \in WrittenType /\ x.quota = b[at].quota /\ x.value = b[at].value
    /\ x.row # Own => Fits(table, x)
    /\ Follows(u, Len(u), x)
    /\ x.do = "insert" => locks[x.quota] = w

KeepsLocks(w, locks, locks1) == \A q \in Quotas : locks[q] = w => locks1[q] = w

\* What comes after the first n writes does so after as many of a longer sequence.
LEMMA FollowsOn ==
  ASSUME NEW u, NEW u1, NEW n, NEW x, Follows(u, n, x), \A k \in 1 .. n : u1[k] = u[k]
  PROVE  Follows(u1, n, x)
<1>1. CASE x.row = Own
  <2>1. PICK j \in 1 .. n : Latest(u, n, x.quota, j) /\ (x.do = "verify" <=> u[j].value = x.value)
    BY <1>1 DEF Follows
  <2>2. u1[j] = u[j]
    OBVIOUS
  <2>3. Latest(u1, n, x.quota, j)
    BY <2>1, <2>2, Zenon DEF Latest
  <2> QED
    BY <1>1, <2>1, <2>2, <2>3, Zenon DEF Follows
<1>2. CASE x.row # Own
  BY <1>2, Zenon DEF Follows
<1> QED
  BY <1>1, <1>2

\* A write, for the limit at hand.
LEMMA AnswerKeeps ==
  ASSUME NEW w, NEW b, NEW at, NEW stmt, NEW row, NEW u, NEW out, NEW table, NEW locks,
         NEW locks1, NEW x, NEW u1, TxIs(w, b, at, stmt, row, u, out, table, locks),
         at \in 1 .. Len(b), u1 = u \o <<x>>, KeepsLocks(w, locks, locks1),
         Answers(w, b, at, x, u, table, locks1)
  PROVE  TxIs(w, b, at + 1, NextStatement(b, at), 0, u1, out, table, locks1)
<1>0. /\ x \in WrittenType /\ x.quota = b[at].quota /\ x.value = b[at].value
      /\ x.row # Own => Fits(table, x)
      /\ Follows(u, Len(u), x)
      /\ x.do = "insert" => locks1[x.quota] = w
  BY Zenon DEF Answers
<1>1. BatchIs(b) /\ WroteIs(w, u, table, locks) /\ PastIs(b, at, u, out)
  BY DEF TxIs
<1>2. at \in 1 .. Len(b)
  OBVIOUS
<1>3. (at + 1) - 1 = at /\ \A i : i \in 1 .. at <=> i \in 1 .. (at - 1) \/ i = at
  BY <1>1, <1>2, LimitsBefore
<1>4. /\ StatementIs(b, at + 1, NextStatement(b, at), 0, table)
      /\ AimIs(b, at + 1, NextStatement(b, at), 0, u1)
  BY <1>1, <1>2, NextIsThere
<1> DEFINE n == Len(u)
<1>5. /\ u \in Seq(WrittenType)
      /\ \A k \in 1 .. n :
            /\ u[k].row # Own => Fits(table, u[k])
            /\ u[k].do = "insert" => locks[u[k].quota] = w
            /\ Follows(u, k - 1, u[k])
  BY <1>1 DEF WroteIs
<1>6. \A k \in 1 .. n : u[k].quota \in Quotas
  <2>1. \A k \in 1 .. n : u[k] \in WrittenType
    BY <1>5
  <2> QED
    BY <2>1 DEF WrittenType
<1>7. /\ u1 \in Seq(WrittenType) /\ n \in Nat /\ Len(u1) = n + 1
      /\ \A k \in 1 .. n : u1[k] = u[k]
      /\ u1[n + 1] = x
  BY <1>0, <1>5, OneWriteMore
<1>8. Follows(u, n, x)
  BY <1>0
<1> HIDE DEF n
<1>9. \A k : k \in 1 .. (n + 1) <=> k \in 1 .. n \/ k = n + 1
  BY <1>7
<1>10. WroteIs(w, u1, table, locks1)
  <2>1. ASSUME NEW k \in 1 .. (n + 1)
        PROVE  /\ u1[k].row # Own => Fits(table, u1[k])
               /\ u1[k].do = "insert" => locks1[u1[k].quota] = w
               /\ Follows(u1, k - 1, u1[k])
    <3>1. CASE k = n + 1
      <4>1. u1[k] = x /\ k - 1 = n
        BY <1>7, <3>1
      <4>2. Follows(u1, n, x)
        BY <1>7, <1>8, FollowsOn
      <4> QED
        BY <1>0, <4>1, <4>2, Zenon
    <3>2. CASE k \in 1 .. n
      <4>1. u1[k] = u[k]
        BY <1>7, <3>2
      <4>2. /\ u[k].row # Own => Fits(table, u[k])
            /\ u[k].do = "insert" => locks[u[k].quota] = w
            /\ Follows(u, k - 1, u[k])
        BY <1>5, <3>2
      <4>3. u[k].quota \in Quotas
        BY <1>6, <3>2
      <4>4. u[k].do = "insert" => locks1[u[k].quota] = w
        BY <4>2, <4>3 DEF KeepsLocks
      <4>5. \A l \in 1 .. (k - 1) : u1[l] = u[l]
        BY <1>7, <3>2
      <4>6. Follows(u1, k - 1, u[k])
        BY <4>2, <4>5, FollowsOn
      <4> QED
        BY <4>1, <4>2, <4>4, <4>6, Zenon
    <3> QED
      BY <1>9, <3>1, <3>2
  <2>2. 1 .. Len(u1) = 1 .. (n + 1)
    BY <1>7
  <2> QED
    BY <1>7, <2>1, <2>2, Zenon DEF WroteIs
<1>11. PastIs(b, at + 1, u1, out)
  <2>1. ASSUME NEW i \in 1 .. at
        PROVE  \/ i \in out
               \/ \E k \in 1 .. (n + 1) : u1[k].quota = b[i].quota /\ u1[k].value = b[i].value
    <3>1. CASE i = at
      BY <1>0, <1>7, <1>9, <3>1
    <3>2. CASE i \in 1 .. (at - 1)
      BY <1>1, <1>7, <1>9, <3>2 DEF PastIs, n
    <3> QED
      BY <1>3, <3>1, <3>2
  <2> QED
    BY <1>3, <1>7, <2>1 DEF PastIs
<1> QED
  BY <1>1, <1>4, <1>10, <1>11 DEF TxIs

\* A quota that is written is one.
LEMMA WrittenQuotas ==
  ASSUME NEW w, NEW u, NEW table, NEW locks, WroteIs(w, u, table, locks)
  PROVE  \A k \in 1 .. Len(u) : u[k] \in WrittenType /\ u[k].quota \in Quotas
<1>1. u \in Seq(WrittenType)
  BY DEF WroteIs
<1>2. \A k \in 1 .. Len(u) : u[k] \in WrittenType
  BY <1>1
<1> QED
  BY <1>2 DEF WrittenType

\* The next statement, for the limit at hand.
LEMMA GotoKeeps ==
  ASSUME NEW w, NEW b, NEW at, NEW stmt, NEW row, NEW u, NEW out, NEW table, NEW locks,
         NEW locks1, NEW stmt1, NEW row1, TxIs(w, b, at, stmt, row, u, out, table, locks),
         \A q \in Quotas : locks[q] = w => locks1[q] = w,
         StatementIs(b, at, stmt1, row1, table), AimIs(b, at, stmt1, row1, u)
  PROVE  TxIs(w, b, at, stmt1, row1, u, out, table, locks1)
<1>1. BatchIs(b) /\ WroteIs(w, u, table, locks) /\ PastIs(b, at, u, out)
  BY DEF TxIs
<1>2. \A k \in 1 .. Len(u) : u[k].quota \in Quotas
  BY <1>1, WrittenQuotas
<1>3. WroteIs(w, u, table, locks1)
  BY <1>1, <1>2 DEF WroteIs
<1> QED
  BY <1>1, <1>3 DEF TxIs

\* A writer's attempt stands where rows are added and it keeps its locks.
LEMMA OthersKeep ==
  ASSUME NEW w, NEW b, NEW at, NEW stmt, NEW row, NEW u, NEW out, NEW table, NEW locks,
         NEW later, NEW locks1, TxIs(w, b, at, stmt, row, u, out, table, locks),
         Goes(table, later), \A q \in Quotas : locks[q] = w => locks1[q] = w,
         \A k \in 1 .. Len(u) : u[k].row # Own => Fits(later, u[k])
  PROVE  TxIs(w, b, at, stmt, row, u, out, later, locks1)
<1>1. /\ BatchIs(b) /\ StatementIs(b, at, stmt, row, table) /\ AimIs(b, at, stmt, row, u)
      /\ WroteIs(w, u, table, locks) /\ PastIs(b, at, u, out)
  BY DEF TxIs
<1>2. \A k \in 1 .. Len(u) : u[k].quota \in Quotas
  BY <1>1, WrittenQuotas
<1>3. WroteIs(w, u, later, locks1)
  BY <1>1, <1>2 DEF WroteIs
<1>4. StatementIs(b, at, stmt, row, later)
  BY <1>1 DEF StatementIs, IsOf, Goes
<1> QED
  BY <1>1, <1>3, <1>4 DEF TxIs

\* No step of a sibling disturbs a writer.
LEMMA SiblingStays ==
  ASSUME NEW v \in Writers, WriterIs(v), call'[v] = call[v], batch'[v] = batch[v],
         tx'[v] = tx[v], outraced'[v] = outraced[v], inserted'[v] = inserted[v],
         applied'[v] = applied[v], Goes(quotas, quotas'),
         \A q \in Quotas : held[q] = v => held'[q] = v,
         \A y \in WriteType : Fits(quotas, y) /\ (y.do = "insert" => held[y.quota] = v)
                              => Fits(quotas', y)
  PROVE  WriterIs(v)'
<1>1. AttemptIs(v, call[v].st, batch[v], tx[v], outraced[v], quotas', held')
  <2>1. AttemptIs(v, call[v].st, batch[v], tx[v], outraced[v], quotas, held)
    BY DEF WriterIs
  <2>2. CASE call[v].st \in {"trying", "pausing"}
    <3>1. /\ tx[v] = [at |-> tx[v].at, stmt |-> tx[v].stmt, row |-> tx[v].row, wrote |-> tx[v].wrote]
          /\ tx[v].stmt \in Statements
          /\ TxIs(v, batch[v], tx[v].at, tx[v].stmt, tx[v].row, tx[v].wrote, outraced[v], quotas, held)
      BY <2>1, <2>2, Zenon DEF AttemptIs
    <3>2. \A k \in 1 .. Len(tx[v].wrote) :
             tx[v].wrote[k].row # Own => Fits(quotas', tx[v].wrote[k])
      <4>1. WroteIs(v, tx[v].wrote, quotas, held)
        BY <3>1, Zenon DEF TxIs
      <4>2. PICK u : u = tx[v].wrote
        OBVIOUS
      <4>3. WroteIs(v, u, quotas, held)
        BY <4>1, <4>2
      <4>4. \A k \in 1 .. Len(u) : u[k] \in WrittenType
        BY <4>3, WrittenQuotas
      <4>5. \A k \in 1 .. Len(u) : u[k].row # Own => u[k] \in WriteType
        BY <4>4 DEF WrittenType, WriteType
      <4>6. \A k \in 1 .. Len(u) :
               /\ u[k].row # Own => Fits(quotas, u[k])
               /\ u[k].do = "insert" => held[u[k].quota] = v
        BY <4>3, Zenon DEF WroteIs
      <4>7. \A k \in 1 .. Len(u) : u[k].row # Own => Fits(quotas', u[k])
        BY <4>5, <4>6, Zenon
      <4> QED
        BY <4>2, <4>7, Zenon
    <3>3. TxIs(v, batch[v], tx[v].at, tx[v].stmt, tx[v].row, tx[v].wrote, outraced[v], quotas', held')
      BY <3>1, <3>2, OthersKeep, Zenon
    <3> QED
      BY <2>2, <3>1, <3>3, Zenon DEF AttemptIs
  <2>3. CASE ~(call[v].st \in {"trying", "pausing"})
    BY <2>1, <2>3, Zenon DEF AttemptIs
  <2> QED
    BY <2>2, <2>3
<1>2. WonIs(call[v].st, batch[v], outraced[v], quotas')
  <2>1. WonIs(call[v].st, batch[v], outraced[v], quotas)
    BY DEF WriterIs
  <2>2. \A l : OnRecord(quotas, l) => OnRecord(quotas', l)
    BY DEF Goes, OnRecord
  <2> QED
    BY <2>1, <2>2, Zenon DEF WonIs
<1>3. CountIs(call[v], inserted[v], applied[v])
  BY DEF WriterIs
<1> QED
  BY <1>1, <1>2, <1>3, Zenon DEF WriterIs

\* What the siblings of w do not notice.
Unnoticed(w) ==
    \A v \in Writers \ {w} :
        /\ call'[v] = call[v] /\ batch'[v] = batch[v] /\ tx'[v] = tx[v]
        /\ outraced'[v] = outraced[v] /\ inserted'[v] = inserted[v] /\ applied'[v] = applied[v]
        /\ \A q \in Quotas : held[q] = v => held'[q] = v

\* A step of w that adds no row.
LEMMA StepKeeps ==
  ASSUME QuotaInv, NEW w \in Writers, Unnoticed(w), quotas' = quotas, QuotaTyped', WriterIs(w)'
  PROVE  QuotaInv'
<1>1. TableIs(quotas) /\ \A v \in Writers : WriterIs(v)
  BY DEF QuotaInv
<1>2. Goes(quotas, quotas')
  BY DEF Goes
<1>3. ASSUME NEW v \in Writers PROVE WriterIs(v)'
  <2>1. CASE v # w
    <3>1. /\ call'[v] = call[v] /\ batch'[v] = batch[v] /\ tx'[v] = tx[v]
          /\ outraced'[v] = outraced[v] /\ inserted'[v] = inserted[v] /\ applied'[v] = applied[v]
          /\ \A q \in Quotas : held[q] = v => held'[q] = v
      BY <2>1, Zenon DEF Unnoticed
    <3> QED
      BY <1>1, <1>2, <3>1, SiblingStays, Zenon
  <2> QED
    BY <2>1
<1> QED
  BY <1>1, <1>3, Zenon DEF QuotaInv

\* What is known of a writer before a statement.
LEMMA BeforeStatement ==
  ASSUME QuotaInv, NEW w \in Writers, NEW stmt, NowAt(w, stmt)
  PROVE  /\ QuotaTyped /\ TableIs(quotas) /\ call[w].st = "trying" /\ WriterIs(w)
         /\ tx[w] = [at |-> tx[w].at, stmt |-> stmt, row |-> tx[w].row, wrote |-> tx[w].wrote]
         /\ TxIs(w, batch[w], tx[w].at, stmt, tx[w].row, tx[w].wrote, outraced[w], quotas, held)
         /\ StatementIs(batch[w], tx[w].at, stmt, tx[w].row, quotas) /\ BatchIs(batch[w])
         /\ AimIs(batch[w], tx[w].at, stmt, tx[w].row, tx[w].wrote)
         /\ WroteIs(w, tx[w].wrote, quotas, held)
         /\ tx[w].stmt # "commit" => /\ tx[w].at \in 1 .. Len(batch[w]) /\ This(w).quota \in Quotas
                                     /\ This(w).value \in Values
         /\ tx[w].row \in Nat \union {Own} /\ (tx[w].row # Own => tx[w].row \notin Quotas)
<1>1. QuotaTyped /\ TableIs(quotas) /\ WriterIs(w)
  BY DEF QuotaInv
<1>2. call[w].st = "trying" /\ tx[w].stmt = stmt
  BY DEF NowAt
<1>3. AttemptIs(w, call[w].st, batch[w], tx[w], outraced[w], quotas, held)
  BY <1>1, Zenon DEF WriterIs
<1>4. "trying" \in {"trying", "pausing"}
  OBVIOUS
<1>5. /\ tx[w] = [at |-> tx[w].at, stmt |-> stmt, row |-> tx[w].row, wrote |-> tx[w].wrote]
      /\ TxIs(w, batch[w], tx[w].at, stmt, tx[w].row, tx[w].wrote, outraced[w], quotas, held)
  BY <1>2, <1>3, <1>4, Zenon DEF AttemptIs
<1>6. /\ StatementIs(batch[w], tx[w].at, stmt, tx[w].row, quotas) /\ BatchIs(batch[w])
      /\ AimIs(batch[w], tx[w].at, stmt, tx[w].row, tx[w].wrote)
      /\ WroteIs(w, tx[w].wrote, quotas, held)
  BY <1>5, Zenon DEF TxIs
<1>7. tx[w].row \in Nat \union {Own}
  BY <1>6, Zenon DEF StatementIs
<1>8. tx[w].row # Own => tx[w].row \notin Quotas
  BY <1>7, QuotaAssumption
<1>9. ASSUME tx[w].stmt # "commit"
      PROVE  /\ tx[w].at \in 1 .. Len(batch[w]) /\ This(w).quota \in Quotas
             /\ This(w).value \in Values
  <2>1. PICK b, a : b = batch[w] /\ a = tx[w].at
    OBVIOUS
  <2>2. StatementIs(b, a, stmt, tx[w].row, quotas) /\ BatchIs(b)
    BY <1>6, <2>1
  <2>3. a \in 1 .. (Len(b) + 1) /\ a # Len(b) + 1
    BY <1>2, <1>9, <2>2, Zenon DEF StatementIs
  <2>4. b \in Seq(LimitType) /\ Len(b) \in Nat
    BY <2>2 DEF BatchIs
  <2>5. a \in 1 .. Len(b)
    BY <2>3, <2>4
  <2>6. b[a] \in LimitType
    BY <2>4, <2>5
  <2>7. b[a].quota \in Quotas /\ b[a].value \in Values
    BY <2>6 DEF LimitType
  <2> QED
    BY <2>1, <2>5, <2>7 DEF This
<1> QED
  BY <1>1, <1>2, <1>5, <1>6, <1>7, <1>8, <1>9

\* A lock that is free, or one's own, is taken from nobody.
LEMMA LockTakes ==
  ASSUME held \in [Items -> Writers \union {Free}], NEW w \in Writers, NEW item, Lock(w, item),
         item \notin Quotas \/ held[item] \in {Free, w}
  PROVE  /\ held' \in [Items -> Writers \union {Free}]
         /\ \A q \in Quotas : held[q] = w => held'[q] = w
         /\ \A v \in Writers \ {w} : \A q \in Quotas : held[q] = v => held'[q] = v
         /\ item \in Quotas => held'[item] = w
<1>1. Free \notin Writers
  BY QuotaAssumption
<1>2. Quotas \subseteq Items
  BY DEF Items
<1> QED
  BY <1>1, <1>2 DEF Lock

\* A step leaves writer w's attempt before the statement stmt for its limit no. at.
Makes(w, at, stmt, row, u) ==
    /\ DOMAIN tx' = Writers /\ \A v \in Writers \ {w} : tx'[v] = tx[v]
    /\ tx'[w] = [at |-> at, stmt |-> stmt, row |-> row, wrote |-> u]

LEMMA GotoMakes ==
  ASSUME QuotaInv, NEW w \in Writers, NEW stmt, NowAt(w, stmt), NEW stmt1, NEW row1,
         Goto(w, stmt1, row1)
  PROVE  Makes(w, tx[w].at, stmt1, row1, tx[w].wrote)
<1>1. DOMAIN tx = Writers
  BY DEF QuotaInv, QuotaTyped
<1>2. PICK a, r, u : a = tx[w].at /\ r = tx[w].row /\ u = tx[w].wrote
  OBVIOUS
<1>3. tx[w] = [at |-> a, stmt |-> stmt, row |-> r, wrote |-> u]
  BY <1>2, BeforeStatement
<1>4. /\ DOMAIN tx' = Writers /\ \A v \in Writers \ {w} : tx'[v] = tx[v]
      /\ tx'[w] = [at |-> a, stmt |-> stmt1, row |-> row1, wrote |-> u]
  <2>1. PICK t : t = [tx[w] EXCEPT !.stmt = stmt1]
    OBVIOUS
  <2>2. PICK m : m = [tx EXCEPT ![w] = t]
    OBVIOUS
  <2>3. tx' = [m EXCEPT ![w] = [m[w] EXCEPT !.row = row1]]
    BY <2>1, <2>2, Zenon DEF Goto
  <2>4. t = [at |-> a, stmt |-> stmt1, row |-> r, wrote |-> u]
    BY <1>3, <2>1
  <2>5. DOMAIN m = Writers /\ m[w] = t /\ \A v \in Writers \ {w} : m[v] = tx[v]
    BY <1>1, <2>2
  <2>6. DOMAIN tx' = Writers /\ tx'[w] = [t EXCEPT !.row = row1]
        /\ \A v \in Writers \ {w} : tx'[v] = tx[v]
    BY <2>3, <2>5
  <2> QED
    BY <2>4, <2>6
<1> QED
  BY <1>2, <1>4, Zenon DEF Makes

LEMMA AdvanceMakes ==
  ASSUME QuotaInv, NEW w \in Writers, NEW ws, Advance(w, ws)
  PROVE  Makes(w, tx[w].at + 1, NextStatement(batch[w], tx[w].at), 0, tx[w].wrote \o ws)
<1>1. DOMAIN tx = Writers
  BY DEF QuotaInv, QuotaTyped
<1> QED
  BY <1>1 DEF Advance, Makes, NextStatement

\* A statement of an attempt, by what it makes of the attempt.
LEMMA StatementKeeps ==
  ASSUME QuotaInv, NEW w \in Writers, NEW stmt, NowAt(w, stmt), Step,
         held' \in [Items -> Writers \union {Free}],
         \A v \in Writers \ {w} : \A q \in Quotas : held[q] = v => held'[q] = v,
         NEW at, NEW stmt1 \in Statements, NEW row, NEW u, Makes(w, at, stmt1, row, u),
         DOMAIN outraced' = Writers, \A v \in Writers \ {w} : outraced'[v] = outraced[v],
         TxIs(w, batch[w], at, stmt1, row, u, outraced'[w], quotas, held')
  PROVE  QuotaInv'
<1>1. QuotaTyped /\ call[w].st = "trying" /\ WriterIs(w)
  BY BeforeStatement
<1>2. /\ call' = call /\ db' = db /\ streak' = streak /\ limits' = limits /\ moves' = moves
      /\ calls' = calls /\ quotas' = quotas /\ batch' = batch /\ inserted' = inserted
      /\ applied' = applied
  BY DEF Step, retryVars
<1>3. /\ DOMAIN tx' = Writers /\ \A v \in Writers \ {w} : tx'[v] = tx[v]
      /\ tx'[w] = [at |-> at, stmt |-> stmt1, row |-> row, wrote |-> u]
  BY Zenon DEF Makes
<1>4. RetryTypeOK'
  <2>1. RetryTypeOK
    BY <1>1 DEF QuotaTyped
  <2> QED
    BY <1>2, <2>1 DEF RetryTypeOK
<1>5. QuotaTyped'
  BY <1>1, <1>2, <1>3, <1>4 DEF QuotaTyped
<1>6. Unnoticed(w)
  BY <1>2, <1>3, Zenon DEF Unnoticed
<1>7. WriterIs(w)'
  <2>1. /\ WonIs(call[w].st, batch[w], outraced[w], quotas)
        /\ CountIs(call[w], inserted[w], applied[w])
    BY <1>1, Zenon DEF WriterIs
  <2>2. PICK out : out = outraced'[w]
    OBVIOUS
  <2>3. WonIs("trying", batch[w], out, quotas)
    BY DEF WonIs
  <2>4. PICK t : t = tx'[w]
    OBVIOUS
  <2>5. /\ t.at = at /\ t.stmt = stmt1 /\ t.row = row /\ t.wrote = u
        /\ t = [at |-> t.at, stmt |-> t.stmt, row |-> t.row, wrote |-> t.wrote]
    BY <1>3, <2>4
  <2>6. AttemptIs(w, "trying", batch[w], t, out, quotas, held')
    BY <2>2, <2>5 DEF AttemptIs
  <2>7. AttemptIs(w, call'[w].st, batch'[w], tx'[w], outraced'[w], quotas', held')
    BY <1>1, <1>2, <2>2, <2>4, <2>6
  <2>8. WonIs(call'[w].st, batch'[w], outraced'[w], quotas')
    BY <1>1, <1>2, <2>2, <2>3
  <2>9. CountIs(call'[w], inserted'[w], applied'[w])
    BY <1>2, <2>1
  <2> QED
    BY <2>7, <2>8, <2>9, Zenon DEF WriterIs
<1> QED
  BY <1>2, <1>5, <1>6, <1>7, StepKeeps, Zenon

LEMMA LookupKeeps ==
  ASSUME QuotaInv, NEW w \in Writers, Lookup(w)
  PROVE  QuotaInv'
<1>1. NowAt(w, "lookup") /\ Step /\ held' = held /\ outraced' = outraced
  BY DEF Lookup
<1>2. /\ QuotaTyped /\ BatchIs(batch[w])
      /\ TxIs(w, batch[w], tx[w].at, "lookup", tx[w].row, tx[w].wrote, outraced[w], quotas, held)
      /\ tx[w].at \in 1 .. Len(batch[w])
  <2>1. tx[w].stmt # "commit"
    BY <1>1 DEF NowAt
  <2> QED
    BY <1>1, <2>1, BeforeStatement, Zenon
<1>3. held \in [Items -> Writers \union {Free}] /\ DOMAIN outraced = Writers
  BY <1>2 DEF QuotaTyped
<1>4. quotas \in Seq(RowType)
  BY DEF QuotaInv, TableIs
<1>5. WroteIs(w, tx[w].wrote, quotas, held) /\ tx[w].wrote \in Seq(WrittenType)
  BY <1>1, BeforeStatement DEF WroteIs
<1> DEFINE l == batch[w][tx[w].at]
           u == tx[w].wrote
           mine == Mine(w, This(w).quota)
<1>6. /\ mine = {k \in 1 .. Len(u) : InsertOf(u[k], l.quota)} /\ Len(u) \in Nat
      /\ This(w) = l
  BY <1>5 DEF Mine, InsertOf, This
<1>7. tx[w].at # Len(batch[w]) + 1 /\ tx[w].at \in 1 .. (Len(batch[w]) + 1)
  BY <1>2, LimitsBefore DEF BatchIs
<1>8. ASSUME mine = {}, Live(This(w).quota) = {}, Goto(w, "first", 0)
      PROVE  QuotaInv'
  <2>1. Makes(w, tx[w].at, "first", 0, u)
    BY <1>1, <1>8, GotoMakes
  <2>2. TxIs(w, batch[w], tx[w].at, "first", 0, u, outraced[w], quotas, held)
    <3>1. StatementIs(batch[w], tx[w].at, "first", 0, quotas)
      BY <1>7 DEF StatementIs
    <3>2. AimIs(batch[w], tx[w].at, "first", 0, u)
      BY <1>6, <1>8 DEF AimIs, Aim, Follows, Own
    <3> QED
      BY <1>2, <3>1, <3>2, GotoKeeps
  <2>3. "first" \in Statements
    BY DEF Statements
  <2> QED
    BY <1>1, <1>3, <2>1, <2>2, <2>3, StatementKeeps
<1>9. ASSUME NEW e, NEW v, Finds(w, e, v), e \in Nat \union {Own},
             e # Own => IsOf(quotas, e, l) /\ quotas[e].value = v /\ mine = {},
             e = Own => \E k \in 1 .. Len(u) : Latest(u, Len(u), l.quota, k) /\ u[k].value = v
      PROVE  QuotaInv'
  <2> DEFINE stmt == IF v = l.value THEN "verify" ELSE "supersede"
  <2>1. Goto(w, stmt, e)
    BY <1>6, <1>9 DEF Finds
  <2>2. /\ stmt = "verify" <=> v = l.value
        /\ stmt \in {"supersede", "insert"} <=> v # l.value
        /\ stmt # "commit" /\ stmt # "first" /\ stmt \in Statements
    BY DEF Statements
  <2> HIDE DEF stmt, mine
  <2>3. Makes(w, tx[w].at, stmt, e, u)
    BY <1>1, <2>1, GotoMakes
  <2>4. StatementIs(batch[w], tx[w].at, stmt, e, quotas)
    BY <1>7, <1>9, <2>2 DEF StatementIs
  <2>5. Follows(u, Len(u), Aim(batch[w], tx[w].at, stmt, e))
    <3> DEFINE x == Aim(batch[w], tx[w].at, stmt, e)
    <3>1. /\ x.row = e /\ x.quota = l.quota /\ x.value = l.value
          /\ x.do = "verify" <=> v = l.value
      BY <2>2 DEF Aim
    <3> HIDE DEF x, u, l
    <3>2. ASSUME e = Own PROVE Follows(u, Len(u), x)
      BY <1>9, <3>1, <3>2 DEF Follows
    <3>3. ASSUME e # Own PROVE Follows(u, Len(u), x)
      BY <1>6, <1>9, <3>1, <3>3 DEF Follows
    <3>4. Follows(u, Len(u), x)
      BY <3>2, <3>3
    <3> QED
      BY <3>4 DEF x, u
  <2>6. TxIs(w, batch[w], tx[w].at, stmt, e, u, outraced[w], quotas, held)
    <3>1. AimIs(batch[w], tx[w].at, stmt, e, u)
      BY <2>5 DEF AimIs
    <3> QED
      BY <1>2, <2>4, <3>1, GotoKeeps
  <2> QED
    BY <1>1, <1>3, <2>2, <2>3, <2>6, StatementKeeps
<1>10. ASSUME mine = {}, NEW e \in Live(This(w).quota), Finds(w, e, quotas[e].value)
       PROVE  QuotaInv'
  <2>1. IsOf(quotas, e, l) /\ e \in Nat /\ e # Own
    BY <1>4, <1>6, <1>10 DEF Live, Rows, IsOf, Own
  <2> QED
    BY <1>9, <1>10, <2>1
<1>11. ASSUME NEW k \in mine, \A j \in mine : j <= k, Finds(w, Own, u[k].value)
       PROVE  QuotaInv'
  <2>1. k \in 1 .. Len(u) /\ Latest(u, Len(u), l.quota, k)
    BY <1>6, <1>11 DEF Latest
  <2> QED
    BY <1>9, <1>11, <2>1
<1> QED
  BY <1>8, <1>10, <1>11 DEF Lookup

\* No one else has locked what a statement waits for no more.
LEMMA NoWait ==
  ASSUME NEW w \in Writers, NEW stmt \in {"first", "verify", "supersede", "insert"},
         NowAt(w, stmt), Waits(w) = {}
  PROVE  /\ held[Item(w)] \in {Free, w}
         /\ stmt \in {"first", "insert"} \/ tx[w].row = Own => Item(w) = This(w).quota
         /\ stmt \in {"verify", "supersede"} /\ tx[w].row # Own => Item(w) = tx[w].row
BY DEF NowAt, Waits, Item

\* A write is one of a limit of the batch.
LEMMA WriteIs ==
  ASSUME NEW w \in Writers, This(w).quota \in Quotas, This(w).value \in Values,
         NEW do \in {"verify", "insert"}, NEW row \in Nat \union {Own}
  PROVE  /\ WriteOf(w, do, row) \in WrittenType /\ WriteOf(w, do, row).do = do
         /\ WriteOf(w, do, row).row = row
         /\ WriteOf(w, do, row).quota = batch[w][tx[w].at].quota
         /\ WriteOf(w, do, row).value = batch[w][tx[w].at].value
<1>1. PICK q \in Quotas, v \in Values : q = This(w).quota /\ v = This(w).value
  OBVIOUS
<1>2. WriteOf(w, do, row) = [do |-> do, row |-> row, quota |-> q, value |-> v]
  BY <1>1 DEF WriteOf
<1>3. WriteOf(w, do, row) \in WrittenType
  BY <1>2 DEF WrittenType
<1>4. q = batch[w][tx[w].at].quota /\ v = batch[w][tx[w].at].value
  BY <1>1 DEF This
<1> QED
  BY <1>2, <1>3, <1>4

\* The write the attempt is about to make is the one its statement is there for.
LEMMA AimFollows ==
  ASSUME NEW w, NEW stmt \in {"first", "verify", "supersede", "insert"}, NEW row,
         NEW do, do = IF stmt = "verify" THEN "verify" ELSE "insert",
         AimIs(batch[w], tx[w].at, stmt, row, tx[w].wrote)
  PROVE  Follows(tx[w].wrote, Len(tx[w].wrote), WriteOf(w, do, row))
<1>1. WriteOf(w, do, row) = Aim(batch[w], tx[w].at, stmt, row)
  BY Zenon DEF WriteOf, Aim, This
<1> QED
  BY <1>1, Zenon DEF AimIs

LEMMA VerifyKeeps ==
  ASSUME QuotaInv, NEW w \in Writers, Verify(w)
  PROVE  QuotaInv'
<1>1. /\ NowAt(w, "verify") /\ Step /\ outraced' = outraced /\ Lock(w, Item(w))
      /\ Advance(w, <<WriteOf(w, "verify", tx[w].row)>>) /\ Waits(w) = {}
  BY DEF Verify
<1>2. /\ QuotaTyped /\ tx[w].row \in Nat \union {Own}
      /\ TxIs(w, batch[w], tx[w].at, "verify", tx[w].row, tx[w].wrote, outraced[w], quotas, held)
      /\ StatementIs(batch[w], tx[w].at, "verify", tx[w].row, quotas)
      /\ AimIs(batch[w], tx[w].at, "verify", tx[w].row, tx[w].wrote)
      /\ This(w).quota \in Quotas /\ This(w).value \in Values
      /\ tx[w].at \in 1 .. Len(batch[w])
  <2>1. tx[w].stmt # "commit"
    BY <1>1 DEF NowAt
  <2> QED
    BY <1>1, <2>1, BeforeStatement, Zenon
<1>3. held \in [Items -> Writers \union {Free}] /\ DOMAIN outraced = Writers
  BY <1>2 DEF QuotaTyped
<1>4. /\ held' \in [Items -> Writers \union {Free}]
      /\ \A q \in Quotas : held[q] = w => held'[q] = w
      /\ \A v \in Writers \ {w} : \A q \in Quotas : held[q] = v => held'[q] = v
  <2>1. held[Item(w)] \in {Free, w}
    BY <1>1, NoWait
  <2> QED
    BY <1>1, <1>3, <2>1, LockTakes
<1> DEFINE x == WriteOf(w, "verify", tx[w].row)
           stmt == NextStatement(batch[w], tx[w].at)
<1>5. /\ x \in WrittenType /\ x.do = "verify" /\ x.row = tx[w].row
      /\ x.quota = batch[w][tx[w].at].quota /\ x.value = batch[w][tx[w].at].value
  <2>1. PICK r \in Nat \union {Own} : r = tx[w].row
    BY <1>2
  <2>2. PICK do \in {"verify", "insert"} : do = "verify"
    OBVIOUS
  <2>3. /\ WriteOf(w, do, r) \in WrittenType /\ WriteOf(w, do, r).do = do
        /\ WriteOf(w, do, r).row = r
        /\ WriteOf(w, do, r).quota = batch[w][tx[w].at].quota
        /\ WriteOf(w, do, r).value = batch[w][tx[w].at].value
    BY <1>2, WriteIs
  <2> QED
    BY <2>1, <2>2, <2>3, Zenon
<1>6. Follows(tx[w].wrote, Len(tx[w].wrote), x)
  BY <1>2, AimFollows
<1> HIDE DEF x
<1>7. x.row # Own => Fits(quotas, x)
  <2>1. x.row # Own => /\ IsOf(quotas, tx[w].row, batch[w][tx[w].at])
                       /\ quotas[tx[w].row].value = batch[w][tx[w].at].value
    BY <1>2, <1>5 DEF StatementIs
  <2> QED
    BY <1>5, <2>1 DEF Fits, IsOf
<1>8. TxIs(w, batch[w], tx[w].at + 1, stmt, 0, tx[w].wrote \o <<x>>, outraced[w], quotas, held')
  <2>1. x.do # "insert"
    BY <1>5
  <2>2. Answers(w, batch[w], tx[w].at, x, tx[w].wrote, quotas, held')
    BY <1>5, <1>6, <1>7, <2>1, Zenon DEF Answers
  <2>3. KeepsLocks(w, held, held')
    BY <1>4 DEF KeepsLocks
  <2> QED
    BY <1>2, <2>2, <2>3, AnswerKeeps, Zenon
<1>9. Makes(w, tx[w].at + 1, stmt, 0, tx[w].wrote \o <<x>>)
  BY <1>1, AdvanceMakes DEF x
<1>10. stmt \in Statements
  BY DEF Statements, NextStatement
<1> HIDE DEF stmt
<1> QED
  BY <1>1, <1>3, <1>4, <1>8, <1>9, <1>10, StatementKeeps

LEMMA InsertFirstKeeps ==
  ASSUME QuotaInv, NEW w \in Writers, InsertFirst(w)
  PROVE  QuotaInv'
<1>1. NowAt(w, "first") /\ Step /\ Waits(w) = {}
  BY DEF InsertFirst
<1>2. /\ QuotaTyped /\ TableIs(quotas)
      /\ TxIs(w, batch[w], tx[w].at, "first", tx[w].row, tx[w].wrote, outraced[w], quotas, held)
      /\ StatementIs(batch[w], tx[w].at, "first", tx[w].row, quotas)
      /\ AimIs(batch[w], tx[w].at, "first", tx[w].row, tx[w].wrote)
      /\ This(w).quota \in Quotas /\ This(w).value \in Values
      /\ tx[w].at \in 1 .. Len(batch[w])
  <2>1. tx[w].stmt # "commit"
    BY <1>1 DEF NowAt
  <2> QED
    BY <1>1, <2>1, BeforeStatement, Zenon
<1>3. held \in [Items -> Writers \union {Free}] /\ DOMAIN outraced = Writers
  BY <1>2 DEF QuotaTyped
<1> DEFINE stmt == NextStatement(batch[w], tx[w].at)
<1>4. stmt \in Statements
  BY DEF Statements, NextStatement
<1>5. CASE Live(This(w).quota) = {}
  <2>1. /\ Lock(w, This(w).quota) /\ Advance(w, <<WriteOf(w, "insert", 0)>>)
        /\ outraced' = outraced
    BY <1>5 DEF InsertFirst
  <2>2. held[This(w).quota] \in {Free, w}
    BY <1>1, NoWait, Zenon
  <2>3. /\ held' \in [Items -> Writers \union {Free}]
        /\ \A q \in Quotas : held[q] = w => held'[q] = w
        /\ \A v \in Writers \ {w} : \A q \in Quotas : held[q] = v => held'[q] = v
        /\ held'[This(w).quota] = w
    BY <1>2, <1>3, <2>1, <2>2, LockTakes
  <2> DEFINE x == WriteOf(w, "insert", 0)
  <2>4. /\ x \in WrittenType /\ x.do = "insert" /\ x.row = 0 /\ x.quota = This(w).quota
        /\ x.quota = batch[w][tx[w].at].quota /\ x.value = batch[w][tx[w].at].value
    BY <1>2, WriteIs DEF This
  <2>8. Follows(tx[w].wrote, Len(tx[w].wrote), x)
    <3>1. tx[w].row = 0
      BY <1>2 DEF StatementIs
    <3> QED
      BY <1>2, <3>1, AimFollows
  <2> HIDE DEF x
  <2>5. Fits(quotas, x)
    <3>1. quotas \in Seq(RowType) /\ LiveIs(quotas)
      BY <1>2, Zenon DEF TableIs
    <3>2. \A i \in 1 .. Len(quotas) :
             ~(quotas[i].quota = This(w).quota /\ quotas[i].supersededBy = 0)
      BY <1>5, <3>1 DEF Live, Rows
    <3>3. \A i \in 1 .. Len(quotas) : quotas[i].quota # x.quota
      BY <2>4, <3>1, <3>2 DEF LiveIs
    <3> QED
      BY <2>4, <3>3 DEF Fits
  <2>6. TxIs(w, batch[w], tx[w].at + 1, stmt, 0, tx[w].wrote \o <<x>>, outraced[w], quotas, held')
    <3>1. Answers(w, batch[w], tx[w].at, x, tx[w].wrote, quotas, held')
      BY <2>3, <2>4, <2>5, <2>8 DEF Answers
    <3>2. KeepsLocks(w, held, held')
      BY <2>3 DEF KeepsLocks
    <3> QED
      BY <1>2, <3>1, <3>2, AnswerKeeps, Zenon
  <2>7. Makes(w, tx[w].at + 1, stmt, 0, tx[w].wrote \o <<x>>)
    BY <2>1, AdvanceMakes DEF x
  <2> HIDE DEF stmt
  <2> QED
    BY <1>1, <1>3, <1>4, <2>1, <2>3, <2>6, <2>7, StatementKeeps
<1>6. CASE Live(This(w).quota) # {}
  <2>1. /\ Advance(w, <<>>) /\ held' = held
        /\ outraced' = [outraced EXCEPT ![w] = @ \union {tx[w].at}]
    BY <1>6 DEF InsertFirst
  <2>2. /\ DOMAIN outraced' = Writers /\ \A v \in Writers \ {w} : outraced'[v] = outraced[v]
        /\ outraced[w] \subseteq outraced'[w] /\ tx[w].at \in outraced'[w]
    BY <1>3, <2>1
  <2>3. TxIs(w, batch[w], tx[w].at + 1, stmt, 0, tx[w].wrote \o <<>>, outraced'[w], quotas, held)
    <3>1. PICK out1 : out1 = outraced'[w]
      OBVIOUS
    <3>2. outraced[w] \subseteq out1 /\ tx[w].at \in out1
      BY <2>2, <3>1
    <3>3. TxIs(w, batch[w], tx[w].at + 1, stmt, 0, tx[w].wrote \o <<>>, out1, quotas, held)
      BY <1>2, <3>2, PassKeeps
    <3> QED
      BY <3>1, <3>3
  <2>4. Makes(w, tx[w].at + 1, stmt, 0, tx[w].wrote \o <<>>)
    BY <2>1, AdvanceMakes
  <2> HIDE DEF stmt
  <2> QED
    BY <1>1, <1>3, <1>4, <2>1, <2>2, <2>3, <2>4, StatementKeeps
<1> QED
  BY <1>5, <1>6

LEMMA SupersedeKeeps ==
  ASSUME QuotaInv, NEW w \in Writers, Supersede(w)
  PROVE  QuotaInv'
<1>1. /\ NowAt(w, "supersede") /\ Step /\ outraced' = outraced /\ Lock(w, Item(w))
      /\ Goto(w, "insert", tx[w].row) /\ Waits(w) = {}
  BY DEF Supersede
<1>2. /\ QuotaTyped
      /\ TxIs(w, batch[w], tx[w].at, "supersede", tx[w].row, tx[w].wrote, outraced[w], quotas, held)
      /\ StatementIs(batch[w], tx[w].at, "supersede", tx[w].row, quotas)
      /\ AimIs(batch[w], tx[w].at, "supersede", tx[w].row, tx[w].wrote)
  BY <1>1, BeforeStatement
<1>3. held \in [Items -> Writers \union {Free}] /\ DOMAIN outraced = Writers
  BY <1>2 DEF QuotaTyped
<1>4. /\ held' \in [Items -> Writers \union {Free}]
      /\ \A q \in Quotas : held[q] = w => held'[q] = w
      /\ \A v \in Writers \ {w} : \A q \in Quotas : held[q] = v => held'[q] = v
  <2>1. held[Item(w)] \in {Free, w}
    BY <1>1, NoWait
  <2> QED
    BY <1>1, <1>3, <2>1, LockTakes
<1>5. StatementIs(batch[w], tx[w].at, "insert", tx[w].row, quotas)
  BY <1>2 DEF StatementIs
<1>6. AimIs(batch[w], tx[w].at, "insert", tx[w].row, tx[w].wrote)
  <2>1. Aim(batch[w], tx[w].at, "insert", tx[w].row)
           = Aim(batch[w], tx[w].at, "supersede", tx[w].row)
    BY DEF Aim
  <2> QED
    BY <1>2, <2>1, Zenon DEF AimIs
<1>7. TxIs(w, batch[w], tx[w].at, "insert", tx[w].row, tx[w].wrote, outraced[w], quotas, held')
  BY <1>2, <1>4, <1>5, <1>6, GotoKeeps
<1>8. Makes(w, tx[w].at, "insert", tx[w].row, tx[w].wrote)
  BY <1>1, GotoMakes
<1>9. "insert" \in Statements
  BY DEF Statements
<1> QED
  BY <1>1, <1>3, <1>4, <1>7, <1>8, <1>9, StatementKeeps

LEMMA InsertNextKeeps ==
  ASSUME QuotaInv, NEW w \in Writers, InsertNext(w)
  PROVE  QuotaInv'
<1>1. /\ NowAt(w, "insert") /\ Step /\ outraced' = outraced /\ Lock(w, This(w).quota)
      /\ Advance(w, <<WriteOf(w, "insert", tx[w].row)>>) /\ Waits(w) = {}
      /\ tx[w].row = Own \/ Live(This(w).quota) \subseteq {tx[w].row}
  BY DEF InsertNext, KeyIsFree
<1>2. /\ QuotaTyped /\ TableIs(quotas) /\ tx[w].row \in Nat \union {Own}
      /\ AimIs(batch[w], tx[w].at, "insert", tx[w].row, tx[w].wrote)
      /\ TxIs(w, batch[w], tx[w].at, "insert", tx[w].row, tx[w].wrote, outraced[w], quotas, held)
      /\ StatementIs(batch[w], tx[w].at, "insert", tx[w].row, quotas)
      /\ This(w).quota \in Quotas /\ This(w).value \in Values
      /\ tx[w].at \in 1 .. Len(batch[w])
  <2>1. tx[w].stmt # "commit"
    BY <1>1 DEF NowAt
  <2> QED
    BY <1>1, <2>1, BeforeStatement, Zenon
<1>3. held \in [Items -> Writers \union {Free}] /\ DOMAIN outraced = Writers
  BY <1>2 DEF QuotaTyped
<1>4. held[This(w).quota] \in {Free, w}
  BY <1>1, NoWait, Zenon
<1>5. /\ held' \in [Items -> Writers \union {Free}]
      /\ \A q \in Quotas : held[q] = w => held'[q] = w
      /\ \A v \in Writers \ {w} : \A q \in Quotas : held[q] = v => held'[q] = v
      /\ held'[This(w).quota] = w
  BY <1>1, <1>2, <1>3, <1>4, LockTakes
<1> DEFINE x == WriteOf(w, "insert", tx[w].row)
           stmt == NextStatement(batch[w], tx[w].at)
<1>6. /\ x \in WrittenType /\ x.do = "insert" /\ x.row = tx[w].row /\ x.quota = This(w).quota
      /\ x.quota = batch[w][tx[w].at].quota /\ x.value = batch[w][tx[w].at].value
  BY <1>2, WriteIs DEF This
<1>11. Follows(tx[w].wrote, Len(tx[w].wrote), x)
  BY <1>2, AimFollows
<1> HIDE DEF x
<1>7. x.row # Own => Fits(quotas, x)
  <2> SUFFICES ASSUME x.row # Own PROVE Fits(quotas, x)
    OBVIOUS
  <2>1. /\ IsOf(quotas, tx[w].row, batch[w][tx[w].at])
        /\ quotas[tx[w].row].value # batch[w][tx[w].at].value
    BY <1>2, <1>6 DEF StatementIs
  <2>2. IsOf(quotas, x.row, x) /\ quotas[x.row].value # x.value
    BY <1>6, <2>1 DEF IsOf
  <2>3. quotas \in Seq(RowType) /\ LiveIs(quotas)
    BY <1>2, Zenon DEF TableIs
  <2>4. \A i \in 1 .. Len(quotas) :
           quotas[i].quota = x.quota /\ quotas[i].supersededBy = 0 => i = x.row
    BY <1>1, <1>6, <2>3 DEF Live, Rows
  <2>5. quotas[x.row].supersededBy = 0
    BY <2>2, <2>3, <2>4 DEF LiveIs, IsOf
  <2> QED
    BY <1>6, <2>2, <2>5 DEF Fits
<1>8. TxIs(w, batch[w], tx[w].at + 1, stmt, 0, tx[w].wrote \o <<x>>, outraced[w], quotas, held')
  <2>1. Answers(w, batch[w], tx[w].at, x, tx[w].wrote, quotas, held')
    BY <1>5, <1>6, <1>7, <1>11 DEF Answers
  <2>2. KeepsLocks(w, held, held')
    BY <1>5 DEF KeepsLocks
  <2> QED
    BY <1>2, <2>1, <2>2, AnswerKeeps, Zenon
<1>9. Makes(w, tx[w].at + 1, stmt, 0, tx[w].wrote \o <<x>>)
  BY <1>1, AdvanceMakes DEF x
<1>10. stmt \in Statements
  BY DEF Statements, NextStatement
<1> HIDE DEF stmt
<1> QED
  BY <1>1, <1>3, <1>5, <1>8, <1>9, <1>10, StatementKeeps

-----------------------------------------------------------------------------
(* Quotas: the end of an attempt, and the rest. *)

\* The rows a step of w adds fit what its siblings have written.
Spares(w) ==
    /\ TableIs(quotas') /\ Goes(quotas, quotas')
    /\ \A v \in Writers \ {w} : \A y \in WriteType :
          Fits(quotas, y) /\ (y.do = "insert" => held[y.quota] = v) => Fits(quotas', y)

\* An attempt that adds no row spares everybody.
LEMMA NothingSpares ==
  ASSUME QuotaInv, NEW w, quotas' = quotas
  PROVE  Spares(w)
<1>1. TableIs(quotas) /\ Goes(quotas, quotas)
  BY DEF QuotaInv, Goes
<1> QED
  BY <1>1, Zenon DEF Spares

\* An attempt is over: its siblings keep what they have, and the next starts afresh.
LEMMA EndKeeps ==
  ASSUME QuotaInv, NEW w \in Writers, call[w].st = "trying", Close(w), Spares(w),
         RetryTypeOK', \A v \in Writers \ {w} : call'[v] = call[v],
         call'[w].st \in {"pausing", "failed", "won"},
         DOMAIN inserted' = Writers, DOMAIN applied' = Writers,
         \A v \in Writers \ {w} : inserted'[v] = inserted[v] /\ applied'[v] = applied[v],
         call'[w].st = "won" => WonIs("won", batch[w], outraced[w], quotas'),
         CountIs(call'[w], inserted'[w], applied'[w])
  PROVE  QuotaInv'
<1>1. QuotaTyped /\ TableIs(quotas) /\ \A v \in Writers : WriterIs(v)
  BY DEF QuotaInv
<1>2. /\ DOMAIN tx = Writers /\ DOMAIN outraced = Writers /\ DOMAIN batch = Writers
      /\ held \in [Items -> Writers \union {Free}]
  BY <1>1 DEF QuotaTyped
<1>3. /\ limits' = limits /\ moves' = moves /\ calls' = calls /\ batch' = batch
      /\ held' = [i \in Items |-> IF held[i] = w THEN Free ELSE held[i]]
      /\ tx' = [tx EXCEPT ![w] = IF call'[w].st = "pausing" THEN Begin ELSE NoTx]
      /\ outraced' = IF call'[w].st = "pausing" THEN [outraced EXCEPT ![w] = {}] ELSE outraced
  BY DEF Close
<1>4. /\ DOMAIN tx' = Writers /\ DOMAIN outraced' = Writers
      /\ tx'[w] = IF call'[w].st = "pausing" THEN Begin ELSE NoTx
      /\ \A v \in Writers \ {w} : tx'[v] = tx[v] /\ outraced'[v] = outraced[v]
      /\ call'[w].st # "pausing" => outraced'[w] = outraced[w]
  BY <1>2, <1>3
<1>5. held' \in [Items -> Writers \union {Free}]
  BY <1>2, <1>3
<1>6. \A v \in Writers \ {w} : \A q \in Quotas : held[q] = v => held'[q] = v
  <2>1. Quotas \subseteq Items
    BY DEF Items
  <2> QED
    BY <1>2, <1>3, <2>1
<1>7. QuotaTyped'
  BY <1>1, <1>3, <1>4, <1>5 DEF QuotaTyped
<1>8. /\ TableIs(quotas') /\ Goes(quotas, quotas')
      /\ \A v \in Writers \ {w} : \A y \in WriteType :
            Fits(quotas, y) /\ (y.do = "insert" => held[y.quota] = v) => Fits(quotas', y)
  BY Zenon DEF Spares
<1>9. ASSUME NEW v \in Writers, v # w PROVE WriterIs(v)'
  <2>1. v \in Writers \ {w}
    BY <1>9
  <2>2. /\ call'[v] = call[v] /\ batch'[v] = batch[v] /\ tx'[v] = tx[v]
        /\ outraced'[v] = outraced[v] /\ inserted'[v] = inserted[v] /\ applied'[v] = applied[v]
        /\ WriterIs(v)
    BY <1>1, <1>3, <1>4, <2>1
  <2>3. \A q \in Quotas : held[q] = v => held'[q] = v
    BY <1>6, <2>1
  <2>4. \A y \in WriteType :
           Fits(quotas, y) /\ (y.do = "insert" => held[y.quota] = v) => Fits(quotas', y)
    BY <1>8, <2>1
  <2> QED
    BY <1>8, <2>2, <2>3, <2>4, SiblingStays, Zenon
<1>10. WriterIs(w)'
  <2>1. PICK st : st = call'[w].st
    OBVIOUS
  <2>2. AttemptIs(w, st, batch[w], tx'[w], outraced'[w], quotas', held')
    <3>1. CASE st = "pausing"
      <4>1. AttemptIs(w, "trying", batch[w], tx[w], outraced[w], quotas, held)
        BY <1>1, Zenon DEF WriterIs
      <4>2. "trying" \in {"trying", "pausing"}
        OBVIOUS
      <4>3. BatchIs(batch[w])
        BY <4>1, <4>2, Zenon DEF AttemptIs, TxIs
      <4>4. StatementIs(batch[w], 1, "lookup", 0, quotas')
        BY <4>3 DEF BatchIs, StatementIs
      <4>5. WroteIs(w, <<>>, quotas', held') /\ AimIs(batch[w], 1, "lookup", 0, <<>>)
        BY DEF WroteIs, AimIs
      <4>6. PastIs(batch[w], 1, <<>>, outraced'[w])
        BY DEF PastIs
      <4>7. TxIs(w, batch[w], 1, "lookup", 0, <<>>, outraced'[w], quotas', held')
        BY <4>3, <4>4, <4>5, <4>6, Zenon DEF TxIs
      <4>8. PICK t : t = tx'[w]
        OBVIOUS
      <4>9. t = [at |-> 1, stmt |-> "lookup", row |-> 0, wrote |-> <<>>]
        BY <1>4, <2>1, <3>1, <4>8 DEF Begin
      <4>10. /\ t.at = 1 /\ t.stmt = "lookup" /\ t.row = 0 /\ t.wrote = <<>>
             /\ t = [at |-> t.at, stmt |-> t.stmt, row |-> t.row, wrote |-> t.wrote]
             /\ t.stmt \in Statements
        BY <4>9 DEF Statements
      <4>11. TxIs(w, batch[w], t.at, t.stmt, t.row, t.wrote, outraced'[w], quotas', held')
        BY <4>7, <4>10, Zenon
      <4>12. st \in {"trying", "pausing"}
        BY <3>1
      <4>13. AttemptIs(w, st, batch[w], t, outraced'[w], quotas', held')
        BY <4>10, <4>11, <4>12, Zenon DEF AttemptIs
      <4> QED
        BY <4>8, <4>13, Zenon
    <3>2. CASE st # "pausing"
      <4>1. tx'[w] = NoTx /\ ~(st \in {"trying", "pausing"})
        BY <1>4, <2>1, <3>2
      <4> QED
        BY <4>1, Zenon DEF AttemptIs
    <3> QED
      BY <3>1, <3>2
  <2>3. WonIs(st, batch[w], outraced'[w], quotas')
    <3>1. CASE st = "won"
      <4>1. outraced'[w] = outraced[w]
        BY <1>4, <2>1, <3>1
      <4> QED
        BY <2>1, <3>1, <4>1, Zenon
    <3>2. CASE st # "won"
      <4>1. st \notin {"won", "ok"}
        BY <2>1, <3>2
      <4> QED
        BY <4>1, Zenon DEF WonIs
    <3> QED
      BY <3>1, <3>2
  <2>4. batch'[w] = batch[w]
    BY <1>3
  <2> QED
    BY <2>1, <2>2, <2>3, <2>4, Zenon DEF WriterIs
<1> QED
  BY <1>7, <1>8, <1>9, <1>10, Zenon DEF QuotaInv

\* An attempt that does not commit.
LEMMA AbortKeeps ==
  ASSUME QuotaInv, NEW w \in Writers, AttemptFails(w) \/ AttemptRefused(w), Close(w),
         UNCHANGED <<quotas, applied, inserted>>
  PROVE  QuotaInv'
<1>1. QuotaTyped /\ WriterIs(w)
  BY DEF QuotaInv
<1>2. RetryTypeOK /\ DOMAIN inserted = Writers /\ DOMAIN applied = Writers
  BY <1>1 DEF QuotaTyped
<1>3. /\ RetryTypeOK' /\ \A v \in Writers \ {w} : call'[v] = call[v]
      /\ call[w].st = "trying" /\ call'[w].st \in {"pausing", "failed"}
      /\ call'[w].st = "pausing" => call'[w].failed
  BY <1>2, UpsertRetries
<1>4. Spares(w)
  BY NothingSpares
<1>5. CountIs(call'[w], inserted'[w], applied'[w])
  <2>1. CountIs(call[w], inserted[w], applied[w])
    BY <1>1, Zenon DEF WriterIs
  <2> QED
    BY <1>3, <2>1 DEF CountIs
<1>6. call'[w].st # "won" /\ call'[w].st \in {"pausing", "failed", "won"}
  BY <1>3
<1> QED
  BY <1>2, <1>3, <1>4, <1>5, <1>6, EndKeeps

\* What an attempt that commits has written becomes rows.
LEMMA ApplyIs ==
  ASSUME QuotaInv, NEW w \in Writers, NowAt(w, "commit"), Apply(w)
  PROVE  /\ Spares(w) /\ WonIs("won", batch[w], outraced[w], quotas')
         /\ Inserts(w) \in Nat /\ applied'[w] = applied[w] + Inserts(w)
         /\ DOMAIN applied' = Writers /\ \A v \in Writers \ {w} : applied'[v] = applied[v]
<1>1. /\ QuotaTyped /\ TableIs(quotas)
      /\ TxIs(w, batch[w], tx[w].at, "commit", tx[w].row, tx[w].wrote, outraced[w], quotas, held)
      /\ BatchIs(batch[w]) /\ StatementIs(batch[w], tx[w].at, "commit", tx[w].row, quotas)
  BY BeforeStatement
<1>2. PICK u : u = tx[w].wrote
  OBVIOUS
<1>3. WroteIs(w, u, quotas, held) /\ PastIs(batch[w], tx[w].at, u, outraced[w])
  BY <1>1, <1>2 DEF TxIs
<1>4. u \in Seq(WrittenType) /\ DOMAIN u = 1 .. Len(u) /\ Len(u) \in Nat
  BY <1>3 DEF WroteIs
<1>5. \A k \in DOMAIN u : u[k].row # Own => Fits(quotas, u[k])
  BY <1>3, <1>4, Zenon DEF WroteIs
<1>6. \A k \in DOMAIN u : Follows(u, k - 1, u[k])
  BY <1>3, <1>4, Zenon DEF WroteIs
<1>7. quotas' = Effects(quotas, u)
  BY <1>2 DEF Apply
<1>8. /\ TableIs(quotas') /\ Goes(quotas, quotas')
      /\ \A k \in DOMAIN u : OnRecord(quotas', u[k])
      /\ \A y \in WriteType :
           Fits(quotas, y) /\ (\A k \in DOMAIN u : Separate(u[k], y)) => Fits(quotas', y)
  BY <1>1, <1>4, <1>5, <1>6, <1>7, EffectsAre
<1>9. Spares(w)
  <2>1. ASSUME NEW v \in Writers \ {w}, NEW y \in WriteType, Fits(quotas, y),
               y.do = "insert" => held[y.quota] = v
        PROVE  Fits(quotas', y)
    <3>1. ASSUME NEW k \in DOMAIN u PROVE Separate(u[k], y)
      <4>1. u[k].do = "insert" => held[u[k].quota] = w
        BY <1>3, <1>4 DEF WroteIs
      <4> QED
        BY <2>1, <4>1 DEF Separate
    <3> QED
      BY <1>8, <2>1, <3>1
  <2> QED
    BY <1>8, <2>1 DEF Spares
<1>10. WonIs("won", batch[w], outraced[w], quotas')
  <2>1. tx[w].at - 1 = Len(batch[w])
    BY <1>1 DEF StatementIs, BatchIs
  <2>2. ASSUME NEW i \in 1 .. Len(batch[w])
        PROVE  i \in outraced[w] \/ OnRecord(quotas', batch[w][i])
    <3>1. \/ i \in outraced[w]
          \/ \E k \in 1 .. Len(u) : u[k].quota = batch[w][i].quota /\ u[k].value = batch[w][i].value
      BY <1>3, <2>1 DEF PastIs
    <3>2. ASSUME NEW k \in 1 .. Len(u), u[k].quota = batch[w][i].quota,
                 u[k].value = batch[w][i].value
          PROVE  OnRecord(quotas', batch[w][i])
      <4>1. OnRecord(quotas', u[k])
        BY <1>4, <1>8
      <4> QED
        BY <3>2, <4>1, Zenon DEF OnRecord
    <3> QED
      BY <3>1, <3>2
  <2> QED
    BY <1>1, <2>2, Zenon DEF WonIs
<1>11. Inserts(w) \in Nat
  <2> DEFINE S == {i \in DOMAIN u : u[i].do = "insert"}
  <2>1. S \subseteq 1 .. Len(u)
    BY <1>4
  <2>2. IsFiniteSet(1 .. Len(u))
    BY <1>4, FS_Interval
  <2>3. IsFiniteSet(S)
    BY <2>1, <2>2, FS_Subset
  <2>4. Cardinality(S) \in Nat
    BY <2>3, FS_CardinalityType
  <2>5. Inserts(w) = Cardinality(S)
    BY <1>2, Zenon DEF Inserts
  <2> QED
    BY <2>4, <2>5
<1>12. /\ applied'[w] = applied[w] + Inserts(w)
       /\ DOMAIN applied' = Writers /\ \A v \in Writers \ {w} : applied'[v] = applied[v]
  <2>1. DOMAIN applied = Writers
    BY <1>1 DEF QuotaTyped
  <2>2. PICK n : n = Inserts(w)
    OBVIOUS
  <2>3. applied' = [applied EXCEPT ![w] = applied[w] + n]
    BY <2>2, Zenon DEF Apply
  <2>4. /\ applied'[w] = applied[w] + n
        /\ DOMAIN applied' = Writers /\ \A v \in Writers \ {w} : applied'[v] = applied[v]
    BY <2>1, <2>3
  <2> QED
    BY <2>2, <2>4
<1> QED
  BY <1>9, <1>10, <1>11, <1>12

LEMMA CommitKeeps ==
  ASSUME QuotaInv, NEW w \in Writers, Commit(w)
  PROVE  QuotaInv'
<1>1. /\ NowAt(w, "commit") /\ AttemptSucceeds(w) /\ Apply(w) /\ Close(w)
      /\ inserted' = [inserted EXCEPT ![w] = Inserts(w)]
  BY DEF Commit
<1>2. QuotaTyped /\ WriterIs(w)
  BY DEF QuotaInv
<1>3. RetryTypeOK /\ DOMAIN inserted = Writers
  BY <1>2 DEF QuotaTyped
<1>4. /\ RetryTypeOK' /\ \A v \in Writers \ {w} : call'[v] = call[v]
      /\ call[w].st = "trying" /\ call'[w].st = "won" /\ call'[w].failed = call[w].failed
  BY <1>1, <1>3, UpsertRetries
<1>5. /\ Spares(w) /\ WonIs("won", batch[w], outraced[w], quotas')
      /\ Inserts(w) \in Nat /\ applied'[w] = applied[w] + Inserts(w)
      /\ DOMAIN applied' = Writers /\ \A v \in Writers \ {w} : applied'[v] = applied[v]
  BY <1>1, ApplyIs
<1>6. PICK n \in Nat : n = Inserts(w)
  BY <1>5
<1>7. /\ inserted'[w] = n /\ DOMAIN inserted' = Writers
      /\ \A v \in Writers \ {w} : inserted'[v] = inserted[v]
  BY <1>1, <1>3, <1>6
<1>8. CountIs(call'[w], inserted'[w], applied'[w])
  <2>1. CountIs(call[w], inserted[w], applied[w])
    BY <1>2, Zenon DEF WriterIs
  <2> QED
    BY <1>4, <1>5, <1>6, <1>7, <2>1 DEF CountIs
<1>9. call'[w].st \in {"pausing", "failed", "won"}
  BY <1>4
<1> QED
  BY <1>1, <1>4, <1>5, <1>7, <1>8, <1>9, EndKeeps

LEMMA CommitLostKeeps ==
  ASSUME QuotaInv, NEW w \in Writers, CommitLost(w)
  PROVE  QuotaInv'
<1>1. /\ NowAt(w, "commit") /\ AttemptFails(w) /\ Apply(w) /\ Close(w) /\ inserted' = inserted
  BY DEF CommitLost, AttemptLost
<1>2. QuotaTyped /\ WriterIs(w)
  BY DEF QuotaInv
<1>3. RetryTypeOK /\ DOMAIN inserted = Writers
  BY <1>2 DEF QuotaTyped
<1>4. /\ RetryTypeOK' /\ \A v \in Writers \ {w} : call'[v] = call[v]
      /\ call[w].st = "trying" /\ call'[w].st \in {"pausing", "failed"} /\ call'[w].failed
  BY <1>1, <1>3, UpsertRetries
<1>5. /\ Spares(w)
      /\ Inserts(w) \in Nat /\ applied'[w] = applied[w] + Inserts(w)
      /\ DOMAIN applied' = Writers /\ \A v \in Writers \ {w} : applied'[v] = applied[v]
  BY <1>1, ApplyIs
<1>6. CountIs(call'[w], inserted'[w], applied'[w])
  <2>1. CountIs(call[w], inserted[w], applied[w])
    BY <1>2, Zenon DEF WriterIs
  <2>2. applied'[w] \in Nat /\ inserted'[w] \in Nat
    BY <1>1, <1>5, <2>1 DEF CountIs
  <2> QED
    BY <1>4, <2>2 DEF CountIs
<1>7. call'[w].st \in {"pausing", "failed", "won"} /\ call'[w].st # "won"
  BY <1>4
<1> QED
  BY <1>1, <1>3, <1>4, <1>5, <1>6, <1>7, EndKeeps

\* A step of w around its attempts, by what it makes of the call.
LEMMA AroundKeeps ==
  ASSUME QuotaInv, NEW w \in Writers, RetryTypeOK', \A v \in Writers \ {w} : call'[v] = call[v],
         quotas' = quotas, held' = held, limits' = limits, moves' = moves,
         calls' \in 0 .. MaxUpserts, DOMAIN batch' = Writers, DOMAIN tx' = Writers,
         DOMAIN outraced' = Writers, DOMAIN inserted' = Writers, DOMAIN applied' = Writers,
         \A v \in Writers \ {w} :
             /\ batch'[v] = batch[v] /\ tx'[v] = tx[v] /\ outraced'[v] = outraced[v]
             /\ inserted'[v] = inserted[v] /\ applied'[v] = applied[v],
         WriterIs(w)'
  PROVE  QuotaInv'
<1>1. QuotaTyped
  BY DEF QuotaInv
<1>2. QuotaTyped'
  BY <1>1 DEF QuotaTyped
<1>3. Unnoticed(w)
  BY Zenon DEF Unnoticed
<1> QED
  BY <1>2, <1>3, StepKeeps

LEMMA CircuitKeeps ==
  ASSUME QuotaInv, NEW w \in Writers, CloseCircuit(w) \/ Wake(w), UNCHANGED quotaVars
  PROVE  QuotaInv'
<1>1. QuotaTyped /\ WriterIs(w)
  BY DEF QuotaInv
<1>2. /\ RetryTypeOK /\ calls \in 0 .. MaxUpserts /\ DOMAIN batch = Writers
      /\ DOMAIN tx = Writers /\ DOMAIN outraced = Writers /\ DOMAIN inserted = Writers
      /\ DOMAIN applied = Writers
  BY <1>1 DEF QuotaTyped
<1>3. /\ limits' = limits /\ moves' = moves /\ calls' = calls /\ quotas' = quotas /\ held' = held
      /\ batch' = batch /\ tx' = tx /\ inserted' = inserted /\ applied' = applied
      /\ outraced' = outraced
  BY DEF quotaVars
<1>4. /\ RetryTypeOK' /\ \A v \in Writers \ {w} : call'[v] = call[v]
      /\ call'[w].failed = call[w].failed
      /\ \/ call[w].st = "won" /\ call'[w].st = "ok"
         \/ call[w].st = "pausing" /\ call'[w].st = "trying"
  BY <1>2, UpsertRetries
<1>5. /\ AttemptIs(w, call[w].st, batch[w], tx[w], outraced[w], quotas, held)
      /\ WonIs(call[w].st, batch[w], outraced[w], quotas)
      /\ CountIs(call[w], inserted[w], applied[w])
  BY <1>1, Zenon DEF WriterIs
<1>6. AttemptIs(w, call'[w].st, batch[w], tx[w], outraced[w], quotas, held)
  <2>1. call'[w].st \in {"trying", "pausing"} <=> call[w].st \in {"trying", "pausing"}
    BY <1>4
  <2> QED
    BY <1>5, <2>1, Zenon DEF AttemptIs
<1>7. WonIs(call'[w].st, batch[w], outraced[w], quotas)
  <2>1. call'[w].st \in {"won", "ok"} <=> call[w].st \in {"won", "ok"}
    BY <1>4
  <2> QED
    BY <1>5, <2>1, Zenon DEF WonIs
<1>8. CountIs(call'[w], inserted[w], applied[w])
  BY <1>4, <1>5 DEF CountIs
<1>9. WriterIs(w)'
  BY <1>3, <1>6, <1>7, <1>8 DEF WriterIs
<1> QED
  BY <1>2, <1>3, <1>4, <1>9, AroundKeeps

LEMMA ReturnKeeps ==
  ASSUME QuotaInv, NEW w \in Writers, Return(w)
  PROVE  QuotaInv'
<1>1. QuotaTyped /\ WriterIs(w)
  BY DEF QuotaInv
<1>2. /\ RetryTypeOK /\ calls \in 0 .. MaxUpserts /\ DOMAIN batch = Writers
      /\ DOMAIN tx = Writers /\ DOMAIN outraced = Writers /\ DOMAIN inserted = Writers
      /\ DOMAIN applied = Writers
  BY <1>1 DEF QuotaTyped
<1>3. /\ CallReturns(w)
      /\ limits' = limits /\ moves' = moves /\ calls' = calls /\ quotas' = quotas /\ held' = held
      /\ tx' = tx /\ batch' = [batch EXCEPT ![w] = <<>>]
      /\ inserted' = [inserted EXCEPT ![w] = 0] /\ applied' = [applied EXCEPT ![w] = 0]
      /\ outraced' = [outraced EXCEPT ![w] = {}]
  BY DEF Return
<1>4. /\ RetryTypeOK' /\ \A v \in Writers \ {w} : call'[v] = call[v]
      /\ call[w].st \in {"ok", "failed"} /\ call'[w].st = "idle"
  BY <1>2, <1>3, UpsertRetries
<1>5. /\ DOMAIN batch' = Writers /\ DOMAIN outraced' = Writers /\ DOMAIN inserted' = Writers
      /\ DOMAIN applied' = Writers /\ inserted'[w] = 0 /\ applied'[w] = 0
      /\ \A v \in Writers \ {w} : /\ batch'[v] = batch[v] /\ outraced'[v] = outraced[v]
                                  /\ inserted'[v] = inserted[v] /\ applied'[v] = applied[v]
  BY <1>2, <1>3
<1>6. PICK b, out : b = batch'[w] /\ out = outraced'[w]
  OBVIOUS
<1>7. AttemptIs(w, "idle", b, tx[w], out, quotas, held)
  <2>1. AttemptIs(w, call[w].st, batch[w], tx[w], outraced[w], quotas, held)
    BY <1>1, Zenon DEF WriterIs
  <2>2. ~(call[w].st \in {"trying", "pausing"}) /\ ~("idle" \in {"trying", "pausing"})
    BY <1>4
  <2> QED
    BY <2>1, <2>2, Zenon DEF AttemptIs
<1>8. WonIs("idle", b, out, quotas)
  BY DEF WonIs
<1>9. CountIs(call'[w], 0, 0)
  BY <1>4 DEF CountIs
<1>10. WriterIs(w)'
  BY <1>3, <1>4, <1>5, <1>6, <1>7, <1>8, <1>9 DEF WriterIs
<1> QED
  BY <1>2, <1>3, <1>4, <1>5, <1>10, AroundKeeps

LEMMA UpsertKeeps ==
  ASSUME QuotaInv, NEW w \in Writers, NEW o \in BatchOrders,
         NEW values \in [DOMAIN o -> Values], Upsert(w, o, values)
  PROVE  QuotaInv'
<1>1. QuotaTyped /\ WriterIs(w)
  BY DEF QuotaInv
<1>2. /\ RetryTypeOK /\ calls \in 0 .. MaxUpserts /\ DOMAIN batch = Writers
      /\ DOMAIN tx = Writers /\ DOMAIN outraced = Writers /\ DOMAIN inserted = Writers
      /\ DOMAIN applied = Writers /\ limits \in [Quotas -> SUBSET Values]
  BY <1>1 DEF QuotaTyped
<1> DEFINE b == [i \in DOMAIN o |-> [quota |-> o[i], value |-> values[i]]]
<1>3. /\ CallStarts(w, FALSE) /\ calls < MaxUpserts /\ calls' = calls + 1
      /\ limits' = limits /\ moves' = moves /\ quotas' = quotas /\ held' = held
      /\ batch' = [batch EXCEPT ![w] = b] /\ tx' = [tx EXCEPT ![w] = Begin]
      /\ inserted' = inserted /\ applied' = applied /\ outraced' = outraced
  BY DEF Upsert
<1>4. /\ RetryTypeOK' /\ \A v \in Writers \ {w} : call'[v] = call[v]
      /\ call[w].st = "idle" /\ call'[w].st = "trying"
  BY <1>2, <1>3, UpsertRetries
<1>5. calls' \in 0 .. MaxUpserts
  BY <1>2, <1>3, QuotaAssumption
<1>6. BatchIs(b)
  <2>1. o \in Seq(Quotas) /\ o # <<>>
    BY QuotaAssumption
  <2>2. DOMAIN o = 1 .. Len(o) /\ Len(o) \in Nat /\ Len(o) # 0 /\ \A i \in 1 .. Len(o) : o[i] \in Quotas
    BY <2>1
  <2>4. \A i \in 1 .. Len(o) : b[i] \in LimitType
    BY <2>2 DEF LimitType
  <2>5. b = [i \in 1 .. Len(o) |-> b[i]]
    BY <2>2
  <2> HIDE DEF b
  <2>6. b \in Seq(LimitType) /\ Len(b) = Len(o)
    BY <2>2, <2>4, <2>5
  <2> QED
    BY <2>2, <2>6 DEF BatchIs
<1> HIDE DEF b
<1>7. /\ DOMAIN batch' = Writers /\ DOMAIN tx' = Writers /\ batch'[w] = b /\ tx'[w] = Begin
      /\ \A v \in Writers \ {w} : batch'[v] = batch[v] /\ tx'[v] = tx[v]
  BY <1>2, <1>3
<1>8. AttemptIs(w, "trying", b, Begin, outraced[w], quotas, held)
  <2>1. StatementIs(b, 1, "lookup", 0, quotas)
    BY <1>6 DEF BatchIs, StatementIs
  <2>2. WroteIs(w, <<>>, quotas, held) /\ AimIs(b, 1, "lookup", 0, <<>>)
    BY DEF WroteIs, AimIs
  <2>3. PastIs(b, 1, <<>>, outraced[w])
    BY DEF PastIs
  <2>4. TxIs(w, b, 1, "lookup", 0, <<>>, outraced[w], quotas, held)
    BY <1>6, <2>1, <2>2, <2>3, Zenon DEF TxIs
  <2>5. PICK t : t = Begin
    OBVIOUS
  <2>6. /\ t.at = 1 /\ t.stmt = "lookup" /\ t.row = 0 /\ t.wrote = <<>>
        /\ t = [at |-> t.at, stmt |-> t.stmt, row |-> t.row, wrote |-> t.wrote]
        /\ t.stmt \in Statements
    BY <2>5 DEF Begin, Statements
  <2>7. TxIs(w, b, t.at, t.stmt, t.row, t.wrote, outraced[w], quotas, held)
    BY <2>4, <2>6, Zenon
  <2>8. "trying" \in {"trying", "pausing"}
    OBVIOUS
  <2>9. AttemptIs(w, "trying", b, t, outraced[w], quotas, held)
    BY <2>6, <2>7, <2>8, Zenon DEF AttemptIs
  <2> QED
    BY <2>5, <2>9, Zenon
<1>9. WonIs("trying", b, outraced[w], quotas)
  BY DEF WonIs
<1>10. CountIs(call'[w], inserted[w], applied[w])
  <2>1. CountIs(call[w], inserted[w], applied[w])
    BY <1>1, Zenon DEF WriterIs
  <2> QED
    BY <1>4, <2>1 DEF CountIs
<1>11. WriterIs(w)'
  <2>1. AttemptIs(w, call'[w].st, batch'[w], tx'[w], outraced'[w], quotas', held')
    BY <1>3, <1>4, <1>7, <1>8
  <2>2. WonIs(call'[w].st, batch'[w], outraced'[w], quotas')
    BY <1>3, <1>4, <1>7, <1>9
  <2>3. CountIs(call'[w], inserted'[w], applied'[w])
    BY <1>3, <1>10
  <2> QED
    BY <2>1, <2>2, <2>3, Zenon DEF WriterIs
<1> QED
  BY <1>2, <1>3, <1>4, <1>5, <1>7, <1>11, AroundKeeps

\* A step in which no writer takes part.
LEMMA NoWriterKeeps ==
  ASSUME QuotaInv, retryVars' = retryVars, quotas' = quotas, held' = held, batch' = batch,
         tx' = tx, inserted' = inserted, applied' = applied, outraced' = outraced,
         calls' = calls, limits' \in [Quotas -> SUBSET Values], moves' \in 0 .. MaxMoves
  PROVE  QuotaInv'
<1>1. QuotaTyped /\ TableIs(quotas) /\ \A v \in Writers : WriterIs(v)
  BY DEF QuotaInv
<1>2. call' = call /\ db' = db /\ streak' = streak
  BY DEF retryVars
<1>3. RetryTypeOK'
  BY <1>1, <1>2 DEF QuotaTyped, RetryTypeOK
<1>4. QuotaTyped'
  BY <1>1, <1>3 DEF QuotaTyped
<1>5. \A v \in Writers : WriterIs(v)'
  BY <1>1, <1>2, Zenon DEF WriterIs
<1> QED
  BY <1>1, <1>4, <1>5, Zenon DEF QuotaInv

LEMMA LimitMoves ==
  ASSUME QuotaInv, NEW q \in Quotas, NEW v \in Values, Move(q, v)
  PROVE  QuotaInv'
<1>1. limits \in [Quotas -> SUBSET Values] /\ moves \in 0 .. MaxMoves
  BY DEF QuotaInv, QuotaTyped
<1>2. limits' \in [Quotas -> SUBSET Values] /\ moves' \in 0 .. MaxMoves
  <2>1. /\ limits' = [limits EXCEPT ![q] = limits[q] \union {v}]
        /\ moves < MaxMoves /\ moves' = moves + 1
    BY DEF Move
  <2>2. limits[q] \union {v} \in SUBSET Values
    BY <1>1
  <2>3. limits' \in [Quotas -> SUBSET Values]
    BY <1>1, <2>1, <2>2
  <2> QED
    BY <1>1, <2>1, <2>3, QuotaAssumption
<1> QED
  BY <1>2, NoWriterKeeps DEF Move

\* Every step keeps the invariant.
LEMMA QuotaInvKept ==
  ASSUME QuotaInv, [QuotaNext]_quotaChainVars
  PROVE  QuotaInv'
<1>1. ASSUME NEW q \in Quotas, NEW v \in Values, Move(q, v) PROVE QuotaInv'
  BY <1>1, LimitMoves
<1>2. ASSUME NEW w \in Writers, NEW o \in BatchOrders,
             NEW values \in [DOMAIN o -> Values], Upsert(w, o, values)
      PROVE  QuotaInv'
  BY <1>2, UpsertKeeps
<1>3. ASSUME NEW w \in Writers, Statement(w) PROVE QuotaInv'
  <2>1. CASE Lookup(w)
    BY <2>1, LookupKeeps
  <2>2. CASE Verify(w)
    BY <2>2, VerifyKeeps
  <2>3. CASE InsertFirst(w)
    BY <2>3, InsertFirstKeeps
  <2>4. CASE Supersede(w)
    BY <2>4, SupersedeKeeps
  <2>5. CASE InsertNext(w)
    BY <2>5, InsertNextKeeps
  <2>6. CASE Commit(w)
    BY <2>6, CommitKeeps
  <2>7. CASE KeyTaken(w)
    BY <2>7, AbortKeeps DEF KeyTaken
  <2>8. CASE DeadlockVictim(w)
    BY <2>8, AbortKeeps DEF DeadlockVictim
  <2>9. CASE (CloseCircuit(w) \/ Wake(w)) /\ UNCHANGED quotaVars
    BY <2>9, CircuitKeeps
  <2>10. CASE Return(w)
    BY <2>10, ReturnKeeps
  <2> QED
    BY <1>3, <2>1, <2>2, <2>3, <2>4, <2>5, <2>6, <2>7, <2>8, <2>9, <2>10, Zenon DEF Statement
<1>4. ASSUME NEW w \in Writers, ConnectionFails(w) PROVE QuotaInv'
  BY <1>4, AbortKeeps DEF ConnectionFails
<1>5. ASSUME NEW w \in Writers, CommitLost(w) PROVE QuotaInv'
  BY <1>5, CommitLostKeeps
<1>6. CASE UNCHANGED quotaChainVars
  <2>1. limits' \in [Quotas -> SUBSET Values] /\ moves' \in 0 .. MaxMoves
    BY <1>6 DEF quotaChainVars, quotaVars, QuotaInv, QuotaTyped
  <2> QED
    BY <1>6, <2>1, NoWriterKeeps DEF quotaChainVars, quotaVars
<1> QED
  BY <1>1, <1>2, <1>3, <1>4, <1>5, <1>6, Zenon DEF QuotaNext

\* A scan has recorded every limit: the table of first rows.
LEMMA SeedIs ==
  ASSUME NEW v \in Values
  PROVE  TableIs(SetToSeq({FirstRow(q, v) : q \in Quotas}))
<1> DEFINE S == {FirstRow(q, v) : q \in Quotas}
           s == SetToSeq(S)
<1>1. IsFiniteSet(S)
  <2> DEFINE f == [q \in Quotas |-> FirstRow(q, v)]
  <2>1. f \in Surjection(Quotas, S)
    BY DEF Surjection
  <2> HIDE DEF f, S
  <2> QED
    BY <2>1, FS_Surjection, QuotaAssumption
<1> DEFINE n == Cardinality(S)
<1>2. n \in Nat /\ s \in [1 .. n -> S] /\ IsInjective(s)
  <2> HIDE DEF S
  <2>1. n \in Nat /\ ExistsBijection(1 .. n, S)
    BY <1>1, FS_CardinalityType
  <2>2. \E f \in [1 .. n -> S] : IsInjective(f)
    BY <2>1 DEF ExistsBijection, Bijection, Injection
  <2> QED
    BY <2>1, <2>2, Zenon DEF SetToSeq
<1> HIDE DEF n
<1>3. \A r \in S : /\ r \in RowType /\ r.previous = 0 /\ r.supersededBy = 0 /\ r.attested = r.value
                   /\ r = FirstRow(r.quota, v)
  BY DEF FirstRow, RowType
<1> HIDE DEF S, s
<1>4. s \in Seq(RowType) /\ Len(s) = n /\ DOMAIN s = 1 .. n /\ \A i \in 1 .. n : s[i] \in S
  <2>1. \A r \in S : r \in RowType
    BY <1>3
  <2>2. s \in Seq(S)
    BY <1>2
  <2>3. Len(s) = n /\ DOMAIN s = 1 .. n /\ \A i \in 1 .. n : s[i] \in S
    BY <1>2, <2>2
  <2>4. s = [i \in 1 .. n |-> s[i]]
    BY <1>2
  <2>5. \A i \in 1 .. n : s[i] \in RowType
    BY <2>1, <2>3
  <2>6. s \in Seq(RowType)
    BY <1>2, <2>4, <2>5
  <2> QED
    BY <2>3, <2>6
<1>5. \A i, j \in 1 .. n : s[i].quota = s[j].quota => i = j
  <2> SUFFICES ASSUME NEW i \in 1 .. n, NEW j \in 1 .. n, s[i].quota = s[j].quota PROVE i = j
    OBVIOUS
  <2>1. s[i] \in S /\ s[j] \in S
    BY <1>4
  <2>2. s[i] = FirstRow(s[i].quota, v) /\ s[j] = FirstRow(s[j].quota, v)
    BY <1>3, <2>1
  <2>3. s[i] = s[j]
    BY <2>2, Zenon
  <2> QED
    BY <1>2, <1>4, <2>3 DEF IsInjective
<1>6. \A i \in 1 .. n : s[i].previous = 0 /\ s[i].supersededBy = 0 /\ s[i].attested = s[i].value
  BY <1>3, <1>4
<1>7. RowsIs(s)
  BY <1>2, <1>4, <1>6 DEF RowsIs
<1>8. LiveIs(s)
  BY <1>4, <1>5, <1>6 DEF LiveIs
<1>9. FirstIs(s)
  BY <1>4, <1>5, <1>6 DEF FirstIs
<1>10. NextIs(s)
  BY <1>4, <1>6 DEF NextIs
<1>11. TableIs(s)
  BY <1>4, <1>7, <1>8, <1>9, <1>10, Zenon DEF TableIs
<1> QED
  BY <1>11 DEF s, S

LEMMA QuotaInvInit ==
  ASSUME QuotaInit
  PROVE  QuotaInv
<1>1. /\ RetryInit /\ moves = 0 /\ calls = 0
      /\ limits = [q \in Quotas |-> {Initial}]
      /\ quotas \in {<<>>, SetToSeq({FirstRow(q, Initial) : q \in Quotas})}
      /\ held = [i \in Items |-> Free]
      /\ batch = [w \in Writers |-> <<>>] /\ tx = [w \in Writers |-> NoTx]
      /\ inserted = [w \in Writers |-> 0] /\ applied = [w \in Writers |-> 0]
      /\ outraced = [w \in Writers |-> {}]
  BY DEF QuotaInit
<1>2. RetryTypeOK /\ call = [w \in Writers |-> NoCall]
  BY <1>1, RetryAssumption DEF RetryInit, RetryTypeOK, NoCall
<1>3. Initial \in Values /\ limits \in [Quotas -> SUBSET Values]
  <2>1. Initial \in Values
    BY QuotaAssumption DEF Initial
  <2> QED
    BY <1>1, <2>1
<1>4. QuotaTyped
  BY <1>1, <1>2, <1>3, QuotaAssumption DEF QuotaTyped
<1>5. TableIs(quotas)
  <2>1. CASE quotas = <<>>
    BY <2>1 DEF TableIs, RowsIs, LiveIs, FirstIs, NextIs
  <2>2. CASE quotas = SetToSeq({FirstRow(q, Initial) : q \in Quotas})
    BY <1>3, <2>2, SeedIs
  <2> QED
    BY <1>1, <2>1, <2>2
<1>6. ASSUME NEW w \in Writers PROVE WriterIs(w)
  <2>1. call[w].st = "idle" /\ tx[w] = NoTx /\ inserted[w] = 0 /\ applied[w] = 0
    BY <1>1, <1>2 DEF NoCall
  <2>2. AttemptIs(w, call[w].st, batch[w], tx[w], outraced[w], quotas, held)
    BY <2>1 DEF AttemptIs
  <2>3. WonIs(call[w].st, batch[w], outraced[w], quotas)
    BY <2>1 DEF WonIs
  <2>4. CountIs(call[w], inserted[w], applied[w])
    BY <2>1 DEF CountIs
  <2> QED
    BY <2>2, <2>3, <2>4, Zenon DEF WriterIs
<1> QED
  BY <1>4, <1>5, <1>6 DEF QuotaInv

\* A set of which one and only one thing is an element.
LEMMA JustOne ==
  ASSUME NEW S, NEW e, e \in S, \A x \in S : x = e
  PROVE  Cardinality(S) = 1
<1>1. S = {e}
  OBVIOUS
<1>2. Cardinality({e}) = 1
  BY FS_Singleton
<1> QED
  BY <1>1, <1>2, Zenon

LEMMA QuotaInvSaysHonest ==
  ASSUME QuotaInv
  PROVE  QuotasAreHonest
<1>1. QuotaTyped /\ TableIs(quotas) /\ \A w \in Writers : WriterIs(w)
  BY DEF QuotaInv
<1>2. quotas \in Seq(RowType) /\ RowsIs(quotas) /\ LiveIs(quotas) /\ FirstIs(quotas) /\ NextIs(quotas)
  BY <1>1, Zenon DEF TableIs
<1> DEFINE n == Len(quotas)
<1>3. n \in Nat /\ Rows = 1 .. n
  BY <1>2 DEF Rows
<1>4. \A i \in 1 .. n : /\ quotas[i].quota \in Quotas /\ quotas[i].value \in Values
                        /\ quotas[i].attested \in Values
                        /\ quotas[i].previous \in Nat /\ quotas[i].supersededBy \in Nat
  <2>1. \A i \in 1 .. n : quotas[i] \in RowType
    BY <1>2
  <2> QED
    BY <2>1 DEF RowType
<1>5. \A i \in 1 .. n : /\ quotas[i].attested = quotas[i].value
                        /\ quotas[i].previous <= n /\ quotas[i].supersededBy <= n
  BY <1>2 DEF RowsIs
<1>6. VerifiedIsWhatWasRead
  BY <1>3, <1>5 DEF VerifiedIsWhatWasRead
<1>7. QuotaTypeOK
  <2>1. ASSUME NEW i \in Rows
        PROVE  /\ quotas[i].quota \in Quotas
               /\ {quotas[i].value, quotas[i].attested} \subseteq Values
               /\ quotas[i].previous \in 0 .. Len(quotas)
               /\ quotas[i].supersededBy \in 0 .. Len(quotas)
    BY <1>3, <1>4, <1>5
  <2> QED
    BY <1>1, <2>1, Zenon DEF QuotaTypeOK, QuotaTyped
<1>8. LimitsAreOnRecord
  <2> SUFFICES ASSUME NEW w \in Writers, call[w].st = "ok", NEW i \in DOMAIN batch[w]
               PROVE  \/ i \in outraced[w]
                      \/ \E r \in Rows : quotas[r].quota = batch[w][i].quota
                                         /\ quotas[r].value = batch[w][i].value
    BY DEF LimitsAreOnRecord
  <2>1. WonIs(call[w].st, batch[w], outraced[w], quotas)
    BY <1>1, Zenon DEF WriterIs
  <2>2. /\ BatchIs(batch[w])
        /\ \A k \in 1 .. Len(batch[w]) :
              k \in outraced[w] \/ OnRecord(quotas, batch[w][k])
    BY <2>1 DEF WonIs
  <2>3. DOMAIN batch[w] = 1 .. Len(batch[w])
    BY <2>2 DEF BatchIs
  <2>4. i \in outraced[w] \/ OnRecord(quotas, batch[w][i])
    BY <2>2, <2>3
  <2> QED
    BY <1>3, <2>4 DEF OnRecord
<1>9. CountIsOfRows
  <2> SUFFICES ASSUME NEW w \in Writers, call[w].st = "ok"
               PROVE  /\ inserted[w] <= applied[w]
                      /\ ~call[w].failed => inserted[w] = applied[w]
    BY DEF CountIsOfRows
  <2>1. CountIs(call[w], inserted[w], applied[w])
    BY <1>1, Zenon DEF WriterIs
  <2> QED
    BY <2>1 DEF CountIs
<1>10. ChainsAreLinear
  <2> SUFFICES ASSUME NEW q \in Quotas, NEW k \in Rows, quotas[k].quota = q
               PROVE  /\ Cardinality(Live(q)) = 1
                      /\ Cardinality({i \in {r \in Rows : quotas[r].quota = q} :
                                         quotas[i].previous = 0}) = 1
                      /\ \A i \in {r \in Rows : quotas[r].quota = q} \ Live(q) :
                            LET s == quotas[i].supersededBy
                            IN  /\ s \in {r \in Rows : quotas[r].quota = q}
                                /\ quotas[s].previous = i /\ quotas[s].value # quotas[i].value
    BY DEF ChainsAreLinear
  <2>1. Cardinality(Live(q)) = 1
    <3>1. PICK j \in 1 .. n : quotas[j].quota = q /\ quotas[j].supersededBy = 0
      BY <1>2, <1>3 DEF LiveIs
    <3>2. j \in Live(q) /\ \A x \in Live(q) : x = j
      BY <1>2, <1>3, <3>1 DEF LiveIs, Live
    <3> QED
      BY <3>2, JustOne
  <2>2. Cardinality({i \in {r \in Rows : quotas[r].quota = q} : quotas[i].previous = 0}) = 1
    <3> DEFINE T == {i \in {r \in Rows : quotas[r].quota = q} : quotas[i].previous = 0}
    <3>1. PICK j \in 1 .. n : quotas[j].quota = q /\ quotas[j].previous = 0
      BY <1>2, <1>3 DEF FirstIs
    <3>2. j \in T /\ \A x \in T : x = j
      BY <1>2, <1>3, <3>1 DEF FirstIs
    <3> HIDE DEF T
    <3>3. Cardinality(T) = 1
      <4>1. T = {j}
        BY <3>2
      <4>2. Cardinality({j}) = 1
        BY FS_Singleton
      <4> QED
        BY <4>1, <4>2, Zenon
    <3> QED
      BY <3>3 DEF T
  <2>3. ASSUME NEW i \in Rows, quotas[i].quota = q, i \notin Live(q)
        PROVE  /\ quotas[i].supersededBy \in 1 .. n
               /\ quotas[quotas[i].supersededBy].quota = q
               /\ quotas[quotas[i].supersededBy].previous = i
               /\ quotas[quotas[i].supersededBy].value # quotas[i].value
    BY <1>2, <1>3, <2>3 DEF NextIs, Live
  <2> HIDE DEF n
  <2> QED
    BY <1>3, <2>1, <2>2, <2>3
<1> QED
  BY <1>6, <1>7, <1>8, <1>9, <1>10 DEF QuotasAreHonest

\* Whatever two scans that upsert the same quotas do between each other's statements, and
\* however often a batch repeats a quota, the rows of every quota stay one chain, each attests
\* the limit it holds, a call that succeeded has its limits on record and counts the rows it
\* inserted (UpsertQuotas).
THEOREM QuotasStayHonest == QuotaSpec => []QuotasAreHonest
<1>1. QuotaInit => QuotaInv
  BY QuotaInvInit
<1>2. QuotaInv /\ [QuotaNext]_quotaChainVars => QuotaInv'
  BY QuotaInvKept
<1>3. QuotaInv => QuotasAreHonest
  BY QuotaInvSaysHonest
<1> QED
  BY <1>1, <1>2, <1>3, PTL DEF QuotaSpec
=============================================================================
