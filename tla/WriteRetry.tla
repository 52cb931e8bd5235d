----------------------------- MODULE WriteRetry -----------------------------
(***************************************************************************)
(* The retry of a store write and the circuit breaker that all scoped      *)
(* copies of one Store share (src/store/retry.go, withWriteRetry).         *)
(*                                                                         *)
(* A writer is a goroutine; a call is one withWriteRetry.  What the write  *)
(* does is left to the module that extends this one: it conjoins its       *)
(* effect with AttemptSucceeds, AttemptLost, AttemptFails or               *)
(* AttemptRefused.  The streak is read once when a call starts and reset   *)
(* in a step of its own after the write: other calls run in between.       *)
(***************************************************************************)
EXTENDS Naturals, FiniteSets

CONSTANTS
    Writers,        \* the goroutines that share a Store
    MaxAttempts,    \* writeMaxAttempts
    Trip            \* writeCircuitTrip

ASSUME RetryAssumption ==
    /\ IsFiniteSet(Writers)
    /\ MaxAttempts \in Nat \ {0}
    /\ Trip \in Nat \ {0}

VARIABLES
    db,         \* "up" or "down": can the server be reached
    streak,     \* writeFailStreak
    call        \* the call each writer is in

retryVars == <<db, streak, call>>

NoCall == [st |-> "idle", left |-> 0, failed |-> FALSE]
Start(n) == [st |-> "trying", left |-> n, failed |-> FALSE]

RetryInit ==
    /\ db = "up"
    /\ streak = 0
    /\ call = [w \in Writers |-> NoCall]

-----------------------------------------------------------------------------
\* Mutant of AttemptsAllowed: the circuit opens one failure late.
AttemptsTripLate(owned) == IF owned \/ streak > Trip THEN 1 ELSE MaxAttempts

\* How often a call that starts now may try.  owned: the statement runs in a
\* transaction of the caller (s.tx), which a retry could not save.
AttemptsAllowed(owned) == IF owned \/ streak >= Trip THEN 1 ELSE MaxAttempts

CallStarts(w, owned) ==
    /\ call[w].st = "idle"
    /\ call' = [call EXCEPT ![w] = Start(AttemptsAllowed(owned))]
    /\ UNCHANGED <<db, streak>>

\* fn returned nil.  The streak is reset in the next step.
AttemptSucceeds(w) ==
    /\ call[w].st = "trying"
    /\ db = "up"
    /\ call' = [call EXCEPT ![w].st = "won"]
    /\ UNCHANGED <<db, streak>>

\* writeFailStreak.Store(0), and the warning of a recovered write.
CloseCircuit(w) ==
    /\ call[w].st = "won"
    /\ streak' = 0
    /\ call' = [call EXCEPT ![w].st = "ok"]
    /\ UNCHANGED db

\* A failed attempt that leaves more: the pause before the next.
Pause(w) ==
    /\ call[w].left > 1
    /\ call' = [call EXCEPT ![w] = [st |-> "pausing", left |-> @.left - 1, failed |-> TRUE]]
    /\ UNCHANGED <<db, streak>>

\* The last attempt failed: only this counts towards the circuit.
Exhaust(w) ==
    /\ call[w].left = 1
    /\ streak' = streak + 1
    /\ call' = [call EXCEPT ![w] = [st |-> "failed", left |-> 0, failed |-> TRUE]]
    /\ UNCHANGED db

\* A connection-level error; the write was not applied.
AttemptFails(w) ==
    /\ call[w].st = "trying"
    /\ Pause(w) \/ Exhaust(w)

\* The same error, after the server had applied the write: the connection died
\* before the answer to COMMIT.
AttemptLost(w) ==
    /\ db = "up"
    /\ AttemptFails(w)

\* A statement-level error is not retried and does not count.
AttemptRefused(w) ==
    /\ call[w].st = "trying"
    /\ db = "up"
    /\ call' = [call EXCEPT ![w] = [st |-> "failed", left |-> 0, failed |-> @.failed]]
    /\ UNCHANGED <<db, streak>>

Wake(w) ==
    /\ call[w].st = "pausing"
    /\ call' = [call EXCEPT ![w].st = "trying"]
    /\ UNCHANGED <<db, streak>>

\* The caller has the result and goes on.
CallReturns(w) ==
    /\ call[w].st \in {"ok", "failed"}
    /\ call' = [call EXCEPT ![w] = NoCall]
    /\ UNCHANGED <<db, streak>>

OutageBegins ==
    /\ db = "up"
    /\ db' = "down"
    /\ UNCHANGED <<streak, call>>

OutageEnds ==
    /\ db = "down"
    /\ db' = "up"
    /\ UNCHANGED <<streak, call>>

RetryNext ==
    \/ OutageBegins
    \/ OutageEnds
    \/ \E w \in Writers :
          \/ \E owned \in BOOLEAN : CallStarts(w, owned)
          \/ AttemptSucceeds(w) \/ AttemptFails(w) \/ AttemptLost(w) \/ AttemptRefused(w)
          \/ CloseCircuit(w) \/ Wake(w) \/ CallReturns(w)

RetrySpec == RetryInit /\ [][RetryNext]_retryVars

-----------------------------------------------------------------------------
RetryTypeOK ==
    /\ db \in {"up", "down"}
    /\ streak \in Nat
    /\ call \in [Writers -> [st : {"idle", "trying", "pausing", "won", "ok", "failed"},
                             left : 0 .. MaxAttempts, failed : BOOLEAN]]

=============================================================================
