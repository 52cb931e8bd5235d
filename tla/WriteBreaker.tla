---------------------------- MODULE WriteBreaker ----------------------------
(***************************************************************************)
(* What the circuit of WriteRetry promises in an outage.  The behaviours   *)
(* are those of WriteRetry; spell only watches them.                       *)
(***************************************************************************)
EXTENDS WriteRetry

CONSTANTS
    MaxCalls,       \* bound: calls started in one outage
    MaxOutages      \* bound: outages

ASSUME BreakerAssumption == MaxCalls \in Nat /\ MaxOutages \in Nat

VARIABLE
    spell           \* the outage in progress, or the last one

breakerVars == <<retryVars, spell>>

NewSpell(nr) == [nr |-> nr, calls |-> 0, stalled |-> 0, resets |-> 0]

BreakerInit == RetryInit /\ spell = NewSpell(0)

Starts == {w \in Writers : call[w].st = "idle" /\ call'[w].st = "trying"}
FirstPauses == {w \in Writers : ~call[w].failed /\ call'[w].st = "pausing"}
Resets == {w \in Writers : call[w].st = "won" /\ call'[w].st = "ok"}

\* An outage begins, a step is taken in an outage, or the database is up.
Watch ==
    IF db = "up"
    THEN spell' = IF db' = "down" THEN NewSpell(spell.nr + 1) ELSE spell
    ELSE spell' = [spell EXCEPT !.calls = @ + Cardinality(Starts),
                                !.stalled = @ + Cardinality(FirstPauses),
                                !.resets = @ + Cardinality(Resets)]

BreakerNext ==
    /\ RetryNext
    /\ Watch
    /\ spell'.calls <= MaxCalls
    /\ spell'.nr <= MaxOutages
    /\ streak' <= MaxCalls

BreakerSpec == BreakerInit /\ [][BreakerNext]_breakerVars

-----------------------------------------------------------------------------
BreakerTypeOK ==
    /\ RetryTypeOK
    /\ spell \in [nr : 0 .. MaxOutages, calls : 0 .. MaxCalls, stalled : Nat, resets : Nat]

\* The breaker does its work: in one outage the calls that wait for a retry are
\* bounded by the circuit and the writers, not by the number of writes.  A
\* write that had succeeded before the outage resets the streak when its
\* goroutine resumes in the middle of it: each writer can reopen the circuit
\* to retries once, and no more.
BreakerBoundsRetries ==
    LET W == Cardinality(Writers)
    IN  /\ BreakerTypeOK
        /\ spell.resets <= W
        /\ spell.stalled <= (spell.resets + 1) * (W + Trip - 1)
=============================================================================
