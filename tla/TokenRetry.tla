------------------------------ MODULE TokenRetry ------------------------------
(***************************************************************************)
(* retryCredential (src/internal/providers/azure/wif.go) under             *)
(* cachingCredential (azure_credential.go): acquisitions of several keys,  *)
(* one at a time for each key, retry a federation that has not propagated  *)
(* and share one stamp, the time the current streak of failures began.     *)
(* The stamp is read and written by three atomic operations that another   *)
(* key may come between.  Time stands still within a step.                 *)
(***************************************************************************)
EXTENDS Naturals

CONSTANTS
    TokenKeys,      \* tenant and scopes: what singleflight tells apart
    Attempts,       \* federationPropagationAttempts
    Budget,         \* federationPropagationBudget, in ticks
    MaxTime,        \* bound on the clock
    MaxWaves        \* bound on the acquisitions of a key

ASSUME TokenAssumption ==
    {Attempts, Budget, MaxTime, MaxWaves} \subseteq Nat \ {0}

VARIABLES
    now,
    firstFailure,   \* 0, or the time the streak began
    call,           \* call[k]: the acquisition in flight for k
    waves,          \* waves[k]: acquisitions begun
    cleared,        \* when an acquisition last succeeded, 0 if never
    failedAt        \* the first failure since, 0 if none

tokenVars == <<now, firstFailure, call, waves, cleared, failedAt>>

Idle == [at |-> "idle", attempt |-> 0, since |-> 0]

TokenInit ==
    /\ now = 1 /\ firstFailure = 0
    /\ call = [k \in TokenKeys |-> Idle]
    /\ waves = [k \in TokenKeys |-> 0]
    /\ cleared = 0 /\ failedAt = 0

-----------------------------------------------------------------------------
Stands(k, place) == call[k].at = place
Goes(k, place) == call' = [call EXCEPT ![k].at = place]

\* A miss in the cache, or a token near its end, starts the flight of its key;
\* later callers of the key join it (golang.org/x/sync/singleflight).
Acquire(k) ==
    /\ call[k].at \in {"idle", "got", "gave up", "exhausted"} /\ waves[k] < MaxWaves
    /\ waves' = [waves EXCEPT ![k] = @ + 1]
    /\ call' = [call EXCEPT ![k] = [at |-> "asking", attempt |-> 1, since |-> 0]]
    /\ UNCHANGED <<now, firstFailure, cleared, failedAt>>

\* A token: the streak is over, whoever began it.
Succeeds(k) ==
    /\ Stands(k, "asking")
    /\ firstFailure' = 0 /\ cleared' = now /\ failedAt' = 0
    /\ Goes(k, "got")
    /\ UNCHANGED <<now, waves>>

\* An error of another kind, or the end of the caller's context.
Fails(k) ==
    /\ call[k].at \in {"asking", "sleeping"} /\ Goes(k, "gave up")
    /\ UNCHANGED <<now, firstFailure, waves, cleared, failedAt>>

\* Where a failed attempt goes on when the budget is not spent.
Retry(k) == IF call[k].attempt = Attempts THEN "gave up" ELSE "sleeping"

\* Mutant of Stamp: each failure starts the streak afresh.
StampAlways(k) ==
    /\ Stands(k, "asking")
    /\ failedAt' = IF failedAt = 0 THEN now ELSE failedAt
    /\ firstFailure' = now
    /\ call' = [call EXCEPT ![k].at = Retry(k), ![k].since = now]
    /\ UNCHANGED <<now, waves, cleared>>

\* AADSTS70021: the first failure of a streak leaves its time (CompareAndSwap).
Stamp(k) ==
    /\ Stands(k, "asking")
    /\ failedAt' = IF failedAt = 0 THEN now ELSE failedAt
    /\ IF firstFailure = 0
       THEN firstFailure' = now /\ call' = [call EXCEPT ![k].at = Retry(k), ![k].since = now]
       ELSE UNCHANGED firstFailure
            /\ call' = [call EXCEPT ![k].at = "judging", ![k].since = now]
    /\ UNCHANGED <<now, waves, cleared>>

\* exhausted: the stamp is loaded anew, and may have been cleared.
Spent(k) == firstFailure # 0 /\ call[k].since > firstFailure + Budget

Judge(k) ==
    /\ Stands(k, "judging")
    /\ Goes(k, IF Spent(k) THEN "exhausted" ELSE Retry(k))
    /\ UNCHANGED <<now, firstFailure, waves, cleared, failedAt>>

\* The backoff is over: at least a tick has passed.
Wakes(k) ==
    /\ Stands(k, "sleeping") /\ now > call[k].since
    /\ call' = [call EXCEPT ![k].at = "asking", ![k].attempt = @ + 1]
    /\ UNCHANGED <<now, firstFailure, waves, cleared, failedAt>>

\* A decision takes no time.
Tick ==
    /\ now < MaxTime /\ \A k \in TokenKeys : ~Stands(k, "judging")
    /\ now' = now + 1
    /\ UNCHANGED <<firstFailure, call, waves, cleared, failedAt>>

TokenNext ==
    \/ \E k \in TokenKeys : Acquire(k) \/ Succeeds(k) \/ Fails(k) \/ Stamp(k) \/ Judge(k) \/ Wakes(k)
    \/ Tick

TokenSpec == TokenInit /\ [][TokenNext]_tokenVars

-----------------------------------------------------------------------------
\* A credential is never given up while another acquisition of it has just worked:
\* the verdict needs a whole budget of failures since the last success, though
\* that success may fall between the swap and the load of the one who judges.
GivesUpLate == [][
    \A k \in TokenKeys : ~Stands(k, "exhausted") /\ call'[k].at = "exhausted"
        => failedAt # 0 /\ now > failedAt + Budget /\ failedAt >= cleared]_tokenVars

\* And it is given up in time: an acquisition that goes to sleep after a whole
\* budget of failures of all keys together does so only when a success came in
\* between.
StopsRetrying == [][
    \A k \in TokenKeys : ~Stands(k, "sleeping") /\ call'[k].at = "sleeping"
        => failedAt' = 0 \/ now <= failedAt' + Budget]_tokenVars

\* A credential is given up neither early nor late (acquireWithRetry).
GivesUpInTime == GivesUpLate /\ StopsRetrying
=============================================================================
