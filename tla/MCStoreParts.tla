----------------------------- MODULE MCStoreParts -----------------------------
(***************************************************************************)
(* Instances for TLC of the smaller parts around the store.  They share no *)
(* state; a behaviour is one of one part, chosen at the start, so that     *)
(* their state spaces add up instead of multiplying.                       *)
(***************************************************************************)
EXTENDS WriteBreaker, QuotaChain, GraphWalk, Migrations, PagedRead, TypeSightings, SdkCache

CONSTANTS q1, q2

\* Batches that list two quotas in opposite orders, and one that repeats a quota.
MCBatchOrders == {<<q1, q2>>, <<q2, q1>>, <<q1, q1>>}

\* Two ways from 1 to 4, a way back, and a cycle.
MCLinks == {<<1, 2>>, <<3, 1>>, <<2, 4>>, <<4, 3>>, <<2, 3>>, <<1, 4>>}

\* A binary that knows two migrations beside one that knows three.
MCKnown == [o \in Openers |-> IF o = 1 THEN 2 ELSE 3]

NoQuery == [what |-> "walk", links |-> {}, dir |-> "out", managed |-> {}, excluded |-> {},
            gone |-> {}, maxDepth |-> 2, maxNodes |-> 0, maxEdges |-> 0]

VARIABLE part

Parts == {"breaker", "quotas", "graph", "migrations", "pages", "sightings", "sdk cache"}

partVars == <<part, breakerVars, quotaVars, graphVars, migrationVars, pageVars, sightVars, sdkVars>>

\* The part that runs starts anywhere it may, the others in one place.
PartsInit ==
    /\ part \in Parts
    /\ part # "quotas" => quotas = <<>>
    /\ part # "migrations" => serial = TRUE
    /\ part # "sdk cache" => dir = Missing
    /\ part # "pages" => named = [i \in Ids |-> Gap]
    /\ part # "sightings" => noted = [p \in Spotters |-> [scan |-> 1, typ |-> 1]]
    /\ part # "graph" => query = NoQuery
    /\ QuotaInit /\ BreakerInit /\ MigrationsInit /\ SdkInit /\ PagedInit /\ SightInit /\ GraphInit

Runs(name, step, others) == part = name /\ step /\ UNCHANGED <<part, others>>

Upserts(step) ==
    Runs("quotas", step, <<spell, graphVars, migrationVars, pageVars, sightVars, sdkVars>>)

Migrates(step) ==
    Runs("migrations", step, <<breakerVars, quotaVars, graphVars, pageVars, sightVars, sdkVars>>)

PartsNext ==
    \/ Upserts(QuotaNext)
    \/ Migrates(MigrationsNext)
    \/ Runs("breaker", BreakerNext,
            <<quotaVars, graphVars, migrationVars, pageVars, sightVars, sdkVars>>)
    \/ Runs("graph", GraphNext,
            <<breakerVars, quotaVars, migrationVars, pageVars, sightVars, sdkVars>>)
    \/ Runs("pages", PagedNext,
            <<breakerVars, quotaVars, graphVars, migrationVars, sightVars, sdkVars>>)
    \/ Runs("sightings", SightNext,
            <<breakerVars, quotaVars, graphVars, migrationVars, pageVars, sdkVars>>)
    \/ Runs("sdk cache", SdkNext,
            <<breakerVars, quotaVars, graphVars, migrationVars, pageVars, sightVars>>)

\* An opener keeps going, a statement of UpsertQuotas returns unless it waits for a
\* lock, and the database breaks deadlocks and grants a lock that is free.
PartsSpec ==
    /\ PartsInit /\ [][PartsNext]_partVars
    /\ \A o \in Openers : WF_partVars(Migrates(Advances(o)))
    /\ \A w \in Writers : WF_partVars(Upserts(Statement(w)))

\* Nobody waits for ever for the transaction of another (migrate, migratePG), and
\* what stopped openers leave behind is in nobody's way.
OpenersSettle == <>[](part = "migrations" => \A o \in Openers : Settled(o))

\* Every call of UpsertQuotas returns: batches that lock the same rows in opposite
\* orders do not wait for each other for ever, nor does a retry go on.  There are at
\* most MaxUpserts, so in the end none is under way.
QuotaCallsReturn == <>[](part = "quotas" => \A w \in Writers : call[w].st = "idle")

\* The two together: no part of the store waits for ever.
PartsSettle == QuotaCallsReturn /\ OpenersSettle
=============================================================================
