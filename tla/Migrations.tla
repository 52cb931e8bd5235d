------------------------------ MODULE Migrations ------------------------------
(***************************************************************************)
(* Opening a store: migratePG and migrate (src/store/migrate_pg.go,        *)
(* migrate.go).  An opener reads the versions applied once, then runs each *)
(* pending migration and its record in a transaction of its own.  Nothing  *)
(* serialises the openers: two scan workers that meet a new schema run the *)
(* same migrations, and the primary key of schema_migrations decides.      *)
(* Bodies are abstract: what counts is how often one has taken effect.     *)
(***************************************************************************)
EXTENDS Naturals, FiniteSets, FiniteSetsExt

CONSTANTS
    Openers,        \* processes that open the store
    Known,          \* Known[o]: versions in o's binary are 1 .. Known[o]
    Plain,          \* versions whose body runs again without an error or a wait
    MaxOpens        \* how often an opener tries

ASSUME MigrationsAssumption ==
    /\ IsFiniteSet(Openers)
    /\ Known \in [Openers -> Nat \ {0}]
    /\ MaxOpens \in Nat

VARIABLES
    serial,         \* SQLite: one transaction writes at a time, the others wait
    tracked,        \* is there a table schema_migrations?
    recorded,       \* its versions
    effects,        \* effects[v]: how often the body of v has been committed
    opener,         \* opener[o]: where o is
    opens           \* opens[o]: how often o has tried

migrationVars == <<serial, tracked, recorded, effects, opener, opens>>

Versions == 1 .. Max({Known[o] : o \in Openers})
Closed == [at |-> "closed", todo |-> {}, sawTable |-> FALSE]

MigrationsInit ==
    /\ serial \in BOOLEAN
    /\ tracked = FALSE /\ recorded = {}
    /\ effects = [v \in Versions |-> 0]
    /\ opener = [o \in Openers |-> Closed]
    /\ opens = [o \in Openers |-> 0]

-----------------------------------------------------------------------------
At(o, place) == opener[o].at = place
Moves(o, place) == opener' = [opener EXCEPT ![o].at = place]
Settled(o) == opener[o].at \in {"open", "failed"}

\* Mutant of Turn: pending migrations in the order a map gives them.
TurnByMap(o) == Max(opener[o].todo)

\* Files are sorted by name, which starts with the version.
Turn(o) == Min(opener[o].todo)

\* Transactions that have run the body of a version, or recorded it.
Applying(v) == {o \in Openers : opener[o].at \in {"applied", "noted"} /\ Turn(o) = v}
Noting(v) == {o \in Applying(v) : At(o, "noted")}

\* What o waits for before it writes version v; how = Applying or Noting.
Blockers(o, holders) ==
    (IF serial THEN UNION {Applying(v) : v \in Versions} ELSE holders) \ {o}

\* The versions applied are read once, without a lock.
ReadApplied(o) ==
    /\ At(o, "closed") /\ opens[o] < MaxOpens
    /\ opens' = [opens EXCEPT ![o] = @ + 1]
    /\ LET todo == (1 .. Known[o]) \ recorded
       IN  opener' = [opener EXCEPT ![o] =
               [at |-> IF todo = {} THEN "open" ELSE "behind", todo |-> todo,
                sawTable |-> tracked]]
    /\ UNCHANGED <<serial, tracked, recorded, effects>>

\* CREATE TABLE IF NOT EXISTS: on Postgres it may collide with one that committed
\* since the probe.
CreateTable(o) ==
    /\ At(o, "behind")
    /\ tracked' = TRUE
    /\ \/ Moves(o, "next")
       \/ ~serial /\ tracked /\ ~opener[o].sawTable /\ Moves(o, "failed")
    /\ UNCHANGED <<serial, recorded, effects, opens>>

\* The body: an error if the version is there, unless it is plain; a body that is
\* not plain waits for one that is being applied.
RunBody(o) ==
    /\ At(o, "next")
    /\ LET v == Turn(o)
       IN  /\ v \notin Plain \/ serial => Blockers(o, Applying(v)) = {}
           /\ IF v \in recorded /\ v \notin Plain THEN Moves(o, "failed") ELSE Moves(o, "applied")
    /\ UNCHANGED <<serial, tracked, recorded, effects, opens>>

\* INSERT INTO schema_migrations: waits for a record that is not committed, and
\* fails on one that is.
Note(o) ==
    /\ At(o, "applied") /\ Blockers(o, Noting(Turn(o))) = {}
    /\ Moves(o, IF Turn(o) \in recorded THEN "failed" ELSE "noted")
    /\ UNCHANGED <<serial, tracked, recorded, effects, opens>>

CommitVersion(o) ==
    /\ At(o, "noted")
    /\ LET v == Turn(o)
           rest == opener[o].todo \ {v}
       IN  /\ recorded' = recorded \union {v}
           /\ effects' = [effects EXCEPT ![v] = @ + 1]
           /\ opener' = [opener EXCEPT ![o].todo = rest,
                                       ![o].at = IF rest = {} THEN "open" ELSE "next"]
    /\ UNCHANGED <<serial, tracked, opens>>

\* A statement fails, the busy timeout ends or the process dies: what it had not
\* committed is rolled back.
Stops(o) ==
    /\ opener[o].at \in {"behind", "next", "applied", "noted"} /\ Moves(o, "failed")
    /\ UNCHANGED <<serial, tracked, recorded, effects, opens>>

\* The command is run again.
OpenAgain(o) ==
    /\ At(o, "failed") /\ opens[o] < MaxOpens
    /\ opener' = [opener EXCEPT ![o] = Closed]
    /\ UNCHANGED <<serial, tracked, recorded, effects, opens>>

\* One statement of o.
Advances(o) == ReadApplied(o) \/ CreateTable(o) \/ RunBody(o) \/ Note(o) \/ CommitVersion(o)

MigrationsNext == \E o \in Openers : Advances(o) \/ Stops(o) \/ OpenAgain(o)

MigrationsSpec == MigrationsInit /\ [][MigrationsNext]_migrationVars

-----------------------------------------------------------------------------
\* CurrentSchemaVersion: readers compare the highest version with their own.
CurrentSchemaVersion == IF recorded = {} THEN 0 ELSE Max(recorded)

\* However many openers race, crash and try again, a body takes effect once, and
\* exactly when its version is on record: a plain body that a second opener runs
\* again is rolled back with its record.
BodiesRunOnce == \A v \in Versions : effects[v] = (IF v \in recorded THEN 1 ELSE 0)

\* openDB lets a reader in when the HIGHEST version on record is high enough; that
\* is sound because no version is on record before those under it, whichever
\* binaries, old and new, apply them.  An opener that got through has them all.
SchemaIsWhole ==
    /\ 1 .. CurrentSchemaVersion \subseteq recorded
    /\ \A o \in Openers : At(o, "open") => 1 .. Known[o] \subseteq recorded

\* However many workers and binaries open a store, its schema is made once and of
\* one piece (migratePG, migrate).
MigrationsAreWhole == BodiesRunOnce /\ SchemaIsWhole
=============================================================================
