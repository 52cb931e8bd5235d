----------------------- MODULE VersionChainRefinement -----------------------
(***************************************************************************)
(* VersionChain implements ResourceHistory: the rows of a key, read in id  *)
(* order as GetResourceVersions reads them, are its history, and the flags *)
(* of its current row are its standing.  Pages name a key once (a page     *)
(* that repeats a key makes several changes to it in one commit).          *)
(***************************************************************************)
EXTENDS VersionChain

\* The ids of R in order: the i-th is the one up to which there are i.
Place(R, r) == Cardinality({s \in R : s <= r})
InIdOrder(R) == [i \in 1 .. Cardinality(R) |-> CHOOSE r \in R : Place(R, r) = i]

RowsOf(rows, k) == {r \in RowId : rows[r] # Absent /\ rows[r].key = k}

\* SELECT ... WHERE root_id = k ORDER BY discovered_at, id.
GetResourceVersions(rows, k) == InIdOrder(RowsOf(rows, k))

HistoryIn(rows, k) ==
    LET q == GetResourceVersions(rows, k) IN [i \in DOMAIN q |-> rows[q[i]].content]

StandingOf(row) ==
    CASE row.del -> "archived" [] row.ref -> "placeholder" [] OTHER -> "live"

StandingIn(rows, k) ==
    IF ~Occupied(rows, k) THEN "absent"
    ELSE StandingOf(rows[CHOOSE r \in RowId : IsCurrent(rows, r, k)])

AbstractHist == [k \in Keys |-> HistoryIn(table, k)]

AbstractStanding == [k \in Keys |-> StandingIn(table, k)]

History == INSTANCE ResourceHistory
             WITH hist <- AbstractHist, standing <- AbstractStanding

\* Every step of the store's transactions is a step of the promised history or
\* changes nothing of it: races lose calls, never part of a call, and never
\* invent, drop or reorder a version.
ImplementsHistory == History!HSpec
=============================================================================
