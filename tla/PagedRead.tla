------------------------------ MODULE PagedRead ------------------------------
(***************************************************************************)
(* Reading every current resource in pages while a scan writes: the loops  *)
(* of GraphAll (src/store/graph.go) and loadAllResourcesPaged              *)
(* (src/cmd/helpers.go) over ListResources with LIMIT and OFFSET.  Each    *)
(* page is a statement of its own, so the table may move between two.      *)
(***************************************************************************)
EXTENDS Naturals, FiniteSets, Sequences, FiniteSetsExt, SequencesExt

CONSTANTS
    Ids,            \* root ids, as numbers: the last key of the order
    Names,          \* what sorts before the id: provider, type, name, as a number
    PageSize,
    MaxWrites       \* writes of the scan while the pages are read

ASSUME PagedAssumption ==
    /\ Ids \subseteq Nat /\ IsFiniteSet(Ids) /\ Names \subseteq Nat
    /\ PageSize \in Nat \ {0} /\ MaxWrites \in Nat

VARIABLES
    named,          \* named[i]: the name of the current row of i, 0 without one
    rows,           \* ids read so far
    ended,          \* has a short page ended the loop?
    writes, steady, \* writes so far; rows none of them touched
    grew, shrank    \* did a write put a row into the order, take one out of it?

pageVars == <<named, rows, ended, writes, steady, grew, shrank>>

Gap == 0
Current == {i \in Ids : named[i] # Gap}

PagedInit ==
    /\ named \in [Ids -> Names \union {Gap}]
    /\ rows = <<>> /\ ended = FALSE
    /\ writes = 0 /\ steady = Current
    /\ grew = FALSE /\ shrank = FALSE

-----------------------------------------------------------------------------
\* Mutant of Orders: rows of one name are told apart by nothing.
OrdersPartial(S) ==
    {q \in SetToSeqs(S) : \A j, k \in 1 .. Len(q) : j < k => named[q[j]] <= named[q[k]]}

\* ORDER BY provider, type, name, root_id: the orders a query plan may use.
Orders(S) ==
    {q \in SetToSeqs(S) : \A j, k \in 1 .. Len(q) :
        j < k => \/ named[q[j]] < named[q[k]]
                 \/ named[q[j]] = named[q[k]] /\ q[j] < q[k]}

\* offset += pageSize: a full page was read each time.
Offset == Len(rows)

\* One turn of the loop; a short page is the last.
ReadPage ==
    /\ ~ended
    /\ \E q \in Orders(Current) :
          LET page == SubSeq(q, Offset + 1, Min({Offset + PageSize, Len(q)}))
          IN  /\ rows' = rows \o page
              /\ ended' = (Len(page) < PageSize)
    /\ UNCHANGED <<named, writes, steady, grew, shrank>>

\* A scan discovers, archives or renames a resource.
Write(i, name) ==
    /\ ~ended /\ writes < MaxWrites /\ named[i] # name
    /\ named' = [named EXCEPT ![i] = name]
    /\ writes' = writes + 1 /\ steady' = steady \ {i}
    /\ grew' = (grew \/ name # Gap) /\ shrank' = (shrank \/ named[i] # Gap)
    /\ UNCHANGED <<rows, ended>>

PagedNext == ReadPage \/ \E i \in Ids, name \in Names \union {Gap} : Write(i, name)

PagedSpec == PagedInit /\ [][PagedNext]_pageVars

-----------------------------------------------------------------------------
Times(i) == Cardinality({k \in 1 .. Len(rows) : rows[k] = i})

\* What the pages say of the rows that no write touched: unless a row left its place
\* in the meantime each of them was read, and unless one arrived none was read
\* twice.  Ties in provider, type and name are broken by the id, or the pages of a
\* table at rest could overlap.
PagesAgree ==
    ended => \A i \in steady : /\ ~shrank => Times(i) >= 1
                               /\ ~grew => Times(i) <= 1

\* However the table moves under it, a row at rest is missed or repeated at most
\* once for each write: reports are off by a bounded number of rows.
DriftIsBounded ==
    ended => /\ Cardinality({i \in steady : Times(i) = 0}) <= writes
             /\ \A i \in steady : Times(i) <= 1 + writes

\* What a report read in pages can be relied on for (loadAllResourcesPaged, GraphAll).
PagesAreTrue == PagesAgree /\ DriftIsBounded
=============================================================================
