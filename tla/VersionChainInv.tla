--------------------------- MODULE VersionChainInv ---------------------------
(***************************************************************************)
(* The inductive invariant behind the safety theorems of VersionChain.     *)
(*                                                                         *)
(* OneCurrentRow and ChainsLinked speak of the committed table and are not *)
(* inductive: a commit installs the writer's view.  The invariant says     *)
(* that every writer's view is itself a set of sound chains, that rows are *)
(* locked by one writer and keys claimed by one writer, and that what a    *)
(* writer holds on a key it does not claim has the links the table has.    *)
(*                                                                         *)
(* One view is unsound for a moment: between the two statements of a split *)
(* the old row points at a row that is not there yet.  And that pointer    *)
(* may overwrite the link to a successor another writer has committed      *)
(* meanwhile: then the insert must fail.  `Restored' is the view with the  *)
(* old row's link put back; it is sound throughout.                        *)
(***************************************************************************)
EXTENDS VersionChain

Splitting(w) == phase[w] = "split"

\* The link the split of w has overwritten, or is about to set.
OldSup(w) == IF table[seen[w].id] # Absent THEN table[seen[w].id].sup ELSE NoRow

\* What w has pending, the split in progress undone.
Held(w) ==
    [r \in RowId |->
        IF Splitting(w) /\ r = seen[w].id
        THEN [pend[w][r] EXCEPT !.sup = OldSup(w)]
        ELSE pend[w][r]]

Restored(w) == [r \in RowId |-> IF pend[w][r] # Absent THEN Held(w)[r] ELSE table[r]]

\* Row r of `rows' belongs to key k.
Of(rows, r, k) == rows[r] # Absent /\ rows[r].key = k

\* No row of k lies strictly between two ids.
NoneBetween(rows, k, p, r) == \A q \in RowId : p < q /\ q < r => ~Of(rows, q, k)

LinkedUp(rows, r, k) ==
    rows[r].sup # NoRow =>
        /\ Of(rows, rows[r].sup, k)
        /\ rows[rows[r].sup].prev = r

LinkedDown(rows, r, k) ==
    rows[r].prev # NoRow =>
        /\ rows[r].prev < r
        /\ Of(rows, rows[r].prev, k)
        /\ rows[rows[r].prev].sup = r
        /\ rows[rows[r].prev].disc = rows[r].disc
        /\ NoneBetween(rows, k, rows[r].prev, r)

\* The rows of k form one chain, current at its end and ordered by id.
SoundChain(rows, k) ==
    \A r \in RowId : Of(rows, r, k) =>
        /\ LinkedUp(rows, r, k)
        /\ LinkedDown(rows, r, k)
        /\ Occupied(rows, k)
        /\ rows[r].sup = NoRow => \A s \in RowId : Of(rows, s, k) => s <= r

Sound(rows) == \A k \in Keys : SoundChain(rows, k)

-----------------------------------------------------------------------------
(* The parts of the invariant. *)

\* What a writer's program counter says of its other variables.
ControlAt(w) ==
    /\ phase[w] # "idle" => job[w] \in Jobs
    /\ phase[w] \in InTx => item[w] \in 1..Len(job[w].batch)
    /\ phase[w] \notin InTx => pend[w] = NoPend /\ item[w] = 1
    /\ phase[w] \notin Numbered \cup {"split"} => fresh[w] = NoRow

\* The row a lookup returned is there, with the key and discovery it had.
SeenAt(w) ==
    phase[w] \in {"verify", "supersede", "split"} =>
        /\ seen[w].id \in RowId
        /\ seen[w].row \in Row
        /\ seen[w].row.key = Key(w)
        /\ Of(View(w), seen[w].id, Key(w))
        /\ View(w)[seen[w].id].disc = seen[w].row.disc
        /\ phase[w] # "split" /\ pend[w][seen[w].id] # Absent
             => pend[w][seen[w].id].sup = NoRow

\* A row id that is drawn and not inserted is the writer's own.
OwnId(w) ==
    /\ fresh[w] \in RowId
    /\ table[fresh[w]] = Absent
    /\ \A u \in Writers : pend[u][fresh[w]] = Absent
    /\ \A u \in Writers \ {w} : fresh[u] # fresh[w]

\* That of a split is higher than the old row, however long the UPDATE has waited
\* since, and, if the split can still succeed, than every row of the key.
FreshAt(w) ==
    /\ fresh[w] # NoRow => OwnId(w)
    /\ phase[w] = "supersede" /\ fresh[w] # NoRow => seen[w].id < fresh[w]
    /\ Splitting(w) =>
        /\ fresh[w] # NoRow
        /\ seen[w].id < fresh[w]
        /\ pend[w][seen[w].id] # Absent
        /\ pend[w][seen[w].id].sup = fresh[w]
        /\ OldSup(w) = NoRow =>
             \A r \in RowId : Of(Restored(w), r, Key(w)) => r < fresh[w]

ControlOK == \A w \in Writers : ControlAt(w)
SeenOK == \A w \in Writers : SeenAt(w)
FreshOK == \A w \in Writers : FreshAt(w)

\* A row is locked by one writer.
LocksExclusive ==
    \A u, w \in Writers : \A r \in RowId :
        pend[u][r] # Absent /\ pend[w][r] # Absent => u = w

\* A key is claimed by one writer.
ClaimsExclusive ==
    \A u, w \in Writers : \A k \in Keys : Claims(u, k) /\ Claims(w, k) => u = w

\* An update keeps a committed row's key, content, predecessor and discovery,
\* and the link of a row that is superseded already.
UpdatesKeep ==
    \A w \in Writers : \A r \in RowId :
        pend[w][r] # Absent /\ table[r] # Absent =>
            /\ pend[w][r].key = table[r].key
            /\ pend[w][r].content = table[r].content
            /\ pend[w][r].prev = table[r].prev
            /\ pend[w][r].disc = table[r].disc
            /\ table[r].sup # NoRow => Held(w)[r].sup = table[r].sup

\* Whoever has inserted a row of k holds the committed current row of k.
InsertersHoldHead ==
    \A w \in Writers : \A r, h \in RowId :
        /\ pend[w][r] # Absent /\ table[r] = Absent
        /\ IsCurrent(table, h, pend[w][r].key)
        => pend[w][h] # Absent

ViewsSound == \A w \in Writers : Sound(Restored(w))

\* The inductive invariant.
IInv ==
    /\ TypeOK
    /\ ControlOK
    /\ SeenOK
    /\ FreshOK
    /\ LocksExclusive
    /\ ClaimsExclusive
    /\ UpdatesKeep
    /\ InsertersHoldHead
    /\ Sound(table)
    /\ ViewsSound

-----------------------------------------------------------------------------
(* What keeps a tombstone from being the archive of a tombstone.           *)

\* No tombstone of `rows' follows a tombstone.
TombstonesApart(rows) ==
    \A r \in RowId : rows[r] # Absent /\ rows[r].del /\ rows[r].prev # NoRow
                     => ~rows[rows[r].prev].del

\* The row an archive found live stays live in its view: nothing but the insert
\* of a tombstone ever deletes.
ArchiveSees(w) ==
    phase[w] \in {"supersede", "split"} /\ job[w].kind = "archive"
        => ~View(w)[seen[w].id].del

\* An update does not delete a committed row.
UpdatesKeepLive ==
    \A w \in Writers : \A r \in RowId :
        pend[w][r] # Absent /\ table[r] # Absent /\ ~table[r].del => ~pend[w][r].del

TombInv ==
    /\ TombstonesApart(table)
    /\ \A w \in Writers : TombstonesApart(View(w)) /\ ArchiveSees(w)
    /\ UpdatesKeepLive
-----------------------------------------------------------------------------
(* What keeps payloads: a version changes something, a root has no sibling, *)
(* and no statement turns a row back into a placeholder.                   *)

\* The key has no current row of the table when w has inserted a root of it; a later
\* version is populated and, unless it is a tombstone, differs from its predecessor.
NewRowAt(w, r) ==
    LET row == pend[w][r]
    IN  /\ row.prev = NoRow => ~Occupied(table, row.key)
        /\ row.prev # NoRow => ~row.ref /\ (row.del \/ row.content # View(w)[row.prev].content)
        /\ row.del => job[w].kind = "archive"

\* What the lookup's comparison has decided is still so.
ComparedAt(w) ==
    /\ phase[w] = "verify" => job[w].kind # "archive"
    /\ phase[w] \in {"supersede", "split"} /\ job[w].kind # "archive"
         => View(w)[seen[w].id].content # Content(w)

PayloadAt(w) ==
    /\ ComparedAt(w)
    /\ \A r \in RowId : pend[w][r] # Absent =>
          IF table[r] = Absent THEN NewRowAt(w, r)
                               ELSE ~table[r].ref => ~pend[w][r].ref

PayloadInv == \A w \in Writers : PayloadAt(w)

-----------------------------------------------------------------------------
(* What keeps the counters: a commit turns what its writer has counted from *)
(* rows only it sees into rows of the table, and publishing into counts.    *)

Roots(rows) == {r \in RowId : rows[r] # Absent /\ rows[r].prev = NoRow}
Later(rows) == {r \in RowId : rows[r] # Absent /\ rows[r].prev # NoRow}

\* The ids the table has no row under.
Unused == {r \in RowId : table[r] = Absent}

\* What a writer has counted are the rows it has inserted; an archive counts none.
CountedAt(w) ==
    phase[w] # "publish" =>
        /\ tally[w].new = Cardinality(Roots(pend[w]) \cap Unused)
        /\ tally[w].chg <= Cardinality(Later(pend[w]) \cap Unused)

\* An archive inserts no root.
CountsNoArchive(w) ==
    phase[w] \in InTx /\ job[w].kind = "archive" => phase[w] # "insert" /\ tally[w].new = 0

\* One ticket for each row that is committed and counted but not published.
Unpublished == {w \in Writers : phase[w] = "publish"}
Tickets(S, count) == UNION {{w} \X (1 .. count[w]) : w \in S}
NewTickets == Tickets(Unpublished, [w \in Writers |-> tally[w].new])
ChangedTickets == Tickets(Unpublished, [w \in Writers |-> tally[w].chg])

CountInv ==
    /\ \A w \in Writers : CountedAt(w) /\ CountsNoArchive(w)
    /\ IsFiniteSet(NewTickets) /\ IsFiniteSet(ChangedTickets)
    /\ upsertNew + Cardinality(NewTickets) <= Cardinality(Roots(table))
    /\ ~ackLost => upsertNew + Cardinality(NewTickets) = Cardinality(Roots(table))
    /\ upsertChanged + Cardinality(ChangedTickets) <= Cardinality(Later(table))

-----------------------------------------------------------------------------
(* What makes a commit one change of each key, when pages name a key once. *)

NamesOnce == \A b \in Batches : \A i, j \in DOMAIN b : b[i].key = b[j].key => i = j

\* The items of its page that w is done with.
Done(w) == {i \in 1 .. Len(job[w].batch) : phase[w] # "commit" => i < item[w]}

Inserted(w, r) == pend[w][r] # Absent /\ table[r] = Absent

\* What w has inserted is of items it is done with, one row of a key.
InsertedOnce(w) ==
    \A r \in RowId : Inserted(w, r) =>
        /\ \E i \in Done(w) : job[w].batch[i].key = pend[w][r].key
        /\ \A s \in RowId : Inserted(w, s) /\ pend[w][s].key = pend[w][r].key => s = r

\* A row seen to be split is still as it was seen.
SeenAsWas(w) ==
    phase[w] \in {"supersede", "split"} => View(w)[seen[w].id].content = seen[w].row.content

\* What a resolver inserts is empty.
EmptyPage(w) ==
    phase[w] # "idle" /\ job[w].kind = "placeholder"
        => \A i \in DOMAIN job[w].batch : job[w].batch[i].content = Empty
EmptyPages == \A w \in Writers : EmptyPage(w)

\* No row is a tombstone and a placeholder.
Plain(row) == ~(row.del /\ row.ref)

SameFlags(x, y) == x.del = y.del /\ x.ref = y.ref
Lifted(row) == ~row.del /\ ~row.ref

\* An update keeps the flags of a committed row or lifts them, an archive keeps them; a
\* root is no tombstone, and empty if it is a placeholder; a tombstone holds what the
\* version before it held.
MoveAt(w, r) ==
    LET row == pend[w][r]
    IN  /\ Plain(row)
        /\ table[r] # Absent =>
              SameFlags(row, table[r]) \/ (job[w].kind # "archive" /\ Lifted(row))
        /\ table[r] = Absent =>
              /\ row.prev = NoRow => ~row.del /\ (row.ref => row.content = Empty)
              /\ row.prev # NoRow /\ row.del => row.content = View(w)[row.prev].content

MovesAt(w) ==
    /\ InsertedOnce(w) /\ SeenAsWas(w)
    /\ \A r \in RowId : pend[w][r] # Absent => MoveAt(w, r)

MoveInv ==
    /\ \A r \in RowId : table[r] # Absent => Plain(table[r])
    /\ \A w \in Writers : MovesAt(w)

-----------------------------------------------------------------------------
\* All of it: what holds of the store whatever the isolation, and what holds besides
\* when pages name a key once.
StoreInv ==
    /\ IInv /\ TombInv /\ PayloadInv /\ CountInv /\ EmptyPages
    /\ NamesOnce => MoveInv

-----------------------------------------------------------------------------
(* What one connection adds: a transaction meets no other writer's rows.   *)

Alone == \A u, w \in Writers : phase[u] \in InTx /\ phase[w] \in InTx => u = w

\* The decision of the lookup holds when the statement runs.
DecidedAt(w) ==
    /\ phase[w] = "insert" /\ job[w].kind = "upsert" => ~Occupied(View(w), Key(w))
    /\ phase[w] = "verify" => /\ IsCurrent(View(w), seen[w].id, Key(w))
                              /\ View(w)[seen[w].id].content = Content(w)

\* The items of the page that are written: none of the key a split is half-way through.
Written(w) ==
    {i \in 1 .. Len(job[w].batch) :
        /\ phase[w] # "commit" => i < item[w]
        /\ Splitting(w) => job[w].batch[i].key # Key(w)}

PopulatedIn(rows, k) == \E r \in RowId : IsCurrent(rows, r, k) /\ ~rows[r].ref

LandedIn(rows, scan, it) ==
    \E r \in RowId : /\ IsCurrent(rows, r, it.key)
                     /\ rows[r].content = it.content
                     /\ rows[r].ver = scan
                     /\ ~rows[r].del /\ ~rows[r].ref

\* What a scanner has written so far its own view says.
WrittenLands(w) ==
    phase[w] \in InTx /\ job[w].kind = "upsert" =>
        LET page == job[w].batch
        IN  \A i \in Written(w) :
              /\ PopulatedIn(View(w), page[i].key)
              /\ (\A j \in Written(w) : page[j].key = page[i].key => j <= i)
                    => LandedIn(View(w), ScanOf[w], page[i])

SerialInv ==
    /\ Alone
    /\ \A w \in Writers : DecidedAt(w) /\ WrittenLands(w)
=============================================================================
