------------------------- MODULE VersionChainProofs -------------------------
(***************************************************************************)
(* Proofs about VersionChain: type correctness, the soundness of the       *)
(* committed chains, that history is frozen, what versions and tombstones  *)
(* say, that the counters count rows, what one connection adds, and that   *)
(* the store implements the history it promises (ResourceHistory).         *)
(***************************************************************************)
EXTENDS VersionChainInv, VersionChainRefinement, FiniteSetTheorems, TLAPS

-----------------------------------------------------------------------------
(* Facts about the definitions. *)

\* The current item of a call names a key and a content.
LEMMA ItemType ==
    ASSUME NEW w \in Writers, job[w] \in Jobs, item[w] \in 1..Len(job[w].batch)
    PROVE  /\ Key(w) \in Keys
           /\ Content(w) \in Contents
<1>1. job[w].batch \in Seq(Item)
  BY ConstantsAssumption DEF Jobs
<1>2. job[w].batch[item[w]] \in Item
  BY <1>1
<1>3. QED
  BY <1>2 DEF Item, Key, Content

\* Absent is no row.
LEMMA RowPresent == ASSUME NEW r \in Row PROVE r # Absent
BY ConstantsAssumption

\* Every page has a first item.
LEMMA FirstItem == ASSUME NEW j \in Jobs PROVE 1 \in 1..Len(j.batch) /\ Len(j.batch) \in Nat
<1>1. j.batch \in Seq(Item) /\ j.batch # <<>>
  BY ConstantsAssumption DEF Jobs
<1>2. Len(j.batch) \in Nat /\ Len(j.batch) # 0
  BY <1>1
<1>3. QED
  BY <1>2

\* A writer's own rows and the rows it restores depend on its own variables and
\* the table only.
LEMMA Frame ==
    ASSUME NEW u \in Writers, TypeOK,
           table' = table, pend'[u] = pend[u], phase'[u] = phase[u], seen'[u] = seen[u]
    PROVE  /\ Held(u)' = Held(u)
           /\ Restored(u)' = Restored(u)
           /\ View(u)' = View(u)
           /\ OldSup(u)' = OldSup(u)
           /\ \A k \in Keys : Claims(u, k)' <=> Claims(u, k)
BY DEF Held, Restored, View, OldSup, Claims, Splitting

\* The empty table is sound.
LEMMA EmptySound == Sound(NoPend)
BY DEF Sound, SoundChain, Of, NoPend

\* The empty table satisfies the invariant (no rows, no writer has begun).
THEOREM InitIInv == Init => IInv
<1> SUFFICES ASSUME Init PROVE IInv
  OBVIOUS
<1> USE DEF Init
<1>1. TypeOK
  <2>1. NoPend \in [RowId -> Row \cup {Absent}]
    BY DEF NoPend
  <2>2. NoSeen \in [id : 0..MaxRows, row : Row \cup {Absent}]
    BY ConstantsAssumption DEF NoSeen, NoRow
  <2>3. NoRow \in 0..MaxRows /\ 1 \in 1..MaxAttempts
    BY ConstantsAssumption DEF NoRow
  <2>4. NoTally \in [new : Nat, chg : Nat] /\ "idle" \in Phases
    BY DEF NoTally, Phases
  <2>5. QED
    BY <2>1, <2>2, <2>3, <2>4 DEF TypeOK
<1>2. ControlOK /\ SeenOK /\ FreshOK
  BY DEF ControlOK, SeenOK, FreshOK, ControlAt, SeenAt, FreshAt, InTx, NoPend, Splitting, NoRow
<1>3. LocksExclusive /\ ClaimsExclusive /\ UpdatesKeep /\ InsertersHoldHead
  BY DEF LocksExclusive, ClaimsExclusive, UpdatesKeep, InsertersHoldHead, NoPend, Claims
<1>4. \A w \in Writers : Restored(w) = NoPend
  BY DEF Restored, Held, NoPend
<1>5. QED
  BY <1>1, <1>2, <1>3, <1>4, EmptySound DEF IInv, ViewsSound

-----------------------------------------------------------------------------
(* Steps that write nothing, and steps that roll back. *)

\* The variables of every other writer stay.
OthersKeep(w) ==
    \A u \in Writers \ {w} :
        /\ phase'[u] = phase[u] /\ job'[u] = job[u] /\ item'[u] = item[u]
        /\ seen'[u] = seen[u] /\ fresh'[u] = fresh[u]

\* The id w holds after the step is no other writer's.
Apart(w) == \A u \in Writers \ {w} : fresh[u] # NoRow => fresh'[w] # fresh[u]

\* So it is when w draws none.
LEMMA ApartKept ==
    ASSUME NEW w \in Writers, IInv, fresh'[w] \in {NoRow, fresh[w]}
    PROVE  Apart(w)
BY DEF Apart, IInv, FreshOK, FreshAt, OwnId

\* An id of u stays its own in a step of w that neither inserts it nor draws it.
LEMMA OwnKept ==
    ASSUME NEW w \in Writers, NEW u \in Writers \ {w}, FreshAt(u), fresh[u] # NoRow,
           OthersKeep(w), Apart(w), table'[fresh[u]] = Absent,
           \A v \in Writers : pend'[v][fresh[u]] = Absent
    PROVE  OwnId(u)'
BY DEF FreshAt, OwnId, OthersKeep, Apart

\* A step of w that leaves the database alone and is not part of a split.
LEMMA QuietStep ==
    ASSUME NEW w \in Writers, IInv, TypeOK', UNCHANGED dbVars, OthersKeep(w),
           ~Splitting(w), ~Splitting(w)', ControlAt(w)', SeenAt(w)', FreshAt(w)', Apart(w)
    PROVE  IInv'
<1> USE DEF dbVars
<1>0. TypeOK
  BY DEF IInv
<1>1. \A u \in Writers : Held(u)' = Held(u) /\ Restored(u)' = Restored(u)
  <2> TAKE u \in Writers
  <2>1. CASE u # w
    BY <2>1, <1>0, Frame DEF OthersKeep
  <2>2. CASE u = w
    BY <2>2, <1>0 DEF Held, Restored, TypeOK
  <2>3. QED
    BY <2>1, <2>2
<1>2. \A u \in Writers, k \in Keys : Claims(u, k)' <=> Claims(u, k)
  BY DEF Claims
<1>3. ControlOK'
  <2> SUFFICES ASSUME NEW u \in Writers, u # w PROVE ControlAt(u)'
    BY DEF ControlOK
  <2>1. ControlAt(u)
    BY DEF IInv, ControlOK
  <2>2. QED
    BY <2>1 DEF ControlAt, OthersKeep
<1>4. SeenOK'
  <2> SUFFICES ASSUME NEW u \in Writers, u # w PROVE SeenAt(u)'
    BY DEF SeenOK
  <2>1. SeenAt(u)
    BY DEF IInv, SeenOK
  <2>2. View(u)' = View(u) /\ Key(u)' = Key(u)
    BY DEF View, Key, OthersKeep
  <2>3. QED
    BY <2>1, <2>2 DEF SeenAt, OthersKeep
<1>5. FreshOK'
  <2> SUFFICES ASSUME NEW u \in Writers, u # w PROVE FreshAt(u)'
    BY DEF FreshOK, FreshAt
  <2>1. FreshAt(u)
    BY DEF IInv, FreshOK
  <2>2. Key(u)' = Key(u) /\ OldSup(u)' = OldSup(u) /\ (Splitting(u)' <=> Splitting(u))
    BY DEF Key, OthersKeep, OldSup, Splitting
  <2>3. fresh[u] # NoRow => OwnId(u)'
    BY <2>1, OwnKept DEF FreshAt, OwnId
  <2>4. QED
    BY <2>1, <2>2, <2>3, <1>1 DEF FreshAt, OthersKeep
<1>6. LocksExclusive' /\ ClaimsExclusive'
  BY <1>2 DEF IInv, LocksExclusive, ClaimsExclusive
<1>7. UpdatesKeep' /\ InsertersHoldHead'
  BY <1>1 DEF IInv, UpdatesKeep, InsertersHoldHead, IsCurrent
<1>8. Sound(table)' /\ ViewsSound'
  BY <1>1 DEF IInv, ViewsSound
<1>9. QED
  BY <1>3, <1>4, <1>5, <1>6, <1>7, <1>8 DEF IInv

\* A step of w that leaves the table alone and drops what w has pending.
LEMMA RollbackStep ==
    ASSUME NEW w \in Writers, IInv, TypeOK', table' = table,
           pend' = [pend EXCEPT ![w] = NoPend], OthersKeep(w),
           phase'[w] \notin InTx, ControlAt(w)'
    PROVE  IInv'
<1>0. TypeOK
  BY DEF IInv
<1>a. ~Splitting(w)' /\ pend'[w] = NoPend /\ (\A r \in RowId : pend'[w][r] = Absent)
  BY <1>0 DEF Splitting, InTx, NoPend, TypeOK
<1>d. fresh'[w] = NoRow /\ phase'[w] # "supersede"
  BY DEF ControlAt, InTx, Numbered
<1>b. \A u \in Writers \ {w} : pend'[u] = pend[u]
  BY <1>0 DEF TypeOK
<1>c. \A u \in Writers, r \in RowId : pend'[u][r] # Absent => u # w /\ pend'[u] = pend[u]
  BY <1>a, <1>b
<1>1. \A u \in Writers \ {w} : Held(u)' = Held(u) /\ Restored(u)' = Restored(u)
  <2> TAKE u \in Writers \ {w}
  <2>1. QED
    BY <1>0, <1>b, Frame DEF OthersKeep
<1>2. Restored(w)' = table
  BY <1>0, <1>a DEF Restored, TypeOK
<1>3. \A u \in Writers, k \in Keys : Claims(u, k)' => u # w /\ Claims(u, k)
  BY <1>c DEF Claims
<1>4. ControlOK'
  <2> SUFFICES ASSUME NEW u \in Writers, u # w PROVE ControlAt(u)'
    BY DEF ControlOK
  <2>1. ControlAt(u)
    BY DEF IInv, ControlOK
  <2>2. QED
    BY <2>1, <1>b DEF ControlAt, OthersKeep
<1>5. SeenOK'
  <2> SUFFICES ASSUME NEW u \in Writers, u # w PROVE SeenAt(u)'
    BY <1>a DEF SeenOK, SeenAt, InTx
  <2>1. SeenAt(u)
    BY DEF IInv, SeenOK
  <2>2. View(u)' = View(u) /\ Key(u)' = Key(u)
    BY <1>b DEF View, Key, OthersKeep
  <2>3. QED
    BY <2>1, <2>2, <1>b DEF SeenAt, OthersKeep
<1>6. FreshOK'
  <2> SUFFICES ASSUME NEW u \in Writers, u # w PROVE FreshAt(u)'
    BY <1>a, <1>d DEF FreshOK, FreshAt
  <2>1. FreshAt(u)
    BY DEF IInv, FreshOK
  <2>2. Key(u)' = Key(u) /\ OldSup(u)' = OldSup(u) /\ (Splitting(u)' <=> Splitting(u))
    BY DEF Key, OthersKeep, OldSup, Splitting
  <2>3. fresh[u] # NoRow => OwnId(u)'
    <3>1. Apart(w)
      BY <1>d, ApartKept
    <3>2. QED
      BY <2>1, <3>1, <1>a, <1>b, OwnKept DEF FreshAt, OwnId
  <2>4. QED
    BY <2>1, <2>2, <2>3, <1>1, <1>a, <1>b DEF FreshAt, OthersKeep
<1>7. LocksExclusive' /\ ClaimsExclusive'
  BY <1>3, <1>c DEF IInv, LocksExclusive, ClaimsExclusive
<1>8. UpdatesKeep' /\ InsertersHoldHead'
  BY <1>1, <1>c DEF IInv, UpdatesKeep, InsertersHoldHead, IsCurrent
<1>9. Sound(table)' /\ ViewsSound'
  BY <1>1, <1>2 DEF IInv, ViewsSound
<1>10. QED
  BY <1>4, <1>5, <1>6, <1>7, <1>8, <1>9 DEF IInv

-----------------------------------------------------------------------------
(* Commits. *)

\* Two sets of rows have the same chain for k.
Agree(v, x, k) ==
    \A r \in RowId :
        /\ Of(v, r, k) <=> Of(x, r, k)
        /\ Of(v, r, k) => /\ v[r].sup = x[r].sup
                          /\ v[r].prev = x[r].prev
                          /\ v[r].disc = x[r].disc

\* The links a row may have stay within the table.
LEMMA LinkRange ==
    ASSUME NEW r \in Row
    PROVE  /\ r.sup # NoRow => r.sup \in RowId
           /\ r.prev # NoRow => r.prev \in RowId
BY ConstantsAssumption DEF Row, RowId, NoRow

\* Soundness of a chain depends on key, links and discovery only.
LEMMA AgreeSound ==
    ASSUME NEW v \in [RowId -> Row \cup {Absent}], NEW x \in [RowId -> Row \cup {Absent}],
           NEW k \in Keys, SoundChain(v, k), Agree(v, x, k)
    PROVE  SoundChain(x, k)
<1> SUFFICES ASSUME NEW r \in RowId, Of(x, r, k)
             PROVE  /\ LinkedUp(x, r, k)
                    /\ LinkedDown(x, r, k)
                    /\ Occupied(x, k)
                    /\ x[r].sup = NoRow => \A s \in RowId : Of(x, s, k) => s <= r
  BY DEF SoundChain
<1>0. Of(v, r, k) /\ v[r] \in Row /\ v[r].sup = x[r].sup /\ v[r].prev = x[r].prev
        /\ v[r].disc = x[r].disc
  BY DEF Agree, Of
<1>1. LinkedUp(x, r, k)
  BY <1>0, LinkRange DEF SoundChain, Agree, LinkedUp
<1>2. LinkedDown(x, r, k)
  <2> SUFFICES ASSUME v[r].prev # NoRow PROVE LinkedDown(x, r, k)
    BY <1>0 DEF LinkedDown
  <2>1. v[r].prev \in RowId
    BY <1>0, LinkRange
  <2>2. LinkedDown(v, r, k)
    BY <1>0 DEF SoundChain
  <2>3. Of(x, v[r].prev, k) /\ x[v[r].prev].sup = r /\ x[v[r].prev].disc = v[r].disc
    BY <2>1, <2>2 DEF LinkedDown, Agree
  <2>4. NoneBetween(x, k, v[r].prev, r)
    BY <2>2 DEF LinkedDown, NoneBetween, Agree
  <2>5. QED
    BY <2>2, <2>3, <2>4, <1>0 DEF LinkedDown
<1>3. Occupied(x, k)
  <2>1. PICK h \in RowId : IsCurrent(v, h, k)
    BY <1>0 DEF SoundChain, Occupied
  <2>2. QED
    BY <2>1 DEF Agree, Of, Occupied, IsCurrent
<1>4. x[r].sup = NoRow => \A s \in RowId : Of(x, s, k) => s <= r
  BY <1>0 DEF SoundChain, Agree
<1>5. QED
  BY <1>1, <1>2, <1>3, <1>4

\* Views and restored views are tables, with rows of the same keys.
LEMMA ViewTypes ==
    ASSUME NEW u \in Writers, TypeOK
    PROVE  /\ View(u) \in [RowId -> Row \cup {Absent}]
           /\ ~Splitting(u) => Held(u) = pend[u] /\ Restored(u) = View(u)
<1>1. View(u) \in [RowId -> Row \cup {Absent}]
  BY DEF TypeOK, View
<1>2. ASSUME ~Splitting(u) PROVE Held(u) = pend[u] /\ Restored(u) = View(u)
  <2>1. Held(u) = pend[u]
    BY <1>2 DEF Held, TypeOK
  <2>2. QED
    BY <2>1 DEF Restored, View
<1>3. QED
  BY <1>1, <1>2

\* What a writer holds has the type of rows, and differs from what it has
\* pending in one link at most.
LEMMA HeldTypes ==
    ASSUME NEW u \in Writers, TypeOK
    PROVE  /\ Restored(u) \in [RowId -> Row \cup {Absent}]
           /\ \A r \in RowId : pend[u][r] # Absent =>
                /\ Held(u)[r] \in Row
                /\ Held(u)[r].key = pend[u][r].key
                /\ Held(u)[r].prev = pend[u][r].prev
                /\ Held(u)[r].disc = pend[u][r].disc
<1>1. ASSUME NEW r \in RowId, pend[u][r] # Absent
      PROVE  /\ Held(u)[r] \in Row
             /\ Held(u)[r].key = pend[u][r].key
             /\ Held(u)[r].prev = pend[u][r].prev
             /\ Held(u)[r].disc = pend[u][r].disc
  <2>1. pend[u][r] \in Row
    BY <1>1 DEF TypeOK
  <2>2. r = seen[u].id => OldSup(u) \in 0..MaxRows
    BY ConstantsAssumption DEF TypeOK, OldSup, NoRow, Row
  <2>3. QED
    BY <2>1, <2>2 DEF Held, Row
<1>2. QED
  BY <1>1 DEF Restored, TypeOK

\* A step in which w installs its view and drops what it has pending.
LEMMA CommitStep ==
    ASSUME NEW w \in Writers, IInv, TypeOK', phase[w] = "commit", table' = View(w),
           pend' = [pend EXCEPT ![w] = NoPend], OthersKeep(w),
           phase'[w] \notin InTx, ControlAt(w)'
    PROVE  IInv'
<1>0. TypeOK
  BY DEF IInv
<1>a. /\ ~Splitting(w)' /\ pend'[w] = NoPend /\ \A r \in RowId : pend'[w][r] = Absent
      /\ Held(w) = pend[w] /\ Restored(w) = View(w)
  BY <1>0, ViewTypes DEF Splitting, InTx, NoPend, TypeOK
<1>e. fresh'[w] = NoRow /\ phase'[w] # "supersede"
  BY DEF ControlAt, InTx, Numbered
<1>b. \A u \in Writers \ {w} : pend'[u] = pend[u] /\ (Splitting(u)' <=> Splitting(u))
  BY <1>0 DEF TypeOK, Splitting, OthersKeep
<1>c. \A u \in Writers, r \in RowId :
         pend'[u][r] # Absent => u # w /\ pend[u][r] # Absent /\ table'[r] = table[r]
  BY <1>a, <1>b DEF View, IInv, LocksExclusive
<1>d. \A r \in RowId : table[r] # Absent =>
         /\ table'[r] # Absent /\ table'[r].key = table[r].key
         /\ table'[r].prev = table[r].prev /\ table'[r].disc = table[r].disc
  BY DEF View, IInv, UpdatesKeep
<1>1. \A u \in Writers \ {w} : OldSup(u)' = OldSup(u) \/ ~Splitting(u)
  <2> SUFFICES ASSUME NEW u \in Writers \ {w}, Splitting(u) PROVE OldSup(u)' = OldSup(u)
    OBVIOUS
  <2>1. seen[u].id \in RowId /\ pend[u][seen[u].id] # Absent
    BY DEF IInv, FreshOK, FreshAt, SeenOK, SeenAt, Splitting
  <2>2. QED
    BY <2>1, <1>b, <1>c DEF OldSup, OthersKeep
<1>2. \A u \in Writers \ {w} : Held(u)' = Held(u)
  BY <1>1, <1>b DEF Held, OthersKeep
<1>3. \A u \in Writers, k \in Keys : Claims(u, k)' => u # w /\ Claims(u, k)
  BY <1>b, <1>c DEF Claims
<1>4. ASSUME NEW k \in Keys, ~Claims(w, k) PROVE Agree(table, View(w), k)
  <2> SUFFICES ASSUME NEW r \in RowId, pend[w][r] # Absent
               PROVE  /\ Of(table, r, k) <=> Of(View(w), r, k)
                      /\ Of(table, r, k) => /\ table[r].sup = View(w)[r].sup
                                            /\ table[r].prev = View(w)[r].prev
                                            /\ table[r].disc = View(w)[r].disc
    BY DEF Agree, View, Of
  <2>1. View(w)[r] = pend[w][r]
    BY DEF View
  <2>2. pend[w][r].key = k => table[r] # Absent /\ table[r].sup # NoRow
    BY <1>4 DEF Claims
  <2>3. QED
    BY <2>1, <2>2, <1>a DEF Of, IInv, UpdatesKeep
<1>5. ASSUME NEW u \in Writers \ {w}, NEW k \in Keys, ~Claims(w, k)
      PROVE  Agree(Restored(u), Restored(u)', k)
  <2>1. Agree(table, table', k)
    BY <1>4, <1>5
  <2>2. \A r \in RowId : pend[u][r] # Absent => Restored(u)'[r] = Restored(u)[r]
    BY <1>2, <1>b DEF Restored
  <2>3. \A r \in RowId : pend[u][r] = Absent =>
           Restored(u)'[r] = table'[r] /\ Restored(u)[r] = table[r]
    BY <1>b DEF Restored
  <2>4. QED
    BY <2>1, <2>2, <2>3 DEF Agree, Of
<1>6. ASSUME NEW u \in Writers \ {w}, NEW k \in Keys, ~Claims(u, k)
      PROVE  Agree(View(w), Restored(u)', k)
  <2>1. \A r \in RowId : pend[u][r] = Absent => Restored(u)'[r] = View(w)[r]
    BY <1>b DEF Restored
  <2>2. \A r \in RowId : pend[u][r] # Absent =>
           Restored(u)'[r] = Held(u)[r] /\ View(w)[r] = table[r] /\ Held(u)[r] # Absent
    BY <1>0, <1>2, <1>b, <1>c, HeldTypes, RowPresent DEF Restored
  <2>3. ASSUME NEW r \in RowId, pend[u][r] # Absent
        PROVE  /\ Of(View(w), r, k) <=> Of(Restored(u)', r, k)
               /\ Of(View(w), r, k) => /\ View(w)[r].sup = Restored(u)'[r].sup
                                       /\ View(w)[r].prev = Restored(u)'[r].prev
                                       /\ View(w)[r].disc = Restored(u)'[r].disc
    <3>1. pend[u][r].key = k => table[r] # Absent /\ table[r].sup # NoRow
      BY <1>6, <2>3 DEF Claims
    <3>2. QED
      BY <2>2, <2>3, <3>1, <1>0, HeldTypes DEF Of, IInv, UpdatesKeep
  <2>4. QED
    BY <2>1, <2>3 DEF Agree, Of
<1>7. Sound(table')
  BY <1>a DEF IInv, ViewsSound
<1>8. ViewsSound'
  <2>1. Restored(w)' = table'
    BY <1>a DEF Restored, TypeOK
  <2>2. ASSUME NEW u \in Writers \ {w}, NEW k \in Keys PROVE SoundChain(Restored(u)', k)
    <3>0. Restored(u)' \in [RowId -> Row \cup {Absent}]
      BY <1>2, <1>b, <1>0, HeldTypes DEF Restored, TypeOK
    <3>1. CASE ~Claims(w, k)
      <4>1. SoundChain(Restored(u), k)
        BY DEF IInv, ViewsSound, Sound
      <4>2. QED
        BY <4>1, <3>0, <3>1, <1>5, <1>0, HeldTypes, AgreeSound
    <3>2. CASE ~Claims(u, k)
      <4>1. SoundChain(View(w), k)
        BY <1>a DEF IInv, ViewsSound, Sound
      <4>2. QED
        BY <4>1, <3>0, <3>2, <1>6, <1>0, ViewTypes, AgreeSound
    <3>3. QED
      BY <3>1, <3>2 DEF IInv, ClaimsExclusive
  <2>3. QED
    BY <2>1, <2>2, <1>7 DEF ViewsSound, Sound
<1>9. ControlOK'
  <2> SUFFICES ASSUME NEW u \in Writers, u # w PROVE ControlAt(u)'
    BY DEF ControlOK
  <2>1. ControlAt(u)
    BY DEF IInv, ControlOK
  <2>2. QED
    BY <2>1, <1>b DEF ControlAt, OthersKeep
<1>10. SeenOK'
  <2> SUFFICES ASSUME NEW u \in Writers, u # w PROVE SeenAt(u)'
    BY <1>a DEF SeenOK, SeenAt, InTx
  <2>1. SeenAt(u)
    BY DEF IInv, SeenOK
  <2>2. Key(u)' = Key(u)
    BY DEF Key, OthersKeep
  <2>3. \A r \in RowId : Of(View(u), r, Key(u)) =>
           Of(View(u)', r, Key(u)) /\ View(u)'[r].disc = View(u)[r].disc
    BY <1>b, <1>d DEF View, Of
  <2>4. QED
    BY <2>1, <2>2, <2>3, <1>b DEF SeenAt, OthersKeep
<1>11. FreshOK'
  <2> SUFFICES ASSUME NEW u \in Writers, u # w PROVE FreshAt(u)'
    BY <1>a, <1>e DEF FreshOK, FreshAt
  <2>1. FreshAt(u) /\ SeenAt(u) /\ ControlAt(u)
    BY DEF IInv, FreshOK, SeenOK, ControlOK
  <2>2. Key(u)' = Key(u) /\ (Splitting(u) => OldSup(u)' = OldSup(u))
    BY <1>1 DEF Key, OthersKeep
  <2>3. Splitting(u) => Key(u) \in Keys
    BY <2>1, ItemType DEF ControlAt, Splitting, InTx
  <2>4. Splitting(u) /\ OldSup(u) = NoRow => Agree(Restored(u), Restored(u)', Key(u))
    <3> SUFFICES ASSUME Splitting(u), OldSup(u) = NoRow PROVE ~Claims(w, Key(u))
      BY <1>5, <2>3
    <3>1. Claims(u, Key(u))
      BY <2>1 DEF FreshAt, SeenAt, Splitting, View, Of, OldSup, Claims
    <3>2. QED
      BY <3>1, <2>3 DEF IInv, ClaimsExclusive
  <2>5. fresh[u] # NoRow => OwnId(u)'
    <3> SUFFICES ASSUME fresh[u] # NoRow PROVE OwnId(u)'
      OBVIOUS
    <3>1. Apart(w)
      BY <1>e, ApartKept
    <3>2. table'[fresh[u]] = Absent
      BY <2>1 DEF FreshAt, OwnId, View
    <3>3. \A v \in Writers : pend'[v][fresh[u]] = Absent
      BY <2>1, <1>a, <1>b DEF FreshAt, OwnId
    <3>4. QED
      BY <2>1, <3>1, <3>2, <3>3, OwnKept
  <2>6. Splitting(u)' => FreshAt(u)'
    BY <2>1, <2>2, <2>4, <2>5, <1>b DEF FreshAt, OthersKeep, Agree
  <2>7. QED
    BY <2>1, <2>5, <2>6 DEF FreshAt, OthersKeep
<1>12. LocksExclusive' /\ ClaimsExclusive'
  BY <1>3, <1>b, <1>c DEF IInv, LocksExclusive, ClaimsExclusive
<1>13. UpdatesKeep'
  BY <1>2, <1>b, <1>c DEF IInv, UpdatesKeep
<1>14. InsertersHoldHead'
  <2> SUFFICES ASSUME NEW u \in Writers, NEW r \in RowId, NEW h \in RowId,
                      pend'[u][r] # Absent, table'[r] = Absent,
                      IsCurrent(table', h, pend'[u][r].key)
               PROVE  pend'[u][h] # Absent
    BY DEF InsertersHoldHead
  <2>1. u # w /\ pend'[u] = pend[u] /\ table[r] = Absent /\ pend[u][r] \in Row
    BY <1>0, <1>b, <1>c DEF TypeOK
  <2>2. pend[u][r].key \in Keys
    BY <2>1 DEF Row
  <2>3. Claims(u, pend[u][r].key)
    BY <2>1 DEF Claims
  <2>4. Agree(table, table', pend[u][r].key)
    BY <1>4, <2>1, <2>2, <2>3 DEF IInv, ClaimsExclusive
  <2>5. IsCurrent(table, h, pend[u][r].key)
    BY <2>1, <2>4 DEF Agree, Of, IsCurrent
  <2>6. QED
    BY <2>1, <2>5 DEF IInv, InsertersHoldHead
<1>15. QED
  BY <1>7, <1>8, <1>9, <1>10, <1>11, <1>12, <1>13, <1>14 DEF IInv
-----------------------------------------------------------------------------
(* Steps that write rows. *)

\* A step in which only w's pending rows and control change keeps the invariant
\* if w's own part of it holds afterwards and w took no row, key or reserved id
\* of another writer.
LEMMA WriteStep ==
    ASSUME NEW w \in Writers, IInv, TypeOK', table' = table,
           \A u \in Writers \ {w} : pend'[u] = pend[u], OthersKeep(w),
           ControlAt(w)', SeenAt(w)', FreshAt(w)', Sound(Restored(w)'),
           \A u \in Writers \ {w} : \A r \in RowId :
               pend'[w][r] # Absent => pend[u][r] = Absent,
           \A u \in Writers \ {w} : \A k \in Keys : Claims(w, k)' => ~Claims(u, k),
           Apart(w),
           \A u \in Writers \ {w} : fresh[u] # NoRow => pend'[w][fresh[u]] = Absent,
           \A r \in RowId : pend'[w][r] # Absent /\ table[r] # Absent =>
               /\ pend'[w][r].key = table[r].key
               /\ pend'[w][r].content = table[r].content
               /\ pend'[w][r].prev = table[r].prev
               /\ pend'[w][r].disc = table[r].disc
               /\ table[r].sup # NoRow => Held(w)'[r].sup = table[r].sup,
           \A r, h \in RowId :
               /\ pend'[w][r] # Absent /\ table[r] = Absent
               /\ IsCurrent(table, h, pend'[w][r].key)
               => pend'[w][h] # Absent
    PROVE  IInv'
<1>0. TypeOK
  BY DEF IInv
<1>1. \A u \in Writers \ {w} : /\ Held(u)' = Held(u) /\ Restored(u)' = Restored(u)
                                /\ View(u)' = View(u) /\ OldSup(u)' = OldSup(u)
                                /\ \A k \in Keys : Claims(u, k)' <=> Claims(u, k)
  <2> TAKE u \in Writers \ {w}
  <2>1. QED
    BY <1>0, Frame DEF OthersKeep
<1>2. ControlOK'
  <2> SUFFICES ASSUME NEW u \in Writers, u # w PROVE ControlAt(u)'
    BY DEF ControlOK
  <2>1. ControlAt(u)
    BY DEF IInv, ControlOK
  <2>2. QED
    BY <2>1 DEF ControlAt, OthersKeep
<1>3. SeenOK'
  <2> SUFFICES ASSUME NEW u \in Writers, u # w PROVE SeenAt(u)'
    BY DEF SeenOK
  <2>1. SeenAt(u)
    BY DEF IInv, SeenOK
  <2>2. Key(u)' = Key(u)
    BY DEF Key, OthersKeep
  <2>3. QED
    BY <2>1, <2>2, <1>1 DEF SeenAt, OthersKeep
<1>4. FreshOK'
  <2> SUFFICES ASSUME NEW u \in Writers, u # w PROVE FreshAt(u)'
    BY DEF FreshOK
  <2>1. FreshAt(u)
    BY DEF IInv, FreshOK
  <2>2. Key(u)' = Key(u)
    BY DEF Key, OthersKeep
  <2>3. fresh[u] # NoRow => OwnId(u)'
    BY <2>1, OwnKept DEF FreshAt, OwnId
  <2>4. Splitting(u)' <=> Splitting(u)
    BY DEF Splitting, OthersKeep
  <2>5. QED
    BY <2>1, <2>2, <2>3, <2>4, <1>1 DEF FreshAt, OthersKeep
<1>5. LocksExclusive'
  BY DEF IInv, LocksExclusive
<1>6. ClaimsExclusive'
  BY <1>1 DEF IInv, ClaimsExclusive
<1>7. UpdatesKeep'
  BY <1>1 DEF IInv, UpdatesKeep
<1>8. InsertersHoldHead'
  BY DEF IInv, InsertersHoldHead, IsCurrent
<1>9. ViewsSound' /\ Sound(table)'
  BY <1>1 DEF IInv, ViewsSound
<1>10. QED
  BY <1>2, <1>3, <1>4, <1>5, <1>6, <1>7, <1>8, <1>9 DEF IInv

\* Whoever can lock the committed current row of a key is the only one with a
\* claim on it.
LEMMA LockExcludesClaims ==
    ASSUME NEW w \in Writers, IInv, NEW o \in RowId, NEW k \in Keys,
           RowFree(w, o), IsCurrent(table, o, k), NEW u \in Writers \ {w}
    PROVE  ~Claims(u, k)
<1> SUFFICES ASSUME Claims(u, k) PROVE FALSE
  OBVIOUS
<1>1. PICK r \in RowId : /\ pend[u][r] # Absent /\ pend[u][r].key = k
                         /\ table[r] # Absent => table[r].sup = NoRow
  BY DEF Claims
<1>2. CASE table[r] = Absent
  BY <1>1, <1>2 DEF IInv, InsertersHoldHead, RowFree
<1>3. CASE table[r] # Absent
  <2>1. Of(table, r, k) /\ Of(table, o, k)
    BY <1>1, <1>3 DEF IInv, UpdatesKeep, Of, IsCurrent
  <2>2. r <= o /\ o <= r
    BY <1>1, <1>3, <2>1 DEF IInv, Sound, SoundChain, IsCurrent
  <2>3. r = o
    BY <2>2 DEF RowId
  <2>4. QED
    BY <1>1, <2>3 DEF RowFree
<1>4. QED
  BY <1>2, <1>3

\* An update of one row by w, lock taken, steals no lock, claim or id.
LEMMA LockRow ==
    ASSUME NEW w \in Writers, IInv, TypeOK', NEW o \in RowId, NEW x \in Row, table' = table,
           pend' = [pend EXCEPT ![w][o] = x],
           RowFree(w, o), Of(View(w), o, x.key), x.prev = View(w)[o].prev,
           x.content = View(w)[o].content, x.disc = View(w)[o].disc
    PROVE  /\ \A u \in Writers \ {w} : pend'[u] = pend[u]
           /\ pend'[w][o] = x
           /\ \A r \in RowId \ {o} : pend'[w][r] = pend[w][r]
           /\ \A u \in Writers \ {w} : \A r \in RowId :
                pend'[w][r] # Absent => pend[u][r] = Absent
           /\ \A u \in Writers \ {w} : \A k \in Keys : Claims(w, k)' => ~Claims(u, k)
           /\ \A u \in Writers \ {w} : fresh[u] # NoRow => pend'[w][fresh[u]] = Absent
           /\ \A r \in RowId : pend'[w][r] # Absent /\ table[r] # Absent =>
                /\ pend'[w][r].key = table[r].key
                /\ pend'[w][r].content = table[r].content
                /\ pend'[w][r].prev = table[r].prev
                /\ pend'[w][r].disc = table[r].disc
           /\ \A r, h \in RowId :
                /\ pend'[w][r] # Absent /\ table[r] = Absent
                /\ IsCurrent(table, h, pend'[w][r].key)
                => pend'[w][h] # Absent
<1>0. TypeOK
  BY DEF IInv
<1>1. /\ \A u \in Writers \ {w} : pend'[u] = pend[u]
      /\ pend'[w][o] = x
      /\ \A r \in RowId \ {o} : pend'[w][r] = pend[w][r]
  BY <1>0 DEF TypeOK
<1>x. x # Absent /\ x.key \in Keys
  BY RowPresent DEF Row
<1>v. /\ pend[w][o] # Absent => View(w)[o] = pend[w][o]
      /\ pend[w][o] = Absent => View(w)[o] = table[o] /\ table[o] # Absent
  BY DEF View, Of
<1>2. \A u \in Writers \ {w} : \A r \in RowId : pend'[w][r] # Absent => pend[u][r] = Absent
  BY <1>1 DEF IInv, LocksExclusive, RowFree
<1>3. ASSUME NEW u \in Writers \ {w}, NEW k \in Keys, Claims(w, k)' PROVE ~Claims(u, k)
  <2>1. PICK r \in RowId : /\ pend'[w][r] # Absent /\ pend'[w][r].key = k
                           /\ table[r] # Absent => table[r].sup = NoRow
    BY <1>3 DEF Claims
  <2>2. CASE pend[w][r] # Absent
    <3>1. pend[w][r].key = k
      BY <1>1, <1>v, <2>1, <2>2 DEF Of
    <3>2. Claims(w, k)
      BY <2>1, <2>2, <3>1 DEF Claims
    <3>3. QED
      BY <3>2 DEF IInv, ClaimsExclusive
  <2>3. CASE pend[w][r] = Absent
    <3>1. r = o
      BY <1>1, <2>1, <2>3
    <3>2. IsCurrent(table, o, k)
      BY <1>1, <1>v, <2>1, <2>3, <3>1 DEF Of, IsCurrent
    <3>3. QED
      BY <3>2, LockExcludesClaims
  <2>4. QED
    BY <2>2, <2>3
<1>4. ASSUME NEW u \in Writers \ {w}, fresh[u] # NoRow PROVE pend'[w][fresh[u]] = Absent
  <2>1. /\ fresh[u] \in RowId /\ table[fresh[u]] = Absent /\ pend[w][fresh[u]] = Absent
    BY <1>4 DEF IInv, FreshOK, FreshAt, OwnId
  <2>2. fresh[u] # o
    BY <2>1, <1>v
  <2>3. QED
    BY <2>1, <2>2, <1>1
<1>5. ASSUME NEW r \in RowId, pend'[w][r] # Absent, table[r] # Absent
      PROVE  /\ pend'[w][r].key = table[r].key
             /\ pend'[w][r].content = table[r].content
             /\ pend'[w][r].prev = table[r].prev
             /\ pend'[w][r].disc = table[r].disc
  BY <1>1, <1>v, <1>5 DEF IInv, UpdatesKeep, Of
<1>6. ASSUME NEW r \in RowId, NEW h \in RowId, pend'[w][r] # Absent, table[r] = Absent,
             IsCurrent(table, h, pend'[w][r].key)
      PROVE  pend'[w][h] # Absent
  <2>1. pend[w][r] # Absent /\ pend[w][r].key = pend'[w][r].key
    BY <1>1, <1>v, <1>6 DEF Of
  <2>2. pend[w][h] # Absent
    BY <1>6, <2>1 DEF IInv, InsertersHoldHead
  <2>3. QED
    BY <2>2, <1>1, <1>x
<1>7. QED
  BY <1>1, <1>2, <1>3, <1>4, <1>5, <1>6
-----------------------------------------------------------------------------
(* Control. *)

\* The control variables other than a writer's phase have their types.
CtlTypes ==
    /\ job \in [Writers -> Jobs \cup {Absent}]
    /\ item \in [Writers -> Nat]
    /\ attempt \in [Writers -> 1..MaxAttempts]
    /\ seen \in [Writers -> [id : 0..MaxRows, row : Row \cup {Absent}]]
    /\ fresh \in [Writers -> 0..MaxRows]
    /\ tally \in [Writers -> [new : Nat, chg : Nat]]

\* The initial values of a writer's variables have their types.
LEMMA BlankTypes ==
    /\ NoPend \in [RowId -> Row \cup {Absent}]
    /\ NoSeen \in [id : 0..MaxRows, row : Row \cup {Absent}]
    /\ NoRow \in 0..MaxRows
    /\ 1 \in 1..MaxAttempts
    /\ NoTally \in [new : Nat, chg : Nat]
BY ConstantsAssumption DEF NoPend, NoSeen, NoRow, NoTally

\* After a row is done the writer stands before a statement that has read
\* nothing yet.
LEMMA AdvanceOK ==
    ASSUME NEW w \in Writers, TypeOK, ControlAt(w), phase[w] \in InTx, Advance(w)
    PROVE  /\ OthersKeep(w)
           /\ phase' \in [Writers -> Phases]
           /\ job' = job /\ attempt' = attempt
           /\ item' \in [Writers -> Nat]
           /\ seen' \in [Writers -> [id : 0..MaxRows, row : Row \cup {Absent}]]
           /\ fresh' \in [Writers -> 0..MaxRows]
           /\ fresh'[w] = NoRow
           /\ phase'[w] \in {"lookup", "insert", "commit"}
           /\ ControlAt(w)' /\ SeenAt(w)' /\ FreshAt(w)' /\ ~Splitting(w)'
<1>1. /\ OthersKeep(w)
      /\ job' = job /\ attempt' = attempt
      /\ seen' \in [Writers -> [id : 0..MaxRows, row : Row \cup {Absent}]]
      /\ fresh' \in [Writers -> 0..MaxRows]
      /\ fresh'[w] = NoRow
  BY BlankTypes DEF Advance, OthersKeep, TypeOK
<1>2. job[w] \in Jobs /\ item[w] \in 1..Len(job[w].batch) /\ Len(job[w].batch) \in Nat
  BY FirstItem DEF ControlAt, InTx
<1>3. /\ item' \in [Writers -> Nat]
      /\ item'[w] \in 1..Len(job[w].batch)
  <2>1. CASE item[w] < Len(job[w].batch)
    <3>1. item' = [item EXCEPT ![w] = @ + 1]
      BY <2>1 DEF Advance
    <3>2. item[w] + 1 \in Nat /\ item[w] + 1 \in 1..Len(job[w].batch)
      BY <1>2, <2>1
    <3>3. QED
      BY <3>1, <3>2 DEF TypeOK
  <2>2. CASE ~(item[w] < Len(job[w].batch))
    BY <1>2, <2>2 DEF Advance, TypeOK
  <2>3. QED
    BY <2>1, <2>2
<1>4. /\ phase'[w] \in {"lookup", "insert", "commit"}
      /\ phase' \in [Writers -> Phases]
  BY DEF Advance, TypeOK, FirstPhase, Phases, InTx
<1>5. ControlAt(w)' /\ SeenAt(w)' /\ FreshAt(w)' /\ ~Splitting(w)'
  BY <1>1, <1>2, <1>3, <1>4 DEF ControlAt, SeenAt, FreshAt, Splitting, InTx, Numbered
<1>6. QED
  BY <1>1, <1>3, <1>4, <1>5

\* After a transaction nothing of it is left.
LEMMA LeaveOK ==
    ASSUME NEW w \in Writers, TypeOK, ControlAt(w), phase[w] # "idle",
           NEW p \in {"idle", "begin", "publish"}, Leave(w, p)
    PROVE  /\ OthersKeep(w)
           /\ pend' = [pend EXCEPT ![w] = NoPend]
           /\ pend' \in [Writers -> [RowId -> Row \cup {Absent}]]
           /\ phase' \in [Writers -> Phases]
           /\ job' \in [Writers -> Jobs \cup {Absent}]
           /\ item' \in [Writers -> Nat]
           /\ seen' \in [Writers -> [id : 0..MaxRows, row : Row \cup {Absent}]]
           /\ fresh' \in [Writers -> 0..MaxRows]
           /\ phase'[w] = p /\ phase'[w] \notin InTx
           /\ ControlAt(w)'
<1>1. /\ OthersKeep(w)
      /\ pend' = [pend EXCEPT ![w] = NoPend]
      /\ pend' \in [Writers -> [RowId -> Row \cup {Absent}]]
      /\ job' \in [Writers -> Jobs \cup {Absent}]
      /\ item' \in [Writers -> Nat]
      /\ seen' \in [Writers -> [id : 0..MaxRows, row : Row \cup {Absent}]]
      /\ fresh' \in [Writers -> 0..MaxRows]
  BY BlankTypes DEF Leave, OthersKeep, TypeOK
<1>2. /\ phase'[w] = p /\ phase'[w] \notin InTx
      /\ phase' \in [Writers -> Phases]
  BY DEF Leave, TypeOK, Phases, InTx
<1>3. /\ p # "idle" => job' = job
      /\ item'[w] = 1 /\ pend'[w] = NoPend /\ fresh'[w] = NoRow
  BY DEF Leave, TypeOK
<1>4. job[w] \in Jobs /\ 1 \in 1..Len(job[w].batch)
  BY FirstItem DEF ControlAt
<1>5. ControlAt(w)'
  BY <1>2, <1>3, <1>4 DEF ControlAt
<1>6. QED
  BY <1>1, <1>2, <1>5

\* Both ways a failed transaction goes on are rollbacks, with typed variables.
LEMMA RollbackOK ==
    ASSUME NEW w \in Writers, TypeOK, ControlAt(w), phase[w] # "idle",
           RetryOrGiveUp(w) \/ Return(w)
    PROVE  /\ OthersKeep(w)
           /\ pend' = [pend EXCEPT ![w] = NoPend]
           /\ pend' \in [Writers -> [RowId -> Row \cup {Absent}]]
           /\ phase' \in [Writers -> Phases]
           /\ CtlTypes'
           /\ phase'[w] \notin InTx
           /\ ControlAt(w)'
<1>1. PICK p \in {"idle", "begin", "publish"} : Leave(w, p)
  BY DEF RetryOrGiveUp, Return
<1>2. attempt' \in [Writers -> 1..MaxAttempts]
  <2>1. attempt[w] \in 1..MaxAttempts /\ MaxAttempts \in Nat
    BY ConstantsAssumption DEF TypeOK
  <2>2. attempt[w] < MaxAttempts => attempt[w] + 1 \in 1..MaxAttempts
    BY <2>1
  <2>3. QED
    BY <2>2, BlankTypes DEF RetryOrGiveUp, Return, TypeOK
<1>3. tally' \in [Writers -> [new : Nat, chg : Nat]]
  BY BlankTypes DEF RetryOrGiveUp, Return, TypeOK
<1>4. QED
  BY <1>1, <1>2, <1>3, LeaveOK DEF CtlTypes
-----------------------------------------------------------------------------
(* The actions that write nothing, and those that only roll back. *)

\* Entering a call keeps the invariant.
LEMMA CallKeeps ==
    ASSUME NEW w \in Writers, NEW kind \in Kinds, NEW b \in Batches, IInv, Call(w, kind, b)
    PROVE  IInv'
<1>0. TypeOK /\ ControlAt(w)
  BY DEF IInv, ControlOK
<1>1. [kind |-> kind, batch |-> b] \in Jobs
  BY DEF Jobs
<1>2. /\ job' \in [Writers -> Jobs \cup {Absent}] /\ job'[w] \in Jobs
      /\ phase' \in [Writers -> Phases] /\ phase'[w] = "begin"
      /\ OthersKeep(w)
  BY <1>0, <1>1 DEF Call, TypeOK, Phases, OthersKeep
<1>3. TypeOK' /\ UNCHANGED dbVars
  BY <1>0, <1>2 DEF Call, TypeOK, dbVars, counterVars, histVars
<1>4. ~Splitting(w) /\ ~Splitting(w)' /\ SeenAt(w)' /\ ControlAt(w)'
  BY <1>0, <1>2 DEF Call, Splitting, SeenAt, ControlAt, InTx, dbVars, Numbered
<1>5. fresh'[w] = NoRow
  BY <1>0 DEF Call, ControlAt, Numbered
<1>6. QED
  BY <1>2, <1>3, <1>4, <1>5, ApartKept, QuietStep DEF FreshAt

\* Opening the transaction keeps the invariant.
LEMMA BeginTxKeeps ==
    ASSUME NEW w \in Writers, IInv, BeginTx(w)
    PROVE  IInv'
<1>0. TypeOK /\ ControlAt(w)
  BY DEF IInv, ControlOK
<1>1. job[w] \in Jobs /\ 1 \in 1..Len(job[w].batch)
  BY <1>0, FirstItem DEF ControlAt, BeginTx
<1>2. /\ phase' \in [Writers -> Phases] /\ phase'[w] \in {"lookup", "insert"}
      /\ OthersKeep(w)
  BY <1>0 DEF BeginTx, TypeOK, Phases, InTx, OthersKeep, FirstPhase
<1>3. TypeOK' /\ UNCHANGED dbVars
  BY <1>0, <1>2 DEF BeginTx, TypeOK, dbVars, counterVars, histVars
<1>4. ~Splitting(w) /\ ~Splitting(w)' /\ SeenAt(w)' /\ ControlAt(w)'
  BY <1>0, <1>1, <1>2 DEF BeginTx, Splitting, SeenAt, ControlAt, InTx, dbVars, Numbered
<1>5. fresh'[w] = NoRow
  BY <1>0 DEF BeginTx, ControlAt, Numbered
<1>6. QED
  BY <1>2, <1>3, <1>4, <1>5, ApartKept, QuietStep DEF FreshAt

\* What a lookup that found row r sets up is right for the statements after it.
LEMMA FoundOK ==
    ASSUME NEW w \in Writers, IInv, TypeOK', phase[w] = "lookup", UNCHANGED dbVars,
           NEW r \in RowId, IsCurrent(View(w), r, Key(w)),
           seen' = [seen EXCEPT ![w] = [id |-> r, row |-> View(w)[r]]],
           phase' = [phase EXCEPT ![w] = "verify"] \/ phase' = [phase EXCEPT ![w] = "supersede"],
           UNCHANGED <<job, item, attempt, fresh, tally>>
    PROVE  IInv'
<1>0. TypeOK /\ ControlAt(w)
  BY DEF IInv, ControlOK
<1>1. phase'[w] \in {"verify", "supersede"} /\ OthersKeep(w)
  BY <1>0 DEF TypeOK, OthersKeep
<1>2. View(w)[r] \in Row
  BY <1>0, ViewTypes DEF IsCurrent
<1>3. seen'[w].id = r /\ seen'[w].row = View(w)[r]
  BY <1>0 DEF TypeOK
<1>4. View(w)' = View(w) /\ Key(w)' = Key(w)
  BY DEF View, Key, dbVars
<1>5. SeenAt(w)'
  <2>1. pend[w][r] # Absent => pend[w][r].sup = NoRow
    BY DEF View, IsCurrent
  <2>2. QED
    BY <1>1, <1>2, <1>3, <1>4, <2>1 DEF SeenAt, IsCurrent, Of, dbVars
<1>6. ~Splitting(w) /\ ~Splitting(w)' /\ ControlAt(w)' /\ fresh'[w] = NoRow
  BY <1>0, <1>1 DEF Splitting, ControlAt, InTx, dbVars, Numbered
<1>7. QED
  BY <1>1, <1>5, <1>6, ApartKept, QuietStep DEF FreshAt

\* A found row is well typed.
LEMMA FoundTypes ==
    ASSUME NEW w \in Writers, TypeOK, NEW r \in RowId, IsCurrent(View(w), r, Key(w)),
           seen' = [seen EXCEPT ![w] = [id |-> r, row |-> View(w)[r]]]
    PROVE  seen' \in [Writers -> [id : 0..MaxRows, row : Row \cup {Absent}]]
<1>1. View(w)[r] \in Row \cup {Absent}
  BY ViewTypes
<1>2. r \in 0..MaxRows
  BY ConstantsAssumption DEF RowId
<1>3. QED
  BY <1>1, <1>2 DEF TypeOK

\* The upsert's lookup keeps the invariant.
LEMMA UpsertLookupKeeps ==
    ASSUME NEW w \in Writers, IInv, UpsertLookup(w)
    PROVE  IInv'
<1>0. TypeOK /\ ControlAt(w)
  BY DEF IInv, ControlOK
<1> USE DEF UpsertLookup
<1>1. CASE ~Occupied(View(w), Key(w)) /\ phase' = [phase EXCEPT ![w] = "insert"]
             /\ UNCHANGED seen
  <2>1. phase' \in [Writers -> Phases] /\ phase'[w] = "insert" /\ OthersKeep(w)
    BY <1>0, <1>1 DEF TypeOK, Phases, InTx, OthersKeep
  <2>2. TypeOK' /\ UNCHANGED dbVars
    BY <1>0, <1>1, <2>1 DEF TypeOK, dbVars, counterVars, histVars
  <2>3. ~Splitting(w) /\ ~Splitting(w)' /\ SeenAt(w)' /\ ControlAt(w)' /\ fresh'[w] = NoRow
    BY <1>0, <2>1 DEF Splitting, SeenAt, ControlAt, InTx, dbVars, Numbered
  <2>4. QED
    BY <2>1, <2>2, <2>3, ApartKept, QuietStep DEF FreshAt
<1>2. ASSUME NEW r \in RowId, IsCurrent(View(w), r, Key(w)),
             seen' = [seen EXCEPT ![w] = [id |-> r, row |-> View(w)[r]]],
             phase' = [phase EXCEPT ![w] =
                 IF View(w)[r].content = Content(w) THEN "verify" ELSE "supersede"]
      PROVE  IInv'
  <2>1. phase' = [phase EXCEPT ![w] = "verify"] \/ phase' = [phase EXCEPT ![w] = "supersede"]
    BY <1>2
  <2>2. seen' \in [Writers -> [id : 0..MaxRows, row : Row \cup {Absent}]]
    BY <1>0, <1>2, FoundTypes
  <2>3. phase' \in [Writers -> Phases]
    BY <1>0, <2>1 DEF TypeOK, Phases, InTx
  <2>4. TypeOK'
    BY <1>0, <2>2, <2>3 DEF TypeOK, dbVars, counterVars, histVars
  <2>5. QED
    BY <1>2, <2>1, <2>4, FoundOK
<1>3. QED
  BY <1>1, <1>2

\* The archive's lookup keeps the invariant, whether or not it finds a row.
LEMMA ArchiveLookupKeeps ==
    ASSUME NEW w \in Writers, IInv, ArchiveLookup(w)
    PROVE  IInv'
<1>0. TypeOK /\ ControlAt(w)
  BY DEF IInv, ControlOK
<1> USE DEF ArchiveLookup
<1>1. CASE Return(w)
  <2>1. phase[w] # "idle"
    OBVIOUS
  <2>2. TypeOK'
    BY <1>0, <1>1, <2>1, RollbackOK DEF TypeOK, CtlTypes, counterVars, histVars
  <2>3. QED
    BY <1>0, <1>1, <2>1, <2>2, RollbackOK, RollbackStep
<1>2. ASSUME NEW r \in RowId, IsCurrent(View(w), r, Key(w)),
             seen' = [seen EXCEPT ![w] = [id |-> r, row |-> View(w)[r]]],
             phase' = [phase EXCEPT ![w] = "supersede"],
             UNCHANGED <<pend, job, item, attempt, fresh, tally>>
      PROVE  IInv'
  <2>1. seen' \in [Writers -> [id : 0..MaxRows, row : Row \cup {Absent}]]
    BY <1>0, <1>2, FoundTypes
  <2>2. phase' \in [Writers -> Phases]
    BY <1>0, <1>2 DEF TypeOK, Phases, InTx
  <2>3. TypeOK' /\ UNCHANGED dbVars
    BY <1>0, <1>2, <2>1, <2>2 DEF TypeOK, dbVars, counterVars, histVars
  <2>4. QED
    BY <1>2, <2>3, FoundOK
<1>3. QED
  BY <1>1, <1>2

\* Every way a transaction ends without a commit keeps the invariant.
LEMMA FailureKeeps ==
    ASSUME NEW w \in Writers, IInv,
           ConnectionLost(w) \/ StatementFails(w) \/ DeadlockVictim(w)
    PROVE  IInv'
<1>0. TypeOK /\ ControlAt(w)
  BY DEF IInv, ControlOK
<1>1. /\ RetryOrGiveUp(w) \/ Return(w)
      /\ UNCHANGED <<table, counterVars, histVars>>
  BY DEF ConnectionLost, StatementFails, DeadlockVictim
<1>2. phase[w] # "idle"
  <2>1. CASE ConnectionLost(w) \/ StatementFails(w)
    BY <2>1 DEF ConnectionLost, StatementFails, InTx
  <2>2. CASE DeadlockVictim(w)
    <3>1. \E v \in Writers : WaitsFor(w, v)
      BY <2>2 DEF DeadlockVictim
    <3>2. QED
      BY <3>1 DEF WaitsFor
  <2>3. QED
    BY <2>1, <2>2
<1>3. TypeOK'
  BY <1>0, <1>1, <1>2, RollbackOK DEF TypeOK, CtlTypes, counterVars, histVars
<1>4. QED
  BY <1>0, <1>1, <1>2, <1>3, RollbackOK, RollbackStep

\* Publishing the counters keeps the invariant.
LEMMA PublishKeeps ==
    ASSUME NEW w \in Writers, IInv, Publish(w)
    PROVE  IInv'
<1>0. TypeOK /\ ControlAt(w)
  BY DEF IInv, ControlOK
<1>1. phase[w] # "idle" /\ Return(w) /\ table' = table
  BY DEF Publish
<1>2. upsertNew' \in Nat /\ upsertChanged' \in Nat
  <2>1. tally[w].new \in Nat /\ tally[w].chg \in Nat
    BY <1>0 DEF TypeOK
  <2>2. QED
    BY <1>0, <2>1 DEF TypeOK, Publish
<1>3. TypeOK'
  BY <1>0, <1>1, <1>2, RollbackOK DEF TypeOK, CtlTypes, Publish, histVars
<1>4. QED
  BY <1>0, <1>1, <1>3, RollbackOK, RollbackStep
\* A commit keeps the invariant, acknowledged or not.
LEMMA CommitKeeps ==
    ASSUME NEW w \in Writers, IInv, Commit(w) \/ CommitAckLost(w)
    PROVE  IInv'
<1>0. TypeOK /\ ControlAt(w)
  BY DEF IInv, ControlOK
<1>1. phase[w] = "commit" /\ table' = View(w) /\ table' \in [RowId -> Row \cup {Absent}]
  BY <1>0, ViewTypes DEF Commit, CommitAckLost
<1>2. emitted' \subseteq Scans \X Keys /\ ackLost' \in BOOLEAN
  <2>1. job[w] \in Jobs
    BY <1>0, <1>1 DEF ControlAt
  <2>2. job[w].batch \in Seq(Item)
    BY <2>1, ConstantsAssumption DEF Jobs
  <2>3. \A i \in DOMAIN job[w].batch : job[w].batch[i].key \in Keys
    <3> TAKE i \in DOMAIN job[w].batch
    <3>1. job[w].batch[i] \in Item
      BY <2>2
    <3>2. QED
      BY <3>1 DEF Item
  <2>4. Emits(w) \subseteq Scans \X Keys
    BY <2>3, ConstantsAssumption DEF Emits
  <2>5. QED
    BY <1>0, <2>4 DEF TypeOK, Commit, CommitAckLost
<1>3. upsertNew' \in Nat /\ upsertChanged' \in Nat
  BY <1>0 DEF TypeOK, Commit, CommitAckLost, counterVars
<1>4. /\ OthersKeep(w)
      /\ pend' = [pend EXCEPT ![w] = NoPend]
      /\ pend' \in [Writers -> [RowId -> Row \cup {Absent}]]
      /\ phase' \in [Writers -> Phases]
      /\ CtlTypes'
      /\ phase'[w] \notin InTx
      /\ ControlAt(w)'
  <2>1. CASE RetryOrGiveUp(w) \/ Return(w)
    BY <1>0, <1>1, <2>1, RollbackOK
  <2>2. CASE Leave(w, "publish") /\ UNCHANGED <<attempt, tally>>
    BY <1>0, <1>1, <2>2, LeaveOK DEF CtlTypes, TypeOK
  <2>3. QED
    BY <2>1, <2>2 DEF Commit, CommitAckLost
<1>5. TypeOK'
  BY <1>1, <1>2, <1>3, <1>4 DEF TypeOK, CtlTypes
<1>6. QED
  BY <1>1, <1>4, <1>5, CommitStep

-----------------------------------------------------------------------------
(* The statements that write. *)

\* ViewTypes after a step.
LEMMA ViewTypesNext ==
    ASSUME NEW u \in Writers, TypeOK', ~Splitting(u)'
    PROVE  Held(u)' = pend'[u] /\ Restored(u)' = View(u)'
<1>1. Held(u)' = pend'[u]
  BY DEF Held, TypeOK
<1>2. QED
  BY <1>1 DEF Restored, View

\* A row inserted where no current row was is a chain of one.
LEMMA NewChain ==
    ASSUME NEW v \in [RowId -> Row \cup {Absent}], NEW x \in [RowId -> Row \cup {Absent}],
           Sound(v), NEW n \in RowId, NEW row \in Row, v[n] = Absent,
           x = [v EXCEPT ![n] = row], row.prev = NoRow, row.sup = NoRow,
           ~Occupied(v, row.key)
    PROVE  Sound(x)
<1> SUFFICES ASSUME NEW k \in Keys PROVE SoundChain(x, k)
  BY DEF Sound
<1>0. SoundChain(v, k) /\ row # Absent /\ x[n] = row
  BY RowPresent DEF Sound
<1>1. CASE k # row.key
  <2>1. Agree(v, x, k)
    BY <1>1 DEF Agree, Of
  <2>2. QED
    BY <1>0, <2>1, AgreeSound
<1>2. CASE k = row.key
  <2>1. \A r \in RowId : ~Of(v, r, k)
    BY <1>0, <1>2 DEF SoundChain
  <2>2. \A r \in RowId : Of(x, r, k) => r = n
    BY <2>1 DEF Of
  <2>3. IsCurrent(x, n, k)
    BY <1>0, <1>2 DEF IsCurrent
  <2>4. x[n].prev = NoRow /\ x[n].sup = NoRow /\ n <= n
    BY <1>0 DEF RowId
  <2>5. Occupied(x, k)
    BY <2>3 DEF Occupied
  <2>6. QED
    BY <2>2, <2>4, <2>5 DEF SoundChain, LinkedUp, LinkedDown
<1>3. QED
  BY <1>1, <1>2

\* Drawing an id keeps the invariant: nobody else holds it, and it is higher than the
\* row the lookup has found.
LEMMA DrawIdKeeps ==
    ASSUME NEW w \in Writers, IInv, DrawId(w)
    PROVE  IInv'
<1>0. TypeOK /\ ControlAt(w) /\ SeenAt(w)
  BY DEF IInv, ControlOK, SeenOK
<1>1. PICK n \in RowId : Fresh(n) /\ fresh' = [fresh EXCEPT ![w] = n]
  BY DEF DrawId
<1>2. /\ fresh'[w] = n /\ n # NoRow
      /\ table[n] = Absent /\ \A u \in Writers : pend[u][n] = Absent /\ fresh[u] # n
      /\ \A r \in RowId : table[r] # Absent \/ pend[w][r] # Absent => r < n
  <2>1. \A r \in RowId : InUse(r) => r < n
    BY <1>1 DEF Fresh
  <2>2. ~InUse(n)
    BY <2>1 DEF RowId
  <2>3. fresh'[w] = n /\ n # NoRow
    BY <1>0, <1>1 DEF TypeOK, RowId, NoRow
  <2>4. QED
    BY <2>1, <2>2, <2>3 DEF InUse
<1>3. OthersKeep(w) /\ UNCHANGED dbVars
  BY <1>0, <1>1 DEF DrawId, OthersKeep, TypeOK
<1>4. TypeOK'
  <2>1. n \in 0..MaxRows
    BY ConstantsAssumption DEF RowId
  <2>2. QED
    BY <1>0, <1>1, <2>1 DEF TypeOK, DrawId, dbVars, counterVars, histVars
<1>5. ~Splitting(w) /\ ~Splitting(w)'
  BY DEF DrawId, Splitting, Numbered
<1>6. ControlAt(w)' /\ SeenAt(w)'
  <2>1. View(w)' = View(w) /\ Key(w)' = Key(w)
    BY DEF View, Key, DrawId, dbVars
  <2>2. QED
    BY <1>0, <2>1 DEF ControlAt, SeenAt, DrawId, dbVars
<1>7. Apart(w)
  BY <1>2 DEF Apart
<1>8. FreshAt(w)'
  <2>1. OwnId(w)'
    BY <1>1, <1>2, <1>3 DEF OwnId, OthersKeep, dbVars
  <2>2. phase[w] = "supersede" => seen[w].id < n
    <3>1. phase[w] = "supersede" => seen[w].id \in RowId /\ View(w)[seen[w].id] # Absent
      BY <1>0 DEF SeenAt, Of
    <3>2. QED
      BY <1>2, <3>1 DEF View
  <2>3. QED
    BY <1>2, <1>5, <2>1, <2>2 DEF FreshAt, DrawId
<1>9. QED
  BY <1>3, <1>4, <1>5, <1>6, <1>7, <1>8, QuietStep

\* The first version of a resource keeps the invariant.
LEMMA InsertRootKeeps ==
    ASSUME NEW w \in Writers, IInv, InsertRoot(w)
    PROVE  IInv'
<1>0. TypeOK /\ ControlAt(w) /\ phase[w] = "insert" /\ phase[w] \in InTx /\ ~Splitting(w)
  BY DEF IInv, ControlOK, InsertRoot, InTx, Splitting
<1>1. Key(w) \in Keys /\ Content(w) \in Contents
  BY <1>0, ItemType DEF ControlAt, InTx
<1>2. /\ OthersKeep(w) /\ CtlTypes' /\ phase' \in [Writers -> Phases]
      /\ ControlAt(w)' /\ SeenAt(w)' /\ FreshAt(w)' /\ ~Splitting(w)' /\ fresh'[w] = NoRow
  <2>1. tally' \in [Writers -> [new : Nat, chg : Nat]]
    <3>1. tally[w] \in [new : Nat, chg : Nat]
      BY <1>0 DEF TypeOK
    <3>2. [tally[w] EXCEPT !.new = @ + 1] \in [new : Nat, chg : Nat]
      BY <3>1
    <3>3. UNCHANGED tally \/ tally' = [tally EXCEPT ![w] = [tally[w] EXCEPT !.new = @ + 1]]
      BY DEF InsertRoot
    <3>4. QED
      BY <1>0, <3>2, <3>3 DEF TypeOK
  <2>2. Advance(w)
    BY DEF InsertRoot
  <2>3. job' = job /\ attempt' = attempt
    BY <2>2 DEF Advance
  <2>4. QED
    BY <1>0, <2>1, <2>2, <2>3, AdvanceOK DEF CtlTypes, TypeOK
<1>3. CASE UNCHANGED pend
  <2>1. TypeOK' /\ UNCHANGED dbVars
    BY <1>0, <1>2, <1>3 DEF TypeOK, CtlTypes, InsertRoot, dbVars, counterVars, histVars
  <2>2. QED
    BY <1>0, <1>2, <2>1, ApartKept, QuietStep
<1>4. ASSUME NEW n \in RowId, n = fresh[w], OwnId(w), ~Occupied(View(w), Key(w)),
             KeyFree(w, Key(w)), pend' = [pend EXCEPT ![w][n] = RootRow(w)], table' = table
      PROVE  IInv'
  <2>1. RootRow(w) \in Row /\ RootRow(w).key = Key(w)
        /\ RootRow(w).prev = NoRow /\ RootRow(w).sup = NoRow
    BY <1>1, ConstantsAssumption DEF RootRow, Row, NoRow
  <2>2. TypeOK'
    BY <1>0, <1>2, <2>1 , <1>4 DEF TypeOK, CtlTypes, InsertRoot, counterVars, histVars
  <2>3. /\ \A u \in Writers \ {w} : pend'[u] = pend[u]
        /\ pend'[w][n] = RootRow(w)
        /\ \A r \in RowId \ {n} : pend'[w][r] = pend[w][r]
    BY <1>0, <1>4 DEF TypeOK
  <2>4. /\ table[n] = Absent
        /\ \A u \in Writers : pend[u][n] = Absent
        /\ \A u \in Writers \ {w} : fresh[u] # n
    BY <1>4 DEF OwnId
  <2>5. Sound(Restored(w)')
    <3>1. Restored(w)' = [View(w) EXCEPT ![n] = RootRow(w)]
      <4>1. Restored(w)' = View(w)'
        BY <1>2, <2>2, ViewTypesNext
      <4>2. View(w)' = [View(w) EXCEPT ![n] = RootRow(w)]
        BY <2>1, <2>3, <1>4, RowPresent DEF View
      <4>3. QED
        BY <4>1, <4>2
    <3>2. Sound(View(w)) /\ View(w) \in [RowId -> Row \cup {Absent}] /\ View(w)[n] = Absent
      BY <1>0, <2>4, ViewTypes DEF IInv, ViewsSound, View
    <3>3. ~Occupied(View(w), RootRow(w).key) /\ Restored(w)' \in [RowId -> Row \cup {Absent}]
      BY <1>4, <2>1, <3>1, <3>2
    <3>4. QED
      BY <2>1, <3>1, <3>2, <3>3, NewChain
  <2>6. \A u \in Writers \ {w} : \A k \in Keys : Claims(w, k)' => ~Claims(u, k)
    BY <1>4, <2>1, <2>3 DEF Claims, IInv, ClaimsExclusive, KeyFree
  <2>7. \A u \in Writers \ {w} : \A r \in RowId : pend'[w][r] # Absent => pend[u][r] = Absent
    BY <2>3, <2>4 DEF IInv, LocksExclusive
  <2>8. /\ Apart(w)
        /\ \A u \in Writers \ {w} : fresh[u] # NoRow => pend'[w][fresh[u]] = Absent
    BY <1>2, <2>3, <2>4, ApartKept DEF IInv, FreshOK, FreshAt, OwnId
  <2>9. \A r \in RowId : pend'[w][r] # Absent /\ table[r] # Absent =>
               /\ pend'[w][r].key = table[r].key
               /\ pend'[w][r].content = table[r].content
               /\ pend'[w][r].prev = table[r].prev
               /\ pend'[w][r].disc = table[r].disc
               /\ table[r].sup # NoRow => Held(w)'[r].sup = table[r].sup
    <3>1. Held(w) = pend[w]
      BY <1>0, ViewTypes
    <3>2. Held(w)' = pend'[w]
      BY <1>2, <2>2, ViewTypesNext
    <3>3. QED
      BY <2>3, <2>4, <3>1, <3>2 DEF IInv, UpdatesKeep
  <2>10. ASSUME NEW r \in RowId, NEW h \in RowId, pend'[w][r] # Absent, table[r] = Absent,
                IsCurrent(table, h, pend'[w][r].key)
         PROVE  pend'[w][h] # Absent
    <3>1. CASE r = n
      <4>1. IsCurrent(table, h, Key(w))
        BY <1>4, <2>1, <2>3, <2>10, <3>1
      <4>2. pend[w][h] # Absent
        BY <4>1, <1>4 DEF Occupied, View, IsCurrent
      <4>3. QED
        BY <4>2, <2>3, <2>4
    <3>2. CASE r # n
      BY <2>3, <2>4, <2>10, <3>2 DEF IInv, InsertersHoldHead
    <3>3. QED
      BY <3>1, <3>2
  <2>11. QED
    BY <1>2, <1>4, <2>2, <2>3, <2>5, <2>6, <2>7, <2>8, <2>9, <2>10, WriteStep
<1>5. OwnId(w) /\ fresh[w] \in RowId
  BY DEF IInv, FreshOK, FreshAt, OwnId, InsertRoot
<1>6. QED
  BY <1>3, <1>4, <1>5 DEF InsertRoot

\* The verify-only update keeps the invariant.
LEMMA VerifyKeeps ==
    ASSUME NEW w \in Writers, IInv, Verify(w)
    PROVE  IInv'
<1> DEFINE o == seen[w].id
           x == Verified(View(w)[o], ScanOf[w])
<1>0. TypeOK /\ ControlAt(w) /\ SeenAt(w) /\ phase[w] = "verify" /\ phase[w] \in InTx
        /\ ~Splitting(w)
  BY DEF IInv, ControlOK, SeenOK, Verify, InTx, Splitting
<1>1. /\ o \in RowId /\ Of(View(w), o, Key(w)) /\ RowFree(w, o) /\ View(w)[o] \in Row
      /\ pend[w][o] # Absent => pend[w][o].sup = NoRow
  BY <1>0, ViewTypes DEF SeenAt, Verify, Of
<1>2. x \in Row /\ x.key = Key(w) /\ x.sup = View(w)[o].sup /\ x.prev = View(w)[o].prev
        /\ x.content = View(w)[o].content /\ x.disc = View(w)[o].disc
  BY <1>1, ConstantsAssumption DEF Verified, Row, Of
<1>3. pend' = [pend EXCEPT ![w][o] = x] /\ table' = table /\ tally' = tally /\ Advance(w)
  BY DEF Verify
<1>4. /\ OthersKeep(w) /\ CtlTypes' /\ phase' \in [Writers -> Phases]
      /\ ControlAt(w)' /\ SeenAt(w)' /\ FreshAt(w)' /\ ~Splitting(w)' /\ fresh'[w] = NoRow
  <2>1. job' = job /\ attempt' = attempt
    BY <1>3 DEF Advance
  <2>2. QED
    BY <1>0, <1>3, <2>1, AdvanceOK DEF CtlTypes, TypeOK
<1>5. TypeOK'
  <2>1. pend' \in [Writers -> [RowId -> Row \cup {Absent}]]
    <3> HIDE DEF x, o
    <3>1. QED
      BY <1>0, <1>1, <1>2, <1>3 DEF TypeOK
  <2>2. QED
    BY <1>0, <1>3, <1>4, <2>1 DEF TypeOK, CtlTypes, Verify, counterVars, histVars
<1>6. /\ \A u \in Writers \ {w} : pend'[u] = pend[u]
      /\ pend'[w][o] = x
      /\ \A r \in RowId \ {o} : pend'[w][r] = pend[w][r]
      /\ \A u \in Writers \ {w} : \A r \in RowId :
           pend'[w][r] # Absent => pend[u][r] = Absent
      /\ \A u \in Writers \ {w} : \A k \in Keys : Claims(w, k)' => ~Claims(u, k)
      /\ \A u \in Writers \ {w} : fresh[u] # NoRow => pend'[w][fresh[u]] = Absent
      /\ \A r \in RowId : pend'[w][r] # Absent /\ table[r] # Absent =>
           /\ pend'[w][r].key = table[r].key
           /\ pend'[w][r].content = table[r].content
           /\ pend'[w][r].prev = table[r].prev
           /\ pend'[w][r].disc = table[r].disc
      /\ \A r, h \in RowId :
           /\ pend'[w][r] # Absent /\ table[r] = Absent
           /\ IsCurrent(table, h, pend'[w][r].key)
           => pend'[w][h] # Absent
  <2> HIDE DEF x, o
  <2>1. QED
    BY <1>1, <1>2, <1>3, <1>5, LockRow
<1>7. Sound(Restored(w)')
  <2>1. Restored(w)' = View(w)'
    BY <1>4, <1>5, ViewTypesNext
  <2>a. View(w)' \in [RowId -> Row \cup {Absent}]
    BY <1>5 DEF View, TypeOK
  <2>2. View(w)' = [View(w) EXCEPT ![o] = x]
    <3> HIDE DEF x, o
    <3>1. QED
      BY <1>1, <1>2, <1>3, <1>6, RowPresent DEF View
  <2>3. ASSUME NEW k \in Keys PROVE SoundChain(View(w)', k)
    <3>1. SoundChain(View(w), k)
      BY <1>0, ViewTypes DEF IInv, ViewsSound, Sound
    <3>2. View(w) \in [RowId -> Row \cup {Absent}]
      BY <1>0, ViewTypes
    <3>3. Agree(View(w), View(w)', k)
      <4> HIDE DEF x, o
      <4>1. QED
        BY <1>1, <1>2, <2>2, <3>2, RowPresent DEF Agree, Of
    <3>4. QED
      BY <2>a, <3>1, <3>2, <3>3, AgreeSound
  <2>4. QED
    BY <2>1, <2>3 DEF Sound
<1>8. \A r \in RowId : pend'[w][r] # Absent /\ table[r] # Absent /\ table[r].sup # NoRow
         => Held(w)'[r].sup = table[r].sup
  <2>1. Held(w) = pend[w] /\ Held(w)' = pend'[w]
    BY <1>0, <1>4, <1>5, ViewTypes, ViewTypesNext
  <2>2. \/ pend[w][o] # Absent /\ View(w)[o] = pend[w][o]
        \/ (pend[w][o] = Absent /\ View(w)[o] = table[o])
    BY <1>1 DEF View
  <2>3. \A r \in RowId : pend[w][r] # Absent /\ table[r] # Absent /\ table[r].sup # NoRow
           => pend[w][r].sup = table[r].sup
    BY <2>1 DEF IInv, UpdatesKeep
  <2> HIDE DEF x, o
  <2>4. QED
    BY <1>1, <1>2, <1>6, <2>1, <2>2, <2>3
<1>9. Apart(w)
  BY <1>4, ApartKept
<1> HIDE DEF x, o
<1>10. QED
  BY <1>3, <1>4, <1>5, <1>6, <1>7, <1>8, <1>9, WriteStep

\* The first statement of a split keeps the invariant.
LEMMA SupersedeKeeps ==
    ASSUME NEW w \in Writers, IInv, Supersede(w)
    PROVE  IInv'
<1> DEFINE o == seen[w].id
<1> DEFINE n == fresh[w]
<1>0. /\ TypeOK /\ ControlAt(w) /\ SeenAt(w) /\ phase[w] = "supersede" /\ ~Splitting(w)
      /\ OwnId(w) /\ o < n
  BY DEF IInv, ControlOK, SeenOK, FreshOK, FreshAt, Supersede, Splitting
<1>1. /\ o \in RowId /\ Of(View(w), o, Key(w)) /\ RowFree(w, o) /\ View(w)[o] \in Row
      /\ pend[w][o] # Absent => pend[w][o].sup = NoRow
  BY <1>0, ViewTypes DEF SeenAt, Supersede, Of
<1>2. /\ n \in RowId /\ fresh' = fresh
      /\ pend' = [pend EXCEPT ![w][seen[w].id] = [View(w)[seen[w].id] EXCEPT !.sup = n]]
  BY <1>0 DEF Supersede, OwnId
<1> DEFINE x == [View(w)[o] EXCEPT !.sup = n]
<1>3. n \in 0..MaxRows /\ n # NoRow
  BY <1>2, ConstantsAssumption DEF RowId, NoRow
<1>4. x \in Row /\ x.key = Key(w) /\ x.sup = n /\ x.prev = View(w)[o].prev
        /\ x.content = View(w)[o].content /\ x.disc = View(w)[o].disc
  BY <1>1, <1>3 DEF Row, Of
<1>5. /\ OthersKeep(w) /\ phase' \in [Writers -> Phases] /\ phase'[w] = "split"
      /\ table' = table /\ job' = job /\ item' = item /\ seen' = seen /\ fresh'[w] = n
      /\ Splitting(w)' /\ Key(w)' = Key(w)
  BY <1>0, <1>2 DEF Supersede, OthersKeep, TypeOK, Phases, InTx, Splitting, Key
<1>6. TypeOK'
  BY <1>0, <1>1, <1>2, <1>3, <1>4, <1>5 DEF TypeOK, Supersede, counterVars, histVars
<1>7. /\ \A u \in Writers \ {w} : pend'[u] = pend[u]
      /\ pend'[w][o] = x
      /\ \A r \in RowId \ {o} : pend'[w][r] = pend[w][r]
      /\ \A u \in Writers \ {w} : \A r \in RowId :
           pend'[w][r] # Absent => pend[u][r] = Absent
      /\ \A u \in Writers \ {w} : \A k \in Keys : Claims(w, k)' => ~Claims(u, k)
      /\ \A u \in Writers \ {w} : fresh[u] # NoRow => pend'[w][fresh[u]] = Absent
      /\ \A r \in RowId : pend'[w][r] # Absent /\ table[r] # Absent =>
           /\ pend'[w][r].key = table[r].key
           /\ pend'[w][r].content = table[r].content
           /\ pend'[w][r].prev = table[r].prev
           /\ pend'[w][r].disc = table[r].disc
      /\ \A r, h \in RowId :
           /\ pend'[w][r] # Absent /\ table[r] = Absent
           /\ IsCurrent(table, h, pend'[w][r].key)
           => pend'[w][h] # Absent
  <2>1. pend' = [pend EXCEPT ![w][o] = x]
    BY <1>2
  <2> HIDE DEF x, o
  <2>2. QED
    BY <1>1, <1>4, <1>5, <1>6, <2>1, LockRow
<1>8. /\ table[n] = Absent /\ \A u \in Writers : pend[u][n] = Absent
      /\ \A u \in Writers \ {w} : fresh[u] # n
  BY <1>0 DEF OwnId
<1>9. OldSup(w)' = View(w)[o].sup
  <2>1. OldSup(w)' = IF table[o] # Absent THEN table[o].sup ELSE NoRow
    BY <1>5 DEF OldSup
  <2>2. CASE pend[w][o] = Absent
    BY <1>1, <2>1, <2>2 DEF View, Of
  <2>3. CASE pend[w][o] # Absent
    <3>1. View(w)[o].sup = NoRow /\ Held(w) = pend[w]
      BY <1>0, <1>1, <2>3, ViewTypes DEF View
    <3>2. table[o] # Absent => table[o].sup = NoRow
      BY <1>1, <2>3, <3>1 DEF IInv, UpdatesKeep, View
    <3>3. QED
      BY <2>1, <3>1, <3>2
  <2>4. QED
    BY <2>2, <2>3
<1>10. /\ Held(w)'[o] = [x EXCEPT !.sup = View(w)[o].sup]
       /\ \A r \in RowId \ {o} : Held(w)'[r] = pend[w][r]
  <2> HIDE DEF x
  <2>1. QED
    BY <1>1, <1>5, <1>7, <1>9 DEF Held
<1>11. Restored(w)' \in [RowId -> Row \cup {Absent}]
  <2>1. View(w)[o].sup \in 0..MaxRows
    BY <1>1 DEF Row
  <2>2. Held(w)'[o] \in Row
    <3> HIDE DEF x
    <3>1. QED
      BY <1>4, <1>10, <2>1 DEF Row
  <2>3. QED
    <3>1. ASSUME NEW r \in RowId PROVE Restored(w)'[r] \in Row \cup {Absent}
      <4>1. Held(w)'[r] \in Row \cup {Absent}
        BY <1>0, <1>10, <2>2, SMTT(30) DEF TypeOK
      <4>2. table'[r] \in Row \cup {Absent}
        BY <1>6 DEF TypeOK
      <4>3. QED
        BY <4>1, <4>2 DEF Restored
    <3>2. QED
      BY <3>1 DEF Restored
<1>12. \A k \in Keys : Agree(View(w), Restored(w)', k)
  <2> SUFFICES ASSUME NEW k \in Keys, NEW r \in RowId
               PROVE  /\ Of(View(w), r, k) <=> Of(Restored(w)', r, k)
                      /\ Of(View(w), r, k) =>
                           /\ View(w)[r].sup = Restored(w)'[r].sup
                           /\ View(w)[r].prev = Restored(w)'[r].prev
                           /\ View(w)[r].disc = Restored(w)'[r].disc
    BY DEF Agree
  <2>1. CASE r # o
    <3>1. Restored(w)'[r] = View(w)[r]
      BY <1>5, <1>7, <1>10, <2>1 DEF Restored, View
    <3>2. QED
      BY <3>1 DEF Of
  <2>2. CASE r = o
    <3>1. x # Absent /\ View(w)[o] # Absent
      BY <1>4, <1>1, RowPresent
    <3>2. Restored(w)'[o] = Held(w)'[o]
      BY <1>1, <1>7, <3>1 DEF Restored
    <3>3. /\ Held(w)'[o].key = x.key /\ Held(w)'[o].prev = x.prev
          /\ Held(w)'[o].disc = x.disc /\ Held(w)'[o].sup = View(w)[o].sup
      <4> HIDE DEF x
      <4>1. QED
        BY <1>4, <1>10 DEF Row
    <3>4. Restored(w)'[o] # Absent
      BY <1>1, <1>4, <1>10, <3>2, RowPresent DEF Row
    <3>5. QED
      BY <1>1, <1>4, <2>2, <3>1, <3>2, <3>3, <3>4 DEF Of
  <2>3. QED
    BY <2>1, <2>2
<1>13. Sound(Restored(w)')
  <2>1. Sound(View(w)) /\ View(w) \in [RowId -> Row \cup {Absent}]
    BY <1>0, ViewTypes DEF IInv, ViewsSound
  <2>2. QED
    BY <1>11, <1>12, <2>1, AgreeSound DEF Sound
<1>14. ControlAt(w)'
  BY <1>0, <1>5 DEF ControlAt, InTx
<1>15. SeenAt(w)'
  <2> HIDE DEF x
  <2>3. x # Absent /\ pend'[w][o] = x
    BY <1>4, <1>7, RowPresent
  <2>4. View(w)'[o] = IF pend'[w][o] # Absent THEN pend'[w][o] ELSE table'[o]
    BY <1>1 DEF View
  <2>1. View(w)'[o] = x /\ x # Absent
    BY <2>3, <2>4
  <2>2. QED
    BY <1>0, <1>1, <1>4, <1>5, <2>1 DEF SeenAt, Of
<1>16. FreshAt(w)'
  <2>1. o < n /\ o # n
    BY <1>0, <1>1, <1>2 DEF RowId
  <2>2. \A u \in Writers : pend'[u][n] = Absent
    <3> HIDE DEF x
    <3>1. pend'[w][n] = Absent
      BY <1>2, <1>7, <1>8, <2>1
    <3>2. QED
      BY <1>7, <1>8, <3>1
  <2>3. x # Absent
    BY <1>4, RowPresent
  <2>4. Key(w) \in Keys
    BY <1>0, ItemType DEF ControlAt, InTx
  <2>5. OldSup(w)' = NoRow => \A r \in RowId : Of(Restored(w)', r, Key(w)) => r < n
    <3>1. SoundChain(View(w), Key(w))
      BY <1>0, <2>4, ViewTypes DEF IInv, ViewsSound, Sound
    <3>2. View(w)[o].sup = NoRow => \A r \in RowId : Of(View(w), r, Key(w)) => r <= o
      BY <1>1, <3>1 DEF SoundChain
    <3>3. \A r \in RowId : r <= o => r < n
      BY <1>0, <1>1, <1>2 DEF RowId
    <3>4. QED
      BY <1>9, <1>12, <2>4, <3>2, <3>3 DEF Agree
  <2>6. \A u \in Writers \ {w} : fresh'[u] # n
    BY <1>5, <1>8 DEF OthersKeep
  <2> HIDE DEF x
  <2>7. QED
    BY <1>2, <1>3, <1>4, <1>5, <1>7, <1>8, <2>1, <2>2, <2>3, <2>5, <2>6 DEF FreshAt, OwnId
<1>17. \A r \in RowId : pend'[w][r] # Absent /\ table[r] # Absent /\ table[r].sup # NoRow
         => Held(w)'[r].sup = table[r].sup
  <2>1. Held(w) = pend[w]
    BY <1>0, ViewTypes
  <2>2. ASSUME NEW r \in RowId, r # o, pend'[w][r] # Absent, table[r] # Absent,
               table[r].sup # NoRow
        PROVE  Held(w)'[r].sup = table[r].sup
    BY <1>7, <1>10, <2>1, <2>2 DEF IInv, UpdatesKeep
  <2>3. table[o] # Absent => Held(w)'[o].sup = table[o].sup
    <3>1. OldSup(w)' = IF table[o] # Absent THEN table[o].sup ELSE NoRow
      BY <1>5 DEF OldSup
    <3> HIDE DEF x
    <3>2. QED
      BY <1>4, <1>9, <1>10, <3>1 DEF Row
  <2>4. QED
    BY <2>2, <2>3
<1>18. Apart(w)
  BY <1>2, ApartKept
<1> HIDE DEF x, o
<1>19. QED
  BY <1>5, <1>6, <1>7, <1>13, <1>14, <1>15, <1>16, <1>17, <1>18, WriteStep
\* Linking a row n behind the current row o of a key gives a sound chain.
LEMMA LongerChain ==
    ASSUME NEW v \in [RowId -> Row \cup {Absent}], NEW x \in [RowId -> Row \cup {Absent}],
           Sound(v), NEW o \in RowId, NEW n \in RowId, v[n] = Absent, o < n,
           NEW k \in Keys, Of(v, o, k), v[o].sup = NoRow,
           \A r \in RowId : Of(v, r, k) => r < n,
           \A r \in RowId \ {o, n} : x[r] = v[r],
           Of(x, o, k), x[o].sup = n, x[o].prev = v[o].prev, x[o].disc = v[o].disc,
           Of(x, n, k), x[n].sup = NoRow, x[n].prev = o, x[n].disc = v[o].disc
    PROVE  Sound(x)
<1>1. ASSUME NEW c \in Keys, c # k PROVE SoundChain(x, c)
  <2>1. SoundChain(v, c)
    BY DEF Sound
  <2>2. Agree(v, x, c)
    BY <1>1 DEF Agree, Of
  <2>3. QED
    BY <2>1, <2>2, AgreeSound
<1>2. SoundChain(x, k)
  <2>0. SoundChain(v, k) /\ o # n /\ \A q \in RowId : q # NoRow
    BY DEF Sound, RowId, NoRow
  <2>1. \A r \in RowId : Of(v, r, k) => Of(x, r, k) /\ x[r].prev = v[r].prev /\ x[r].disc = v[r].disc
    BY DEF Of
  <2>2. \A r \in RowId \ {n} : Of(x, r, k) => Of(v, r, k)
    BY DEF Of
  <2>3. \A r \in RowId : Of(v, r, k) => r <= o /\ r # n /\ (r # o => x[r].sup = v[r].sup)
    BY DEF SoundChain, Sound, Of
  <2>4. Occupied(x, k)
    BY DEF Occupied, IsCurrent, Of
  <2>5. ASSUME NEW r \in RowId \ {o, n}, Of(x, r, k)
        PROVE  LinkedUp(x, r, k) /\ LinkedDown(x, r, k) /\ x[r].sup # NoRow
    <3>1. Of(v, r, k) /\ LinkedUp(v, r, k) /\ LinkedDown(v, r, k) /\ x[r] = v[r] /\ v[r] \in Row
      BY <2>0, <2>2, <2>5 DEF SoundChain, Of
    <3>2. v[r].sup # NoRow
      <4>1. v[r].sup = NoRow => o <= r
        BY <2>0, <3>1 DEF SoundChain
      <4>2. r <= o
        BY <2>3, <3>1
      <4>3. QED
        BY <4>1, <4>2 DEF RowId
    <3>3. LinkedUp(x, r, k)
      <4>1. v[r].sup \in RowId /\ Of(v, v[r].sup, k) /\ v[v[r].sup].prev = r
        BY <3>1, <3>2, LinkRange DEF LinkedUp
      <4>2. QED
        BY <2>1, <3>1, <4>1 DEF LinkedUp
    <3>4. LinkedDown(x, r, k)
      <4> SUFFICES ASSUME v[r].prev # NoRow PROVE LinkedDown(x, r, k)
        BY <3>1 DEF LinkedDown
      <4>1. /\ v[r].prev \in RowId /\ Of(v, v[r].prev, k) /\ v[v[r].prev].sup = r
            /\ v[v[r].prev].disc = v[r].disc /\ v[r].prev < r
            /\ NoneBetween(v, k, v[r].prev, r)
        BY <3>1, LinkRange DEF LinkedDown
      <4>2. v[r].prev # o
        BY <2>0, <4>1
      <4>3. x[v[r].prev].sup = r
        BY <2>3, <4>1, <4>2
      <4>4. NoneBetween(x, k, v[r].prev, r)
        <5>1. r < n
          BY <3>1
        <5>2. \A q \in RowId : q < r => q # n
          BY <5>1 DEF RowId
        <5>3. QED
          BY <2>2, <4>1, <5>2 DEF NoneBetween
      <4>5. QED
        BY <2>1, <3>1, <4>1, <4>3, <4>4 DEF LinkedDown
    <3>5. QED
      BY <3>1, <3>2, <3>3, <3>4
  <2>6. LinkedUp(x, o, k) /\ LinkedDown(x, o, k) /\ x[o].sup # NoRow
    <3>1. LinkedUp(x, o, k) /\ x[o].sup # NoRow
      BY <2>0 DEF LinkedUp
    <3>2. LinkedDown(x, o, k)
      <4> SUFFICES ASSUME v[o].prev # NoRow PROVE LinkedDown(x, o, k)
        BY DEF LinkedDown
      <4>0. v[o] \in Row /\ LinkedDown(v, o, k)
        BY <2>0 DEF SoundChain, Of
      <4>1. /\ v[o].prev \in RowId /\ Of(v, v[o].prev, k) /\ v[v[o].prev].sup = o
            /\ v[v[o].prev].disc = v[o].disc /\ v[o].prev < o
            /\ NoneBetween(v, k, v[o].prev, o)
        BY <4>0, LinkRange DEF LinkedDown
      <4>2. v[o].prev # o
        BY <2>0, <4>1
      <4>3. x[v[o].prev].sup = o
        BY <2>3, <4>1, <4>2
      <4>4. NoneBetween(x, k, v[o].prev, o)
        <5>1. \A q \in RowId : q < o => q # n
          BY DEF RowId
        <5>2. QED
          BY <2>2, <4>1, <5>1 DEF NoneBetween
      <4>5. QED
        BY <2>1, <4>1, <4>3, <4>4 DEF LinkedDown
    <3>3. QED
      BY <3>1, <3>2
  <2>7. LinkedUp(x, n, k) /\ LinkedDown(x, n, k)
    <3>1. NoneBetween(x, k, o, n)
      <4> SUFFICES ASSUME NEW q \in RowId, o < q, q < n, Of(x, q, k) PROVE FALSE
        BY DEF NoneBetween
      <4>1. q # n
        BY DEF RowId
      <4>2. q <= o
        BY <2>2, <2>3, <4>1
      <4>3. QED
        BY <4>2 DEF RowId
    <3>2. QED
      BY <2>0, <3>1 DEF LinkedUp, LinkedDown
  <2>8. \A s \in RowId : Of(x, s, k) => s <= n
    <3>1. \A s \in RowId : s < n \/ s = n => s <= n
      BY DEF RowId
    <3>2. QED
      BY <2>2, <3>1
  <2>9. QED
    BY <2>4, <2>5, <2>6, <2>7, <2>8 DEF SoundChain
<1>3. QED
  BY <1>1, <1>2 DEF Sound

\* The second statement of a split, and of an archive, keeps the invariant.
LEMMA InsertVersionKeeps ==
    ASSUME NEW w \in Writers, IInv, InsertVersion(w)
    PROVE  IInv'
<1> DEFINE o == seen[w].id
           n == fresh[w]
           x == VersionRow(w)
           k == Key(w)
<1>0. TypeOK /\ ControlAt(w) /\ SeenAt(w) /\ FreshAt(w) /\ phase[w] = "split" /\ Splitting(w)
        /\ phase[w] \in InTx
  BY DEF IInv, ControlOK, SeenOK, FreshOK, InsertVersion, Splitting, InTx
<1>1. CASE Return(w)
  <2>1. TypeOK'
    BY <1>0, <1>1, RollbackOK DEF TypeOK, CtlTypes, counterVars, histVars, InsertVersion
  <2>2. QED
    BY <1>0, <1>1, <2>1, RollbackOK, RollbackStep DEF InsertVersion
<1>2. CASE /\ ~Occupied(View(w), k) /\ KeyFree(w, k)
           /\ pend' = [pend EXCEPT ![w][n] = x]
           /\ tally' = IF job[w].kind = "archive" THEN tally
                       ELSE [tally EXCEPT ![w].chg = @ + 1]
           /\ Advance(w)
  <2>1. /\ o \in RowId /\ n \in RowId /\ o < n /\ o # n
        /\ Of(View(w), o, k) /\ seen[w].row \in Row /\ seen[w].row.key = k
        /\ View(w)[o].disc = seen[w].row.disc
        /\ table[n] = Absent /\ \A u \in Writers : pend[u][n] = Absent
        /\ \A u \in Writers \ {w} : fresh[u] # n
        /\ pend[w][o] # Absent /\ pend[w][o].sup = n /\ View(w)[o] = pend[w][o]
    BY <1>0 DEF SeenAt, FreshAt, OwnId, RowId, View
  <2>2. k \in Keys /\ Content(w) \in Contents
    BY <1>0, ItemType DEF ControlAt
  <2>3. x \in Row /\ x.key = k /\ x.sup = NoRow /\ x.prev = o /\ x.disc = seen[w].row.disc
    <3>1. ScanOf[w] \in Scans /\ o \in 0..MaxRows /\ NoRow \in 0..MaxRows
      BY <2>1, ConstantsAssumption DEF RowId, NoRow
    <3> HIDE DEF o, k
    <3>2. CASE job[w].kind = "archive"
      <4>1. x = [seen[w].row EXCEPT !.prev = o, !.sup = NoRow, !.del = TRUE, !.ref = FALSE]
        BY <3>2 DEF VersionRow, o
      <4> HIDE DEF x
      <4>2. QED
        BY <2>1, <3>1, <4>1 DEF Row
    <3>3. CASE job[w].kind # "archive"
      <4>1. x = [key |-> k, content |-> Content(w), prev |-> o,
                 sup |-> NoRow, disc |-> seen[w].row.disc, ver |-> ScanOf[w],
                 del |-> FALSE, ref |-> FALSE]
        BY <3>3 DEF VersionRow, o, k
      <4> HIDE DEF x
      <4>2. seen[w].row.disc \in Scans
        BY <2>1 DEF Row
      <4>3. QED
        BY <2>2, <3>1, <4>1, <4>2 DEF Row
    <3>4. QED
      BY <3>2, <3>3
  <2>4. x # Absent
    BY <2>3, RowPresent
  <2>5. /\ OthersKeep(w) /\ CtlTypes' /\ phase' \in [Writers -> Phases] /\ table' = table
        /\ ControlAt(w)' /\ SeenAt(w)' /\ FreshAt(w)' /\ ~Splitting(w)' /\ fresh'[w] = NoRow
    <3>1. tally' \in [Writers -> [new : Nat, chg : Nat]]
      <4>1. tally[w] \in [new : Nat, chg : Nat]
        BY <1>0 DEF TypeOK
      <4>2. [tally[w] EXCEPT !.chg = @ + 1] \in [new : Nat, chg : Nat]
        BY <4>1
      <4>3. UNCHANGED tally \/ tally' = [tally EXCEPT ![w] = [tally[w] EXCEPT !.chg = @ + 1]]
        BY <1>2
      <4>4. QED
        BY <1>0, <4>2, <4>3 DEF TypeOK
    <3>2. job' = job /\ attempt' = attempt
      BY <1>2 DEF Advance
    <3>3. table' = table
      BY DEF InsertVersion
    <3>4. QED
      BY <1>0, <1>2, <3>1, <3>2, <3>3, AdvanceOK DEF CtlTypes, TypeOK
  <2>6. TypeOK'
    <3>1. pend' \in [Writers -> [RowId -> Row \cup {Absent}]]
      <4> HIDE DEF x, n
      <4>1. QED
        BY <1>0, <1>2, <2>1, <2>3 DEF TypeOK
    <3>2. QED
      BY <1>0, <2>5, <3>1 DEF TypeOK, CtlTypes, InsertVersion, counterVars, histVars
  <2>7. /\ \A u \in Writers \ {w} : pend'[u] = pend[u]
        /\ pend'[w][n] = x
        /\ \A r \in RowId \ {n} : pend'[w][r] = pend[w][r]
    <3> HIDE DEF x, n
    <3>1. QED
      BY <1>0, <1>2, <2>1 DEF TypeOK
  <2>8. \A r \in RowId \ {o} : Held(w)[r] = pend[w][r] /\ Restored(w)[r] = View(w)[r]
    BY DEF Held, Restored, View
  <2>9. /\ Held(w)[o].sup = OldSup(w) /\ Restored(w)[o] = Held(w)[o]
        /\ Held(w)[o] # Absent
        /\ Held(w)[o].key = pend[w][o].key
        /\ Held(w)[o].prev = pend[w][o].prev
        /\ Held(w)[o].disc = pend[w][o].disc
    <3>1. pend[w][o] \in Row
      BY <1>0, <2>1 DEF TypeOK
    <3>2. Held(w)[o] = [pend[w][o] EXCEPT !.sup = OldSup(w)]
      BY <1>0, <2>1 DEF Held
    <3>3. Held(w)[o] \in Row
      BY <1>0, <2>1, HeldTypes
    <3>4. QED
      BY <2>1, <3>1, <3>2, <3>3, RowPresent DEF Restored, Row
  <2>10. Of(Restored(w), o, k)
    BY <2>1, <2>9 DEF Of
  <2>11. SoundChain(Restored(w), k)
    BY <2>2 DEF IInv, ViewsSound, Sound
  <2>12. OldSup(w) = NoRow
    <3>1. PICK h \in RowId : IsCurrent(Restored(w), h, k)
      BY <2>1, <2>10, <2>11 DEF SoundChain, Occupied
    <3>2. h = o
      BY <1>2, <2>8, <3>1 DEF Occupied, IsCurrent
    <3>3. QED
      BY <2>9, <3>1, <3>2 DEF IsCurrent
  <2>13. View(w)' = [View(w) EXCEPT ![n] = x] /\ Restored(w)' = View(w)' /\ Held(w)' = pend'[w]
    <3>1. Restored(w)' = View(w)' /\ Held(w)' = pend'[w]
      BY <2>5, <2>6, ViewTypesNext
    <3> HIDE DEF x, n
    <3>2. View(w)' = [View(w) EXCEPT ![n] = x]
      BY <2>1, <2>4, <2>5, <2>7 DEF View
    <3>3. QED
      BY <3>1, <3>2
  <2>14. Sound(Restored(w)')
    <3> DEFINE v == Restored(w)
               y == Restored(w)'
    <3>1. v \in [RowId -> Row \cup {Absent}] /\ View(w) \in [RowId -> Row \cup {Absent}]
      BY <1>0, HeldTypes, ViewTypes
    <3>2. y \in [RowId -> Row \cup {Absent}]
      <4> HIDE DEF x, n
      <4>1. QED
        BY <2>3, <2>13, <3>1
    <3>3. Sound(v) /\ v[n] = Absent /\ v[o].sup = NoRow
      BY <2>1, <2>9, <2>12 DEF IInv, ViewsSound, Restored
    <3>4. \A r \in RowId : Of(v, r, k) => r < n
      BY <1>0, <2>12 DEF FreshAt
    <3>5. /\ y[n] = x /\ y[o] = pend[w][o]
          /\ \A r \in RowId \ {o, n} : y[r] = v[r]
      <4> HIDE DEF x, n, o
      <4>1. QED
        BY <2>1, <2>8, <2>13, <3>1
    <3>6. /\ Of(y, o, k) /\ y[o].sup = n /\ y[o].prev = v[o].prev /\ y[o].disc = v[o].disc
          /\ Of(y, n, k) /\ y[n].sup = NoRow /\ y[n].prev = o /\ y[n].disc = v[o].disc
      <4> HIDE DEF x, n, o, v, y
      <4>1. v[o] = Held(w)[o]
        BY <2>9 DEF v
      <4>2. QED
        BY <2>1, <2>3, <2>4, <2>9, <3>5, <4>1 DEF Of
    <3> HIDE DEF x, n, o, k
    <3>7. Of(v, o, k) /\ o < n /\ k \in Keys /\ o \in RowId /\ n \in RowId
      BY <2>1, <2>2, <2>10
    <3> HIDE DEF v, y
    <3>8. Sound(y)
      BY <3>1, <3>2, <3>3, <3>4, <3>5, <3>6, <3>7, LongerChain
    <3>9. QED
      BY <3>8 DEF y
  <2>15. \A u \in Writers \ {w} : \A c \in Keys : Claims(w, c)' => ~Claims(u, c)
    <3> SUFFICES ASSUME NEW u \in Writers \ {w}, NEW c \in Keys, Claims(w, c)'
                 PROVE  ~Claims(u, c)
      OBVIOUS
    <3>1. PICK r \in RowId : /\ pend'[w][r] # Absent /\ pend'[w][r].key = c
                             /\ table[r] # Absent => table[r].sup = NoRow
      BY <2>5 DEF Claims
    <3>2. CASE r = n
      BY <1>2, <2>3, <2>7, <3>1, <3>2 DEF KeyFree
    <3>3. CASE r # n
      <4>1. Claims(w, c)
        BY <2>7, <3>1, <3>3 DEF Claims
      <4>2. QED
        BY <4>1 DEF IInv, ClaimsExclusive
    <3>4. QED
      BY <3>2, <3>3
  <2>16. \A u \in Writers \ {w} : \A r \in RowId : pend'[w][r] # Absent => pend[u][r] = Absent
    BY <2>1, <2>7 DEF IInv, LocksExclusive
  <2>17. /\ Apart(w)
         /\ \A u \in Writers \ {w} : fresh[u] # NoRow => pend'[w][fresh[u]] = Absent
    <3>1. Apart(w)
      BY <2>5, ApartKept
    <3>2. \A u \in Writers \ {w} : fresh[u] # NoRow =>
             fresh[u] \in RowId /\ pend[w][fresh[u]] = Absent
      BY DEF IInv, FreshOK, FreshAt, OwnId
    <3>3. QED
      BY <2>1, <2>7, <3>1, <3>2
  <2>18. \A r \in RowId : pend'[w][r] # Absent /\ table[r] # Absent =>
               /\ pend'[w][r].key = table[r].key
               /\ pend'[w][r].content = table[r].content
               /\ pend'[w][r].prev = table[r].prev
               /\ pend'[w][r].disc = table[r].disc
               /\ table[r].sup # NoRow => Held(w)'[r].sup = table[r].sup
    <3> SUFFICES ASSUME NEW r \in RowId, pend'[w][r] # Absent, table[r] # Absent
                 PROVE  /\ pend'[w][r].key = table[r].key
                        /\ pend'[w][r].content = table[r].content
                        /\ pend'[w][r].prev = table[r].prev
                        /\ pend'[w][r].disc = table[r].disc
                        /\ table[r].sup # NoRow => pend'[w][r].sup = table[r].sup
      BY <2>13
    <3>1. r # n /\ pend'[w][r] = pend[w][r]
      BY <2>1, <2>7
    <3>2. r # o => Held(w)[r] = pend[w][r]
      BY <2>8
    <3>3. r = o => table[r].sup = NoRow
      BY <2>12 DEF OldSup
    <3>4. QED
      BY <3>1, <3>2, <3>3 DEF IInv, UpdatesKeep
  <2>19. ASSUME NEW r \in RowId, NEW h \in RowId, pend'[w][r] # Absent, table[r] = Absent,
                IsCurrent(table, h, pend'[w][r].key)
         PROVE  pend'[w][h] # Absent
    <3>0. pend[w][h] # Absent => pend'[w][h] # Absent
      BY <2>4, <2>7
    <3>1. CASE r = n
      <4>1. IsCurrent(table, h, k)
        BY <2>3, <2>7, <2>19, <3>1
      <4>2. pend[w][h] # Absent
        BY <4>1, <1>2 DEF Occupied, View, IsCurrent
      <4>3. QED
        BY <4>2, <3>0
    <3>2. CASE r # n
      BY <2>7, <2>19, <3>0, <3>2 DEF IInv, InsertersHoldHead
    <3>3. QED
      BY <3>1, <3>2
  <2> HIDE DEF x, n, o, k
  <2>20. QED
    BY <2>5, <2>6, <2>7, <2>14, <2>15, <2>16, <2>17, <2>18, <2>19, WriteStep
<1>3. QED
  BY <1>1, <1>2 DEF InsertVersion
\* Restoring a tombstone keeps the invariant.
LEMMA RestoreKeeps ==
    ASSUME NEW key \in Keys, IInv, Restore(key)
    PROVE  IInv'
<1>0. TypeOK
  BY DEF IInv
<1>1. PICK h \in RowId :
         /\ IsCurrent(table, h, key)
         /\ \A u \in Writers : pend[u][h] = Absent
         /\ table' = [table EXCEPT ![h].del = FALSE]
  BY DEF Restore
<1>2. UNCHANGED <<pend, phase, job, item, attempt, seen, fresh, tally>>
  BY DEF Restore, ctlVars
<1>3. table[h] \in Row /\ table'[h] \in Row
      /\ table'[h].key = table[h].key /\ table'[h].content = table[h].content
      /\ table'[h].prev = table[h].prev /\ table'[h].sup = table[h].sup
      /\ table'[h].disc = table[h].disc
  BY <1>0, <1>1 DEF TypeOK, IsCurrent, Row
<1>4. /\ \A r \in RowId \ {h} : table'[r] = table[r]
      /\ table[h] # Absent /\ table'[h] # Absent
  BY <1>0, <1>1, <1>3, RowPresent DEF TypeOK
<1>5. \A r \in RowId : /\ table'[r] = Absent <=> table[r] = Absent
                       /\ table[r] # Absent =>
                            /\ table'[r].key = table[r].key
                            /\ table'[r].content = table[r].content
                            /\ table'[r].prev = table[r].prev
                            /\ table'[r].sup = table[r].sup
                            /\ table'[r].disc = table[r].disc
  BY <1>3, <1>4
<1>6. TypeOK'
  <2>1. table' \in [RowId -> Row \cup {Absent}]
    BY <1>0, <1>1, <1>3 DEF TypeOK
  <2>2. QED
    BY <1>0, <1>2, <2>1 DEF TypeOK, Restore, counterVars, histVars
<1>7. \A u \in Writers : Splitting(u) => seen[u].id \in RowId
  BY DEF IInv, SeenOK, SeenAt, Splitting
<1>8. \A u \in Writers : Splitting(u) => OldSup(u)' = OldSup(u)
  BY <1>2, <1>5, <1>7 DEF OldSup
<1>9. \A u \in Writers : Held(u)' = Held(u)
  BY <1>2, <1>8 DEF Held, Splitting
<1>10. \A u \in Writers, k \in Keys : Claims(u, k)' <=> Claims(u, k)
  BY <1>2, <1>5 DEF Claims
<1>11. \A u \in Writers, k \in Keys : Agree(Restored(u), Restored(u)', k)
  BY <1>2, <1>5, <1>9 DEF Agree, Of, Restored
<1>12. \A k \in Keys : Agree(table, table', k)
  BY <1>5 DEF Agree, Of
<1>13. ControlOK'
  BY <1>2 DEF IInv, ControlOK, ControlAt
<1>14. SeenOK'
  <2> SUFFICES ASSUME NEW u \in Writers PROVE SeenAt(u)'
    BY DEF SeenOK
  <2>1. SeenAt(u)
    BY DEF IInv, SeenOK
  <2>2. Key(u)' = Key(u)
    BY <1>2 DEF Key
  <2>3. \A r \in RowId : Of(View(u), r, Key(u)) =>
           Of(View(u)', r, Key(u)) /\ View(u)'[r].disc = View(u)[r].disc
    BY <1>2, <1>5 DEF View, Of
  <2>4. QED
    BY <1>2, <2>1, <2>2, <2>3 DEF SeenAt
<1>15. FreshOK'
  <2> SUFFICES ASSUME NEW u \in Writers PROVE FreshAt(u)'
    BY DEF FreshOK
  <2>1. FreshAt(u) /\ SeenAt(u) /\ ControlAt(u)
    BY DEF IInv, FreshOK, SeenOK, ControlOK
  <2>2. Key(u)' = Key(u)
    BY <1>2 DEF Key
  <2>3. Splitting(u) => Key(u) \in Keys
    BY <2>1, ItemType DEF ControlAt, Splitting, InTx
  <2>4. fresh[u] # NoRow => OwnId(u)'
    BY <1>2, <1>5, <2>1 DEF FreshAt, OwnId
  <2>5. Splitting(u)' <=> Splitting(u)
    BY <1>2 DEF Splitting
  <2>6. QED
    BY <1>2, <1>8, <1>11, <2>1, <2>2, <2>3, <2>4, <2>5 DEF FreshAt, Agree
<1>16. LocksExclusive' /\ ClaimsExclusive'
  BY <1>2, <1>10 DEF IInv, LocksExclusive, ClaimsExclusive
<1>17. UpdatesKeep'
  BY <1>2, <1>5, <1>9 DEF IInv, UpdatesKeep
<1>18. InsertersHoldHead'
  BY <1>2, <1>5 DEF IInv, InsertersHoldHead, IsCurrent
<1>19. Sound(table)'
  BY <1>0, <1>6, <1>12, AgreeSound DEF IInv, Sound, TypeOK
<1>20. ViewsSound'
  <2> SUFFICES ASSUME NEW u \in Writers, NEW k \in Keys PROVE SoundChain(Restored(u)', k)
    BY DEF ViewsSound, Sound
  <2>1. Restored(u) \in [RowId -> Row \cup {Absent}]
    BY <1>0, HeldTypes
  <2>2. Restored(u)' \in [RowId -> Row \cup {Absent}]
    BY <1>2, <1>6, <1>9, <1>0, HeldTypes DEF Restored, TypeOK
  <2>3. SoundChain(Restored(u), k)
    BY DEF IInv, ViewsSound, Sound
  <2>4. QED
    BY <1>11, <2>1, <2>2, <2>3, AgreeSound
<1>21. QED
  BY <1>6, <1>13, <1>14, <1>15, <1>16, <1>17, <1>18, <1>19, <1>20 DEF IInv

-----------------------------------------------------------------------------
(* The theorems. *)

\* Every step keeps the invariant.
LEMMA NextIInv == IInv /\ [Next]_vars => IInv'
<1> SUFFICES ASSUME IInv, [Next]_vars PROVE IInv'
  OBVIOUS
<1>1. ASSUME NEW w \in Writers, NEW kind \in Kinds, NEW b \in Batches, Call(w, kind, b)
      PROVE  IInv'
  BY <1>1, CallKeeps
<1>2. ASSUME NEW w \in Writers, Step(w)
      PROVE  IInv'
  <2>1. CASE BeginTx(w)
    BY <2>1, BeginTxKeeps
  <2>2. CASE UpsertLookup(w)
    BY <2>2, UpsertLookupKeeps
  <2>3. CASE ArchiveLookup(w)
    BY <2>3, ArchiveLookupKeeps
  <2>4. CASE InsertRoot(w)
    BY <2>4, InsertRootKeeps
  <2>5. CASE Verify(w)
    BY <2>5, VerifyKeeps
  <2>6. CASE Supersede(w)
    BY <2>6, SupersedeKeeps
  <2>7. CASE InsertVersion(w)
    BY <2>7, InsertVersionKeeps
  <2>8. CASE Commit(w)
    BY <2>8, CommitKeeps
  <2>9. CASE Publish(w)
    BY <2>9, PublishKeeps
  <2>10. CASE DeadlockVictim(w)
    BY <2>10, FailureKeeps
  <2>11. CASE DrawId(w)
    BY <2>11, DrawIdKeeps
  <2>12. QED
    BY <1>2, <2>1, <2>2, <2>3, <2>4, <2>5, <2>6, <2>7, <2>8, <2>9, <2>10, <2>11 DEF Step
<1>3. ASSUME NEW w \in Writers, CommitAckLost(w)
      PROVE  IInv'
  BY <1>3, CommitKeeps
<1>4. ASSUME NEW w \in Writers, ConnectionLost(w) \/ StatementFails(w)
      PROVE  IInv'
  BY <1>4, FailureKeeps
<1>5. ASSUME NEW k \in Keys, Restore(k)
      PROVE  IInv'
  BY <1>5, RestoreKeeps
<1>6. CASE UNCHANGED vars
  <2>1. UNCHANGED <<table, pend, phase, job, item, attempt, seen, fresh, tally,
                    upsertNew, upsertChanged, emitted, ackLost>>
    BY <1>6 DEF vars
  <2> USE <2>1
  <2>2. TypeOK' /\ ControlOK' /\ LocksExclusive' /\ ClaimsExclusive'
    BY DEF IInv, TypeOK, ControlOK, ControlAt, LocksExclusive, ClaimsExclusive, Claims
  <2>3. \A u \in Writers : /\ Held(u)' = Held(u) /\ Restored(u)' = Restored(u)
                           /\ View(u)' = View(u) /\ OldSup(u)' = OldSup(u)
                           /\ Key(u)' = Key(u) /\ Splitting(u)' = Splitting(u)
    BY DEF Held, Restored, View, OldSup, Key, Splitting
  <2>4. SeenOK' /\ FreshOK'
    BY <2>3 DEF IInv, SeenOK, FreshOK, SeenAt, FreshAt, OwnId
  <2>5. UpdatesKeep' /\ InsertersHoldHead' /\ Sound(table)' /\ ViewsSound'
    BY <2>3 DEF IInv, UpdatesKeep, InsertersHoldHead, IsCurrent, ViewsSound
  <2>6. QED
    BY <2>2, <2>4, <2>5 DEF IInv
<1>7. QED
  BY <1>1, <1>2, <1>3, <1>4, <1>5, <1>6 DEF Next

\* The inductive invariant holds throughout.
THEOREM Invariance == Spec => []IInv
<1>1. QED
  BY InitIInv, NextIInv, PTL DEF Spec

\* Type correctness: whatever the writers do and however their statements
\* interleave and fail, every variable keeps its type; in particular no call is
\* attempted more than MaxAttempts times.
THEOREM TypeCorrect == Spec => []TypeOK
<1>1. IInv => TypeOK
  BY DEF IInv
<1>2. QED
  BY <1>1, Invariance, PTL

\* Sound chains have one current row per key and inverse links.
LEMMA SoundTable == IInv => OneCurrentRow /\ ChainsLinked
<1> SUFFICES ASSUME IInv PROVE OneCurrentRow /\ ChainsLinked
  OBVIOUS
<1>0. TypeOK /\ \A r \in RowId : table[r] # Absent => table[r] \in Row
  BY DEF IInv, TypeOK
<1>1. ASSUME NEW r \in RowId, table[r] # Absent
      PROVE  /\ table[r].key \in Keys /\ Of(table, r, table[r].key)
             /\ LinkedUp(table, r, table[r].key)
             /\ LinkedDown(table, r, table[r].key)
             /\ Occupied(table, table[r].key)
             /\ table[r].sup = NoRow =>
                  \A s \in RowId : Of(table, s, table[r].key) => s <= r
  <2>1. table[r].key \in Keys
    BY <1>0, <1>1 DEF Row
  <2>2. Of(table, r, table[r].key)
    BY <1>1 DEF Of
  <2>3. QED
    BY <2>1, <2>2 DEF IInv, Sound, SoundChain
<1>2. ASSUME NEW k \in Keys, NEW r \in RowId, NEW s \in RowId,
             IsCurrent(table, r, k), IsCurrent(table, s, k)
      PROVE  r = s
  <2>1. s <= r /\ r <= s
    BY <1>1, <1>2 DEF IsCurrent, Of
  <2>2. QED
    BY <2>1 DEF RowId
<1>3. OneCurrentRow
  BY <1>1, <1>2 DEF OneCurrentRow
<1>4. ChainsLinked
  <2> SUFFICES ASSUME NEW r \in RowId, table[r] # Absent
               PROVE  /\ table[r].sup # NoRow =>
                           /\ table[table[r].sup] # Absent
                           /\ table[table[r].sup].prev = r
                           /\ table[table[r].sup].key = table[r].key
                      /\ table[r].prev # NoRow =>
                           /\ table[table[r].prev] # Absent
                           /\ table[table[r].prev].sup = r
                           /\ table[table[r].prev].key = table[r].key
                           /\ table[table[r].prev].disc = table[r].disc
    BY DEF ChainsLinked
  <2>1. QED
    BY <1>1 DEF LinkedUp, LinkedDown, Of
<1>5. QED
  BY <1>3, <1>4

\* For any number of writers, keys, pages and rows, and at READ COMMITTED as
\* well as with one connection: every resource that has rows has exactly one
\* current row.
THEOREM OneCurrent == Spec => []OneCurrentRow
<1>1. QED
  BY SoundTable, Invariance, PTL

\* For any number of writers: previous_version_id and superseded_by are inverse
\* links within one resource and discovered_by is inherited along them.
THEOREM Linked == Spec => []ChainsLinked
<1>1. QED
  BY SoundTable, Invariance, PTL
\* For any number of writers: ids order the versions of a resource as the links
\* do, so GetResourceVersions returns the chain.
THEOREM Ordered == Spec => []VersionsInOrder
<1>1. IInv => VersionsInOrder
  <2> SUFFICES ASSUME IInv, NEW r \in RowId, NEW s \in RowId, r < s,
                      table[r] # Absent, table[s] # Absent, table[r].key = table[s].key,
                      \A q \in r+1..s-1 : table[q] # Absent => table[q].key # table[r].key
               PROVE  table[r].sup = s /\ table[s].prev = r
    BY DEF VersionsInOrder
  <2> DEFINE k == table[r].key
             t == table[r].sup
  <2>0. table[r] \in Row /\ k \in Keys /\ Of(table, r, k) /\ Of(table, s, k)
    BY DEF IInv, TypeOK, Of, Row
  <2>1. t # NoRow
    <3>1. t = NoRow => s <= r
      BY <2>0 DEF IInv, Sound, SoundChain
    <3>2. QED
      BY <3>1 DEF RowId
  <2>2. t \in RowId /\ Of(table, t, k) /\ table[t].prev = r
    BY <2>0, <2>1, LinkRange DEF IInv, Sound, SoundChain, LinkedUp
  <2>3. r < t /\ NoneBetween(table, k, r, t)
    <3>1. LinkedDown(table, t, k) /\ r # NoRow
      BY <2>0, <2>2 DEF IInv, Sound, SoundChain, RowId, NoRow
    <3>2. QED
      BY <2>2, <3>1 DEF LinkedDown
  <2>4. ~(r < s /\ s < t)
    BY <2>0, <2>3 DEF NoneBetween
  <2>5. ~(r < t /\ t < s)
    BY <2>2 DEF Of, RowId
  <2>6. t = s
    BY <2>2, <2>3, <2>4, <2>5 DEF RowId
  <2>7. QED
    BY <2>2, <2>6
<1>2. QED
  BY <1>1, Invariance, PTL

\* The table changes in two ways: a writer installs its view, or a tombstone is
\* lifted.
LEMMA TableSteps ==
    ASSUME [Next]_vars
    PROVE  \/ table' = table
           \/ \E w \in Writers : phase[w] = "commit" /\ table' = View(w)
           \/ \E k \in Keys : Restore(k)
<1>1. CASE UNCHANGED vars
  BY <1>1 DEF vars
<1>2. ASSUME NEW w \in Writers, NEW kind \in Kinds, NEW b \in Batches, Call(w, kind, b)
      PROVE  table' = table
  BY <1>2 DEF Call, dbVars
<1>3. ASSUME NEW w \in Writers,
             BeginTx(w) \/ UpsertLookup(w) \/ ArchiveLookup(w) \/ InsertRoot(w) \/ DrawId(w)
      PROVE  table' = table
  BY <1>3 DEF BeginTx, UpsertLookup, ArchiveLookup, InsertRoot, DrawId, dbVars
<1>4. ASSUME NEW w \in Writers,
             Verify(w) \/ Supersede(w) \/ InsertVersion(w) \/ Publish(w)
      PROVE  table' = table
  BY <1>4 DEF Verify, Supersede, InsertVersion, Publish
<1>5. ASSUME NEW w \in Writers, DeadlockVictim(w) \/ ConnectionLost(w) \/ StatementFails(w)
      PROVE  table' = table
  BY <1>5 DEF DeadlockVictim, ConnectionLost, StatementFails
<1>6. ASSUME NEW w \in Writers, Commit(w) \/ CommitAckLost(w)
      PROVE  phase[w] = "commit" /\ table' = View(w)
  BY <1>6 DEF Commit, CommitAckLost
<1>7. QED
  BY <1>1, <1>2, <1>3, <1>4, <1>5, <1>6 DEF Next, Step

\* For any number of writers: no step removes a row, and none changes what a
\* superseded row says of its version.
THEOREM FrozenHistory == Spec => HistoryFrozen
<1> DEFINE Keeps == \A r \in RowId : table[r] # Absent =>
                       /\ table'[r] # Absent
                       /\ table[r].sup # NoRow => Frozen(table'[r]) = Frozen(table[r])
<1>1. IInv /\ [Next]_vars => [Keeps]_table
  <2> SUFFICES ASSUME IInv, [Next]_vars, table' # table PROVE Keeps
    OBVIOUS
  <2>0. TypeOK
    BY DEF IInv
  <2>1. ASSUME NEW w \in Writers, phase[w] = "commit", table' = View(w)
        PROVE  Keeps
    <3>1. Held(w) = pend[w]
      BY <2>0, <2>1, ViewTypes DEF Splitting
    <3>2. QED
      BY <2>1, <3>1 DEF View, Frozen, IInv, UpdatesKeep
  <2>2. ASSUME NEW k \in Keys, Restore(k)
        PROVE  Keeps
    <3>1. PICK h \in RowId : IsCurrent(table, h, k) /\ table' = [table EXCEPT ![h].del = FALSE]
      BY <2>2 DEF Restore
    <3>2. /\ \A r \in RowId \ {h} : table'[r] = table[r]
          /\ table'[h] \in Row /\ table[h].sup = NoRow
      <4>1. table[h] \in Row /\ table[h].sup = NoRow
        BY <2>0, <3>1 DEF TypeOK, IsCurrent
      <4>2. [table[h] EXCEPT !.del = FALSE] \in Row
        BY <4>1 DEF Row
      <4>3. table' = [table EXCEPT ![h] = [table[h] EXCEPT !.del = FALSE]]
        BY <3>1
      <4>4. QED
        BY <2>0, <4>1, <4>2, <4>3 DEF TypeOK
    <3>3. ASSUME NEW r \in RowId, table[r] # Absent
          PROVE  /\ table'[r] # Absent
                 /\ table[r].sup # NoRow => Frozen(table'[r]) = Frozen(table[r])
      <4>1. CASE r = h
        BY <3>2, <4>1, RowPresent
      <4>2. CASE r # h
        <5>1. table'[r] = table[r]
          BY <3>2, <4>2
        <5>2. QED
          BY <3>3, <5>1
      <4>3. QED
        BY <4>1, <4>2
    <3>4. QED
      BY <3>3
  <2>3. QED
    BY <2>1, <2>2, TableSteps
<1>2. QED
  BY <1>1, Invariance, PTL DEF Spec, HistoryFrozen

\* Drawing an id changes nothing else.
LEMMA DrawKeeps ==
    ASSUME NEW w \in Writers, DrawId(w)
    PROVE  UNCHANGED <<table, pend, phase, job, item, attempt, seen, tally,
                       upsertNew, upsertChanged, emitted, ackLost>>
BY DEF DrawId, dbVars, counterVars, histVars

\* The insert of a root writes nothing, or a row under an id nobody else has.
LEMMA RootInserted ==
    ASSUME IInv, NEW w \in Writers, InsertRoot(w)
    PROVE  \/ Occupied(View(w), Key(w)) /\ UNCHANGED <<pend, tally>>
           \/ /\ ~Occupied(View(w), Key(w))
              /\ tally' = [tally EXCEPT ![w].new = @ + 1]
              /\ \E n \in RowId : View(w)[n] = Absent
                                 /\ pend' = [pend EXCEPT ![w][n] = RootRow(w)]
<1>1. OwnId(w)
  BY DEF IInv, FreshOK, FreshAt, InsertRoot
<1>2. fresh[w] \in RowId /\ View(w)[fresh[w]] = Absent
  BY <1>1 DEF OwnId, View
<1>3. QED
  BY <1>2 DEF InsertRoot

-----------------------------------------------------------------------------
(* Tombstones. *)

\* A version's predecessor is in the view the version is in.
LEMMA ViewPrev ==
    ASSUME IInv, NEW u \in Writers, NEW r \in RowId, View(u)[r] # Absent,
           View(u)[r].prev # NoRow
    PROVE  View(u)[r].prev \in RowId /\ View(u)[View(u)[r].prev] # Absent
<1>0. TypeOK /\ Sound(Restored(u))
  BY DEF IInv, ViewsSound
<1> DEFINE x == Restored(u)
<1>1. \A s \in RowId : x[s] = Absent <=> View(u)[s] = Absent
  BY <1>0, HeldTypes, RowPresent DEF Restored, View
<1>2. x[r] \in Row /\ x[r].prev = View(u)[r].prev
  BY <1>0, <1>1, HeldTypes DEF Restored, View
<1>3. x[r].key \in Keys /\ Of(x, r, x[r].key) /\ x \in [RowId -> Row \cup {Absent}]
  BY <1>0, <1>1, <1>2, HeldTypes DEF Of, Row
<1>4. LinkedDown(x, r, x[r].key)
  BY <1>0, <1>3 DEF Sound, SoundChain
<1> HIDE DEF x
<1>5. x[r].prev \in RowId
  BY <1>2, ConstantsAssumption DEF Row, RowId, NoRow
<1>6. x[x[r].prev] # Absent
  BY <1>2, <1>4 DEF LinkedDown, Of
<1>7. QED
  BY <1>1, <1>2, <1>5, <1>6

\* A step that writes no row, or drops those of one writer.
LEMMA StillTomb ==
    ASSUME TypeOK, TombInv, NEW w \in Writers, table' = table, OthersKeep(w),
           pend' = pend \/ pend' = [pend EXCEPT ![w] = NoPend], ArchiveSees(w)'
    PROVE  TombInv'
<1>1. \A u \in Writers : View(u)' = View(u) \/ View(u)' = table
  <2>1. CASE pend' = pend
    BY <2>1 DEF View
  <2>2. CASE pend' = [pend EXCEPT ![w] = NoPend]
    <3>1. ASSUME NEW u \in Writers, u # w
          PROVE  View(u)' = View(u)
      BY <2>2, <3>1 DEF View, TypeOK
    <3>2. \A r \in RowId : pend'[w][r] = Absent
      BY <2>2 DEF TypeOK, NoPend
    <3>3. View(w)' = [r \in RowId |-> table[r]]
      BY <3>2 DEF View
    <3>4. View(w)' = table
      BY <3>3 DEF TypeOK
    <3>5. QED
      BY <3>1, <3>4
  <2>3. QED
    BY <2>1, <2>2
<1>2. \A u \in Writers \ {w} : View(u)' = View(u)
  BY DEF View, TypeOK
<1>3. TombstonesApart(table') /\ \A u \in Writers : TombstonesApart(View(u)')
  BY <1>1 DEF TombInv
<1>4. \A u \in Writers \ {w} : ArchiveSees(u)'
  BY <1>2 DEF TombInv, ArchiveSees, OthersKeep
<1>5. UpdatesKeepLive'
  <2>1. ASSUME NEW u \in Writers, NEW r \in RowId
        PROVE  pend'[u][r] = pend[u][r] \/ pend'[u][r] = Absent
    <3>1. NoPend[r] = Absent
      BY DEF NoPend
    <3>2. pend'[u] = pend[u] \/ pend'[u] = NoPend
      BY DEF TypeOK
    <3>3. QED
      BY <3>1, <3>2
  <2>2. QED
    BY <2>1 DEF TombInv, UpdatesKeepLive
<1>6. TombstonesApart(table)' /\ \A u \in Writers : TombstonesApart(View(u))'
  BY <1>3 DEF TombstonesApart
<1>7. QED
  BY <1>4, <1>5, <1>6 DEF TombInv

\* A step in which w writes one row: over a row of its view, or a new one.
LEMMA WriteTomb ==
    ASSUME IInv, TombInv, NEW w \in Writers, table' = table, OthersKeep(w),
           NEW n \in RowId, NEW row \in Row, pend' = [pend EXCEPT ![w][n] = row],
           View(w)[n] # Absent => /\ row.prev = View(w)[n].prev
                                  /\ row.del => View(w)[n].del,
           View(w)[n] = Absent => /\ row.prev # n
                                  /\ row.del /\ row.prev # NoRow
                                        => ~View(w)[row.prev].del,
           ArchiveSees(w)'
    PROVE  TombInv'
<1>0. TypeOK
  BY DEF IInv
<1>1. View(w)' = [View(w) EXCEPT ![n] = row] /\ row # Absent
  BY <1>0, RowPresent DEF View, TypeOK
<1>2. \A u \in Writers \ {w} : View(u)' = View(u) /\ pend'[u] = pend[u]
  BY <1>0 DEF View, TypeOK
<1>3. View(w) \in [RowId -> Row \cup {Absent}]
  BY <1>0, ViewTypes
<1> DEFINE x == View(w)
           y == View(w)'
<1>4. \A r \in RowId : y[r] = IF r = n THEN row ELSE x[r]
  BY <1>1, <1>3
<1>5. TombstonesApart(x)
  BY DEF TombInv
<1>6. \A r \in RowId : x[r] # Absent /\ x[r].prev # NoRow => x[r].prev \in RowId /\ x[x[r].prev] # Absent
  BY ViewPrev
<1>7. row.prev \in RowId \cup {NoRow}
  BY ConstantsAssumption DEF Row, RowId, NoRow
<1> HIDE DEF x, y
<1>8. TombstonesApart(y)
  <2> SUFFICES ASSUME NEW r \in RowId, y[r] # Absent, y[r].del, y[r].prev # NoRow
               PROVE  ~y[y[r].prev].del
    BY DEF TombstonesApart
  <2>1. CASE x[n] = Absent
    <3>1. CASE r = n
      <4>1. row.prev # n /\ ~x[row.prev].del
        BY <1>4, <2>1, <3>1 DEF x
      <4>2. row.prev \in RowId
        BY <1>4, <1>7, <3>1
      <4>3. QED
        BY <1>4, <3>1, <4>1, <4>2
    <3>2. CASE r # n
      <4>1. y[r] = x[r] /\ ~x[x[r].prev].del
        BY <1>4, <1>5, <3>2 DEF TombstonesApart
      <4>2. x[r].prev \in RowId /\ x[r].prev # n
        BY <1>6, <2>1, <4>1
      <4>3. QED
        BY <1>4, <4>1, <4>2
    <3>3. QED
      BY <3>1, <3>2
  <2>2. CASE x[n] # Absent
    <3>1. row.prev = x[n].prev /\ (row.del => x[n].del)
      BY <2>2 DEF x
    <3>2. x[r] # Absent /\ x[r].del /\ x[r].prev = y[r].prev
      BY <1>4, <2>2, <3>1
    <3>3. ~x[x[r].prev].del /\ x[r].prev \in RowId
      BY <1>5, <1>6, <3>2 DEF TombstonesApart
    <3>4. QED
      BY <1>4, <3>1, <3>2, <3>3
  <2>3. QED
    BY <2>1, <2>2
<1>9. TombstonesApart(table)' /\ \A u \in Writers : TombstonesApart(View(u))'
  <2>1. \A u \in Writers : TombstonesApart(View(u)')
    BY <1>2, <1>8 DEF TombInv, y
  <2>2. QED
    BY <2>1 DEF TombInv, TombstonesApart
<1>10. \A u \in Writers \ {w} : ArchiveSees(u)'
  BY <1>2 DEF TombInv, ArchiveSees, OthersKeep
<1>11. UpdatesKeepLive'
  <2> SUFFICES ASSUME NEW u \in Writers, NEW r \in RowId,
                      pend'[u][r] # Absent, table[r] # Absent, ~table[r].del
               PROVE  ~pend'[u][r].del
    BY DEF UpdatesKeepLive
  <2>1. CASE u = w /\ r = n
    <3>1. pend'[w][n] = row
      BY <1>0 DEF TypeOK
    <3>2. View(w)[n] # Absent /\ ~View(w)[n].del
      BY <2>1 DEF View, TombInv, UpdatesKeepLive
    <3>3. QED
      BY <2>1, <3>1, <3>2
  <2>2. CASE ~(u = w /\ r = n)
    <3>1. pend'[u][r] = pend[u][r]
      BY <1>0, <2>2 DEF TypeOK
    <3>2. QED
      BY <3>1 DEF TombInv, UpdatesKeepLive
  <2>3. QED
    BY <2>1, <2>2
<1>12. QED
  BY <1>9, <1>10, <1>11 DEF TombInv

\* A commit: the writer's view becomes the table under the views of the others.
LEMMA CommitTomb ==
    ASSUME IInv, TombInv, NEW w \in Writers, phase[w] = "commit", table' = View(w),
           pend' = [pend EXCEPT ![w] = NoPend], OthersKeep(w), phase'[w] \notin InTx
    PROVE  TombInv'
<1>0. TypeOK /\ LocksExclusive
  BY DEF IInv
<1> DEFINE x == View(w)
<1>1. \A u \in Writers \ {w} : pend'[u] = pend[u]
  BY <1>0 DEF TypeOK
<1>2. \A r \in RowId : pend'[w][r] = Absent
  BY <1>0 DEF TypeOK, NoPend
<1>3. x \in [RowId -> Row \cup {Absent}] /\ TombstonesApart(x)
  BY <1>0, ViewTypes DEF TombInv
<1>4. View(w)' = x
  <2>1. View(w)' = [r \in RowId |-> x[r]]
    BY <1>2 DEF View
  <2>2. QED
    BY <1>3, <2>1
<1>5. \A r \in RowId : table[r] # Absent /\ ~table[r].del => x[r] # Absent /\ ~x[r].del
  BY DEF TombInv, UpdatesKeepLive, View
<1>6. ASSUME NEW u \in Writers, u # w
      PROVE  \A r \in RowId : View(u)'[r] = IF pend[u][r] # Absent THEN pend[u][r] ELSE x[r]
  BY <1>1, <1>6 DEF View
<1>7. ASSUME NEW u \in Writers, u # w, NEW r \in RowId, pend[u][r] # Absent
      PROVE  x[r] = table[r]
  BY <1>0, <1>7 DEF View, LocksExclusive
<1>8. ASSUME NEW u \in Writers, u # w
      PROVE  TombstonesApart(View(u)')
  <2> DEFINE z == View(u)'
  <2> SUFFICES ASSUME NEW r \in RowId, z[r] # Absent, z[r].del, z[r].prev # NoRow
               PROVE  ~z[z[r].prev].del
    BY DEF TombstonesApart
  <2>0. \A s \in RowId : z[s] = IF pend[u][s] # Absent THEN pend[u][s] ELSE x[s]
    BY <1>6, <1>8
  <2> HIDE DEF z
  <2> DEFINE q == z[r].prev
  <2>1. CASE pend[u][r] # Absent
    <3>1. View(u)[r] = pend[u][r] /\ z[r] = pend[u][r]
      BY <2>0, <2>1 DEF View
    <3>2. q \in RowId /\ View(u)[q] # Absent
      BY <2>1, <3>1, ViewPrev
    <3>3. ~View(u)[q].del
      BY <2>1, <3>1 DEF TombInv, TombstonesApart
    <3>4. CASE pend[u][q] # Absent
      BY <2>0, <3>2, <3>3, <3>4 DEF View
    <3>5. CASE pend[u][q] = Absent
      <4>1. table[q] # Absent /\ ~table[q].del
        BY <3>2, <3>3, <3>5 DEF View
      <4>2. QED
        BY <1>5, <2>0, <3>2, <3>5, <4>1
    <3>6. QED
      BY <3>4, <3>5
  <2>2. CASE pend[u][r] = Absent
    <3>1. z[r] = x[r]
      BY <2>0, <2>2
    <3>2. q \in RowId /\ x[q] # Absent /\ ~x[q].del
      BY <1>3, <3>1, ViewPrev DEF TombstonesApart
    <3>3. CASE pend[u][q] # Absent
      <4>1. x[q] = table[q]
        BY <1>7, <1>8, <3>2, <3>3
      <4>2. z[q] = pend[u][q]
        BY <2>0, <3>2, <3>3
      <4>3. QED
        BY <3>2, <3>3, <4>1, <4>2 DEF TombInv, UpdatesKeepLive
    <3>4. CASE pend[u][q] = Absent
      BY <2>0, <3>2, <3>4
    <3>5. QED
      BY <3>3, <3>4
  <2>3. QED
    BY <2>1, <2>2
<1>9. TombstonesApart(table)' /\ \A u \in Writers : TombstonesApart(View(u))'
  <2>1. TombstonesApart(table') /\ \A u \in Writers : TombstonesApart(View(u)')
    BY <1>3, <1>4, <1>8
  <2>2. QED
    BY <2>1 DEF TombstonesApart
<1>10. ASSUME NEW u \in Writers PROVE ArchiveSees(u)'
  <2>1. CASE u = w
    BY <2>1 DEF ArchiveSees, InTx
  <2>2. CASE u # w
    <3> SUFFICES ASSUME phase[u] \in {"supersede", "split"}, job[u].kind = "archive"
                 PROVE  ~View(u)'[seen[u].id].del
      BY <2>2 DEF ArchiveSees, OthersKeep
    <3> DEFINE r == seen[u].id
    <3>1. ~View(u)[r].del
      BY DEF TombInv, ArchiveSees
    <3>2. r \in RowId /\ View(u)[r] # Absent
      BY DEF IInv, SeenOK, SeenAt, Of
    <3>3. CASE pend[u][r] # Absent
      BY <1>6, <2>2, <3>1, <3>2, <3>3 DEF View
    <3>4. CASE pend[u][r] = Absent
      <4>1. table[r] # Absent /\ ~table[r].del
        BY <3>1, <3>2, <3>4 DEF View
      <4>2. View(u)'[r] = x[r]
        BY <1>6, <2>2, <3>2, <3>4
      <4>3. QED
        BY <1>5, <3>2, <4>1, <4>2
    <3>5. QED
      BY <3>3, <3>4
  <2>3. QED
    BY <2>1, <2>2
<1>11. UpdatesKeepLive'
  <2> SUFFICES ASSUME NEW u \in Writers, NEW r \in RowId, pend'[u][r] # Absent,
                      table'[r] # Absent, ~table'[r].del
               PROVE  ~pend'[u][r].del
    BY DEF UpdatesKeepLive
  <2>1. u # w /\ pend'[u] = pend[u]
    BY <1>1, <1>2
  <2>2. x[r] = table[r]
    BY <1>7, <2>1
  <2>3. QED
    BY <2>1, <2>2 DEF TombInv, UpdatesKeepLive
<1>12. QED
  BY <1>9, <1>10, <1>11 DEF TombInv

\* Lifting a tombstone nobody has locked.
LEMMA RestoreTomb ==
    ASSUME IInv, TombInv, NEW k \in Keys, Restore(k)
    PROVE  TombInv'
<1>0. TypeOK
  BY DEF IInv
<1>1. PICK h \in RowId :
         /\ IsCurrent(table, h, k)
         /\ \A u \in Writers : pend[u][h] = Absent
         /\ table' = [table EXCEPT ![h].del = FALSE]
  BY DEF Restore
<1>2. UNCHANGED <<pend, phase, job, seen>>
  BY DEF Restore, ctlVars
<1>3. table[h] \in Row /\ table[h] # Absent
  BY <1>0, <1>1 DEF TypeOK, IsCurrent
<1>4. ~table'[h].del /\ table'[h].prev = table[h].prev /\ table'[h] # Absent
  <2>1. table'[h] = [table[h] EXCEPT !.del = FALSE]
    BY <1>0, <1>1 DEF TypeOK
  <2>2. table'[h] \in Row
    BY <1>3, <2>1 DEF Row
  <2>3. QED
    BY <1>3, <2>1, <2>2, RowPresent DEF Row
<1>5. \A r \in RowId \ {h} : table'[r] = table[r]
  BY <1>0, <1>1 DEF TypeOK
<1>6. ASSUME NEW x, NEW y, TombstonesApart(x),
             \A r \in RowId \ {h} : y[r] = x[r], x[h] = table[h], y[h] = table'[h],
             \A r \in RowId : x[r] # Absent /\ x[r].prev # NoRow => x[r].prev \in RowId
      PROVE  TombstonesApart(y)
  <2> SUFFICES ASSUME NEW r \in RowId, y[r] # Absent, y[r].del, y[r].prev # NoRow
               PROVE  ~y[y[r].prev].del
    BY DEF TombstonesApart
  <2>1. r # h
    BY <1>4, <1>6
  <2>2. y[r] = x[r] /\ x[r].prev \in RowId /\ ~x[x[r].prev].del
    BY <1>6, <2>1 DEF TombstonesApart
  <2>3. QED
    BY <1>4, <1>6, <2>2
<1>7. \A r \in RowId : table[r] # Absent /\ table[r].prev # NoRow => table[r].prev \in RowId
  BY <1>0, LinkRange DEF TypeOK
<1>8. TombstonesApart(table')
  BY <1>5, <1>6, <1>7 DEF TombInv
<1>9. ASSUME NEW u \in Writers
      PROVE  TombstonesApart(View(u)') /\ ArchiveSees(u)'
  <2>1. /\ \A r \in RowId \ {h} : View(u)'[r] = View(u)[r]
        /\ View(u)[h] = table[h] /\ View(u)'[h] = table'[h]
    BY <1>1, <1>2, <1>5 DEF View
  <2>2. \A r \in RowId : View(u)[r] # Absent /\ View(u)[r].prev # NoRow
                           => View(u)[r].prev \in RowId
    BY ViewPrev
  <2>3. TombstonesApart(View(u))
    BY DEF TombInv
  <2> DEFINE x == View(u)
             y == View(u)'
  <2>4. /\ TombstonesApart(x) /\ \A r \in RowId \ {h} : y[r] = x[r]
        /\ x[h] = table[h] /\ y[h] = table'[h]
        /\ \A r \in RowId : x[r] # Absent /\ x[r].prev # NoRow => x[r].prev \in RowId
    BY <2>1, <2>2, <2>3
  <2> HIDE DEF x, y
  <2>5. TombstonesApart(y)
    BY <1>6, <2>4
  <2>6. ArchiveSees(u)'
    <3>1. phase[u] \in {"supersede", "split"} => seen[u].id \in RowId
      BY DEF IInv, SeenOK, SeenAt
    <3>2. \A r \in RowId : ~View(u)[r].del => ~View(u)'[r].del
      BY <1>4, <2>1
    <3>3. ArchiveSees(u)
      BY DEF TombInv
    <3>4. QED
      BY <1>2, <3>1, <3>2, <3>3 DEF ArchiveSees
  <2>7. QED
    BY <2>5, <2>6 DEF y
<1>10. UpdatesKeepLive'
  BY <1>1, <1>2, <1>5 DEF TombInv, UpdatesKeepLive
<1>11. TombstonesApart(table)' /\ \A u \in Writers : TombstonesApart(View(u))'
  BY <1>8, <1>9 DEF TombstonesApart
<1>12. QED
  BY <1>9, <1>10, <1>11 DEF TombInv

\* Steps that leave the database alone, and those that roll back.
LEMMA QuietTomb ==
    ASSUME IInv, TombInv, NEW w \in Writers,
           \/ \E kind \in Kinds, b \in Batches : Call(w, kind, b)
           \/ BeginTx(w) \/ UpsertLookup(w) \/ ArchiveLookup(w) \/ Publish(w)
           \/ ConnectionLost(w) \/ StatementFails(w) \/ DeadlockVictim(w)
    PROVE  TombInv'
<1>0. TypeOK /\ ControlAt(w)
  BY DEF IInv, ControlOK
<1>1. ASSUME NEW kind \in Kinds, NEW b \in Batches, Call(w, kind, b)
      PROVE  TombInv'
  <2>1. table' = table /\ pend' = pend /\ OthersKeep(w) /\ phase'[w] = "begin"
    BY <1>0, <1>1 DEF Call, dbVars, OthersKeep, TypeOK
  <2>2. ArchiveSees(w)'
    BY <2>1 DEF ArchiveSees
  <2>3. QED
    BY <1>0, <2>1, <2>2, StillTomb
<1>2. CASE BeginTx(w)
  <2>1. table' = table /\ pend' = pend /\ OthersKeep(w)
    BY <1>0, <1>2 DEF BeginTx, dbVars, OthersKeep, TypeOK
  <2>2. phase'[w] \in {"insert", "lookup"}
    BY <1>0, <1>2 DEF BeginTx, FirstPhase, TypeOK
  <2>3. ArchiveSees(w)'
    BY <2>2 DEF ArchiveSees
  <2>4. QED
    BY <1>0, <2>1, <2>3, StillTomb
<1>3. CASE UpsertLookup(w)
  <2>1. table' = table /\ pend' = pend /\ OthersKeep(w) /\ job'[w].kind = "upsert"
    BY <1>0, <1>3 DEF UpsertLookup, dbVars, OthersKeep, TypeOK
  <2>2. ArchiveSees(w)'
    BY <2>1 DEF ArchiveSees
  <2>3. QED
    BY <1>0, <2>1, <2>2, StillTomb
<1>4. ASSUME NEW r \in RowId, ~View(w)[r].del,
             seen' = [seen EXCEPT ![w] = [id |-> r, row |-> View(w)[r]]],
             phase' = [phase EXCEPT ![w] = "supersede"],
             UNCHANGED <<table, pend, job, item, fresh>>
      PROVE  TombInv'
  <2>1. OthersKeep(w) /\ seen'[w].id = r
    BY <1>0, <1>4 DEF OthersKeep, TypeOK
  <2>2. View(w)' = View(w)
    BY <1>4 DEF View
  <2>3. ArchiveSees(w)'
    BY <1>4, <2>1, <2>2 DEF ArchiveSees
  <2>4. QED
    BY <1>0, <1>4, <2>1, <2>3, StillTomb
<1>5. ASSUME RetryOrGiveUp(w) \/ Return(w), phase[w] # "idle", table' = table
      PROVE  TombInv'
  <2>1. OthersKeep(w) /\ pend' = [pend EXCEPT ![w] = NoPend] /\ phase'[w] \notin InTx
    BY <1>0, <1>5, RollbackOK
  <2>2. ArchiveSees(w)'
    BY <2>1 DEF ArchiveSees, InTx
  <2>3. QED
    BY <1>0, <1>5, <2>1, <2>2, StillTomb
<1>6. CASE ArchiveLookup(w)
  <2>1. \/ \E r \in RowId : /\ ~View(w)[r].del
                            /\ seen' = [seen EXCEPT ![w] = [id |-> r, row |-> View(w)[r]]]
                            /\ phase' = [phase EXCEPT ![w] = "supersede"]
                            /\ UNCHANGED <<pend, job, item, attempt, fresh, tally>>
        \/ Return(w)
    BY <1>6 DEF ArchiveLookup
  <2>2. table' = table /\ phase[w] # "idle"
    BY <1>6 DEF ArchiveLookup
  <2>3. QED
    BY <1>4, <1>5, <2>1, <2>2
<1>7. CASE Publish(w)
  BY <1>5, <1>7 DEF Publish
<1>8. CASE ConnectionLost(w) \/ StatementFails(w)
  BY <1>5, <1>8 DEF ConnectionLost, StatementFails, InTx
<1>9. CASE DeadlockVictim(w)
  <2>1. \E v \in Writers : WaitsFor(w, v)
    BY <1>9 DEF DeadlockVictim
  <2>2. phase[w] # "idle"
    BY <2>1 DEF WaitsFor
  <2>3. QED
    BY <1>5, <1>9, <2>2 DEF DeadlockVictim
<1>10. QED
  BY <1>1, <1>2, <1>3, <1>6, <1>7, <1>8, <1>9

\* The statements that write.
LEMMA StatementTomb ==
    ASSUME IInv, TombInv, NEW w \in Writers,
           InsertRoot(w) \/ Verify(w) \/ Supersede(w) \/ InsertVersion(w)
    PROVE  TombInv'
<1>0. TypeOK /\ ControlAt(w) /\ SeenAt(w) /\ FreshAt(w)
  BY DEF IInv, ControlOK, SeenOK, FreshOK
<1>1. ASSUME Advance(w), phase[w] \in InTx
      PROVE  OthersKeep(w) /\ ArchiveSees(w)'
  <2>1. OthersKeep(w) /\ phase'[w] \in {"lookup", "insert", "commit"}
    BY <1>0, <1>1, AdvanceOK
  <2>2. QED
    BY <2>1 DEF ArchiveSees
<1>2. CASE InsertRoot(w)
  <2>1. table' = table /\ Advance(w) /\ phase[w] \in InTx
    BY <1>2 DEF InsertRoot, InTx
  <2>2. CASE UNCHANGED pend
    BY <1>0, <1>1, <2>1, <2>2, StillTomb
  <2>3. ASSUME NEW n \in RowId, View(w)[n] = Absent, pend' = [pend EXCEPT ![w][n] = RootRow(w)]
        PROVE  TombInv'
    <3>1. Key(w) \in Keys /\ Content(w) \in Contents
      BY <1>0, <2>1, ItemType DEF ControlAt, InTx
    <3>2. RootRow(w) \in Row /\ RootRow(w).prev = NoRow /\ RootRow(w).prev # n
      BY <3>1, ConstantsAssumption DEF RootRow, Row, NoRow, RowId
    <3>3. QED
      BY <1>1, <2>1, <2>3, <3>2, WriteTomb
  <2>4. QED
    BY <1>2, <2>2, <2>3, RootInserted
<1>3. CASE Verify(w)
  <2> DEFINE o == seen[w].id
             x == Verified(View(w)[o], ScanOf[w])
  <2>1. table' = table /\ Advance(w) /\ phase[w] \in InTx /\ pend' = [pend EXCEPT ![w][o] = x]
    BY <1>3 DEF Verify, InTx
  <2>2. o \in RowId /\ View(w)[o] \in Row /\ View(w)[o] # Absent
    BY <1>0, <1>3, ViewTypes DEF SeenAt, Verify, Of
  <2>3. x \in Row /\ x.prev = View(w)[o].prev /\ ~x.del
    BY <2>2, ConstantsAssumption DEF Verified, Row
  <2> HIDE DEF o, x
  <2>4. QED
    BY <1>1, <2>1, <2>2, <2>3, WriteTomb
<1>4. CASE Supersede(w)
  <2> DEFINE o == seen[w].id
  <2>1. o \in RowId /\ View(w)[o] \in Row /\ View(w)[o] # Absent
    BY <1>0, <1>4, ViewTypes DEF SeenAt, Supersede, Of
  <2> DEFINE n == fresh[w]
  <2>2. n \in RowId /\ pend' = [pend EXCEPT ![w][o] = [View(w)[o] EXCEPT !.sup = n]]
    BY <1>0, <1>4 DEF Supersede, FreshAt, OwnId
  <2> DEFINE x == [View(w)[o] EXCEPT !.sup = n]
  <2>3. x \in Row /\ x.prev = View(w)[o].prev /\ x.del = View(w)[o].del
    BY <2>1, <2>2, ConstantsAssumption DEF Row, RowId
  <2>4. table' = table /\ OthersKeep(w) /\ job' = job /\ seen' = seen
    BY <1>0, <1>4 DEF Supersede, OthersKeep, TypeOK
  <2>5. ArchiveSees(w)'
    <3>1. View(w)'[o] = x
      BY <1>0, <2>1, <2>2, <2>3, RowPresent DEF View, TypeOK
    <3>2. phase[w] = "supersede"
      BY <1>4 DEF Supersede
    <3>3. job[w].kind = "archive" => ~View(w)[o].del
      BY <3>2 DEF TombInv, ArchiveSees
    <3> HIDE DEF x
    <3>4. job[w].kind = "archive" => ~View(w)'[o].del
      BY <2>3, <3>1, <3>3
    <3>5. QED
      BY <2>4, <3>4 DEF ArchiveSees
  <2> HIDE DEF x
  <2>6. pend' = [pend EXCEPT ![w][o] = x]
    BY <2>2 DEF x
  <2> HIDE DEF o
  <2>7. QED
    BY <2>1, <2>3, <2>4, <2>5, <2>6, WriteTomb
<1>5. CASE InsertVersion(w)
  <2> DEFINE n == fresh[w]
             x == VersionRow(w)
  <2>1. table' = table /\ phase[w] \in InTx /\ phase[w] = "split" /\ Splitting(w)
    BY <1>5 DEF InsertVersion, InTx, Splitting
  <2>2. CASE Return(w)
    <3>1. OthersKeep(w) /\ pend' = [pend EXCEPT ![w] = NoPend] /\ phase'[w] \notin InTx
      BY <1>0, <2>1, <2>2, RollbackOK
    <3>2. ArchiveSees(w)'
      BY <3>1 DEF ArchiveSees, InTx
    <3>3. QED
      BY <1>0, <2>1, <3>1, <3>2, StillTomb
  <2>3. CASE Advance(w) /\ pend' = [pend EXCEPT ![w][n] = x]
    <3>1. /\ n \in RowId /\ seen[w].id \in RowId /\ seen[w].id # n
          /\ View(w)[n] = Absent
      BY <1>0, <2>1 DEF SeenAt, FreshAt, OwnId, View, RowId
    <3>2. seen[w].row \in Row
      BY <1>0, <2>1 DEF SeenAt
    <3>3. Key(w) \in Keys /\ Content(w) \in Contents
      BY <1>0, <2>1, ItemType DEF ControlAt
    <3>4. seen[w].id \in 0..MaxRows /\ NoRow \in 0..MaxRows /\ ScanOf[w] \in Scans
      BY <3>1, ConstantsAssumption DEF RowId, NoRow
    <3>5. x \in Row /\ x.prev = seen[w].id /\ (x.del => job[w].kind = "archive")
      <4>1. CASE job[w].kind = "archive"
        <5>1. x = [seen[w].row EXCEPT !.prev = seen[w].id, !.sup = NoRow,
                                      !.del = TRUE, !.ref = FALSE]
          BY <4>1 DEF VersionRow
        <5> HIDE DEF x
        <5>2. QED
          BY <3>2, <3>4, <4>1, <5>1 DEF Row
      <4>2. CASE job[w].kind # "archive"
        <5>1. x = [key |-> Key(w), content |-> Content(w), prev |-> seen[w].id,
                   sup |-> NoRow, disc |-> seen[w].row.disc, ver |-> ScanOf[w],
                   del |-> FALSE, ref |-> FALSE]
          BY <4>2 DEF VersionRow
        <5>2. seen[w].row.disc \in Scans
          BY <3>2 DEF Row
        <5> HIDE DEF x
        <5>3. QED
          BY <3>3, <3>4, <5>1, <5>2 DEF Row
      <4>3. QED
        BY <4>1, <4>2
    <3>6. job[w].kind = "archive" => ~View(w)[seen[w].id].del
      BY <2>1 DEF TombInv, ArchiveSees
    <3> HIDE DEF n, x
    <3>7. QED
      BY <1>1, <2>1, <2>3, <3>1, <3>5, <3>6, WriteTomb
  <2>4. QED
    BY <1>5, <2>2, <2>3 DEF InsertVersion
<1>6. QED
  BY <1>2, <1>3, <1>4, <1>5

\* Every step keeps tombstones apart.
LEMMA NextTomb == IInv /\ TombInv /\ [Next]_vars => TombInv'
<1> SUFFICES ASSUME IInv, TombInv, [Next]_vars PROVE TombInv'
  OBVIOUS
<1>0. TypeOK
  BY DEF IInv
<1>1. ASSUME NEW w \in Writers, Commit(w) \/ CommitAckLost(w)
      PROVE  TombInv'
  <2>1. phase[w] = "commit" /\ table' = View(w) /\ ControlAt(w)
    BY <1>1 DEF Commit, CommitAckLost, IInv, ControlOK
  <2>2. OthersKeep(w) /\ pend' = [pend EXCEPT ![w] = NoPend] /\ phase'[w] \notin InTx
    <3>1. CASE RetryOrGiveUp(w) \/ Return(w)
      BY <1>0, <2>1, <3>1, RollbackOK
    <3>2. CASE Leave(w, "publish")
      BY <1>0, <2>1, <3>2, LeaveOK
    <3>3. QED
      BY <1>1, <3>1, <3>2 DEF Commit, CommitAckLost
  <2>3. QED
    BY <2>1, <2>2, CommitTomb
<1>2. CASE UNCHANGED vars \/ \E w \in Writers : DrawId(w)
  <2>1. UNCHANGED <<table, pend, phase, job, seen>>
    BY <1>2, DrawKeeps DEF vars
  <2>2. \A u \in Writers : View(u)' = View(u)
    BY <2>1 DEF View
  <2>3. QED
    BY <2>1, <2>2 DEF TombInv, TombstonesApart, ArchiveSees, UpdatesKeepLive
<1>3. QED
  BY <1>1, <1>2, QuietTomb, StatementTomb, RestoreTomb, Zenon DEF Next, Step

\* Tombstones are apart from the start.
LEMMA TombInvariance == Spec => []TombInv
<1>1. Init => TombInv
  <2> SUFFICES ASSUME Init PROVE TombInv
    OBVIOUS
  <2>1. \A r \in RowId : table[r] = Absent
    BY DEF Init, NoPend
  <2>2. \A u \in Writers : \A r \in RowId : View(u)[r] = Absent
    BY <2>1 DEF Init, View, NoPend
  <2>3. QED
    BY <2>1, <2>2 DEF Init, TombInv, TombstonesApart, ArchiveSees, UpdatesKeepLive
<1>2. QED
  BY <1>1, NextTomb, Invariance, PTL DEF Spec

\* For any number of writers, at READ COMMITTED too: archives that race with
\* archives, scans and restores never put a tombstone over a tombstone.
THEOREM ArchiveOnce == Spec => []NoDoubleTombstone
<1>1. TombInv => NoDoubleTombstone
  BY DEF TombInv, TombstonesApart, NoDoubleTombstone
<1>2. QED
  BY <1>1, TombInvariance, PTL

-----------------------------------------------------------------------------
(* Payloads. *)

\* What the invariant says of u survives a step that leaves u's variables and the rows
\* u has written alone, keeps contents, and brings no first row to a key of a new root.
LEMMA OtherPayload ==
    ASSUME IInv, NEW u \in Writers, PayloadAt(u),
           pend'[u] = pend[u], phase'[u] = phase[u], job'[u] = job[u], item'[u] = item[u],
           seen'[u] = seen[u],
           \A r \in RowId : pend[u][r] # Absent => table'[r] = table[r],
           \A r \in RowId : table[r] # Absent => table'[r].content = table[r].content,
           \A r \in RowId : pend[u][r] # Absent /\ table[r] = Absent
                            /\ Occupied(table', pend[u][r].key)
                                => Occupied(table, pend[u][r].key)
    PROVE  PayloadAt(u)'
<1>1. \A r \in RowId : View(u)[r] # Absent => View(u)'[r].content = View(u)[r].content
  BY DEF View
<1>2. ComparedAt(u)'
  <2>1. phase[u] \in {"supersede", "split"} => seen[u].id \in RowId /\ View(u)[seen[u].id] # Absent
    BY DEF IInv, SeenOK, SeenAt, Of
  <2>2. Content(u)' = Content(u) /\ ComparedAt(u)
    BY DEF Content, PayloadAt
  <2>3. QED
    BY <1>1, <2>1, <2>2 DEF ComparedAt
<1>3. ASSUME NEW r \in RowId, pend[u][r] # Absent, table[r] = Absent
      PROVE  NewRowAt(u, r)'
  <2>1. View(u)[r] = pend[u][r] /\ NewRowAt(u, r)
    BY <1>3 DEF View, PayloadAt
  <2>2. pend[u][r].prev # NoRow
          => pend[u][r].prev \in RowId /\ View(u)[pend[u][r].prev] # Absent
    BY <1>3, <2>1, ViewPrev
  <2>3. Occupied(table, pend[u][r].key)' => Occupied(table, pend[u][r].key)
    <3>1. Occupied(table, pend[u][r].key)' => Occupied(table', pend[u][r].key)
      BY DEF Occupied, IsCurrent
    <3>2. QED
      BY <1>3, <3>1
  <2>4. QED
    BY <1>1, <2>1, <2>2, <2>3 DEF NewRowAt
<1>4. ASSUME NEW r \in RowId, pend[u][r] # Absent
      PROVE  (table[r] = Absent) = (table'[r] = Absent)
             /\ (table'[r] # Absent /\ ~table'[r].ref => ~pend[u][r].ref)
  BY <1>4 DEF PayloadAt
<1>5. QED
  BY <1>2, <1>3, <1>4 DEF PayloadAt

\* A step that writes no row, or drops those of one writer.
LEMMA StillPayload ==
    ASSUME IInv, PayloadInv, NEW w \in Writers, table' = table, OthersKeep(w),
           (pend' = pend /\ job' = job) \/ pend' = [pend EXCEPT ![w] = NoPend],
           ComparedAt(w)'
    PROVE  PayloadInv'
<1>0. TypeOK
  BY DEF IInv
<1>1. ASSUME NEW u \in Writers, u # w PROVE PayloadAt(u)'
  <2>1. pend'[u] = pend[u]
    BY <1>0, <1>1 DEF TypeOK
  <2>2. PayloadAt(u)
    BY DEF PayloadInv
  <2>3. QED
    BY <1>1, <2>1, <2>2, OtherPayload DEF OthersKeep
<1>2. PayloadAt(w)'
  <2>1. CASE pend' = pend /\ job' = job
    <3>1. View(w)' = View(w)
      BY <2>1 DEF View
    <3>2. PayloadAt(w)
      BY DEF PayloadInv
    <3>3. \A r \in RowId : NewRowAt(w, r)' <=> NewRowAt(w, r)
      BY <2>1, <3>1 DEF NewRowAt, Occupied, IsCurrent
    <3>4. QED
      BY <2>1, <3>2, <3>3 DEF PayloadAt
  <2>2. CASE pend' = [pend EXCEPT ![w] = NoPend]
    <3>1. \A r \in RowId : pend'[w][r] = Absent
      BY <1>0, <2>2 DEF TypeOK, NoPend
    <3>2. QED
      BY <3>1 DEF PayloadAt
  <2>3. QED
    BY <2>1, <2>2
<1>3. QED
  BY <1>1, <1>2 DEF PayloadInv

\* A step in which w writes one row: over a row of its view, or a new one.
LEMMA WritePayload ==
    ASSUME IInv, PayloadInv, NEW w \in Writers, table' = table, OthersKeep(w), job' = job,
           NEW n \in RowId, NEW row \in Row, pend' = [pend EXCEPT ![w][n] = row],
           View(w)[n] # Absent =>
              /\ row.key = View(w)[n].key /\ row.content = View(w)[n].content
              /\ row.prev = View(w)[n].prev
              /\ row.del => View(w)[n].del
              /\ View(w)[n].del /\ job[w].kind = "archive" => row.del
              /\ row.ref => View(w)[n].ref,
           View(w)[n] = Absent =>
              /\ row.prev = NoRow => ~Occupied(table, row.key)
              /\ row.prev # NoRow =>
                    /\ ~row.ref /\ row.prev \in RowId /\ View(w)[row.prev] # Absent
                    /\ row.del \/ row.content # View(w)[row.prev].content
              /\ row.del => job[w].kind = "archive",
           ComparedAt(w)'
    PROVE  PayloadInv'
<1>0. TypeOK
  BY DEF IInv
<1>1. row # Absent /\ pend'[w][n] = row /\ \A r \in RowId \ {n} : pend'[w][r] = pend[w][r]
  BY <1>0, RowPresent DEF TypeOK
<1>2. ASSUME NEW u \in Writers, u # w PROVE PayloadAt(u)'
  <2>1. pend'[u] = pend[u]
    BY <1>0, <1>2 DEF TypeOK
  <2>2. PayloadAt(u)
    BY DEF PayloadInv
  <2>3. QED
    BY <1>2, <2>1, <2>2, OtherPayload DEF OthersKeep
<1>3. \A r \in RowId : View(w)[r] # Absent => View(w)'[r].content = View(w)[r].content
  BY <1>1 DEF View
<1>4. PayloadAt(w)
  BY DEF PayloadInv
<1>5. \A k : Occupied(table, k)' <=> Occupied(table, k)
  BY DEF Occupied, IsCurrent
<1>6. ASSUME NEW r \in RowId, pend'[w][r] # Absent, table[r] = Absent
      PROVE  NewRowAt(w, r)'
  <2>1. CASE r = n /\ View(w)[n] = Absent
    BY <1>1, <1>3, <1>5, <2>1 DEF NewRowAt
  <2>2. CASE r = n /\ View(w)[n] # Absent
    <3>1. pend[w][n] # Absent /\ View(w)[n] = pend[w][n]
      BY <1>6, <2>2 DEF View
    <3>2. NewRowAt(w, n)
      BY <1>4, <1>6, <2>2, <3>1 DEF PayloadAt
    <3>3. row.prev # NoRow => row.prev \in RowId /\ View(w)[row.prev] # Absent
      BY <2>2, ViewPrev
    <3>4. row.prev # NoRow => ~row.ref /\ (row.del \/ row.content # View(w)[row.prev].content)
      BY <2>2, <3>1, <3>2 DEF NewRowAt
    <3>5. (row.prev = NoRow => ~Occupied(table, row.key)) /\ (row.del => job[w].kind = "archive")
      BY <2>2, <3>1, <3>2 DEF NewRowAt
    <3>6. QED
      BY <1>1, <1>3, <1>5, <2>2, <3>3, <3>4, <3>5 DEF NewRowAt
  <2>3. CASE r # n
    <3>1. pend[w][r] # Absent /\ View(w)[r] = pend[w][r] /\ pend'[w][r] = pend[w][r]
      BY <1>1, <1>6, <2>3 DEF View
    <3>2. NewRowAt(w, r)
      BY <1>4, <1>6, <3>1 DEF PayloadAt
    <3>3. pend[w][r].prev # NoRow
            => pend[w][r].prev \in RowId /\ View(w)[pend[w][r].prev] # Absent
      BY <3>1, ViewPrev
    <3>4. QED
      BY <1>3, <1>5, <3>1, <3>2, <3>3 DEF NewRowAt
  <2>4. QED
    BY <2>1, <2>2, <2>3
<1>7. ASSUME NEW r \in RowId, pend'[w][r] # Absent, table[r] # Absent, ~table[r].ref
      PROVE  ~pend'[w][r].ref
  <2>1. pend[w][r] # Absent => ~pend[w][r].ref
    BY <1>4, <1>7 DEF PayloadAt
  <2>2. View(w)[r] # Absent /\ ~View(w)[r].ref
    BY <1>7, <2>1 DEF View
  <2>3. QED
    BY <1>1, <1>7, <2>1, <2>2
<1>8. PayloadAt(w)'
  BY <1>6, <1>7 DEF PayloadAt
<1>9. QED
  BY <1>2, <1>8 DEF PayloadInv

\* A commit adds no current row of a key another writer has inserted a row of.
LEMMA CommitPayload ==
    ASSUME IInv, PayloadInv, NEW w \in Writers, phase[w] = "commit", table' = View(w),
           pend' = [pend EXCEPT ![w] = NoPend], OthersKeep(w), phase'[w] \notin InTx
    PROVE  PayloadInv'
<1>0. TypeOK /\ LocksExclusive /\ ClaimsExclusive /\ UpdatesKeep
  BY DEF IInv
<1>1. Held(w) = pend[w]
  BY <1>0, ViewTypes DEF Splitting
<1>2. PayloadAt(w)'
  <2>1. \A r \in RowId : pend'[w][r] = Absent
    BY <1>0 DEF TypeOK, NoPend
  <2>2. QED
    BY <2>1 DEF PayloadAt, ComparedAt, InTx
<1>3. ASSUME NEW u \in Writers, u # w PROVE PayloadAt(u)'
  <2>1. pend'[u] = pend[u]
    BY <1>0, <1>3 DEF TypeOK
  <2>2. PayloadAt(u)
    BY DEF PayloadInv
  <2>3. \A r \in RowId : pend[u][r] # Absent => table'[r] = table[r]
    BY <1>0, <1>3 DEF View, LocksExclusive
  <2>4. \A r \in RowId : table[r] # Absent => table'[r].content = table[r].content
    BY <1>0 DEF View, UpdatesKeep
  <2>5. ASSUME NEW r \in RowId, pend[u][r] # Absent, table[r] = Absent,
               Occupied(table', pend[u][r].key)
        PROVE  Occupied(table, pend[u][r].key)
    <3> DEFINE k == pend[u][r].key
    <3>1. k \in Keys /\ Claims(u, k)
      <4>1. pend[u][r] \in Row
        BY <1>0, <2>5 DEF TypeOK
      <4>2. QED
        BY <2>5, <4>1 DEF Claims, Row
    <3>2. PICK s \in RowId : IsCurrent(View(w), s, k)
      BY <2>5 DEF Occupied
    <3> HIDE DEF k
    <3>3. CASE pend[w][s] = Absent
      <4>1. IsCurrent(table, s, k)
        BY <3>2, <3>3 DEF IsCurrent, View
      <4>2. QED
        BY <4>1 DEF Occupied, k
    <3>4. CASE pend[w][s] # Absent
      <4>1. pend[w][s].key = k /\ pend[w][s].sup = NoRow
        BY <3>2, <3>4 DEF IsCurrent, View
      <4>2. table[s] # Absent => table[s].sup = NoRow
        BY <1>0, <1>1, <3>4, <4>1 DEF UpdatesKeep
      <4>3. Claims(w, k)
        BY <3>4, <4>1, <4>2 DEF Claims
      <4>4. QED
        BY <1>0, <1>3, <3>1, <4>3 DEF ClaimsExclusive
    <3>5. QED
      BY <3>3, <3>4
  <2>6. QED
    BY <1>3, <2>1, <2>2, <2>3, <2>4, <2>5, OtherPayload DEF OthersKeep
<1>4. QED
  BY <1>2, <1>3 DEF PayloadInv

\* Lifting a tombstone nobody has locked.
LEMMA RestorePayload ==
    ASSUME IInv, PayloadInv, NEW k \in Keys, Restore(k)
    PROVE  PayloadInv'
<1>0. TypeOK
  BY DEF IInv
<1>1. PICK h \in RowId :
         /\ IsCurrent(table, h, k)
         /\ \A u \in Writers : pend[u][h] = Absent
         /\ table' = [table EXCEPT ![h].del = FALSE]
  BY DEF Restore
<1>2. UNCHANGED <<pend, phase, job, item, seen>>
  BY DEF Restore, ctlVars
<1>3. table[h] \in Row
  BY <1>0, <1>1 DEF TypeOK, IsCurrent
<1>4. /\ table'[h].content = table[h].content
      /\ \A r \in RowId \ {h} : table'[r] = table[r]
  <2>1. table'[h] = [table[h] EXCEPT !.del = FALSE]
    BY <1>0, <1>1 DEF TypeOK
  <2>2. QED
    BY <1>0, <1>1, <1>3, <2>1 DEF Row, TypeOK
<1>5. \A key : Occupied(table', key) => Occupied(table, key)
  <2>1. table'[h] = [table[h] EXCEPT !.del = FALSE]
    BY <1>0, <1>1 DEF TypeOK
  <2>2. table'[h].key = table[h].key /\ table'[h].sup = table[h].sup /\ table[h] # Absent
    BY <1>3, <2>1, RowPresent DEF Row
  <2>3. QED
    BY <1>4, <2>2 DEF Occupied, IsCurrent
<1>6. ASSUME NEW u \in Writers PROVE PayloadAt(u)'
  <2>1. PayloadAt(u)
    BY DEF PayloadInv
  <2>2. /\ \A r \in RowId : pend[u][r] # Absent => table'[r] = table[r]
        /\ \A r \in RowId : table[r] # Absent => table'[r].content = table[r].content
    BY <1>1, <1>4
  <2>3. QED
    BY <1>2, <1>5, <2>1, <2>2, OtherPayload
<1>7. QED
  BY <1>6 DEF PayloadInv

\* Steps that leave the database alone, and those that roll back.
LEMMA QuietPayload ==
    ASSUME IInv, PayloadInv, NEW w \in Writers,
           \/ \E kind \in Kinds, b \in Batches : Call(w, kind, b)
           \/ BeginTx(w) \/ UpsertLookup(w) \/ ArchiveLookup(w) \/ Publish(w)
           \/ ConnectionLost(w) \/ StatementFails(w) \/ DeadlockVictim(w)
    PROVE  PayloadInv'
<1>0. TypeOK /\ ControlAt(w)
  BY DEF IInv, ControlOK
<1>1. ASSUME NEW kind \in Kinds, NEW b \in Batches, Call(w, kind, b)
      PROVE  PayloadInv'
  <2>1. table' = table /\ pend' = pend /\ OthersKeep(w) /\ phase'[w] = "begin"
        /\ pend[w] = NoPend
    BY <1>0, <1>1 DEF Call, dbVars, OthersKeep, TypeOK, ControlAt, InTx
  <2>2. pend' = [pend EXCEPT ![w] = NoPend]
    BY <1>0, <2>1 DEF TypeOK
  <2>3. ComparedAt(w)'
    BY <2>1 DEF ComparedAt
  <2>4. QED
    BY <2>1, <2>2, <2>3, StillPayload
<1>2. CASE BeginTx(w)
  <2>1. table' = table /\ pend' = pend /\ job' = job /\ OthersKeep(w)
    BY <1>0, <1>2 DEF BeginTx, dbVars, OthersKeep, TypeOK
  <2>2. phase'[w] \in {"insert", "lookup"}
    BY <1>0, <1>2 DEF BeginTx, FirstPhase, TypeOK
  <2>3. ComparedAt(w)'
    BY <2>2 DEF ComparedAt
  <2>4. QED
    BY <2>1, <2>3, StillPayload
<1>3. CASE UpsertLookup(w)
  <2>1. table' = table /\ pend' = pend /\ job' = job /\ item' = item /\ OthersKeep(w)
        /\ job[w].kind = "upsert"
    BY <1>0, <1>3 DEF UpsertLookup, dbVars, OthersKeep, TypeOK
  <2>2. View(w)' = View(w) /\ Content(w)' = Content(w)
    BY <2>1 DEF View, Content
  <2>3. ComparedAt(w)'
    <3>1. CASE phase' = [phase EXCEPT ![w] = "insert"]
      <4>1. phase'[w] = "insert"
        BY <1>0, <3>1 DEF TypeOK
      <4>2. QED
        BY <4>1 DEF ComparedAt
    <3>2. ASSUME NEW r \in RowId, seen' = [seen EXCEPT ![w] = [id |-> r, row |-> View(w)[r]]],
                 phase' = [phase EXCEPT ![w] =
                     IF View(w)[r].content = Content(w) THEN "verify" ELSE "supersede"]
          PROVE  ComparedAt(w)'
      <4>1. seen'[w].id = r
            /\ phase'[w] = IF View(w)[r].content = Content(w) THEN "verify" ELSE "supersede"
        BY <1>0, <3>2 DEF TypeOK
      <4>2. QED
        BY <2>1, <2>2, <4>1 DEF ComparedAt
    <3>3. QED
      BY <1>3, <3>1, <3>2 DEF UpsertLookup
  <2>4. QED
    BY <2>1, <2>3, StillPayload
<1>4. ASSUME phase' = [phase EXCEPT ![w] = "supersede"], job[w].kind = "archive",
             \E r \in RowId : seen' = [seen EXCEPT ![w] = [id |-> r, row |-> View(w)[r]]],
             UNCHANGED <<table, pend, job, item, fresh>>
      PROVE  PayloadInv'
  <2>1. OthersKeep(w) /\ phase'[w] = "supersede"
    BY <1>0, <1>4 DEF OthersKeep, TypeOK
  <2>2. ComparedAt(w)'
    BY <1>4, <2>1 DEF ComparedAt
  <2>3. QED
    BY <1>4, <2>1, <2>2, StillPayload
<1>5. ASSUME RetryOrGiveUp(w) \/ Return(w), phase[w] # "idle", table' = table
      PROVE  PayloadInv'
  <2>1. OthersKeep(w) /\ pend' = [pend EXCEPT ![w] = NoPend] /\ phase'[w] \notin InTx
    BY <1>0, <1>5, RollbackOK
  <2>2. ComparedAt(w)'
    BY <2>1 DEF ComparedAt, InTx
  <2>3. QED
    BY <1>5, <2>1, <2>2, StillPayload
<1>6. CASE ArchiveLookup(w)
  <2>1. \/ /\ \E r \in RowId : seen' = [seen EXCEPT ![w] = [id |-> r, row |-> View(w)[r]]]
           /\ phase' = [phase EXCEPT ![w] = "supersede"]
           /\ UNCHANGED <<pend, job, item, attempt, fresh, tally>>
        \/ Return(w)
    BY <1>6 DEF ArchiveLookup
  <2>2. table' = table /\ phase[w] # "idle" /\ job[w].kind = "archive"
    BY <1>6 DEF ArchiveLookup
  <2>3. QED
    BY <1>4, <1>5, <2>1, <2>2
<1>7. CASE Publish(w)
  BY <1>5, <1>7 DEF Publish
<1>8. CASE ConnectionLost(w) \/ StatementFails(w)
  BY <1>5, <1>8 DEF ConnectionLost, StatementFails, InTx
<1>9. CASE DeadlockVictim(w)
  <2>1. \E v \in Writers : WaitsFor(w, v)
    BY <1>9 DEF DeadlockVictim
  <2>2. phase[w] # "idle"
    BY <2>1 DEF WaitsFor
  <2>3. QED
    BY <1>5, <1>9, <2>2 DEF DeadlockVictim
<1>10. QED
  BY <1>1, <1>2, <1>3, <1>6, <1>7, <1>8, <1>9

\* A key that the view of a writer says is free has no current row in the table.
LEMMA FreeKey ==
    ASSUME IInv, NEW w \in Writers, ~Splitting(w), NEW k \in Keys, ~Occupied(View(w), k)
    PROVE  ~Occupied(table, k)
<1>0. TypeOK /\ UpdatesKeep
  BY DEF IInv
<1>1. Sound(View(w))
  BY <1>0, ViewTypes DEF IInv, ViewsSound
<1> SUFFICES ASSUME NEW s \in RowId, IsCurrent(table, s, k) PROVE FALSE
  BY DEF Occupied
<1>2. Of(View(w), s, k)
  BY <1>0 DEF Of, IsCurrent, View, UpdatesKeep
<1>3. QED
  BY <1>1, <1>2 DEF Sound, SoundChain

\* The statements that write.
LEMMA StatementPayload ==
    ASSUME IInv, PayloadInv, NEW w \in Writers,
           InsertRoot(w) \/ Verify(w) \/ Supersede(w) \/ InsertVersion(w)
    PROVE  PayloadInv'
<1>0. TypeOK /\ ControlAt(w) /\ SeenAt(w) /\ FreshAt(w) /\ ComparedAt(w)
  BY DEF IInv, ControlOK, SeenOK, FreshOK, PayloadInv, PayloadAt
<1>1. ASSUME Advance(w), phase[w] \in InTx
      PROVE  OthersKeep(w) /\ job' = job /\ ComparedAt(w)'
  <2>1. OthersKeep(w) /\ job' = job /\ phase'[w] \in {"lookup", "insert", "commit"}
    BY <1>0, <1>1, AdvanceOK
  <2>2. QED
    BY <2>1 DEF ComparedAt
<1>2. CASE InsertRoot(w)
  <2>1. table' = table /\ Advance(w) /\ phase[w] \in InTx /\ phase[w] = "insert" /\ ~Splitting(w)
    BY <1>2 DEF InsertRoot, InTx, Splitting
  <2>2. CASE UNCHANGED pend
    BY <1>1, <2>1, <2>2, StillPayload
  <2>3. ASSUME NEW n \in RowId, View(w)[n] = Absent, ~Occupied(View(w), Key(w)),
               pend' = [pend EXCEPT ![w][n] = RootRow(w)]
        PROVE  PayloadInv'
    <3>1. Key(w) \in Keys /\ Content(w) \in Contents
      BY <1>0, <2>1, ItemType DEF ControlAt, InTx
    <3>2. /\ RootRow(w) \in Row /\ RootRow(w).prev = NoRow /\ ~RootRow(w).del
          /\ RootRow(w).key = Key(w)
      BY <3>1, ConstantsAssumption DEF RootRow, Row, NoRow, RowId
    <3>3. ~Occupied(table, Key(w))
      BY <2>1, <2>3, <3>1, FreeKey
    <3>4. QED
      BY <1>1, <2>1, <2>3, <3>2, <3>3, WritePayload
  <2>4. QED
    BY <1>2, <2>2, <2>3, RootInserted
<1>3. CASE Verify(w)
  <2> DEFINE o == seen[w].id
             x == Verified(View(w)[o], ScanOf[w])
  <2>1. table' = table /\ Advance(w) /\ phase[w] \in InTx /\ pend' = [pend EXCEPT ![w][o] = x]
    BY <1>3 DEF Verify, InTx
  <2>2. o \in RowId /\ View(w)[o] \in Row /\ View(w)[o] # Absent
    BY <1>0, <1>3, ViewTypes DEF SeenAt, Verify, Of
  <2>3. /\ x \in Row /\ x.key = View(w)[o].key /\ x.content = View(w)[o].content
        /\ x.prev = View(w)[o].prev /\ ~x.del /\ ~x.ref
    BY <2>2, ConstantsAssumption DEF Verified, Row
  <2>4. job[w].kind # "archive"
    BY <1>0, <1>3 DEF Verify, ComparedAt
  <2> HIDE DEF o, x
  <2>5. QED
    BY <1>1, <2>1, <2>2, <2>3, <2>4, WritePayload
<1>4. CASE Supersede(w)
  <2> DEFINE o == seen[w].id
  <2>1. o \in RowId /\ View(w)[o] \in Row /\ View(w)[o] # Absent
    BY <1>0, <1>4, ViewTypes DEF SeenAt, Supersede, Of
  <2> DEFINE n == fresh[w]
  <2>2. n \in RowId /\ pend' = [pend EXCEPT ![w][o] = [View(w)[o] EXCEPT !.sup = n]]
    BY <1>0, <1>4 DEF Supersede, FreshAt, OwnId
  <2> DEFINE x == [View(w)[o] EXCEPT !.sup = n]
  <2>3. /\ x \in Row /\ x.key = View(w)[o].key /\ x.content = View(w)[o].content
        /\ x.prev = View(w)[o].prev /\ x.del = View(w)[o].del /\ x.ref = View(w)[o].ref
    BY <2>1, <2>2, ConstantsAssumption DEF Row, RowId
  <2>4. /\ table' = table /\ OthersKeep(w) /\ job' = job /\ item' = item /\ seen' = seen
        /\ phase[w] = "supersede" /\ phase'[w] = "split"
    BY <1>0, <1>4 DEF Supersede, OthersKeep, TypeOK
  <2>5. View(w)'[o] = x
    BY <1>0, <2>1, <2>2, <2>3, RowPresent DEF View, TypeOK
  <2> HIDE DEF x
  <2>6. pend' = [pend EXCEPT ![w][o] = x]
    BY <2>2 DEF x
  <2>7. ComparedAt(w)'
    <3>1. job[w].kind # "archive" => View(w)[o].content # Content(w)
      BY <1>0, <2>4 DEF ComparedAt
    <3>2. Content(w)' = Content(w)
      BY <2>4 DEF Content
    <3>3. QED
      BY <2>3, <2>4, <2>5, <3>1, <3>2 DEF ComparedAt
  <2> HIDE DEF o
  <2>8. QED
    BY <2>1, <2>3, <2>4, <2>6, <2>7, WritePayload
<1>5. CASE InsertVersion(w)
  <2> DEFINE n == fresh[w]
             x == VersionRow(w)
             o == seen[w].id
  <2>1. table' = table /\ phase[w] \in InTx /\ phase[w] = "split" /\ Splitting(w)
    BY <1>5 DEF InsertVersion, InTx, Splitting
  <2>2. CASE Return(w)
    <3>1. OthersKeep(w) /\ pend' = [pend EXCEPT ![w] = NoPend] /\ phase'[w] \notin InTx
      BY <1>0, <2>1, <2>2, RollbackOK
    <3>2. ComparedAt(w)'
      BY <3>1 DEF ComparedAt, InTx
    <3>3. QED
      BY <2>1, <3>1, <3>2, StillPayload
  <2>3. CASE Advance(w) /\ pend' = [pend EXCEPT ![w][n] = x]
    <3>1. n \in RowId /\ o \in RowId /\ View(w)[o] # Absent /\ View(w)[n] = Absent
      BY <1>0, <2>1 DEF SeenAt, FreshAt, OwnId, View, RowId, Of
    <3>2. seen[w].row \in Row
      BY <1>0, <2>1 DEF SeenAt
    <3>3. Key(w) \in Keys /\ Content(w) \in Contents
      BY <1>0, <2>1, ItemType DEF ControlAt
    <3>4. o \in 0..MaxRows /\ NoRow \in 0..MaxRows /\ ScanOf[w] \in Scans /\ o # NoRow
      BY <3>1, ConstantsAssumption DEF RowId, NoRow
    <3>5. /\ x \in Row /\ x.prev = o /\ ~x.ref
          /\ IF job[w].kind = "archive" THEN x.del ELSE ~x.del /\ x.content = Content(w)
      <4>1. CASE job[w].kind = "archive"
        <5>1. x = [seen[w].row EXCEPT !.prev = o, !.sup = NoRow, !.del = TRUE, !.ref = FALSE]
          BY <4>1 DEF VersionRow
        <5> HIDE DEF x, o
        <5>2. QED
          BY <3>2, <3>4, <4>1, <5>1 DEF Row
      <4>2. CASE job[w].kind # "archive"
        <5>1. x = [key |-> Key(w), content |-> Content(w), prev |-> o,
                   sup |-> NoRow, disc |-> seen[w].row.disc, ver |-> ScanOf[w],
                   del |-> FALSE, ref |-> FALSE]
          BY <4>2 DEF VersionRow
        <5>2. seen[w].row.disc \in Scans
          BY <3>2 DEF Row
        <5> HIDE DEF x, o
        <5>3. QED
          BY <3>3, <3>4, <4>2, <5>1, <5>2 DEF Row
      <4>3. QED
        BY <4>1, <4>2
    <3>6. job[w].kind # "archive" => View(w)[o].content # Content(w)
      BY <1>0, <2>1 DEF ComparedAt
    <3> HIDE DEF n, x, o
    <3>7. QED
      BY <1>1, <2>1, <2>3, <3>1, <3>4, <3>5, <3>6, WritePayload
  <2>4. QED
    BY <1>5, <2>2, <2>3 DEF InsertVersion
<1>6. QED
  BY <1>2, <1>3, <1>4, <1>5

\* Every step keeps the invariant about payloads.
LEMMA NextPayload == IInv /\ PayloadInv /\ [Next]_vars => PayloadInv'
<1> SUFFICES ASSUME IInv, PayloadInv, [Next]_vars PROVE PayloadInv'
  OBVIOUS
<1>0. TypeOK
  BY DEF IInv
<1>1. ASSUME NEW w \in Writers, Commit(w) \/ CommitAckLost(w)
      PROVE  PayloadInv'
  <2>1. phase[w] = "commit" /\ table' = View(w) /\ ControlAt(w)
    BY <1>1 DEF Commit, CommitAckLost, IInv, ControlOK
  <2>2. OthersKeep(w) /\ pend' = [pend EXCEPT ![w] = NoPend] /\ phase'[w] \notin InTx
    <3>1. CASE RetryOrGiveUp(w) \/ Return(w)
      BY <1>0, <2>1, <3>1, RollbackOK
    <3>2. CASE Leave(w, "publish")
      BY <1>0, <2>1, <3>2, LeaveOK
    <3>3. QED
      BY <1>1, <3>1, <3>2 DEF Commit, CommitAckLost
  <2>3. QED
    BY <2>1, <2>2, CommitPayload
<1>2. CASE UNCHANGED vars \/ \E w \in Writers : DrawId(w)
  <2>1. UNCHANGED <<table, pend, phase, job, item, seen>>
    BY <1>2, DrawKeeps DEF vars
  <2>2. \A u \in Writers : View(u)' = View(u) /\ Content(u)' = Content(u)
    BY <2>1 DEF View, Content
  <2>3. \A u \in Writers : \A r \in RowId : NewRowAt(u, r)' <=> NewRowAt(u, r)
    BY <2>1, <2>2 DEF NewRowAt, Occupied, IsCurrent
  <2>4. \A u \in Writers : ComparedAt(u)' <=> ComparedAt(u)
    BY <2>1, <2>2 DEF ComparedAt
  <2>5. QED
    BY <2>1, <2>3, <2>4 DEF PayloadInv, PayloadAt
<1>3. QED
  BY <1>1, <1>2, QuietPayload, StatementPayload, RestorePayload, Zenon DEF Next, Step

\* Payloads are apart from the start.
LEMMA PayloadInvariance == Spec => []PayloadInv
<1>1. Init => PayloadInv
  BY DEF Init, NoPend, PayloadInv, PayloadAt, ComparedAt
<1>2. QED
  BY <1>1, NextPayload, Invariance, PTL DEF Spec

-----------------------------------------------------------------------------
(* The counters. *)

\* A set of row ids is finite.
LEMMA RowsFinite ==
    ASSUME NEW S \in SUBSET RowId
    PROVE  IsFiniteSet(S) /\ Cardinality(S) \in Nat
<1>1. IsFiniteSet(RowId)
  BY FS_Interval, ConstantsAssumption DEF RowId
<1>2. QED
  BY <1>1, FS_Subset, FS_CardinalityType

\* Cardinalities of disjoint sets add.
LEMMA DisjointSum ==
    ASSUME NEW S, NEW T, IsFiniteSet(S), IsFiniteSet(T), S \cap T = {}
    PROVE  /\ IsFiniteSet(S \cup T)
           /\ Cardinality(S \cup T) = Cardinality(S) + Cardinality(T)
<1>1. Cardinality(S \cap T) = 0
  BY FS_EmptySet
<1>2. Cardinality(S) \in Nat /\ Cardinality(T) \in Nat
  BY FS_CardinalityType
<1>3. /\ IsFiniteSet(S \cup T)
      /\ Cardinality(S \cup T) = Cardinality(S) + Cardinality(T) - Cardinality(S \cap T)
  BY FS_Union
<1>4. QED
  BY <1>1, <1>2, <1>3

\* One more writer brings as many tickets as it has counted.
LEMMA MoreTickets ==
    ASSUME NEW S, NEW c, NEW w, w \notin S, c[w] \in Nat, IsFiniteSet(Tickets(S, c))
    PROVE  /\ IsFiniteSet(Tickets(S \cup {w}, c))
           /\ Cardinality(Tickets(S \cup {w}, c)) = Cardinality(Tickets(S, c)) + c[w]
<1> DEFINE T == Tickets(S, c)
           I == 1 .. c[w]
           W == {w} \X I
<1>1. IsFiniteSet(I) /\ Cardinality(I) = c[w]
  BY FS_Interval, SMTT(30)
<1>2. IsFiniteSet({w}) /\ Cardinality({w}) = 1
  BY FS_Singleton
<1>3. IsFiniteSet(W) /\ Cardinality(W) = c[w]
  <2>1. IsFiniteSet(W) /\ Cardinality(W) = Cardinality({w}) * Cardinality(I)
    BY <1>1, <1>2, FS_Product
  <2>2. QED
    BY <1>1, <1>2, <2>1
<1>4. Tickets(S \cup {w}, c) = T \cup W
  BY DEF Tickets
<1>5. T \cap W = {}
  BY DEF Tickets
<1> HIDE DEF T, W, I
<1>6. IsFiniteSet(T \cup W) /\ Cardinality(T \cup W) = Cardinality(T) + c[w]
  <2>1. IsFiniteSet(T)
    BY DEF T
  <2>2. QED
    BY <1>3, <1>5, <2>1, DisjointSum
<1>7. QED
  BY <1>4, <1>6 DEF T

\* Tickets depend on the counts of their writers only.
LEMMA SameTickets ==
    ASSUME NEW S, NEW c, NEW d, \A u \in S : d[u] = c[u]
    PROVE  Tickets(S, d) = Tickets(S, c)
BY DEF Tickets

\* What a writer has counted survives the steps of others.
LEMMA OtherCount ==
    ASSUME NEW u \in Writers, CountedAt(u), CountsNoArchive(u),
           pend'[u] = pend[u], phase'[u] = phase[u], job'[u] = job[u], tally'[u] = tally[u],
           \A r \in RowId : pend[u][r] # Absent => (table'[r] = Absent <=> table[r] = Absent)
    PROVE  CountedAt(u)' /\ CountsNoArchive(u)'
<1>1. /\ (Roots(pend[u]) \cap Unused)' = Roots(pend[u]) \cap Unused
      /\ (Later(pend[u]) \cap Unused)' = Later(pend[u]) \cap Unused
  BY DEF Roots, Later, Unused
<1>2. CountedAt(u)'
  BY <1>1 DEF CountedAt
<1>3. QED
  BY <1>2 DEF CountsNoArchive

\* A writer with nothing pending has counted nothing.
LEMMA BlankCount ==
    ASSUME NEW w \in Writers, pend'[w] = NoPend, tally'[w] = NoTally, phase'[w] \notin InTx
    PROVE  CountedAt(w)' /\ CountsNoArchive(w)'
<1>1. (Roots(pend[w]) \cap Unused)' = {} /\ (Later(pend[w]) \cap Unused)' = {}
  BY DEF Roots, Later, NoPend
<1>2. tally'[w].new = 0 /\ tally'[w].chg = 0
  BY DEF NoTally
<1>3. CountedAt(w)'
  BY <1>1, <1>2, FS_EmptySet DEF CountedAt
<1>4. QED
  BY <1>3 DEF CountsNoArchive

\* A step that neither commits nor publishes.
LEMMA StillCount ==
    ASSUME IInv, CountInv, NEW w \in Writers, table' = table, OthersKeep(w),
           \A u \in Writers \ {w} : pend'[u] = pend[u] /\ tally'[u] = tally[u],
           phase[w] # "publish", phase'[w] # "publish",
           UNCHANGED <<upsertNew, upsertChanged, ackLost>>,
           CountedAt(w)', CountsNoArchive(w)'
    PROVE  CountInv'
<1>1. \A u \in Writers : CountedAt(u)' /\ CountsNoArchive(u)'
  <2>1. ASSUME NEW u \in Writers, u # w PROVE CountedAt(u)' /\ CountsNoArchive(u)'
    BY <2>1, OtherCount DEF OthersKeep, CountInv
  <2>2. QED
    BY <2>1
<1>2. Unpublished' = Unpublished /\ w \notin Unpublished
  BY DEF Unpublished, OthersKeep
<1>3. NewTickets' = NewTickets /\ ChangedTickets' = ChangedTickets
  <2>1. \A u \in Unpublished : u \in Writers /\ tally'[u] = tally[u]
    BY <1>2 DEF Unpublished
  <2>2. QED
    BY <1>2, <2>1, ZenonT(30) DEF NewTickets, ChangedTickets, Tickets
<1>4. Roots(table)' = Roots(table) /\ Later(table)' = Later(table)
  BY DEF Roots, Later
<1>5. QED
  BY <1>1, <1>3, <1>4 DEF CountInv

\* An update of a row in view adds nothing to count.
LEMMA UpdateCount ==
    ASSUME TypeOK, NEW w \in Writers, CountedAt(w), phase[w] # "publish", table' = table,
           NEW n \in RowId, NEW row \in Row, pend' = [pend EXCEPT ![w][n] = row],
           View(w)[n] # Absent, row.prev = View(w)[n].prev, tally'[w] = tally[w]
    PROVE  CountedAt(w)'
<1>1. /\ pend'[w][n] = row /\ row # Absent
      /\ \A r \in RowId \ {n} : pend'[w][r] = pend[w][r]
  BY RowPresent DEF TypeOK
<1>2. table[n] = Absent => pend[w][n] # Absent /\ pend[w][n].prev = row.prev
  BY DEF View
<1>3. /\ (Roots(pend[w]) \cap Unused)' = Roots(pend[w]) \cap Unused
      /\ (Later(pend[w]) \cap Unused)' = Later(pend[w]) \cap Unused
  BY <1>1, <1>2 DEF Roots, Later, Unused
<1>4. QED
  BY <1>3 DEF CountedAt

\* A new row is one more root or one more version to count.
LEMMA InsertCount ==
    ASSUME TypeOK, NEW w \in Writers, CountedAt(w), phase[w] # "publish", table' = table,
           NEW n \in RowId, NEW row \in Row, pend' = [pend EXCEPT ![w][n] = row],
           View(w)[n] = Absent,
           IF row.prev = NoRow THEN tally' = [tally EXCEPT ![w].new = @ + 1]
           ELSE \/ tally' = [tally EXCEPT ![w].chg = @ + 1]
                \/ tally' = tally
    PROVE  CountedAt(w)'
<1> DEFINE A == Roots(pend[w]) \cap Unused
           B == Later(pend[w]) \cap Unused
<1>1. /\ pend'[w][n] = row /\ row # Absent
      /\ \A r \in RowId \ {n} : pend'[w][r] = pend[w][r]
  BY RowPresent DEF TypeOK
<1>2. pend[w][n] = Absent /\ table[n] = Absent
  BY DEF View
<1>3. n \notin A /\ n \notin B
  BY <1>2 DEF Roots, Later
<1>4. /\ row.prev = NoRow => A' = A \cup {n} /\ B' = B
      /\ row.prev # NoRow => A' = A /\ B' = B \cup {n}
  BY <1>1, <1>2 DEF Roots, Later, Unused
<1>5. /\ IsFiniteSet(A) /\ Cardinality(A) \in Nat
      /\ IsFiniteSet(B) /\ Cardinality(B) \in Nat
  BY RowsFinite DEF Unused
<1>6. tally[w].new = Cardinality(A) /\ tally[w].chg <= Cardinality(B)
  BY DEF CountedAt
<1>7. tally[w] \in [new : Nat, chg : Nat]
  BY DEF TypeOK
<1> HIDE DEF A, B
<1>8. /\ Cardinality(A \cup {n}) = Cardinality(A) + 1
      /\ Cardinality(B \cup {n}) = Cardinality(B) + 1
  BY <1>3, <1>5, FS_AddElement
<1>9. tally'[w].new = Cardinality(A') /\ tally'[w].chg <= Cardinality(B')
  <2>1. CASE row.prev = NoRow
    <3>1. tally'[w].new = tally[w].new + 1 /\ tally'[w].chg = tally[w].chg
      BY <1>7, <2>1 DEF TypeOK
    <3>2. QED
      BY <1>4, <1>5, <1>6, <1>7, <1>8, <2>1, <3>1
  <2>2. CASE row.prev # NoRow
    <3>1. /\ tally'[w].new = tally[w].new
          /\ tally'[w].chg \in {tally[w].chg, tally[w].chg + 1}
      BY <1>7, <2>2 DEF TypeOK
    <3>2. tally[w].chg \in Nat /\ tally'[w].chg <= Cardinality(B) + 1
      BY <1>5, <1>6, <1>7, <3>1
    <3>3. A' = A /\ Cardinality(B') = Cardinality(B) + 1
      BY <1>4, <1>8, <2>2
    <3>4. tally'[w].new = Cardinality(A')
      BY <1>6, <3>1, <3>3
    <3>5. QED
      BY <3>2, <3>3, <3>4
  <2>3. QED
    BY <2>1, <2>2
<1>10. QED
  BY <1>9 DEF CountedAt, A, B

\* A rollback forgets what was counted.
LEMMA RollbackCount ==
    ASSUME IInv, CountInv, NEW w \in Writers, phase[w] \notin {"idle", "publish"},
           RetryOrGiveUp(w) \/ Return(w), table' = table,
           UNCHANGED <<upsertNew, upsertChanged, ackLost>>
    PROVE  CountInv'
<1>0. TypeOK /\ ControlAt(w)
  BY DEF IInv, ControlOK
<1>1. OthersKeep(w) /\ pend' = [pend EXCEPT ![w] = NoPend] /\ phase'[w] \notin InTx
  BY <1>0, RollbackOK
<1>2. tally' = [tally EXCEPT ![w] = NoTally] /\ phase'[w] # "publish"
  BY <1>0 DEF RetryOrGiveUp, Return, Leave, TypeOK
<1>3. pend'[w] = NoPend /\ tally'[w] = NoTally
      /\ \A u \in Writers \ {w} : pend'[u] = pend[u] /\ tally'[u] = tally[u]
  BY <1>0, <1>1, <1>2 DEF TypeOK
<1>4. QED
  BY <1>1, <1>2, <1>3, BlankCount, StillCount

\* Steps that read, and those that roll back.
LEMMA QuietCount ==
    ASSUME IInv, CountInv, NEW w \in Writers,
           \/ \E kind \in Kinds, b \in Batches : Call(w, kind, b)
           \/ BeginTx(w) \/ UpsertLookup(w) \/ ArchiveLookup(w)
           \/ ConnectionLost(w) \/ StatementFails(w) \/ DeadlockVictim(w)
    PROVE  CountInv'
<1>0. TypeOK /\ ControlAt(w) /\ CountedAt(w) /\ CountsNoArchive(w)
  BY DEF IInv, ControlOK, CountInv
<1>1. ASSUME table' = table, pend' = pend, tally' = tally, OthersKeep(w),
             phase[w] # "publish", phase'[w] # "publish", CountsNoArchive(w)',
             UNCHANGED <<counterVars, histVars>>
      PROVE  CountInv'
  <2>1. CountedAt(w)'
    BY <1>0, <1>1 DEF CountedAt, Roots, Later, Unused
  <2>2. QED
    BY <1>1, <2>1, StillCount DEF counterVars, histVars
<1>2. ASSUME NEW kind \in Kinds, NEW b \in Batches, Call(w, kind, b)
      PROVE  CountInv'
  <2>1. OthersKeep(w) /\ phase[w] = "idle" /\ phase'[w] = "begin"
    BY <1>0, <1>2 DEF Call, OthersKeep, TypeOK
  <2>2. CountsNoArchive(w)'
    BY <2>1 DEF CountsNoArchive, InTx
  <2>3. QED
    BY <1>1, <1>2, <2>1, <2>2 DEF Call, dbVars
<1>3. CASE BeginTx(w)
  <2>1. OthersKeep(w) /\ phase[w] = "begin" /\ phase'[w] = FirstPhase(job[w].kind)
    BY <1>0, <1>3 DEF BeginTx, OthersKeep, TypeOK
  <2>2. phase'[w] # "publish" /\ (job[w].kind = "archive" => phase'[w] # "insert")
    BY <2>1 DEF FirstPhase
  <2>3. tally[w].new = 0
    <3>1. pend[w] = NoPend
      BY <1>0, <2>1 DEF ControlAt, InTx
    <3>2. Roots(pend[w]) \cap Unused = {}
      BY <3>1 DEF Roots, NoPend
    <3>3. QED
      BY <1>0, <2>1, <3>2, FS_EmptySet DEF CountedAt
  <2>4. CountsNoArchive(w)'
    BY <1>3, <2>2, <2>3 DEF CountsNoArchive, BeginTx
  <2>5. QED
    BY <1>1, <1>3, <2>1, <2>2, <2>4 DEF BeginTx, dbVars
<1>4. CASE UpsertLookup(w)
  <2>1. OthersKeep(w) /\ phase[w] = "lookup" /\ job' = job /\ job[w].kind = "upsert"
    BY <1>0, <1>4 DEF UpsertLookup, OthersKeep, TypeOK
  <2>2. phase'[w] \in {"insert", "verify", "supersede"}
    BY <1>0, <1>4 DEF UpsertLookup, TypeOK
  <2>3. CountsNoArchive(w)'
    BY <2>1 DEF CountsNoArchive
  <2>4. QED
    BY <1>1, <1>4, <2>1, <2>2, <2>3 DEF UpsertLookup, dbVars
<1>5. CASE ArchiveLookup(w)
  <2>1. phase[w] = "lookup" /\ table' = table /\ UNCHANGED <<counterVars, histVars>>
    BY <1>5 DEF ArchiveLookup
  <2>2. CASE Return(w)
    BY <2>1, <2>2, RollbackCount DEF counterVars, histVars
  <2>3. CASE /\ \E r \in RowId : seen' = [seen EXCEPT ![w] = [id |-> r, row |-> View(w)[r]]]
             /\ phase' = [phase EXCEPT ![w] = "supersede"]
             /\ UNCHANGED <<pend, job, item, attempt, fresh, tally>>
    <3>1. OthersKeep(w) /\ phase'[w] = "supersede"
      BY <1>0, <2>3 DEF OthersKeep, TypeOK
    <3>2. CountsNoArchive(w)'
      BY <1>0, <2>1, <2>3, <3>1 DEF CountsNoArchive, InTx
    <3>3. QED
      BY <1>1, <2>1, <2>3, <3>1, <3>2
  <2>4. QED
    BY <1>5, <2>2, <2>3 DEF ArchiveLookup
<1>6. CASE ConnectionLost(w) \/ StatementFails(w)
  BY <1>6, RollbackCount DEF ConnectionLost, StatementFails, InTx, counterVars, histVars
<1>7. CASE DeadlockVictim(w)
  <2>1. \E v \in Writers : WaitsFor(w, v)
    BY <1>7 DEF DeadlockVictim
  <2>2. phase[w] \notin {"idle", "publish"}
    BY <2>1 DEF WaitsFor
  <2>3. QED
    BY <1>7, <2>2, RollbackCount DEF DeadlockVictim, counterVars, histVars
<1>8. QED
  BY <1>2, <1>3, <1>4, <1>5, <1>6, <1>7

\* The statements that write.
LEMMA StatementCount ==
    ASSUME IInv, CountInv, NEW w \in Writers,
           InsertRoot(w) \/ Verify(w) \/ Supersede(w) \/ InsertVersion(w)
    PROVE  CountInv'
<1>0. /\ TypeOK /\ ControlAt(w) /\ SeenAt(w) /\ FreshAt(w)
      /\ CountedAt(w) /\ CountsNoArchive(w)
  BY DEF IInv, ControlOK, SeenOK, FreshOK, CountInv
<1>1. ASSUME Advance(w), phase[w] \in InTx
      PROVE  /\ OthersKeep(w) /\ job' = job
             /\ phase[w] # "publish" /\ phase'[w] # "publish"
             /\ job[w].kind = "archive" => phase'[w] # "insert"
  <2>1. OthersKeep(w) /\ job' = job /\ phase'[w] \in {"lookup", "insert", "commit"}
    BY <1>0, <1>1, AdvanceOK
  <2>2. phase'[w] \in {FirstPhase(job[w].kind), "commit"}
    BY <1>0, <1>1 DEF Advance, TypeOK
  <2>3. QED
    BY <1>1, <2>1, <2>2 DEF FirstPhase, InTx
<1>2. ASSUME NEW n, NEW row, tally' = tally, pend' = [pend EXCEPT ![w][n] = row]
      PROVE  /\ \A u \in Writers \ {w} : pend'[u] = pend[u] /\ tally'[u] = tally[u]
             /\ tally'[w] = tally[w]
  BY <1>0, <1>2 DEF TypeOK
<1>3. CASE InsertRoot(w)
  <2>1. /\ table' = table /\ Advance(w) /\ phase[w] \in InTx /\ phase[w] = "insert"
        /\ UNCHANGED <<upsertNew, upsertChanged, ackLost>>
    BY <1>3 DEF InsertRoot, InTx, counterVars, histVars
  <2>2. job[w].kind # "archive"
    BY <1>0, <2>1 DEF CountsNoArchive
  <2>3. CountsNoArchive(w)'
    BY <1>1, <2>1, <2>2 DEF CountsNoArchive
  <2>4. CASE UNCHANGED <<pend, tally>>
    <3>1. CountedAt(w)'
      BY <1>0, <2>1, <2>4 DEF CountedAt, Roots, Later, Unused, InTx
    <3>2. QED
      BY <1>1, <2>1, <2>3, <2>4, <3>1, StillCount
  <2>5. ASSUME NEW n \in RowId, View(w)[n] = Absent, pend' = [pend EXCEPT ![w][n] = RootRow(w)],
               tally' = [tally EXCEPT ![w].new = @ + 1]
        PROVE  CountInv'
    <3>1. Key(w) \in Keys /\ Content(w) \in Contents
      BY <1>0, <2>1, ItemType DEF ControlAt, InTx
    <3>2. RootRow(w) \in Row /\ RootRow(w).prev = NoRow
      BY <3>1, ConstantsAssumption DEF RootRow, Row, NoRow, RowId
    <3>3. CountedAt(w)'
      BY <1>0, <1>1, <2>1, <2>5, <3>2, InsertCount
    <3>4. \A u \in Writers \ {w} : pend'[u] = pend[u] /\ tally'[u] = tally[u]
      BY <1>0, <2>5 DEF TypeOK
    <3>5. QED
      BY <1>1, <2>1, <2>3, <3>3, <3>4, StillCount
  <2>6. QED
    BY <1>3, <2>4, <2>5, RootInserted
<1>4. CASE Verify(w)
  <2> DEFINE o == seen[w].id
             x == Verified(View(w)[o], ScanOf[w])
  <2>1. /\ table' = table /\ Advance(w) /\ phase[w] \in InTx /\ tally' = tally
        /\ pend' = [pend EXCEPT ![w][o] = x]
        /\ UNCHANGED <<upsertNew, upsertChanged, ackLost>>
    BY <1>4 DEF Verify, InTx, counterVars, histVars
  <2>2. o \in RowId /\ View(w)[o] \in Row /\ View(w)[o] # Absent
    BY <1>0, <1>4, ViewTypes DEF SeenAt, Verify, Of
  <2>3. x \in Row /\ x.prev = View(w)[o].prev
    BY <2>2, ConstantsAssumption DEF Verified, Row
  <2>4. CountsNoArchive(w)'
    BY <1>0, <1>1, <2>1 DEF CountsNoArchive
  <2> HIDE DEF o, x
  <2>5. CountedAt(w)'
    BY <1>0, <1>1, <1>2, <2>1, <2>2, <2>3, UpdateCount
  <2>6. QED
    BY <1>1, <1>2, <2>1, <2>4, <2>5, StillCount
<1>5. CASE Supersede(w)
  <2> DEFINE o == seen[w].id
  <2>1. o \in RowId /\ View(w)[o] \in Row /\ View(w)[o] # Absent
    BY <1>0, <1>5, ViewTypes DEF SeenAt, Supersede, Of
  <2> DEFINE n == fresh[w]
  <2>2. n \in RowId /\ pend' = [pend EXCEPT ![w][o] = [View(w)[o] EXCEPT !.sup = n]]
    BY <1>0, <1>5 DEF Supersede, FreshAt, OwnId
  <2> DEFINE x == [View(w)[o] EXCEPT !.sup = n]
  <2>3. x \in Row /\ x.prev = View(w)[o].prev
    BY <2>1, <2>2, ConstantsAssumption DEF Row, RowId
  <2>4. /\ table' = table /\ OthersKeep(w) /\ job' = job /\ tally' = tally
        /\ phase[w] = "supersede" /\ phase'[w] = "split"
        /\ UNCHANGED <<upsertNew, upsertChanged, ackLost>>
    BY <1>0, <1>5 DEF Supersede, OthersKeep, TypeOK, counterVars, histVars
  <2>5. CountsNoArchive(w)'
    BY <1>0, <2>4 DEF CountsNoArchive, InTx
  <2> HIDE DEF x
  <2>6. pend' = [pend EXCEPT ![w][o] = x]
    BY <2>2 DEF x
  <2> HIDE DEF o
  <2>7. CountedAt(w)'
    BY <1>0, <1>2, <2>1, <2>3, <2>4, <2>6, UpdateCount
  <2>8. QED
    BY <1>2, <2>4, <2>5, <2>6, <2>7, StillCount
<1>6. CASE InsertVersion(w)
  <2> DEFINE n == fresh[w]
             x == VersionRow(w)
             o == seen[w].id
  <2>1. /\ table' = table /\ phase[w] \in InTx /\ phase[w] = "split"
        /\ UNCHANGED <<upsertNew, upsertChanged, ackLost>>
    BY <1>6 DEF InsertVersion, InTx, counterVars, histVars
  <2>2. CASE Return(w)
    BY <2>1, <2>2, RollbackCount
  <2>3. CASE /\ pend' = [pend EXCEPT ![w][n] = x] /\ Advance(w)
             /\ tally' = IF job[w].kind = "archive" THEN tally
                         ELSE [tally EXCEPT ![w].chg = @ + 1]
    <3>1. n \in RowId /\ o \in RowId /\ View(w)[n] = Absent
      BY <1>0, <2>1 DEF SeenAt, FreshAt, OwnId, View, RowId, Splitting
    <3>2. seen[w].row \in Row
      BY <1>0, <2>1 DEF SeenAt
    <3>3. Key(w) \in Keys /\ Content(w) \in Contents
      BY <1>0, <2>1, ItemType DEF ControlAt
    <3>4. o \in 0..MaxRows /\ NoRow \in 0..MaxRows /\ ScanOf[w] \in Scans /\ o # NoRow
      BY <3>1, ConstantsAssumption DEF RowId, NoRow
    <3>5. x \in Row /\ x.prev # NoRow
      <4>1. CASE job[w].kind = "archive"
        <5>1. x = [seen[w].row EXCEPT !.prev = o, !.sup = NoRow, !.del = TRUE, !.ref = FALSE]
          BY <4>1 DEF VersionRow
        <5> HIDE DEF x, o
        <5>2. QED
          BY <3>2, <3>4, <5>1 DEF Row
      <4>2. CASE job[w].kind # "archive"
        <5>1. x = [key |-> Key(w), content |-> Content(w), prev |-> o,
                   sup |-> NoRow, disc |-> seen[w].row.disc, ver |-> ScanOf[w],
                   del |-> FALSE, ref |-> FALSE]
          BY <4>2 DEF VersionRow
        <5>2. seen[w].row.disc \in Scans
          BY <3>2 DEF Row
        <5> HIDE DEF x, o
        <5>3. QED
          BY <3>3, <3>4, <5>1, <5>2 DEF Row
      <4>3. QED
        BY <4>1, <4>2
    <3>6. CountsNoArchive(w)'
      BY <1>0, <1>1, <2>1, <2>3 DEF CountsNoArchive
    <3>7. \A u \in Writers \ {w} : pend'[u] = pend[u] /\ tally'[u] = tally[u]
      BY <1>0, <2>3 DEF TypeOK
    <3> HIDE DEF n, x, o
    <3>8. CountedAt(w)'
      BY <1>0, <1>1, <2>1, <2>3, <3>1, <3>5, InsertCount
    <3>9. QED
      BY <1>1, <2>1, <2>3, <3>6, <3>7, <3>8, StillCount
  <2>4. QED
    BY <1>6, <2>2, <2>3 DEF InsertVersion
<1>7. QED
  BY <1>3, <1>4, <1>5, <1>6

\* A commit adds the rows its writer has counted to the table, and takes no row another
\* writer has counted.
LEMMA CommitCount ==
    ASSUME IInv, CountInv, NEW w \in Writers, Commit(w) \/ CommitAckLost(w)
    PROVE  CountInv'
<1> DEFINE A == Roots(pend[w]) \cap Unused
           B == Later(pend[w]) \cap Unused
           news == [u \in Writers |-> tally[u].new]
           chgs == [u \in Writers |-> tally[u].chg]
<1>0. /\ TypeOK /\ ControlAt(w) /\ LocksExclusive /\ UpdatesKeep
      /\ CountedAt(w) /\ CountsNoArchive(w)
  BY DEF IInv, ControlOK, CountInv
<1>1. /\ phase[w] = "commit" /\ table' = View(w)
      /\ UNCHANGED <<upsertNew, upsertChanged>>
  BY DEF Commit, CommitAckLost, counterVars
<1>2. OthersKeep(w) /\ pend' = [pend EXCEPT ![w] = NoPend] /\ phase'[w] \notin InTx
  <2>1. CASE RetryOrGiveUp(w) \/ Return(w)
    BY <1>0, <1>1, <2>1, RollbackOK
  <2>2. CASE Leave(w, "publish")
    BY <1>0, <1>1, <2>2, LeaveOK
  <2>3. QED
    BY <2>1, <2>2 DEF Commit, CommitAckLost
<1>3. \A u \in Writers \ {w} : pend'[u] = pend[u] /\ tally'[u] = tally[u]
  BY <1>0, <1>2 DEF Commit, CommitAckLost, RetryOrGiveUp, Return, TypeOK
<1>4. ASSUME NEW u \in Writers, u # w PROVE CountedAt(u)' /\ CountsNoArchive(u)'
  <2>1. \A r \in RowId : pend[u][r] # Absent => table'[r] = table[r]
    BY <1>0, <1>1, <1>4 DEF View, LocksExclusive
  <2>2. QED
    BY <1>2, <1>3, <1>4, <2>1, OtherCount DEF OthersKeep, CountInv
<1>5. /\ Roots(table)' = Roots(table) \cup A /\ Roots(table) \cap A = {}
      /\ Later(table)' = Later(table) \cup B /\ Later(table) \cap B = {}
  BY <1>0, <1>1 DEF Roots, Later, Unused, View, UpdatesKeep
<1>6. /\ IsFiniteSet(A) /\ Cardinality(A) \in Nat
      /\ IsFiniteSet(B) /\ Cardinality(B) \in Nat
      /\ IsFiniteSet(Roots(table)) /\ Cardinality(Roots(table)) \in Nat
      /\ IsFiniteSet(Later(table)) /\ Cardinality(Later(table)) \in Nat
  BY RowsFinite DEF Roots, Later, Unused
<1>7. tally[w].new = Cardinality(A) /\ tally[w].chg <= Cardinality(B)
  BY <1>0, <1>1 DEF CountedAt
<1>8. tally[w].new \in Nat /\ tally[w].chg \in Nat /\ upsertNew \in Nat /\ upsertChanged \in Nat
  BY <1>0 DEF TypeOK
<1> HIDE DEF A, B
<1>9. /\ Cardinality(Roots(table)') = Cardinality(Roots(table)) + Cardinality(A)
      /\ Cardinality(Later(table)') = Cardinality(Later(table)) + Cardinality(B)
  BY <1>5, <1>6, DisjointSum
<1>10. /\ IsFiniteSet(NewTickets) /\ Cardinality(NewTickets) \in Nat
       /\ IsFiniteSet(ChangedTickets) /\ Cardinality(ChangedTickets) \in Nat
  BY FS_CardinalityType DEF CountInv
<1>11. w \notin Unpublished
  BY <1>1 DEF Unpublished
<1>12. CASE Leave(w, "publish") /\ tally' = tally /\ ackLost' = ackLost
  <2>1. Unpublished' = Unpublished \cup {w}
    BY <1>0, <1>12 DEF Leave, Unpublished, TypeOK
  <2>2. /\ NewTickets = Tickets(Unpublished, news)
        /\ NewTickets' = Tickets(Unpublished \cup {w}, news)
        /\ ChangedTickets = Tickets(Unpublished, chgs)
        /\ ChangedTickets' = Tickets(Unpublished \cup {w}, chgs)
    BY <1>12, <2>1 DEF NewTickets, ChangedTickets, Tickets
  <2>3. news[w] = tally[w].new /\ chgs[w] = tally[w].chg
    OBVIOUS
  <2> HIDE DEF news, chgs
  <2>4. /\ IsFiniteSet(NewTickets')
        /\ Cardinality(NewTickets') = Cardinality(NewTickets) + tally[w].new
    <3>1. news[w] \in Nat /\ IsFiniteSet(Tickets(Unpublished, news))
      BY <1>8, <1>10, <2>2, <2>3
    <3>2. /\ IsFiniteSet(Tickets(Unpublished \cup {w}, news))
          /\ Cardinality(Tickets(Unpublished \cup {w}, news))
                = Cardinality(Tickets(Unpublished, news)) + news[w]
      BY <1>11, <3>1, MoreTickets
    <3>3. QED
      BY <2>2, <2>3, <3>2
  <2>5. /\ IsFiniteSet(ChangedTickets')
        /\ Cardinality(ChangedTickets') = Cardinality(ChangedTickets) + tally[w].chg
    <3>1. chgs[w] \in Nat /\ IsFiniteSet(Tickets(Unpublished, chgs))
      BY <1>8, <1>10, <2>2, <2>3
    <3>2. /\ IsFiniteSet(Tickets(Unpublished \cup {w}, chgs))
          /\ Cardinality(Tickets(Unpublished \cup {w}, chgs))
                = Cardinality(Tickets(Unpublished, chgs)) + chgs[w]
      BY <1>11, <3>1, MoreTickets
    <3>3. QED
      BY <2>2, <2>3, <3>2
  <2>6. CountedAt(w)' /\ CountsNoArchive(w)'
    <3>1. phase'[w] = "publish"
      BY <1>0, <1>12 DEF Leave, TypeOK
    <3>2. QED
      BY <1>2, <3>1 DEF CountedAt, CountsNoArchive
  <2>7. /\ upsertNew' + Cardinality(NewTickets') <= Cardinality(Roots(table)')
        /\ ~ackLost' => upsertNew' + Cardinality(NewTickets') = Cardinality(Roots(table)')
    BY <1>1, <1>6, <1>7, <1>8, <1>9, <1>10, <1>12, <2>4 DEF CountInv
  <2>8. upsertChanged' + Cardinality(ChangedTickets') <= Cardinality(Later(table)')
    BY <1>1, <1>6, <1>7, <1>8, <1>9, <1>10, <2>5 DEF CountInv
  <2>9. QED
    BY <1>4, <2>4, <2>5, <2>6, <2>7, <2>8 DEF CountInv
<1>13. ASSUME RetryOrGiveUp(w) \/ Return(w),
              ackLost' \/ (ackLost' = ackLost /\ job[w].kind = "archive")
       PROVE  CountInv'
  <2>1. tally' = [tally EXCEPT ![w] = NoTally] /\ phase'[w] # "publish"
    BY <1>0, <1>13 DEF RetryOrGiveUp, Return, Leave, TypeOK
  <2>2. pend'[w] = NoPend /\ tally'[w] = NoTally
    BY <1>0, <1>2, <2>1 DEF TypeOK
  <2>3. CountedAt(w)' /\ CountsNoArchive(w)'
    BY <1>2, <2>2, BlankCount
  <2>4. Unpublished' = Unpublished
    BY <1>2, <1>11, <2>1 DEF Unpublished, OthersKeep
  <2>5. NewTickets' = NewTickets /\ ChangedTickets' = ChangedTickets
    <3>1. \A u \in Unpublished : u \in Writers /\ tally'[u] = tally[u]
      BY <1>3, <1>11 DEF Unpublished
    <3>2. QED
      BY <2>4, <3>1 DEF NewTickets, ChangedTickets, Tickets
  <2>6. /\ upsertNew' + Cardinality(NewTickets') <= Cardinality(Roots(table)')
        /\ upsertChanged' + Cardinality(ChangedTickets') <= Cardinality(Later(table)')
    BY <1>1, <1>6, <1>8, <1>9, <1>10, <2>5 DEF CountInv
  <2>7. ASSUME ~ackLost' PROVE upsertNew' + Cardinality(NewTickets') = Cardinality(Roots(table)')
    <3>1. ~ackLost /\ job[w].kind = "archive"
      BY <1>13, <2>7
    <3>2. Cardinality(A) = 0
      BY <1>0, <1>1, <1>7, <3>1 DEF CountsNoArchive, InTx
    <3>3. QED
      BY <1>1, <1>6, <1>8, <1>9, <1>10, <2>5, <3>1, <3>2 DEF CountInv
  <2>8. QED
    BY <1>4, <1>10, <2>3, <2>5, <2>6, <2>7 DEF CountInv
<1>14. CASE Commit(w)
  BY <1>12, <1>13, <1>14 DEF Commit
<1>15. CASE CommitAckLost(w)
  BY <1>13, <1>15 DEF CommitAckLost
<1>16. QED
  BY <1>14, <1>15

\* Publishing turns a writer's tickets into counts.
LEMMA PublishCount ==
    ASSUME IInv, CountInv, NEW w \in Writers, Publish(w)
    PROVE  CountInv'
<1> DEFINE S == Unpublished \ {w}
           news == [u \in Writers |-> tally[u].new]
           chgs == [u \in Writers |-> tally[u].chg]
<1>0. TypeOK /\ ControlAt(w)
  BY DEF IInv, ControlOK
<1>1. /\ phase[w] = "publish" /\ table' = table /\ ackLost' = ackLost
      /\ upsertNew' = upsertNew + tally[w].new
      /\ upsertChanged' = upsertChanged + tally[w].chg
  BY DEF Publish, histVars
<1>2. /\ OthersKeep(w) /\ pend' = [pend EXCEPT ![w] = NoPend] /\ phase'[w] \notin InTx
      /\ tally' = [tally EXCEPT ![w] = NoTally] /\ phase'[w] = "idle"
  <2>1. OthersKeep(w) /\ pend' = [pend EXCEPT ![w] = NoPend] /\ phase'[w] \notin InTx
    BY <1>0, <1>1, RollbackOK DEF Publish
  <2>2. QED
    BY <1>0, <2>1 DEF Publish, Return, Leave, TypeOK
<1>3. \A u \in Writers \ {w} : pend'[u] = pend[u] /\ tally'[u] = tally[u]
  BY <1>0, <1>2 DEF TypeOK
<1>4. \A u \in Writers : CountedAt(u)' /\ CountsNoArchive(u)'
  <2>1. ASSUME NEW u \in Writers, u # w PROVE CountedAt(u)' /\ CountsNoArchive(u)'
    BY <1>1, <1>2, <1>3, <2>1, OtherCount DEF OthersKeep, CountInv
  <2>2. pend'[w] = NoPend /\ tally'[w] = NoTally
    BY <1>0, <1>2 DEF TypeOK
  <2>3. CountedAt(w)' /\ CountsNoArchive(w)'
    BY <1>2, <2>2, BlankCount
  <2>4. QED
    BY <2>1, <2>3
<1>5. Unpublished' = S /\ Unpublished = S \cup {w} /\ w \notin S
  BY <1>1, <1>2 DEF Unpublished, OthersKeep
<1>6. /\ NewTickets' = Tickets(S, news) /\ NewTickets = Tickets(S \cup {w}, news)
      /\ ChangedTickets' = Tickets(S, chgs) /\ ChangedTickets = Tickets(S \cup {w}, chgs)
  <2>1. \A u \in S : u \in Writers /\ tally'[u] = tally[u]
    BY <1>3 DEF Unpublished
  <2>2. QED
    BY <1>5, <2>1 DEF NewTickets, ChangedTickets, Tickets
<1>7. /\ news[w] = tally[w].new /\ chgs[w] = tally[w].chg
      /\ tally[w].new \in Nat /\ tally[w].chg \in Nat /\ upsertNew \in Nat /\ upsertChanged \in Nat
  BY <1>0 DEF TypeOK
<1>8. Tickets(S, news) \subseteq NewTickets /\ Tickets(S, chgs) \subseteq ChangedTickets
  BY <1>6 DEF Tickets
<1> HIDE DEF news, chgs, S
<1>9. /\ IsFiniteSet(NewTickets') /\ Cardinality(NewTickets') \in Nat
      /\ IsFiniteSet(ChangedTickets') /\ Cardinality(ChangedTickets') \in Nat
  BY <1>6, <1>8, FS_Subset, FS_CardinalityType DEF CountInv
<1>10. /\ Cardinality(NewTickets) = Cardinality(NewTickets') + tally[w].new
       /\ Cardinality(ChangedTickets) = Cardinality(ChangedTickets') + tally[w].chg
  <2>1. /\ news[w] \in Nat /\ IsFiniteSet(Tickets(S, news))
        /\ chgs[w] \in Nat /\ IsFiniteSet(Tickets(S, chgs))
    BY <1>6, <1>7, <1>9
  <2>2. /\ Cardinality(Tickets(S \cup {w}, news)) = Cardinality(Tickets(S, news)) + news[w]
        /\ Cardinality(Tickets(S \cup {w}, chgs)) = Cardinality(Tickets(S, chgs)) + chgs[w]
    BY <1>5, <2>1, MoreTickets
  <2>3. QED
    BY <1>6, <1>7, <2>2
<1>11. Roots(table)' = Roots(table) /\ Later(table)' = Later(table)
  BY <1>1 DEF Roots, Later
<1>12. /\ upsertNew' + Cardinality(NewTickets') = upsertNew + Cardinality(NewTickets)
       /\ upsertChanged' + Cardinality(ChangedTickets') = upsertChanged + Cardinality(ChangedTickets)
  BY <1>1, <1>7, <1>9, <1>10
<1>13. QED
  BY <1>1, <1>4, <1>9, <1>11, <1>12 DEF CountInv

\* Lifting a tombstone adds no row.
LEMMA RestoreCount ==
    ASSUME IInv, CountInv, NEW k \in Keys, Restore(k)
    PROVE  CountInv'
<1>0. TypeOK
  BY DEF IInv
<1>1. PICK h \in RowId : table[h] # Absent /\ table' = [table EXCEPT ![h].del = FALSE]
  BY DEF Restore, IsCurrent
<1>2. UNCHANGED <<pend, phase, job, tally, upsertNew, upsertChanged, ackLost>>
  BY DEF Restore, ctlVars, counterVars, histVars
<1>3. \A r \in RowId : /\ table'[r] = Absent <=> table[r] = Absent
                       /\ table[r] # Absent => table'[r].prev = table[r].prev
  <2>1. table[h] \in Row /\ table'[h] = [table[h] EXCEPT !.del = FALSE]
    BY <1>0, <1>1 DEF TypeOK
  <2>2. table'[h] \in Row /\ table'[h].prev = table[h].prev
    BY <2>1 DEF Row
  <2>3. \A r \in RowId \ {h} : table'[r] = table[r]
    BY <1>0, <1>1 DEF TypeOK
  <2>4. QED
    BY <1>1, <2>2, <2>3, RowPresent
<1>4. Roots(table)' = Roots(table) /\ Later(table)' = Later(table)
  BY <1>3 DEF Roots, Later
<1>5. \A u \in Writers : CountedAt(u)' /\ CountsNoArchive(u)'
  BY <1>2, <1>3, OtherCount DEF CountInv
<1>6. NewTickets' = NewTickets /\ ChangedTickets' = ChangedTickets
  BY <1>2 DEF NewTickets, ChangedTickets, Tickets, Unpublished
<1>7. QED
  BY <1>2, <1>4, <1>5, <1>6 DEF CountInv

\* Every step keeps the counts.
LEMMA NextCount == IInv /\ CountInv /\ [Next]_vars => CountInv'
<1> SUFFICES ASSUME IInv, CountInv, [Next]_vars PROVE CountInv'
  OBVIOUS
<1>1. CASE UNCHANGED vars \/ \E w \in Writers : DrawId(w)
  <2>1. UNCHANGED <<table, pend, phase, job, tally, upsertNew, upsertChanged, ackLost>>
    BY <1>1, DrawKeeps DEF vars
  <2>2. \A u \in Writers : CountedAt(u)' /\ CountsNoArchive(u)'
    BY <2>1, OtherCount DEF CountInv
  <2>3. NewTickets' = NewTickets /\ ChangedTickets' = ChangedTickets
    BY <2>1 DEF NewTickets, ChangedTickets, Tickets, Unpublished
  <2>4. Roots(table)' = Roots(table) /\ Later(table)' = Later(table)
    BY <2>1 DEF Roots, Later
  <2>5. QED
    BY <2>1, <2>2, <2>3, <2>4 DEF CountInv
<1>2. QED
  BY <1>1, QuietCount, StatementCount, CommitCount, PublishCount, RestoreCount, Zenon
  DEF Next, Step

\* The counters and the tickets account for every row.
LEMMA CountInvariance == Spec => []CountInv
<1>1. ASSUME Init PROVE CountInv
  <2>1. \A w \in Writers : CountedAt(w) /\ CountsNoArchive(w)
    <3>1. ASSUME NEW w \in Writers PROVE CountedAt(w) /\ CountsNoArchive(w)
      <4>1. Roots(pend[w]) \cap Unused = {} /\ Later(pend[w]) \cap Unused = {}
        BY <1>1 DEF Init, NoPend, Roots, Later
      <4>2. tally[w].new = 0 /\ tally[w].chg = 0 /\ phase[w] = "idle"
        BY <1>1 DEF Init, NoTally
      <4>3. QED
        BY <4>1, <4>2, FS_EmptySet DEF CountedAt, CountsNoArchive, InTx
    <3>2. QED
      BY <3>1
  <2>2. NewTickets = {} /\ ChangedTickets = {}
    BY <1>1 DEF Init, Unpublished, NewTickets, ChangedTickets, Tickets
  <2>3. Roots(table) = {} /\ Later(table) = {}
    BY <1>1 DEF Init, NoPend, Roots, Later
  <2>4. upsertNew = 0 /\ upsertChanged = 0
    BY <1>1 DEF Init
  <2>5. QED
    BY <2>1, <2>2, <2>3, <2>4, FS_EmptySet DEF CountInv
<1>2. QED
  BY <1>1, NextCount, Invariance, PTL DEF Spec

\* For any number of writers, with lost connections and lost answers: the progress
\* counters never run ahead of the table, and count every root once the calls are
\* done unless a commit's answer was lost.
THEOREM CountersTrue == Spec => []CountersMatchRows
<1>1. ASSUME TypeOK, CountInv PROVE CountersMatchRows
  <2>1. NewRoots = Cardinality(Roots(table)) /\ NewVersions = Cardinality(Later(table))
    BY DEF NewRoots, NewVersions, Roots, Later
  <2>2. /\ Cardinality(NewTickets) \in Nat /\ Cardinality(ChangedTickets) \in Nat
        /\ Cardinality(Roots(table)) \in Nat /\ Cardinality(Later(table)) \in Nat
        /\ upsertNew \in Nat /\ upsertChanged \in Nat
    BY <1>1, FS_CardinalityType, RowsFinite DEF CountInv, TypeOK, Roots, Later
  <2>3. upsertNew <= NewRoots /\ upsertChanged <= NewVersions
    BY <1>1, <2>1, <2>2 DEF CountInv
  <2>4. ASSUME ~ackLost, \A w \in Writers : phase[w] # "publish"
        PROVE  upsertNew = NewRoots
    <3>1. NewTickets = {}
      BY <2>4 DEF NewTickets, Tickets, Unpublished
    <3>2. QED
      BY <1>1, <2>1, <2>2, <2>4, <3>1, FS_EmptySet DEF CountInv
  <2>5. QED
    BY <2>3, <2>4 DEF CountersMatchRows
<1>2. QED
  BY <1>1, CountInvariance, TypeCorrect, PTL

-----------------------------------------------------------------------------
(* What the invariant gives. *)

\* For any number of writers, at READ COMMITTED too: a new version that is no tombstone
\* differs from the one before it, whatever raced with the comparison.
THEOREM VersionsDiffer == Spec => SplitMeansChange
<1> DEFINE Differ == \A r \in RowId :
                       /\ table[r] = Absent /\ table'[r] # Absent
                       /\ table'[r].prev # NoRow /\ ~table'[r].del
                       => table'[r].content # table'[table'[r].prev].content
<1>1. IInv /\ PayloadInv /\ [Next]_vars => [Differ]_table
  <2> SUFFICES ASSUME IInv, PayloadInv, [Next]_vars, table' # table PROVE Differ
    OBVIOUS
  <2>1. ASSUME NEW w \in Writers, table' = View(w) PROVE Differ
    <3> SUFFICES ASSUME NEW r \in RowId, table[r] = Absent, View(w)[r] # Absent,
                        View(w)[r].prev # NoRow, ~View(w)[r].del
                 PROVE  View(w)[r].content # View(w)[View(w)[r].prev].content
      BY <2>1
    <3>1. View(w)[r] = pend[w][r] /\ pend[w][r] # Absent
      BY DEF View
    <3>2. NewRowAt(w, r)
      BY <3>1 DEF PayloadInv, PayloadAt
    <3>3. QED
      BY <3>1, <3>2 DEF NewRowAt
  <2>2. ASSUME NEW k \in Keys, Restore(k) PROVE Differ
    <3>1. PICK h \in RowId : IsCurrent(table, h, k) /\ table' = [table EXCEPT ![h].del = FALSE]
      BY <2>2 DEF Restore
    <3>2. \A r \in RowId : table[r] = Absent => table'[r] = Absent
      BY <3>1 DEF IsCurrent, IInv, TypeOK
    <3>3. QED
      BY <3>2
  <2>3. QED
    BY <2>1, <2>2, TableSteps
<1>2. QED
  BY <1>1, Invariance, PayloadInvariance, PTL DEF Spec, SplitMeansChange

\* The key of a populated row is populated after every step.
LEMMA PopulatedStep ==
    ASSUME IInv, PayloadInv, [Next]_vars, NEW k \in Keys, Populated(k)
    PROVE  Populated(k)'
<1>0. TypeOK /\ UpdatesKeep
  BY DEF IInv
<1>1. PICK h \in RowId : IsCurrent(table, h, k) /\ ~table[h].ref
  BY DEF Populated
<1>2. ASSUME NEW w \in Writers, phase[w] = "commit", table' = View(w)
      PROVE  Populated(k)'
  <2>1. Held(w) = pend[w] /\ Sound(View(w))
    BY <1>0, <1>2, ViewTypes DEF Splitting, IInv, ViewsSound
  <2>2. Of(View(w), h, k)
    BY <1>0, <1>1 DEF Of, IsCurrent, View, UpdatesKeep
  <2>3. PICK c \in RowId : IsCurrent(View(w), c, k)
    BY <2>1, <2>2 DEF Sound, SoundChain, Occupied
  <2>4. ~View(w)[c].ref
    <3>1. CASE table[c] = Absent
      <4>1. pend[w][c] # Absent /\ View(w)[c] = pend[w][c] /\ pend[w][c].key = k
        BY <2>3, <3>1 DEF IsCurrent, View
      <4>2. NewRowAt(w, c) /\ Occupied(table, k)
        BY <1>1, <3>1, <4>1 DEF PayloadInv, PayloadAt, Occupied
      <4>3. QED
        BY <4>1, <4>2 DEF NewRowAt
    <3>2. CASE table[c] # Absent
      <4>1. IsCurrent(table, c, k)
        BY <1>0, <2>1, <2>3, <3>2 DEF IsCurrent, View, UpdatesKeep
      <4>2. c = h
        BY <1>1, <4>1, SoundTable DEF OneCurrentRow
      <4>3. QED
        BY <1>1, <3>2, <4>2 DEF View, PayloadInv, PayloadAt
    <3>3. QED
      BY <3>1, <3>2
  <2>5. QED
    BY <1>2, <2>3, <2>4 DEF Populated, IsCurrent
<1>3. ASSUME NEW l \in Keys, Restore(l)
      PROVE  Populated(k)'
  <2>1. PICK g \in RowId : IsCurrent(table, g, l) /\ table' = [table EXCEPT ![g].del = FALSE]
    BY <1>3 DEF Restore
  <2>2. table[g] \in Row /\ table[h] \in Row
    BY <1>0, <1>1, <2>1 DEF TypeOK, IsCurrent
  <2>3. table'[h] = table[h] \/ table'[h] = [table[h] EXCEPT !.del = FALSE]
    BY <1>0, <2>1 DEF TypeOK
  <2>4. table'[h] # Absent /\ table'[h].key = table[h].key /\ table'[h].sup = table[h].sup
        /\ table'[h].ref = table[h].ref
    <3>1. [table[h] EXCEPT !.del = FALSE] \in Row
      BY <2>2 DEF Row
    <3>2. QED
      BY <2>2, <2>3, <3>1, RowPresent DEF Row
  <2>5. QED
    BY <1>1, <2>4 DEF Populated, IsCurrent
<1>4. CASE table' = table
  BY <1>1, <1>4 DEF Populated, IsCurrent
<1>5. QED
  BY <1>2, <1>3, <1>4, TableSteps

\* For any number of writers, at READ COMMITTED too: once the current row of a resource
\* is no placeholder it never is one again.
THEOREM StaysPopulated == Spec => PopulatedStays
<1>1. IInv /\ PayloadInv /\ [Next]_vars
        => [\A k \in Keys : Populated(k) => Populated(k)']_table
  BY PopulatedStep
<1>2. QED
  BY <1>1, Invariance, PayloadInvariance, PTL DEF Spec, PopulatedStays

-----------------------------------------------------------------------------
(* One connection. *)

\* A step of w keeps what the invariant says of the others: they are outside their
\* transactions, or nothing of theirs changes and w is outside its own.
LEMMA OneAtATime ==
    ASSUME SerialInv, NEW w \in Writers, OthersKeep(w), DecidedAt(w)', WrittenLands(w)',
           \/ \A u \in Writers \ {w} : phase[u] \notin InTx
           \/ /\ table' = table /\ phase'[w] \notin InTx
              /\ \A u \in Writers \ {w} : pend'[u] = pend[u]
    PROVE  SerialInv'
<1>1. Alone'
  BY DEF SerialInv, Alone, OthersKeep
<1>2. ASSUME NEW u \in Writers, u # w PROVE DecidedAt(u)' /\ WrittenLands(u)'
  <2>1. CASE phase[u] \notin InTx
    <3>1. phase'[u] \notin InTx
      BY <1>2, <2>1 DEF OthersKeep
    <3>2. QED
      BY <3>1 DEF DecidedAt, WrittenLands, InTx
  <2>2. CASE table' = table /\ pend'[u] = pend[u]
    <3>1. /\ View(u)' = View(u) /\ phase'[u] = phase[u] /\ job'[u] = job[u]
          /\ item'[u] = item[u] /\ seen'[u] = seen[u]
      BY <1>2, <2>2 DEF View, OthersKeep
    <3>2. Key(u)' = Key(u) /\ Content(u)' = Content(u) /\ Written(u)' = Written(u)
      BY <3>1 DEF Key, Content, Written, Splitting
    <3>3. DecidedAt(u) /\ WrittenLands(u)
      BY DEF SerialInv
    <3>4. DecidedAt(u)'
      BY <3>1, <3>2, <3>3 DEF DecidedAt
    <3>5. WrittenLands(u)'
      BY <3>1, <3>2, <3>3 DEF WrittenLands
    <3>6. QED
      BY <3>4, <3>5
  <2>3. QED
    BY <1>2, <2>1, <2>2
<1>3. QED
  BY <1>1, <1>2 DEF SerialInv

\* After a row is done the items up to it are written.
LEMMA AdvanceWritten ==
    ASSUME NEW w \in Writers, TypeOK, ControlAt(w), phase[w] \in InTx, phase[w] # "commit",
           Advance(w)
    PROVE  /\ Written(w)' = 1 .. item[w]
           /\ \A j \in 1 .. item[w] :
                 j # item[w] /\ job[w].batch[j].key # Key(w) => j \in Written(w)
           /\ Written(w) \subseteq 1 .. item[w]
<1>1. job[w] \in Jobs /\ item[w] \in 1 .. Len(job[w].batch) /\ Len(job[w].batch) \in Nat
  BY FirstItem DEF ControlAt, InTx
<1>2. ~Splitting(w)' /\ job' = job /\ phase'[w] \in {"lookup", "insert", "commit"}
  BY AdvanceOK
<1>3. IF item[w] < Len(job[w].batch) THEN item'[w] = item[w] + 1 /\ phase'[w] # "commit"
                                     ELSE item'[w] = item[w] /\ phase'[w] = "commit"
  BY DEF Advance, TypeOK, FirstPhase
<1>4. Written(w)' = 1 .. item[w]
  <2>1. Written(w)' = {i \in 1 .. Len(job[w].batch) : phase'[w] # "commit" => i < item'[w]}
    BY <1>2 DEF Written
  <2>2. QED
    BY <1>1, <1>3, <2>1
<1>5. QED
  BY <1>1, <1>4 DEF Written

\* A row that holds the current item, written over a row of the same key or as a new
\* one, makes the items up to it land in the view.
LEMMA ItemLands ==
    ASSUME NEW w \in Writers, TypeOK, ControlAt(w), phase[w] \in InTx, phase[w] # "commit",
           job[w].kind = "upsert", Advance(w), WrittenLands(w), NEW n \in RowId,
           IsCurrent(View(w)', n, Key(w)),
           /\ View(w)'[n].content = Content(w) /\ View(w)'[n].ver = ScanOf[w]
           /\ ~View(w)'[n].del /\ ~View(w)'[n].ref,
           \A r \in RowId \ {n} : View(w)'[r] = View(w)[r],
           View(w)[n] # Absent => View(w)[n].key = Key(w)
    PROVE  WrittenLands(w)'
<1> DEFINE page == job[w].batch
           x == View(w)
           y == View(w)'
<1>1. job' = job /\ Written(w)' = 1 .. item[w] /\ item[w] \in 1 .. Len(page)
      /\ Written(w) \subseteq 1 .. item[w]
  BY AdvanceOK, AdvanceWritten DEF ControlAt
<1>2. ASSUME NEW i \in 1 .. item[w], page[i].key = Key(w)
      PROVE  PopulatedIn(y, page[i].key)
  BY <1>2 DEF PopulatedIn
<1>3. ASSUME NEW i \in 1 .. item[w], page[i].key = Key(w),
             \A j \in 1 .. item[w] : page[j].key = page[i].key => j <= i
      PROVE  LandedIn(y, ScanOf[w], page[i])
  <2>1. i = item[w]
    BY <1>1, <1>3 DEF Key
  <2>2. page[i].key = Key(w) /\ page[i].content = Content(w)
    BY <2>1 DEF Key, Content
  <2>3. QED
    BY <2>2 DEF LandedIn
<1>4. ASSUME NEW i \in 1 .. item[w], page[i].key # Key(w)
      PROVE  /\ PopulatedIn(y, page[i].key)
             /\ (\A j \in 1 .. item[w] : page[j].key = page[i].key => j <= i)
                   => LandedIn(y, ScanOf[w], page[i])
  <2>1. i # item[w]
    BY <1>4 DEF Key
  <2>2. i \in Written(w)
    BY <1>4, <2>1, AdvanceWritten
  <2>3. PopulatedIn(x, page[i].key)
    BY <2>2 DEF WrittenLands
  <2>4. (\A j \in 1 .. item[w] : page[j].key = page[i].key => j <= i)
          => LandedIn(x, ScanOf[w], page[i])
    BY <1>1, <2>2 DEF WrittenLands
  <2>5. \A r \in RowId : IsCurrent(x, r, page[i].key) => y[r] = x[r]
    BY <1>4 DEF IsCurrent
  <2> HIDE DEF x, y
  <2>6. PopulatedIn(x, page[i].key) => PopulatedIn(y, page[i].key)
    BY <2>5 DEF PopulatedIn, IsCurrent
  <2>7. LandedIn(x, ScanOf[w], page[i]) => LandedIn(y, ScanOf[w], page[i])
    BY <2>5 DEF LandedIn, IsCurrent
  <2>8. QED
    BY <2>3, <2>4, <2>6, <2>7
<1>5. \A i \in Written(w)' :
         /\ PopulatedIn(y, page[i].key)
         /\ (\A j \in Written(w)' : page[j].key = page[i].key => j <= i)
               => LandedIn(y, ScanOf[w], page[i])
  BY <1>1, <1>2, <1>3, <1>4
<1>6. QED
  BY <1>1, <1>5 DEF WrittenLands, PopulatedIn, LandedIn, IsCurrent

\* Outside a transaction, and for a call that is no scanner's, nothing is claimed.
LEMMA NothingClaimed ==
    ASSUME NEW w \in Writers, phase'[w] \notin InTx
    PROVE  DecidedAt(w)' /\ WrittenLands(w)'
BY DEF DecidedAt, WrittenLands, InTx

\* Steps that leave the database alone, and those that roll back.
LEMMA QuietSerial ==
    ASSUME SerialWriters, IInv, SerialInv, NEW w \in Writers,
           \/ \E kind \in Kinds, b \in Batches : Call(w, kind, b)
           \/ BeginTx(w) \/ UpsertLookup(w) \/ ArchiveLookup(w) \/ Publish(w)
           \/ ConnectionLost(w) \/ StatementFails(w) \/ DeadlockVictim(w)
    PROVE  SerialInv'
<1>0. TypeOK /\ ControlAt(w)
  BY DEF IInv, ControlOK
<1>1. ASSUME NEW kind \in Kinds, NEW b \in Batches, Call(w, kind, b)
      PROVE  SerialInv'
  <2>1. table' = table /\ pend' = pend /\ OthersKeep(w) /\ phase'[w] = "begin"
    BY <1>0, <1>1 DEF Call, dbVars, OthersKeep, TypeOK
  <2>2. phase'[w] \notin InTx
    BY <2>1 DEF InTx
  <2>3. QED
    BY <2>1, <2>2, NothingClaimed, OneAtATime
<1>2. CASE BeginTx(w)
  <2>1. /\ UNCHANGED <<table, pend, job, item, seen>> /\ OthersKeep(w)
        /\ phase'[w] = FirstPhase(job[w].kind) /\ phase[w] = "begin"
        /\ \A u \in Writers : phase[u] \notin InTx
    BY <1>0, <1>2 DEF BeginTx, dbVars, OthersKeep, TypeOK
  <2>2. item[w] = 1 /\ phase'[w] \in {"insert", "lookup"}
    BY <1>0, <2>1 DEF ControlAt, InTx, FirstPhase
  <2>3. DecidedAt(w)'
    BY <2>1, <2>2 DEF DecidedAt, FirstPhase
  <2>4. Written(w)' = {}
    BY <2>1, <2>2 DEF Written
  <2>5. WrittenLands(w)'
    BY <2>4 DEF WrittenLands
  <2>6. QED
    BY <2>1, <2>3, <2>5, OneAtATime
<1>3. ASSUME phase[w] \in InTx, OthersKeep(w), DecidedAt(w)', WrittenLands(w)'
      PROVE  SerialInv'
  BY <1>3, OneAtATime DEF SerialInv, Alone
<1>4. CASE UpsertLookup(w)
  <2>1. /\ UNCHANGED <<table, pend, job, item>> /\ OthersKeep(w) /\ phase[w] = "lookup"
        /\ job[w].kind = "upsert"
    BY <1>0, <1>4 DEF UpsertLookup, dbVars, OthersKeep, TypeOK
  <2>2. View(w)' = View(w) /\ Content(w)' = Content(w) /\ Key(w)' = Key(w)
    BY <2>1 DEF View, Content, Key
  <2>3. DecidedAt(w)' /\ phase'[w] \in {"insert", "verify", "supersede"}
    <3>1. CASE ~Occupied(View(w), Key(w)) /\ phase' = [phase EXCEPT ![w] = "insert"]
      <4>1. phase'[w] = "insert"
        BY <1>0, <3>1 DEF TypeOK
      <4>2. QED
        BY <2>2, <3>1, <4>1 DEF DecidedAt, Occupied, IsCurrent
    <3>2. ASSUME NEW r \in RowId, IsCurrent(View(w), r, Key(w)),
                 seen' = [seen EXCEPT ![w] = [id |-> r, row |-> View(w)[r]]],
                 phase' = [phase EXCEPT ![w] =
                     IF View(w)[r].content = Content(w) THEN "verify" ELSE "supersede"]
          PROVE  DecidedAt(w)' /\ phase'[w] \in {"insert", "verify", "supersede"}
      <4>1. seen'[w].id = r
            /\ phase'[w] = IF View(w)[r].content = Content(w) THEN "verify" ELSE "supersede"
        BY <1>0, <3>2 DEF TypeOK
      <4>2. QED
        BY <2>2, <3>2, <4>1 DEF DecidedAt, IsCurrent
    <3>3. QED
      BY <1>4, <3>1, <3>2 DEF UpsertLookup
  <2>4. Written(w)' = Written(w)
    BY <2>1, <2>2, <2>3 DEF Written, Splitting
  <2>5. phase[w] \in InTx /\ WrittenLands(w)
    BY <2>1 DEF SerialInv, InTx
  <2>6. WrittenLands(w)'
    BY <2>1, <2>2, <2>4, <2>5 DEF WrittenLands
  <2>7. QED
    BY <1>3, <2>1, <2>3, <2>5, <2>6
<1>5. ASSUME RetryOrGiveUp(w) \/ Return(w), phase[w] # "idle", table' = table
      PROVE  SerialInv'
  <2>1. OthersKeep(w) /\ pend' = [pend EXCEPT ![w] = NoPend] /\ phase'[w] \notin InTx
    BY <1>0, <1>5, RollbackOK
  <2>2. \A u \in Writers \ {w} : pend'[u] = pend[u]
    BY <1>0, <2>1 DEF TypeOK
  <2>3. QED
    BY <1>5, <2>1, <2>2, NothingClaimed, OneAtATime
<1>6. CASE ArchiveLookup(w)
  <2>1. phase[w] = "lookup" /\ phase[w] \in InTx /\ job[w].kind = "archive" /\ table' = table
    BY <1>6 DEF ArchiveLookup, InTx
  <2>2. ASSUME phase' = [phase EXCEPT ![w] = "supersede"], UNCHANGED <<pend, job, item, fresh>>,
               \E r \in RowId : seen' = [seen EXCEPT ![w] = [id |-> r, row |-> View(w)[r]]]
        PROVE  SerialInv'
    <3>1. phase'[w] = "supersede" /\ OthersKeep(w)
      BY <1>0, <2>2 DEF TypeOK, OthersKeep
    <3>2. DecidedAt(w)' /\ WrittenLands(w)'
      BY <2>1, <2>2, <3>1 DEF DecidedAt, WrittenLands
    <3>3. QED
      BY <1>3, <2>1, <3>1, <3>2
  <2>3. QED
    BY <1>5, <1>6, <2>1, <2>2 DEF ArchiveLookup
<1>7. CASE Publish(w)
  BY <1>5, <1>7 DEF Publish
<1>8. CASE ConnectionLost(w) \/ StatementFails(w)
  BY <1>5, <1>8 DEF ConnectionLost, StatementFails, InTx
<1>9. CASE DeadlockVictim(w)
  <2>1. \E v \in Writers : WaitsFor(w, v)
    BY <1>9 DEF DeadlockVictim
  <2>2. phase[w] # "idle"
    BY <2>1 DEF WaitsFor
  <2>3. QED
    BY <1>5, <1>9, <2>2 DEF DeadlockVictim
<1>10. QED
  BY <1>1, <1>2, <1>4, <1>6, <1>7, <1>8, <1>9

\* The statements that write.
LEMMA StatementSerial ==
    ASSUME SerialWriters, IInv, PayloadInv, SerialInv, NEW w \in Writers,
           InsertRoot(w) \/ Verify(w) \/ Supersede(w) \/ InsertVersion(w)
    PROVE  SerialInv'
<1>0. /\ TypeOK /\ ControlAt(w) /\ SeenAt(w) /\ FreshAt(w) /\ ComparedAt(w)
      /\ DecidedAt(w) /\ WrittenLands(w)
  BY DEF IInv, ControlOK, SeenOK, FreshOK, PayloadInv, PayloadAt, SerialInv
<1>1. ASSUME phase[w] \in InTx, OthersKeep(w), DecidedAt(w)', WrittenLands(w)'
      PROVE  SerialInv'
  BY <1>1, OneAtATime DEF SerialInv, Alone
<1>2. ASSUME Advance(w), phase[w] \in InTx
      PROVE  OthersKeep(w) /\ job' = job
             /\ (job[w].kind = "upsert" => DecidedAt(w)')
             /\ (job[w].kind # "upsert" => DecidedAt(w)' /\ WrittenLands(w)')
  <2>1. /\ OthersKeep(w) /\ job' = job /\ phase'[w] \in {"lookup", "insert", "commit"}
        /\ phase'[w] = "insert" => job[w].kind = "placeholder"
    BY <1>0, <1>2, AdvanceOK DEF Advance, TypeOK, FirstPhase
  <2>2. QED
    BY <2>1 DEF DecidedAt, WrittenLands
<1>3. ASSUME Advance(w), phase[w] \in InTx, phase[w] # "commit", NEW n \in RowId, NEW row \in Row,
             pend' = [pend EXCEPT ![w][n] = row], table' = table,
             View(w)[n] # Absent => View(w)[n].key = Key(w),
             job[w].kind = "upsert" =>
                 /\ row.key = Key(w) /\ row.sup = NoRow /\ row.content = Content(w)
                 /\ row.ver = ScanOf[w] /\ ~row.del /\ ~row.ref
      PROVE  SerialInv'
  <2>1. View(w)'[n] = row /\ \A r \in RowId \ {n} : View(w)'[r] = View(w)[r]
    BY <1>0, <1>3, RowPresent DEF View, TypeOK
  <2>2. job[w].kind = "upsert" => IsCurrent(View(w)', n, Key(w))
    BY <1>3, <2>1, RowPresent DEF IsCurrent
  <2>3. job[w].kind = "upsert" => WrittenLands(w)'
    BY <1>0, <1>3, <2>1, <2>2, ItemLands
  <2>4. QED
    BY <1>1, <1>2, <1>3, <2>3
<1>4. CASE InsertRoot(w)
  <2>1. table' = table /\ Advance(w) /\ phase[w] \in InTx /\ phase[w] = "insert"
    BY <1>4 DEF InsertRoot, InTx
  <2>2. CASE Occupied(View(w), Key(w))
    <3>1. job[w].kind # "upsert"
      BY <1>0, <2>1, <2>2 DEF DecidedAt
    <3>2. QED
      BY <1>1, <1>2, <2>1, <3>1
  <2>3. ASSUME NEW n \in RowId, View(w)[n] = Absent, pend' = [pend EXCEPT ![w][n] = RootRow(w)]
        PROVE  SerialInv'
    <3>1. Key(w) \in Keys /\ Content(w) \in Contents
      BY <1>0, <2>1, ItemType DEF ControlAt, InTx
    <3>2. /\ RootRow(w) \in Row /\ RootRow(w).key = Key(w) /\ RootRow(w).sup = NoRow
          /\ RootRow(w).content = Content(w) /\ RootRow(w).ver = ScanOf[w] /\ ~RootRow(w).del
      BY <3>1, ConstantsAssumption DEF RootRow, Row, NoRow, RowId
    <3>3. RootRow(w).ref = (job[w].kind = "placeholder")
      BY DEF RootRow
    <3>4. QED
      BY <1>3, <2>1, <2>3, <3>2, <3>3
  <2>4. QED
    BY <1>4, <2>2, <2>3, RootInserted
<1>5. CASE Verify(w)
  <2> DEFINE o == seen[w].id
             x == Verified(View(w)[o], ScanOf[w])
  <2>1. /\ table' = table /\ Advance(w) /\ phase[w] \in InTx /\ phase[w] = "verify"
        /\ pend' = [pend EXCEPT ![w][o] = x]
    BY <1>5 DEF Verify, InTx
  <2>2. /\ o \in RowId /\ View(w)[o] \in Row
        /\ View(w)[o].key = Key(w) /\ View(w)[o].sup = NoRow /\ View(w)[o].content = Content(w)
    BY <1>0, <2>1, ViewTypes DEF SeenAt, Of, DecidedAt, IsCurrent
  <2>3. /\ x \in Row /\ x.key = View(w)[o].key /\ x.content = View(w)[o].content
        /\ x.sup = View(w)[o].sup /\ x.ver = ScanOf[w] /\ ~x.del /\ ~x.ref
    BY <2>2, ConstantsAssumption DEF Verified, Row
  <2> HIDE DEF o, x
  <2>4. QED
    BY <1>3, <2>1, <2>2, <2>3
<1>6. CASE Supersede(w)
  <2> DEFINE o == seen[w].id
  <2>1. /\ UNCHANGED <<table, job, item, seen>> /\ OthersKeep(w)
        /\ phase[w] = "supersede" /\ phase'[w] = "split" /\ phase[w] \in InTx
    BY <1>0, <1>6 DEF Supersede, OthersKeep, TypeOK, InTx
  <2>2. o \in RowId /\ View(w)[o].key = Key(w)
    BY <1>0, <2>1 DEF SeenAt, Of
  <2>3. \A r \in RowId \ {o} : View(w)'[r] = View(w)[r]
    BY <1>0, <1>6, SMTT(30) DEF Supersede, View, TypeOK
  <2>4. Key(w)' = Key(w)
    BY <2>1 DEF Key
  <2>5. Written(w)' = {i \in Written(w) : job[w].batch[i].key # Key(w)}
    BY <2>1, <2>4 DEF Written, Splitting
  <2>6. DecidedAt(w)'
    BY <2>1 DEF DecidedAt
  <2>7. WrittenLands(w)'
    <3> SUFFICES ASSUME job[w].kind = "upsert", NEW i \in Written(w)'
                 PROVE  /\ PopulatedIn(View(w), job[w].batch[i].key)'
                        /\ (\A j \in Written(w)' : job[w].batch[j].key = job[w].batch[i].key
                                => j <= i)
                              => LandedIn(View(w), ScanOf[w], job[w].batch[i])'
      BY <2>1 DEF WrittenLands
    <3> DEFINE k == job[w].batch[i].key
               x == View(w)
               y == View(w)'
    <3>1. i \in Written(w) /\ k # Key(w)
      BY <2>5
    <3>2. PopulatedIn(x, k)
      BY <1>0, <2>1, <3>1 DEF WrittenLands
    <3>3. (\A j \in Written(w)' : job[w].batch[j].key = k => j <= i)
            => LandedIn(x, ScanOf[w], job[w].batch[i])
      BY <1>0, <2>1, <2>5, <3>1 DEF WrittenLands
    <3>4. \A r \in RowId : IsCurrent(x, r, k) => y[r] = x[r]
      BY <2>2, <2>3, <3>1 DEF IsCurrent
    <3> HIDE DEF x, y
    <3>5. PopulatedIn(y, k)
      BY <3>2, <3>4 DEF PopulatedIn, IsCurrent
    <3>6. LandedIn(x, ScanOf[w], job[w].batch[i]) => LandedIn(y, ScanOf[w], job[w].batch[i])
      BY <3>4 DEF LandedIn, IsCurrent
    <3>7. QED
      BY <2>1, <3>3, <3>5, <3>6 DEF PopulatedIn, LandedIn, IsCurrent, y
  <2>8. QED
    BY <1>1, <2>1, <2>6, <2>7
<1>7. CASE InsertVersion(w)
  <2> DEFINE n == fresh[w]
             x == VersionRow(w)
  <2>1. /\ table' = table /\ phase[w] \in InTx /\ phase[w] = "split" /\ phase[w] # "idle"
        /\ Splitting(w)
    BY <1>7 DEF InsertVersion, InTx, Splitting
  <2>2. CASE Return(w)
    <3>1. OthersKeep(w) /\ phase'[w] \notin InTx
      BY <1>0, <2>1, <2>2, RollbackOK
    <3>2. QED
      BY <1>1, <2>1, <3>1, NothingClaimed
  <2>3. CASE Advance(w) /\ pend' = [pend EXCEPT ![w][n] = x]
    <3>1. n \in RowId /\ View(w)[n] = Absent /\ seen[w].id \in RowId
      BY <1>0, <2>1 DEF SeenAt, FreshAt, OwnId, View
    <3>2. seen[w].row \in Row
      BY <1>0, <2>1 DEF SeenAt
    <3>3. Key(w) \in Keys /\ Content(w) \in Contents
      BY <1>0, <2>1, ItemType DEF ControlAt
    <3>4. seen[w].id \in 0..MaxRows /\ NoRow \in 0..MaxRows /\ ScanOf[w] \in Scans
      BY <3>1, ConstantsAssumption DEF RowId, NoRow
    <3>5. /\ x \in Row
          /\ job[w].kind = "upsert" =>
                 /\ x.key = Key(w) /\ x.sup = NoRow /\ x.content = Content(w)
                 /\ x.ver = ScanOf[w] /\ ~x.del /\ ~x.ref
      <4>1. CASE job[w].kind = "archive"
        <5>1. x = [seen[w].row EXCEPT !.prev = seen[w].id, !.sup = NoRow,
                                      !.del = TRUE, !.ref = FALSE]
          BY <4>1 DEF VersionRow
        <5> HIDE DEF x
        <5>2. QED
          BY <3>2, <3>4, <4>1, <5>1 DEF Row
      <4>2. CASE job[w].kind # "archive"
        <5>1. x = [key |-> Key(w), content |-> Content(w), prev |-> seen[w].id,
                   sup |-> NoRow, disc |-> seen[w].row.disc, ver |-> ScanOf[w],
                   del |-> FALSE, ref |-> FALSE]
          BY <4>2 DEF VersionRow
        <5>2. seen[w].row.disc \in Scans
          BY <3>2 DEF Row
        <5> HIDE DEF x
        <5>3. QED
          BY <3>3, <3>4, <5>1, <5>2 DEF Row
      <4>3. QED
        BY <4>1, <4>2
    <3> HIDE DEF n, x
    <3>6. QED
      BY <1>3, <2>1, <2>3, <3>1, <3>5
  <2>4. QED
    BY <1>7, <2>2, <2>3 DEF InsertVersion
<1>8. QED
  BY <1>4, <1>5, <1>6, <1>7

\* Every step of a database with one connection keeps its invariant.
LEMMA NextSerial ==
    ASSUME SerialWriters
    PROVE  IInv /\ PayloadInv /\ SerialInv /\ [Next]_vars => SerialInv'
<1> SUFFICES ASSUME IInv, PayloadInv, SerialInv, [Next]_vars PROVE SerialInv'
  OBVIOUS
<1>0. TypeOK
  BY DEF IInv
<1>1. ASSUME NEW w \in Writers, Commit(w) \/ CommitAckLost(w)
      PROVE  SerialInv'
  <2>1. phase[w] = "commit" /\ phase[w] \in InTx /\ ControlAt(w)
    BY <1>1 DEF Commit, CommitAckLost, IInv, ControlOK, InTx
  <2>2. OthersKeep(w) /\ phase'[w] \notin InTx
    <3>1. CASE RetryOrGiveUp(w) \/ Return(w)
      BY <1>0, <2>1, <3>1, RollbackOK
    <3>2. CASE Leave(w, "publish")
      BY <1>0, <2>1, <3>2, LeaveOK
    <3>3. QED
      BY <1>1, <3>1, <3>2 DEF Commit, CommitAckLost
  <2>3. \A u \in Writers \ {w} : phase[u] \notin InTx
    BY <2>1 DEF SerialInv, Alone
  <2>4. QED
    BY <2>2, <2>3, NothingClaimed, OneAtATime
<1>2. ASSUME NEW k \in Keys, Restore(k)
      PROVE  SerialInv'
  <2>1. (\A u \in Writers : phase[u] \notin InTx) /\ phase' = phase
    BY <1>2 DEF Restore, ctlVars
  <2>2. QED
    BY <2>1, NothingClaimed DEF SerialInv, Alone
<1>3. CASE UNCHANGED vars \/ \E w \in Writers : DrawId(w)
  <2>1. UNCHANGED <<table, pend, phase, job, item, seen>>
    BY <1>3, DrawKeeps DEF vars
  <2>2. \A u \in Writers : /\ View(u)' = View(u) /\ Content(u)' = Content(u)
                           /\ Key(u)' = Key(u) /\ Written(u)' = Written(u)
    BY <2>1 DEF View, Content, Key, Written, Splitting
  <2>3. \A u \in Writers : DecidedAt(u)' <=> DecidedAt(u)
    BY <2>1, <2>2 DEF DecidedAt
  <2>4. \A u \in Writers : WrittenLands(u)' <=> WrittenLands(u)
    BY <2>1, <2>2 DEF WrittenLands
  <2>5. QED
    BY <2>1, <2>3, <2>4 DEF SerialInv, Alone
<1>4. QED
  BY <1>1, <1>2, <1>3, QuietSerial, StatementSerial, Zenon DEF Next, Step

\* With one connection a writer's decisions and the items it has written stay valid.
LEMMA SerialInvariance == ASSUME SerialWriters PROVE Spec => []SerialInv
<1>1. Init => SerialInv
  BY DEF Init, SerialInv, Alone, DecidedAt, WrittenLands, InTx
<1>2. IInv /\ PayloadInv /\ SerialInv /\ [Next]_vars => SerialInv'
  BY NextSerial
<1>3. QED
  BY <1>1, <1>2, Invariance, PayloadInvariance, PTL DEF Spec

\* A commit that goes on to publish installs what its writer sees.
LEMMA PublishedCommit ==
    ASSUME TypeOK, ControlOK, [Next]_vars, NEW w \in Writers,
           phase[w] = "commit", phase'[w] = "publish"
    PROVE  table' = View(w) /\ job[w] \in Jobs /\ job' = job
<1>1. ControlAt(w)
  BY DEF ControlOK
<1>2. ASSUME NEW u \in Writers,
             (\E kind \in Kinds, b \in Batches : Call(u, kind, b)) \/ BeginTx(u) \/ Publish(u)
             \/ UpsertLookup(u) \/ ArchiveLookup(u) \/ InsertRoot(u) \/ Verify(u)
             \/ Supersede(u) \/ InsertVersion(u)
      PROVE  FALSE
  <2>1. phase[u] # "commit"
    BY <1>2 DEF Call, BeginTx, Publish, UpsertLookup, ArchiveLookup, InsertRoot, Verify,
                Supersede, InsertVersion
  <2>2. phase'[w] = phase[w]
    BY <1>2, <2>1 DEF Call, BeginTx, Publish, UpsertLookup, ArchiveLookup, InsertRoot, Verify,
                      Supersede, InsertVersion, Advance, Return, Leave, TypeOK
  <2>3. QED
    BY <2>2
<1>3. ASSUME NEW u \in Writers, ConnectionLost(u) \/ StatementFails(u) \/ DeadlockVictim(u)
      PROVE  FALSE
  <2>1. RetryOrGiveUp(u) \/ Return(u)
    BY <1>3 DEF ConnectionLost, StatementFails, DeadlockVictim
  <2>2. phase'[w] \in {phase[w], "begin", "idle"}
    BY <2>1 DEF RetryOrGiveUp, Return, Leave, TypeOK
  <2>3. QED
    BY <2>2
<1>4. ASSUME NEW u \in Writers, Commit(u) \/ CommitAckLost(u)
      PROVE  table' = View(w) /\ job' = job
  <2>1. /\ table' = View(u)
        /\ \/ phase' = [phase EXCEPT ![u] = "idle"] \/ phase' = [phase EXCEPT ![u] = "begin"]
           \/ phase' = [phase EXCEPT ![u] = "publish"] /\ job' = job
    BY <1>4 DEF Commit, CommitAckLost, RetryOrGiveUp, Return, Leave
  <2>2. u = w /\ job' = job
    BY <2>1 DEF TypeOK
  <2>3. QED
    BY <2>1, <2>2
<1>5. ASSUME NEW k \in Keys, Restore(k)
      PROVE  FALSE
  BY <1>5 DEF Restore, ctlVars
<1>6. CASE UNCHANGED vars \/ \E u \in Writers : DrawId(u)
  <2>1. phase' = phase
    BY <1>6, DrawKeeps DEF vars
  <2>2. QED
    BY <2>1
<1>7. job[w] \in Jobs
  BY <1>1 DEF ControlAt
<1>8. QED
  BY <1>2, <1>3, <1>4, <1>5, <1>6, <1>7, Zenon DEF Next, Step

\* With one connection, for any number of writers, resources and pages: what a scanner
\* commits is what the table then says of every resource in its page.
THEOREM PagesLand == ASSUME SerialWriters PROVE Spec => SightingLands
<1> DEFINE Lands == \A w \in Writers :
         phase[w] = "commit" /\ job[w].kind = "upsert" /\ phase'[w] = "publish"
         => \A i \in DOMAIN job[w].batch :
              LastOfKey(job[w].batch, i) => Landed(ScanOf[w], job[w].batch[i])'
<1>1. IInv /\ SerialInv /\ [Next]_vars => [Lands]_vars
  <2> SUFFICES ASSUME IInv, SerialInv, [Next]_vars, NEW w \in Writers,
                      phase[w] = "commit", job[w].kind = "upsert", phase'[w] = "publish",
                      NEW i \in DOMAIN job[w].batch, LastOfKey(job[w].batch, i)
               PROVE  Landed(ScanOf[w], job[w].batch[i])'
    OBVIOUS
  <2>1. table' = View(w) /\ job[w] \in Jobs /\ job' = job
    BY PublishedCommit DEF IInv
  <2>2. Written(w) = DOMAIN job[w].batch
    <3>1. job[w].batch \in Seq(Item)
      BY <2>1, ConstantsAssumption DEF Jobs
    <3>2. QED
      BY <3>1 DEF Written, Splitting
  <2>3. LandedIn(View(w), ScanOf[w], job[w].batch[i])
    BY <2>2 DEF SerialInv, WrittenLands, LastOfKey, InTx
  <2>4. QED
    BY <2>1, <2>3 DEF Landed, LandedIn, IsCurrent
<1>2. QED
  BY <1>1, Invariance, SerialInvariance, PTL DEF Spec, SightingLands

\* With one connection a resource some scanner has committed is no placeholder.
THEOREM ScannedIsPopulated == ASSUME SerialWriters PROVE Spec => []ScannedNotPlaceholder
<1>1. IInv /\ PayloadInv /\ SerialInv /\ ScannedNotPlaceholder /\ [Next]_vars
        => ScannedNotPlaceholder'
  <2> SUFFICES ASSUME IInv, PayloadInv, SerialInv, ScannedNotPlaceholder, [Next]_vars,
                      NEW e \in emitted'
               PROVE  Populated(e[2])'
    BY DEF ScannedNotPlaceholder, Populated, IsCurrent
  <2>0. TypeOK
    BY DEF IInv
  <2>1. CASE e \in emitted
    <3>1. e[2] \in Keys /\ Populated(e[2])
      BY <2>0, <2>1 DEF TypeOK, ScannedNotPlaceholder, Populated
    <3>2. QED
      BY <3>1, PopulatedStep
  <2>2. ASSUME NEW w \in Writers, Commit(w), e \in Emits(w)
        PROVE  Populated(e[2])'
    <3>1. phase[w] = "commit" /\ table' = View(w) /\ job[w].kind = "upsert"
      BY <2>2 DEF Commit, Emits
    <3>2. PICK i \in DOMAIN job[w].batch : e = <<ScanOf[w], job[w].batch[i].key>>
      BY <2>2, <3>1 DEF Emits
    <3>3. i \in Written(w)
      <4>1. job[w] \in Jobs
        BY <3>1 DEF IInv, ControlOK, ControlAt
      <4>2. job[w].batch \in Seq(Item)
        BY <4>1, ConstantsAssumption DEF Jobs
      <4>3. QED
        BY <3>1, <4>2 DEF Written, Splitting
    <3>4. PopulatedIn(View(w), e[2])
      BY <3>1, <3>2, <3>3 DEF SerialInv, WrittenLands, InTx
    <3>5. QED
      BY <3>1, <3>4 DEF Populated, PopulatedIn, IsCurrent
  <2>3. emitted' = emitted \/ \E w \in Writers : Commit(w) /\ emitted' = emitted \cup Emits(w)
    <3>1. \A w \in Writers : ~CommitAckLost(w)
      BY SerialWriters DEF CommitAckLost
    <3>2. ASSUME NEW w \in Writers,
                 (\E kind \in Kinds, b \in Batches : Call(w, kind, b)) \/ BeginTx(w) \/ Publish(w)
                 \/ UpsertLookup(w) \/ ArchiveLookup(w) \/ InsertRoot(w) \/ Verify(w)
                 \/ Supersede(w) \/ InsertVersion(w) \/ DeadlockVictim(w)
                 \/ ConnectionLost(w) \/ StatementFails(w)
          PROVE  emitted' = emitted
      BY <3>2 DEF Call, BeginTx, Publish, UpsertLookup, ArchiveLookup, InsertRoot, Verify,
                  Supersede, InsertVersion, DeadlockVictim, ConnectionLost, StatementFails,
                  histVars
    <3>3. ASSUME NEW k \in Keys, Restore(k) PROVE emitted' = emitted
      BY <3>3 DEF Restore, histVars
    <3>4. CASE UNCHANGED vars \/ \E w \in Writers : DrawId(w)
      BY <3>4, DrawKeeps DEF vars
    <3>5. \A w \in Writers : Commit(w) => emitted' = emitted \cup Emits(w)
      BY DEF Commit
    <3>6. QED
      BY <3>1, <3>2, <3>3, <3>4, <3>5, Zenon DEF Next, Step
  <2>4. QED
    BY <2>1, <2>2, <2>3
<1>2. Init => ScannedNotPlaceholder
  BY DEF Init, ScannedNotPlaceholder
<1>3. QED
  BY <1>1, <1>2, Invariance, PayloadInvariance, SerialInvariance, PTL DEF Spec

-----------------------------------------------------------------------------
(* One change of each key. *)

\* What a commit or a restore of another writer does not disturb.
LEMMA OtherMoves ==
    ASSUME IInv, NEW u \in Writers, MovesAt(u),
           pend'[u] = pend[u], phase'[u] = phase[u], job'[u] = job[u], item'[u] = item[u],
           seen'[u] = seen[u],
           \A r \in RowId : pend[u][r] # Absent => table'[r] = table[r],
           \A r \in RowId : table[r] # Absent => table'[r].content = table[r].content
    PROVE  MovesAt(u)'
<1>1. \A r \in RowId : View(u)[r] # Absent => View(u)'[r].content = View(u)[r].content
  BY DEF View
<1>2. SeenAsWas(u)'
  <2>1. phase[u] \in {"supersede", "split"} => seen[u].id \in RowId /\ View(u)[seen[u].id] # Absent
    BY DEF IInv, SeenOK, SeenAt, Of
  <2>2. SeenAsWas(u)
    BY DEF MovesAt
  <2>3. QED
    BY <1>1, <2>1, <2>2 DEF SeenAsWas
<1>3. InsertedOnce(u)'
  <2>1. \A r \in RowId : Inserted(u, r)' <=> Inserted(u, r)
    BY DEF Inserted
  <2>2. Done(u)' = Done(u) /\ InsertedOnce(u)
    BY DEF Done, MovesAt
  <2>3. QED
    BY <2>1, <2>2 DEF InsertedOnce
<1>4. ASSUME NEW r \in RowId, pend[u][r] # Absent PROVE MoveAt(u, r)'
  <2>1. View(u)[r] = pend[u][r] /\ MoveAt(u, r) /\ table'[r] = table[r]
    BY <1>4 DEF View, MovesAt
  <2>2. pend[u][r].prev # NoRow
          => pend[u][r].prev \in RowId /\ View(u)[pend[u][r].prev] # Absent
    BY <1>4, <2>1, ViewPrev
  <2>3. QED
    BY <1>1, <2>1, <2>2 DEF MoveAt
<1>5. QED
  BY <1>2, <1>3, <1>4 DEF MovesAt

\* A step that writes no row, or drops those of one writer.
LEMMA StillMoves ==
    ASSUME IInv, MoveInv, NEW w \in Writers, table' = table, OthersKeep(w),
           \/ pend' = pend /\ job' = job /\ Done(w) \subseteq Done(w)'
           \/ pend' = [pend EXCEPT ![w] = NoPend],
           SeenAsWas(w)'
    PROVE  MoveInv'
<1>0. TypeOK
  BY DEF IInv
<1>1. ASSUME NEW u \in Writers, u # w PROVE MovesAt(u)'
  <2>1. pend'[u] = pend[u]
    BY <1>0, <1>1 DEF TypeOK
  <2>2. MovesAt(u)
    BY DEF MoveInv
  <2>3. QED
    BY <1>1, <2>1, <2>2, OtherMoves DEF OthersKeep
<1>2. MovesAt(w)'
  <2>1. CASE pend' = pend /\ job' = job /\ Done(w) \subseteq Done(w)'
    <3>1. View(w)' = View(w) /\ MovesAt(w)
      BY <2>1 DEF View, MoveInv
    <3>2. \A r \in RowId :
             (Inserted(w, r)' <=> Inserted(w, r)) /\ (MoveAt(w, r)' <=> MoveAt(w, r))
      BY <2>1, <3>1 DEF MoveAt, Inserted
    <3>3. InsertedOnce(w)'
      BY <2>1, <3>1, <3>2 DEF InsertedOnce, MovesAt
    <3>4. QED
      BY <2>1, <3>1, <3>2, <3>3 DEF MovesAt
  <2>2. CASE pend' = [pend EXCEPT ![w] = NoPend]
    <3>1. \A r \in RowId : pend'[w][r] = Absent
      BY <1>0, <2>2 DEF TypeOK, NoPend
    <3>2. QED
      BY <3>1 DEF MovesAt, InsertedOnce, Inserted
  <2>3. QED
    BY <2>1, <2>2
<1>3. (\A r \in RowId : table[r] # Absent => Plain(table[r]))'
  BY DEF MoveInv
<1>4. QED
  BY <1>1, <1>2, <1>3 DEF MoveInv

\* A step in which w writes one row: over a row of its view, or a new one.
LEMMA WriteMoves ==
    ASSUME IInv, MoveInv, NEW w \in Writers, table' = table, OthersKeep(w), job' = job,
           Done(w) \subseteq Done(w)',
           NEW n \in RowId, NEW row \in Row, pend' = [pend EXCEPT ![w][n] = row], Plain(row),
           View(w)[n] # Absent =>
              /\ row.key = View(w)[n].key /\ row.content = View(w)[n].content
              /\ row.prev = View(w)[n].prev
              /\ SameFlags(row, View(w)[n]) \/ (job[w].kind # "archive" /\ Lifted(row)),
           View(w)[n] = Absent =>
              /\ \E i \in Done(w)' : job[w].batch[i].key = row.key
              /\ \A i \in Done(w) : job[w].batch[i].key # row.key
              /\ row.prev = NoRow => ~row.del /\ (row.ref => row.content = Empty)
              /\ row.prev # NoRow => row.prev \in RowId /\ View(w)[row.prev] # Absent
              /\ row.prev # NoRow /\ row.del => row.content = View(w)[row.prev].content,
           SeenAsWas(w)'
    PROVE  MoveInv'
<1>0. TypeOK
  BY DEF IInv
<1>1. row # Absent /\ pend'[w][n] = row /\ \A r \in RowId \ {n} : pend'[w][r] = pend[w][r]
  BY <1>0, RowPresent DEF TypeOK
<1>2. ASSUME NEW u \in Writers, u # w PROVE MovesAt(u)'
  <2>1. pend'[u] = pend[u]
    BY <1>0, <1>2 DEF TypeOK
  <2>2. MovesAt(u)
    BY DEF MoveInv
  <2>3. QED
    BY <1>2, <2>1, <2>2, OtherMoves DEF OthersKeep
<1>3. \A r \in RowId : View(w)[r] # Absent => View(w)'[r].content = View(w)[r].content
  BY <1>1 DEF View
<1>4. MovesAt(w) /\ InsertedOnce(w)
  BY DEF MoveInv, MovesAt
<1>5. InsertedOnce(w)'
  <2>1. CASE View(w)[n] # Absent
    <3>1. \A r \in RowId : Inserted(w, r)' <=> Inserted(w, r)
      BY <1>1, <2>1 DEF Inserted, View
    <3>2. \A r \in RowId : Inserted(w, r) => pend'[w][r].key = pend[w][r].key
      BY <1>1, <2>1 DEF Inserted, View
    <3>3. QED
      BY <1>4, <3>1, <3>2 DEF InsertedOnce
  <2>2. CASE View(w)[n] = Absent
    <3>1. \A r \in RowId : Inserted(w, r)' <=> Inserted(w, r) \/ r = n
      BY <1>1, <2>2 DEF Inserted, View
    <3>2. ~Inserted(w, n)
      BY <2>2 DEF Inserted, View
    <3>3. \A r \in RowId : Inserted(w, r) => pend'[w][r] = pend[w][r] /\ pend[w][r].key # row.key
      BY <1>1, <1>4, <2>2, <3>2 DEF InsertedOnce
    <3>4. QED
      BY <1>1, <1>4, <2>2, <3>1, <3>3 DEF InsertedOnce
  <2>3. QED
    BY <2>1, <2>2
<1>6. ASSUME NEW r \in RowId, pend'[w][r] # Absent PROVE MoveAt(w, r)'
  <2>1. CASE r = n /\ View(w)[n] = Absent
    <3>1. table[n] = Absent
      BY <2>1 DEF View
    <3>2. QED
      BY <1>1, <1>3, <2>1, <3>1 DEF MoveAt
  <2>2. CASE r = n /\ View(w)[n] # Absent
    <3>1. row.prev # NoRow => row.prev \in RowId /\ View(w)[row.prev] # Absent
      BY <2>2, ViewPrev
    <3>2. CASE pend[w][n] = Absent
      <4>1. View(w)[n] = table[n] /\ table[n] # Absent
        BY <2>2, <3>2 DEF View
      <4>2. QED
        BY <1>1, <2>2, <4>1 DEF MoveAt
    <3>3. CASE pend[w][n] # Absent
      <4>1. View(w)[n] = pend[w][n] /\ MoveAt(w, n)
        BY <1>4, <3>3 DEF View, MovesAt
      <4>2. table[n] # Absent =>
              SameFlags(row, table[n]) \/ (job[w].kind # "archive" /\ Lifted(row))
        BY <2>2, <4>1 DEF MoveAt, SameFlags, Lifted
      <4>3. table[n] = Absent =>
              /\ row.prev = NoRow => ~row.del /\ (row.ref => row.content = Empty)
              /\ row.prev # NoRow /\ row.del => row.content = View(w)[row.prev].content
        BY <2>2, <4>1 DEF MoveAt, SameFlags, Lifted
      <4>4. QED
        BY <1>1, <1>3, <2>2, <3>1, <4>2, <4>3 DEF MoveAt
    <3>4. QED
      BY <3>2, <3>3
  <2>3. CASE r # n
    <3>1. pend[w][r] # Absent /\ View(w)[r] = pend[w][r] /\ pend'[w][r] = pend[w][r]
      BY <1>1, <1>6, <2>3 DEF View
    <3>2. MoveAt(w, r)
      BY <1>4, <3>1 DEF MovesAt
    <3>3. pend[w][r].prev # NoRow
            => pend[w][r].prev \in RowId /\ View(w)[pend[w][r].prev] # Absent
      BY <3>1, ViewPrev
    <3>4. QED
      BY <1>3, <3>1, <3>2, <3>3 DEF MoveAt
  <2>4. QED
    BY <2>1, <2>2, <2>3
<1>7. (\A r \in RowId : table[r] # Absent => Plain(table[r]))'
  BY DEF MoveInv
<1>8. QED
  BY <1>2, <1>5, <1>6, <1>7 DEF MoveInv, MovesAt

\* A commit changes no row another writer has locked.
LEMMA CommitMoves ==
    ASSUME IInv, MoveInv, NEW w \in Writers, phase[w] = "commit", table' = View(w),
           pend' = [pend EXCEPT ![w] = NoPend], OthersKeep(w), phase'[w] \notin InTx
    PROVE  MoveInv'
<1>0. TypeOK /\ LocksExclusive /\ UpdatesKeep
  BY DEF IInv
<1>1. MovesAt(w)'
  <2>1. \A r \in RowId : pend'[w][r] = Absent
    BY <1>0 DEF TypeOK, NoPend
  <2>2. QED
    BY <2>1 DEF MovesAt, InsertedOnce, Inserted, SeenAsWas, InTx
<1>2. ASSUME NEW u \in Writers, u # w PROVE MovesAt(u)'
  <2>1. pend'[u] = pend[u]
    BY <1>0, <1>2 DEF TypeOK
  <2>2. MovesAt(u)
    BY DEF MoveInv
  <2>3. \A r \in RowId : pend[u][r] # Absent => table'[r] = table[r]
    BY <1>0, <1>2 DEF View, LocksExclusive
  <2>4. \A r \in RowId : table[r] # Absent => table'[r].content = table[r].content
    BY <1>0 DEF View, UpdatesKeep
  <2>5. QED
    BY <1>2, <2>1, <2>2, <2>3, <2>4, OtherMoves DEF OthersKeep
<1>3. ASSUME NEW r \in RowId, View(w)[r] # Absent PROVE Plain(View(w)[r])
  BY <1>3 DEF View, MoveInv, MovesAt, MoveAt
<1>4. QED
  BY <1>1, <1>2, <1>3 DEF MoveInv

\* Lifting a tombstone nobody has locked.
LEMMA RestoreMoves ==
    ASSUME IInv, MoveInv, NEW k \in Keys, Restore(k)
    PROVE  MoveInv'
<1>0. TypeOK
  BY DEF IInv
<1>1. PICK h \in RowId :
         /\ IsCurrent(table, h, k)
         /\ \A u \in Writers : pend[u][h] = Absent
         /\ table' = [table EXCEPT ![h].del = FALSE]
  BY DEF Restore
<1>2. UNCHANGED <<pend, phase, job, item, seen>>
  BY DEF Restore, ctlVars
<1>3. table[h] \in Row
  BY <1>0, <1>1 DEF TypeOK, IsCurrent
<1>4. /\ table'[h].content = table[h].content /\ ~table'[h].del
      /\ \A r \in RowId \ {h} : table'[r] = table[r]
  <2>1. table'[h] = [table[h] EXCEPT !.del = FALSE]
    BY <1>0, <1>1 DEF TypeOK
  <2>2. QED
    BY <1>0, <1>1, <1>3, <2>1 DEF Row, TypeOK
<1>5. ASSUME NEW u \in Writers PROVE MovesAt(u)'
  <2>1. MovesAt(u)
    BY DEF MoveInv
  <2>2. /\ \A r \in RowId : pend[u][r] # Absent => table'[r] = table[r]
        /\ \A r \in RowId : table[r] # Absent => table'[r].content = table[r].content
    BY <1>1, <1>4
  <2>3. QED
    BY <1>2, <2>1, <2>2, OtherMoves
<1>6. \A r \in RowId : table'[r] # Absent => Plain(table'[r])
  BY <1>1, <1>4 DEF MoveInv, Plain, IsCurrent
<1>7. QED
  BY <1>5, <1>6 DEF MoveInv

\* A resolver's pages stay empty while they are written.
LEMMA PagesInvariance == Spec => []EmptyPages
<1>1. Init => EmptyPages
  BY DEF Init, EmptyPages, EmptyPage
<1>2. TypeOK /\ EmptyPages /\ [Next]_vars => EmptyPages'
  <2> SUFFICES ASSUME TypeOK, EmptyPages, [Next]_vars PROVE EmptyPages'
    OBVIOUS
  <2>1. ASSUME NEW w \in Writers, phase[w] # "idle",
               \A u \in Writers \ {w} : phase'[u] = phase[u] /\ job'[u] = job[u],
               phase'[w] = "idle" \/ job'[w] = job[w]
        PROVE  EmptyPages'
    BY <2>1 DEF EmptyPages, EmptyPage
  <2>2. ASSUME NEW w \in Writers, NEW p, Leave(w, p), phase[w] # "idle"
        PROVE  EmptyPages'
    <3>1. /\ \A u \in Writers \ {w} : phase'[u] = phase[u] /\ job'[u] = job[u]
          /\ phase'[w] = "idle" \/ job'[w] = job[w]
      BY <2>2 DEF Leave, TypeOK
    <3>2. QED
      BY <2>1, <2>2, <3>1
  <2>3. ASSUME NEW w \in Writers, NEW p, phase[w] # "idle", job' = job,
               phase' = [phase EXCEPT ![w] = p]
        PROVE  EmptyPages'
    <3>1. \A u \in Writers \ {w} : phase'[u] = phase[u]
      BY <2>3 DEF TypeOK
    <3>2. QED
      BY <2>1, <2>3, <3>1
  <2>4. ASSUME NEW w \in Writers, RetryOrGiveUp(w) \/ Return(w), phase[w] # "idle"
        PROVE  EmptyPages'
    BY <2>2, <2>4 DEF RetryOrGiveUp, Return
  <2>5. ASSUME NEW w \in Writers, Advance(w), phase[w] # "idle"
        PROVE  EmptyPages'
    BY <2>3, <2>5 DEF Advance
  <2>6. ASSUME NEW w \in Writers, NEW kind \in Kinds, NEW b \in Batches, Call(w, kind, b)
        PROVE  EmptyPages'
    <3>1. /\ \A u \in Writers \ {w} : phase'[u] = phase[u] /\ job'[u] = job[u]
          /\ job'[w] = [kind |-> kind, batch |-> b]
      BY <2>6 DEF Call, TypeOK
    <3>2. kind = "placeholder" => \A i \in DOMAIN b : b[i].content = Empty
      BY <2>6 DEF Call
    <3>3. QED
      BY <3>1, <3>2 DEF EmptyPages, EmptyPage
  <2>7. ASSUME NEW w \in Writers,
               BeginTx(w) \/ UpsertLookup(w) \/ ArchiveLookup(w) \/ Supersede(w)
        PROVE  EmptyPages'
    <3>1. CASE BeginTx(w)
      BY <2>3, <3>1 DEF BeginTx
    <3>2. CASE UpsertLookup(w)
      BY <2>3, <3>2 DEF UpsertLookup
    <3>3. CASE ArchiveLookup(w)
      BY <2>3, <2>4, <3>3 DEF ArchiveLookup
    <3>4. CASE Supersede(w)
      BY <2>3, <3>4 DEF Supersede
    <3>5. QED
      BY <2>7, <3>1, <3>2, <3>3, <3>4
  <2>8. ASSUME NEW w \in Writers, InsertRoot(w) \/ Verify(w) \/ InsertVersion(w)
        PROVE  EmptyPages'
    BY <2>4, <2>5, <2>8 DEF InsertRoot, Verify, InsertVersion
  <2>9. ASSUME NEW w \in Writers, Commit(w) \/ CommitAckLost(w) \/ Publish(w)
        PROVE  EmptyPages'
    BY <2>2, <2>4, <2>9 DEF Commit, CommitAckLost, Publish
  <2>10. ASSUME NEW w \in Writers, ConnectionLost(w) \/ StatementFails(w)
         PROVE  EmptyPages'
    BY <2>4, <2>10 DEF ConnectionLost, StatementFails, InTx
  <2>11. ASSUME NEW w \in Writers, DeadlockVictim(w)
         PROVE  EmptyPages'
    <3>1. \E v \in Writers : WaitsFor(w, v)
      BY <2>11 DEF DeadlockVictim
    <3>2. phase[w] # "idle"
      BY <3>1 DEF WaitsFor
    <3>3. QED
      BY <2>4, <2>11, <3>2 DEF DeadlockVictim
  <2>12. ASSUME NEW k \in Keys, Restore(k)
         PROVE  EmptyPages'
    BY <2>12 DEF Restore, ctlVars, EmptyPages, EmptyPage
  <2>13. CASE UNCHANGED vars \/ \E w \in Writers : DrawId(w)
    <3>1. UNCHANGED <<phase, job>>
      BY <2>13, DrawKeeps DEF vars
    <3>2. QED
      BY <3>1 DEF EmptyPages, EmptyPage
  <2>14. QED
    BY <2>6, <2>7, <2>8, <2>9, <2>10, <2>11, <2>12, <2>13 DEF Next, Step
<1>3. QED
  BY <1>1, <1>2, TypeCorrect, PTL DEF Spec

\* The row that is done is one more item.
LEMMA AdvanceDone ==
    ASSUME NamesOnce, NEW w \in Writers, TypeOK, ControlAt(w), phase[w] \in InTx,
           phase[w] # "commit", Advance(w)
    PROVE  /\ OthersKeep(w) /\ job' = job /\ SeenAsWas(w)'
           /\ Done(w) \subseteq Done(w)'
           /\ \E i \in Done(w)' : job[w].batch[i].key = Key(w)
           /\ \A i \in Done(w) : job[w].batch[i].key # Key(w)
<1>1. job[w] \in Jobs /\ item[w] \in 1 .. Len(job[w].batch) /\ Len(job[w].batch) \in Nat
  BY FirstItem DEF ControlAt, InTx
<1>2. job[w].batch \in Batches /\ DOMAIN job[w].batch = 1 .. Len(job[w].batch)
  <2>1. job[w].batch \in Batches
    BY <1>1 DEF Jobs
  <2>2. job[w].batch \in Seq(Item)
    BY <2>1, ConstantsAssumption
  <2>3. QED
    BY <2>1, <2>2
<1>3. OthersKeep(w) /\ job' = job /\ phase'[w] \in {"lookup", "insert", "commit"}
  BY AdvanceOK
<1>4. IF item[w] < Len(job[w].batch) THEN item'[w] = item[w] + 1 /\ phase'[w] # "commit"
                                     ELSE item'[w] = item[w] /\ phase'[w] = "commit"
  BY DEF Advance, TypeOK, FirstPhase
<1>5. Done(w)' = 1 .. item[w]
  <2>1. Done(w)' = {i \in 1 .. Len(job[w].batch) : phase'[w] # "commit" => i < item'[w]}
    BY <1>3 DEF Done
  <2>2. QED
    BY <1>1, <1>4, <2>1
<1>6. \A i \in Done(w) : i \in 1 .. item[w] /\ i # item[w] /\ i \in DOMAIN job[w].batch
  BY <1>1, <1>2 DEF Done
<1>7. \A i \in Done(w) : job[w].batch[i].key # Key(w)
  BY <1>1, <1>2, <1>6 DEF NamesOnce, Key
<1>8. SeenAsWas(w)'
  BY <1>3 DEF SeenAsWas
<1>9. QED
  BY <1>1, <1>3, <1>5, <1>6, <1>7, <1>8 DEF Key

\* Steps that leave the database alone, and those that roll back.
LEMMA QuietMoves ==
    ASSUME IInv, MoveInv, NEW w \in Writers,
           \/ \E kind \in Kinds, b \in Batches : Call(w, kind, b)
           \/ BeginTx(w) \/ UpsertLookup(w) \/ ArchiveLookup(w) \/ Publish(w)
           \/ ConnectionLost(w) \/ StatementFails(w) \/ DeadlockVictim(w)
    PROVE  MoveInv'
<1>0. TypeOK /\ ControlAt(w)
  BY DEF IInv, ControlOK
<1>1. ASSUME NEW kind \in Kinds, NEW b \in Batches, Call(w, kind, b)
      PROVE  MoveInv'
  <2>1. table' = table /\ pend' = pend /\ OthersKeep(w) /\ phase'[w] = "begin"
        /\ pend[w] = NoPend
    BY <1>0, <1>1 DEF Call, dbVars, OthersKeep, TypeOK, ControlAt, InTx
  <2>2. pend' = [pend EXCEPT ![w] = NoPend]
    BY <1>0, <2>1 DEF TypeOK
  <2>3. SeenAsWas(w)'
    BY <2>1 DEF SeenAsWas
  <2>4. QED
    BY <2>1, <2>2, <2>3, StillMoves
<1>2. CASE BeginTx(w)
  <2>1. table' = table /\ pend' = pend /\ job' = job /\ OthersKeep(w) /\ pend[w] = NoPend
    BY <1>0, <1>2 DEF BeginTx, dbVars, OthersKeep, TypeOK, ControlAt, InTx
  <2>2. phase'[w] \in {"insert", "lookup"}
    BY <1>0, <1>2 DEF BeginTx, FirstPhase, TypeOK
  <2>3. SeenAsWas(w)'
    BY <2>2 DEF SeenAsWas
  <2>4. pend' = [pend EXCEPT ![w] = NoPend]
    BY <1>0, <2>1 DEF TypeOK
  <2>5. QED
    BY <2>1, <2>3, <2>4, StillMoves
<1>3. CASE UpsertLookup(w)
  <2>1. table' = table /\ pend' = pend /\ job' = job /\ item' = item /\ OthersKeep(w)
        /\ phase[w] = "lookup"
    BY <1>0, <1>3 DEF UpsertLookup, dbVars, OthersKeep, TypeOK
  <2>2. View(w)' = View(w)
    BY <2>1 DEF View
  <2>3. SeenAsWas(w)' /\ phase'[w] # "commit"
    <3>1. CASE phase' = [phase EXCEPT ![w] = "insert"]
      <4>1. phase'[w] = "insert"
        BY <1>0, <3>1 DEF TypeOK
      <4>2. QED
        BY <4>1 DEF SeenAsWas
    <3>2. ASSUME NEW r \in RowId, seen' = [seen EXCEPT ![w] = [id |-> r, row |-> View(w)[r]]],
                 phase' = [phase EXCEPT ![w] =
                     IF View(w)[r].content = Content(w) THEN "verify" ELSE "supersede"]
          PROVE  SeenAsWas(w)' /\ phase'[w] # "commit"
      <4>1. seen'[w].id = r /\ seen'[w].row = View(w)[r] /\ phase'[w] # "commit"
        BY <1>0, <3>2 DEF TypeOK
      <4>2. QED
        BY <2>2, <4>1 DEF SeenAsWas
    <3>3. QED
      BY <1>3, <3>1, <3>2 DEF UpsertLookup
  <2>4. Done(w) \subseteq Done(w)'
    BY <2>1, <2>3 DEF Done
  <2>5. QED
    BY <2>1, <2>3, <2>4, StillMoves
<1>4. ASSUME phase[w] = "lookup", phase' = [phase EXCEPT ![w] = "supersede"],
             \E r \in RowId : seen' = [seen EXCEPT ![w] = [id |-> r, row |-> View(w)[r]]],
             UNCHANGED <<table, pend, job, item, fresh>>
      PROVE  MoveInv'
  <2>1. OthersKeep(w) /\ phase'[w] = "supersede" /\ View(w)' = View(w)
    BY <1>0, <1>4 DEF OthersKeep, TypeOK, View
  <2>2. SeenAsWas(w)'
    <3>1. PICK r \in RowId : seen' = [seen EXCEPT ![w] = [id |-> r, row |-> View(w)[r]]]
      BY <1>4
    <3>2. seen'[w].id = r /\ seen'[w].row = View(w)[r]
      BY <1>0, <3>1 DEF TypeOK
    <3>3. QED
      BY <2>1, <3>2 DEF SeenAsWas
  <2>3. Done(w) \subseteq Done(w)'
    BY <1>4, <2>1 DEF Done
  <2>4. QED
    BY <1>4, <2>1, <2>2, <2>3, StillMoves
<1>5. ASSUME RetryOrGiveUp(w) \/ Return(w), phase[w] # "idle", table' = table
      PROVE  MoveInv'
  <2>1. OthersKeep(w) /\ pend' = [pend EXCEPT ![w] = NoPend] /\ phase'[w] \notin InTx
    BY <1>0, <1>5, RollbackOK
  <2>2. SeenAsWas(w)'
    BY <2>1 DEF SeenAsWas, InTx
  <2>3. QED
    BY <1>5, <2>1, <2>2, StillMoves
<1>6. CASE ArchiveLookup(w)
  <2>1. \/ /\ \E r \in RowId : seen' = [seen EXCEPT ![w] = [id |-> r, row |-> View(w)[r]]]
           /\ phase' = [phase EXCEPT ![w] = "supersede"]
           /\ UNCHANGED <<pend, job, item, attempt, fresh, tally>>
        \/ Return(w)
    BY <1>6 DEF ArchiveLookup
  <2>2. table' = table /\ phase[w] # "idle" /\ phase[w] = "lookup"
    BY <1>6 DEF ArchiveLookup
  <2>3. QED
    BY <1>4, <1>5, <2>1, <2>2
<1>7. CASE Publish(w)
  BY <1>5, <1>7 DEF Publish
<1>8. CASE ConnectionLost(w) \/ StatementFails(w)
  BY <1>5, <1>8 DEF ConnectionLost, StatementFails, InTx
<1>9. CASE DeadlockVictim(w)
  <2>1. \E v \in Writers : WaitsFor(w, v)
    BY <1>9 DEF DeadlockVictim
  <2>2. phase[w] # "idle"
    BY <2>1 DEF WaitsFor
  <2>3. QED
    BY <1>5, <1>9, <2>2 DEF DeadlockVictim
<1>10. QED
  BY <1>1, <1>2, <1>3, <1>6, <1>7, <1>8, <1>9

\* The statements that write.
LEMMA StatementMoves ==
    ASSUME NamesOnce, IInv, PayloadInv, EmptyPages, MoveInv, NEW w \in Writers,
           InsertRoot(w) \/ Verify(w) \/ Supersede(w) \/ InsertVersion(w)
    PROVE  MoveInv'
<1>0. TypeOK /\ ControlAt(w) /\ SeenAt(w) /\ FreshAt(w) /\ ComparedAt(w) /\ SeenAsWas(w)
  BY DEF IInv, ControlOK, SeenOK, FreshOK, PayloadInv, PayloadAt, MoveInv, MovesAt
<1>p. \A r \in RowId : View(w)[r] # Absent => Plain(View(w)[r])
  BY DEF View, MoveInv, MovesAt, MoveAt
<1>2. CASE InsertRoot(w)
  <2>1. table' = table /\ Advance(w) /\ phase[w] \in InTx /\ phase[w] = "insert"
    BY <1>2 DEF InsertRoot, InTx
  <2>a. /\ OthersKeep(w) /\ job' = job /\ SeenAsWas(w)' /\ Done(w) \subseteq Done(w)'
        /\ \E i \in Done(w)' : job[w].batch[i].key = Key(w)
        /\ \A i \in Done(w) : job[w].batch[i].key # Key(w)
    BY <1>0, <2>1, AdvanceDone
  <2>2. CASE UNCHANGED pend
    BY <2>1, <2>2, <2>a, StillMoves
  <2>3. ASSUME NEW n \in RowId, View(w)[n] = Absent, pend' = [pend EXCEPT ![w][n] = RootRow(w)]
        PROVE  MoveInv'
    <3>1. Key(w) \in Keys /\ Content(w) \in Contents
      BY <1>0, <2>1, ItemType DEF ControlAt, InTx
    <3>2. /\ RootRow(w) \in Row /\ RootRow(w).prev = NoRow /\ ~RootRow(w).del
          /\ RootRow(w).key = Key(w)
      BY <3>1, ConstantsAssumption DEF RootRow, Row, NoRow, RowId
    <3>5. /\ RootRow(w).ref => job[w].kind = "placeholder"
          /\ RootRow(w).content = Content(w)
      BY Zenon DEF RootRow
    <3>3. RootRow(w).ref => RootRow(w).content = Empty
      <4>1. job[w].batch \in Seq(Item) /\ item[w] \in 1 .. Len(job[w].batch)
        BY <1>0, <2>1, ConstantsAssumption DEF ControlAt, InTx, Jobs
      <4>2. item[w] \in DOMAIN job[w].batch
        BY <4>1
      <4>3. QED
        BY <2>1, <3>5, <4>2 DEF EmptyPages, EmptyPage, Content
    <3>4. QED
      BY <2>1, <2>3, <2>a, <3>2, <3>3, WriteMoves DEF Plain
  <2>4. QED
    BY <1>2, <2>2, <2>3, RootInserted
<1>3. CASE Verify(w)
  <2> DEFINE o == seen[w].id
             x == Verified(View(w)[o], ScanOf[w])
  <2>1. table' = table /\ Advance(w) /\ phase[w] \in InTx /\ phase[w] # "commit"
        /\ pend' = [pend EXCEPT ![w][o] = x]
    BY <1>3 DEF Verify, InTx
  <2>a. OthersKeep(w) /\ job' = job /\ SeenAsWas(w)' /\ Done(w) \subseteq Done(w)'
    BY <1>0, <2>1, AdvanceDone
  <2>2. o \in RowId /\ View(w)[o] \in Row /\ View(w)[o] # Absent
    BY <1>0, <1>3, ViewTypes DEF SeenAt, Verify, Of
  <2>3. /\ x \in Row /\ x.key = View(w)[o].key /\ x.content = View(w)[o].content
        /\ x.prev = View(w)[o].prev /\ ~x.del /\ ~x.ref
    BY <2>2, ConstantsAssumption DEF Verified, Row
  <2>4. job[w].kind # "archive" /\ Lifted(x) /\ Plain(x)
    BY <1>0, <1>3, <2>3 DEF Verify, ComparedAt, Lifted, Plain
  <2> HIDE DEF o, x
  <2>5. QED
    BY <2>1, <2>2, <2>3, <2>4, <2>a, WriteMoves
<1>4. CASE Supersede(w)
  <2> DEFINE o == seen[w].id
  <2>1. o \in RowId /\ View(w)[o] \in Row /\ View(w)[o] # Absent
    BY <1>0, <1>4, ViewTypes DEF SeenAt, Supersede, Of
  <2> DEFINE n == fresh[w]
  <2>2. n \in RowId /\ pend' = [pend EXCEPT ![w][o] = [View(w)[o] EXCEPT !.sup = n]]
    BY <1>0, <1>4 DEF Supersede, FreshAt, OwnId
  <2> DEFINE x == [View(w)[o] EXCEPT !.sup = n]
  <2>3. /\ x \in Row /\ x.key = View(w)[o].key /\ x.content = View(w)[o].content
        /\ x.prev = View(w)[o].prev /\ SameFlags(x, View(w)[o]) /\ Plain(x)
    <3>1. /\ x \in Row /\ x.key = View(w)[o].key /\ x.content = View(w)[o].content
          /\ x.prev = View(w)[o].prev /\ x.del = View(w)[o].del /\ x.ref = View(w)[o].ref
      BY <2>1, <2>2, ConstantsAssumption DEF Row, RowId
    <3>2. QED
      BY <1>p, <2>1, <3>1 DEF SameFlags, Plain
  <2>4. /\ table' = table /\ OthersKeep(w) /\ job' = job /\ item' = item /\ seen' = seen
        /\ phase[w] = "supersede" /\ phase'[w] = "split"
    BY <1>0, <1>4 DEF Supersede, OthersKeep, TypeOK
  <2>5. View(w)'[o] = x
    BY <1>0, <2>1, <2>2, <2>3, RowPresent DEF View, TypeOK
  <2> HIDE DEF x
  <2>6. pend' = [pend EXCEPT ![w][o] = x]
    BY <2>2 DEF x
  <2>7. SeenAsWas(w)'
    <3>1. View(w)[o].content = seen[w].row.content
      BY <1>0, <2>4 DEF SeenAsWas
    <3>2. QED
      BY <2>3, <2>4, <2>5, <3>1 DEF SeenAsWas
  <2>9. Done(w) \subseteq Done(w)'
    BY <2>4 DEF Done
  <2> HIDE DEF o
  <2>8. QED
    BY <2>1, <2>3, <2>4, <2>6, <2>7, <2>9, WriteMoves
<1>5. CASE InsertVersion(w)
  <2> DEFINE n == fresh[w]
             x == VersionRow(w)
             o == seen[w].id
  <2>1. table' = table /\ phase[w] \in InTx /\ phase[w] = "split" /\ Splitting(w)
    BY <1>5 DEF InsertVersion, InTx, Splitting
  <2>2. CASE Return(w)
    <3>1. OthersKeep(w) /\ pend' = [pend EXCEPT ![w] = NoPend] /\ phase'[w] \notin InTx
      BY <1>0, <2>1, <2>2, RollbackOK
    <3>2. SeenAsWas(w)'
      BY <3>1 DEF SeenAsWas, InTx
    <3>3. QED
      BY <2>1, <3>1, <3>2, StillMoves
  <2>3. CASE Advance(w) /\ pend' = [pend EXCEPT ![w][n] = x]
    <3>1. n \in RowId /\ o \in RowId /\ View(w)[o] # Absent /\ View(w)[n] = Absent
      BY <1>0, <2>1 DEF SeenAt, FreshAt, OwnId, View, RowId, Of
    <3>2. seen[w].row \in Row /\ seen[w].row.key = Key(w)
          /\ View(w)[o].content = seen[w].row.content
      BY <1>0, <2>1 DEF SeenAt, SeenAsWas
    <3>3. Key(w) \in Keys /\ Content(w) \in Contents
      BY <1>0, <2>1, ItemType DEF ControlAt
    <3>4. o \in 0..MaxRows /\ NoRow \in 0..MaxRows /\ ScanOf[w] \in Scans /\ o # NoRow
      BY <3>1, ConstantsAssumption DEF RowId, NoRow
    <3>5. /\ x \in Row /\ x.prev = o /\ ~x.ref /\ x.key = Key(w)
          /\ x.del => x.content = seen[w].row.content
      <4>1. CASE job[w].kind = "archive"
        <5>1. x = [seen[w].row EXCEPT !.prev = o, !.sup = NoRow, !.del = TRUE, !.ref = FALSE]
          BY <4>1 DEF VersionRow
        <5> HIDE DEF x, o
        <5>2. QED
          BY <3>2, <3>4, <4>1, <5>1 DEF Row
      <4>2. CASE job[w].kind # "archive"
        <5>1. x = [key |-> Key(w), content |-> Content(w), prev |-> o,
                   sup |-> NoRow, disc |-> seen[w].row.disc, ver |-> ScanOf[w],
                   del |-> FALSE, ref |-> FALSE]
          BY <4>2 DEF VersionRow
        <5>2. seen[w].row.disc \in Scans
          BY <3>2 DEF Row
        <5> HIDE DEF x, o
        <5>3. QED
          BY <3>3, <3>4, <4>2, <5>1, <5>2 DEF Row
      <4>3. QED
        BY <4>1, <4>2
    <3>a. /\ OthersKeep(w) /\ job' = job /\ SeenAsWas(w)' /\ Done(w) \subseteq Done(w)'
          /\ \E i \in Done(w)' : job[w].batch[i].key = Key(w)
          /\ \A i \in Done(w) : job[w].batch[i].key # Key(w)
      BY <1>0, <2>1, <2>3, AdvanceDone
    <3>6. Plain(x)
      BY <3>5 DEF Plain
    <3> HIDE DEF n, x, o
    <3>7. QED
      BY <2>1, <2>3, <3>1, <3>2, <3>4, <3>5, <3>6, <3>a, WriteMoves
  <2>4. QED
    BY <1>5, <2>2, <2>3 DEF InsertVersion
<1>6. QED
  BY <1>2, <1>3, <1>4, <1>5

\* Every step keeps the invariant about moves.
LEMMA NextMoves ==
    ASSUME NamesOnce, IInv, PayloadInv, EmptyPages, MoveInv, [Next]_vars
    PROVE  MoveInv'
<1>0. TypeOK
  BY DEF IInv
<1>1. ASSUME NEW w \in Writers, Commit(w) \/ CommitAckLost(w)
      PROVE  MoveInv'
  <2>1. phase[w] = "commit" /\ table' = View(w) /\ ControlAt(w)
    BY <1>1 DEF Commit, CommitAckLost, IInv, ControlOK
  <2>2. OthersKeep(w) /\ pend' = [pend EXCEPT ![w] = NoPend] /\ phase'[w] \notin InTx
    <3>1. CASE RetryOrGiveUp(w) \/ Return(w)
      BY <1>0, <2>1, <3>1, RollbackOK
    <3>2. CASE Leave(w, "publish")
      BY <1>0, <2>1, <3>2, LeaveOK
    <3>3. QED
      BY <1>1, <3>1, <3>2 DEF Commit, CommitAckLost
  <2>3. QED
    BY <2>1, <2>2, CommitMoves
<1>2. CASE UNCHANGED vars \/ \E w \in Writers : DrawId(w)
  <2>1. UNCHANGED <<table, pend, phase, job, item, seen>>
    BY <1>2, DrawKeeps DEF vars
  <2>2. \A u \in Writers : /\ View(u)' = View(u) /\ Done(u)' = Done(u)
                           /\ SeenAsWas(u)' <=> SeenAsWas(u)
    BY <2>1 DEF View, Done, SeenAsWas
  <2>3. \A u \in Writers : \A r \in RowId :
           (MoveAt(u, r)' <=> MoveAt(u, r)) /\ (Inserted(u, r)' <=> Inserted(u, r))
    BY <2>1, <2>2 DEF MoveAt, Inserted
  <2>4. \A u \in Writers : InsertedOnce(u)' <=> InsertedOnce(u)
    BY <2>1, <2>2, <2>3 DEF InsertedOnce
  <2>5. QED
    BY <2>1, <2>2, <2>3, <2>4 DEF MoveInv, MovesAt
<1>3. QED
  BY <1>1, <1>2, QuietMoves, StatementMoves, RestoreMoves, Zenon DEF Next, Step

\* Commits are made of moves throughout.
LEMMA MoveInvariance == ASSUME NamesOnce PROVE Spec => []MoveInv
<1>1. Init => MoveInv
  BY DEF Init, NoPend, MoveInv, MovesAt, InsertedOnce, Inserted, SeenAsWas
<1>2. IInv /\ PayloadInv /\ EmptyPages /\ MoveInv /\ [Next]_vars => MoveInv'
  BY NextMoves
<1>3. QED
  BY <1>1, <1>2, Invariance, PayloadInvariance, PagesInvariance, PTL DEF Spec

-----------------------------------------------------------------------------
(* The whole invariant. *)

\* The whole invariant of the store: sound chains in every writer's view, tombstones
\* apart, payloads as the lookups compared them, counters that account for the rows, and
\* one change of a key for each page that names it once.
THEOREM StoreInvariance == Spec => []StoreInv
<1> DEFINE Parts == IInv /\ TombInv /\ PayloadInv /\ CountInv /\ EmptyPages
<1>1. Spec => []Parts
  BY Invariance, TombInvariance, PayloadInvariance, CountInvariance, PagesInvariance, PTL
<1>2. CASE NamesOnce
  <2>1. Spec => []MoveInv
    BY <1>2, MoveInvariance
  <2>2. Parts /\ MoveInv => StoreInv
    BY DEF StoreInv
  <2>3. QED
    BY <1>1, <2>1, <2>2, PTL
<1>3. CASE ~NamesOnce
  <2>1. Parts => StoreInv
    BY <1>3 DEF StoreInv
  <2>2. QED
    BY <1>1, <2>1, PTL
<1>4. QED
  BY <1>2, <1>3

-----------------------------------------------------------------------------
(* Rows in id order. *)

LEMMA PlaceIn ==
    ASSUME NEW R \in SUBSET RowId, NEW r \in R
    PROVE  Place(R, r) \in 1 .. Cardinality(R)
<1> DEFINE U == {s \in R : s <= r}
<1>1. IsFiniteSet(R) /\ Cardinality(R) \in Nat /\ IsFiniteSet(U) /\ Cardinality(U) \in Nat
  BY RowsFinite
<1>2. Cardinality(U) <= Cardinality(R)
  BY <1>1, FS_Subset
<1>3. Cardinality(U) # 0
  <2>1. r \in U
    BY DEF RowId
  <2>2. QED
    BY <1>1, <2>1, FS_EmptySet
<1> HIDE DEF U
<1>4. Cardinality(U) \in 1 .. Cardinality(R)
  BY <1>1, <1>2, <1>3
<1>5. QED
  BY <1>4 DEF U, Place

\* A higher id comes later.
LEMMA PlaceGrows ==
    ASSUME NEW R \in SUBSET RowId, NEW r \in R, NEW s \in R, r < s
    PROVE  Place(R, r) < Place(R, s)
<1> DEFINE U == {q \in R : q <= r}
           V == {q \in R : q <= s}
<1>1. /\ IsFiniteSet(U) /\ Cardinality(U) \in Nat
      /\ IsFiniteSet(V) /\ Cardinality(V) \in Nat
  BY RowsFinite
<1>2. U \in SUBSET V /\ U # V
  <2>1. \A q \in R : q <= r => q <= s
    BY DEF RowId
  <2>2. s \in V /\ s \notin U
    BY DEF RowId
  <2>3. U \subseteq V
    BY <2>1
  <2> HIDE DEF U, V
  <2>4. QED
    BY <2>2, <2>3
<1> HIDE DEF U, V
<1>3. Cardinality(U) <= Cardinality(V) /\ Cardinality(U) # Cardinality(V)
  BY <1>1, <1>2, FS_Subset
<1>4. Cardinality(U) < Cardinality(V)
  BY <1>1, <1>3
<1>5. QED
  BY <1>4 DEF U, V, Place

\* Every place is taken by one row.
LEMMA PlaceOnto ==
    ASSUME NEW R \in SUBSET RowId, NEW i \in 1 .. Cardinality(R)
    PROVE  \E r \in R : Place(R, r) = i
<1> DEFINE N == 1 .. Cardinality(R)
           f == [r \in R |-> Place(R, r)]
<1>1. IsFiniteSet(R) /\ Cardinality(R) \in Nat
  BY RowsFinite
<1>2. IsFiniteSet(N) /\ Cardinality(N) = Cardinality(R)
  BY <1>1, FS_Interval, SMTT(30)
<1>3. f \in [R -> N]
  BY PlaceIn
<1>4. \A r, s \in R : f[r] = f[s] => r = s
  <2> SUFFICES ASSUME NEW r \in R, NEW s \in R, Place(R, r) = Place(R, s), r # s
               PROVE  FALSE
    OBVIOUS
  <2>1. r < s \/ s < r
    BY DEF RowId
  <2>2. Place(R, r) \in Nat
    BY PlaceIn
  <2>3. Place(R, r) < Place(R, s) \/ Place(R, s) < Place(R, r)
    BY <2>1, PlaceGrows
  <2>4. QED
    BY <2>2, <2>3
<1> HIDE DEF f, N
<1>5. f \in Injection(R, N)
  BY <1>3, <1>4 DEF Injection, IsInjective
<1>6. f \in Surjection(R, N)
  BY <1>2, <1>5, FS_Injection
<1>7. \E r \in R : f[r] = i
  BY <1>6 DEF Surjection, N
<1>8. QED
  BY <1>7 DEF f

\* The rows in order are the rows, each at its place.
LEMMA InOrder ==
    ASSUME NEW R \in SUBSET RowId
    PROVE  /\ InIdOrder(R) \in [1 .. Cardinality(R) -> R]
           /\ \A r \in R : InIdOrder(R)[Place(R, r)] = r
<1>1. ASSUME NEW i \in 1 .. Cardinality(R)
      PROVE  InIdOrder(R)[i] \in R /\ Place(R, InIdOrder(R)[i]) = i
  <2>1. InIdOrder(R)[i] = CHOOSE r \in R : Place(R, r) = i
    BY DEF InIdOrder
  <2>2. QED
    BY <2>1, PlaceOnto
<1>2. InIdOrder(R) \in [1 .. Cardinality(R) -> R]
  BY <1>1 DEF InIdOrder
<1>3. ASSUME NEW r \in R PROVE InIdOrder(R)[Place(R, r)] = r
  <2> DEFINE s == InIdOrder(R)[Place(R, r)]
  <2>1. Place(R, r) \in 1 .. Cardinality(R)
    BY PlaceIn
  <2>2. s \in R /\ Place(R, s) = Place(R, r)
    BY <1>1, <2>1
  <2> HIDE DEF s
  <2>3. s < r \/ r < s \/ r = s
    BY <2>2 DEF RowId
  <2>4. Place(R, r) \in Nat
    BY <2>1
  <2>5. s < r => Place(R, s) < Place(R, r)
    BY <2>2, PlaceGrows
  <2>6. r < s => Place(R, r) < Place(R, s)
    BY <2>2, PlaceGrows
  <2>7. s = r
    BY <2>2, <2>3, <2>4, <2>5, <2>6
  <2>8. QED
    BY <2>7 DEF s
<1>4. QED
  BY <1>2, <1>3

\* The highest row comes last.
LEMMA LastInOrder ==
    ASSUME NEW R \in SUBSET RowId, NEW h \in R, \A s \in R : s <= h
    PROVE  Cardinality(R) \in Nat \ {0} /\ InIdOrder(R)[Cardinality(R)] = h
<1>1. {s \in R : s <= h} = R
  OBVIOUS
<1>2. Place(R, h) = Cardinality(R)
  BY <1>1 DEF Place
<1>3. Place(R, h) \in 1 .. Cardinality(R) /\ Cardinality(R) \in Nat
  BY PlaceIn, RowsFinite
<1>4. QED
  BY <1>2, <1>3, InOrder

\* A row above all others is put at the end.
LEMMA OneMoreInOrder ==
    ASSUME NEW R \in SUBSET RowId, NEW n \in RowId, \A s \in R : s < n
    PROVE  /\ Cardinality(R) \in Nat /\ Cardinality(R \cup {n}) = Cardinality(R) + 1
           /\ \A i \in 1 .. Cardinality(R) : InIdOrder(R \cup {n})[i] = InIdOrder(R)[i]
           /\ InIdOrder(R \cup {n})[Cardinality(R) + 1] = n
<1> DEFINE S == R \cup {n}
<1>0. S \in SUBSET RowId /\ R \subseteq S /\ n \in S
  OBVIOUS
<1>1. IsFiniteSet(R) /\ Cardinality(R) \in Nat
  BY RowsFinite
<1>2. n \notin R
  BY DEF RowId
<1>3. Cardinality(S) = Cardinality(R) + 1
  BY <1>1, <1>2, FS_AddElement
<1>4. ASSUME NEW r \in R PROVE Place(S, r) = Place(R, r)
  <2>1. {s \in S : s <= r} = {s \in R : s <= r}
    BY DEF RowId
  <2>2. QED
    BY <2>1 DEF Place
<1>5. ASSUME NEW i \in 1 .. Cardinality(R) PROVE InIdOrder(S)[i] = InIdOrder(R)[i]
  <2>1. PICK r \in R : Place(R, r) = i
    BY PlaceOnto
  <2>2. InIdOrder(R)[i] = r
    BY <2>1, InOrder
  <2>3. Place(S, r) = i
    BY <1>4, <2>1
  <2> HIDE DEF S
  <2>4. InIdOrder(S)[i] = r
    BY <1>0, <2>3, InOrder
  <2>5. QED
    BY <2>2, <2>4
<1>6. InIdOrder(S)[Cardinality(R) + 1] = n
  <2>1. \A s \in S : s <= n
    BY DEF RowId
  <2> HIDE DEF S
  <2>2. QED
    BY <1>0, <1>3, <2>1, LastInOrder
<1>7. QED
  BY <1>1, <1>3, <1>5, <1>6

Table == [RowId -> Row \cup {Absent}]

\* A history is a sequence of contents, one for each row, the highest row's last.
LEMMA HistoryType ==
    ASSUME NEW x \in Table, NEW k
    PROVE  /\ RowsOf(x, k) \in SUBSET RowId
           /\ HistoryIn(x, k) \in Seq(Contents)
           /\ Len(HistoryIn(x, k)) = Cardinality(RowsOf(x, k))
           /\ \A h \in RowsOf(x, k) : (\A s \in RowsOf(x, k) : s <= h)
                 => /\ HistoryIn(x, k) # <<>>
                    /\ HistoryIn(x, k)[Len(HistoryIn(x, k))] = x[h].content
<1> DEFINE R == RowsOf(x, k)
           q == InIdOrder(R)
           N == Cardinality(R)
<1>1. R \in SUBSET RowId /\ \A r \in R : x[r].content \in Contents
  BY DEF RowsOf, Table, Row
<1> HIDE DEF R
<1>2. N \in Nat /\ q \in [1 .. N -> R] /\ DOMAIN q = 1 .. N
  BY <1>1, RowsFinite, InOrder
<1>3. HistoryIn(x, k) = [i \in 1 .. N |-> x[q[i]].content]
  BY <1>2 DEF HistoryIn, GetResourceVersions, R
<1>4. \A h \in R : (\A s \in R : s <= h) => N # 0 /\ q[N] = h
  BY <1>1, LastInOrder
<1> HIDE DEF q, N
<1>5. HistoryIn(x, k) \in [1 .. N -> Contents]
  BY <1>1, <1>2, <1>3
<1>6. HistoryIn(x, k) \in Seq(Contents) /\ Len(HistoryIn(x, k)) = N
  BY <1>2, <1>5
<1>7. ASSUME NEW h \in R, \A s \in R : s <= h
      PROVE  HistoryIn(x, k) # <<>> /\ HistoryIn(x, k)[N] = x[h].content
  <2>1. N # 0 /\ q[N] = h
    BY <1>4, <1>7
  <2>2. HistoryIn(x, k)[N] = x[q[N]].content
    BY <1>2, <1>3, <2>1
  <2>3. HistoryIn(x, k) # <<>>
    BY <1>2, <1>6, <2>1
  <2>4. QED
    BY <2>1, <2>2, <2>3
<1>8. QED
  BY <1>1, <1>6, <1>7 DEF R, N

\* A key without rows has no history.
LEMMA NoHistory ==
    ASSUME NEW x \in Table, NEW k, RowsOf(x, k) = {}
    PROVE  HistoryIn(x, k) = <<>>
<1>1. HistoryIn(x, k) \in Seq(Contents) /\ Len(HistoryIn(x, k)) = 0
  BY HistoryType, FS_EmptySet
<1>2. QED
  BY <1>1

\* The same rows with the same contents are the same history.
LEMMA SameHistory ==
    ASSUME NEW x \in Table, NEW y \in Table, NEW k, RowsOf(y, k) = RowsOf(x, k),
           \A r \in RowsOf(x, k) : y[r].content = x[r].content
    PROVE  HistoryIn(y, k) = HistoryIn(x, k)
<1> DEFINE R == RowsOf(x, k)
           q == InIdOrder(R)
<1>1. R \in SUBSET RowId
  BY DEF RowsOf
<1>2. q \in [DOMAIN q -> R]
  BY <1>1, InOrder
<1>3. GetResourceVersions(x, k) = q /\ GetResourceVersions(y, k) = q
  BY DEF GetResourceVersions
<1> HIDE DEF q
<1>4. \A i \in DOMAIN q : y[q[i]].content = x[q[i]].content
  BY <1>2
<1>5. QED
  BY <1>3, <1>4 DEF HistoryIn

\* A row above the others adds its content to the history.
LEMMA LongerHistory ==
    ASSUME NEW x \in Table, NEW y \in Table, NEW k, NEW n \in RowId,
           RowsOf(y, k) = RowsOf(x, k) \cup {n}, \A s \in RowsOf(x, k) : s < n,
           \A r \in RowsOf(x, k) : y[r].content = x[r].content
    PROVE  HistoryIn(y, k) = Append(HistoryIn(x, k), y[n].content)
<1> DEFINE R == RowsOf(x, k)
           q == InIdOrder(R)
           p == InIdOrder(R \cup {n})
           N == Cardinality(R)
<1>1. R \in SUBSET RowId
  BY DEF RowsOf
<1> HIDE DEF R
<1>2. /\ N \in Nat /\ Cardinality(R \cup {n}) = N + 1
      /\ \A i \in 1 .. N : p[i] = q[i]
      /\ p[N + 1] = n
  BY <1>1, OneMoreInOrder DEF R
<1>3. q \in [1 .. N -> R] /\ DOMAIN p = 1 .. N + 1
  BY <1>1, <1>2, InOrder DEF InIdOrder
<1> HIDE DEF N, p, q
<1>4. /\ HistoryIn(x, k) = [i \in 1 .. N |-> x[q[i]].content]
      /\ HistoryIn(y, k) = [i \in 1 .. N + 1 |-> y[p[i]].content]
  BY <1>3 DEF HistoryIn, GetResourceVersions, R, p, q
<1>5. \A i \in 1 .. N : y[p[i]].content = x[q[i]].content
  BY <1>2, <1>3 DEF R
<1>6. HistoryIn(x, k) \in Seq(Contents) /\ Len(HistoryIn(x, k)) = N
  BY HistoryType DEF R, N
<1>7. y[n].content \in Contents
  BY DEF Table, Row, RowsOf
<1> DEFINE c == y[n].content
           h == HistoryIn(x, k)
<1>8. HistoryIn(y, k) = [i \in 1 .. N + 1 |-> IF i = N + 1 THEN c ELSE h[i]]
  BY <1>2, <1>4, <1>5
<1> HIDE DEF c, h
<1>9. Append(h, c) = [i \in 1 .. N + 1 |-> IF i = N + 1 THEN c ELSE h[i]]
  BY <1>2, <1>6, <1>7 DEF c, h
<1>10. QED
  BY <1>8, <1>9 DEF c, h

-----------------------------------------------------------------------------
(* Moves. *)

\* From history h and standing s to g and t by one legal change of the key, or none.
Moved(h, s, g, t) ==
    \/ s = "absent" /\ t = "live" /\ \E c \in Contents : g = <<c>>
    \/ s = "absent" /\ t = "placeholder" /\ g = <<Empty>>
    \/ s # "absent" /\ t = "live" /\ g = h
    \/ s # "absent" /\ t = "live" /\ \E c \in Contents \ {h[Len(h)]} : g = Append(h, c)
    \/ s \in {"live", "placeholder"} /\ t = "archived" /\ g = Append(h, h[Len(h)])
    \/ g = h /\ t = s

MoveOf(x, y, k) == Moved(HistoryIn(x, k), StandingIn(x, k), HistoryIn(y, k), StandingIn(y, k))

\* The current row of a sound chain is its highest, and says how the key stands.
LEMMA CurrentIs ==
    ASSUME NEW x \in Table, Sound(x), NEW k \in Keys, NEW h \in RowId, IsCurrent(x, h, k)
    PROVE  /\ h \in RowsOf(x, k) /\ \A s \in RowsOf(x, k) : s <= h
           /\ StandingIn(x, k) = StandingOf(x[h])
<1>1. ASSUME NEW r \in RowId, IsCurrent(x, r, k)
      PROVE  r \in RowsOf(x, k) /\ \A s \in RowsOf(x, k) : s <= r
  <2>1. Of(x, r, k) /\ x[r].sup = NoRow
    BY <1>1 DEF IsCurrent, Of
  <2>2. \A s \in RowId : Of(x, s, k) => s <= r
    BY <2>1 DEF Sound, SoundChain
  <2>3. QED
    BY <2>1, <2>2 DEF RowsOf, Of
<1>2. \A r \in RowId : IsCurrent(x, r, k) => r = h
  <2> SUFFICES ASSUME NEW r \in RowId, IsCurrent(x, r, k) PROVE r = h
    OBVIOUS
  <2>1. r <= h /\ h <= r
    BY <1>1
  <2>2. QED
    BY <2>1 DEF RowId
<1>3. (CHOOSE r \in RowId : IsCurrent(x, r, k)) = h
  BY <1>2
<1>4. QED
  BY <1>1, <1>3 DEF StandingIn, Occupied

\* A key that has no current row has none.
LEMMA NoRows ==
    ASSUME NEW x \in Table, Sound(x), NEW k \in Keys
    PROVE  /\ RowsOf(x, k) = {} <=> ~Occupied(x, k)
           /\ StandingIn(x, k) = "absent" <=> ~Occupied(x, k)
<1>1. \A r \in RowsOf(x, k) : Occupied(x, k)
  BY DEF RowsOf, Sound, SoundChain, Of
<1>2. Occupied(x, k) => RowsOf(x, k) # {}
  BY DEF Occupied, IsCurrent, RowsOf
<1>3. Occupied(x, k) => StandingIn(x, k) # "absent"
  BY DEF StandingIn, StandingOf
<1>4. ~Occupied(x, k) => StandingIn(x, k) = "absent"
  BY DEF StandingIn
<1>5. QED
  BY <1>1, <1>2, <1>3, <1>4

\* No new row: the key is kept or confirmed.
LEMMA KeptMove ==
    ASSUME NEW x \in Table, NEW y \in Table, Sound(x), Sound(y), NEW k \in Keys,
           RowsOf(y, k) = RowsOf(x, k),
           \A r \in RowsOf(x, k) : /\ y[r].content = x[r].content
                                   /\ SameFlags(y[r], x[r]) \/ Lifted(y[r])
    PROVE  MoveOf(x, y, k)
<1>1. HistoryIn(y, k) = HistoryIn(x, k)
  BY SameHistory
<1>2. CASE ~Occupied(x, k)
  <2>1. StandingIn(x, k) = "absent" /\ StandingIn(y, k) = "absent"
    BY <1>2, NoRows
  <2>2. QED
    BY <1>1, <2>1 DEF MoveOf, Moved
<1>3. CASE Occupied(x, k)
  <2>1. PICK h \in RowId : IsCurrent(x, h, k)
    BY <1>3 DEF Occupied
  <2>2. StandingIn(x, k) # "absent" /\ Occupied(y, k)
    BY <1>3, NoRows
  <2>3. PICK g \in RowId : IsCurrent(y, g, k)
    BY <2>2 DEF Occupied
  <2>4. h \in RowsOf(x, k) /\ g \in RowsOf(x, k) /\ h <= g /\ g <= h
    BY <2>1, <2>3, CurrentIs
  <2>5. g = h
    BY <2>4 DEF RowId
  <2>6. StandingIn(x, k) = StandingOf(x[h]) /\ StandingIn(y, k) = StandingOf(y[h])
    BY <2>1, <2>3, <2>5, CurrentIs
  <2>7. CASE SameFlags(y[h], x[h])
    <3>1. StandingIn(y, k) = StandingIn(x, k)
      BY <2>6, <2>7 DEF StandingOf, SameFlags
    <3>2. QED
      BY <1>1, <3>1 DEF MoveOf, Moved
  <2>8. CASE Lifted(y[h])
    <3>1. StandingIn(y, k) = "live"
      BY <2>6, <2>8 DEF StandingOf, Lifted
    <3>2. QED
      BY <1>1, <2>2, <3>1 DEF MoveOf, Moved
  <2>9. QED
    BY <2>4, <2>7, <2>8
<1>4. QED
  BY <1>2, <1>3

\* The first row of a key: it is discovered or referred to.
LEMMA FirstMove ==
    ASSUME NEW x \in Table, NEW y \in Table, Sound(x), Sound(y), NEW k \in Keys,
           NEW n \in RowId, ~Occupied(x, k), RowsOf(y, k) = {n},
           ~y[n].del, y[n].ref => y[n].content = Empty
    PROVE  MoveOf(x, y, k)
<1>1. StandingIn(x, k) = "absent" /\ RowsOf(x, k) = {} /\ Occupied(y, k)
  BY NoRows
<1>2. PICK g \in RowId : IsCurrent(y, g, k)
  BY <1>1 DEF Occupied
<1>3. g = n /\ StandingIn(y, k) = StandingOf(y[n])
  BY <1>2, CurrentIs
<1>4. HistoryIn(y, k) = <<y[n].content>>
  <2>1. HistoryIn(x, k) = <<>>
    BY <1>1, NoHistory
  <2>2. RowsOf(y, k) = RowsOf(x, k) \cup {n}
    BY <1>1
  <2>3. HistoryIn(y, k) = Append(HistoryIn(x, k), y[n].content)
    BY <1>1, <2>2, LongerHistory
  <2>4. QED
    BY <2>1, <2>3
<1>5. y[n].content \in Contents
  BY DEF Table, Row, RowsOf
<1>6. CASE y[n].ref
  <2>1. StandingIn(y, k) = "placeholder" /\ HistoryIn(y, k) = <<Empty>>
    BY <1>3, <1>4, <1>6 DEF StandingOf
  <2>2. QED
    BY <1>1, <2>1 DEF MoveOf, Moved
<1>7. CASE ~y[n].ref
  <2>1. StandingIn(y, k) = "live"
    BY <1>3, <1>7 DEF StandingOf
  <2>2. QED
    BY <1>1, <1>4, <1>5, <2>1 DEF MoveOf, Moved
<1>8. QED
  BY <1>6, <1>7

\* A row after the current one: the key changes or is archived.
LEMMA NextMove ==
    ASSUME NEW x \in Table, NEW y \in Table, Sound(x), Sound(y), NEW k \in Keys,
           Occupied(x, k), NEW n \in RowId, n \notin RowsOf(x, k),
           RowsOf(y, k) = RowsOf(x, k) \cup {n},
           \A r \in RowsOf(x, k) : y[r].content = x[r].content /\ y[r].prev = x[r].prev,
           y[n].prev # NoRow, ~y[n].ref,
           y[n].del => y[n].content = y[y[n].prev].content /\ ~x[y[n].prev].del,
           ~y[n].del => y[n].content # y[y[n].prev].content
    PROVE  MoveOf(x, y, k)
<1>1. PICK h \in RowId : IsCurrent(x, h, k)
  BY DEF Occupied
<1>2. /\ h \in RowsOf(x, k) /\ \A s \in RowsOf(x, k) : s <= h
      /\ StandingIn(x, k) = StandingOf(x[h])
  BY <1>1, CurrentIs
<1>3. PICK g \in RowId : IsCurrent(y, g, k)
  BY NoRows DEF Occupied
<1>4. /\ g \in RowsOf(y, k) /\ \A s \in RowsOf(y, k) : s <= g
      /\ StandingIn(y, k) = StandingOf(y[g])
  BY <1>3, CurrentIs
<1>5. \A r \in RowsOf(x, k) : r \in RowId /\ Of(x, r, k)
  BY DEF RowsOf, Of
<1>6. \A r \in RowsOf(y, k) :
         r \in RowId /\ Of(y, r, k) /\ LinkedUp(y, r, k) /\ LinkedDown(y, r, k)
  BY DEF RowsOf, Of, Sound, SoundChain
<1>7. g = n
  <2> SUFFICES ASSUME g # n PROVE FALSE
    OBVIOUS
  <2>1. g \in RowsOf(x, k) /\ n <= g /\ n # g
    BY <1>4
  <2>2. y[n].sup # NoRow
    <3>1. y[n].sup = NoRow => IsCurrent(y, n, k)
      BY <1>6 DEF IsCurrent, Of
    <3>2. IsCurrent(y, n, k) => g <= n
      BY <1>4, CurrentIs
    <3>3. QED
      BY <2>1, <3>1, <3>2 DEF RowId
  <2> DEFINE t == y[n].sup
  <2>3. Of(y, t, k) /\ y[t].prev = n
    BY <1>6, <2>2 DEF LinkedUp
  <2>4. t \in RowId
    <3>1. y[n] \in Row
      BY <1>6 DEF Table, Of
    <3>2. QED
      BY <2>2, <3>1, LinkRange DEF Row
  <2>5. t \in RowsOf(y, k)
    BY <2>3, <2>4 DEF RowsOf, Of
  <2>6. n < t /\ t # n
    <3>1. LinkedDown(y, t, k) /\ n # NoRow
      BY <1>6, <2>5 DEF RowId, NoRow
    <3>2. QED
      BY <2>3, <2>4, <3>1 DEF LinkedDown, RowId
  <2>7. t \in RowsOf(x, k) /\ x[t].prev = n
    BY <2>3, <2>5, <2>6
  <2>8. LinkedDown(x, t, k) /\ n # NoRow
    BY <1>5, <2>7 DEF Sound, SoundChain, RowId, NoRow
  <2>9. Of(x, n, k)
    BY <2>7, <2>8 DEF LinkedDown
  <2>10. QED
    BY <2>9 DEF RowsOf, Of
<1>8. \A s \in RowsOf(x, k) : s < n
  BY <1>4, <1>5, <1>7 DEF RowId
<1>9. y[n].prev = h
  <2> DEFINE p == y[n].prev
  <2>1. p < n /\ Of(y, p, k) /\ NoneBetween(y, k, p, n)
    BY <1>6 DEF LinkedDown
  <2>2. p \in RowId
    <3>1. y[n] \in Row
      BY <1>6 DEF Table, Of
    <3>2. QED
      BY <3>1, LinkRange DEF Row
  <2>3. p \in RowsOf(y, k)
    BY <2>1, <2>2 DEF RowsOf, Of
  <2>4. p \in RowsOf(x, k)
    BY <2>1, <2>2, <2>3 DEF RowId
  <2>5. p <= h /\ h < n
    BY <1>2, <1>8, <2>4
  <2>6. ~(p < h)
    <3>1. Of(y, h, k)
      BY <1>2, <1>6
    <3>2. QED
      BY <2>1, <2>5, <3>1 DEF NoneBetween
  <2>7. QED
    BY <2>2, <2>5, <2>6 DEF RowId
<1>10. y[h].content = x[h].content /\ y[n].content \in Contents
  BY <1>2 DEF Table, Row, RowsOf
<1> DEFINE a == HistoryIn(x, k)
<1>11. HistoryIn(y, k) = Append(a, y[n].content)
  BY <1>8, LongerHistory
<1>12. a[Len(a)] = x[h].content
  BY <1>2, HistoryType
<1>13. StandingIn(x, k) # "absent"
  BY NoRows
<1> HIDE DEF a
<1>14. CASE y[n].del
  <2>1. StandingIn(y, k) = "archived"
    BY <1>4, <1>7, <1>14 DEF StandingOf
  <2>2. StandingIn(x, k) \in {"live", "placeholder"}
    BY <1>2, <1>9, <1>14 DEF StandingOf
  <2>3. HistoryIn(y, k) = Append(a, a[Len(a)])
    BY <1>9, <1>10, <1>11, <1>12, <1>14
  <2>4. QED
    BY <2>1, <2>2, <2>3 DEF MoveOf, Moved, a
<1>15. CASE ~y[n].del
  <2>1. StandingIn(y, k) = "live"
    BY <1>4, <1>7, <1>15 DEF StandingOf
  <2>2. y[n].content \in Contents \ {a[Len(a)]}
    BY <1>9, <1>10, <1>12, <1>15
  <2>3. QED
    BY <1>11, <1>13, <2>1, <2>2 DEF MoveOf, Moved, a
<1>16. QED
  BY <1>14, <1>15

\* What a writer's view adds to the table: the rows it has inserted.
LEMMA ViewRows ==
    ASSUME IInv, NEW w \in Writers, ~Splitting(w), NEW k
    PROVE  /\ table \in Table /\ View(w) \in Table /\ Sound(table) /\ Sound(View(w))
           /\ RowsOf(View(w), k)
                = RowsOf(table, k) \cup {r \in RowId : Inserted(w, r) /\ pend[w][r].key = k}
           /\ \A r \in RowsOf(table, k) :
                View(w)[r].content = table[r].content /\ View(w)[r].prev = table[r].prev
<1>0. TypeOK /\ UpdatesKeep /\ Sound(table)
  BY DEF IInv
<1>1. table \in Table /\ View(w) \in Table /\ Sound(View(w))
  BY <1>0, ViewTypes DEF Table, TypeOK, IInv, ViewsSound
<1>2. \A r \in RowId : table[r] # Absent =>
         /\ View(w)[r] # Absent /\ View(w)[r].key = table[r].key
         /\ View(w)[r].content = table[r].content /\ View(w)[r].prev = table[r].prev
  BY <1>0 DEF UpdatesKeep, View
<1>3. \A r \in RowId : table[r] = Absent => View(w)[r] = pend[w][r]
  BY <1>0 DEF View, TypeOK
<1>4. RowsOf(View(w), k)
        = RowsOf(table, k) \cup {r \in RowId : Inserted(w, r) /\ pend[w][r].key = k}
  BY <1>2, <1>3 DEF RowsOf, Inserted
<1>5. QED
  BY <1>0, <1>1, <1>2, <1>4 DEF RowsOf

\* A commit moves every key by one legal change.
LEMMA CommitMove ==
    ASSUME IInv, TombInv, PayloadInv, MoveInv, NEW w \in Writers, ~Splitting(w), NEW k \in Keys
    PROVE  MoveOf(table, View(w), k)
<1> DEFINE V == View(w)
           New == {r \in RowId : Inserted(w, r) /\ pend[w][r].key = k}
<1>1. /\ table \in Table /\ V \in Table /\ Sound(table) /\ Sound(V)
      /\ RowsOf(V, k) = RowsOf(table, k) \cup New
      /\ \A r \in RowsOf(table, k) : V[r].content = table[r].content /\ V[r].prev = table[r].prev
  BY ViewRows
<1>2. MovesAt(w) /\ InsertedOnce(w) /\ PayloadAt(w) /\ TombstonesApart(V)
  BY DEF MoveInv, MovesAt, PayloadInv, TombInv
<1>3. \A r \in RowsOf(table, k) :
         SameFlags(V[r], table[r]) \/ (job[w].kind # "archive" /\ Lifted(V[r]))
  BY <1>2 DEF View, MovesAt, MoveAt, SameFlags, RowsOf
<1>4. CASE New = {}
  <2>1. RowsOf(V, k) = RowsOf(table, k)
    BY <1>1, <1>4
  <2> HIDE DEF V, New
  <2>2. QED
    BY <1>1, <1>3, <2>1, KeptMove DEF V
<1>5. ASSUME NEW n \in New PROVE MoveOf(table, V, k)
  <2>1. /\ n \in RowId /\ Inserted(w, n) /\ pend[w][n].key = k /\ V[n] = pend[w][n]
        /\ table[n] = Absent /\ n \notin RowsOf(table, k)
    BY <1>5 DEF Inserted, View, RowsOf
  <2>2. New = {n}
    BY <1>2, <2>1 DEF InsertedOnce
  <2>3. NewRowAt(w, n) /\ MoveAt(w, n)
    BY <1>2, <2>1 DEF PayloadAt, MovesAt, Inserted
  <2>4. RowsOf(V, k) = RowsOf(table, k) \cup {n}
    BY <1>1, <2>2
  <2>5. Of(V, n, k) /\ LinkedDown(V, n, k) /\ V[n] \in Row
    BY <1>1, <2>1 DEF Of, Inserted, Sound, SoundChain, Table
  <2>6. V[n].prev # NoRow
          => /\ V[n].prev \in RowId /\ V[n].prev < n /\ V[n].prev \in RowsOf(V, k)
    BY <2>5, LinkRange DEF LinkedDown, RowsOf, Of
  <2>7. V[n].prev # NoRow => V[n].prev \in RowsOf(table, k)
    BY <2>4, <2>6 DEF RowId
  <2> HIDE DEF V, New
  <2>8. CASE ~Occupied(table, k)
    <3>1. RowsOf(table, k) = {}
      BY <1>1, <2>8, NoRows
    <3>2. RowsOf(V, k) = {n} /\ V[n].prev = NoRow
      BY <2>4, <2>7, <3>1
    <3>3. ~V[n].del /\ (V[n].ref => V[n].content = Empty)
      BY <2>1, <2>3, <3>2 DEF MoveAt
    <3>4. QED
      BY <1>1, <2>1, <2>8, <3>2, <3>3, FirstMove
  <2>9. CASE Occupied(table, k)
    <3>1. V[n].prev # NoRow /\ ~V[n].ref /\ (V[n].del \/ V[n].content # V[V[n].prev].content)
          /\ (V[n].del => job[w].kind = "archive")
      BY <2>1, <2>3, <2>9 DEF NewRowAt, V
    <3>2. V[n].del => V[n].content = V[V[n].prev].content
      BY <2>1, <2>3, <3>1 DEF MoveAt, V
    <3>3. V[n].del => ~table[V[n].prev].del
      <4>1. V[n].del => ~V[V[n].prev].del
        BY <1>2, <2>1, <3>1 DEF TombstonesApart, Inserted
      <4>2. V[n].del => SameFlags(V[V[n].prev], table[V[n].prev])
        BY <1>3, <2>7, <3>1
      <4>3. QED
        BY <4>1, <4>2 DEF SameFlags
    <3>4. QED
      BY <1>1, <2>1, <2>4, <2>9, <3>1, <3>2, <3>3, NextMove
  <2>10. QED
    BY <2>8, <2>9
<1>6. QED
  BY <1>4, <1>5

\* A restore confirms its key and keeps the others.
LEMMA RestoreMove ==
    ASSUME IInv, IInv', MoveInv, NEW key \in Keys, Restore(key), NEW k \in Keys
    PROVE  MoveOf(table, table', k)
<1>0. TypeOK
  BY DEF IInv
<1>1. PICK h \in RowId :
         IsCurrent(table, h, key) /\ table[h].del /\ table' = [table EXCEPT ![h].del = FALSE]
  BY DEF Restore
<1>2. table[h] \in Row /\ table[h] # Absent
  BY <1>0, <1>1 DEF TypeOK, IsCurrent
<1>3. /\ table'[h] # Absent /\ table'[h].key = table[h].key
      /\ table'[h].content = table[h].content /\ ~table'[h].del
      /\ table'[h].ref = table[h].ref
      /\ \A r \in RowId \ {h} : table'[r] = table[r]
  <2>1. table'[h] = [table[h] EXCEPT !.del = FALSE]
    BY <1>0, <1>1 DEF TypeOK
  <2>2. [table[h] EXCEPT !.del = FALSE] \in Row
    BY <1>2 DEF Row
  <2>3. QED
    BY <1>0, <1>1, <1>2, <2>1, <2>2, RowPresent DEF Row, TypeOK
<1>4. ~table[h].ref
  BY <1>1, <1>2 DEF MoveInv, Plain
<1>5. RowsOf(table', k) = RowsOf(table, k)
  BY <1>2, <1>3 DEF RowsOf
<1>6. \A r \in RowsOf(table, k) :
         /\ table'[r].content = table[r].content
         /\ SameFlags(table'[r], table[r]) \/ Lifted(table'[r])
  BY <1>3, <1>4 DEF RowsOf, SameFlags, Lifted
<1>7. table \in Table /\ Sound(table)
  BY DEF IInv, TypeOK, Table
<1>8. table' \in Table /\ Sound(table')
  BY DEF IInv, TypeOK, Table
<1>9. QED
  BY <1>5, <1>6, <1>7, <1>8, KeptMove

\* Every step moves every key by one legal change or none.
LEMMA StepMoves ==
    ASSUME IInv, IInv', TombInv, PayloadInv, MoveInv, [Next]_vars, NEW k \in Keys
    PROVE  MoveOf(table, table', k)
<1>1. CASE table' = table
  BY <1>1 DEF MoveOf, Moved
<1>2. ASSUME NEW w \in Writers, phase[w] = "commit", table' = View(w)
      PROVE  MoveOf(table, table', k)
  BY <1>2, CommitMove DEF Splitting
<1>3. ASSUME NEW key \in Keys, Restore(key)
      PROVE  MoveOf(table, table', k)
  BY <1>3, RestoreMove
<1>4. QED
  BY <1>1, <1>2, <1>3, TableSteps

\* The store implements the history it promises of its resources: whatever its writers
\* do and however their statements interleave and fail, a step is one legal change of
\* each key it touches, if pages name a key once.
THEOREM HistoryImplemented == ASSUME NamesOnce PROVE Spec => ImplementsHistory
<1>1. Init => History!HInit
  <2> SUFFICES ASSUME Init PROVE History!HInit
    OBVIOUS
  <2>1. ASSUME NEW k \in Keys
        PROVE  HistoryIn(table, k) = <<>> /\ StandingIn(table, k) = "absent"
    <3>1. RowsOf(table, k) = {} /\ ~Occupied(table, k)
      BY DEF Init, NoPend, RowsOf, Occupied, IsCurrent
    <3>2. table \in Table
      BY DEF Init, NoPend, Table
    <3>3. QED
      BY <3>1, <3>2, NoHistory DEF StandingIn
  <2>2. QED
    BY <2>1 DEF History!HInit, AbstractHist, AbstractStanding
<1>2. ASSUME IInv, IInv', TombInv, PayloadInv, MoveInv, [Next]_vars
      PROVE  [History!HNext]_History!vars
  <2>1. ASSUME NEW k \in Keys
        PROVE  Moved(AbstractHist[k], AbstractStanding[k], AbstractHist'[k], AbstractStanding'[k])
    BY <1>2, <2>1, StepMoves DEF MoveOf, AbstractHist, AbstractStanding
  <2>2. ASSUME NEW k \in Keys
        PROVE  History!Discover(k) \/ History!Refer(k) \/ History!Confirm(k)
               \/ History!Change(k) \/ History!Archive(k) \/ History!Keep(k)
    <3>1. Moved(AbstractHist[k], AbstractStanding[k], AbstractHist'[k], AbstractStanding'[k])
      BY <2>1
    <3>2. QED
      BY <3>1 DEF Moved, History!Discover, History!Refer, History!Confirm, History!Change,
                  History!Archive, History!Keep, History!LastContent
  <2>3. QED
    BY <2>2 DEF History!HNext
<1>3. QED
  BY <1>1, <1>2, Invariance, TombInvariance, PayloadInvariance, MoveInvariance, PTL
  DEF Spec, ImplementsHistory, History!HSpec
=============================================================================
