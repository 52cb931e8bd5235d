------------------------ MODULE HierarchyClosureProofs ------------------------
(***************************************************************************)
(* Proofs about HierarchyClosure, for any nodes and recorders and any      *)
(* batches of pairs they record in any order.                              *)
(***************************************************************************)
EXTENDS HierarchyClosure, TLAPS

(***************************************************************************)
(* What the committed tables satisfy, stated of a table and of the rows an *)
(* open transaction wrote beside those it sees.                            *)
(***************************************************************************)

\* The rows lead only to ancestors along pairs.
Sound(table, pairs) ==
    \A S \in SUBSET Nodes : ClosedUpward(S, pairs) =>
        \A x \in Pairs : table[x] # NoDepth /\ x[2] \in S => x[1] \in S

\* Every row but a node's own came with a pair whose parent is seen to have the
\* same ancestor.
Backed(table, seen, pairs) ==
    \A x \in Pairs : table[x] # NoDepth /\ x[1] # x[2] =>
        \E p \in Nodes : <<x[2], p>> \in pairs /\ seen[<<x[1], p>>] # NoDepth

Mirrored(edges, seen, pairs) ==
    \A e \in edges : /\ <<e[2], e[1]>> \in pairs
                     /\ {e[1], e[2]} \subseteq rows
                     /\ seen[<<e[2], e[2]>>] # NoDepth

\* The pairs that count for the transaction of w.
Counted(w) == recorded \union tx[w].done

HierarchyInv ==
    /\ HierarchyTypeOK
    /\ Sound(closure, recorded)
    /\ Backed(closure, closure, recorded)
    /\ Mirrored(contains, closure, recorded)
    /\ \A w \in Recorders : /\ Sound(tx[w].wrote, Counted(w))
                            /\ Backed(tx[w].wrote, View(w), Counted(w))
                            /\ Mirrored(tx[w].edges, View(w), Counted(w))

Tables == [Pairs -> Nat \union {NoDepth}]
Transactions == [open : BOOLEAN, todo : Seq(Pairs), done : SUBSET Pairs,
                 wrote : Tables, edges : SUBSET Pairs, missing : BOOLEAN]

-----------------------------------------------------------------------------
(* Operators. *)

\* A row is there when it was there before or comes new.
LEMMA Kept ==
  ASSUME NEW old \in Tables, NEW new \in Tables
  PROVE  /\ KeepFirst(old, new) \in Tables
         /\ \A x \in Pairs : KeepFirst(old, new)[x] # NoDepth
                               <=> old[x] # NoDepth \/ new[x] # NoDepth
BY DEF KeepFirst, Tables

LEMMA AncestorsType ==
  ASSUME NEW seen \in Tables, NEW c \in Nodes, NEW p \in Nodes
  PROVE  AncestorRows(seen, c, p) \in Tables /\ AncestorRows(seen, c, p)[<<c, c>>] # NoDepth
<1> DEFINE a == AncestorRows(seen, c, p)
<1>1. ASSUME NEW x \in Pairs PROVE a[x] \in Nat \union {NoDepth}
  <2>1. <<x[1], p>> \in Pairs
    BY DEF Pairs
  <2>2. seen[<<x[1], p>>] \in Nat \union {NoDepth}
    BY <2>1 DEF Tables
  <2>3. CASE x = <<c, c>>
    BY <2>3 DEF AncestorRows
  <2>4. CASE x # <<c, c>> /\ x[2] = c /\ seen[<<x[1], p>>] # NoDepth
    <3>1. a[x] = seen[<<x[1], p>>] + 1
      BY <2>4 DEF AncestorRows
    <3> QED
      BY <2>2, <2>4, <3>1
  <2>5. CASE x # <<c, c>> /\ ~(x[2] = c /\ seen[<<x[1], p>>] # NoDepth)
    BY <2>5 DEF AncestorRows
  <2> QED
    BY <2>3, <2>4, <2>5
<1>2. a \in Tables
  <2>1. a = [x \in Pairs |-> a[x]]
    BY DEF AncestorRows
  <2> QED
    BY <1>1, <2>1 DEF Tables
<1>3. a[<<c, c>>] = 0
  BY DEF AncestorRows, Pairs
<1>4. a[<<c, c>>] # NoDepth
  BY <1>3, HierarchyAssumption
<1> QED
  BY <1>2, <1>4

\* More pairs, and more rows seen, keep what held.
LEMMA MorePairs ==
  ASSUME NEW table, NEW pairs, NEW more, pairs \subseteq more, Sound(table, pairs)
  PROVE  Sound(table, more)
BY DEF Sound, ClosedUpward

LEMMA MoreBacking ==
  ASSUME NEW table, NEW seen, NEW pairs, NEW wider, NEW more,
         pairs \subseteq more, \A x \in Pairs : seen[x] # NoDepth => wider[x] # NoDepth,
         Backed(table, seen, pairs)
  PROVE  Backed(table, wider, more)
<1> SUFFICES ASSUME NEW x \in Pairs, table[x] # NoDepth, x[1] # x[2]
             PROVE  \E p \in Nodes : <<x[2], p>> \in more /\ wider[<<x[1], p>>] # NoDepth
  BY DEF Backed
<1>1. PICK p \in Nodes : <<x[2], p>> \in pairs /\ seen[<<x[1], p>>] # NoDepth
  BY DEF Backed
<1>2. <<x[1], p>> \in Pairs
  BY DEF Pairs
<1> QED
  BY <1>1, <1>2

\* A transaction's rows on top of the committed ones.
LEMMA SoundTogether ==
  ASSUME NEW old \in Tables, NEW new \in Tables, NEW pairs, Sound(old, pairs), Sound(new, pairs)
  PROVE  Sound(KeepFirst(old, new), pairs)
BY Kept DEF Sound

LEMMA BackedTogether ==
  ASSUME NEW old \in Tables, NEW new \in Tables, NEW seen, NEW pairs,
         Backed(old, seen, pairs), Backed(new, seen, pairs)
  PROVE  Backed(KeepFirst(old, new), seen, pairs)
BY Kept DEF Backed

\* One pair more, on what the transaction sees.
LEMMA SoundPair ==
  ASSUME NEW seen \in Tables, NEW pairs, NEW c \in Nodes, NEW p \in Nodes, Sound(seen, pairs)
  PROVE  Sound(AncestorRows(seen, c, p), pairs \union {<<c, p>>})
<1> SUFFICES ASSUME NEW S \in SUBSET Nodes, ClosedUpward(S, pairs \union {<<c, p>>}),
                    NEW x \in Pairs, AncestorRows(seen, c, p)[x] # NoDepth, x[2] \in S
             PROVE  x[1] \in S
  BY DEF Sound
<1>1. x[2] = c /\ (x[1] = c \/ seen[<<x[1], p>>] # NoDepth)
  <2>1. CASE x = <<c, c>>
    BY <2>1
  <2>2. CASE x # <<c, c>>
    BY <2>2 DEF AncestorRows
  <2> QED
    BY <2>1, <2>2
<1>2. ClosedUpward(S, pairs)
  BY DEF ClosedUpward
<1>3. <<c, p>>[1] \in S
  BY <1>1
<1>4. p \in S
  <2>1. <<c, p>>[1] \in S => <<c, p>>[2] \in S
    BY Zenon DEF ClosedUpward
  <2> QED
    BY <1>3, <2>1
<1>5. <<x[1], p>> \in Pairs
  BY DEF Pairs
<1> QED
  BY <1>1, <1>2, <1>4, <1>5 DEF Sound

LEMMA BackedPair ==
  ASSUME NEW seen \in Tables, NEW pairs, NEW c \in Nodes, NEW p \in Nodes
  PROVE  Backed(AncestorRows(seen, c, p), seen, pairs \union {<<c, p>>})
<1> SUFFICES ASSUME NEW x \in Pairs, AncestorRows(seen, c, p)[x] # NoDepth, x[1] # x[2]
             PROVE  \E q \in Nodes : <<x[2], q>> \in pairs \union {<<c, p>>}
                                      /\ seen[<<x[1], q>>] # NoDepth
  BY DEF Backed
<1>1. x # <<c, c>>
  OBVIOUS
<1>2. x[2] = c /\ seen[<<x[1], p>>] # NoDepth
  BY <1>1 DEF AncestorRows
<1> QED
  BY <1>2

-----------------------------------------------------------------------------
(* Steps. *)

LEMMA InvInit == HierarchyInit => HierarchyInv
BY DEF HierarchyInit, HierarchyInv, HierarchyTypeOK, NoTx, NoRows, Sound, Backed, Mirrored, Counted

LEMMA ViewType ==
  ASSUME HierarchyTypeOK, NEW w \in Recorders
  PROVE  /\ closure \in Tables /\ tx[w] \in Transactions /\ tx[w].wrote \in Tables
         /\ View(w) \in Tables
         /\ \A x \in Pairs : View(w)[x] # NoDepth
                               <=> closure[x] # NoDepth \/ tx[w].wrote[x] # NoDepth
<1>1. closure \in Tables /\ tx[w] \in Transactions
  BY DEF HierarchyTypeOK, Tables, Transactions
<1>2. tx[w].wrote \in Tables
  BY <1>1 DEF Transactions
<1> QED
  BY <1>1, <1>2, Kept DEF View

\* A transaction that is empty claims nothing.
LEMMA EmptyTx ==
  ASSUME NEW seen, NEW pairs
  PROVE  Sound(NoRows, pairs) /\ Backed(NoRows, seen, pairs) /\ Mirrored({}, seen, pairs)
BY DEF NoRows, Sound, Backed, Mirrored

\* The rest of the invariant for a recorder whose transaction did not move while
\* the tables grew.
LEMMA Bystander ==
  ASSUME HierarchyInv, HierarchyTypeOK', NEW w \in Recorders, tx'[w] = tx[w],
         recorded \subseteq recorded', rows \subseteq rows',
         \A x \in Pairs : closure[x] # NoDepth => closure'[x] # NoDepth
  PROVE  /\ Sound(tx'[w].wrote, Counted(w)')
         /\ Backed(tx'[w].wrote, View(w)', Counted(w)')
         /\ Mirrored(tx[w].edges, View(w), Counted(w))'
<1>1. Counted(w) \subseteq Counted(w)'
  BY DEF Counted
<1>2. \A x \in Pairs : View(w)[x] # NoDepth => View(w)'[x] # NoDepth
  <2>1. \A x \in Pairs : View(w)[x] # NoDepth
                           <=> closure[x] # NoDepth \/ tx[w].wrote[x] # NoDepth
    BY ViewType DEF HierarchyInv
  <2>2. closure' \in Tables /\ tx'[w].wrote \in Tables
    BY DEF HierarchyTypeOK, Tables
  <2>3. \A x \in Pairs : KeepFirst(closure', tx'[w].wrote)[x] # NoDepth
                           <=> closure'[x] # NoDepth \/ tx'[w].wrote[x] # NoDepth
    BY <2>2, Kept
  <2>4. View(w)' = KeepFirst(closure', tx'[w].wrote)
    BY DEF View, KeepFirst
  <2> QED
    BY <2>1, <2>3, <2>4
<1>3. Sound(tx'[w].wrote, Counted(w)')
  BY <1>1, MorePairs DEF HierarchyInv
<1>4. Backed(tx'[w].wrote, View(w)', Counted(w)')
  BY <1>1, <1>2, MoreBacking DEF HierarchyInv
<1>5. Mirrored(tx[w].edges, View(w), Counted(w))'
  <2>1. tx[w].edges \subseteq Pairs
    BY DEF HierarchyInv, HierarchyTypeOK
  <2>2. \A e \in tx[w].edges : <<e[2], e[2]>> \in Pairs
    BY <2>1 DEF Pairs
  <2> QED
    BY <1>1, <1>2, <2>2 DEF HierarchyInv, Mirrored
<1> QED
  BY <1>3, <1>4, <1>5

LEMMA StoreRowsKeeps ==
  ASSUME HierarchyInv, NEW batch \in SUBSET Nodes, StoreRows(batch)
  PROVE  HierarchyInv'
<1>1. rows \subseteq rows' /\ UNCHANGED <<closure, contains, recorded, tx>>
  BY DEF StoreRows
<1>2. HierarchyTypeOK'
  BY DEF HierarchyInv, HierarchyTypeOK, StoreRows
<1>3. Sound(closure', recorded') /\ Backed(closure', closure', recorded')
  BY <1>1 DEF HierarchyInv
<1>4. Mirrored(contains, closure, recorded)'
  BY <1>1 DEF HierarchyInv, Mirrored
<1>5. ASSUME NEW w \in Recorders
      PROVE  /\ Sound(tx'[w].wrote, Counted(w)')
             /\ Backed(tx'[w].wrote, View(w)', Counted(w)')
             /\ Mirrored(tx[w].edges, View(w), Counted(w))'
  BY <1>1, <1>2, Bystander
<1> QED
  BY <1>2, <1>3, <1>4, <1>5 DEF HierarchyInv

\* A transaction that begins, or is rolled back, leaves the tables alone.
LEMMA Emptied ==
  ASSUME HierarchyInv, HierarchyTypeOK', NEW w \in Recorders,
         tx'[w].wrote = NoRows, tx'[w].edges = {},
         \A v \in Recorders \ {w} : tx'[v] = tx[v],
         UNCHANGED <<closure, contains, rows, recorded>>
  PROVE  HierarchyInv'
<1>1. Sound(closure', recorded') /\ Backed(closure', closure', recorded')
  BY DEF HierarchyInv
<1>2. Mirrored(contains, closure, recorded)'
  BY DEF HierarchyInv, Mirrored
<1>3. /\ Sound(tx'[w].wrote, Counted(w)')
      /\ Backed(tx'[w].wrote, View(w)', Counted(w)')
  BY EmptyTx
<1>4. Mirrored(tx[w].edges, View(w), Counted(w))'
  BY DEF Mirrored
<1>5. ASSUME NEW v \in Recorders, v # w
      PROVE  /\ Sound(tx'[v].wrote, Counted(v)')
             /\ Backed(tx'[v].wrote, View(v)', Counted(v)')
             /\ Mirrored(tx[v].edges, View(v), Counted(v))'
  <2>1. tx'[v] = tx[v]
    BY <1>5
  <2> QED
    BY <2>1, Bystander
<1> QED
  BY <1>1, <1>2, <1>3, <1>4, <1>5 DEF HierarchyInv

LEMMA BatchStartsKeeps ==
  ASSUME HierarchyInv, NEW w \in Recorders, NEW batch \in Seq(Pairs), BatchStarts(w, batch)
  PROVE  HierarchyInv'
<1>1. tx \in [Recorders -> Transactions]
  BY DEF HierarchyInv, HierarchyTypeOK, Transactions, Tables
<1>2. tx' = [tx EXCEPT ![w] = [NoTx EXCEPT !.open = TRUE, !.todo = batch]]
  BY DEF BatchStarts
<1>3. [NoTx EXCEPT !.open = TRUE, !.todo = batch] \in Transactions
  BY DEF NoTx, NoRows, Transactions, Tables
<1>4. tx' \in [Recorders -> Transactions]
  BY <1>1, <1>2, <1>3
<1>5. HierarchyTypeOK'
  BY <1>4 DEF HierarchyInv, HierarchyTypeOK, Transactions, Tables, BatchStarts
<1>6. tx'[w].wrote = NoRows /\ tx'[w].edges = {}
  BY <1>1, <1>2 DEF NoTx
<1>7. \A v \in Recorders \ {w} : tx'[v] = tx[v]
  BY <1>1, <1>2
<1> QED
  BY <1>5, <1>6, <1>7, Emptied DEF BatchStarts

LEMMA NoTxType == NoTx \in Transactions
BY DEF NoTx, NoRows, Transactions, Tables

LEMMA BatchFailsKeeps ==
  ASSUME HierarchyInv, NEW w \in Recorders, BatchFails(w)
  PROVE  HierarchyInv'
<1>1. tx \in [Recorders -> Transactions]
  BY DEF HierarchyInv, HierarchyTypeOK, Transactions, Tables
<1>2. tx' = [tx EXCEPT ![w] = NoTx]
  BY DEF BatchFails
<1>3. tx' \in [Recorders -> Transactions]
  BY <1>1, <1>2, NoTxType
<1>4. HierarchyTypeOK'
  BY <1>3 DEF HierarchyInv, HierarchyTypeOK, Transactions, Tables, BatchFails
<1>5. tx'[w].wrote = NoRows /\ tx'[w].edges = {}
  BY <1>1, <1>2 DEF NoTx
<1>6. \A v \in Recorders \ {w} : tx'[v] = tx[v]
  BY <1>1, <1>2
<1> QED
  BY <1>4, <1>5, <1>6, Emptied DEF BatchFails

\* What the committer wrote becomes what all see.
LEMMA BatchCommitsKeeps ==
  ASSUME HierarchyInv, NEW w \in Recorders, BatchCommits(w)
  PROVE  HierarchyInv'
<1>1. tx \in [Recorders -> Transactions]
  BY DEF HierarchyInv, HierarchyTypeOK, Transactions, Tables
<1>2. tx' = [tx EXCEPT ![w] = NoTx]
  BY DEF BatchCommits
<1>3. tx' \in [Recorders -> Transactions]
  BY <1>1, <1>2, NoTxType
<1>4. closure' = View(w) /\ recorded' = Counted(w) /\ rows' = rows
  BY DEF BatchCommits, View, Counted
<1>5. contains' = contains \union tx[w].edges
  BY DEF BatchCommits
<1>6. /\ closure \in Tables /\ tx[w].wrote \in Tables /\ View(w) \in Tables
      /\ \A x \in Pairs : View(w)[x] # NoDepth
                            <=> closure[x] # NoDepth \/ tx[w].wrote[x] # NoDepth
  BY ViewType DEF HierarchyInv
<1>7. HierarchyTypeOK'
  <2>1. tx[w].edges \subseteq Pairs /\ tx[w].done \subseteq Pairs
    BY <1>1 DEF Transactions
  <2>2. contains' \subseteq Pairs /\ recorded' \subseteq Pairs
    BY <1>4, <1>5, <2>1 DEF Counted, HierarchyInv, HierarchyTypeOK
  <2>3. rows' \subseteq Nodes
    BY <1>4 DEF HierarchyInv, HierarchyTypeOK
  <2> QED
    BY <1>3, <1>4, <1>6, <2>2, <2>3 DEF HierarchyTypeOK, Transactions, Tables
<1>8. recorded \subseteq Counted(w)
  BY DEF Counted
<1>9. Sound(closure', recorded')
  <2>1. Sound(closure, Counted(w))
    BY <1>8, MorePairs DEF HierarchyInv
  <2>2. Sound(tx[w].wrote, Counted(w))
    BY DEF HierarchyInv
  <2> QED
    BY <1>4, <1>6, <2>1, <2>2, SoundTogether DEF View
<1>10. Backed(closure', closure', recorded')
  <2>1. Backed(closure, View(w), Counted(w))
    BY <1>6, <1>8, MoreBacking DEF HierarchyInv
  <2>2. Backed(tx[w].wrote, View(w), Counted(w))
    BY DEF HierarchyInv
  <2>3. Backed(View(w), View(w), Counted(w))
    BY <1>6, <2>1, <2>2, BackedTogether DEF View
  <2> QED
    BY <1>4, <2>3
<1>11. Mirrored(contains, closure, recorded)'
  <2>1. contains \subseteq Pairs /\ \A e \in contains : <<e[2], e[2]>> \in Pairs
    BY DEF HierarchyInv, HierarchyTypeOK, Pairs
  <2>2. Mirrored(contains, View(w), Counted(w))
    BY <1>6, <1>8, <2>1 DEF HierarchyInv, Mirrored
  <2>3. Mirrored(tx[w].edges, View(w), Counted(w))
    BY DEF HierarchyInv
  <2> QED
    BY <1>4, <1>5, <2>2, <2>3 DEF Mirrored
<1>12. tx'[w].wrote = NoRows /\ tx'[w].edges = {}
  BY <1>1, <1>2 DEF NoTx
<1>13. /\ Sound(tx'[w].wrote, Counted(w)')
       /\ Backed(tx'[w].wrote, View(w)', Counted(w)')
  BY <1>12, EmptyTx
<1>14. Mirrored(tx[w].edges, View(w), Counted(w))'
  BY <1>12 DEF Mirrored
<1>15. ASSUME NEW v \in Recorders, v # w
       PROVE  /\ Sound(tx'[v].wrote, Counted(v)')
              /\ Backed(tx'[v].wrote, View(v)', Counted(v)')
              /\ Mirrored(tx[v].edges, View(v), Counted(v))'
  <2>1. tx'[v] = tx[v]
    BY <1>1, <1>2, <1>15
  <2>2. recorded \subseteq recorded' /\ rows \subseteq rows'
    BY <1>4, <1>8
  <2>3. \A x \in Pairs : closure[x] # NoDepth => closure'[x] # NoDepth
    BY <1>4, <1>6
  <2> QED
    BY <1>7, <2>1, <2>2, <2>3, Bystander
<1> QED
  BY <1>7, <1>9, <1>10, <1>11, <1>13, <1>14, <1>15 DEF HierarchyInv

\* One pair more in a transaction.
LEMMA RecordPairKeeps ==
  ASSUME HierarchyInv, NEW w \in Recorders, RecordPair(w)
  PROVE  HierarchyInv'
<1> DEFINE c == Head(tx[w].todo)[1]
           p == Head(tx[w].todo)[2]
           more == Counted(w) \union {<<c, p>>}
           wrote == KeepFirst(tx[w].wrote, AncestorRows(View(w), c, p))
           edges == IF c # p /\ {c, p} \subseteq rows
                    THEN tx[w].edges \union {<<p, c>>} ELSE tx[w].edges
           after == [open |-> TRUE, todo |-> Tail(tx[w].todo),
                     done |-> tx[w].done \union {<<c, p>>},
                     wrote |-> wrote, edges |-> edges,
                     missing |-> tx[w].missing \/ Missing(c, p)]
<1>1. tx \in [Recorders -> Transactions]
  BY DEF HierarchyInv, HierarchyTypeOK, Transactions, Tables
<1>2. tx' = [tx EXCEPT ![w] = after]
  BY <1>1 DEF RecordPair, EdgeOf
<1>3. tx[w].todo \in Seq(Pairs) /\ tx[w].todo # <<>>
  BY <1>1 DEF RecordPair, Transactions
<1>4. c \in Nodes /\ p \in Nodes /\ <<c, p>> \in Pairs /\ <<p, c>> \in Pairs
  <2>1. Head(tx[w].todo) \in Pairs
    BY <1>3
  <2> QED
    BY <2>1 DEF Pairs
<1>5. /\ closure \in Tables /\ tx[w].wrote \in Tables /\ View(w) \in Tables
      /\ \A x \in Pairs : View(w)[x] # NoDepth
                            <=> closure[x] # NoDepth \/ tx[w].wrote[x] # NoDepth
  BY ViewType DEF HierarchyInv
<1>6. AncestorRows(View(w), c, p) \in Tables /\ AncestorRows(View(w), c, p)[<<c, c>>] # NoDepth
  BY <1>4, <1>5, AncestorsType
<1>7. /\ wrote \in Tables
      /\ \A x \in Pairs : wrote[x] # NoDepth
           <=> tx[w].wrote[x] # NoDepth \/ AncestorRows(View(w), c, p)[x] # NoDepth
  BY <1>5, <1>6, Kept
<1>8. after \in Transactions
  <2>1. Tail(tx[w].todo) \in Seq(Pairs)
    BY <1>3
  <2>2. tx[w].done \union {<<c, p>>} \in SUBSET Pairs
    BY <1>1, <1>4 DEF Transactions
  <2>3. edges \in SUBSET Pairs
    BY <1>1, <1>4 DEF Transactions
  <2>4. (tx[w].missing \/ Missing(c, p)) \in BOOLEAN
    BY Zenon
  <2> HIDE DEF c, p, wrote, edges
  <2> QED
    BY <1>7, <2>1, <2>2, <2>3, <2>4 DEF Transactions
<1>9. tx' \in [Recorders -> Transactions] /\ tx'[w] = after
  <2> HIDE DEF after
  <2> QED
    BY <1>1, <1>2, <1>8
<1>10. tx'[w].wrote = wrote /\ tx'[w].edges = edges /\ tx'[w].done = tx[w].done \union {<<c, p>>}
  <2> HIDE DEF c, p, wrote, edges
  <2> QED
    BY <1>9
<1>11. UNCHANGED <<closure, contains, rows, recorded>>
  BY DEF RecordPair
<1>12. HierarchyTypeOK'
  BY <1>9, <1>11 DEF HierarchyInv, HierarchyTypeOK, Transactions, Tables
<1> HIDE DEF c, p, wrote, edges, after
<1>13. Counted(w)' = more
  BY <1>10, <1>11 DEF Counted
<1>14. /\ View(w)' \in Tables
       /\ \A x \in Pairs : View(w)'[x] # NoDepth
            <=> closure[x] # NoDepth \/ wrote[x] # NoDepth
  <2>1. View(w)' = KeepFirst(closure, wrote)
    BY <1>10, <1>11 DEF View, KeepFirst
  <2> QED
    BY <1>5, <1>7, <2>1, Kept
<1>15. \A x \in Pairs : View(w)[x] # NoDepth => View(w)'[x] # NoDepth
  BY <1>5, <1>7, <1>14
<1>16. Sound(wrote, more)
  <2>1. Sound(closure, Counted(w))
    BY MorePairs DEF HierarchyInv, Counted
  <2>2. Sound(View(w), Counted(w))
    BY <1>5, <2>1, SoundTogether DEF HierarchyInv, View
  <2>3. Sound(AncestorRows(View(w), c, p), more)
    BY <1>4, <1>5, <2>2, SoundPair
  <2>4. Sound(tx[w].wrote, more)
    BY MorePairs DEF HierarchyInv
  <2> QED
    BY <1>5, <1>6, <2>3, <2>4, SoundTogether DEF wrote
<1>17. Backed(wrote, View(w)', more)
  <2>1. Backed(AncestorRows(View(w), c, p), View(w), more)
    BY <1>4, <1>5, BackedPair
  <2>2. Backed(AncestorRows(View(w), c, p), View(w)', more)
    BY <1>15, <2>1, MoreBacking
  <2>3. Backed(tx[w].wrote, View(w)', more)
    BY <1>15, MoreBacking DEF HierarchyInv
  <2> QED
    BY <1>5, <1>6, <2>2, <2>3, BackedTogether DEF wrote
<1>18. Mirrored(edges, View(w)', more)
  <2>1. ASSUME NEW e \in tx[w].edges
        PROVE  /\ <<e[2], e[1]>> \in more /\ {e[1], e[2]} \subseteq rows
               /\ View(w)'[<<e[2], e[2]>>] # NoDepth
    <3>1. <<e[2], e[2]>> \in Pairs
      BY <1>1 DEF Transactions, Pairs
    <3>2. /\ <<e[2], e[1]>> \in Counted(w) /\ {e[1], e[2]} \subseteq rows
          /\ View(w)[<<e[2], e[2]>>] # NoDepth
      BY DEF HierarchyInv, Mirrored
    <3> QED
      BY <1>15, <3>1, <3>2
  <2>2. View(w)'[<<c, c>>] # NoDepth
    <3>1. <<c, c>> \in Pairs
      BY <1>4 DEF Pairs
    <3> QED
      BY <1>6, <1>7, <1>14, <3>1
  <2>3. ASSUME c # p, {c, p} \subseteq rows
        PROVE  Mirrored({<<p, c>>}, View(w)', more)
    BY <2>2, <2>3 DEF Mirrored
  <2>4. Mirrored(tx[w].edges, View(w)', more)
    BY <2>1 DEF Mirrored
  <2>5. CASE c # p /\ {c, p} \subseteq rows
    BY <2>3, <2>4, <2>5 DEF Mirrored, edges
  <2>6. CASE ~(c # p /\ {c, p} \subseteq rows)
    BY <2>4, <2>6 DEF edges
  <2> QED
    BY <2>5, <2>6
<1>19. Sound(closure', recorded') /\ Backed(closure', closure', recorded')
  BY <1>11 DEF HierarchyInv
<1>20. Mirrored(contains, closure, recorded)'
  BY <1>11 DEF HierarchyInv, Mirrored
<1>21. /\ Sound(tx'[w].wrote, Counted(w)')
       /\ Backed(tx'[w].wrote, View(w)', Counted(w)')
  BY <1>10, <1>13, <1>16, <1>17
<1>22. Mirrored(tx[w].edges, View(w), Counted(w))'
  BY <1>10, <1>11, <1>13, <1>18 DEF Mirrored
<1>23. ASSUME NEW v \in Recorders, v # w
       PROVE  /\ Sound(tx'[v].wrote, Counted(v)')
              /\ Backed(tx'[v].wrote, View(v)', Counted(v)')
              /\ Mirrored(tx[v].edges, View(v), Counted(v))'
  <2>1. tx'[v] = tx[v]
    BY <1>1, <1>2, <1>23
  <2> QED
    BY <1>11, <1>12, <2>1, Bystander
<1> QED
  BY <1>12, <1>19, <1>20, <1>21, <1>22, <1>23 DEF HierarchyInv

-----------------------------------------------------------------------------
\* The invariant holds of every behaviour of the store's hierarchy tables,
\* whatever the pairs, batches and order in which recorders write them.
THEOREM HierarchyInvariance == HierarchySpec => []HierarchyInv
<1>1. HierarchyInv /\ [HierarchyNext]_hierarchyVars => HierarchyInv'
  <2> SUFFICES ASSUME HierarchyInv, [HierarchyNext]_hierarchyVars
               PROVE  HierarchyInv'
    OBVIOUS
  <2>1. CASE \E batch \in SUBSET Nodes : StoreRows(batch)
    BY <2>1, StoreRowsKeeps
  <2>2. ASSUME NEW w \in Recorders, NEW batch \in Seq(Pairs), BatchStarts(w, batch)
        PROVE  HierarchyInv'
    BY <2>2, BatchStartsKeeps
  <2>3. ASSUME NEW w \in Recorders, RecordPair(w)
        PROVE  HierarchyInv'
    BY <2>3, RecordPairKeeps
  <2>4. ASSUME NEW w \in Recorders, BatchCommits(w)
        PROVE  HierarchyInv'
    BY <2>4, BatchCommitsKeeps
  <2>5. ASSUME NEW w \in Recorders, BatchFails(w)
        PROVE  HierarchyInv'
    BY <2>5, BatchFailsKeeps
  <2>6. CASE UNCHANGED hierarchyVars
    <3>1. UNCHANGED <<closure, contains, rows, recorded, tx>>
      BY <2>6 DEF hierarchyVars
    <3>2. HierarchyTypeOK'
      BY <3>1 DEF HierarchyInv, HierarchyTypeOK
    <3>3. Sound(closure', recorded') /\ Backed(closure', closure', recorded')
      BY <3>1 DEF HierarchyInv
    <3>4. Mirrored(contains, closure, recorded)'
      BY <3>1 DEF HierarchyInv, Mirrored
    <3>5. ASSUME NEW w \in Recorders
          PROVE  /\ Sound(tx'[w].wrote, Counted(w)')
                 /\ Backed(tx'[w].wrote, View(w)', Counted(w)')
                 /\ Mirrored(tx[w].edges, View(w), Counted(w))'
      BY <3>1, <3>2, Bystander
    <3> QED
      BY <3>2, <3>3, <3>4, <3>5 DEF HierarchyInv
  <2> QED
    BY <2>1, <2>2, <2>3, <2>4, <2>5, <2>6 DEF HierarchyNext
<1> QED
  BY <1>1, InvInit, PTL DEF HierarchySpec

\* The tables and the open transactions keep their types.
THEOREM HierarchyTypes == HierarchySpec => []HierarchyTypeOK
<1>1. HierarchyInv => HierarchyTypeOK
  BY DEF HierarchyInv
<1> QED
  BY <1>1, HierarchyInvariance, PTL

\* No ancestor is invented: every row of hierarchy_closure lies on a path of
\* pairs whose transactions committed.
THEOREM ClosureIsSound == HierarchySpec => []ClosureSound
<1>1. HierarchyInv => ClosureSound
  BY DEF HierarchyInv, Sound, ClosureSound
<1> QED
  BY <1>1, HierarchyInvariance, PTL

\* Every ancestor but a node itself came with a committed pair whose parent has
\* that ancestor.
THEOREM ClosureIsBacked == HierarchySpec => []ClosureBacked
<1>1. HierarchyInv => ClosureBacked
  BY DEF HierarchyInv, Backed, ClosureBacked
<1> QED
  BY <1>1, HierarchyInvariance, PTL

\* The `contains' edges recordHierarchyTx writes never say more than the closure.
THEOREM ContainsMirrors == HierarchySpec => []ContainsMirrorsClosure
<1>1. HierarchyInv => ContainsMirrorsClosure
  BY DEF HierarchyInv, Mirrored, ContainsMirrorsClosure
<1> QED
  BY <1>1, HierarchyInvariance, PTL

\* What was recorded and nothing else is in the closure and its edges, whoever
\* records, in whatever order.
THEOREM ClosureStaysTrue == HierarchySpec => []ClosureIsTrue
BY ClosureIsBacked, ContainsMirrors, PTL DEF ClosureIsTrue
=============================================================================
