-------------------------- MODULE HierarchyClosure --------------------------
(***************************************************************************)
(* The hierarchy tables of the store (src/store/relationships.go):         *)
(* hierarchy_closure, a row per (ancestor, descendant) with the depth at   *)
(* which it was first seen, and the `contains' edges that mirror the pairs *)
(* recorded.  RecordHierarchy and RecordHierarchyBatch run as transactions *)
(* of Postgres: a pair reads what others have committed and what its own   *)
(* transaction wrote, and ON CONFLICT DO NOTHING keeps the row that is     *)
(* there first.  Nothing ever deletes a row.                               *)
(***************************************************************************)
EXTENDS Naturals, Sequences

CONSTANTS
    Nodes,          \* resource ids
    Recorders,      \* the goroutines that record pairs
    NoDepth         \* no row

ASSUME HierarchyAssumption == NoDepth \notin Nat

VARIABLES
    closure,    \* <<ancestor, descendant>> -> depth
    contains,   \* the `contains' edges <<parent, child>>
    rows,       \* the nodes with a current row in resources
    recorded,   \* <<child, parent>> pairs of committed transactions
    tx          \* the transaction each recorder is in

hierarchyVars == <<closure, contains, rows, recorded, tx>>

Pairs == Nodes \X Nodes
NoRows == [x \in Pairs |-> NoDepth]

\* todo: pairs to come; done: pairs written; rows and edges: what it wrote.
NoTx == [open |-> FALSE, todo |-> <<>>, done |-> {}, wrote |-> NoRows, edges |-> {}, missing |-> FALSE]

HierarchyInit ==
    /\ closure = NoRows
    /\ contains = {}
    /\ rows = {}
    /\ recorded = {}
    /\ tx = [w \in Recorders |-> NoTx]

-----------------------------------------------------------------------------
\* INSERT ... ON CONFLICT DO NOTHING of a set of rows into others.
KeepFirst(old, new) == [x \in Pairs |-> IF old[x] = NoDepth THEN new[x] ELSE old[x]]

\* What the transaction of w sees.
View(w) == KeepFirst(closure, tx[w].wrote)

\* Mutant of AncestorRows: the parent only, not its ancestors.
AncestorRowsNear(seen, c, p) ==
    [x \in Pairs |-> IF x = <<c, c>> THEN 0
                     ELSE IF x[2] = c /\ x[1] = p /\ seen[<<p, p>>] # NoDepth THEN 1
                     ELSE NoDepth]

\* Mutant of AncestorRows: the join is turned round, to the parent's descendants.
AncestorRowsTurned(seen, c, p) ==
    [x \in Pairs |-> IF x = <<c, c>> THEN 0
                     ELSE IF x[2] = c /\ seen[<<p, x[1]>>] # NoDepth
                          THEN seen[<<p, x[1]>>] + 1
                     ELSE NoDepth]

\* The rows of one pair: the child's own, and one per ancestor of the parent.
AncestorRows(seen, c, p) ==
    [x \in Pairs |-> IF x = <<c, c>> THEN 0
                     ELSE IF x[2] = c /\ seen[<<x[1], p>>] # NoDepth
                          THEN seen[<<x[1], p>>] + 1
                     ELSE NoDepth]

\* One end of the pair is not a resource: no edge, and a warning.
Missing(c, p) == c # p /\ ~({c, p} \subseteq rows)

\* The edge points from the parent to the child.
EdgeOf(c, p) == <<p, c>>

BatchStarts(w, pairs) ==
    /\ ~tx[w].open
    /\ tx' = [tx EXCEPT ![w] = [NoTx EXCEPT !.open = TRUE, !.todo = pairs]]
    /\ UNCHANGED <<closure, contains, rows, recorded>>

\* recordHierarchyTx: the closure rows always, the edge only when both ends are
\* resources.
RecordPair(w) ==
    /\ tx[w].open
    /\ tx[w].todo # <<>>
    /\ LET c == Head(tx[w].todo)[1]
           p == Head(tx[w].todo)[2]
       IN  tx' = [tx EXCEPT ![w] =
             [open |-> TRUE,
              todo |-> Tail(@.todo),
              done |-> @.done \union {<<c, p>>},
              wrote |-> KeepFirst(@.wrote, AncestorRows(View(w), c, p)),
              edges |-> IF c # p /\ {c, p} \subseteq rows
                       THEN @.edges \union {EdgeOf(c, p)} ELSE @.edges,
              missing |-> @.missing \/ Missing(c, p)]]
    /\ UNCHANGED <<closure, contains, rows, recorded>>

\* Commit: rows others committed meanwhile stand.
BatchCommits(w) ==
    /\ tx[w].open
    /\ tx[w].todo = <<>>
    /\ closure' = KeepFirst(closure, tx[w].wrote)
    /\ contains' = contains \union tx[w].edges
    /\ recorded' = recorded \union tx[w].done
    /\ tx' = [tx EXCEPT ![w] = NoTx]
    /\ UNCHANGED rows

BatchFails(w) ==
    /\ tx[w].open
    /\ tx' = [tx EXCEPT ![w] = NoTx]
    /\ UNCHANGED <<closure, contains, rows, recorded>>

\* UpsertResources of a batch.
StoreRows(batch) ==
    /\ rows' = rows \union batch
    /\ UNCHANGED <<closure, contains, recorded, tx>>

HierarchyNext ==
    \/ \E batch \in SUBSET Nodes : StoreRows(batch)
    \/ \E w \in Recorders :
          \/ \E pairs \in Seq(Pairs) : BatchStarts(w, pairs)
          \/ RecordPair(w) \/ BatchCommits(w) \/ BatchFails(w)

HierarchySpec == HierarchyInit /\ [][HierarchyNext]_hierarchyVars

-----------------------------------------------------------------------------
HierarchyTypeOK ==
    /\ closure \in [Pairs -> Nat \union {NoDepth}]
    /\ contains \subseteq Pairs
    /\ rows \subseteq Nodes
    /\ recorded \subseteq Pairs
    /\ tx \in [Recorders -> [open : BOOLEAN, todo : Seq(Pairs), done : SUBSET Pairs,
                             wrote : [Pairs -> Nat \union {NoDepth}],
                             edges : SUBSET Pairs, missing : BOOLEAN]]

\* A set of nodes that the recorded pairs do not lead out of.
ClosedUpward(S, pairs) == \A x \in pairs : x[1] \in S => x[2] \in S

\* No row of the closure is invented: whatever the order in which transactions
\* read each other's rows, an ancestor is reached along pairs that committed.
\* (It is in every set that holds the descendant and that no pair leads out of.)
ClosureSound ==
    \A S \in SUBSET Nodes : ClosedUpward(S, recorded) =>
        \A x \in Pairs : closure[x] # NoDepth /\ x[2] \in S => x[1] \in S

\* The same one pair at a time, which TLC can evaluate: above its own row, every
\* ancestor came with a recorded pair whose parent has that ancestor.
ClosureBacked ==
    \A x \in Pairs : closure[x] # NoDepth /\ x[1] # x[2] =>
        \E p \in Nodes : <<x[2], p>> \in recorded /\ closure[<<x[1], p>>] # NoDepth

\* A `contains' edge mirrors a committed pair, both ends of which are rows, and
\* the closure knows its child.
ContainsMirrorsClosure ==
    \A e \in contains : /\ <<e[2], e[1]>> \in recorded
                        /\ {e[1], e[2]} \subseteq rows
                        /\ closure[<<e[2], e[2]>>] # NoDepth

\* Nothing in the closure, nor in the edges made with it, is made up: both follow from
\* pairs that were recorded (recordHierarchyTx).
ClosureIsTrue == ClosureBacked /\ ContainsMirrorsClosure
=============================================================================
