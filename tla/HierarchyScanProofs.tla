------------------------- MODULE HierarchyScanProofs -------------------------
(***************************************************************************)
(* The scans of GCP and Azure that record the hierarchy use the store's    *)
(* tables as HierarchyClosure says anyone may: every step of HierarchyScan *)
(* is a step of the tables or leaves them alone.  So what is proved of the *)
(* tables in HierarchyClosureProofs holds of every scan, whatever is       *)
(* denied, fails or is moved, and however the services interleave.         *)
(***************************************************************************)
EXTENDS HierarchyScan, HierarchyClosureProofs, FiniteSetTheorems, WellFoundedInduction

TreeNodes == Orgs \union Folders \union TreeProjects
Places == {"idle", "store", "record", "recording", "services", "done", "off"}
Walk == [at : Places, todo : Seq(TreeNodes), denied : SUBSET MayDeny,
         quiet : BOOLEAN, good : BOOLEAN]
Stitching == [at : {"idle", "scan", "stitch", "stitching", "stitched", "failed", "off"},
              listed : BOOLEAN]

\* A scan under way is one of the MaxScans, and the walk has a node in hand
\* while it records one.
TreeInv ==
    /\ tree \in Trees
    /\ gcp \in Walk
    /\ gcp.at \in {"record", "recording"} => gcp.todo # <<>>
    /\ svc \in [TreeProjects -> {"idle", "store", "record", "recording"}]
    /\ azure \in Stitching
    /\ scans \in 0 .. MaxScans
    /\ clean \in 0 .. scans
    /\ gcp.at # "idle" => scans < MaxScans

-----------------------------------------------------------------------------
(* Sequences of nodes. *)

\* An arrangement of a finite set is a sequence over it.
LEMMA Arranged ==
  ASSUME NEW S, IsFiniteSet(S)
  PROVE  SetToSeq(S) \in Seq(S) /\ SetToSeqs(S) \subseteq Seq(S)
<1>1. Cardinality(S) \in Nat /\ ExistsBijection(1 .. Cardinality(S), S)
  BY FS_CardinalityType
<1>2. [1 .. Cardinality(S) -> S] \subseteq Seq(S)
  BY <1>1
<1>3. \E f \in [1 .. Cardinality(S) -> S] : IsInjective(f)
  BY <1>1 DEF ExistsBijection, Bijection, Injection
<1>4. SetToSeq(S) \in [1 .. Cardinality(S) -> S]
  BY <1>3 DEF SetToSeq
<1>5. SetToSeqs(S) \subseteq [1 .. Cardinality(S) -> S]
  BY DEF SetToSeqs
<1> QED
  BY <1>2, <1>4, <1>5

LEMMA WiderSeq == ASSUME NEW S, NEW T, S \subseteq T, NEW q \in Seq(S) PROVE q \in Seq(T)
OBVIOUS

LEMMA NodeSets ==
  /\ Recorders = {"gcp", "azure"} \union TreeProjects
  /\ TreeNodes \subseteq Nodes /\ AzureNodes \subseteq Nodes
  /\ \A p \in TreeProjects : ResourceOf[p] \in Nodes /\ p \in Nodes
  /\ \A S \in SUBSET Nodes : IsFiniteSet(S)
<1>1. \A S \in SUBSET Nodes : IsFiniteSet(S)
  BY FS_Subset, ScanAssumption
<1> QED
  BY <1>1, ScanAssumption DEF TreeNodes, GcpNodes, AzureNodes

\* What a project or folder has above it.
LEMMA TreeType ==
  ASSUME TreeInv, NEW n \in Folders \union TreeProjects, tree[n] # NoParent
  PROVE  tree[n] \in Nodes
BY ScanAssumption DEF TreeInv, GcpNodes

\* The nodes a walk stores, whatever is denied.
LEMMA WalkType ==
  ASSUME NEW denied \in SUBSET MayDeny, NEW a \in Orders(Orgs, denied),
         NEW b \in Orders(Folders, denied)
  PROVE  a \o b \o SetToSeq(TreeProjects \ denied) \in Seq(TreeNodes)
<1> DEFINE A == DirectParents(Orgs, denied) \ denied
           B == DirectParents(Folders, denied) \ denied
           C == TreeProjects \ denied
<1>1. A \subseteq TreeNodes /\ B \subseteq TreeNodes /\ C \subseteq TreeNodes
  BY DEF DirectParents, TreeNodes
<1>2. A \in SUBSET Nodes /\ B \in SUBSET Nodes /\ C \in SUBSET Nodes
  BY <1>1, NodeSets
<1> HIDE DEF A, B, C
<1>3. IsFiniteSet(A) /\ IsFiniteSet(B) /\ IsFiniteSet(C)
  BY <1>2, NodeSets
<1>4. a \in Seq(A) /\ b \in Seq(B) /\ SetToSeq(C) \in Seq(C)
  BY <1>3, Arranged DEF Orders, A, B
<1>5. a \in Seq(TreeNodes) /\ b \in Seq(TreeNodes) /\ SetToSeq(C) \in Seq(TreeNodes)
  BY <1>1, <1>4, WiderSeq
<1> QED
  BY <1>5 DEF C

-----------------------------------------------------------------------------
(* The walk and the stitching keep to their places. *)

LEMMA TreeStart == HierarchyScanInit => TreeInv
BY ScanAssumption DEF HierarchyScanInit, TreeInv, Walk, Stitching, Places

\* Steps that leave GCP's walk as it is.
LEMMA AzureMoves ==
  ASSUME TreeInv, StoreAzure \/ Stitch \/ Stitched \/ StitchFails
  PROVE  TreeInv'
<1>1. UNCHANGED <<tree, moved, gcp, svc, scans, clean>>
  BY Zenon DEF StoreAzure, Stitch, Stitched, StitchFails
<1>2. azure' \in Stitching
  <2>1. CASE StoreAzure
    BY <2>1 DEF TreeInv, Stitching, StoreAzure
  <2>2. CASE Stitch
    <3>1. \E listed \in BOOLEAN : azure' = [at |-> "stitching", listed |-> listed]
      BY <2>2, Zenon DEF Stitch
    <3> QED
      BY <3>1 DEF Stitching
  <2>3. CASE Stitched
    BY <2>3 DEF TreeInv, Stitching, Stitched
  <2>4. CASE StitchFails
    BY <2>4 DEF TreeInv, Stitching, StitchFails
  <2> QED
    BY <2>1, <2>2, <2>3, <2>4
<1> QED
  BY <1>1, <1>2 DEF TreeInv

LEMMA WalkStarts == ASSUME TreeInv, StartTreeScan PROVE TreeInv'
<1>1. azure' \in Stitching
  BY DEF StartTreeScan, Stitching
<1>2. gcp' \in Walk /\ gcp'.at \in {"store", "off"}
  <2>1. PICK providers \in ScanProviders :
          IF "gcp" \in providers
            THEN \E denied \in SUBSET MayDeny :
                   \E a \in Orders(Orgs, denied), b \in Orders(Folders, denied) :
                     gcp' = [at |-> "store",
                             todo |-> a \o b \o SetToSeq(TreeProjects \ denied),
                             denied |-> denied, quiet |-> denied = {}, good |-> denied = {}]
            ELSE gcp' = [gcp EXCEPT !.at = "off"]
    BY DEF StartTreeScan
  <2>2. CASE "gcp" \in providers
    <3>1. PICK denied \in SUBSET MayDeny :
            \E a \in Orders(Orgs, denied), b \in Orders(Folders, denied) :
              gcp' = [at |-> "store",
                      todo |-> a \o b \o SetToSeq(TreeProjects \ denied),
                      denied |-> denied, quiet |-> denied = {}, good |-> denied = {}]
      BY <2>1, <2>2
    <3>2. PICK a \in Orders(Orgs, denied), b \in Orders(Folders, denied) :
              gcp' = [at |-> "store",
                      todo |-> a \o b \o SetToSeq(TreeProjects \ denied),
                      denied |-> denied, quiet |-> denied = {}, good |-> denied = {}]
      BY <3>1
    <3> DEFINE todo == a \o b \o SetToSeq(TreeProjects \ denied)
    <3>3. todo \in Seq(TreeNodes)
      BY WalkType
    <3>4. gcp' = [at |-> "store", todo |-> todo, denied |-> denied,
                  quiet |-> denied = {}, good |-> denied = {}]
      BY <3>2
    <3> HIDE DEF todo
    <3> QED
      BY <3>3, <3>4 DEF Walk, Places
  <2>3. CASE "gcp" \notin providers
    BY <2>1, <2>3 DEF TreeInv, Walk, Places
  <2> QED
    BY <2>2, <2>3
<1>3. UNCHANGED <<tree, svc, scans, clean>> /\ scans < MaxScans
  BY DEF StartTreeScan
<1> QED
  BY <1>1, <1>2, <1>3 DEF TreeInv

LEMMA WalkMoves ==
  ASSUME TreeInv, StoreNode \/ RecordNode \/ NodeRecorded \/ HierarchyAborts
  PROVE  TreeInv'
<1>1. UNCHANGED <<tree, svc, azure, scans, clean>>
  BY Zenon DEF StoreNode, RecordNode, NodeRecorded, HierarchyAborts
<1>2. gcp.at # "idle"
  BY DEF StoreNode, RecordNode, NodeRecorded, HierarchyAborts
<1>3. gcp' \in Walk /\ (gcp'.at \in {"record", "recording"} => gcp'.todo # <<>>)
  <2>1. CASE StoreNode
    BY <2>1 DEF TreeInv, StoreNode, Walk, Places
  <2>2. CASE RecordNode
    <3>1. CASE gcp' = [gcp EXCEPT !.at = "store", !.todo = Tail(@)]
      <4>1. Tail(gcp.todo) \in Seq(TreeNodes)
        BY <2>2 DEF TreeInv, RecordNode, Walk
      <4> QED
        BY <3>1, <4>1 DEF TreeInv, Walk, Places
    <3>2. CASE gcp' = [gcp EXCEPT !.at = "recording"]
      BY <2>2, <3>2 DEF TreeInv, RecordNode, Walk, Places
    <3> QED
      BY <2>2, <3>1, <3>2 DEF RecordNode
  <2>3. CASE NodeRecorded
    <3> DEFINE quiet == gcp.quiet /\ ~tx["gcp"].missing
    <3>1. quiet \in BOOLEAN
      OBVIOUS
    <3>2. Tail(gcp.todo) \in Seq(TreeNodes)
      BY <2>3 DEF TreeInv, NodeRecorded, Walk
    <3>3. gcp' = [gcp EXCEPT !.at = "store", !.todo = Tail(gcp.todo), !.quiet = quiet]
      BY <2>3 DEF NodeRecorded
    <3> HIDE DEF quiet
    <3> QED
      BY <3>1, <3>2, <3>3 DEF TreeInv, Walk, Places
  <2>4. CASE HierarchyAborts
    <3>1. gcp' = [gcp EXCEPT !.at = "done", !.todo = <<>>, !.quiet = FALSE, !.good = FALSE]
      BY <2>4 DEF HierarchyAborts
    <3>2. <<>> \in Seq(TreeNodes) /\ "done" \in Places
      BY DEF Places
    <3>3. gcp \in Walk
      BY DEF TreeInv
    <3>4. gcp' \in Walk
      BY <3>1, <3>2, <3>3 DEF Walk
    <3>5. gcp'.at = "done"
      BY <3>1, <3>3 DEF Walk
    <3> QED
      BY <3>4, <3>5
  <2> QED
    BY <2>1, <2>2, <2>3, <2>4
<1> QED
  BY <1>1, <1>2, <1>3 DEF TreeInv

LEMMA ServicesMove ==
  ASSUME TreeInv, NEW p \in TreeProjects,
         StoreResource(p) \/ RecordResource(p) \/ ResourceRecorded(p) \/ ResourceFails(p)
  PROVE  TreeInv'
<1>1. UNCHANGED <<tree, azure, scans, clean>>
  BY Zenon DEF StoreResource, RecordResource, ResourceRecorded, ResourceFails
<1>2. svc' \in [TreeProjects -> {"idle", "store", "record", "recording"}]
  BY DEF TreeInv, StoreResource, RecordResource, ResourceRecorded, ResourceFails
<1>3. gcp' \in Walk /\ gcp'.at = gcp.at /\ gcp'.todo = gcp.todo
  <2>1. CASE StoreResource(p) \/ RecordResource(p)
    BY <2>1 DEF TreeInv, StoreResource, RecordResource
  <2>2. CASE ResourceRecorded(p)
    <3> DEFINE quiet == gcp.quiet /\ ~tx[p].missing
    <3>1. quiet \in BOOLEAN
      OBVIOUS
    <3>2. gcp' = [gcp EXCEPT !.quiet = quiet]
      BY <2>2 DEF ResourceRecorded
    <3> HIDE DEF quiet
    <3> QED
      BY <3>1, <3>2 DEF TreeInv, Walk
  <2>3. CASE ResourceFails(p)
    BY <2>3 DEF TreeInv, ResourceFails, Walk
  <2> QED
    BY <2>1, <2>2, <2>3
<1> QED
  BY <1>1, <1>2, <1>3 DEF TreeInv

LEMMA ScanMoves ==
  ASSUME TreeInv, StartServices \/ ServicesEnd \/ TreeScanEnds \/ Move
  PROVE  TreeInv'
<1>1. CASE StartServices
  BY <1>1 DEF TreeInv, StartServices, Walk, Places
<1>2. CASE ServicesEnd
  BY <1>2 DEF TreeInv, ServicesEnd, Walk, Places
<1>3. CASE TreeScanEnds
  <2>1. gcp' = [gcp EXCEPT !.at = "idle", !.denied = {}] /\ gcp.at # "idle"
    BY <1>3 DEF TreeScanEnds
  <2>2. azure' = [azure EXCEPT !.at = "idle"]
    BY <1>3 DEF TreeScanEnds
  <2>3. scans' = scans + 1 /\ scans < MaxScans
    BY <1>3, <2>1 DEF TreeScanEnds, TreeInv
  <2>4. clean' \in {clean, clean + 1, 0} /\ UNCHANGED <<tree, svc>>
    BY <1>3 DEF TreeScanEnds
  <2>5. scans' \in 0 .. MaxScans /\ clean' \in 0 .. scans'
    BY <2>3, <2>4, ScanAssumption DEF TreeInv
  <2>6. gcp' \in Walk /\ gcp'.at = "idle" /\ azure' \in Stitching
    BY <2>1, <2>2 DEF TreeInv, Walk, Stitching, Places
  <2> QED
    BY <2>4, <2>5, <2>6 DEF TreeInv
<1>4. CASE Move
  <2>1. tree' \in Trees
    BY <1>4 DEF Move
  <2>2. gcp' = [gcp EXCEPT !.quiet = FALSE] /\ gcp.at = "idle"
    BY <1>4 DEF Move
  <2>3. clean' = 0 /\ UNCHANGED <<svc, azure, scans>>
    BY <1>4 DEF Move
  <2>4. gcp' \in Walk /\ gcp'.at = "idle"
    BY <2>2 DEF TreeInv, Walk
  <2> QED
    BY <2>1, <2>3, <2>4 DEF TreeInv
<1> QED
  BY <1>1, <1>2, <1>3, <1>4

\* The walk keeps to its types and places under every step.
LEMMA TreeStep == TreeInv /\ [HierarchyScanNext]_treeVars => TreeInv'
<1> SUFFICES ASSUME TreeInv, [HierarchyScanNext]_treeVars
             PROVE  TreeInv'
  OBVIOUS
<1>1. CASE UNCHANGED treeVars
  BY <1>1 DEF treeVars, TreeInv
<1>2. CASE \E w \in Recorders : /\ RecordPair(w)
                                /\ UNCHANGED <<tree, moved, gcp, svc, azure, scans, clean>>
  <2>1. UNCHANGED <<tree, moved, gcp, svc, azure, scans, clean>>
    BY <1>2, Zenon
  <2> QED
    BY <2>1 DEF TreeInv
<1>3. CASE \E p \in TreeProjects : \/ StoreResource(p) \/ RecordResource(p)
                                   \/ ResourceRecorded(p) \/ ResourceFails(p)
  BY <1>3, ServicesMove
<1> QED
  BY <1>1, <1>2, <1>3, WalkStarts, WalkMoves, ScanMoves, AzureMoves, Zenon
     DEF HierarchyScanNext

-----------------------------------------------------------------------------
(* Every step is one of the tables. *)

\* The pairs a walk, a service and the stitching hand over are pairs of nodes.
LEMMA WalkPairs ==
  ASSUME TreeInv, gcp.at \in {"record", "recording"} \/ gcp.todo # <<>>
  PROVE  This \in Nodes /\ PairsOf(This) \in Seq(Pairs)
<1>1. This \in TreeNodes
  <2>1. gcp.todo \in Seq(TreeNodes) /\ gcp.todo # <<>>
    BY DEF TreeInv, Walk
  <2> QED
    BY <2>1 DEF This
<1>2. This \in Nodes
  BY <1>1, NodeSets
<1> HIDE DEF This
<1>3. CASE This \in Orgs
  BY <1>2, <1>3 DEF PairsOf, Pairs
<1>4. CASE This \notin Orgs
  <2>1. This \in Folders \union TreeProjects
    BY <1>1, <1>4 DEF TreeNodes
  <2>2. tree[This] # NoParent => tree[This] \in Nodes
    BY <2>1, TreeType
  <2>3. CASE tree[This] = NoParent
    BY <1>2, <1>4, <2>3 DEF PairsOf
  <2>4. CASE tree[This] # NoParent
    BY <1>2, <1>4, <2>2, <2>4 DEF PairsOf, Pairs
  <2> QED
    BY <2>3, <2>4
<1> QED
  BY <1>2, <1>3, <1>4

LEMMA ParentPairs ==
  ASSUME NEW S \in SUBSET AzureNodes, \A n \in S : AzureParent[n] # NoParent, NEW q \in Seq(S)
  PROVE  AsPairs(q) \in Seq(Pairs)
<1>1. \A i \in DOMAIN q : q[i] \in Nodes /\ AzureParent[q[i]] \in Nodes
  <2> SUFFICES ASSUME NEW i \in DOMAIN q
               PROVE  q[i] \in Nodes /\ AzureParent[q[i]] \in Nodes
    OBVIOUS
  <2>1. q[i] \in S
    OBVIOUS
  <2>2. q[i] \in AzureNodes /\ AzureParent[q[i]] \in AzureNodes
    BY <2>1, ScanAssumption
  <2> QED
    BY <2>2, NodeSets
<1>2. \A i \in DOMAIN q : <<q[i], AzureParent[q[i]]>> \in Pairs
  BY <1>1 DEF Pairs
<1>3. Len(q) \in Nat /\ DOMAIN q = 1 .. Len(q)
  OBVIOUS
<1> QED
  BY <1>2, <1>3 DEF AsPairs

LEMMA StitchPairs ==
  ASSUME NEW listed \in BOOLEAN, NEW q \in EntityOrders
  PROVE  LET seeds == SetToSeq(Groups \union Subs)
         IN  [i \in DOMAIN seeds |-> <<seeds[i], seeds[i]>>]
             \o (IF listed THEN AsPairs(q) ELSE <<>>)
             \o AsPairs(SetToSeq(ResourceGroups)) \in Seq(Pairs)
<1> DEFINE tops == Groups \union Subs
           seeds == SetToSeq(tops)
           roots == [i \in DOMAIN seeds |-> <<seeds[i], seeds[i]>>]
<1>1. tops \subseteq Nodes /\ Entities \subseteq AzureNodes /\ ResourceGroups \subseteq AzureNodes
  BY NodeSets DEF Entities, AzureNodes
<1>2. IsFiniteSet(tops) /\ IsFiniteSet(Entities) /\ IsFiniteSet(ResourceGroups)
  <2>1. tops \in SUBSET Nodes /\ Entities \in SUBSET Nodes /\ ResourceGroups \in SUBSET Nodes
    BY <1>1, NodeSets
  <2> HIDE DEF tops
  <2> QED
    BY <2>1, NodeSets
<1>3. seeds \in Seq(tops)
  BY <1>2, Arranged
<1>4. roots \in Seq(Pairs)
  <2>1. Len(seeds) \in Nat /\ DOMAIN seeds = 1 .. Len(seeds)
    BY <1>3
  <2>2. \A i \in DOMAIN seeds : <<seeds[i], seeds[i]>> \in Pairs
    <3>1. \A i \in DOMAIN seeds : seeds[i] \in Nodes
      BY <1>1, <1>3
    <3> QED
      BY <3>1 DEF Pairs
  <2> HIDE DEF seeds
  <2>3. roots \in [1 .. Len(seeds) -> Pairs]
    BY <2>1, <2>2
  <2> HIDE DEF roots
  <2> QED
    BY <2>1, <2>3
<1>5. AsPairs(q) \in Seq(Pairs)
  <2>1. q \in Seq(Entities)
    BY <1>2, Arranged DEF EntityOrders
  <2>2. \A n \in Entities : AzureParent[n] # NoParent
    BY DEF Entities
  <2> QED
    BY <1>1, <2>1, <2>2, ParentPairs
<1>6. AsPairs(SetToSeq(ResourceGroups)) \in Seq(Pairs)
  <2>1. SetToSeq(ResourceGroups) \in Seq(ResourceGroups)
    BY <1>2, Arranged
  <2>2. \A n \in ResourceGroups : AzureParent[n] # NoParent
    BY TreeAssumption, ScanAssumption DEF GcpNodes, AzureNodes
  <2> QED
    BY <1>1, <2>1, <2>2, ParentPairs
<1>7. (IF listed THEN AsPairs(q) ELSE <<>>) \in Seq(Pairs)
  BY <1>5
<1> HIDE DEF roots
<1>8. roots \o (IF listed THEN AsPairs(q) ELSE <<>>) \o AsPairs(SetToSeq(ResourceGroups))
        \in Seq(Pairs)
  BY <1>4, <1>6, <1>7
<1> QED
  BY <1>8 DEF roots

LEMMA StepOfTables ==
  TreeInv /\ [HierarchyScanNext]_treeVars => [HierarchyNext]_hierarchyVars
<1> SUFFICES ASSUME TreeInv, [HierarchyScanNext]_treeVars
             PROVE  [HierarchyNext]_hierarchyVars
  OBVIOUS
<1>1. \A w \in Recorders : RecordPair(w) \/ BatchCommits(w) \/ BatchFails(w) => HierarchyNext
  BY Zenon DEF HierarchyNext
<1>2. \A w \in Recorders : \A pairs \in Seq(Pairs) : BatchStarts(w, pairs) => HierarchyNext
  BY Zenon DEF HierarchyNext
<1>3. \A batch \in SUBSET Nodes : StoreRows(batch) => HierarchyNext
  BY Zenon DEF HierarchyNext
<1>4. "gcp" \in Recorders /\ "azure" \in Recorders /\ TreeProjects \subseteq Recorders
  BY NodeSets
<1>5. ASSUME StartTreeScan \/ StartServices \/ ServicesEnd \/ TreeScanEnds \/ Move
             \/ UNCHANGED treeVars
      PROVE  UNCHANGED hierarchyVars
  BY <1>5, Zenon DEF StartTreeScan, StartServices, ServicesEnd, TreeScanEnds, Move, treeVars
<1>6. ASSUME StoreNode
      PROVE  HierarchyNext
  <2>1. {This} \in SUBSET Nodes
    BY <1>6, WalkPairs DEF StoreNode
  <2> QED
    BY <1>3, <1>6, <2>1, Zenon DEF StoreNode
<1>7. ASSUME RecordNode
      PROVE  HierarchyNext \/ UNCHANGED hierarchyVars
  <2>1. PairsOf(This) \in Seq(Pairs)
    BY <1>7, WalkPairs DEF RecordNode
  <2> QED
    BY <1>2, <1>4, <1>7, <2>1, Zenon DEF RecordNode
<1>8. ASSUME NodeRecorded
      PROVE  HierarchyNext
  BY <1>1, <1>4, <1>8, Zenon DEF NodeRecorded
<1>9. ASSUME HierarchyAborts
      PROVE  HierarchyNext \/ UNCHANGED hierarchyVars
  BY <1>1, <1>4, <1>9, Zenon DEF HierarchyAborts
<1>10. ASSUME NEW p \in TreeProjects,
              StoreResource(p) \/ RecordResource(p) \/ ResourceRecorded(p) \/ ResourceFails(p)
       PROVE  HierarchyNext
  <2>1. p \in Recorders
    BY <1>4
  <2>2. {ResourceOf[p]} \in SUBSET Nodes
    BY NodeSets
  <2>3. <<<<ResourceOf[p], p>>>> \in Seq(Pairs)
    BY NodeSets DEF Pairs
  <2>4. CASE StoreResource(p)
    BY <1>3, <2>2, <2>4, Zenon DEF StoreResource
  <2>5. CASE RecordResource(p)
    BY <1>2, <2>1, <2>3, <2>5, Zenon DEF RecordResource
  <2>6. CASE ResourceRecorded(p)
    BY <1>1, <2>1, <2>6, Zenon DEF ResourceRecorded
  <2>7. CASE ResourceFails(p)
    BY <1>1, <2>1, <2>7, Zenon DEF ResourceFails
  <2> QED
    BY <1>10, <2>4, <2>5, <2>6, <2>7
<1>11. ASSUME StoreAzure
       PROVE  HierarchyNext
  <2>1. AzureNodes \in SUBSET Nodes
    BY NodeSets
  <2> QED
    BY <1>3, <1>11, <2>1, Zenon DEF StoreAzure
<1>12. ASSUME Stitch
       PROVE  HierarchyNext
  <2>1. PICK listed \in BOOLEAN, q \in EntityOrders :
          LET seeds == SetToSeq(Groups \union Subs)
          IN  BatchStarts("azure", [i \in DOMAIN seeds |-> <<seeds[i], seeds[i]>>]
                                     \o (IF listed THEN AsPairs(q) ELSE <<>>)
                                     \o AsPairs(SetToSeq(ResourceGroups)))
    BY <1>12, Zenon DEF Stitch
  <2> DEFINE seeds == SetToSeq(Groups \union Subs)
             pairs == [i \in DOMAIN seeds |-> <<seeds[i], seeds[i]>>]
                        \o (IF listed THEN AsPairs(q) ELSE <<>>)
                        \o AsPairs(SetToSeq(ResourceGroups))
  <2>2. pairs \in Seq(Pairs)
    BY StitchPairs
  <2>3. BatchStarts("azure", pairs)
    BY <2>1
  <2> HIDE DEF pairs
  <2> QED
    BY <1>2, <1>4, <2>2, <2>3
<1>13. ASSUME Stitched \/ StitchFails
       PROVE  HierarchyNext
  BY <1>1, <1>4, <1>13, Zenon DEF Stitched, StitchFails
<1> QED
  BY <1>1, <1>5, <1>6, <1>7, <1>8, <1>9, <1>10, <1>11, <1>12, <1>13, Zenon
     DEF HierarchyScanNext

-----------------------------------------------------------------------------
\* The walk of GCP, the services and Azure's stitching keep to their places.
THEOREM TreeInvariance == HierarchyScanSpec => []TreeInv
BY TreeStart, TreeStep, PTL DEF HierarchyScanSpec

\* The scans implement the tables: whatever they record, in whatever order, the
\* database goes through a behaviour of HierarchyClosure.
THEOREM ScansUseTheTables == HierarchyScanSpec => HierarchySpec
<1>1. HierarchyScanInit => HierarchyInit
  BY DEF HierarchyScanInit
<1> QED
  BY <1>1, StepOfTables, TreeInvariance, PTL DEF HierarchyScanSpec, HierarchySpec

\* Types of everything a scan of the hierarchy touches.
THEOREM TreeTypes == HierarchyScanSpec => []HierarchyScanTypeOK
<1>1. TreeInv /\ HierarchyTypeOK => HierarchyScanTypeOK
  <2> SUFFICES ASSUME TreeInv, HierarchyTypeOK
               PROVE  HierarchyScanTypeOK
    OBVIOUS
  <2>1. clean \in 0 .. MaxScans /\ scans \in 0 .. MaxScans
    BY ScanAssumption DEF TreeInv
  <2> QED
    BY <2>1 DEF TreeInv, Walk, Places, Stitching, HierarchyScanTypeOK
<1> QED
  BY <1>1, TreeInvariance, ScansUseTheTables, HierarchyTypes, PTL

\* No scan records an ancestor that no pair it, or a scan before it, recorded
\* leads to, though folders come in any order and services run side by side.
THEOREM ScansInventNothing == HierarchyScanSpec => [](ClosureSound /\ ClosureBacked)
BY ScansUseTheTables, ClosureIsSound, ClosureIsBacked, PTL

\* What scans of GCP and Azure leave in the closure and its edges follows from the
\* pairs they recorded.
THEOREM ScansKeepClosureTrue == HierarchyScanSpec => []ClosureIsTrue
BY ScansUseTheTables, ClosureStaysTrue, PTL

-----------------------------------------------------------------------------
(* What the scans leave is linked. *)

Tops == Groups \union Subs

\* m is directly above n, or n itself.
Kin(n, m) ==
    \/ n = m
    \/ n \in Folders \union TreeProjects /\ m = tree[n]
    \/ m \in TreeProjects /\ n = ResourceOf[m]
    \/ n \in AzureNodes /\ m = AzureParent[n]

\* Until somebody moves a folder, everything that is recorded is of one tree.
OneTree ==
    ~moved => /\ \A x \in recorded : Kin(x[1], x[2])
              /\ \A w \in Recorders : /\ \A x \in tx[w].done : Kin(x[1], x[2])
                                      /\ \A i \in DOMAIN tx[w].todo :
                                            Kin(tx[w].todo[i][1], tx[w].todo[i][2])

NoLoops ==
    /\ \A e \in contains : e[1] # e[2]
    /\ \A w \in Recorders : \A e \in tx[w].edges : e[1] # e[2]

\* Only the stitching writes rows below Azure's nodes, and only of their parents.
Apart ==
    /\ \A w \in Recorders \ {"azure"} :
          /\ \A i \in DOMAIN tx[w].todo : tx[w].todo[i][1] \in GcpNodes
          /\ \A x \in Pairs : tx[w].wrote[x] # NoDepth => x[2] \in GcpNodes
    /\ \A i \in DOMAIN tx["azure"].todo :
          LET x == tx["azure"].todo[i]
          IN  x[1] \in AzureNodes /\ (x[1] = x[2] \/ x[2] = AzureParent[x[1]])

\* The edge of the pair in hand is made, or its end is missed.
InHand ==
    gcp.at = "recording" =>
        \/ tx["gcp"].todo = PairsOf(This)
        \/ /\ tx["gcp"].todo = <<>>
           /\ This \notin Orgs =>
                 tx["gcp"].missing \/ <<tree[This], This>> \in tx["gcp"].edges

HasTurn(q, x) == \E i \in DOMAIN q : q[i] = x

\* As long as no warning was raised, a node is linked or its turn is to come.
LinkedSoFar ==
    gcp.quiet =>
        \A n \in Known \ Orgs : tree[n] # NoParent =>
            \/ <<tree[n], n>> \in contains
            \/ /\ gcp.at \in {"store", "record", "recording"}
               /\ HasTurn(gcp.todo, n)

\* A row below a node of Azure is its own, or one more than its parent's.
AzureRows(table) ==
    \A a \in Nodes, n \in AzureNodes : table[<<a, n>>] # NoDepth =>
        \/ a = n /\ table[<<a, n>>] = 0
        \/ /\ a \in AzureNodes /\ AzureDepth[a] < AzureDepth[n] /\ AzureParent[n] # NoParent
           /\ table[<<a, AzureParent[n]>>] # NoDepth
           /\ table[<<a, n>>] = table[<<a, AzureParent[n]>>] + 1

\* n is below its parent and all that is above it.
Below(table, n) ==
    /\ table[<<AzureParent[n], AzureParent[n]>>] # NoDepth
    /\ \A a \in Nodes : table[<<a, AzureParent[n]>>] # NoDepth => table[<<a, n>>] # NoDepth

\* The nodes a stitching places under their parents.
Placed == {n \in AzureNodes : AzureParent[n] # NoParent /\ (azure.listed \/ n \in ResourceGroups)}

\* Of the pairs still to come none adds rows to the parent of an earlier child, so a
\* node that is placed stays below all there is above its parent.
Ordered(pairs) ==
    \A i, j \in DOMAIN pairs : i < j /\ pairs[i][1] # pairs[i][2] => pairs[j][1] # pairs[i][2]

Stitches(pairs, table) ==
    /\ Ordered(pairs)
    /\ \A m \in Tops : table[<<m, m>>] # NoDepth \/ HasTurn(pairs, <<m, m>>)
    /\ \A n \in Placed :
          \/ HasTurn(pairs, <<n, AzureParent[n]>>)
          \/ Below(table, n) /\ \A i \in DOMAIN pairs : pairs[i][1] # AzureParent[n]

StitchInv ==
    /\ AzureRows(closure) /\ AzureRows(View("azure"))
    /\ azure.at = "stitching" => Stitches(tx["azure"].todo, View("azure"))
    /\ azure.at = "stitched" => \A n \in Placed : Below(closure, n)

LinkInv == OneTree /\ NoLoops /\ Apart /\ InHand /\ LinkedSoFar /\ StitchInv

-----------------------------------------------------------------------------
(* Natural numbers: the least of a set of them. *)

\* A set of natural numbers that is not empty has a least element.
LEMMA LeastNatural ==
    ASSUME NEW T, T \subseteq Nat, T # {}
    PROVE  \E x \in T : \A y \in T : x <= y
<1> DEFINE R == OpToRel(<, Nat)
<1>1. IsWellFoundedOn(R, Nat)
  BY NatLessThanWellFounded
<1>2. \A x, y \in Nat : y < x => <<y, x>> \in R
  BY DEF OpToRel
<1> HIDE DEF R
<1>3. PICK x \in T : \A y \in T : ~(<<y, x>> \in R)
  BY <1>1, WFMin
<1>4. \A y \in T : ~(y < x)
  BY <1>2, <1>3
<1>5. QED
  BY <1>4

-----------------------------------------------------------------------------
(* Acyclicity. *)

\* Nodes of one kind.
LEMMA KindsApart ==
  /\ \A n \in AzureNodes : n \in Nodes /\ n \notin GcpNodes
  /\ \A n \in Orgs : n \in GcpNodes /\ n \notin Folders /\ n \notin TreeProjects
                     /\ \A p \in TreeProjects : n # ResourceOf[p]
  /\ \A n \in Folders : n \in GcpNodes /\ n \notin TreeProjects
                        /\ \A p \in TreeProjects : n # ResourceOf[p]
  /\ \A n \in TreeProjects : n \in GcpNodes /\ \A p \in TreeProjects : n # ResourceOf[p]
  /\ \A p \in TreeProjects : ResourceOf[p] \in GcpNodes
  /\ GcpNodes \subseteq Nodes
  /\ Tops \subseteq AzureNodes
BY ScanAssumption, TreeAssumption DEF GcpNodes, AzureNodes, Tops

\* Azure's parents are nodes of Azure, less deep, and groups or subscriptions.
LEMMA AzureAbove ==
  ASSUME NEW n \in AzureNodes, AzureParent[n] # NoParent
  PROVE  /\ AzureParent[n] \in Tops /\ AzureParent[n] \in AzureNodes /\ AzureParent[n] \in Nodes
         /\ AzureDepth[n] \in Nat /\ AzureDepth[AzureParent[n]] \in Nat
         /\ AzureDepth[AzureParent[n]] < AzureDepth[n] /\ AzureParent[n] # n
<1>1. AzureParent[n] \in Tops
  BY TreeAssumption DEF AzureNodes, Tops
<1>2. AzureParent[n] \in AzureNodes /\ AzureParent[n] \in Nodes
  BY <1>1, KindsApart
<1>3. /\ AzureDepth[n] \in Nat /\ AzureDepth[AzureParent[n]] \in Nat
      /\ AzureDepth[AzureParent[n]] < AzureDepth[n]
  BY <1>2, TreeAssumption
<1> QED
  BY <1>1, <1>2, <1>3

\* What is above a folder or a project.
LEMMA TreeAbove ==
  ASSUME tree \in Trees, NEW n \in Folders \union TreeProjects, tree[n] # NoParent
  PROVE  tree[n] \in Orgs \union Folders /\ tree[n] # n /\ tree[n] \in Nodes
<1>1. tree[n] \in Orgs \union Folders
  BY ScanAssumption
<1>2. tree[n] \in Nodes
  BY <1>1, KindsApart
<1>3. CASE n \in TreeProjects
  BY <1>1, <1>2, <1>3, KindsApart
<1>4. CASE n \in Folders
  <2>1. \E m \in {n} : tree[m] \notin {n}
    BY <1>4, TreeAssumption, ZenonT(30)
  <2> QED
    BY <1>1, <1>2, <2>1
<1> QED
  BY <1>3, <1>4

\* No set of nodes leads only into itself.
LEMMA Acyclic ==
  ASSUME tree \in Trees, NEW Z \in SUBSET Nodes, Z # {}
  PROVE  \E x \in Z : \A y \in Z : Kin(x, y) => y = x
<1> SUFFICES ASSUME \A x \in Z : \E y \in Z : Kin(x, y) /\ y # x
             PROVE  FALSE
  BY Zenon
<1>1. \A x \in Z : x \notin AzureNodes
  <2> SUFFICES ASSUME NEW z \in Z, z \in AzureNodes PROVE FALSE
    OBVIOUS
  <2> DEFINE D == {AzureDepth[n] : n \in Z \intersect AzureNodes}
  <2>1. D \in SUBSET Nat /\ D # {}
    <3>1. \A n \in AzureNodes : AzureDepth[n] \in Nat
      BY TreeAssumption
    <3> QED
      BY <3>1
  <2>2. PICK d \in D : \A e \in D : d <= e
    <3> HIDE DEF D
    <3>1. PICK d \in D : TRUE
      BY <2>1
    <3> QED
      BY <2>1, <3>1, LeastNatural
  <2>3. PICK n \in Z \intersect AzureNodes : AzureDepth[n] = d
    BY <2>2
  <2>4. PICK m \in Z : Kin(n, m) /\ m # n
    BY <2>3
  <2>5. m = AzureParent[n]
    BY <2>3, <2>4, KindsApart DEF Kin
  <2>6. m # NoParent
    BY ScanAssumption
  <2>7. m \in AzureNodes /\ AzureDepth[m] < AzureDepth[n] /\ AzureDepth[n] \in Nat
        /\ AzureDepth[m] \in Nat
    BY <2>3, <2>5, <2>6, AzureAbove
  <2>8. d <= AzureDepth[m]
    BY <2>2, <2>7
  <2> QED
    BY <2>3, <2>7, <2>8
<1>2. \A x \in Z : x \notin Orgs
  <2> SUFFICES ASSUME NEW x \in Z, x \in Orgs PROVE FALSE
    OBVIOUS
  <2>1. PICK y \in Z : Kin(x, y) /\ y # x
    OBVIOUS
  <2> QED
    BY <1>1, <2>1, KindsApart DEF Kin
<1>3. \A x \in Z : x \in Folders \union TreeProjects => tree[x] \in Z /\ tree[x] \in Folders
  <2> SUFFICES ASSUME NEW x \in Z, x \in Folders \union TreeProjects
               PROVE  tree[x] \in Z /\ tree[x] \in Folders
    OBVIOUS
  <2>1. PICK y \in Z : Kin(x, y) /\ y # x
    OBVIOUS
  <2>2. y = tree[x]
    BY <1>1, <2>1, KindsApart DEF Kin
  <2>3. y # NoParent
    BY ScanAssumption
  <2>4. tree[x] \in Orgs \union Folders
    BY <2>2, <2>3, TreeAbove
  <2> QED
    BY <1>2, <2>1, <2>2, <2>4
<1> DEFINE S == Z \intersect Folders
<1>4. S # {}
  <2>1. PICK z \in Z : TRUE
    OBVIOUS
  <2>2. CASE z \in Folders \union TreeProjects
    BY <1>3, <2>2
  <2>3. CASE z \notin Folders \union TreeProjects
    <3>1. z \in Nodes
      OBVIOUS
    <3>2. PICK p \in TreeProjects : z = ResourceOf[p]
      BY <1>1, <1>2, <2>3, <3>1, ScanAssumption DEF GcpNodes
    <3>3. PICK y \in Z : Kin(z, y) /\ y # z
      BY <2>1
    <3>4. y \in TreeProjects
      BY <1>1, <2>3, <3>3 DEF Kin
    <3> QED
      BY <1>3, <3>4
  <2> QED
    BY <2>2, <2>3
<1>5. PICK n \in S : tree[n] \notin S
  <2>1. S \in SUBSET Folders
    OBVIOUS
  <2> HIDE DEF S
  <2> QED
    BY <1>4, <2>1, TreeAssumption
<1> QED
  BY <1>3, <1>5

\* What is above itself is above it in the forest, which has no loops.
LEMMA NothingReversed ==
  ASSUME tree \in Trees, HierarchyTypeOK, ~moved, OneTree, NoLoops, ClosureSound,
         ContainsMirrorsClosure
  PROVE  NoReversedContains
<1> SUFFICES ASSUME NEW e \in contains, closure[<<e[2], e[1]>>] # NoDepth PROVE FALSE
  BY DEF NoReversedContains
<1> DEFINE p == e[1]
           c == e[2]
           Reaches(x) == \A S \in SUBSET Nodes : ClosedUpward(S, recorded) /\ x \in S => c \in S
           Z == {x \in Nodes : Reaches(x)}
<1>1. e \in Pairs /\ p \in Nodes /\ c \in Nodes /\ p # c /\ <<c, p>> \in recorded
  BY DEF HierarchyTypeOK, Pairs, NoLoops, ContainsMirrorsClosure
<1>2. recorded \subseteq Pairs /\ \A x \in recorded : Kin(x[1], x[2])
  BY DEF HierarchyTypeOK, OneTree
<1>3. c \in Z /\ p \in Z
  <2>1. <<c, p>> \in Pairs
    BY <1>1 DEF Pairs
  <2>2. Reaches(p)
    BY <1>1, <2>1 DEF ClosureSound
  <2> QED
    BY <1>1, <2>2
<1>4. ASSUME NEW x \in Z PROVE \E y \in Z : Kin(x, y) /\ y # x
  <2>1. CASE x = c
    BY <1>1, <1>2, <1>3, <2>1
  <2>2. CASE x # c
    <3> SUFFICES ASSUME \A y \in Z : ~(<<x, y>> \in recorded /\ y # x) PROVE FALSE
      BY <1>2
    <3> DEFINE S == (Nodes \ Z) \union {x}
    <3>1. ClosedUpward(S, recorded)
      <4> SUFFICES ASSUME NEW z \in recorded, z[1] \in S PROVE z[2] \in S
        BY DEF ClosedUpward
      <4>1. z[1] \in Nodes /\ z[2] \in Nodes /\ z = <<z[1], z[2]>>
        BY <1>2 DEF Pairs
      <4>2. CASE z[1] = x
        BY <4>1, <4>2
      <4>3. CASE z[1] # x
        <5>1. ~Reaches(z[1])
          BY <4>1, <4>3
        <5>2. PICK T \in SUBSET Nodes : ClosedUpward(T, recorded) /\ z[1] \in T /\ c \notin T
          BY <5>1
        <5>3. z[2] \in T
          BY <5>2 DEF ClosedUpward
        <5>4. ~Reaches(z[2])
          BY <5>2, <5>3
        <5> QED
          BY <4>1, <5>4
      <4> QED
        BY <4>2, <4>3
    <3>2. S \in SUBSET Nodes /\ x \in S /\ Reaches(x)
      OBVIOUS
    <3>3. c \in S
      BY <3>1, <3>2
    <3> QED
      BY <1>3, <2>2, <3>3
  <2> QED
    BY <2>1, <2>2
<1>5. Z \in SUBSET Nodes /\ Z # {}
  BY <1>3
<1> HIDE DEF Z
<1> QED
  BY <1>4, <1>5, Acyclic

-----------------------------------------------------------------------------
(* The tables, under the steps of the scans. *)

LEMMA HeadAndTail ==
  ASSUME NEW S, NEW q \in Seq(S), q # <<>>
  PROVE  /\ Head(q) = q[1] /\ 1 \in DOMAIN q /\ Tail(q) \in Seq(S)
         /\ \A i \in DOMAIN Tail(q) : i \in Nat /\ i + 1 \in DOMAIN q /\ Tail(q)[i] = q[i + 1]
         /\ \A i \in DOMAIN q : i = 1 \/ (i - 1 \in DOMAIN Tail(q) /\ Tail(q)[i - 1] = q[i])
<1>1. Len(q) \in Nat /\ DOMAIN q = 1 .. Len(q) /\ Len(q) # 0
  OBVIOUS
<1>2. Tail(q) \in Seq(S) /\ DOMAIN Tail(q) = 1 .. (Len(q) - 1)
  BY <1>1
<1>3. \A i \in 1 .. (Len(q) - 1) : Tail(q)[i] = q[i + 1]
  BY <1>1
<1> QED
  BY <1>1, <1>2, <1>3

\* The pairs a scan hands to recorder w.
Feeds(w, pairs) ==
  /\ ~moved => \A i \in DOMAIN pairs : Kin(pairs[i][1], pairs[i][2])
  /\ w # "azure" => \A i \in DOMAIN pairs : pairs[i][1] \in GcpNodes
  /\ w = "azure" => \A i \in DOMAIN pairs :
                       LET x == pairs[i]
                       IN  x[1] \in AzureNodes /\ (x[1] = x[2] \/ x[2] = AzureParent[x[1]])

Discipline == OneTree /\ NoLoops /\ Apart

LEMMA TxTypes ==
  ASSUME HierarchyTypeOK, NEW w \in Recorders
  PROVE  /\ tx[w].todo \in Seq(Pairs) /\ tx[w].done \subseteq Pairs /\ tx[w].edges \subseteq Pairs
         /\ tx[w].wrote \in Tables /\ closure \in Tables /\ View(w) \in Tables
         /\ tx[w].missing \in BOOLEAN
         /\ DOMAIN tx = Recorders
BY ViewType DEF HierarchyTypeOK, Transactions

\* Steps that leave the tables alone, and steps of StoreRows.
LEMMA TablesAlone ==
  ASSUME Discipline, UNCHANGED <<closure, contains, recorded, tx>>,
         moved' \/ UNCHANGED <<tree, moved>>
  PROVE  Discipline'
BY DEF Discipline, OneTree, NoLoops, Apart, Kin

LEMMA StartKeepsDiscipline ==
  ASSUME Discipline, HierarchyTypeOK, NEW w \in Recorders, NEW batch \in Seq(Pairs),
         Feeds(w, batch), BatchStarts(w, batch), UNCHANGED <<tree, moved>>
  PROVE  Discipline'
<1>1. /\ tx'[w].todo = batch /\ tx'[w].done = {} /\ tx'[w].edges = {} /\ tx'[w].wrote = NoRows
      /\ \A v \in Recorders \ {w} : tx'[v] = tx[v]
      /\ UNCHANGED <<closure, contains, recorded>>
  BY TxTypes DEF BatchStarts, NoTx
<1>2. OneTree'
  BY <1>1 DEF Discipline, OneTree, Feeds, Kin
<1>3. NoLoops'
  BY <1>1 DEF Discipline, NoLoops
<1>4. \A x \in Pairs : NoRows[x] = NoDepth
  BY DEF NoRows
<1>5. Apart'
  BY <1>1, <1>4, NodeSets DEF Discipline, Apart, Feeds
<1> QED
  BY <1>2, <1>3, <1>5 DEF Discipline

LEMMA FailKeepsDiscipline ==
  ASSUME Discipline, HierarchyTypeOK, NEW w \in Recorders, BatchFails(w), UNCHANGED <<tree, moved>>
  PROVE  Discipline'
<1>1. /\ tx'[w].todo = <<>> /\ tx'[w].done = {} /\ tx'[w].edges = {} /\ tx'[w].wrote = NoRows
      /\ \A v \in Recorders \ {w} : tx'[v] = tx[v]
      /\ UNCHANGED <<closure, contains, recorded>>
  BY TxTypes DEF BatchFails, NoTx
<1>2. OneTree'
  BY <1>1 DEF Discipline, OneTree, Kin
<1>3. NoLoops'
  BY <1>1 DEF Discipline, NoLoops
<1>4. \A x \in Pairs : NoRows[x] = NoDepth
  BY DEF NoRows
<1>5. Apart'
  BY <1>1, <1>4, NodeSets DEF Discipline, Apart
<1> QED
  BY <1>2, <1>3, <1>5 DEF Discipline

LEMMA CommitKeepsDiscipline ==
  ASSUME Discipline, HierarchyTypeOK, NEW w \in Recorders, BatchCommits(w),
         UNCHANGED <<tree, moved>>
  PROVE  Discipline'
<1>1. /\ tx'[w].todo = <<>> /\ tx'[w].done = {} /\ tx'[w].edges = {} /\ tx'[w].wrote = NoRows
      /\ \A v \in Recorders \ {w} : tx'[v] = tx[v]
      /\ contains' = contains \union tx[w].edges /\ recorded' = recorded \union tx[w].done
  BY TxTypes DEF BatchCommits, NoTx
<1>2. OneTree'
  BY <1>1 DEF Discipline, OneTree, Kin
<1>3. NoLoops'
  BY <1>1 DEF Discipline, NoLoops
<1>4. \A x \in Pairs : NoRows[x] = NoDepth
  BY DEF NoRows
<1>5. Apart'
  BY <1>1, <1>4, NodeSets DEF Discipline, Apart
<1> QED
  BY <1>2, <1>3, <1>5 DEF Discipline

\* One pair: what becomes of the transaction and of its view.
LEMMA PairStep ==
  ASSUME HierarchyTypeOK, NEW w \in Recorders, RecordPair(w)
  PROVE  LET c == Head(tx[w].todo)[1]
             p == Head(tx[w].todo)[2]
         IN  /\ tx[w].todo # <<>> /\ Head(tx[w].todo) = tx[w].todo[1]
             /\ <<c, p>> = Head(tx[w].todo) /\ c \in Nodes /\ p \in Nodes
             /\ tx'[w].todo = Tail(tx[w].todo)
             /\ tx'[w].done = tx[w].done \union {<<c, p>>}
             /\ tx'[w].edges = IF c # p /\ {c, p} \subseteq rows
                               THEN tx[w].edges \union {<<p, c>>} ELSE tx[w].edges
             /\ tx'[w].missing = (tx[w].missing \/ Missing(c, p))
             /\ \A x \in Pairs : /\ x[2] # c => tx'[w].wrote[x] = tx[w].wrote[x]
                                 /\ View(w)'[x] = IF View(w)[x] # NoDepth THEN View(w)[x]
                                                  ELSE AncestorRows(View(w), c, p)[x]
             /\ \A v \in Recorders \ {w} : tx'[v] = tx[v]
             /\ UNCHANGED <<closure, contains, rows, recorded>>
<1> DEFINE c == Head(tx[w].todo)[1]
           p == Head(tx[w].todo)[2]
           wrote == KeepFirst(tx[w].wrote, AncestorRows(View(w), c, p))
<1>1. tx[w].todo \in Seq(Pairs) /\ tx[w].todo # <<>>
  BY TxTypes DEF RecordPair
<1>2. Head(tx[w].todo) = tx[w].todo[1] /\ Head(tx[w].todo) \in Pairs
  BY <1>1
<1>3. <<c, p>> = Head(tx[w].todo) /\ c \in Nodes /\ p \in Nodes
  BY <1>2 DEF Pairs
<1>4. tx' = [tx EXCEPT ![w] =
             [open |-> TRUE, todo |-> Tail(tx[w].todo), done |-> tx[w].done \union {<<c, p>>},
              wrote |-> wrote,
              edges |-> IF c # p /\ {c, p} \subseteq rows
                        THEN tx[w].edges \union {<<p, c>>} ELSE tx[w].edges,
              missing |-> tx[w].missing \/ Missing(c, p)]]
  BY DEF RecordPair, EdgeOf
<1>5. UNCHANGED <<closure, contains, rows, recorded>>
  BY DEF RecordPair
<1>6. \A x \in Pairs : wrote[x] = IF tx[w].wrote[x] = NoDepth THEN AncestorRows(View(w), c, p)[x]
                                  ELSE tx[w].wrote[x]
  BY DEF KeepFirst
<1>7. \A x \in Pairs : x[2] # c => AncestorRows(View(w), c, p)[x] = NoDepth
  BY DEF AncestorRows
<1> HIDE DEF wrote, c, p
<1>8. /\ tx'[w].todo = Tail(tx[w].todo) /\ tx'[w].done = tx[w].done \union {<<c, p>>}
      /\ tx'[w].edges = IF c # p /\ {c, p} \subseteq rows
                        THEN tx[w].edges \union {<<p, c>>} ELSE tx[w].edges
      /\ tx'[w].missing = (tx[w].missing \/ Missing(c, p))
      /\ tx'[w].wrote = wrote
      /\ \A v \in Recorders \ {w} : tx'[v] = tx[v]
  BY <1>4, TxTypes
<1>9. \A x \in Pairs : x[2] # c => tx'[w].wrote[x] = tx[w].wrote[x]
  BY <1>6, <1>7, <1>8
<1>10. ASSUME NEW x \in Pairs
       PROVE  View(w)'[x] = IF View(w)[x] # NoDepth THEN View(w)[x]
                            ELSE AncestorRows(View(w), c, p)[x]
  <2>1. View(w)[x] = IF closure[x] = NoDepth THEN tx[w].wrote[x] ELSE closure[x]
    BY DEF View, KeepFirst
  <2>2. View(w)'[x] = IF closure[x] = NoDepth THEN wrote[x] ELSE closure[x]
    BY <1>5, <1>8 DEF View, KeepFirst
  <2> QED
    BY <1>6, <2>1, <2>2
<1> QED
  BY <1>1, <1>2, <1>3, <1>5, <1>8, <1>9, <1>10 DEF c, p

LEMMA PairKeepsDiscipline ==
  ASSUME Discipline, HierarchyTypeOK, NEW w \in Recorders, RecordPair(w), UNCHANGED <<tree, moved>>
  PROVE  Discipline'
<1> DEFINE c == Head(tx[w].todo)[1]
           p == Head(tx[w].todo)[2]
<1>1. /\ tx[w].todo # <<>> /\ tx[w].todo \in Seq(Pairs) /\ <<c, p>> = tx[w].todo[1]
      /\ c \in Nodes /\ p \in Nodes
      /\ tx'[w].todo = Tail(tx[w].todo) /\ tx'[w].done = tx[w].done \union {<<c, p>>}
      /\ \A v \in Recorders \ {w} : tx'[v] = tx[v]
      /\ UNCHANGED <<closure, contains, rows, recorded>>
  BY PairStep, TxTypes
<1>2. tx'[w].edges = IF c # p /\ {c, p} \subseteq rows
                     THEN tx[w].edges \union {<<p, c>>} ELSE tx[w].edges
  BY PairStep
<1>3. \A x \in Pairs : x[2] # c => tx'[w].wrote[x] = tx[w].wrote[x]
  BY PairStep
<1> HIDE DEF c, p
<1>4. /\ 1 \in DOMAIN tx[w].todo
      /\ \A i \in DOMAIN tx'[w].todo : i + 1 \in DOMAIN tx[w].todo
                                       /\ tx'[w].todo[i] = tx[w].todo[i + 1]
  BY <1>1, HeadAndTail
<1>5. c = tx[w].todo[1][1] /\ p = tx[w].todo[1][2]
  BY <1>1
<1>6. OneTree'
  <2> SUFFICES ASSUME ~moved
               PROVE  /\ \A x \in recorded : Kin(x[1], x[2])
                      /\ \A v \in Recorders : /\ \A x \in tx'[v].done : Kin(x[1], x[2])
                                              /\ \A i \in DOMAIN tx'[v].todo :
                                                    Kin(tx'[v].todo[i][1], tx'[v].todo[i][2])
    BY <1>1 DEF OneTree, Kin
  <2>1. /\ \A x \in recorded : Kin(x[1], x[2])
        /\ \A v \in Recorders : /\ \A x \in tx[v].done : Kin(x[1], x[2])
                                /\ \A i \in DOMAIN tx[v].todo :
                                      Kin(tx[v].todo[i][1], tx[v].todo[i][2])
    BY DEF Discipline, OneTree
  <2>2. Kin(c, p)
    BY <1>4, <1>5, <2>1
  <2>3. \A x \in tx'[w].done : Kin(x[1], x[2])
    BY <1>1, <2>1, <2>2
  <2>4. \A i \in DOMAIN tx'[w].todo : Kin(tx'[w].todo[i][1], tx'[w].todo[i][2])
    BY <1>4, <2>1
  <2> QED
    BY <1>1, <2>1, <2>3, <2>4
<1>7. NoLoops'
  BY <1>1, <1>2 DEF Discipline, NoLoops
<1>8. Apart'
  <2>1. CASE w = "azure"
    BY <1>1, <1>4, <2>1, ZenonT(30) DEF Discipline, Apart
  <2>2. CASE w # "azure"
    <3>1. c \in GcpNodes
      BY <1>4, <1>5, <2>2 DEF Discipline, Apart
    <3>2. \A x \in Pairs : tx'[w].wrote[x] # NoDepth => x[2] \in GcpNodes
      BY <1>3, <2>2, <3>1 DEF Discipline, Apart
    <3>3. \A i \in DOMAIN tx'[w].todo : tx'[w].todo[i][1] \in GcpNodes
      BY <1>4, <2>2 DEF Discipline, Apart
    <3>4. tx'["azure"] = tx["azure"]
      BY <1>1, <2>2, NodeSets
    <3>5. ASSUME NEW v \in Recorders \ {"azure"}
          PROVE  /\ \A i \in DOMAIN tx'[v].todo : tx'[v].todo[i][1] \in GcpNodes
                 /\ \A x \in Pairs : tx'[v].wrote[x] # NoDepth => x[2] \in GcpNodes
      <4>1. CASE v = w
        BY <3>2, <3>3, <4>1
      <4>2. CASE v # w
        BY <1>1, <4>2 DEF Discipline, Apart
      <4> QED
        BY <4>1, <4>2
    <3>6. \A i \in DOMAIN tx'["azure"].todo :
             LET x == tx'["azure"].todo[i]
             IN  x[1] \in AzureNodes /\ (x[1] = x[2] \/ x[2] = AzureParent[x[1]])
      BY <3>4 DEF Discipline, Apart
    <3> QED
      BY <3>5, <3>6 DEF Apart
  <2> QED
    BY <2>1, <2>2
<1> QED
  BY <1>6, <1>7, <1>8 DEF Discipline

-----------------------------------------------------------------------------
(* Sequences of nodes, each of which has its turn. *)

\* An arrangement of a finite set misses nothing.
LEMMA Everybody ==
  ASSUME NEW S, IsFiniteSet(S), NEW q, q = SetToSeq(S) \/ q \in SetToSeqs(S)
  PROVE  \A x \in S : HasTurn(q, x)
<1> DEFINE n == Cardinality(S)
<1>1. n \in Nat /\ ExistsBijection(1 .. n, S)
  BY FS_CardinalityType
<1>2. \E f \in [1 .. n -> S] : IsInjective(f)
  BY <1>1 DEF ExistsBijection, Bijection, Injection
<1>3. q \in [1 .. n -> S] /\ IsInjective(q)
  <2>1. SetToSeq(S) \in [1 .. n -> S] /\ IsInjective(SetToSeq(S))
    BY <1>2, Zenon DEF SetToSeq
  <2>2. \A f \in SetToSeqs(S) : f \in [1 .. n -> S] /\ IsInjective(f)
    BY DEF SetToSeqs, IsInjective
  <2> QED
    BY <2>1, <2>2
<1>4. q \in Injection(1 .. n, S)
  BY <1>3 DEF Injection, IsInjective
<1>5. Cardinality(1 .. n) = n
  BY <1>1, FS_Interval
<1>6. q \in Surjection(1 .. n, S)
  BY <1>4, <1>5, FS_Injection
<1> QED
  BY <1>3, <1>6 DEF Surjection, HasTurn

LEMMA Joined ==
  ASSUME NEW S, NEW a \in Seq(S), NEW b \in Seq(S)
  PROVE  /\ a \o b \in Seq(S) /\ Len(a \o b) = Len(a) + Len(b)
         /\ Len(a) \in Nat /\ Len(b) \in Nat
         /\ \A i \in 1 .. Len(a) + Len(b) :
               (a \o b)[i] = IF i <= Len(a) THEN a[i] ELSE b[i - Len(a)]
OBVIOUS

\* The parts of a sequence made of three.
LEMMA ThreeParts ==
  ASSUME NEW S, NEW a \in Seq(S), NEW b \in Seq(S), NEW c \in Seq(S),
         NEW q, q = a \o b \o c
  PROVE  /\ q \in Seq(S) /\ DOMAIN q = 1 .. (Len(a) + Len(b) + Len(c))
         /\ Len(a) \in Nat /\ Len(b) \in Nat /\ Len(c) \in Nat
         /\ \A i \in DOMAIN a : i \in DOMAIN q /\ q[i] = a[i] /\ i \in 1 .. Len(a)
         /\ \A i \in DOMAIN b : /\ Len(a) + i \in DOMAIN q /\ q[Len(a) + i] = b[i]
                                /\ i \in 1 .. Len(b)
         /\ \A i \in DOMAIN c : /\ Len(a) + Len(b) + i \in DOMAIN q
                                /\ q[Len(a) + Len(b) + i] = c[i] /\ i \in 1 .. Len(c)
         /\ \A i \in DOMAIN q :
                  \/ i \in DOMAIN a
                  \/ i - Len(a) \in DOMAIN b
                  \/ i - Len(a) - Len(b) \in DOMAIN c
<1>1. /\ Len(a) \in Nat /\ DOMAIN a = 1 .. Len(a)
      /\ Len(b) \in Nat /\ DOMAIN b = 1 .. Len(b)
      /\ Len(c) \in Nat /\ DOMAIN c = 1 .. Len(c)
  OBVIOUS
<1>2. PICK ab \in Seq(S) : ab = a \o b
  BY Joined
<1>3. /\ Len(ab) = Len(a) + Len(b)
      /\ \A i \in 1 .. Len(a) + Len(b) : ab[i] = IF i <= Len(a) THEN a[i] ELSE b[i - Len(a)]
  BY <1>2, Joined
<1>4. /\ ab \o c \in Seq(S) /\ Len(ab \o c) = Len(ab) + Len(c)
       /\ \A i \in 1 .. Len(ab) + Len(c) :
            (ab \o c)[i] = IF i <= Len(ab) THEN ab[i] ELSE c[i - Len(ab)]
  BY Joined
<1>5. q = ab \o c
  BY <1>2
<1>6. q \in Seq(S) /\ DOMAIN q = 1 .. (Len(a) + Len(b) + Len(c))
  BY <1>1, <1>3, <1>4, <1>5
<1>7. \A i \in 1 .. (Len(a) + Len(b) + Len(c)) :
         q[i] = IF i <= Len(a) + Len(b) THEN ab[i] ELSE c[i - (Len(a) + Len(b))]
  <2>1. \A i \in 1 .. Len(ab) + Len(c) : q[i] = IF i <= Len(ab) THEN ab[i] ELSE c[i - Len(ab)]
    BY <1>4, <1>5
  <2> QED
    BY <1>3, <2>1
<1>8. \A i \in DOMAIN a : i \in DOMAIN q /\ q[i] = a[i] /\ i \in 1 .. Len(a)
  BY <1>1, <1>3, <1>6, <1>7
<1>9. \A i \in DOMAIN b : Len(a) + i \in DOMAIN q /\ q[Len(a) + i] = b[i] /\ i \in 1 .. Len(b)
  <2> SUFFICES ASSUME NEW i \in 1 .. Len(b)
               PROVE  Len(a) + i \in DOMAIN q /\ q[Len(a) + i] = b[i]
    BY <1>1
  <2>1. /\ Len(a) + i \in 1 .. (Len(a) + Len(b)) /\ ~(Len(a) + i <= Len(a))
        /\ Len(a) + i \in 1 .. (Len(a) + Len(b) + Len(c)) /\ (Len(a) + i) - Len(a) = i
    BY <1>1
  <2> QED
    BY <1>3, <1>6, <1>7, <2>1
<1>10. \A i \in DOMAIN c : /\ Len(a) + Len(b) + i \in DOMAIN q
                      /\ q[Len(a) + Len(b) + i] = c[i] /\ i \in 1 .. Len(c)
  <2> SUFFICES ASSUME NEW i \in 1 .. Len(c)
               PROVE  Len(a) + Len(b) + i \in DOMAIN q /\ q[Len(a) + Len(b) + i] = c[i]
    BY <1>1
  <2>1. /\ ~(Len(a) + Len(b) + i <= Len(a) + Len(b))
        /\ Len(a) + Len(b) + i \in 1 .. (Len(a) + Len(b) + Len(c))
        /\ (Len(a) + Len(b) + i) - (Len(a) + Len(b)) = i
    BY <1>1
  <2> QED
    BY <1>6, <1>7, <2>1
<1>11. \A i \in DOMAIN q : \/ i \in DOMAIN a \/ i - Len(a) \in DOMAIN b
                          \/ i - Len(a) - Len(b) \in DOMAIN c
  BY <1>1, <1>6
<1> QED
  BY <1>1, <1>2, <1>6, <1>8, <1>9, <1>10, <1>11

\* What has its turn in a part has it in the whole.
LEMMA TurnInPart ==
  ASSUME NEW S, NEW a \in Seq(S), NEW b \in Seq(S), NEW c \in Seq(S), NEW x,
         HasTurn(a, x) \/ HasTurn(b, x) \/ HasTurn(c, x)
  PROVE  HasTurn(a \o b \o c, x)
<1>0. PICK q : q = a \o b \o c
  OBVIOUS
<1>1. /\ \A i \in DOMAIN a : i \in DOMAIN q /\ q[i] = a[i]
      /\ \A i \in DOMAIN b : Len(a) + i \in DOMAIN q /\ q[Len(a) + i] = b[i]
      /\ \A i \in DOMAIN c : /\ Len(a) + Len(b) + i \in DOMAIN q
                             /\ q[Len(a) + Len(b) + i] = c[i]
  BY <1>0, ThreeParts
<1>2. HasTurn(q, x)
  BY <1>1 DEF HasTurn
<1> QED
  BY <1>0, <1>2

-----------------------------------------------------------------------------
(* The walk of GCP. *)

\* Steps that leave the walk and its transaction where they are.
LEMMA WalkStays ==
  ASSUME InHand, LinkedSoFar, tree' = tree, gcp'.at = gcp.at, gcp'.todo = gcp.todo,
         gcp'.quiet => gcp.quiet, contains \subseteq contains', tx'["gcp"] = tx["gcp"]
  PROVE  InHand' /\ LinkedSoFar'
<1>1. This' = This /\ PairsOf(This)' = PairsOf(This)
  BY DEF This, PairsOf
<1>2. Known' = Known
  BY DEF Known, DirectParents
<1>3. InHand'
  BY <1>1 DEF InHand
<1>4. LinkedSoFar'
  BY <1>2 DEF LinkedSoFar, HasTurn
<1> QED
  BY <1>3, <1>4

\* The pair of the node in hand.
LEMMA WalkPairInHand ==
  ASSUME TreeInv, HierarchyTypeOK, InHand, RecordPair("gcp"), UNCHANGED <<tree, gcp>>
  PROVE  InHand'
<1> SUFFICES ASSUME gcp.at = "recording" PROVE InHand'
  BY DEF InHand
<1> DEFINE c == Head(tx["gcp"].todo)[1]
           p == Head(tx["gcp"].todo)[2]
<1>1. "gcp" \in Recorders
  BY NodeSets
<1>2. /\ tx["gcp"].todo # <<>> /\ <<c, p>> = Head(tx["gcp"].todo)
      /\ tx'["gcp"].todo = Tail(tx["gcp"].todo) /\ rows' = rows
  BY <1>1, PairStep
<1>3. /\ tx'["gcp"].edges = IF c # p /\ {c, p} \subseteq rows
                            THEN tx["gcp"].edges \union {<<p, c>>} ELSE tx["gcp"].edges
      /\ tx'["gcp"].missing = (tx["gcp"].missing \/ Missing(c, p))
  BY <1>1, PairStep
<1> HIDE DEF c, p
<1>4. tx["gcp"].todo = PairsOf(This)
  BY <1>2 DEF InHand
<1>5. tx'["gcp"].todo = <<>>
  BY <1>2, <1>4 DEF PairsOf
<1>6. This' = This /\ This \in TreeNodes
  <2>1. gcp.todo \in Seq(TreeNodes) /\ gcp.todo # <<>>
    BY DEF TreeInv, Walk
  <2> QED
    BY <2>1 DEF This
<1>7. ASSUME This \notin Orgs
      PROVE  tx'["gcp"].missing \/ <<tree[This], This>> \in tx'["gcp"].edges
  <2>1. PairsOf(This) = <<<<This, tree[This]>>>> /\ tree[This] # NoParent
    BY <1>2, <1>4, <1>7 DEF PairsOf
  <2>2. c = This /\ p = tree[This]
    BY <1>2, <1>4, <2>1
  <2>3. c # p
    BY <1>6, <1>7, <2>1, <2>2, TreeAbove DEF TreeNodes, TreeInv
  <2> QED
    BY <1>3, <2>2, <2>3 DEF Missing
<1> QED
  BY <1>5, <1>6, <1>7 DEF InHand

\* The nodes a quiet walk starts with are all that are known.
LEMMA WalkHasAll ==
  ASSUME NEW a \in Orders(Orgs, {}), NEW b \in Orders(Folders, {}), NEW n \in Known \ Orgs
  PROVE  HasTurn(a \o b \o SetToSeq(TreeProjects \ {}), n)
<1> DEFINE A == DirectParents(Orgs, {}) \ {}
           B == DirectParents(Folders, {}) \ {}
           C == TreeProjects \ {}
<1>1. A \subseteq TreeNodes /\ B \subseteq TreeNodes /\ C \subseteq TreeNodes
  BY DEF DirectParents, TreeNodes
<1>2. n \in B \/ n \in C
  BY DEF Known, DirectParents
<1>3. a \in SetToSeqs(A) /\ b \in SetToSeqs(B)
  BY DEF Orders
<1> HIDE DEF A, B, C
<1>4. A \in SUBSET Nodes /\ B \in SUBSET Nodes /\ C \in SUBSET Nodes
  BY <1>1, NodeSets
<1>5. IsFiniteSet(A) /\ IsFiniteSet(B) /\ IsFiniteSet(C)
  BY <1>4, NodeSets
<1>6. a \in Seq(A) /\ b \in Seq(B) /\ SetToSeq(C) \in Seq(C)
  BY <1>3, <1>5, Arranged
<1>7. a \in Seq(TreeNodes) /\ b \in Seq(TreeNodes) /\ SetToSeq(C) \in Seq(TreeNodes)
  BY <1>1, <1>6, WiderSeq
<1>8. PICK s \in Seq(TreeNodes) : s = SetToSeq(C)
  BY <1>7
<1>9. HasTurn(b, n) \/ HasTurn(s, n)
  <2>1. \A x \in B : HasTurn(b, x)
    BY <1>3, <1>5, Everybody
  <2>2. \A x \in C : HasTurn(s, x)
    BY <1>5, <1>8, Everybody
  <2> QED
    BY <1>2, <2>1, <2>2
<1>10. HasTurn(a \o b \o s, n)
  BY <1>7, <1>9, TurnInPart
<1> QED
  BY <1>8, <1>10 DEF C

Walking == {"store", "record", "recording"}

\* A step of the walk that lets nobody's turn pass without a link.
LEMMA StillLinked ==
  ASSUME LinkedSoFar, tree' = tree, contains \subseteq contains', gcp'.quiet => gcp.quiet,
         gcp'.quiet =>
            \A n \in Known \ Orgs :
               tree[n] # NoParent /\ gcp.at \in Walking /\ HasTurn(gcp.todo, n) =>
                  <<tree[n], n>> \in contains' \/ (gcp'.at \in Walking /\ HasTurn(gcp'.todo, n))
  PROVE  LinkedSoFar'
<1>1. Known' = Known
  BY DEF Known, DirectParents
<1> SUFFICES ASSUME gcp'.quiet, NEW n \in Known \ Orgs, tree[n] # NoParent
             PROVE  <<tree[n], n>> \in contains' \/ (gcp'.at \in Walking /\ HasTurn(gcp'.todo, n))
  BY <1>1 DEF LinkedSoFar, Walking, HasTurn
<1>2. <<tree[n], n>> \in contains \/ (gcp.at \in Walking /\ HasTurn(gcp.todo, n))
  BY DEF LinkedSoFar, Walking
<1> QED
  BY <1>2

\* Its turn over, a node is gone from those to come; the others are not.
LEMMA TurnPasses ==
  ASSUME NEW S, NEW q \in Seq(S), q # <<>>, NEW x, HasTurn(q, x), x # Head(q)
  PROVE  HasTurn(Tail(q), x)
<1>1. /\ Head(q) = q[1]
      /\ \A i \in DOMAIN q : i = 1 \/ (i - 1 \in DOMAIN Tail(q) /\ Tail(q)[i - 1] = q[i])
  BY HeadAndTail
<1>2. PICK i \in DOMAIN q : q[i] = x
  BY DEF HasTurn
<1>3. i # 1
  BY <1>1, <1>2
<1> QED
  BY <1>1, <1>2, <1>3 DEF HasTurn

LEMMA WalkStartsLinked ==
  ASSUME LinkedSoFar, TreeInv, StartTreeScan
  PROVE  InHand' /\ LinkedSoFar'
<1>1. UNCHANGED <<tree, contains>> /\ gcp.at = "idle"
  BY DEF StartTreeScan, hierarchyVars
<1>2. PICK providers \in ScanProviders :
          IF "gcp" \in providers
            THEN \E denied \in SUBSET MayDeny :
                   \E a \in Orders(Orgs, denied), b \in Orders(Folders, denied) :
                     gcp' = [at |-> "store",
                             todo |-> a \o b \o SetToSeq(TreeProjects \ denied),
                             denied |-> denied, quiet |-> denied = {}, good |-> denied = {}]
            ELSE gcp' = [gcp EXCEPT !.at = "off"]
  BY DEF StartTreeScan
<1>3. CASE "gcp" \notin providers
  <2>1. gcp' = [gcp EXCEPT !.at = "off"]
    BY <1>2, <1>3
  <2>2. gcp'.at = "off" /\ gcp'.quiet = gcp.quiet
    BY <2>1 DEF TreeInv, Walk
  <2>3. InHand'
    BY <2>2 DEF InHand
  <2>4. LinkedSoFar'
    BY <1>1, <2>2, StillLinked DEF Walking
  <2> QED
    BY <2>3, <2>4
<1>4. CASE "gcp" \in providers
  <2>1. PICK denied \in SUBSET MayDeny :
            \E a \in Orders(Orgs, denied), b \in Orders(Folders, denied) :
              gcp' = [at |-> "store",
                      todo |-> a \o b \o SetToSeq(TreeProjects \ denied),
                      denied |-> denied, quiet |-> denied = {}, good |-> denied = {}]
    BY <1>2, <1>4
  <2>2. PICK a \in Orders(Orgs, denied), b \in Orders(Folders, denied) :
            gcp' = [at |-> "store",
                    todo |-> a \o b \o SetToSeq(TreeProjects \ denied),
                    denied |-> denied, quiet |-> denied = {}, good |-> denied = {}]
    BY <2>1
  <2>3. gcp'.at = "store" /\ gcp'.todo = a \o b \o SetToSeq(TreeProjects \ denied)
        /\ (gcp'.quiet => denied = {})
    BY <2>2
  <2>4. InHand'
    BY <2>3 DEF InHand
  <2>5. gcp'.quiet => \A n \in Known \ Orgs : HasTurn(gcp'.todo, n)
    BY <2>3, WalkHasAll
  <2>6. Known' = Known
    BY <1>1 DEF Known, DirectParents
  <2>7. LinkedSoFar'
    BY <2>3, <2>5, <2>6 DEF LinkedSoFar, HasTurn
  <2> QED
    BY <2>4, <2>7
<1> QED
  BY <1>3, <1>4

LEMMA NodeStaysLinked ==
  ASSUME LinkedSoFar, TreeInv, StoreNode
  PROVE  InHand' /\ LinkedSoFar'
<1>1. /\ gcp'.at = "record" /\ gcp'.todo = gcp.todo /\ gcp'.quiet = gcp.quiet
      /\ UNCHANGED <<tree, contains>>
  BY DEF StoreNode, StoreRows, TreeInv, Walk
<1>2. InHand'
  BY <1>1 DEF InHand
<1>3. LinkedSoFar'
  BY <1>1, StillLinked DEF Walking
<1> QED
  BY <1>2, <1>3

LEMMA RecordStaysLinked ==
  ASSUME LinkedSoFar, TreeInv, HierarchyTypeOK, RecordNode
  PROVE  InHand' /\ LinkedSoFar'
<1>1. gcp.at = "record" /\ tree' = tree /\ gcp.todo # <<>> /\ gcp.todo \in Seq(TreeNodes)
  BY DEF RecordNode, TreeInv, Walk
<1>2. CASE PairsOf(This) = <<>>
  <2>1. gcp'.at = "store" /\ gcp'.todo = Tail(gcp.todo) /\ gcp'.quiet = gcp.quiet
        /\ contains' = contains
    BY <1>2 DEF RecordNode, TreeInv, Walk, hierarchyVars
  <2>2. This \notin Orgs /\ tree[This] = NoParent
    BY <1>2 DEF PairsOf
  <2>3. InHand'
    BY <2>1 DEF InHand
  <2>4. \A n \in Known \ Orgs : tree[n] # NoParent /\ HasTurn(gcp.todo, n) => HasTurn(gcp'.todo, n)
    <3> SUFFICES ASSUME NEW n \in Known \ Orgs, tree[n] # NoParent, HasTurn(gcp.todo, n)
                 PROVE  HasTurn(gcp'.todo, n)
      OBVIOUS
    <3>1. n # Head(gcp.todo)
      BY <2>2 DEF This
    <3> QED
      BY <1>1, <2>1, <3>1, TurnPasses
  <2>5. LinkedSoFar'
    BY <1>1, <2>1, <2>4, StillLinked DEF Walking
  <2> QED
    BY <2>3, <2>5
<1>3. CASE PairsOf(This) # <<>>
  <2>1. gcp' = [gcp EXCEPT !.at = "recording"] /\ BatchStarts("gcp", PairsOf(This))
    BY <1>3 DEF RecordNode
  <2>2. gcp'.at = "recording" /\ gcp'.todo = gcp.todo /\ gcp'.quiet = gcp.quiet
    BY <2>1 DEF TreeInv, Walk
  <2>3. tx'["gcp"].todo = PairsOf(This) /\ contains' = contains
    BY <2>1, NodeSets, TxTypes DEF BatchStarts, NoTx
  <2>4. PairsOf(This)' = PairsOf(This)
    BY <1>1, <2>2 DEF PairsOf, This
  <2>5. InHand'
    BY <2>3, <2>4 DEF InHand
  <2>6. LinkedSoFar'
    BY <1>1, <2>2, <2>3, StillLinked DEF Walking
  <2> QED
    BY <2>5, <2>6
<1> QED
  BY <1>2, <1>3

LEMMA RecordedStaysLinked ==
  ASSUME LinkedSoFar, InHand, TreeInv, NodeRecorded
  PROVE  InHand' /\ LinkedSoFar'
<1>1. gcp.at = "recording" /\ tree' = tree /\ gcp.todo # <<>> /\ gcp.todo \in Seq(TreeNodes)
  BY DEF NodeRecorded, TreeInv, Walk
<1>2. gcp' = [gcp EXCEPT !.at = "store", !.todo = Tail(gcp.todo),
                         !.quiet = gcp.quiet /\ ~tx["gcp"].missing]
  BY DEF NodeRecorded
<1>3. gcp'.at = "store" /\ gcp'.todo = Tail(gcp.todo)
      /\ (gcp'.quiet => gcp.quiet /\ ~tx["gcp"].missing)
  BY <1>2 DEF TreeInv, Walk
<1>4. tx["gcp"].todo = <<>> /\ contains' = contains \union tx["gcp"].edges
  BY DEF NodeRecorded, BatchCommits
<1>5. InHand'
  BY <1>3 DEF InHand
<1>6. ASSUME gcp'.quiet, NEW n \in Known \ Orgs, tree[n] # NoParent, HasTurn(gcp.todo, n)
      PROVE  <<tree[n], n>> \in contains' \/ HasTurn(gcp'.todo, n)
  <2>1. CASE n # This
    BY <1>1, <1>3, <1>6, <2>1, TurnPasses DEF This
  <2>2. CASE n = This
    <3>1. PairsOf(This) # <<>>
      BY <1>6, <2>2 DEF PairsOf
    <3>2. <<tree[n], n>> \in tx["gcp"].edges
      BY <1>1, <1>3, <1>4, <1>6, <2>2, <3>1 DEF InHand
    <3> QED
      BY <1>4, <3>2
  <2> QED
    BY <2>1, <2>2
<1>7. LinkedSoFar'
  BY <1>1, <1>3, <1>4, <1>6, StillLinked DEF Walking
<1> QED
  BY <1>5, <1>7

\* Steps after which no node has a turn, and none had.
LEMMA RestStaysLinked ==
  ASSUME LinkedSoFar, TreeInv,
         HierarchyAborts \/ StartServices \/ ServicesEnd \/ TreeScanEnds \/ Move
  PROVE  InHand' /\ LinkedSoFar'
<1>1. CASE HierarchyAborts
  <2>1. gcp'.at = "done" /\ ~gcp'.quiet
    BY <1>1 DEF HierarchyAborts, TreeInv, Walk
  <2> QED
    BY <2>1 DEF InHand, LinkedSoFar
<1>2. CASE Move
  <2>1. gcp'.at = "idle" /\ ~gcp'.quiet
    BY <1>2 DEF Move, TreeInv, Walk
  <2> QED
    BY <2>1 DEF InHand, LinkedSoFar
<1>3. CASE StartServices \/ ServicesEnd \/ TreeScanEnds
  <2>1. UNCHANGED <<tree, contains>>
    BY <1>3 DEF StartServices, ServicesEnd, TreeScanEnds, hierarchyVars
  <2>2. gcp'.at \in {"services", "done", "idle"} /\ gcp'.quiet = gcp.quiet
    <3>1. CASE StartServices
      BY <3>1 DEF StartServices, TreeInv, Walk
    <3>2. CASE ServicesEnd
      BY <3>2 DEF ServicesEnd, TreeInv, Walk
    <3>3. CASE TreeScanEnds
      BY <3>3 DEF TreeScanEnds, TreeInv, Walk
    <3> QED
      BY <1>3, <3>1, <3>2, <3>3
  <2>3. gcp.at \in Walking => gcp.todo = <<>>
    BY <1>3 DEF StartServices, ServicesEnd, TreeScanEnds, Walking
  <2>4. \A n : ~HasTurn(<<>>, n)
    BY DEF HasTurn
  <2>5. InHand'
    BY <2>2 DEF InHand
  <2>6. LinkedSoFar'
    BY <2>1, <2>2, <2>3, <2>4, StillLinked
  <2> QED
    BY <2>5, <2>6
<1> QED
  BY <1>1, <1>2, <1>3

-----------------------------------------------------------------------------
(* The batch of the stitching. *)

\* The pairs of a sequence of nodes, each with its parent.
LEMMA PairsWithParents ==
  ASSUME NEW S \in SUBSET AzureNodes, \A n \in S : AzureParent[n] # NoParent, NEW q \in Seq(S)
  PROVE  /\ AsPairs(q) \in Seq(Pairs) /\ DOMAIN AsPairs(q) = DOMAIN q
         /\ \A i \in DOMAIN q : q[i] \in S /\ AsPairs(q)[i] = <<q[i], AzureParent[q[i]]>>
         /\ \A n \in S : HasTurn(q, n) => HasTurn(AsPairs(q), <<n, AzureParent[n]>>)
<1>1. AsPairs(q) \in Seq(Pairs)
  BY ParentPairs
<1>2. DOMAIN AsPairs(q) = DOMAIN q
      /\ \A i \in DOMAIN q : AsPairs(q)[i] = <<q[i], AzureParent[q[i]]>>
  BY DEF AsPairs
<1>3. \A i \in DOMAIN q : q[i] \in S
  OBVIOUS
<1>4. \A n \in S : HasTurn(q, n) => HasTurn(AsPairs(q), <<n, AzureParent[n]>>)
  BY <1>2 DEF HasTurn
<1> QED
  BY <1>1, <1>2, <1>3, <1>4

\* The roots of a sequence of nodes.
LEMMA PairsOfRoots ==
  ASSUME NEW S \in SUBSET Nodes, NEW q \in Seq(S),
         NEW roots, roots = [i \in DOMAIN q |-> <<q[i], q[i]>>]
  PROVE  /\ roots \in Seq(Pairs) /\ DOMAIN roots = DOMAIN q
         /\ \A i \in DOMAIN q : q[i] \in S /\ roots[i] = <<q[i], q[i]>>
         /\ \A n \in S : HasTurn(q, n) => HasTurn(roots, <<n, n>>)
<1>1. Len(q) \in Nat /\ DOMAIN q = 1 .. Len(q) /\ \A i \in DOMAIN q : q[i] \in S
  OBVIOUS
<1>2. \A i \in DOMAIN q : <<q[i], q[i]>> \in Pairs
  BY <1>1 DEF Pairs
<1>3. DOMAIN roots = DOMAIN q /\ \A i \in DOMAIN q : roots[i] = <<q[i], q[i]>>
  OBVIOUS
<1>4. roots \in [1 .. Len(q) -> Pairs]
  BY <1>1, <1>2
<1>5. roots \in Seq(Pairs)
  BY <1>1, <1>4
<1>6. \A n \in S : HasTurn(q, n) => HasTurn(roots, <<n, n>>)
  BY <1>3 DEF HasTurn
<1> QED
  BY <1>1, <1>3, <1>5, <1>6

StitchBatch(listed, q) ==
  LET seeds == SetToSeq(Groups \union Subs)
  IN  [i \in DOMAIN seeds |-> <<seeds[i], seeds[i]>>]
      \o (IF listed THEN AsPairs(q) ELSE <<>>)
      \o AsPairs(SetToSeq(ResourceGroups))

\* Roots first, then the entities, none before its parent, then the resource groups.
LEMMA StitchShape ==
  ASSUME NEW listed \in BOOLEAN, NEW q \in EntityOrders
  PROVE  LET pairs == StitchBatch(listed, q)
         IN  /\ pairs \in Seq(Pairs) /\ Feeds("azure", pairs) /\ Ordered(pairs)
             /\ \A m \in Tops : HasTurn(pairs, <<m, m>>)
             /\ \A n \in AzureNodes : AzureParent[n] # NoParent /\ (listed \/ n \in ResourceGroups)
                                         => HasTurn(pairs, <<n, AzureParent[n]>>)
<1>1. /\ Tops \in SUBSET Nodes /\ Tops \in SUBSET AzureNodes /\ Entities \in SUBSET AzureNodes
      /\ ResourceGroups \in SUBSET AzureNodes /\ Entities \subseteq Tops
      /\ AzureNodes \subseteq Nodes
  BY NodeSets DEF Entities, AzureNodes, Tops
<1>2. IsFiniteSet(Tops) /\ IsFiniteSet(Entities) /\ IsFiniteSet(ResourceGroups)
  <2>1. Tops \in SUBSET Nodes /\ Entities \in SUBSET Nodes /\ ResourceGroups \in SUBSET Nodes
    BY <1>1
  <2> QED
    BY <2>1, NodeSets
<1>3. PICK seeds : seeds = SetToSeq(Tops)
  OBVIOUS
<1>4. PICK g : g = SetToSeq(ResourceGroups)
  OBVIOUS
<1>5. seeds \in Seq(Tops) /\ g \in Seq(ResourceGroups)
  BY <1>2, <1>3, <1>4, Arranged
<1>6. q \in SetToSeqs(Entities) /\ q \in Seq(Entities)
      /\ \A i, j \in DOMAIN q : i < j => AzureDepth[q[i]] <= AzureDepth[q[j]]
  BY <1>2, Arranged DEF EntityOrders
<1>7. PICK a : a = [i \in DOMAIN seeds |-> <<seeds[i], seeds[i]>>]
  OBVIOUS
<1>8. PICK b : b = IF listed THEN AsPairs(q) ELSE <<>>
  OBVIOUS
<1>9. PICK c : c = AsPairs(g)
  OBVIOUS
<1>10. PICK pairs : pairs = a \o b \o c
  OBVIOUS
<1>11. pairs = StitchBatch(listed, q)
  BY <1>3, <1>4, <1>7, <1>8, <1>9, <1>10 DEF StitchBatch, Tops
<1>12. /\ a \in Seq(Pairs) /\ \A i \in DOMAIN a : seeds[i] \in Tops /\ a[i] = <<seeds[i], seeds[i]>>
       /\ \A m \in Tops : HasTurn(a, <<m, m>>)
  <2>1. \A m \in Tops : HasTurn(seeds, m)
    BY <1>2, <1>3, Everybody
  <2> QED
    BY <1>1, <1>5, <1>7, <2>1, PairsOfRoots
<1>13. \A n \in Entities : AzureParent[n] # NoParent
  BY DEF Entities
<1>14. \A n \in ResourceGroups : AzureParent[n] # NoParent
  BY TreeAssumption, ScanAssumption DEF GcpNodes, AzureNodes
<1>15. /\ b \in Seq(Pairs)
       /\ \A i \in DOMAIN b : i \in DOMAIN q /\ q[i] \in Entities
                              /\ b[i] = <<q[i], AzureParent[q[i]]>>
       /\ listed => \A n \in Entities : HasTurn(b, <<n, AzureParent[n]>>)
  <2>1. CASE listed
    <3>1. \A n \in Entities : HasTurn(q, n)
      BY <1>2, <1>6, Everybody
    <3> QED
      BY <1>1, <1>6, <1>8, <1>13, <2>1, <3>1, PairsWithParents
  <2>2. CASE ~listed
    BY <1>8, <2>2
  <2> QED
    BY <2>1, <2>2
<1>16. /\ c \in Seq(Pairs)
       /\ \A i \in DOMAIN c : g[i] \in ResourceGroups /\ c[i] = <<g[i], AzureParent[g[i]]>>
       /\ \A n \in ResourceGroups : HasTurn(c, <<n, AzureParent[n]>>)
  <2>1. \A n \in ResourceGroups : HasTurn(g, n)
    BY <1>2, <1>4, Everybody
  <2> QED
    BY <1>1, <1>5, <1>9, <1>14, <2>1, PairsWithParents
<1>17. \A x : HasTurn(a, x) \/ HasTurn(b, x) \/ HasTurn(c, x) => HasTurn(pairs, x)
  BY <1>10, <1>12, <1>15, <1>16, TurnInPart
<1>18. /\ pairs \in Seq(Pairs) /\ Len(a) \in Nat /\ Len(b) \in Nat /\ Len(c) \in Nat
       /\ DOMAIN pairs = 1 .. (Len(a) + Len(b) + Len(c))
       /\ \A i \in DOMAIN a : pairs[i] = a[i] /\ i \in 1 .. Len(a)
       /\ \A i \in DOMAIN b : pairs[Len(a) + i] = b[i] /\ i \in 1 .. Len(b)
       /\ \A i \in DOMAIN c : pairs[Len(a) + Len(b) + i] = c[i] /\ i \in 1 .. Len(c)
       /\ \A i \in DOMAIN pairs : \/ i \in DOMAIN a \/ i - Len(a) \in DOMAIN b
                                  \/ i - Len(a) - Len(b) \in DOMAIN c
  BY <1>10, <1>12, <1>15, <1>16, ThreeParts
<1>19. ASSUME NEW i \in DOMAIN pairs
       PROVE  \/ i \in DOMAIN a /\ pairs[i] = a[i] /\ i \in 1 .. Len(a)
              \/ \E k \in DOMAIN b : /\ pairs[i] = b[k] /\ k \in 1 .. Len(b) /\ i = Len(a) + k
              \/ \E k \in DOMAIN c : /\ pairs[i] = c[k] /\ k \in 1 .. Len(c)
                                     /\ i = Len(a) + Len(b) + k
  <2>1. i \in Nat
    BY <1>18
  <2>2. CASE i \in DOMAIN a
    BY <1>18, <2>2
  <2>3. CASE i - Len(a) \in DOMAIN b
    <3>1. Len(a) + (i - Len(a)) = i
      BY <1>18, <2>1
    <3> QED
      BY <1>18, <2>3, <3>1
  <2>4. CASE i - Len(a) - Len(b) \in DOMAIN c
    <3>1. Len(a) + Len(b) + (i - Len(a) - Len(b)) = i
      BY <1>18, <2>1
    <3> QED
      BY <1>18, <2>4, <3>1
  <2> QED
    BY <1>18, <2>2, <2>3, <2>4
<1>20. Feeds("azure", pairs)
  <2>1. ASSUME NEW i \in DOMAIN pairs
        PROVE  /\ pairs[i][1] \in AzureNodes
               /\ pairs[i][1] = pairs[i][2] \/ pairs[i][2] = AzureParent[pairs[i][1]]
    <3>1. \/ \E n \in Tops : pairs[i] = <<n, n>>
          \/ \E n \in Entities \union ResourceGroups : pairs[i] = <<n, AzureParent[n]>>
      BY <1>12, <1>15, <1>16, <1>19, SMTT(30)
    <3> QED
      BY <1>1, <3>1
  <2>2. \A i \in DOMAIN pairs : Kin(pairs[i][1], pairs[i][2])
    BY <2>1 DEF Kin
  <2> QED
    BY <2>1, <2>2 DEF Feeds
<1>21. ASSUME NEW i \in DOMAIN pairs, NEW j \in DOMAIN pairs, i < j, pairs[i][1] # pairs[i][2]
       PROVE  pairs[j][1] # pairs[i][2]
  <2>1. i \notin DOMAIN a \/ pairs[i] # a[i]
    BY <1>12, <1>21
  <2>2. CASE \E k \in DOMAIN c : /\ pairs[i] = c[k] /\ k \in 1 .. Len(c)
                                 /\ i = Len(a) + Len(b) + k
    <3>1. pairs[i][2] \in Subs
      BY <1>16, <2>2, TreeAssumption
    <3>2. ~(j \in 1 .. Len(a)) /\ \A k \in 1 .. Len(b) : j # Len(a) + k
      BY <1>18, <1>21, <2>2
    <3>3. pairs[j][1] \in ResourceGroups
      BY <1>16, <1>19, <3>2
    <3> QED
      BY <3>1, <3>3, TreeAssumption
  <2>3. CASE \E k \in DOMAIN b : /\ pairs[i] = b[k] /\ k \in 1 .. Len(b) /\ i = Len(a) + k
    <3>1. PICK k \in DOMAIN b : pairs[i] = b[k] /\ k \in 1 .. Len(b) /\ i = Len(a) + k
      BY <2>3
    <3>2. pairs[i][2] = AzureParent[q[k]] /\ q[k] \in Entities /\ k \in DOMAIN q
      BY <1>15, <3>1
    <3>3. /\ AzureParent[q[k]] \in Tops /\ AzureDepth[q[k]] \in Nat
          /\ AzureDepth[AzureParent[q[k]]] < AzureDepth[q[k]]
          /\ AzureDepth[AzureParent[q[k]]] \in Nat
      BY <1>1, <1>13, <3>2, AzureAbove
    <3>4. ~(j \in 1 .. Len(a))
      BY <1>18, <1>21, <3>1
    <3>5. CASE \E l \in DOMAIN b : /\ pairs[j] = b[l] /\ l \in 1 .. Len(b) /\ j = Len(a) + l
      <4>1. PICK l \in DOMAIN b : pairs[j] = b[l] /\ l \in 1 .. Len(b) /\ j = Len(a) + l
        BY <3>5
      <4>2. k < l
        BY <1>18, <1>21, <3>1, <4>1
      <4>3. pairs[j][1] = q[l] /\ l \in DOMAIN q /\ q[l] \in Entities
        BY <1>15, <4>1
      <4>4. AzureDepth[q[k]] <= AzureDepth[q[l]]
        BY <1>6, <3>2, <4>2, <4>3
      <4>5. AzureDepth[q[l]] \in Nat
        BY <1>1, <4>3, TreeAssumption
      <4>6. AzureDepth[AzureParent[q[k]]] # AzureDepth[q[l]]
        BY <3>3, <4>4, <4>5
      <4> QED
        BY <3>2, <4>3, <4>6
    <3>6. CASE \E l \in DOMAIN c : pairs[j] = c[l]
      <4>1. pairs[j][1] \in ResourceGroups
        BY <1>16, <3>6
      <4> QED
        BY <3>2, <3>3, <4>1, TreeAssumption DEF Tops
    <3> QED
      BY <1>19, <3>4, <3>5, <3>6
  <2> QED
    BY <1>19, <2>1, <2>2, <2>3
<1>22. Ordered(pairs)
  BY <1>21 DEF Ordered
<1>23. \A m \in Tops : HasTurn(pairs, <<m, m>>)
  BY <1>12, <1>17
<1>24. ASSUME NEW n \in AzureNodes, AzureParent[n] # NoParent, listed \/ n \in ResourceGroups
       PROVE  HasTurn(pairs, <<n, AzureParent[n]>>)
  <2>1. n \in Entities \/ n \in ResourceGroups
    BY <1>24 DEF Entities, AzureNodes
  <2> QED
    BY <1>15, <1>16, <1>17, <1>24, <2>1, TreeAssumption DEF Entities
<1> QED
  BY <1>11, <1>18, <1>20, <1>22, <1>23, <1>24

-----------------------------------------------------------------------------
(* What the stitching sees and leaves. *)

\* Only the columns of Azure's nodes count.
SameColumns(t, u) == \A a \in Nodes, n \in AzureNodes : u[<<a, n>>] = t[<<a, n>>]

LEMMA RowsOfColumns ==
  ASSUME NEW t, NEW u, SameColumns(t, u), AzureRows(t)
  PROVE  AzureRows(u)
<1> SUFFICES ASSUME NEW a \in Nodes, NEW n \in AzureNodes, u[<<a, n>>] # NoDepth
             PROVE  \/ a = n /\ u[<<a, n>>] = 0
                    \/ /\ a \in AzureNodes /\ AzureDepth[a] < AzureDepth[n]
                       /\ AzureParent[n] # NoParent /\ u[<<a, AzureParent[n]>>] # NoDepth
                       /\ u[<<a, n>>] = u[<<a, AzureParent[n]>>] + 1
  BY DEF AzureRows
<1>1. t[<<a, n>>] = u[<<a, n>>]
  BY DEF SameColumns
<1>2. AzureParent[n] # NoParent => t[<<a, AzureParent[n]>>] = u[<<a, AzureParent[n]>>]
  BY AzureAbove DEF SameColumns
<1> QED
  BY <1>1, <1>2 DEF AzureRows

LEMMA BelowInColumns ==
  ASSUME NEW t, NEW u, SameColumns(t, u), NEW n \in AzureNodes, AzureParent[n] # NoParent,
         Below(t, n)
  PROVE  Below(u, n)
<1>1. AzureParent[n] \in AzureNodes /\ AzureParent[n] \in Nodes
  BY AzureAbove
<1> QED
  BY <1>1 DEF Below, SameColumns

LEMMA StitchesInColumns ==
  ASSUME NEW t, NEW u, SameColumns(t, u), NEW pairs, Stitches(pairs, t)
  PROVE  Stitches(pairs, u)
<1>1. \A m \in Tops : u[<<m, m>>] = t[<<m, m>>]
  BY KindsApart DEF SameColumns
<1>2. \A n \in Placed : Below(t, n) => Below(u, n)
  BY BelowInColumns DEF Placed
<1> QED
  BY <1>1, <1>2 DEF Stitches

\* Steps that leave Azure's columns and the stitching's transaction alone.
LEMMA AzureAside ==
  ASSUME HierarchyTypeOK, StitchInv, SameColumns(closure, closure'), tx'["azure"] = tx["azure"],
         azure' = azure \/ azure'.at \notin {"stitching", "stitched"}
  PROVE  StitchInv'
<1>1. SameColumns(View("azure"), View("azure")')
  <2> SUFFICES ASSUME NEW a \in Nodes, NEW n \in AzureNodes
               PROVE  View("azure")'[<<a, n>>] = View("azure")[<<a, n>>]
    BY DEF SameColumns
  <2>1. <<a, n>> \in Pairs
    BY NodeSets DEF Pairs
  <2>2. closure'[<<a, n>>] = closure[<<a, n>>]
    BY DEF SameColumns
  <2> QED
    BY <2>1, <2>2 DEF View, KeepFirst
<1>2. AzureRows(closure') /\ AzureRows(View("azure")')
  BY <1>1, RowsOfColumns DEF StitchInv
<1>3. CASE azure'.at \notin {"stitching", "stitched"}
  BY <1>2, <1>3 DEF StitchInv, AzureRows
<1>4. CASE azure' = azure
  <2>1. Placed' = Placed
    BY <1>4 DEF Placed
  <2>2. azure.at = "stitching" => Stitches(tx["azure"].todo, View("azure")')
    BY <1>1, StitchesInColumns DEF StitchInv
  <2>3. azure.at = "stitched" => \A n \in Placed : Below(closure', n)
    BY BelowInColumns DEF StitchInv, Placed
  <2>4. azure'.at = "stitching" => Stitches(tx["azure"].todo, View("azure"))'
    BY <1>4, <2>1, <2>2 DEF Stitches, Below, Ordered, HasTurn
  <2>5. azure'.at = "stitched" => \A n \in Placed' : Below(closure, n)'
    BY <1>4, <2>1, <2>3 DEF Below
  <2> QED
    BY <1>2, <2>4, <2>5 DEF StitchInv, AzureRows
<1> QED
  BY <1>3, <1>4

\* A step of the tables by any other recorder, or of none.
LEMMA OthersAside ==
  ASSUME HierarchyTypeOK, Apart, StitchInv, NEW w \in Recorders \ {"azure"},
         \/ UNCHANGED <<closure, tx>>
         \/ \E batch : BatchStarts(w, batch)
         \/ RecordPair(w) \/ BatchCommits(w) \/ BatchFails(w),
         azure' = azure \/ azure'.at \notin {"stitching", "stitched"}
  PROVE  StitchInv'
<1>1. tx'["azure"] = tx["azure"]
  <2>1. "azure" \in Recorders /\ DOMAIN tx = Recorders
    BY NodeSets, TxTypes
  <2> QED
    BY <2>1 DEF BatchStarts, RecordPair, BatchCommits, BatchFails
<1>2. SameColumns(closure, closure')
  <2>1. CASE closure' = closure
    BY <2>1 DEF SameColumns
  <2>2. CASE BatchCommits(w)
    <3> SUFFICES ASSUME NEW a \in Nodes, NEW n \in AzureNodes
                 PROVE  closure'[<<a, n>>] = closure[<<a, n>>]
      BY DEF SameColumns
    <3>1. <<a, n>> \in Pairs /\ n \notin GcpNodes
      BY KindsApart, NodeSets DEF Pairs
    <3>2. tx[w].wrote[<<a, n>>] = NoDepth
      BY <3>1 DEF Apart
    <3>3. closure' = KeepFirst(closure, tx[w].wrote)
      BY <2>2 DEF BatchCommits
    <3> QED
      BY <3>1, <3>2, <3>3 DEF KeepFirst
  <2> QED
    BY <2>1, <2>2 DEF BatchStarts, RecordPair, BatchFails
<1> QED
  BY <1>1, <1>2, AzureAside

\* A transaction that has written nothing sees the closure.
LEMMA NothingWritten ==
  ASSUME HierarchyTypeOK, NEW w \in Recorders, tx[w].wrote = NoRows
  PROVE  \A x \in Pairs : View(w)[x] = closure[x]
BY DEF View, KeepFirst, NoRows

LEMMA StitchStarts ==
  ASSUME HierarchyTypeOK, HierarchyTypeOK', StitchInv, Stitch
  PROVE  StitchInv'
<1>1. "azure" \in Recorders
  BY NodeSets
<1>2. \E listed \in BOOLEAN, q \in EntityOrders :
         BatchStarts("azure", StitchBatch(listed, q))
         /\ azure' = [at |-> "stitching", listed |-> listed]
  BY DEF Stitch, StitchBatch
<1>3. PICK listed \in BOOLEAN, q \in EntityOrders :
         BatchStarts("azure", StitchBatch(listed, q))
         /\ azure' = [at |-> "stitching", listed |-> listed]
  BY <1>2
<1>4. PICK pairs : pairs = StitchBatch(listed, q)
  OBVIOUS
<1>5. /\ Ordered(pairs) /\ \A m \in Tops : HasTurn(pairs, <<m, m>>)
      /\ \A n \in AzureNodes : AzureParent[n] # NoParent /\ (listed \/ n \in ResourceGroups)
                                  => HasTurn(pairs, <<n, AzureParent[n]>>)
  BY <1>4, StitchShape
<1>6. /\ closure' = closure /\ tx'["azure"].todo = pairs /\ tx'["azure"].wrote = NoRows
      /\ azure'.at = "stitching" /\ azure'.listed = listed
  BY <1>1, <1>3, <1>4, TxTypes DEF BatchStarts, NoTx
<1>7. SameColumns(closure, View("azure")')
  <2>1. \A x \in Pairs : View("azure")'[x] = closure'[x]
    BY <1>6 DEF View, KeepFirst, NoRows
  <2> QED
    BY <1>6, <2>1, NodeSets DEF SameColumns, Pairs
<1>8. AzureRows(closure') /\ AzureRows(View("azure")')
  BY <1>6, <1>7, RowsOfColumns DEF StitchInv
<1>9. \A n \in Placed' : HasTurn(pairs, <<n, AzureParent[n]>>)
  BY <1>5, <1>6 DEF Placed
<1>10. Stitches(tx["azure"].todo, View("azure"))'
  BY <1>5, <1>6, <1>9 DEF Stitches, Ordered, HasTurn
<1> QED
  BY <1>6, <1>8, <1>10 DEF StitchInv, AzureRows

\* A pair of the batch: the child comes below its parent and all there is above it.
LEMMA StitchPair ==
  ASSUME HierarchyTypeOK, Apart, StitchInv, RecordPair("azure"), azure' = azure
  PROVE  StitchInv'
<1> DEFINE V == View("azure")
           todo == tx["azure"].todo
<1>1. "azure" \in Recorders
  BY NodeSets
<1>2. PICK c, p : /\ todo # <<>> /\ todo[1] = <<c, p>> /\ c \in Nodes /\ p \in Nodes
                  /\ tx'["azure"].todo = Tail(todo) /\ closure' = closure
                  /\ \A x \in Pairs : V'[x] = IF V[x] # NoDepth THEN V[x]
                                              ELSE AncestorRows(V, c, p)[x]
  <2> DEFINE h == Head(todo)
  <2>1. /\ todo # <<>> /\ h = todo[1] /\ <<h[1], h[2]>> = h /\ h[1] \in Nodes /\ h[2] \in Nodes
        /\ tx'["azure"].todo = Tail(todo) /\ closure' = closure
        /\ \A x \in Pairs : V'[x] = IF V[x] # NoDepth THEN V[x]
                                    ELSE AncestorRows(V, h[1], h[2])[x]
    BY <1>1, PairStep
  <2> HIDE DEF h, todo, V
  <2> QED
    BY <2>1
<1>3. /\ 1 \in DOMAIN todo
      /\ \A i \in DOMAIN Tail(todo) : i \in Nat /\ i + 1 \in DOMAIN todo
                                      /\ Tail(todo)[i] = todo[i + 1]
      /\ \A i \in DOMAIN todo :
            i = 1 \/ (i - 1 \in DOMAIN Tail(todo) /\ Tail(todo)[i - 1] = todo[i])
      /\ \A i \in DOMAIN todo : i \in Nat
  <2>1. todo \in Seq(Pairs)
    BY <1>1, TxTypes
  <2> QED
    BY <1>2, <2>1, HeadAndTail
<1>4. c \in AzureNodes /\ (c = p \/ p = AzureParent[c]) /\ p # NoParent
  BY <1>2, <1>3, ScanAssumption DEF Apart
<1> HIDE DEF todo, V
<1>5. \A a \in Nodes : AncestorRows(V, c, p)[<<a, c>>] =
        IF a = c THEN 0 ELSE IF V[<<a, p>>] # NoDepth THEN V[<<a, p>>] + 1 ELSE NoDepth
  BY <1>2 DEF AncestorRows, Pairs
<1>6. \A a, n \in Nodes : n # c => V'[<<a, n>>] = V[<<a, n>>]
  <2> SUFFICES ASSUME NEW a \in Nodes, NEW n \in Nodes, n # c PROVE V'[<<a, n>>] = V[<<a, n>>]
    OBVIOUS
  <2>1. <<a, n>> \in Pairs
    BY DEF Pairs
  <2>2. AncestorRows(V, c, p)[<<a, n>>] = NoDepth
    BY <2>1 DEF AncestorRows
  <2> QED
    BY <1>2, <2>1, <2>2
<1>7. \A a \in Nodes : V'[<<a, c>>] = IF V[<<a, c>>] # NoDepth THEN V[<<a, c>>]
                                      ELSE AncestorRows(V, c, p)[<<a, c>>]
  BY <1>2 DEF Pairs
<1>8. \A a, n \in Nodes : V[<<a, n>>] # NoDepth => V'[<<a, n>>] = V[<<a, n>>]
  BY <1>6, <1>7
<1>9. \A a, n \in Nodes : V[<<a, n>>] \in Nat \union {NoDepth}
  BY <1>1, TxTypes DEF V, Tables, Pairs
<1>10. c # p => p \in Tops /\ p \in AzureNodes /\ AzureDepth[p] < AzureDepth[c]
                /\ AzureDepth[p] \in Nat /\ AzureDepth[c] \in Nat
  BY <1>4, AzureAbove
<1>11. AzureRows(V) /\ AzureRows(closure)
  BY DEF StitchInv, V
<1>12. ASSUME NEW a \in Nodes, NEW n \in AzureNodes, V'[<<a, n>>] # NoDepth
       PROVE  \/ a = n /\ V'[<<a, n>>] = 0
              \/ /\ a \in AzureNodes /\ AzureDepth[a] < AzureDepth[n]
                 /\ AzureParent[n] # NoParent /\ V'[<<a, AzureParent[n]>>] # NoDepth
                 /\ V'[<<a, n>>] = V'[<<a, AzureParent[n]>>] + 1
  <2>1. n \in Nodes
    BY KindsApart
  <2>2. AzureParent[n] # NoParent => AzureParent[n] \in Nodes
    BY AzureAbove
  <2>3. CASE V[<<a, n>>] # NoDepth
    <3>1. \/ a = n /\ V[<<a, n>>] = 0
          \/ /\ a \in AzureNodes /\ AzureDepth[a] < AzureDepth[n]
             /\ AzureParent[n] # NoParent /\ V[<<a, AzureParent[n]>>] # NoDepth
             /\ V[<<a, n>>] = V[<<a, AzureParent[n]>>] + 1
      BY <1>11, <2>3 DEF AzureRows
    <3> QED
      BY <1>8, <2>1, <2>2, <2>3, <3>1
  <2>4. CASE V[<<a, n>>] = NoDepth
    <3>1. n = c /\ V'[<<a, n>>] = AncestorRows(V, c, p)[<<a, c>>]
      BY <1>6, <1>7, <1>12, <2>1, <2>4
    <3>2. CASE a = c
      BY <1>5, <3>1, <3>2
    <3>3. CASE a # c
      <4>1. V[<<a, p>>] # NoDepth /\ V'[<<a, n>>] = V[<<a, p>>] + 1
        BY <1>5, <1>12, <3>1, <3>3
      <4>2. c # p
        BY <2>4, <3>1, <4>1
      <4>3. p = AzureParent[n] /\ V'[<<a, p>>] = V[<<a, p>>]
        BY <1>2, <1>4, <1>8, <3>1, <4>1, <4>2
      <4>4. a = p \/ (a \in AzureNodes /\ AzureDepth[a] < AzureDepth[p])
        BY <1>10, <1>11, <4>1, <4>2 DEF AzureRows
      <4>5. a \in AzureNodes /\ AzureDepth[a] < AzureDepth[n]
        <5>1. a \in AzureNodes
          BY <1>10, <4>2, <4>4
        <5>2. AzureDepth[a] \in Nat
          BY <5>1, TreeAssumption
        <5> QED
          BY <1>10, <3>1, <4>2, <4>4, <5>1, <5>2
      <4> QED
        BY <1>4, <4>1, <4>3, <4>5
    <3> QED
      BY <3>2, <3>3
  <2> QED
    BY <2>3, <2>4
<1>13. AzureRows(V')
  BY <1>12 DEF AzureRows
<1>14. ASSUME Stitches(todo, V)
       PROVE  Stitches(Tail(todo), V')
  <2>1. Ordered(Tail(todo))
    <3> SUFFICES ASSUME NEW i \in DOMAIN Tail(todo), NEW j \in DOMAIN Tail(todo), i < j,
                        Tail(todo)[i][1] # Tail(todo)[i][2]
                 PROVE  Tail(todo)[j][1] # Tail(todo)[i][2]
      BY DEF Ordered
    <3>1. /\ i + 1 \in DOMAIN todo /\ Tail(todo)[i] = todo[i + 1]
          /\ j + 1 \in DOMAIN todo /\ Tail(todo)[j] = todo[j + 1] /\ i + 1 < j + 1
      BY <1>3
    <3> QED
      BY <1>14, <3>1 DEF Stitches, Ordered
  <2>2. \A x : HasTurn(todo, x) => x = <<c, p>> \/ HasTurn(Tail(todo), x)
    <3> SUFFICES ASSUME NEW x, HasTurn(todo, x) PROVE x = <<c, p>> \/ HasTurn(Tail(todo), x)
      OBVIOUS
    <3>1. PICK i \in DOMAIN todo : todo[i] = x
      BY DEF HasTurn
    <3>2. CASE i = 1
      BY <1>2, <3>1, <3>2
    <3>3. CASE i # 1
      <4>1. i - 1 \in DOMAIN Tail(todo) /\ Tail(todo)[i - 1] = x
        BY <1>3, <3>1, <3>3
      <4> QED
        BY <4>1, Zenon DEF HasTurn
    <3> QED
      BY <3>2, <3>3
  <2>3. ASSUME NEW m \in Tops
        PROVE  V'[<<m, m>>] # NoDepth \/ HasTurn(Tail(todo), <<m, m>>)
    <3>1. m \in Nodes
      BY KindsApart
    <3>2. V[<<m, m>>] # NoDepth \/ HasTurn(todo, <<m, m>>)
      BY <1>14 DEF Stitches
    <3>3. CASE V[<<m, m>>] # NoDepth
      BY <1>8, <3>1, <3>3
    <3>4. CASE <<m, m>> = <<c, p>>
      <4>1. m = c /\ AncestorRows(V, c, p)[<<m, m>>] = 0
        BY <1>5, <3>1, <3>4
      <4> QED
        BY <1>7, <3>1, <4>1, HierarchyAssumption
    <3> QED
      BY <2>2, <3>2, <3>3, <3>4
  <2>4. ASSUME NEW n \in Placed
        PROVE  \/ HasTurn(Tail(todo), <<n, AzureParent[n]>>)
               \/ /\ Below(V', n)
                  /\ \A i \in DOMAIN Tail(todo) : Tail(todo)[i][1] # AzureParent[n]
    <3>1. n \in AzureNodes /\ n \in Nodes /\ AzureParent[n] # NoParent
      BY KindsApart DEF Placed
    <3>2. AzureParent[n] \in Nodes /\ AzureParent[n] # n /\ AzureParent[n] \in Tops
      BY <3>1, AzureAbove
    <3>3. CASE /\ Below(V, n) /\ \A i \in DOMAIN todo : todo[i][1] # AzureParent[n]
      <4>1. c # AzureParent[n]
        BY <1>2, <1>3, <3>3
      <4>2. \A a \in Nodes : V'[<<a, AzureParent[n]>>] = V[<<a, AzureParent[n]>>]
        BY <1>6, <3>2, <4>1
      <4>3. Below(V', n)
        BY <1>8, <3>1, <3>2, <3>3, <4>2 DEF Below
      <4> QED
        BY <1>3, <3>3, <4>3
    <3>4. CASE <<n, AzureParent[n]>> = <<c, p>>
      <4>1. n = c /\ AzureParent[n] = p /\ c # p
        BY <3>2, <3>4
      <4>2. \A j \in DOMAIN todo : j # 1 => todo[j][1] # p
        <5>1. todo[1][1] = c /\ todo[1][2] = p
          BY <1>2
        <5>2. \A j \in DOMAIN todo : j # 1 => 1 < j
          <6>1. \A i \in DOMAIN todo : i = 1 \/ i - 1 \in DOMAIN Tail(todo)
            BY <1>3
          <6>2. \A i \in DOMAIN Tail(todo) : i \in Nat /\ i # 0
            <7>1. todo \in Seq(Pairs)
              BY <1>1, TxTypes DEF todo
            <7>2. Tail(todo) \in Seq(Pairs)
              BY <1>2, <7>1
            <7> QED
              BY <7>2
          <6> QED
            BY <1>3, <6>1, <6>2
        <5> QED
          BY <1>3, <1>14, <4>1, <5>1, <5>2 DEF Stitches, Ordered
      <4>3. \A i \in DOMAIN Tail(todo) : Tail(todo)[i][1] # p
        <5>1. \A i \in DOMAIN Tail(todo) : i + 1 # 1
          <6>1. todo \in Seq(Pairs)
            BY <1>1, TxTypes DEF todo
          <6>2. Tail(todo) \in Seq(Pairs)
            BY <1>2, <6>1
          <6> QED
            BY <6>2
        <5> QED
          BY <1>3, <4>2, <5>1
      <4>4. V[<<p, p>>] # NoDepth
        <5>1. V[<<p, p>>] # NoDepth \/ HasTurn(todo, <<p, p>>)
          BY <1>14, <3>2, <4>1 DEF Stitches
        <5>2. ~HasTurn(todo, <<p, p>>)
          BY <1>2, <4>1, <4>2 DEF HasTurn
        <5> QED
          BY <5>1, <5>2
      <4>5. \A a \in Nodes : V'[<<a, p>>] = V[<<a, p>>]
        BY <1>2, <1>6, <4>1
      <4>6. ASSUME NEW a \in Nodes, V[<<a, p>>] # NoDepth
            PROVE  V'[<<a, c>>] # NoDepth
        <5>1. V[<<a, p>>] \in Nat
          BY <1>2, <1>9, <4>6
        <5>2. AncestorRows(V, c, p)[<<a, c>>] \in Nat
          BY <1>5, <4>6, <5>1
        <5>3. AncestorRows(V, c, p)[<<a, c>>] # NoDepth
          BY <5>2, HierarchyAssumption
        <5> QED
          BY <1>7, <5>3
      <4>7. Below(V', n)
        BY <1>2, <4>1, <4>4, <4>5, <4>6 DEF Below
      <4> QED
        BY <4>1, <4>3, <4>7
    <3> QED
      BY <1>14, <2>2, <3>3, <3>4 DEF Stitches
  <2> QED
    BY <2>1, <2>3, <2>4 DEF Stitches
<1>15. Placed' = Placed /\ (azure.at = "stitching" => Stitches(todo, V))
  BY DEF Placed, StitchInv, todo, V
<1>16. azure'.at = "stitching" => Stitches(tx["azure"].todo, View("azure"))'
  <2> SUFFICES ASSUME azure.at = "stitching" PROVE Stitches(tx["azure"].todo, View("azure"))'
    OBVIOUS
  <2>1. Stitches(Tail(todo), V')
    BY <1>14, <1>15
  <2>2. Stitches(tx'["azure"].todo, V')
    BY <1>2, <2>1
  <2> QED
    BY <1>15, <2>2, Zenon DEF Stitches, Ordered, HasTurn, Below, V
<1>17. azure'.at = "stitched" => \A n \in Placed' : Below(closure, n)'
  BY <1>2, <1>15 DEF StitchInv, Below
<1> QED
  BY <1>2, <1>11, <1>13, <1>16, <1>17 DEF StitchInv, AzureRows, V

\* When the batch commits, the closure has become what it saw.
LEMMA StitchLands ==
  ASSUME HierarchyTypeOK, StitchInv, Stitched
  PROVE  StitchInv'
<1>1. "azure" \in Recorders /\ azure.at = "stitching" /\ tx["azure"].todo = <<>>
  BY NodeSets DEF Stitched, BatchCommits
<1>2. closure' = View("azure") /\ tx'["azure"].wrote = NoRows
  BY <1>1, TxTypes DEF Stitched, BatchCommits, View, NoTx
<1>3. azure'.at = "stitched" /\ Placed' = Placed
  BY DEF Stitched, Placed
<1>4. AzureRows(closure')
  BY <1>2 DEF StitchInv
<1>5. SameColumns(closure', View("azure")')
  <2>1. \A x \in Pairs : View("azure")'[x] = closure'[x]
    BY <1>2 DEF View, KeepFirst, NoRows
  <2> QED
    BY <2>1, NodeSets DEF SameColumns, Pairs
<1>6. AzureRows(View("azure")')
  BY <1>4, <1>5, RowsOfColumns
<1>7. \A n \in Placed : Below(View("azure"), n)
  <2>1. \A x : ~HasTurn(<<>>, x)
    BY DEF HasTurn
  <2> QED
    BY <1>1, <2>1 DEF StitchInv, Stitches
<1>8. \A n \in Placed' : Below(closure, n)'
  BY <1>2, <1>3, <1>7 DEF Below
<1> QED
  BY <1>3, <1>4, <1>6, <1>8 DEF StitchInv, AzureRows

LEMMA StitchIsDropped ==
  ASSUME HierarchyTypeOK, StitchInv, StitchFails
  PROVE  StitchInv'
<1>1. "azure" \in Recorders
  BY NodeSets
<1>2. closure' = closure /\ tx'["azure"].wrote = NoRows /\ azure'.at = "failed"
  BY <1>1, TxTypes DEF StitchFails, BatchFails, NoTx, HierarchyTypeOK
<1>3. SameColumns(closure', View("azure")')
  <2>1. \A x \in Pairs : View("azure")'[x] = closure'[x]
    BY <1>2 DEF View, KeepFirst, NoRows
  <2> QED
    BY <2>1, NodeSets DEF SameColumns, Pairs
<1>4. AzureRows(closure') /\ AzureRows(View("azure")')
  BY <1>2, <1>3, RowsOfColumns DEF StitchInv
<1> QED
  BY <1>2, <1>4 DEF StitchInv, AzureRows

-----------------------------------------------------------------------------
(* Every step keeps LinkInv. *)

LEMMA WalkFeeds ==
  ASSUME TreeInv, gcp.at = "record"
  PROVE  PairsOf(This) \in Seq(Pairs) /\ Feeds("gcp", PairsOf(This))
<1>1. PairsOf(This) \in Seq(Pairs)
  BY WalkPairs
<1>2. This \in TreeNodes
  <2>1. gcp.todo \in Seq(TreeNodes) /\ gcp.todo # <<>>
    BY DEF TreeInv, Walk
  <2> QED
    BY <2>1 DEF This
<1> HIDE DEF This
<1>3. This \in GcpNodes
  BY <1>2 DEF TreeNodes, GcpNodes
<1>4. \A i \in DOMAIN PairsOf(This) : PairsOf(This)[i][1] = This
        /\ (PairsOf(This)[i][2] = This
              \/ (This \in Folders \union TreeProjects /\ PairsOf(This)[i][2] = tree[This]))
  BY <1>2 DEF PairsOf, TreeNodes
<1> QED
  BY <1>1, <1>3, <1>4 DEF Feeds, Kin

LEMMA ServiceFeeds ==
  ASSUME NEW p \in TreeProjects
  PROVE  <<<<ResourceOf[p], p>>>> \in Seq(Pairs) /\ Feeds(p, <<<<ResourceOf[p], p>>>>)
<1>1. p # "azure" /\ ResourceOf[p] \in GcpNodes /\ <<ResourceOf[p], p>> \in Pairs
  BY TreeAssumption, KindsApart, NodeSets DEF Pairs
<1> QED
  BY <1>1 DEF Feeds, Kin

\* The projects are recorders of their own.
LEMMA ProjectsRecord ==
  /\ "gcp" \in Recorders \ {"azure"} /\ "azure" \in Recorders
  /\ \A p \in TreeProjects : p \in Recorders \ {"azure"} /\ p # "gcp"
BY NodeSets, TreeAssumption

LEMMA TablesAloneLinked ==
  ASSUME LinkInv, TreeInv, HierarchyTypeOK,
         \/ StartTreeScan \/ StoreNode \/ StartServices \/ ServicesEnd \/ TreeScanEnds \/ Move
         \/ StoreAzure \/ \E p \in TreeProjects : StoreResource(p)
  PROVE  LinkInv'
<1>1. UNCHANGED <<closure, contains, recorded, tx>> /\ (moved' \/ UNCHANGED <<tree, moved>>)
  BY DEF StartTreeScan, StoreNode, StartServices, ServicesEnd, TreeScanEnds, Move, StoreAzure,
         StoreResource, StoreRows, hierarchyVars
<1>2. azure' = azure \/ azure'.at \notin {"stitching", "stitched"}
  <2>1. CASE StartTreeScan
    BY <2>1 DEF StartTreeScan
  <2>2. CASE TreeScanEnds
    BY <2>2 DEF TreeScanEnds, TreeInv, Stitching
  <2>3. CASE StoreAzure
    BY <2>3 DEF StoreAzure, TreeInv, Stitching
  <2> QED
    BY <2>1, <2>2, <2>3 DEF StoreNode, StartServices, ServicesEnd, Move, StoreResource
<1>3. Discipline'
  BY <1>1, TablesAlone DEF LinkInv, Discipline
<1>4. InHand' /\ LinkedSoFar'
  <2>1. CASE StoreAzure \/ \E p \in TreeProjects : StoreResource(p)
    <3>1. UNCHANGED <<tree, gcp>>
      BY <2>1 DEF StoreAzure, StoreResource
    <3> QED
      BY <1>1, <3>1, WalkStays DEF LinkInv
  <2> QED
    BY <2>1, WalkStartsLinked, NodeStaysLinked, RestStaysLinked DEF LinkInv
<1>5. StitchInv'
  BY <1>1, <1>2, ProjectsRecord, OthersAside DEF LinkInv
<1> QED
  BY <1>3, <1>4, <1>5 DEF LinkInv, Discipline

LEMMA WalkLinked ==
  ASSUME LinkInv, TreeInv, HierarchyTypeOK, RecordNode \/ NodeRecorded \/ HierarchyAborts
  PROVE  LinkInv'
<1>1. UNCHANGED <<tree, moved, azure>>
  BY DEF RecordNode, NodeRecorded, HierarchyAborts
<1>2. \/ UNCHANGED <<closure, contains, recorded, tx>>
      \/ gcp.at = "record" /\ BatchStarts("gcp", PairsOf(This))
      \/ BatchCommits("gcp") \/ BatchFails("gcp")
  BY DEF RecordNode, NodeRecorded, HierarchyAborts, hierarchyVars
<1>3. Discipline'
  <2>1. CASE UNCHANGED <<closure, contains, recorded, tx>>
    BY <1>1, <2>1, TablesAlone DEF LinkInv, Discipline
  <2>2. CASE gcp.at = "record" /\ BatchStarts("gcp", PairsOf(This))
    BY <1>1, <2>2, ProjectsRecord, WalkFeeds, StartKeepsDiscipline DEF LinkInv, Discipline
  <2>3. CASE BatchCommits("gcp")
    BY <1>1, <2>3, ProjectsRecord, CommitKeepsDiscipline DEF LinkInv, Discipline
  <2>4. CASE BatchFails("gcp")
    BY <1>1, <2>4, ProjectsRecord, FailKeepsDiscipline DEF LinkInv, Discipline
  <2> QED
    BY <1>2, <2>1, <2>2, <2>3, <2>4
<1>4. InHand' /\ LinkedSoFar'
  BY RecordStaysLinked, RecordedStaysLinked, RestStaysLinked DEF LinkInv
<1>5. StitchInv'
  BY <1>1, <1>2, ProjectsRecord, OthersAside DEF LinkInv
<1> QED
  BY <1>3, <1>4, <1>5 DEF LinkInv, Discipline

LEMMA ServicesLinked ==
  ASSUME LinkInv, TreeInv, HierarchyTypeOK, NEW p \in TreeProjects,
         RecordResource(p) \/ ResourceRecorded(p) \/ ResourceFails(p)
  PROVE  LinkInv'
<1>1. UNCHANGED <<tree, moved, azure>>
  BY DEF RecordResource, ResourceRecorded, ResourceFails
<1>2. \/ BatchStarts(p, <<<<ResourceOf[p], p>>>>) \/ BatchCommits(p) \/ BatchFails(p)
  BY DEF RecordResource, ResourceRecorded, ResourceFails
<1>3. p \in Recorders /\ p # "gcp" /\ "gcp" \in Recorders
  BY ProjectsRecord
<1>4. Discipline'
  <2>1. CASE BatchStarts(p, <<<<ResourceOf[p], p>>>>)
    BY <1>1, <1>3, <2>1, ServiceFeeds, StartKeepsDiscipline DEF LinkInv, Discipline
  <2>2. CASE BatchCommits(p)
    BY <1>1, <1>3, <2>2, CommitKeepsDiscipline DEF LinkInv, Discipline
  <2>3. CASE BatchFails(p)
    BY <1>1, <1>3, <2>3, FailKeepsDiscipline DEF LinkInv, Discipline
  <2> QED
    BY <1>2, <2>1, <2>2, <2>3
<1>5. InHand' /\ LinkedSoFar'
  <2>1. gcp'.at = gcp.at /\ gcp'.todo = gcp.todo /\ (gcp'.quiet => gcp.quiet)
    <3>1. CASE RecordResource(p)
      BY <3>1 DEF RecordResource
    <3>2. CASE ResourceRecorded(p)
      BY <3>2 DEF ResourceRecorded, TreeInv, Walk
    <3>3. CASE ResourceFails(p)
      BY <3>3 DEF ResourceFails, TreeInv, Walk
    <3> QED
      BY <3>1, <3>2, <3>3
  <2>2. contains \subseteq contains'
    BY <1>2 DEF BatchStarts, BatchCommits, BatchFails
  <2>3. tx'["gcp"] = tx["gcp"]
    BY <1>2, <1>3, TxTypes DEF BatchStarts, BatchCommits, BatchFails
  <2> QED
    BY <1>1, <2>1, <2>2, <2>3, WalkStays DEF LinkInv
<1>6. StitchInv'
  BY <1>1, <1>2, ProjectsRecord, OthersAside DEF LinkInv
<1> QED
  BY <1>4, <1>5, <1>6 DEF LinkInv, Discipline

LEMMA StitchingLinked ==
  ASSUME LinkInv, TreeInv, HierarchyTypeOK, HierarchyTypeOK', Stitch \/ Stitched \/ StitchFails
  PROVE  LinkInv'
<1>1. UNCHANGED <<tree, moved, gcp>>
  BY Zenon DEF Stitch, Stitched, StitchFails
<1>2. \/ \E listed \in BOOLEAN, q \in EntityOrders : BatchStarts("azure", StitchBatch(listed, q))
      \/ BatchCommits("azure") \/ BatchFails("azure")
  BY DEF Stitch, Stitched, StitchFails, StitchBatch
<1>3. "azure" \in Recorders /\ "azure" # "gcp" /\ "gcp" \in Recorders
  BY ProjectsRecord
<1>4. Discipline'
  <2>1. CASE \E listed \in BOOLEAN, q \in EntityOrders :
                BatchStarts("azure", StitchBatch(listed, q))
    <3>1. PICK listed \in BOOLEAN, q \in EntityOrders :
                BatchStarts("azure", StitchBatch(listed, q))
      BY <2>1
    <3>2. StitchBatch(listed, q) \in Seq(Pairs) /\ Feeds("azure", StitchBatch(listed, q))
      BY StitchShape
    <3> QED
      BY <1>1, <1>3, <3>1, <3>2, StartKeepsDiscipline DEF LinkInv, Discipline
  <2>2. CASE BatchCommits("azure")
    BY <1>1, <1>3, <2>2, CommitKeepsDiscipline DEF LinkInv, Discipline
  <2>3. CASE BatchFails("azure")
    BY <1>1, <1>3, <2>3, FailKeepsDiscipline DEF LinkInv, Discipline
  <2> QED
    BY <1>2, <2>1, <2>2, <2>3
<1>5. InHand' /\ LinkedSoFar'
  <2>1. contains \subseteq contains'
    BY <1>2 DEF BatchStarts, BatchCommits, BatchFails
  <2>2. tx'["gcp"] = tx["gcp"]
    BY <1>2, <1>3, TxTypes DEF BatchStarts, BatchCommits, BatchFails
  <2> QED
    BY <1>1, <2>1, <2>2, WalkStays DEF LinkInv
<1>6. StitchInv'
  BY StitchStarts, StitchLands, StitchIsDropped DEF LinkInv
<1> QED
  BY <1>4, <1>5, <1>6 DEF LinkInv, Discipline

LEMMA PairsLinked ==
  ASSUME LinkInv, TreeInv, HierarchyTypeOK, NEW w \in Recorders, RecordPair(w),
         UNCHANGED <<tree, moved, gcp, svc, azure, scans, clean>>
  PROVE  LinkInv'
<1>1. UNCHANGED <<tree, moved, gcp, azure>>
  OBVIOUS
<1>2. Discipline'
  BY <1>1, PairKeepsDiscipline DEF LinkInv, Discipline
<1>3. contains' = contains
  BY DEF RecordPair
<1>4. LinkedSoFar'
  BY <1>1, <1>3, StillLinked DEF LinkInv
<1>5. InHand'
  <2>1. CASE w = "gcp"
    BY <1>1, <2>1, WalkPairInHand DEF LinkInv
  <2>2. CASE w # "gcp"
    <3>1. tx'["gcp"] = tx["gcp"]
      BY <2>2, ProjectsRecord, TxTypes DEF RecordPair
    <3> QED
      BY <1>1, <1>3, <3>1, WalkStays DEF LinkInv
  <2> QED
    BY <2>1, <2>2
<1>6. StitchInv'
  <2>1. CASE w = "azure"
    BY <1>1, <2>1, StitchPair DEF LinkInv
  <2>2. CASE w # "azure"
    BY <1>1, <2>2, OthersAside DEF LinkInv
  <2> QED
    BY <2>1, <2>2
<1> QED
  BY <1>2, <1>4, <1>5, <1>6 DEF LinkInv, Discipline

LEMMA NothingMovesLinked ==
  ASSUME LinkInv, TreeInv, HierarchyTypeOK, UNCHANGED treeVars
  PROVE  LinkInv'
<1>1. UNCHANGED <<closure, contains, recorded, tx, tree, moved, gcp, azure>>
  BY DEF treeVars, hierarchyVars
<1>2. Discipline'
  BY <1>1, TablesAlone DEF LinkInv, Discipline
<1>3. InHand' /\ LinkedSoFar'
  BY <1>1, WalkStays DEF LinkInv
<1>4. StitchInv'
  BY <1>1, ProjectsRecord, OthersAside DEF LinkInv
<1> QED
  BY <1>2, <1>3, <1>4 DEF LinkInv, Discipline

LEMMA LinkStart == HierarchyScanInit => LinkInv
<1> SUFFICES ASSUME HierarchyScanInit PROVE LinkInv
  OBVIOUS
<1>1. /\ closure = NoRows /\ contains = {} /\ recorded = {} /\ tx = [w \in Recorders |-> NoTx]
      /\ gcp.at = "idle" /\ gcp.quiet = FALSE /\ azure.at = "idle"
  BY DEF HierarchyScanInit, HierarchyInit
<1>2. \A w \in Recorders : tx[w].todo = <<>> /\ tx[w].done = {} /\ tx[w].edges = {}
                           /\ tx[w].wrote = NoRows
  BY <1>1 DEF NoTx
<1>3. OneTree /\ NoLoops
  BY <1>1, <1>2 DEF OneTree, NoLoops
<1>4. Apart
  BY <1>2, ProjectsRecord DEF Apart, NoRows
<1>5. InHand /\ LinkedSoFar
  BY <1>1 DEF InHand, LinkedSoFar
<1>6. \A x \in Pairs : closure[x] = NoDepth /\ View("azure")[x] = NoDepth
  BY <1>1, <1>2, ProjectsRecord DEF NoRows, View, KeepFirst
<1>7. AzureRows(closure) /\ AzureRows(View("azure"))
  BY <1>6, NodeSets DEF AzureRows, Pairs
<1>8. StitchInv
  BY <1>1, <1>7 DEF StitchInv
<1> QED
  BY <1>3, <1>4, <1>5, <1>8 DEF LinkInv

LEMMA LinkStep ==
  LinkInv /\ TreeInv /\ HierarchyTypeOK /\ HierarchyTypeOK' /\ [HierarchyScanNext]_treeVars
    => LinkInv'
<1> SUFFICES ASSUME LinkInv, TreeInv, HierarchyTypeOK, HierarchyTypeOK',
                    [HierarchyScanNext]_treeVars
             PROVE  LinkInv'
  OBVIOUS
<1>1. CASE UNCHANGED treeVars
  BY <1>1, NothingMovesLinked
<1>2. CASE \E w \in Recorders : /\ RecordPair(w)
                                /\ UNCHANGED <<tree, moved, gcp, svc, azure, scans, clean>>
  BY <1>2, PairsLinked
<1>3. CASE \E p \in TreeProjects : \/ StoreResource(p) \/ RecordResource(p)
                                   \/ ResourceRecorded(p) \/ ResourceFails(p)
  BY <1>3, TablesAloneLinked, ServicesLinked
<1> QED
  BY <1>1, <1>2, <1>3, TablesAloneLinked, WalkLinked, StitchingLinked, Zenon
     DEF HierarchyScanNext

\* What is recorded is of one tree until somebody moves it; what was not linked was
\* warned of, or has its turn to come; Azure's rows follow the chain of parents.
THEOREM LinkInvariance == HierarchyScanSpec => []LinkInv
BY LinkStart, LinkStep, TreeInvariance, ScansUseTheTables, HierarchyTypes, PTL
   DEF HierarchyScanSpec

-----------------------------------------------------------------------------
(* What follows for a reader of the tables. *)

LEMMA QuietIsLinked == LinkInv => QuietMeansLinked
BY DEF LinkInv, LinkedSoFar, QuietMeansLinked

\* A row of a parent that the child lies below is one nearer.
LEMMA StitchingIsComplete == LinkInv /\ HierarchyTypeOK => StitchedIsComplete
<1> SUFFICES ASSUME LinkInv, HierarchyTypeOK, azure.at = "stitched",
                    NEW n \in Subs \union Groups \union ResourceGroups,
                    AzureParent[n] # NoParent, azure.listed \/ n \in ResourceGroups
             PROVE  /\ closure[<<AzureParent[n], n>>] # NoDepth
                    /\ \A a \in Nodes : closure[<<a, AzureParent[n]>>] # NoDepth =>
                          closure[<<a, n>>] = closure[<<a, AzureParent[n]>>] + 1
  BY DEF StitchedIsComplete
<1>1. n \in AzureNodes /\ n \in Placed
  BY DEF AzureNodes, Placed
<1>2. AzureRows(closure) /\ Below(closure, n)
  BY <1>1 DEF LinkInv, StitchInv
<1>3. /\ AzureParent[n] \in Nodes /\ AzureParent[n] \in AzureNodes
      /\ AzureDepth[AzureParent[n]] < AzureDepth[n]
      /\ AzureDepth[n] \in Nat /\ AzureDepth[AzureParent[n]] \in Nat
  BY <1>1, AzureAbove
<1>4. ASSUME NEW a \in Nodes, closure[<<a, AzureParent[n]>>] # NoDepth
      PROVE  closure[<<a, n>>] = closure[<<a, AzureParent[n]>>] + 1
  <2>1. closure[<<a, n>>] # NoDepth
    BY <1>2, <1>4 DEF Below
  <2>2. a # n
    <3>1. a = AzureParent[n]
            \/ (a \in AzureNodes /\ AzureDepth[a] < AzureDepth[AzureParent[n]])
      BY <1>2, <1>3, <1>4 DEF AzureRows
    <3>2. CASE a = AzureParent[n]
      BY <1>3, <3>2
    <3>3. CASE a # AzureParent[n]
      BY <1>3, <3>1, <3>3
    <3> QED
      BY <3>2, <3>3
  <2> QED
    BY <1>1, <1>2, <2>1, <2>2 DEF AzureRows
<1>5. closure[<<AzureParent[n], n>>] # NoDepth
  BY <1>2, <1>3 DEF Below
<1> QED
  BY <1>4, <1>5

\* What the scans leave is linked, or the scan has warned of it; Azure's entities lie
\* below all their parents as soon as the batch commits; and no edge is reversed
\* unless somebody turned the tree, however many scans run, and whatever fails.
THEOREM RecordsAreLinked == HierarchyScanSpec => []RecordedIsLinked
<1>1. /\ TreeInv /\ HierarchyTypeOK /\ LinkInv /\ ClosureSound /\ ContainsMirrorsClosure
      /\ HierarchyScanTypeOK
      => RecordedIsLinked
  <2> SUFFICES ASSUME TreeInv, HierarchyTypeOK, LinkInv, ClosureSound, ContainsMirrorsClosure,
                      HierarchyScanTypeOK
               PROVE  RecordedIsLinked
    OBVIOUS
  <2>1. ReversedOnlyAfterMove
    BY NothingReversed DEF ReversedOnlyAfterMove, LinkInv, TreeInv
  <2> QED
    BY <2>1, QuietIsLinked, StitchingIsComplete DEF RecordedIsLinked
<1> QED
  BY <1>1, TreeInvariance, LinkInvariance, TreeTypes, ScansInventNothing, ScansUseTheTables,
     HierarchyTypes, ClosureStaysTrue, PTL DEF ClosureIsTrue

-----------------------------------------------------------------------------
(* Clean scans converge. *)

\* Known and Parentless, of tree t.
KnownIn(t) == ({t[p] : p \in TreeProjects} \intersect (Orgs \union Folders)) \union TreeProjects
BareIn(t) == {n \in Folders \union TreeProjects : t[n] = NoParent}

\* A set that leads upward to what is not known only.
Upward(t, X) ==
    \A m \in X \intersect (Folders \union TreeProjects) : t[m] \in KnownIn(t) => t[m] \in X

\* In table T, r lies below n and all that is known above n.
Hangs(t, T, n, r) ==
    \E X \in SUBSET Nodes : /\ n \in X /\ Upward(t, X)
                            /\ \A a \in X \ BareIn(t) : T[<<a, r>>] # NoDepth

\* The folders that are not below all they should be.
Late(t, T) == {f \in KnownIn(t) \intersect Folders : ~Hangs(t, T, f, f)}

\* Every clean scan takes a folder out of S.
Shrinks(S, c) == S = {} \/ Cardinality(S) + c <= Cardinality(Folders)

\* Between two scans, c of them clean.
Settled(t, T, c) ==
    /\ Shrinks(Late(t, T), c)
    /\ c > 0 /\ c >= Cardinality(Folders) =>
          \A p \in TreeProjects : Hangs(t, T, p, p) /\ Hangs(t, T, p, ResourceOf[p])

\* The nodes that a scan completes when the folders of S were late at its start.
Owed(t, c, S, n) ==
    \/ n \in Orgs
    \/ n \in Folders /\ t[n] \notin S
    \/ n \in TreeProjects /\ c + 1 >= Cardinality(Folders)

\* The walk, with q to come: what it owes is done or has its turn.
Climbing(t, T, c, S, q) ==
    /\ S \in SUBSET Folders /\ Shrinks(S, c) /\ Late(t, T) \subseteq S
    /\ \A n \in KnownIn(t) : Owed(t, c, S, n) => Hangs(t, T, n, n) \/ HasTurn(q, n)

\* Organizations come before folders, folders before projects.
InTurn(q) ==
    \A i, j \in DOMAIN q : i < j => /\ q[j] \in Orgs => q[i] \in Orgs
                                    /\ q[j] \in Folders => q[i] \notin TreeProjects

\* The node in hand is still to be written, or done in the view T of the walk.
Holding(t, T, c, S, n, q, pairs) ==
    q = pairs \/ (q = <<>> /\ (Owed(t, c, S, n) => Hangs(t, T, n, n)))

\* The walk is over: one more folder, and in the last scan all projects.
Climbed(t, T, c) ==
    /\ Shrinks(Late(t, T), c + 1)
    /\ c + 1 >= Cardinality(Folders) => \A p \in TreeProjects : Hangs(t, T, p, p)

\* What the service of p found is below p, or will be: T is the table, V its view.
Served(t, T, V, p, at, q) ==
    /\ at = "idle" => Hangs(t, T, p, ResourceOf[p])
    /\ at = "recording" =>
          q = <<<<ResourceOf[p], p>>>> \/ (q = <<>> /\ Hangs(t, V, p, ResourceOf[p]))

WalkConverges ==
    gcp.good /\ gcp.at \in Walking =>
        /\ InTurn(gcp.todo)
        /\ \E S : /\ Climbing(tree, closure, clean, S, gcp.todo)
                  /\ gcp.at = "recording" =>
                        Holding(tree, View("gcp"), clean, S, This, tx["gcp"].todo, PairsOf(This))

ServicesConverge ==
    gcp.good /\ gcp.at \in {"services", "done"} =>
        /\ Climbed(tree, closure, clean)
        /\ clean + 1 >= Cardinality(Folders) =>
              \A p \in TreeProjects :
                  Served(tree, closure, View(p), p, svc[p], tx[p].todo)

ConvInv ==
    /\ Settled(tree, closure, clean)
    /\ gcp.at # "services" => \A p \in TreeProjects : svc[p] = "idle"
    /\ WalkConverges
    /\ ServicesConverge

-----------------------------------------------------------------------------
(* What hangs below what. *)

LEMMA KnownOf == Known = KnownIn(tree) /\ Parentless = BareIn(tree)
BY DEF Known, KnownIn, DirectParents, Parentless, BareIn

\* Rows that are there stay there.
More(T, U) == \A x \in Pairs : T[x] # NoDepth => U[x] # NoDepth

LEMMA HangsOn ==
  ASSUME NEW t, NEW T, NEW U, More(T, U), NEW n, NEW r \in Nodes, Hangs(t, T, n, r)
  PROVE  Hangs(t, U, n, r)
<1>1. PICK X \in SUBSET Nodes : /\ n \in X /\ Upward(t, X)
                                /\ \A a \in X \ BareIn(t) : T[<<a, r>>] # NoDepth
  BY DEF Hangs
<1>2. \A a \in X \ BareIn(t) : U[<<a, r>>] # NoDepth
  BY <1>1 DEF More, Pairs
<1> QED
  BY <1>1, <1>2 DEF Hangs

\* Nothing known is above a node but itself.
LEMMA HangsAlone ==
  ASSUME NEW t, NEW T, NEW n \in Nodes, n \in BareIn(t) \/ T[<<n, n>>] # NoDepth,
         n \in Folders \union TreeProjects => t[n] \notin KnownIn(t)
  PROVE  Hangs(t, T, n, n)
<1> DEFINE X == {n}
<1>1. X \in SUBSET Nodes /\ n \in X
  OBVIOUS
<1>2. Upward(t, X)
  BY DEF Upward
<1>3. \A a \in X \ BareIn(t) : T[<<a, n>>] # NoDepth
  OBVIOUS
<1> QED
  BY <1>1, <1>2, <1>3 DEF Hangs

\* A node that got all the rows of its parent hangs below what the parent hangs below.
LEMMA HangsBelow ==
  ASSUME NEW t, NEW T, NEW U, NEW n \in Nodes, NEW p, p = t[n], Hangs(t, T, p, p),
         U[<<n, n>>] # NoDepth, \A a \in Nodes : T[<<a, p>>] # NoDepth => U[<<a, n>>] # NoDepth
  PROVE  Hangs(t, U, n, n)
<1>1. PICK Y \in SUBSET Nodes : /\ p \in Y /\ Upward(t, Y)
                                /\ \A a \in Y \ BareIn(t) : T[<<a, p>>] # NoDepth
  BY DEF Hangs
<1> DEFINE X == Y \union {n}
<1>2. X \in SUBSET Nodes /\ n \in X
  BY <1>1
<1>3. Upward(t, X)
  BY <1>1 DEF Upward
<1>4. \A a \in X \ BareIn(t) : U[<<a, n>>] # NoDepth
  BY <1>1
<1> QED
  BY <1>2, <1>3, <1>4 DEF Hangs

\* So does the resource of a project.
LEMMA HangsFrom ==
  ASSUME NEW t, NEW T, NEW U, NEW p, NEW r, Hangs(t, T, p, p),
         \A a \in Nodes : T[<<a, p>>] # NoDepth => U[<<a, r>>] # NoDepth
  PROVE  Hangs(t, U, p, r)
<1>1. PICK X \in SUBSET Nodes : /\ p \in X /\ Upward(t, X)
                                /\ \A a \in X \ BareIn(t) : T[<<a, p>>] # NoDepth
  BY DEF Hangs
<1>2. \A a \in X \ BareIn(t) : U[<<a, r>>] # NoDepth
  BY <1>1
<1> QED
  BY <1>1, <1>2 DEF Hangs

\* The pair in hand gives the child its own row and those of the parent.
LEMMA PairGives ==
  ASSUME HierarchyTypeOK, NEW w \in Recorders, NEW c, NEW p, RecordPair(w),
         tx[w].todo = <<<<c, p>>>>
  PROVE  /\ tx'[w].todo = <<>> /\ closure' = closure /\ c \in Nodes
         /\ View(w)'[<<c, c>>] # NoDepth
         /\ \A a \in Nodes : closure[<<a, p>>] # NoDepth => View(w)'[<<a, c>>] # NoDepth
<1>1. /\ c = Head(tx[w].todo)[1] /\ p = Head(tx[w].todo)[2] /\ Tail(tx[w].todo) = <<>>
  OBVIOUS
<1>2. /\ c \in Nodes /\ p \in Nodes /\ tx'[w].todo = Tail(tx[w].todo) /\ closure' = closure
      /\ \A x \in Pairs : View(w)'[x] = IF View(w)[x] # NoDepth THEN View(w)[x]
                                        ELSE AncestorRows(View(w), c, p)[x]
  BY <1>1, PairStep, Zenon
<1>3. View(w) \in Tables /\ closure \in Tables
  BY TxTypes
<1>4. AncestorRows(View(w), c, p)[<<c, c>>] = 0 /\ <<c, c>> \in Pairs /\ 0 # NoDepth
  BY <1>2, HierarchyAssumption DEF AncestorRows, Pairs
<1>5. ASSUME NEW a \in Nodes, closure[<<a, p>>] # NoDepth PROVE View(w)'[<<a, c>>] # NoDepth
  <2>1. <<a, p>> \in Pairs /\ <<a, c>> \in Pairs
    BY <1>2 DEF Pairs
  <2>2. View(w)[<<a, p>>] = closure[<<a, p>>] /\ closure[<<a, p>>] \in Nat
    BY <1>3, <1>5, <2>1 DEF View, KeepFirst, Tables
  <2>3. closure[<<a, p>>] + 1 # NoDepth /\ 0 # NoDepth
    BY <2>2, HierarchyAssumption
  <2>4. AncestorRows(View(w), c, p)[<<a, c>>] = IF a = c THEN 0 ELSE closure[<<a, p>>] + 1
    BY <1>5, <2>1, <2>2 DEF AncestorRows
  <2> QED
    BY <1>2, <2>1, <2>3, <2>4
<1> QED
  BY <1>1, <1>2, <1>4, <1>5

-----------------------------------------------------------------------------
(* Rows that are added undo nothing. *)

LEMMA FoldersFinite ==
  /\ IsFiniteSet(Folders) /\ Cardinality(Folders) \in Nat
  /\ \A S \in SUBSET Folders : /\ IsFiniteSet(S) /\ Cardinality(S) \in Nat
                               /\ Cardinality(S) <= Cardinality(Folders)
<1>1. Folders \in SUBSET Nodes
  BY NodeSets DEF TreeNodes
<1>2. IsFiniteSet(Folders)
  BY <1>1, NodeSets
<1> QED
  BY <1>2, FS_Subset, FS_CardinalityType

LEMMA ShrinksOn ==
  ASSUME NEW A, NEW B \in SUBSET Folders, A \subseteq B, NEW c \in Nat, Shrinks(B, c)
  PROVE  Shrinks(A, c)
<1>1. IsFiniteSet(B) /\ Cardinality(B) \in Nat
  BY FoldersFinite
<1>2. Cardinality(A) \in Nat /\ Cardinality(A) <= Cardinality(B)
  BY <1>1, FS_Subset, FS_CardinalityType
<1> QED
  BY <1>1, <1>2, FoldersFinite DEF Shrinks

LEMMA LateOn ==
  ASSUME NEW t, NEW T, NEW U, More(T, U)
  PROVE  Late(t, U) \subseteq Late(t, T) /\ Late(t, T) \in SUBSET Folders
<1>1. \A f \in Folders : f \in Nodes
  BY NodeSets DEF TreeNodes
<1>2. \A f \in Folders : Hangs(t, T, f, f) => Hangs(t, U, f, f)
  BY <1>1, HangsOn
<1> QED
  BY <1>2 DEF Late

LEMMA SettledOn ==
  ASSUME NEW t, NEW T, NEW U, More(T, U), NEW c \in Nat, Settled(t, T, c)
  PROVE  Settled(t, U, c)
<1>1. Shrinks(Late(t, U), c)
  BY LateOn, ShrinksOn DEF Settled
<1>2. \A p \in TreeProjects : p \in Nodes /\ ResourceOf[p] \in Nodes
  BY NodeSets
<1>3. \A p \in TreeProjects : /\ Hangs(t, T, p, p) => Hangs(t, U, p, p)
                              /\ Hangs(t, T, p, ResourceOf[p]) => Hangs(t, U, p, ResourceOf[p])
  BY <1>2, HangsOn
<1> QED
  BY <1>1, <1>3 DEF Settled

LEMMA KnownPlaces == ASSUME NEW t PROVE KnownIn(t) \subseteq TreeNodes /\ KnownIn(t) \subseteq Nodes
BY NodeSets DEF KnownIn, TreeNodes

LEMMA ClimbingOn ==
  ASSUME NEW t, NEW T, NEW U, More(T, U), NEW c \in Nat, NEW S, NEW q, Climbing(t, T, c, S, q)
  PROVE  Climbing(t, U, c, S, q)
<1>1. Late(t, U) \subseteq S
  BY LateOn DEF Climbing
<1>2. \A n \in KnownIn(t) : Hangs(t, T, n, n) => Hangs(t, U, n, n)
  BY KnownPlaces, HangsOn
<1> QED
  BY <1>1, <1>2 DEF Climbing

LEMMA HoldingOn ==
  ASSUME NEW t, NEW T, NEW U, More(T, U), NEW c, NEW S, NEW n \in Nodes, NEW q, NEW pairs,
         Holding(t, T, c, S, n, q, pairs)
  PROVE  Holding(t, U, c, S, n, q, pairs)
BY HangsOn DEF Holding

LEMMA ClimbedOn ==
  ASSUME NEW t, NEW T, NEW U, More(T, U), NEW c \in Nat, Climbed(t, T, c)
  PROVE  Climbed(t, U, c)
<1>1. Shrinks(Late(t, U), c + 1)
  <2>1. c + 1 \in Nat
    OBVIOUS
  <2> QED
    BY <2>1, LateOn, ShrinksOn DEF Climbed
<1>2. \A p \in TreeProjects : Hangs(t, T, p, p) => Hangs(t, U, p, p)
  BY NodeSets, HangsOn
<1> QED
  BY <1>1, <1>2 DEF Climbed

LEMMA ServedOn ==
  ASSUME NEW t, NEW T, NEW U, More(T, U), NEW V, NEW W, More(V, W), NEW p \in TreeProjects,
         NEW at, NEW q, Served(t, T, V, p, at, q)
  PROVE  Served(t, U, W, p, at, q)
<1>1. ResourceOf[p] \in Nodes
  BY NodeSets
<1> QED
  BY <1>1, HangsOn DEF Served

LEMMA MoreOfSame == \A T : More(T, T)
BY DEF More

\* A commit adds rows: to the table, and to what the other transactions see.
LEMMA CommitAdds ==
  ASSUME NEW w \in Recorders, BatchCommits(w), HierarchyTypeOK
  PROVE  /\ More(closure, closure') /\ More(View(w), closure')
         /\ \A v \in Recorders \ {w} : tx'[v] = tx[v] /\ More(View(v), View(v)')
<1>1. closure' = KeepFirst(closure, tx[w].wrote) /\ closure' = View(w)
      /\ \A v \in Recorders \ {w} : tx'[v] = tx[v]
  BY DEF BatchCommits, View, HierarchyTypeOK
<1>2. More(closure, closure') /\ More(View(w), closure')
  BY <1>1 DEF More, KeepFirst
<1>3. ASSUME NEW v \in Recorders \ {w} PROVE More(View(v), View(v)')
  <2>1. tx'[v] = tx[v]
    BY <1>1
  <2>2. \A x \in Pairs : View(v)[x] = IF closure[x] = NoDepth THEN tx[v].wrote[x] ELSE closure[x]
    BY DEF View, KeepFirst
  <2>3. \A x \in Pairs :
           View(v)'[x] = IF closure'[x] = NoDepth THEN tx[v].wrote[x] ELSE closure'[x]
    BY <2>1 DEF View, KeepFirst
  <2> QED
    BY <1>2, <2>2, <2>3 DEF More
<1> QED
  BY <1>1, <1>2, <1>3

\* A transaction that starts, is dropped or writes leaves the table and the others alone.
LEMMA OthersSee ==
  ASSUME NEW w \in Recorders, HierarchyTypeOK, closure' = closure,
         \A v \in Recorders \ {w} : tx'[v] = tx[v]
  PROVE  /\ More(closure, closure')
         /\ \A v \in Recorders \ {w} : More(View(v), View(v)')
<1>1. \A v \in Recorders \ {w} : View(v)' = View(v)
  BY DEF View
<1> QED
  BY <1>1, MoreOfSame

-----------------------------------------------------------------------------
(* The walk. *)

\* Fewer than c folders are late when each of c scans has completed one.
LEMMA NoneLate ==
  ASSUME NEW L \in SUBSET Folders, NEW c \in Nat, Shrinks(L, c), c >= Cardinality(Folders)
  PROVE  L = {}
<1> SUFFICES ASSUME Cardinality(L) + c <= Cardinality(Folders) PROVE L = {}
  BY DEF Shrinks
<1>1. Cardinality(L) = 0 /\ IsFiniteSet(L)
  BY FoldersFinite
<1> QED
  BY <1>1, FS_EmptySet

\* A walk without folders to come has completed one that was late: the tree has no
\* loops, so one of them had a parent that was not.
LEMMA LateGone ==
  ASSUME NEW t \in Trees, NEW T, NEW c \in Nat, NEW S, NEW q, Climbing(t, T, c, S, q),
         \A f \in Folders : ~HasTurn(q, f)
  PROVE  Shrinks(Late(t, T), c + 1)
<1>1. S \in SUBSET Folders /\ Shrinks(S, c) /\ Late(t, T) \subseteq S
  BY DEF Climbing
<1>2. CASE S = {}
  BY <1>1, <1>2 DEF Shrinks
<1>3. CASE S # {}
  <2>1. PICK n \in S : t[n] \notin S
    BY <1>1, <1>3, TreeAssumption
  <2>2. n \notin Late(t, T)
    <3> SUFFICES ASSUME n \in Late(t, T) PROVE FALSE
      OBVIOUS
    <3>1. n \in KnownIn(t) /\ n \in Folders /\ ~Hangs(t, T, n, n)
      BY DEF Late
    <3>2. Owed(t, c, S, n)
      BY <2>1, <3>1 DEF Owed
    <3> QED
      BY <3>1, <3>2 DEF Climbing
  <2>3. Late(t, T) \subseteq S \ {n} /\ IsFiniteSet(S)
    BY <1>1, <2>2, FoldersFinite
  <2>4. IsFiniteSet(S \ {n}) /\ Cardinality(S \ {n}) = Cardinality(S) - 1
    BY <2>1, <2>3, FS_RemoveElement
  <2>5. Cardinality(Late(t, T)) <= Cardinality(S \ {n})
    BY <2>3, <2>4, FS_Subset
  <2>6. Cardinality(S) + c <= Cardinality(Folders) /\ Cardinality(S) \in Nat
        /\ Cardinality(Late(t, T)) \in Nat /\ Cardinality(Folders) \in Nat
    <3>1. Late(t, T) \in SUBSET Folders
      BY <1>1
    <3> QED
      BY <1>1, <1>3, <3>1, FoldersFinite DEF Shrinks
  <2>7. Cardinality(Late(t, T)) + (c + 1) <= Cardinality(Folders)
    BY <2>4, <2>5, <2>6
  <2> QED
    BY <2>7 DEF Shrinks
<1> QED
  BY <1>2, <1>3

\* When a node that is owed comes up, its parent is where it should be.
LEMMA ParentFirst ==
  ASSUME tree \in Trees, NEW T, NEW c \in Nat, NEW S, NEW q \in Seq(TreeNodes), q # <<>>,
         Climbing(tree, T, c, S, q), InTurn(q), NEW n, n = Head(q),
         n \in Folders \union TreeProjects, Owed(tree, c, S, n), tree[n] \in KnownIn(tree)
  PROVE  Hangs(tree, T, tree[n], tree[n])
<1>1. tree[n] # NoParent
  BY KnownPlaces, ScanAssumption
<1>2. tree[n] \in Orgs \union Folders /\ tree[n] # n
  BY <1>1, TreeAbove
<1>3. q[1] = n /\ 1 \in DOMAIN q /\ \A i \in DOMAIN q : i = 1 \/ 1 < i
  BY DEF InTurn
<1>4. \A i \in DOMAIN q : 1 < i => /\ q[i] \in Orgs => q[1] \in Orgs
                                   /\ q[i] \in Folders => q[1] \notin TreeProjects
  BY <1>3 DEF InTurn
<1>5. CASE tree[n] \in Orgs
  <2>1. Owed(tree, c, S, tree[n])
    BY <1>5 DEF Owed
  <2>2. ~HasTurn(q, tree[n])
    BY <1>2, <1>3, <1>4, <1>5, KindsApart DEF HasTurn
  <2> QED
    BY <2>1, <2>2 DEF Climbing
<1>6. CASE tree[n] \in Folders
  <2>1. tree[n] \notin Late(tree, T)
    <3>1. CASE n \in Folders
      BY <3>1, KindsApart DEF Owed, Climbing
    <3>2. CASE n \in TreeProjects
      <4>1. c + 1 >= Cardinality(Folders)
        BY <3>2, KindsApart DEF Owed
      <4>2. \A f \in Folders : ~HasTurn(q, f)
        BY <1>3, <1>4, <3>2, KindsApart DEF HasTurn
      <4>3. Shrinks(Late(tree, T), c + 1)
        BY <4>2, LateGone
      <4>4. Late(tree, T) \in SUBSET Folders /\ c + 1 \in Nat
        BY DEF Late
      <4>5. Late(tree, T) = {}
        BY <4>1, <4>3, <4>4, NoneLate
      <4> QED
        BY <4>5
    <3> QED
      BY <3>1, <3>2
  <2> QED
    BY <1>6, <2>1 DEF Late
<1> QED
  BY <1>2, <1>5, <1>6

\* The turn of the first passes when it is done, in a table that has grown.
LEMMA NextTurn ==
  ASSUME NEW t, NEW T, NEW U, More(T, U), NEW c \in Nat, NEW S, NEW q \in Seq(TreeNodes),
         q # <<>>, Climbing(t, T, c, S, q),
         Owed(t, c, S, Head(q)) => Hangs(t, U, Head(q), Head(q))
  PROVE  Climbing(t, U, c, S, Tail(q))
<1>1. Climbing(t, U, c, S, q)
  BY ClimbingOn
<1>2. ASSUME NEW n \in KnownIn(t), Owed(t, c, S, n), ~Hangs(t, U, n, n) PROVE HasTurn(Tail(q), n)
  <2>1. HasTurn(q, n) /\ n # Head(q)
    BY <1>1, <1>2 DEF Climbing
  <2> QED
    BY <2>1, TurnPasses
<1> QED
  BY <1>1, <1>2 DEF Climbing

LEMMA InTurnOn ==
  ASSUME NEW q \in Seq(TreeNodes), q # <<>>, InTurn(q)
  PROVE  InTurn(Tail(q))
<1>1. \A i \in DOMAIN Tail(q) : i \in Nat /\ i + 1 \in DOMAIN q /\ Tail(q)[i] = q[i + 1]
  BY HeadAndTail
<1> QED
  BY <1>1 DEF InTurn

-----------------------------------------------------------------------------
(* The steps of the walk. *)

\* Organizations, folders and projects one after the other are in turn.
LEMMA PartsInTurn ==
  ASSUME NEW a \in Seq(Orgs), NEW b \in Seq(Folders), NEW s \in Seq(TreeProjects)
  PROVE  InTurn(a \o b \o s)
<1>1. PICK q : q = a \o b \o s
  OBVIOUS
<1>2. a \in Seq(TreeNodes) /\ b \in Seq(TreeNodes) /\ s \in Seq(TreeNodes)
  BY WiderSeq DEF TreeNodes
<1>3. /\ DOMAIN q = 1 .. (Len(a) + Len(b) + Len(s))
      /\ Len(a) \in Nat /\ Len(b) \in Nat /\ Len(s) \in Nat
      /\ \A i \in DOMAIN a : i \in DOMAIN q /\ q[i] = a[i] /\ i \in 1 .. Len(a)
      /\ \A i \in DOMAIN b : /\ Len(a) + i \in DOMAIN q /\ q[Len(a) + i] = b[i]
                             /\ i \in 1 .. Len(b)
      /\ \A i \in DOMAIN s : /\ Len(a) + Len(b) + i \in DOMAIN q
                             /\ q[Len(a) + Len(b) + i] = s[i] /\ i \in 1 .. Len(s)
  BY <1>1, <1>2, ThreeParts
<1>4. /\ DOMAIN q = 1 .. (Len(a) + Len(b) + Len(s))
      /\ Len(a) \in Nat /\ Len(b) \in Nat /\ Len(s) \in Nat
      /\ DOMAIN a = 1 .. Len(a) /\ DOMAIN b = 1 .. Len(b) /\ DOMAIN s = 1 .. Len(s)
      /\ \A i \in DOMAIN a : i \in DOMAIN q /\ q[i] = a[i]
      /\ \A i \in DOMAIN b : q[Len(a) + i] = b[i]
      /\ \A i \in DOMAIN s : q[Len(a) + Len(b) + i] = s[i]
  <2>1. DOMAIN a = 1 .. Len(a) /\ DOMAIN b = 1 .. Len(b) /\ DOMAIN s = 1 .. Len(s)
    OBVIOUS
  <2> QED
    BY <1>3, <2>1
<1>5. /\ \A i \in DOMAIN a : a[i] \in Orgs
      /\ \A i \in DOMAIN b : b[i] \in Folders
      /\ \A i \in DOMAIN s : s[i] \in TreeProjects
  OBVIOUS
<1>6. \A i \in DOMAIN q : /\ i <= Len(a) => q[i] \in Orgs
                          /\ i > Len(a) /\ i <= Len(a) + Len(b) => q[i] \in Folders
                          /\ i > Len(a) + Len(b) => q[i] \in TreeProjects
  <2> SUFFICES ASSUME NEW i \in DOMAIN q
               PROVE  /\ i <= Len(a) => q[i] \in Orgs
                      /\ i > Len(a) /\ i <= Len(a) + Len(b) => q[i] \in Folders
                      /\ i > Len(a) + Len(b) => q[i] \in TreeProjects
    OBVIOUS
  <2>1. i \in Nat /\ i >= 1 /\ i <= Len(a) + Len(b) + Len(s)
    BY <1>4
  <2>2. ASSUME i <= Len(a) PROVE q[i] \in Orgs
    <3>1. i \in DOMAIN a
      BY <1>4, <2>1, <2>2
    <3> QED
      BY <1>4, <1>5, <3>1
  <2>3. ASSUME i > Len(a), i <= Len(a) + Len(b) PROVE q[i] \in Folders
    <3>1. PICK j : j = i - Len(a)
      OBVIOUS
    <3>2. j \in DOMAIN b /\ Len(a) + j = i
      BY <1>4, <2>1, <2>3, <3>1
    <3> QED
      BY <1>4, <1>5, <3>2
  <2>4. ASSUME i > Len(a) + Len(b) PROVE q[i] \in TreeProjects
    <3>1. PICK j : j = i - (Len(a) + Len(b))
      OBVIOUS
    <3>2. j \in DOMAIN s /\ Len(a) + Len(b) + j = i
      BY <1>4, <2>1, <2>4, <3>1
    <3> QED
      BY <1>4, <1>5, <3>2
  <2> QED
    BY <2>2, <2>3, <2>4
<1>7. InTurn(q)
  <2> SUFFICES ASSUME NEW i \in DOMAIN q, NEW j \in DOMAIN q, i < j
               PROVE  /\ q[j] \in Orgs => q[i] \in Orgs
                      /\ q[j] \in Folders => q[i] \notin TreeProjects
    BY DEF InTurn
  <2>1. i \in Nat /\ j \in Nat /\ Len(a) \in Nat /\ Len(b) \in Nat
    BY <1>4
  <2>2. q[j] \in Orgs => j <= Len(a)
    BY <1>6, <2>1, KindsApart
  <2>3. q[j] \in Folders => j <= Len(a) + Len(b)
    BY <1>6, <2>1, KindsApart
  <2>4. q[i] \in TreeProjects => i > Len(a) + Len(b)
    BY <1>6, <2>1, KindsApart
  <2> QED
    BY <1>6, <2>1, <2>2, <2>3, <2>4
<1> QED
  BY <1>1, <1>7

\* A walk that nothing was denied has a turn for every node that is known, each kind
\* after the one above it.
LEMMA WalkOrder ==
  ASSUME NEW a \in Orders(Orgs, {}), NEW b \in Orders(Folders, {}),
         NEW q, q = a \o b \o SetToSeq(TreeProjects \ {})
  PROVE  InTurn(q) /\ \A n \in Known : HasTurn(q, n)
<1> DEFINE A == DirectParents(Orgs, {}) \ {}
           B == DirectParents(Folders, {}) \ {}
           C == TreeProjects \ {}
           s == SetToSeq(C)
<1>1. A \subseteq Orgs /\ B \subseteq Folders /\ C \subseteq TreeProjects
  BY DEF DirectParents
<1>2. \A n \in Known : n \in A \/ n \in B \/ n \in C
  BY DEF Known, DirectParents
<1>3. a \in SetToSeqs(A) /\ b \in SetToSeqs(B)
  BY DEF Orders
<1>4. A \in SUBSET Nodes /\ B \in SUBSET Nodes /\ C \in SUBSET Nodes
  BY <1>1, NodeSets DEF TreeNodes
<1> HIDE DEF A, B, C
<1>5. IsFiniteSet(A) /\ IsFiniteSet(B) /\ IsFiniteSet(C)
  BY <1>4, NodeSets
<1>6. a \in Seq(A) /\ b \in Seq(B) /\ s \in Seq(C)
  BY <1>3, <1>5, Arranged
<1>7. (\A x \in A : HasTurn(a, x)) /\ (\A x \in B : HasTurn(b, x)) /\ (\A x \in C : HasTurn(s, x))
  BY <1>3, <1>5, Everybody
<1>8. q = a \o b \o s
  BY DEF C
<1> HIDE DEF s
<1>9. A \subseteq TreeNodes /\ B \subseteq TreeNodes /\ C \subseteq TreeNodes
  BY <1>1 DEF TreeNodes
<1>10. a \in Seq(TreeNodes) /\ b \in Seq(TreeNodes) /\ s \in Seq(TreeNodes)
  BY <1>6, <1>9, WiderSeq
<1>11. \A n \in Known : HasTurn(q, n)
  <2> SUFFICES ASSUME NEW n \in Known PROVE HasTurn(q, n)
    OBVIOUS
  <2>1. HasTurn(a, n) \/ HasTurn(b, n) \/ HasTurn(s, n)
    BY <1>2, <1>7
  <2>2. HasTurn(a \o b \o s, n)
    BY <1>10, <2>1, TurnInPart
  <2> QED
    BY <1>8, <2>2
<1>12. a \in Seq(Orgs) /\ b \in Seq(Folders) /\ s \in Seq(TreeProjects)
  BY <1>1, <1>6, WiderSeq
<1>13. InTurn(a \o b \o s)
  BY <1>12, PartsInTurn
<1> QED
  BY <1>8, <1>11, <1>13

\* A walk starts: the folders that are late now are the ones it shrinks.
LEMMA WalkStartsConv ==
  ASSUME ConvInv, TreeInv, StartTreeScan
  PROVE  ConvInv'
<1>1. UNCHANGED <<tree, closure, clean, svc>> /\ gcp.at = "idle" /\ tree \in Trees
  BY DEF StartTreeScan, hierarchyVars, TreeInv
<1>2. PICK providers \in ScanProviders :
          IF "gcp" \in providers
            THEN \E denied \in SUBSET MayDeny :
                   \E a \in Orders(Orgs, denied), b \in Orders(Folders, denied) :
                     gcp' = [at |-> "store",
                             todo |-> a \o b \o SetToSeq(TreeProjects \ denied),
                             denied |-> denied, quiet |-> denied = {}, good |-> denied = {}]
            ELSE gcp' = [gcp EXCEPT !.at = "off"]
  BY DEF StartTreeScan
<1>3. Settled(tree, closure, clean)' /\ \A p \in TreeProjects : svc'[p] = "idle"
  BY <1>1 DEF ConvInv
<1>4. CASE "gcp" \notin providers
  <2>1. gcp'.at = "off"
    BY <1>2, <1>4 DEF TreeInv, Walk
  <2> QED
    BY <1>3, <2>1 DEF ConvInv, WalkConverges, ServicesConverge, Walking
<1>5. CASE "gcp" \in providers
  <2>1. PICK denied \in SUBSET MayDeny :
            \E a \in Orders(Orgs, denied), b \in Orders(Folders, denied) :
              gcp' = [at |-> "store",
                      todo |-> a \o b \o SetToSeq(TreeProjects \ denied),
                      denied |-> denied, quiet |-> denied = {}, good |-> denied = {}]
    BY <1>2, <1>5
  <2>2. PICK a \in Orders(Orgs, denied), b \in Orders(Folders, denied) :
            gcp' = [at |-> "store",
                    todo |-> a \o b \o SetToSeq(TreeProjects \ denied),
                    denied |-> denied, quiet |-> denied = {}, good |-> denied = {}]
    BY <2>1
  <2>3. gcp'.at = "store" /\ gcp'.todo = a \o b \o SetToSeq(TreeProjects \ denied)
        /\ (gcp'.good => denied = {})
    BY <2>2
  <2>4. ASSUME gcp'.good
        PROVE  InTurn(gcp'.todo) /\ Climbing(tree, closure, clean, Late(tree, closure), gcp'.todo)
    <3>1. InTurn(gcp'.todo) /\ \A n \in Known : HasTurn(gcp'.todo, n)
      BY <2>3, <2>4, WalkOrder
    <3>2. Late(tree, closure) \in SUBSET Folders /\ Shrinks(Late(tree, closure), clean)
      BY DEF Late, ConvInv, Settled
    <3> QED
      BY <3>1, <3>2, KnownOf DEF Climbing
  <2>5. WalkConverges'
    BY <1>1, <2>3, <2>4 DEF WalkConverges
  <2>6. ServicesConverge'
    BY <2>3 DEF ServicesConverge
  <2> QED
    BY <1>3, <2>5, <2>6 DEF ConvInv
<1> QED
  BY <1>4, <1>5

\* What the walk holds when it is good.
LEMMA WalkHolds ==
  ASSUME ConvInv, TreeInv, gcp.good, gcp.at \in Walking
  PROVE  /\ InTurn(gcp.todo) /\ gcp.todo \in Seq(TreeNodes) /\ tree \in Trees /\ clean \in Nat
         /\ \E S : /\ Climbing(tree, closure, clean, S, gcp.todo)
                   /\ gcp.at = "recording" =>
                        Holding(tree, View("gcp"), clean, S, This, tx["gcp"].todo, PairsOf(This))
BY DEF ConvInv, WalkConverges, TreeInv, Walk

\* Nothing above a node the API names no parent of, and no row of its own needed.
LEMMA BareHangs ==
  ASSUME NEW t \in Trees, NEW T, NEW n \in Folders \union TreeProjects, t[n] = NoParent
  PROVE  Hangs(t, T, n, n)
<1>1. n \in Nodes /\ n \in BareIn(t)
  BY NodeSets DEF TreeNodes, BareIn
<1>2. t[n] \notin KnownIn(t)
  BY KnownPlaces, ScanAssumption
<1> QED
  BY <1>1, <1>2, HangsAlone

LEMMA NodeConv ==
  ASSUME ConvInv, TreeInv, StoreNode
  PROVE  ConvInv'
<1>1. /\ UNCHANGED <<tree, closure, clean, svc>>
      /\ gcp.at = "store" /\ gcp'.at = "record" /\ gcp'.todo = gcp.todo /\ gcp'.good = gcp.good
  BY DEF StoreNode, StoreRows, TreeInv, Walk
<1>2. WalkConverges'
  BY <1>1 DEF ConvInv, WalkConverges, Walking
<1>3. ServicesConverge'
  BY <1>1 DEF ServicesConverge
<1> QED
  BY <1>1, <1>2, <1>3 DEF ConvInv

LEMMA RecordConv ==
  ASSUME ConvInv, TreeInv, HierarchyTypeOK, RecordNode
  PROVE  ConvInv'
<1>1. gcp.at = "record" /\ UNCHANGED <<tree, clean, svc>> /\ gcp.todo # <<>>
      /\ gcp.todo \in Seq(TreeNodes)
  BY DEF RecordNode, TreeInv, Walk
<1>2. closure' = closure
  BY DEF RecordNode, BatchStarts, hierarchyVars
<1>3. Settled(tree, closure, clean)' /\ \A p \in TreeProjects : svc'[p] = "idle"
  BY <1>1, <1>2 DEF ConvInv
<1>4. CASE PairsOf(This) = <<>>
  <2>1. gcp'.at = "store" /\ gcp'.todo = Tail(gcp.todo) /\ gcp'.good = gcp.good
    BY <1>4 DEF RecordNode, TreeInv, Walk
  <2>2. This \notin Orgs /\ tree[This] = NoParent
    BY <1>4 DEF PairsOf
  <2>3. ASSUME gcp'.good
        PROVE  InTurn(gcp'.todo) /\ \E S : Climbing(tree, closure, clean, S, gcp'.todo)
    <3>1. PICK S : Climbing(tree, closure, clean, S, gcp.todo)
      BY <1>1, <2>1, <2>3, WalkHolds DEF Walking
    <3>2. InTurn(gcp.todo) /\ tree \in Trees /\ clean \in Nat
      BY <1>1, <2>1, <2>3, WalkHolds DEF Walking
    <3>3. Hangs(tree, closure, Head(gcp.todo), Head(gcp.todo))
      <4>1. Head(gcp.todo) \in Folders \union TreeProjects
        BY <1>1, <2>2 DEF This, TreeNodes
      <4> QED
        BY <2>2, <3>2, <4>1, BareHangs DEF This
    <3>4. Climbing(tree, closure, clean, S, Tail(gcp.todo))
      BY <1>1, <3>1, <3>2, <3>3, MoreOfSame, NextTurn
    <3> QED
      BY <1>1, <2>1, <3>2, <3>4, InTurnOn
  <2>4. WalkConverges'
    BY <1>1, <1>2, <2>1, <2>3 DEF WalkConverges
  <2>5. ServicesConverge'
    BY <2>1 DEF ServicesConverge
  <2> QED
    BY <1>3, <2>4, <2>5 DEF ConvInv
<1>5. CASE PairsOf(This) # <<>>
  <2>1. gcp' = [gcp EXCEPT !.at = "recording"] /\ BatchStarts("gcp", PairsOf(This))
    BY <1>5 DEF RecordNode
  <2>2. gcp'.at = "recording" /\ gcp'.todo = gcp.todo /\ gcp'.good = gcp.good
    BY <2>1 DEF TreeInv, Walk
  <2>3. tx'["gcp"].todo = PairsOf(This)
    BY <2>1, NodeSets, TxTypes DEF BatchStarts, NoTx
  <2>4. PairsOf(This)' = PairsOf(This)
    BY <1>1, <2>2 DEF PairsOf, This
  <2>5. \A S : Holding(tree, View("gcp"), clean, S, This, tx["gcp"].todo, PairsOf(This))'
    BY <2>3, <2>4 DEF Holding
  <2>6. WalkConverges'
    BY <1>1, <1>2, <2>2, <2>5 DEF ConvInv, WalkConverges, Walking
  <2>7. ServicesConverge'
    BY <2>2 DEF ServicesConverge
  <2> QED
    BY <1>3, <2>6, <2>7 DEF ConvInv
<1> QED
  BY <1>4, <1>5

LEMMA RecordedConv ==
  ASSUME ConvInv, TreeInv, HierarchyTypeOK, NodeRecorded
  PROVE  ConvInv'
<1>1. gcp.at = "recording" /\ UNCHANGED <<tree, clean, svc>> /\ gcp.todo # <<>>
      /\ gcp.todo \in Seq(TreeNodes) /\ clean \in Nat
  BY DEF NodeRecorded, TreeInv, Walk
<1>2. gcp'.at = "store" /\ gcp'.todo = Tail(gcp.todo) /\ gcp'.good = gcp.good
  BY DEF NodeRecorded, TreeInv, Walk
<1>3. tx["gcp"].todo = <<>> /\ More(closure, closure') /\ More(View("gcp"), closure')
  <2>1. BatchCommits("gcp") /\ "gcp" \in Recorders
    BY NodeSets DEF NodeRecorded
  <2> QED
    BY <2>1, CommitAdds DEF BatchCommits
<1>4. Settled(tree, closure, clean)'
  <2>1. Settled(tree, closure', clean)
    BY <1>1, <1>3, SettledOn DEF ConvInv
  <2> QED
    BY <1>1, <2>1
<1>5. \A p \in TreeProjects : svc'[p] = "idle"
  BY <1>1 DEF ConvInv
<1>6. ASSUME gcp'.good
      PROVE  InTurn(gcp'.todo) /\ \E S : Climbing(tree, closure', clean, S, gcp'.todo)
  <2>1. PICK S : /\ Climbing(tree, closure, clean, S, gcp.todo)
                 /\ Holding(tree, View("gcp"), clean, S, This, tx["gcp"].todo, PairsOf(This))
    BY <1>1, <1>2, <1>6, WalkHolds DEF Walking
  <2>2. InTurn(gcp.todo) /\ tree \in Trees
    BY <1>1, <1>2, <1>6, WalkHolds DEF Walking
  <2>3. This \in TreeNodes /\ This = Head(gcp.todo) /\ This \in Nodes
    BY <1>1, NodeSets DEF This
  <2>4. Owed(tree, clean, S, This) => Hangs(tree, closure', This, This)
    <3> SUFFICES ASSUME Owed(tree, clean, S, This) PROVE Hangs(tree, closure', This, This)
      OBVIOUS
    <3>1. CASE PairsOf(This) = <<>>
      <4>1. This \in Folders \union TreeProjects /\ tree[This] = NoParent
        BY <2>3, <3>1 DEF PairsOf, TreeNodes
      <4> QED
        BY <2>2, <4>1, BareHangs
    <3>2. CASE PairsOf(This) # <<>>
      <4>1. Hangs(tree, View("gcp"), This, This)
        BY <1>3, <2>1, <3>2 DEF Holding
      <4> QED
        BY <1>3, <2>3, <4>1, HangsOn
    <3> QED
      BY <3>1, <3>2
  <2>5. Climbing(tree, closure', clean, S, Tail(gcp.todo))
    BY <1>1, <1>3, <2>1, <2>3, <2>4, NextTurn
  <2> QED
    BY <1>1, <1>2, <2>2, <2>5, InTurnOn
<1>7. WalkConverges'
  BY <1>1, <1>2, <1>6 DEF WalkConverges
<1>8. ServicesConverge'
  BY <1>2 DEF ServicesConverge
<1> QED
  BY <1>4, <1>5, <1>7, <1>8 DEF ConvInv

\* Before any clean scan nothing is claimed but that there are no more folders than there are.
LEMMA SettledAtFirst == ASSUME NEW t, NEW T PROVE Settled(t, T, 0)
<1>1. Late(t, T) \in SUBSET Folders
  BY DEF Late
<1>2. Cardinality(Late(t, T)) \in Nat /\ Cardinality(Late(t, T)) <= Cardinality(Folders)
  BY <1>1, FoldersFinite
<1>3. Shrinks(Late(t, T), 0)
  BY <1>2 DEF Shrinks
<1> QED
  BY <1>3 DEF Settled

\* The walk over, the services run; they end, the scan ends, somebody moves a folder.
LEMMA RestConv ==
  ASSUME ConvInv, TreeInv, HierarchyTypeOK,
         HierarchyAborts \/ StartServices \/ ServicesEnd \/ TreeScanEnds \/ Move
  PROVE  ConvInv'
<1>1. CASE HierarchyAborts
  <2>1. /\ gcp'.at = "done" /\ gcp'.good = FALSE /\ gcp.at # "services"
        /\ UNCHANGED <<tree, clean, svc, closure>>
    BY <1>1 DEF HierarchyAborts, BatchFails, hierarchyVars, TreeInv, Walk
  <2> QED
    BY <2>1 DEF ConvInv, WalkConverges, ServicesConverge
<1>2. CASE StartServices
  <2>1. /\ gcp'.at = "services" /\ gcp'.good = gcp.good /\ gcp.at = "store" /\ gcp.todo = <<>>
        /\ UNCHANGED <<tree, clean, closure>> /\ \A p \in TreeProjects : svc'[p] = "store"
    BY <1>2 DEF StartServices, hierarchyVars, TreeInv, Walk
  <2>2. ASSUME gcp.good PROVE Climbed(tree, closure, clean)
    <3>1. /\ gcp.todo \in Seq(TreeNodes) /\ tree \in Trees /\ clean \in Nat
          /\ \E S : Climbing(tree, closure, clean, S, gcp.todo)
      BY <2>1, <2>2, WalkHolds DEF Walking
    <3>2. PICK S : Climbing(tree, closure, clean, S, gcp.todo)
      BY <3>1
    <3>3. \A n : ~HasTurn(gcp.todo, n)
      BY <2>1 DEF HasTurn
    <3>4. Shrinks(Late(tree, closure), clean + 1)
      BY <3>1, <3>2, <3>3, LateGone
    <3>5. \A p \in TreeProjects : p \in KnownIn(tree)
      BY DEF KnownIn
    <3>6. clean + 1 >= Cardinality(Folders) =>
            \A p \in TreeProjects : Hangs(tree, closure, p, p)
      BY <3>2, <3>3, <3>5 DEF Climbing, Owed
    <3> QED
      BY <3>4, <3>6 DEF Climbed
  <2>3. ServicesConverge'
    BY <2>1, <2>2 DEF ServicesConverge, Served
  <2>4. WalkConverges'
    BY <2>1 DEF WalkConverges, Walking
  <2> QED
    BY <2>1, <2>3, <2>4 DEF ConvInv
<1>3. CASE ServicesEnd
  <2>1. /\ gcp'.at = "done" /\ gcp'.good = gcp.good /\ gcp.at = "services"
        /\ \A p \in TreeProjects : svc[p] = "idle"
        /\ UNCHANGED <<tree, clean, closure, svc, tx>>
    BY <1>3 DEF ServicesEnd, hierarchyVars, TreeInv, Walk
  <2>2. \A p \in TreeProjects : View(p)' = View(p)
    BY <2>1 DEF View
  <2>3. ServicesConverge'
    BY <2>1, <2>2 DEF ConvInv, ServicesConverge
  <2>4. WalkConverges'
    BY <2>1 DEF WalkConverges, Walking
  <2> QED
    BY <2>1, <2>3, <2>4 DEF ConvInv
<1>4. CASE TreeScanEnds
  <2>1. /\ gcp'.at = "idle" /\ gcp.at \in {"done", "off"} /\ gcp.at # "services"
        /\ clean' = (IF gcp.at = "off" THEN clean ELSE IF gcp.good THEN clean + 1 ELSE 0)
        /\ UNCHANGED <<tree, closure, svc>> /\ clean \in Nat /\ gcp.good \in BOOLEAN
    BY <1>4 DEF TreeScanEnds, hierarchyVars, TreeInv, Walk
  <2>2. WalkConverges' /\ ServicesConverge'
    BY <2>1 DEF WalkConverges, ServicesConverge, Walking
  <2>3. CASE gcp.at = "off"
    BY <2>1, <2>2, <2>3 DEF ConvInv
  <2>4. CASE gcp.at = "done" /\ ~gcp.good
    <3>1. clean' = 0
      BY <2>1, <2>4
    <3>2. Settled(tree, closure, 0)
      BY SettledAtFirst
    <3> QED
      BY <2>1, <2>2, <3>1, <3>2 DEF ConvInv
  <2>5. CASE gcp.at = "done" /\ gcp.good
    <3>1. clean' = clean + 1
      BY <2>1, <2>5
    <3>2. Climbed(tree, closure, clean) /\ \A p \in TreeProjects : svc[p] = "idle"
      BY <2>1, <2>5 DEF ConvInv, ServicesConverge
    <3>3. clean + 1 >= Cardinality(Folders) =>
            \A p \in TreeProjects : Hangs(tree, closure, p, ResourceOf[p])
      BY <2>5, <3>2 DEF ConvInv, ServicesConverge, Served
    <3>4. Settled(tree, closure, clean + 1)
      BY <3>2, <3>3 DEF Settled, Climbed
    <3> QED
      BY <2>1, <2>2, <3>1, <3>4 DEF ConvInv
  <2> QED
    BY <2>1, <2>3, <2>4, <2>5
<1>5. CASE Move
  <2>1. /\ gcp'.at = "idle" /\ gcp.at = "idle" /\ clean' = 0 /\ UNCHANGED <<closure, svc>>
    BY <1>5 DEF Move, hierarchyVars, TreeInv, Walk
  <2>2. WalkConverges' /\ ServicesConverge'
    BY <2>1 DEF WalkConverges, ServicesConverge, Walking
  <2>3. Settled(tree', closure, 0)
    BY SettledAtFirst
  <2> QED
    BY <2>1, <2>2, <2>3 DEF ConvInv
<1> QED
  BY <1>1, <1>2, <1>3, <1>4, <1>5

-----------------------------------------------------------------------------
(* The steps of the others. *)

\* Whoever is served stays so, and the walk sees no less.
ServesOn ==
    \A p \in TreeProjects :
        gcp.good /\ clean + 1 >= Cardinality(Folders) /\ Climbed(tree, closure, clean)
        /\ Served(tree, closure, View(p), p, svc[p], tx[p].todo) =>
              Served(tree, closure', View(p)', p, svc'[p], tx'[p].todo)

Grows ==
    /\ UNCHANGED <<tree, clean>> /\ More(closure, closure')
    /\ gcp'.at = gcp.at /\ gcp'.todo = gcp.todo /\ (gcp'.good => gcp.good)
    /\ gcp.at # "services" => svc' = svc

LEMMA ServicesStayConv ==
  ASSUME ConvInv, TreeInv, Grows, ServesOn
  PROVE  /\ Settled(tree, closure, clean)' /\ ServicesConverge'
         /\ (gcp.at # "services" => \A p \in TreeProjects : svc[p] = "idle")'
<1>1. clean \in Nat
  BY DEF TreeInv
<1>2. Settled(tree, closure', clean)
  BY <1>1, SettledOn DEF ConvInv, Grows
<1>3. ASSUME gcp'.good, gcp'.at \in {"services", "done"}
      PROVE  /\ Climbed(tree, closure', clean)
             /\ clean + 1 >= Cardinality(Folders) =>
                   \A p \in TreeProjects : Served(tree, closure', View(p)', p, svc'[p], tx'[p].todo)
  <2>1. gcp.good /\ Climbed(tree, closure, clean)
    BY <1>3 DEF ConvInv, ServicesConverge, Grows
  <2>2. clean + 1 >= Cardinality(Folders) =>
          \A p \in TreeProjects : Served(tree, closure, View(p), p, svc[p], tx[p].todo)
    BY <1>3, <2>1 DEF ConvInv, ServicesConverge, Grows
  <2>3. Climbed(tree, closure', clean)
    BY <1>1, <2>1, ClimbedOn DEF Grows
  <2> QED
    BY <2>1, <2>2, <2>3 DEF ServesOn
<1>4. ServicesConverge'
  BY <1>3 DEF ServicesConverge, Grows
<1> QED
  BY <1>2, <1>4 DEF ConvInv, Grows

LEMMA WalkStaysConv ==
  ASSUME ConvInv, TreeInv, Grows, tx'["gcp"].todo = tx["gcp"].todo,
         More(View("gcp"), View("gcp")')
  PROVE  WalkConverges'
<1> SUFFICES ASSUME gcp'.good, gcp'.at \in Walking
             PROVE  /\ InTurn(gcp'.todo)
                    /\ \E S : /\ Climbing(tree, closure', clean, S, gcp.todo)
                              /\ gcp.at = "recording" =>
                                   Holding(tree, View("gcp")', clean, S, This, tx["gcp"].todo,
                                           PairsOf(This))
  <2>1. This' = This /\ PairsOf(This)' = PairsOf(This)
    BY DEF This, PairsOf, Grows
  <2> QED
    BY <2>1 DEF WalkConverges, Grows
<1>1. PICK S : /\ Climbing(tree, closure, clean, S, gcp.todo)
               /\ gcp.at = "recording" =>
                    Holding(tree, View("gcp"), clean, S, This, tx["gcp"].todo, PairsOf(This))
  BY WalkHolds DEF Grows
<1>2. InTurn(gcp.todo) /\ clean \in Nat
  BY WalkHolds DEF Grows
<1>3. Climbing(tree, closure', clean, S, gcp.todo)
  BY <1>1, <1>2, ClimbingOn DEF Grows
<1>4. gcp.at = "recording" =>
        Holding(tree, View("gcp")', clean, S, This, tx["gcp"].todo, PairsOf(This))
  <2> SUFFICES ASSUME gcp.at = "recording"
               PROVE  Holding(tree, View("gcp")', clean, S, This, tx["gcp"].todo, PairsOf(This))
    OBVIOUS
  <2>1. This \in Nodes
    BY WalkPairs
  <2> QED
    BY <1>1, <2>1, HoldingOn
<1> QED
  BY <1>2, <1>3, <1>4 DEF Grows

\* One of the services is left alone.
LEMMA ServedStays ==
  ASSUME NEW p \in TreeProjects, More(closure, closure'), tx'[p] = tx[p], svc'[p] = svc[p],
         Served(tree, closure, View(p), p, svc[p], tx[p].todo), More(View(p), View(p)')
  PROVE  Served(tree, closure', View(p)', p, svc'[p], tx'[p].todo)
BY ServedOn

\* Azure's steps, and those of the resources' rows.
LEMMA AsideConv ==
  ASSUME ConvInv, TreeInv, HierarchyTypeOK,
         \/ StoreAzure \/ Stitch \/ Stitched \/ StitchFails \/ UNCHANGED treeVars
         \/ RecordPair("azure") /\ UNCHANGED <<tree, moved, gcp, svc, azure, scans, clean>>
  PROVE  ConvInv'
<1>1. UNCHANGED <<tree, gcp, svc, clean>>
  BY Zenon DEF StoreAzure, Stitch, Stitched, StitchFails, treeVars
<1>2. "azure" \in Recorders /\ "gcp" \in Recorders \ {"azure"}
      /\ \A p \in TreeProjects : p \in Recorders \ {"azure"}
  BY ProjectsRecord
<1>3. /\ More(closure, closure')
      /\ \A v \in Recorders \ {"azure"} : tx'[v] = tx[v] /\ More(View(v), View(v)')
  <2>1. CASE BatchCommits("azure")
    BY <1>2, <2>1, CommitAdds
  <2>2. CASE StoreAzure \/ UNCHANGED treeVars
    <3>1. UNCHANGED <<closure, tx>>
      BY <2>2 DEF StoreAzure, StoreRows, treeVars, hierarchyVars
    <3> QED
      BY <1>2, <3>1, OthersSee
  <2>3. CASE Stitch \/ BatchFails("azure") \/ RecordPair("azure")
    <3>1. closure' = closure /\ \A v \in Recorders \ {"azure"} : tx'[v] = tx[v]
      BY <1>2, <2>3, TxTypes DEF Stitch, BatchStarts, BatchFails, RecordPair
    <3> QED
      BY <1>2, <3>1, OthersSee
  <2> QED
    BY <2>1, <2>2, <2>3 DEF Stitched, StitchFails
<1>4. Grows
  BY <1>1, <1>3 DEF Grows
<1>5. ServesOn
  BY <1>1, <1>2, <1>3, ServedStays DEF ServesOn
<1>6. WalkConverges'
  BY <1>2, <1>3, <1>4, WalkStaysConv
<1> QED
  BY <1>4, <1>5, <1>6, ServicesStayConv DEF ConvInv

\* A service: it stores, starts its pair, commits or fails.
LEMMA ServiceConv ==
  ASSUME ConvInv, TreeInv, HierarchyTypeOK, NEW p \in TreeProjects,
         StoreResource(p) \/ RecordResource(p) \/ ResourceRecorded(p) \/ ResourceFails(p)
  PROVE  ConvInv'
<1>1. /\ UNCHANGED <<tree, clean>> /\ svc[p] # "idle"
      /\ \A v \in TreeProjects \ {p} : svc'[v] = svc[v]
  <2>1. UNCHANGED <<tree, clean>> /\ svc[p] # "idle"
    BY DEF StoreResource, RecordResource, ResourceRecorded, ResourceFails
  <2>2. \E at : svc' = [svc EXCEPT ![p] = at]
    BY Zenon DEF StoreResource, RecordResource, ResourceRecorded, ResourceFails
  <2>3. \A v \in TreeProjects \ {p} : svc'[v] = svc[v]
    BY <2>2 DEF TreeInv
  <2> QED
    BY <2>1, <2>3
<1>2. gcp'.at = gcp.at /\ gcp'.todo = gcp.todo /\ (gcp'.good => gcp.good)
  BY DEF StoreResource, RecordResource, ResourceRecorded, ResourceFails, TreeInv, Walk
<1>3. p \in Recorders /\ p # "gcp" /\ "gcp" \in Recorders
      /\ \A v \in TreeProjects : v \in Recorders
  BY ProjectsRecord
<1>4. /\ More(closure, closure')
      /\ \A v \in Recorders \ {p} : tx'[v] = tx[v] /\ More(View(v), View(v)')
  <2>1. CASE ResourceRecorded(p)
    BY <1>3, <2>1, CommitAdds DEF ResourceRecorded
  <2>2. CASE StoreResource(p)
    <3>1. UNCHANGED <<closure, tx>>
      BY <2>2 DEF StoreResource, StoreRows
    <3> QED
      BY <1>3, <3>1, OthersSee
  <2>3. CASE RecordResource(p) \/ ResourceFails(p)
    <3>1. closure' = closure /\ \A v \in Recorders \ {p} : tx'[v] = tx[v]
      BY <1>3, <2>3, TxTypes DEF RecordResource, ResourceFails, BatchStarts, BatchFails
    <3> QED
      BY <1>3, <3>1, OthersSee
  <2> QED
    BY <2>1, <2>2, <2>3
<1>5. gcp.at = "services"
  BY <1>1 DEF ConvInv
<1>6. Grows
  BY <1>1, <1>2, <1>4, <1>5 DEF Grows
<1>7. WalkConverges'
  BY <1>2, <1>5 DEF WalkConverges, Walking
<1>8. ASSUME gcp'.good,
             Served(tree, closure, View(p), p, svc[p], tx[p].todo)
      PROVE  Served(tree, closure', View(p)', p, svc'[p], tx'[p].todo)
  <2>1. CASE StoreResource(p)
    <3>1. svc'[p] = "record"
      BY <2>1 DEF StoreResource, TreeInv
    <3> QED
      BY <3>1 DEF Served
  <2>2. CASE RecordResource(p)
    <3>1. svc'[p] = "recording" /\ tx'[p].todo = <<<<ResourceOf[p], p>>>>
      BY <1>3, <2>2, TxTypes DEF RecordResource, BatchStarts, NoTx, TreeInv
    <3> QED
      BY <3>1 DEF Served
  <2>3. CASE ResourceRecorded(p)
    <3>1. svc[p] = "recording" /\ svc'[p] = "idle" /\ tx[p].todo = <<>>
      BY <2>3 DEF ResourceRecorded, BatchCommits, TreeInv
    <3>2. Hangs(tree, View(p), p, ResourceOf[p])
      BY <1>8, <3>1 DEF Served
    <3>3. More(View(p), closure') /\ ResourceOf[p] \in Nodes
      BY <1>3, <2>3, CommitAdds, NodeSets DEF ResourceRecorded
    <3>4. Hangs(tree, closure', p, ResourceOf[p])
      BY <3>2, <3>3, HangsOn
    <3> QED
      BY <3>1, <3>4 DEF Served
  <2>4. CASE ResourceFails(p)
    BY <1>8, <2>4 DEF ResourceFails, TreeInv, Walk
  <2> QED
    BY <2>1, <2>2, <2>3, <2>4
<1>9. CASE gcp'.good
  <2>1. ServesOn
    BY <1>1, <1>3, <1>4, <1>8, <1>9, ServedStays DEF ServesOn
  <2> QED
    BY <1>6, <1>7, <2>1, ServicesStayConv DEF ConvInv
<1>10. CASE ~gcp'.good
  <2>1. ServicesConverge'
    BY <1>10 DEF ServicesConverge
  <2>2. Settled(tree, closure', clean)
    <3>1. clean \in Nat
      BY DEF TreeInv
    <3> QED
      BY <1>4, <3>1, SettledOn DEF ConvInv
  <2> QED
    BY <1>1, <1>2, <1>5, <1>7, <2>1, <2>2 DEF ConvInv
<1> QED
  BY <1>9, <1>10

\* A service writes its pair: the resource gets the rows of its project.
LEMMA ServicePairConv ==
  ASSUME ConvInv, TreeInv, HierarchyTypeOK, NEW p \in TreeProjects, RecordPair(p),
         UNCHANGED <<tree, moved, gcp, svc, azure, scans, clean>>
  PROVE  ConvInv'
<1>1. p \in Recorders /\ "gcp" \in Recorders \ {p} /\ \A v \in TreeProjects : v \in Recorders
  BY ProjectsRecord
<1>2. closure' = closure /\ tx[p].todo # <<>> /\ \A v \in Recorders \ {p} : tx'[v] = tx[v]
  BY <1>1, TxTypes DEF RecordPair
<1>3. /\ More(closure, closure')
      /\ \A v \in Recorders \ {p} : More(View(v), View(v)')
  BY <1>1, <1>2, OthersSee
<1>4. Grows
  BY <1>3 DEF Grows
<1>5. WalkConverges'
  BY <1>1, <1>2, <1>3, <1>4, WalkStaysConv
<1>6. ASSUME clean + 1 >= Cardinality(Folders), Climbed(tree, closure, clean),
             Served(tree, closure, View(p), p, svc[p], tx[p].todo)
      PROVE  Served(tree, closure', View(p)', p, svc'[p], tx'[p].todo)
  <2>1. CASE svc[p] = "recording"
    <3>1. tx[p].todo = <<<<ResourceOf[p], p>>>>
      BY <1>2, <1>6, <2>1 DEF Served
    <3>2. /\ tx'[p].todo = <<>>
          /\ \A a \in Nodes : closure[<<a, p>>] # NoDepth
                               => View(p)'[<<a, ResourceOf[p]>>] # NoDepth
      BY <1>1, <3>1, PairGives
    <3>3. Hangs(tree, closure, p, p)
      BY <1>6 DEF Climbed
    <3>4. Hangs(tree, View(p)', p, ResourceOf[p])
      BY <3>2, <3>3, HangsFrom
    <3> QED
      BY <2>1, <3>2, <3>4 DEF Served
  <2>2. CASE svc[p] # "recording"
    BY <1>2, <1>6, <2>2 DEF Served
  <2> QED
    BY <2>1, <2>2
<1>7. ServesOn
  BY <1>1, <1>2, <1>3, <1>6, ServedStays DEF ServesOn
<1> QED
  BY <1>4, <1>5, <1>7, ServicesStayConv DEF ConvInv

\* The walk writes the pair in hand: the node gets the rows of its parent.
LEMMA WalkPairConv ==
  ASSUME ConvInv, TreeInv, HierarchyTypeOK, RecordPair("gcp"),
         UNCHANGED <<tree, moved, gcp, svc, azure, scans, clean>>
  PROVE  ConvInv'
<1>1. "gcp" \in Recorders /\ \A v \in TreeProjects : v \in Recorders \ {"gcp"}
  BY ProjectsRecord
<1>2. /\ closure' = closure /\ tx["gcp"].todo # <<>>
      /\ \A v \in Recorders \ {"gcp"} : tx'[v] = tx[v]
  BY <1>1, TxTypes DEF RecordPair
<1>3. /\ More(closure, closure')
      /\ \A v \in Recorders \ {"gcp"} : More(View(v), View(v)')
  BY <1>1, <1>2, OthersSee
<1>4. Grows
  BY <1>3 DEF Grows
<1>5. ServesOn
  BY <1>1, <1>2, <1>3, ServedStays DEF ServesOn
<1>6. This' = This /\ PairsOf(This)' = PairsOf(This)
  BY DEF This, PairsOf
<1>7. ASSUME NEW S, gcp.good, gcp.at = "recording", InTurn(gcp.todo),
             Climbing(tree, closure, clean, S, gcp.todo),
             Holding(tree, View("gcp"), clean, S, This, tx["gcp"].todo, PairsOf(This))
      PROVE  Holding(tree, View("gcp")', clean, S, This, tx'["gcp"].todo, PairsOf(This))
  <2>1. tx["gcp"].todo = PairsOf(This) /\ PairsOf(This) # <<>>
    BY <1>2, <1>7 DEF Holding
  <2>2. /\ gcp.todo \in Seq(TreeNodes) /\ gcp.todo # <<>> /\ tree \in Trees /\ clean \in Nat
        /\ This = Head(gcp.todo) /\ This \in TreeNodes /\ This \in Nodes
    <3>1. gcp.todo \in Seq(TreeNodes) /\ gcp.todo # <<>> /\ tree \in Trees /\ clean \in Nat
      BY <1>7 DEF TreeInv, Walk
    <3> QED
      BY <3>1, NodeSets DEF This
  <2> DEFINE n == This
  <2>3. n = This
    OBVIOUS
  <2> HIDE DEF n
  <2>4. CASE n \in Orgs
    <3>1. tx["gcp"].todo = <<<<n, n>>>>
      BY <2>1, <2>3, <2>4 DEF PairsOf
    <3>2. tx'["gcp"].todo = <<>> /\ View("gcp")'[<<n, n>>] # NoDepth
      BY <1>1, <3>1, PairGives
    <3>3. n \notin Folders \union TreeProjects
      BY <2>4, KindsApart
    <3>4. Hangs(tree, View("gcp")', n, n)
      BY <2>2, <2>3, <3>2, <3>3, HangsAlone
    <3> QED
      BY <2>3, <3>2, <3>4 DEF Holding
  <2>5. CASE n \notin Orgs
    <3>1. n \in Folders \union TreeProjects
      BY <2>2, <2>3, <2>5 DEF TreeNodes
    <3>2. tx["gcp"].todo = <<<<n, tree[n]>>>>
      BY <2>1, <2>3, <2>5 DEF PairsOf
    <3>3. /\ tx'["gcp"].todo = <<>> /\ View("gcp")'[<<n, n>>] # NoDepth
          /\ \A a \in Nodes : closure[<<a, tree[n]>>] # NoDepth => View("gcp")'[<<a, n>>] # NoDepth
      BY <1>1, <3>2, PairGives
    <3>4. Owed(tree, clean, S, n) => Hangs(tree, View("gcp")', n, n)
      <4> SUFFICES ASSUME Owed(tree, clean, S, n) PROVE Hangs(tree, View("gcp")', n, n)
        OBVIOUS
      <4>1. CASE tree[n] \notin KnownIn(tree)
        BY <2>2, <2>3, <3>3, <4>1, HangsAlone
      <4>2. CASE tree[n] \in KnownIn(tree)
        <5>1. Hangs(tree, closure, tree[n], tree[n])
          BY <1>7, <2>2, <2>3, <3>1, <4>2, ParentFirst
        <5> QED
          BY <2>2, <2>3, <3>3, <5>1, HangsBelow
      <4> QED
        BY <4>1, <4>2
    <3> QED
      BY <2>3, <3>3, <3>4 DEF Holding
  <2> QED
    BY <2>4, <2>5
<1>8. WalkConverges'
  <2> SUFFICES ASSUME gcp.good, gcp.at \in Walking
               PROVE  /\ InTurn(gcp.todo)
                      /\ \E S : /\ Climbing(tree, closure, clean, S, gcp.todo)
                                /\ gcp.at = "recording" =>
                                     Holding(tree, View("gcp")', clean, S, This, tx'["gcp"].todo,
                                             PairsOf(This))
    BY <1>2, <1>6 DEF WalkConverges
  <2>1. PICK S : /\ Climbing(tree, closure, clean, S, gcp.todo)
                 /\ gcp.at = "recording" =>
                      Holding(tree, View("gcp"), clean, S, This, tx["gcp"].todo, PairsOf(This))
    BY WalkHolds
  <2>2. InTurn(gcp.todo)
    BY WalkHolds
  <2>3. gcp.at = "recording" =>
           Holding(tree, View("gcp")', clean, S, This, tx'["gcp"].todo, PairsOf(This))
    BY <1>7, <2>1, <2>2
  <2> QED
    BY <2>1, <2>2, <2>3
<1> QED
  BY <1>4, <1>5, <1>8, ServicesStayConv DEF ConvInv

LEMMA ConvStart == HierarchyScanInit => ConvInv
<1> SUFFICES ASSUME HierarchyScanInit PROVE ConvInv
  OBVIOUS
<1>1. clean = 0 /\ gcp.at = "idle" /\ \A p \in TreeProjects : svc[p] = "idle"
  BY DEF HierarchyScanInit
<1>2. WalkConverges /\ ServicesConverge
  BY <1>1 DEF WalkConverges, ServicesConverge, Walking
<1> QED
  BY <1>1, <1>2, SettledAtFirst DEF ConvInv

LEMMA ConvStep ==
  ConvInv /\ TreeInv /\ HierarchyTypeOK /\ [HierarchyScanNext]_treeVars => ConvInv'
<1> SUFFICES ASSUME ConvInv, TreeInv, HierarchyTypeOK, [HierarchyScanNext]_treeVars
             PROVE  ConvInv'
  OBVIOUS
<1>1. CASE \E w \in Recorders : /\ RecordPair(w)
                                /\ UNCHANGED <<tree, moved, gcp, svc, azure, scans, clean>>
  <2>1. PICK w \in Recorders : /\ RecordPair(w)
                               /\ UNCHANGED <<tree, moved, gcp, svc, azure, scans, clean>>
    BY <1>1
  <2>2. w = "gcp" \/ w = "azure" \/ w \in TreeProjects
    BY NodeSets
  <2> QED
    BY <2>1, <2>2, WalkPairConv, AsideConv, ServicePairConv
<1>2. CASE \E p \in TreeProjects : \/ StoreResource(p) \/ RecordResource(p)
                                   \/ ResourceRecorded(p) \/ ResourceFails(p)
  BY <1>2, ServiceConv
<1> QED
  BY <1>1, <1>2, WalkStartsConv, NodeConv, RecordConv, RecordedConv, RestConv, AsideConv, Zenon
     DEF HierarchyScanNext

\* Every clean scan of a tree brings one more folder below all that is known above it.
THEOREM ConvInvariance == HierarchyScanSpec => []ConvInv
BY ConvStart, ConvStep, TreeInvariance, ScansUseTheTables, HierarchyTypes, PTL
   DEF HierarchyScanSpec

-----------------------------------------------------------------------------
(* What is above a node, as the property has it. *)

\* The function KnownAbove is defined by.
IsAbove(n, top, g) ==
    g = [k \in 0 .. top |->
           IF k = 0 THEN {n}
           ELSE g[k - 1] \union
                  ({tree[m] : m \in g[k - 1] \intersect (Folders \union TreeProjects)}
                     \intersect Known)]

\* There is one.
LEMMA AboveExists ==
  ASSUME NEW n, NEW top \in Nat
  PROVE  \E g : IsAbove(n, top, g)
<1> DEFINE S == {j \in Nat : ~\E g : IsAbove(n, j, g)}
<1> SUFFICES ASSUME S # {} PROVE FALSE
  OBVIOUS
<1>1. PICK j \in S : \A i \in S : j <= i
  <2>1. S \subseteq Nat
    OBVIOUS
  <2> HIDE DEF S
  <2> QED
    BY <2>1, LeastNatural
<1>2. CASE j = 0
  <2> DEFINE g == [k \in 0 .. 0 |-> {n}]
  <2>1. IsAbove(n, 0, g)
    BY DEF IsAbove
  <2> QED
    BY <1>2, <2>1
<1>3. CASE j # 0
  <2>1. j \in Nat /\ j - 1 \in Nat /\ ~(j <= j - 1)
    BY <1>3
  <2>2. j - 1 \notin S
    BY <1>1, <2>1
  <2>3. PICK g : IsAbove(n, j - 1, g)
    BY <2>1, <2>2
  <2> DEFINE step(s) == s \union ({tree[m] : m \in s \intersect (Folders \union TreeProjects)}
                                    \intersect Known)
             h == [k \in 0 .. j |-> IF k = j THEN step(g[j - 1]) ELSE g[k]]
  <2>4. \A k \in 0 .. (j - 1) : g[k] = IF k = 0 THEN {n} ELSE step(g[k - 1])
    BY <2>3 DEF IsAbove
  <2>5. \A k \in 0 .. j : h[k] = IF k = 0 THEN {n} ELSE step(h[k - 1])
    <3> HIDE DEF step
    <3> SUFFICES ASSUME NEW k \in 0 .. j PROVE h[k] = IF k = 0 THEN {n} ELSE step(h[k - 1])
      OBVIOUS
    <3>1. CASE k = j
      <4>1. j - 1 \in 0 .. j /\ j - 1 # j /\ k # 0
        BY <1>3, <2>1, <3>1
      <4>2. h[j - 1] = g[j - 1]
        BY <4>1
      <4>3. h[k] = step(g[j - 1])
        BY <3>1
      <4> QED
        BY <3>1, <4>1, <4>2, <4>3
    <3>2. CASE k # j
      <4>1. k \in 0 .. (j - 1) /\ (k # 0 => k - 1 \in 0 .. j /\ k - 1 # j)
        BY <2>1, <3>2
      <4>2. h[k] = g[k] /\ (k # 0 => h[k - 1] = g[k - 1])
        BY <3>2, <4>1
      <4> QED
        BY <2>4, <4>1, <4>2
    <3> QED
      BY <3>1, <3>2
  <2>6. h = [k \in 0 .. j |-> h[k]]
    OBVIOUS
  <2> HIDE DEF h
  <2>7. h = [k \in 0 .. j |-> IF k = 0 THEN {n} ELSE step(h[k - 1])]
    BY <2>5, <2>6
  <2>8. IsAbove(n, j, h)
    BY <2>7 DEF IsAbove
  <2> QED
    BY <2>8
<1> QED
  BY <1>2, <1>3

\* It never leaves a set that leads upward to what is not known only.
LEMMA AboveWithin ==
  ASSUME NEW X, Upward(tree, X), NEW n \in X
  PROVE  KnownAbove(n) \subseteq X
<1> DEFINE top == Cardinality(Folders) + 1
           g == CHOOSE f : IsAbove(n, top, f)
<1>1. top \in Nat
  BY FoldersFinite
<1>2. KnownAbove(n) = g[top] \ {n}
  BY Zenon DEF KnownAbove, IsAbove
<1>3. IsAbove(n, top, g)
  <2>1. \E f : IsAbove(n, top, f)
    BY <1>1, AboveExists
  <2> QED
    BY <2>1, Zenon
<1> HIDE DEF g, top
<1>4. \A k \in 0 .. top : g[k] = IF k = 0 THEN {n} ELSE g[k - 1] \union
                  ({tree[m] : m \in g[k - 1] \intersect (Folders \union TreeProjects)}
                     \intersect Known)
  BY <1>3 DEF IsAbove
<1> DEFINE S == {k \in 0 .. top : ~(g[k] \subseteq X)}
<1>5. S = {}
  <2> SUFFICES ASSUME S # {} PROVE FALSE
    OBVIOUS
  <2>1. PICK j \in S : \A i \in S : j <= i
    <3>1. S \subseteq Nat
      BY <1>1
    <3> HIDE DEF S
    <3> QED
      BY <3>1, LeastNatural
  <2>2. j \in 0 .. top /\ ~(g[j] \subseteq X)
    BY <2>1
  <2>3. j # 0
    BY <1>4, <2>2
  <2>4. j - 1 \in 0 .. top /\ ~(j <= j - 1)
    BY <1>1, <2>2, <2>3
  <2>5. g[j - 1] \subseteq X
    BY <2>1, <2>4
  <2>6. g[j] = g[j - 1] \union
           ({tree[m] : m \in g[j - 1] \intersect (Folders \union TreeProjects)} \intersect Known)
    BY <1>4, <2>2, <2>3
  <2>7. \A m \in g[j - 1] \intersect (Folders \union TreeProjects) :
          tree[m] \in Known => tree[m] \in X
    BY <2>5, KnownOf DEF Upward
  <2> QED
    BY <2>2, <2>5, <2>6, <2>7
<1>6. top \in 0 .. top
  BY <1>1
<1> QED
  BY <1>2, <1>5, <1>6

\* After as many clean scans of one tree as there are folders, everything that is found
\* lies below all that is known above it (scanHierarchy, RecordHierarchy), for every tree
\* and every interleaving of the services.
THEOREM ScansConverge == HierarchyScanSpec => []ConvergesWithDepth
<1>1. ConvInv /\ TreeInv => ConvergesWithDepth
  <2> SUFFICES ASSUME ConvInv, TreeInv, gcp.at = "idle", clean > 0, clean >= Cardinality(Folders),
                      NEW n \in Known \ Orgs, NEW a \in KnownAbove(n) \ Parentless
               PROVE  /\ closure[<<a, n>>] # NoDepth
                      /\ n \in TreeProjects => closure[<<a, ResourceOf[n]>>] # NoDepth
    BY DEF ConvergesWithDepth
  <2>1. clean \in Nat /\ Settled(tree, closure, clean)
    BY DEF ConvInv, TreeInv
  <2>2. n \in KnownIn(tree) /\ (n \in Folders \/ n \in TreeProjects)
    BY KnownOf DEF Known, DirectParents
  <2>3. \A r : Hangs(tree, closure, n, r) => closure[<<a, r>>] # NoDepth
    <3> SUFFICES ASSUME NEW r, Hangs(tree, closure, n, r) PROVE closure[<<a, r>>] # NoDepth
      OBVIOUS
    <3>1. PICK X \in SUBSET Nodes : /\ n \in X /\ Upward(tree, X)
                                    /\ \A b \in X \ BareIn(tree) : closure[<<b, r>>] # NoDepth
      BY DEF Hangs
    <3>2. a \in X
      BY <3>1, AboveWithin
    <3> QED
      BY <3>1, <3>2, KnownOf
  <2>4. Hangs(tree, closure, n, n)
    <3>1. CASE n \in TreeProjects
      BY <2>1, <3>1 DEF Settled
    <3>2. CASE n \in Folders
      <4>1. Late(tree, closure) \in SUBSET Folders /\ Shrinks(Late(tree, closure), clean)
        BY <2>1 DEF Late, Settled
      <4>2. Late(tree, closure) = {}
        BY <2>1, <4>1, NoneLate
      <4> QED
        BY <2>2, <3>2, <4>2 DEF Late
    <3> QED
      BY <2>2, <3>1, <3>2
  <2>5. n \in TreeProjects => Hangs(tree, closure, n, ResourceOf[n])
    BY <2>1 DEF Settled
  <2> QED
    BY <2>3, <2>4, <2>5
<1> QED
  BY <1>1, ConvInvariance, TreeInvariance, PTL
=============================================================================
