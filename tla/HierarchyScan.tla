---------------------------- MODULE HierarchyScan ----------------------------
(***************************************************************************)
(* Who records the hierarchy, and in which order.                          *)
(*                                                                         *)
(* gcp: scanHierarchy (src/internal/providers/gcp/gcp_hierarchy.go) walks  *)
(* the organizations and folders that hold a project directly, then the    *)
(* projects, one RecordHierarchy each; then every project's services       *)
(* record their resources under it, concurrently.                          *)
(*                                                                         *)
(* azure: stitchTopHierarchy (src/internal/providers/azure/                *)
(* management_scanners.go) records all pairs in one batch at the end of    *)
(* the scan.                                                               *)
(*                                                                         *)
(* Both run in one scan, over one database; scans follow one another, and  *)
(* the cloud's folders may be moved between them.                          *)
(***************************************************************************)
EXTENDS HierarchyClosure, FiniteSets, SequencesExt

CONSTANTS
    Orgs, Folders, TreeProjects,    \* of GCP
    ResourceOf,                 \* project -> the resource a service finds in it
    Trees,                      \* the parent functions the GCP tree goes through
    NoParent,
    Groups, Subs, ResourceGroups,   \* of Azure
    AzureParent,                \* child -> parent, from Entities and account ids
    AzureDepth,                 \* length of the parent chain of a node
    ScanProviders,              \* the sets of providers a scan may be asked for
    MayDeny,                    \* bound: nodes whose read may be denied
    MaxScans                    \* bound

AzureNodes == Groups \union Subs \union ResourceGroups
GcpNodes == Orgs \union Folders \union TreeProjects \union {ResourceOf[p] : p \in TreeProjects}

ASSUME ScanAssumption ==
    /\ Nodes = AzureNodes \union GcpNodes /\ IsFiniteSet(Nodes)
    /\ Recorders = {"gcp", "azure"} \union TreeProjects
    /\ Trees \subseteq [Folders \union TreeProjects -> Orgs \union Folders \union {NoParent}]
    /\ NoParent \notin Nodes
    /\ MayDeny \subseteq Orgs \union Folders \union TreeProjects
    /\ AzureParent \in [AzureNodes -> AzureNodes \union {NoParent}]
    /\ MaxScans \in Nat

\* Ids are of one kind of node and of one provider, and what a provider answers is
\* a tree: no folder is below itself, and Azure's names a longer chain for a child.
ASSUME TreeAssumption ==
    /\ {"gcp", "azure"} \intersect TreeProjects = {}
    /\ AzureNodes \intersect GcpNodes = {} /\ ResourceGroups \intersect (Groups \union Subs) = {}
    /\ Orgs \intersect Folders = {} /\ TreeProjects \intersect (Orgs \union Folders) = {}
    /\ \A p \in TreeProjects : ResourceOf[p] \notin Orgs \union Folders \union TreeProjects
    /\ \A t \in Trees, S \in SUBSET Folders : S # {} => \E n \in S : t[n] \notin S
    /\ \A n \in Groups \union Subs : AzureParent[n] \in Groups \union Subs \union {NoParent}
    /\ \A n \in ResourceGroups : AzureParent[n] \in Subs
    /\ \A n \in AzureNodes :
          /\ AzureDepth[n] \in Nat
          /\ AzureParent[n] # NoParent => AzureDepth[AzureParent[n]] < AzureDepth[n]

VARIABLES
    tree,       \* the parent of every folder and project
    moved,      \* the tree has changed since the first scan
    gcp,        \* scanHierarchy: phase, nodes to come, denied, no warning, no failure
    svc,        \* project -> where its service is
    azure,      \* where the stitching is
    scans,      \* scans finished
    clean       \* scans of GCP in a row without denial or failure, of one tree

treeVars == <<hierarchyVars, tree, moved, gcp, svc, azure, scans, clean>>

HierarchyScanInit ==
    /\ HierarchyInit
    /\ tree \in Trees
    /\ moved = FALSE
    /\ gcp = [at |-> "idle", todo |-> <<>>, denied |-> {}, quiet |-> FALSE, good |-> TRUE]
    /\ svc = [p \in TreeProjects |-> "idle"]
    /\ azure = [at |-> "idle", listed |-> FALSE]
    /\ scans = 0
    /\ clean = 0

-----------------------------------------------------------------------------
(* GCP. *)

\* The organizations or folders among the direct parents of readable projects.
DirectParents(kind, denied) == {tree[p] : p \in TreeProjects \ denied} \cap kind

\* They come in the order in which the projects name them.
Orders(kind, denied) == SetToSeqs(DirectParents(kind, denied) \ denied)

\* The scan starts: projects are read, which gives the organizations, folders and
\* projects to store; one whose read is denied is left out, with a warning.
StartTreeScan ==
    /\ gcp.at = "idle" /\ azure.at = "idle"
    /\ scans < MaxScans
    /\ \E providers \in ScanProviders :
         /\ IF "gcp" \in providers
            THEN \E denied \in SUBSET MayDeny :
                   \E o \in Orders(Orgs, denied), f \in Orders(Folders, denied) :
                     gcp' = [at |-> "store",
                             todo |-> o \o f \o SetToSeq(TreeProjects \ denied),
                             denied |-> denied,
                             quiet |-> denied = {},
                             good |-> denied = {}]
            ELSE gcp' = [gcp EXCEPT !.at = "off"]
         /\ azure' = [at |-> IF "azure" \in providers THEN "scan" ELSE "off", listed |-> FALSE]
    /\ UNCHANGED <<hierarchyVars, tree, moved, svc, scans, clean>>

This == Head(gcp.todo)

\* An organization is recorded under itself, as a root; the rest under the
\* parent the API names, if any, discovered or not.
PairsOf(n) ==
    IF n \in Orgs THEN <<<<n, n>>>>
    ELSE IF tree[n] = NoParent THEN <<>> ELSE <<<<n, tree[n]>>>>

StoreNode ==
    /\ gcp.at = "store"
    /\ gcp.todo # <<>>
    /\ StoreRows({This})
    /\ gcp' = [gcp EXCEPT !.at = "record"]
    /\ UNCHANGED <<tree, moved, svc, azure, scans, clean>>

RecordNode ==
    /\ gcp.at = "record"
    /\ IF PairsOf(This) = <<>>
       THEN gcp' = [gcp EXCEPT !.at = "store", !.todo = Tail(@)] /\ UNCHANGED hierarchyVars
       ELSE gcp' = [gcp EXCEPT !.at = "recording"] /\ BatchStarts("gcp", PairsOf(This))
    /\ UNCHANGED <<tree, moved, svc, azure, scans, clean>>

NodeRecorded ==
    /\ gcp.at = "recording"
    /\ BatchCommits("gcp")
    /\ gcp' = [gcp EXCEPT !.at = "store", !.todo = Tail(@), !.quiet = @ /\ ~tx["gcp"].missing]
    /\ UNCHANGED <<tree, moved, svc, azure, scans, clean>>

\* A failed write ends GCP's scan: no services run.
HierarchyAborts ==
    /\ \/ gcp.at = "store" /\ gcp.todo # <<>> /\ UNCHANGED hierarchyVars
       \/ gcp.at = "recording" /\ BatchFails("gcp")
    /\ gcp' = [gcp EXCEPT !.at = "done", !.todo = <<>>, !.quiet = FALSE, !.good = FALSE]
    /\ UNCHANGED <<tree, moved, svc, azure, scans, clean>>

\* scanProject for every project, the denied ones too.
StartServices ==
    /\ gcp.at = "store"
    /\ gcp.todo = <<>>
    /\ gcp' = [gcp EXCEPT !.at = "services"]
    /\ svc' = [p \in TreeProjects |-> "store"]
    /\ UNCHANGED <<hierarchyVars, tree, moved, azure, scans, clean>>

\* upsertWithParent: the resource, then its pair.
StoreResource(p) ==
    /\ svc[p] = "store"
    /\ StoreRows({ResourceOf[p]})
    /\ svc' = [svc EXCEPT ![p] = "record"]
    /\ UNCHANGED <<tree, moved, gcp, azure, scans, clean>>

RecordResource(p) ==
    /\ svc[p] = "record"
    /\ BatchStarts(p, <<<<ResourceOf[p], p>>>>)
    /\ svc' = [svc EXCEPT ![p] = "recording"]
    /\ UNCHANGED <<tree, moved, gcp, azure, scans, clean>>

ResourceRecorded(p) ==
    /\ svc[p] = "recording"
    /\ BatchCommits(p)
    /\ svc' = [svc EXCEPT ![p] = "idle"]
    /\ gcp' = [gcp EXCEPT !.quiet = @ /\ ~tx[p].missing]
    /\ UNCHANGED <<tree, moved, azure, scans, clean>>

\* A service that fails is reported; the others go on.
ResourceFails(p) ==
    /\ svc[p] = "recording"
    /\ BatchFails(p)
    /\ svc' = [svc EXCEPT ![p] = "idle"]
    /\ gcp' = [gcp EXCEPT !.quiet = FALSE, !.good = FALSE]
    /\ UNCHANGED <<tree, moved, azure, scans, clean>>

ServicesEnd ==
    /\ gcp.at = "services"
    /\ \A p \in TreeProjects : svc[p] = "idle"
    /\ gcp' = [gcp EXCEPT !.at = "done"]
    /\ UNCHANGED <<hierarchyVars, tree, moved, svc, azure, scans, clean>>

-----------------------------------------------------------------------------
(* Azure. *)

\* The rows of the management groups, subscriptions and resource groups.
StoreAzure ==
    /\ azure.at = "scan"
    /\ StoreRows(AzureNodes)
    /\ azure' = [azure EXCEPT !.at = "stitch"]
    /\ UNCHANGED <<tree, moved, gcp, svc, scans, clean>>

Entities == {n \in Groups \union Subs : AzureParent[n] # NoParent}
AsPairs(q) == [i \in DOMAIN q |-> <<q[i], AzureParent[q[i]]>>]

\* Mutant of EntityOrders: the order in which the Entities list comes.
EntityOrdersUnsorted == SetToSeqs(Entities)

\* managementParentPairs: shallowest first.
EntityOrders ==
    {q \in SetToSeqs(Entities) :
        \A i, j \in DOMAIN q : i < j => AzureDepth[q[i]] <= AzureDepth[q[j]]}

\* recordTopHierarchy: every group and subscription under itself, the entities,
\* the resource groups.  The Entities list may be denied or fail.
Stitch ==
    /\ azure.at = "stitch"
    /\ \E listed \in BOOLEAN, q \in EntityOrders :
         LET seeds == SetToSeq(Groups \union Subs)
             pairs == [i \in DOMAIN seeds |-> <<seeds[i], seeds[i]>>]
                      \o (IF listed THEN AsPairs(q) ELSE <<>>)
                      \o AsPairs(SetToSeq(ResourceGroups))
         IN  BatchStarts("azure", pairs) /\ azure' = [at |-> "stitching", listed |-> listed]
    /\ UNCHANGED <<tree, moved, gcp, svc, scans, clean>>

Stitched ==
    /\ azure.at = "stitching"
    /\ BatchCommits("azure")
    /\ azure' = [azure EXCEPT !.at = "stitched"]
    /\ UNCHANGED <<tree, moved, gcp, svc, scans, clean>>

StitchFails ==
    /\ azure.at = "stitching"
    /\ BatchFails("azure")
    /\ azure' = [azure EXCEPT !.at = "failed"]
    /\ UNCHANGED <<tree, moved, gcp, svc, scans, clean>>

-----------------------------------------------------------------------------
TreeScanEnds ==
    /\ gcp.at \in {"done", "off"}
    /\ azure.at \in {"stitched", "failed", "off"}
    /\ gcp' = [gcp EXCEPT !.at = "idle", !.denied = {}]
    /\ azure' = [azure EXCEPT !.at = "idle"]
    /\ scans' = scans + 1
    /\ clean' = IF gcp.at = "off" THEN clean ELSE IF gcp.good THEN clean + 1 ELSE 0
    /\ UNCHANGED <<hierarchyVars, tree, moved, svc>>

\* Between two scans somebody moves folders or projects.
Move ==
    /\ gcp.at = "idle"
    /\ \E t \in Trees : t # tree /\ tree' = t
    /\ moved' = TRUE
    /\ clean' = 0
    /\ gcp' = [gcp EXCEPT !.quiet = FALSE]
    /\ UNCHANGED <<hierarchyVars, svc, azure, scans>>

HierarchyScanNext ==
    \/ StartTreeScan \/ StoreNode \/ RecordNode \/ NodeRecorded \/ HierarchyAborts
    \/ StartServices \/ ServicesEnd \/ TreeScanEnds \/ Move
    \/ \E p \in TreeProjects : \/ StoreResource(p) \/ RecordResource(p)
                           \/ ResourceRecorded(p) \/ ResourceFails(p)
    \/ StoreAzure \/ Stitch \/ Stitched \/ StitchFails
    \/ \E w \in Recorders : /\ RecordPair(w)
                            /\ UNCHANGED <<tree, moved, gcp, svc, azure, scans, clean>>

HierarchyScanSpec == HierarchyScanInit /\ [][HierarchyScanNext]_treeVars
-----------------------------------------------------------------------------
HierarchyScanTypeOK ==
    /\ HierarchyTypeOK
    /\ tree \in Trees
    /\ gcp.at \in {"idle", "store", "record", "recording", "services", "done", "off"}
    /\ svc \in [TreeProjects -> {"idle", "store", "record", "recording"}]
    /\ azure.at \in {"idle", "scan", "stitch", "stitching", "stitched", "failed", "off"}
    /\ scans \in 0 .. MaxScans /\ clean \in 0 .. MaxScans

\* The nodes among which the closure can be complete: those a scan stores.
Known == DirectParents(Orgs \union Folders, {}) \union TreeProjects

\* The chain above a node, as far as the nodes on it are known.
KnownAbove(n) ==
    LET up[k \in 0 .. Cardinality(Folders) + 1] ==
          IF k = 0 THEN {n}
          ELSE up[k - 1] \union
                 ({tree[m] : m \in up[k - 1] \cap (Folders \union TreeProjects)} \cap Known)
    IN  up[Cardinality(Folders) + 1] \ {n}

\* Nodes the API names no parent of: a walk passes them by, and a folder among them
\* gets no row that what lies in it could find.
Parentless == {n \in Folders \union TreeProjects : tree[n] = NoParent}

\* Folders are recorded in no particular order, so a scan may leave a folder
\* without the ancestors of its parent; every further scan of the same tree
\* completes one more level.  After as many as there are folders, and one at the
\* least, everything a scan discovers lies below all its discovered ancestors that
\* are not parentless, resources included.
ConvergesWithDepth ==
    gcp.at = "idle" /\ clean > 0 /\ clean >= Cardinality(Folders) =>
        \A n \in Known \ Orgs : \A a \in KnownAbove(n) \ Parentless :
            /\ closure[<<a, n>>] # NoDepth
            /\ n \in TreeProjects => closure[<<a, ResourceOf[n]>>] # NoDepth

\* A GCP scan that raised no warning left every folder and project it stored
\* with the edge from its parent: what it could not link, it named.
QuietMeansLinked ==
    gcp.at = "idle" /\ gcp.quiet =>
        \A n \in Known \ Orgs : tree[n] # NoParent => <<tree[n], n>> \in contains

\* Azure's order is right the first time: when the batch commits every stored
\* entity lies below the whole chain of its parents, at the depth of the chain,
\* and every resource group below its subscription, Entities list or not.
StitchedIsComplete ==
    azure.at = "stitched" =>
        \A n \in Subs \union Groups \union ResourceGroups :
          LET p == AzureParent[n]
          IN  p # NoParent /\ (azure.listed \/ n \in ResourceGroups) =>
                 /\ closure[<<p, n>>] # NoDepth
                 /\ \A a \in Nodes : closure[<<a, p>>] # NoDepth =>
                                     closure[<<a, n>>] = closure[<<a, p>>] + 1

\* ReversedContainsEdges, "always empty".
NoReversedContains ==
    \A e \in contains : closure[<<e[2], e[1]>>] = NoDepth

\* The directions contradict each other only after the cloud's tree was turned:
\* no order of records, denials, failures and services makes a reversed edge.
ReversedOnlyAfterMove == ~moved => NoReversedContains

\* What the hierarchy scans of GCP and Azure leave is linked, or named, and points one
\* way (scanHierarchy, stitchTopHierarchy).
RecordedIsLinked ==
    HierarchyScanTypeOK /\ QuietMeansLinked /\ StitchedIsComplete /\ ReversedOnlyAfterMove
=============================================================================
