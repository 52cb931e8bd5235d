-------------------------- MODULE MCProviderScans --------------------------
(***************************************************************************)
(* Instances for TLC of what the providers do in a scan beside the Azure   *)
(* dispatcher.  A behaviour is one of one part, chosen at the start: the   *)
(* dispatcher of AWS or of GCP, the scan of one service, the credential of *)
(* Azure, or the hierarchy that scans of GCP and Azure record.             *)
(***************************************************************************)
EXTENDS AwsDispatch, GcpDispatch, ServiceScan, TokenRetry, HierarchyScan, TLC

CONSTANTS ec2, new, r1, r2
CONSTANTS near, far, odd
CONSTANTS o, f1, f2, p1, p2, x1, x2, g1, g2, s, rg

\* new is served in r2 though the shipped table does not know it; the table has no
\* opinion on ec2.
MCOffered == [v \in Regionals |-> IF v = ec2 THEN {r1, r2} ELSE {r2}]
MCShipped == [v \in Regionals |-> {r1}]

\* A listing with an empty page between two others, one with two rows on a page, one of
\* a single row.
MCLayout == near :> <<{1}, {}, {2}>> @@ far :> <<{3, 4}, {5}>> @@ odd :> <<{6}>>

MCNodes == {o, f1, f2, p1, p2, x1, x2, g1, g2, s, rg}
MCRecorders == {"gcp", "azure", p1, p2}
MCResourceOf == p1 :> x1 @@ p2 :> x2

\* One provider per scan: their nodes are disjoint, together they only multiply.
MCScanProviders == {{"gcp"}, {"azure"}}

\* A folder in a folder; the two turned round; a project moved to the top, the folder of
\* the other out of the organization.
Nested == f1 :> f2 @@ f2 :> o @@ p1 :> f1 @@ p2 :> f2
Turned == f2 :> f1 @@ f1 :> o @@ p1 :> f1 @@ p2 :> f2
Flat == f1 :> o @@ f2 :> NoParent @@ p1 :> o @@ p2 :> f2
MCTrees == {Nested, Turned, Flat}

\* Two management groups, a subscription below, a resource group in it.
MCAzureParent == g1 :> NoParent @@ g2 :> g1 @@ s :> g2 @@ rg :> s
MCAzureDepth == g1 :> 0 @@ g2 :> 1 @@ s :> 2 @@ rg :> 3

VARIABLE part

vars == <<part, cancelled, awsVars, gcpVars, serviceVars, tokenVars, treeVars>>

\* The part that runs starts anywhere it may, the others in one place.
Init ==
    /\ part \in {"aws", "gcp", "service", "token", "hierarchy"}
    /\ part # "hierarchy" => tree = Nested
    /\ part # "service" => shape = "phases" /\ only = {near}
    /\ cancelled = FALSE /\ AwsInit /\ GcpInit /\ ServiceInit /\ TokenInit /\ HierarchyScanInit

Aws(step) == part = "aws" /\ step /\ UNCHANGED <<part, gcpVars, serviceVars, tokenVars, treeVars>>
Gcp(step) == part = "gcp" /\ step /\ UNCHANGED <<part, awsVars, serviceVars, tokenVars, treeVars>>

Service(step) ==
    part = "service" /\ step /\ UNCHANGED <<part, cancelled, awsVars, gcpVars, tokenVars, treeVars>>

Token ==
    /\ part = "token" /\ TokenNext
    /\ UNCHANGED <<part, cancelled, awsVars, gcpVars, serviceVars, treeVars>>
Hierarchy ==
    /\ part = "hierarchy" /\ HierarchyScanNext
    /\ UNCHANGED <<part, cancelled, awsVars, gcpVars, serviceVars, tokenVars>>

Ends ==
    CASE part = "aws" -> AwsOver
      [] part = "gcp" -> GcpOver
      [] part = "service" -> result # "none"
      [] OTHER -> TRUE

Next ==
    \/ Aws(AwsNext) \/ Gcp(GcpNext) \/ Service(ServiceNext) \/ Token \/ Hierarchy
    \/ /\ part \in {"aws", "gcp"} /\ ~Ends /\ Cancel
       /\ UNCHANGED <<part, awsVars, gcpVars, serviceVars, tokenVars, treeVars>>

\* A call has a deadline (serviceTimeout) or is taken to return, a semaphore serves
\* its waiters in turn, and no goroutine is denied the processor.  The deadline of a
\* service passes.
FairSpec ==
    /\ Init /\ [][Next]_vars
    /\ WF_vars(Aws(AccountStep)) /\ WF_vars(Gcp(GcpMainStep))
    /\ \A r \in Regions : WF_vars(Aws(RegionStep(r)))
    /\ \A c \in Tasks : WF_vars(Aws(TaskStep(c)))
    /\ \A c \in Projects \X ProjectServices : WF_vars(Gcp(ProjectStep(c)))
    /\ WF_vars(Service(Expire)) /\ WF_vars(Service(JoinStep))
    /\ \A l \in Listings : WF_vars(Service(ListingStep(l)))
    /\ WF_vars(Service(\E x \in asking : RowStep(x)))

\* A scan comes to its end, whatever fails or is cancelled: nobody waits for a slot
\* for ever, no wait group is left waiting (scanAccount, scanRegion, Scan), and the
\* scanner of a service returns (pageScan, forEachItem, azRGFanoutScan).
ScanEnds == <>Ends
=============================================================================
