---------------------------- MODULE GcpDispatch ----------------------------
(***************************************************************************)
(* A GCP scan (src/internal/providers/gcp/gcp_scanner.go, gcp_registry.go, *)
(* gcp_scan_helpers.go): the hierarchy, the services of the organization   *)
(* one by one, all projects at once, each with a semaphore of its own,     *)
(* then the resolvers project by project, then those of the organization.  *)
(***************************************************************************)
EXTENDS Integers, FiniteSets, ScanCalls

CONSTANTS
    Projects,
    ProjectServices,    \* services left by --services
    OrgServices,        \* registered services of organizations and folders it left
    ProjectResolvers,
    OrgResolvers,
    Org,                \* scopeLabel of the organization, "org"
    ProjectSlots        \* maxConcurrentServices, of each project and each resolver pool

ASSUME GcpAssumption ==
    /\ Org \notin Projects /\ "none" \notin Projects \union {Org}
    /\ IsFiniteSet(Projects) /\ IsFiniteSet(ProjectServices)
    /\ ProjectSlots \in Nat \ {0}

VARIABLES
    at,             \* Scan: "load", "org", "projects", "resolve", "over", "failed"
    orgLeft,        \* services of the organization that have not run
    pending,        \* <<project, service>> that wait for a slot
    busy,           \* <<project, service>> that hold one
    projectFree,    \* project -> free slots
    round,          \* whose resolvers run: a project, Org, or "none"
    toResolve,      \* scopes whose resolvers have not been started
    pool,           \* resolvers of the round that wait or run
    scanned,        \* history: services that have run, or that a report names
    resolved        \* history: resolvers that have run, or that a report names

heard == <<scanned, resolved>>
gcpVars == <<at, orgLeft, pending, busy, projectFree, round, toResolve, pool, heard>>

\* What a scan is there to do: a service by its scope, a resolver by its scope.
ServiceCalls == (Projects \X ProjectServices) \union ({Org} \X OrgServices)
ResolverCalls == (Projects \X ProjectResolvers) \union ({Org} \X OrgResolvers)

\* How a call may come back.  No error of GCP is both a failed write and a service that
\* is off: the mark of the second (markServiceDisabled) keeps only the text of what it wraps.
GcpOutcomes == {OK, {}, {"store"}, {"off"}}

Of(p, calls) == {c \in calls : c[1] = p}

GcpInit ==
    /\ at = "load"
    /\ orgLeft = {} /\ pending = {} /\ busy = {}
    /\ projectFree = [p \in Projects |-> ProjectSlots]
    /\ round = "none" /\ toResolve = {} /\ pool = {}
    /\ scanned = {} /\ resolved = {}

-----------------------------------------------------------------------------
(* The main goroutine. *)

\* A service has run: the scan has its rows, or owns up to what is missing.
Scanned(c, how) == scanned' = IF Told(how) THEN scanned \union {c} ELSE scanned

\* loadProjects or scanHierarchy returns an error, for one folder or project that did not
\* answer or one row that was not written: the provider's scan is over, and the caller
\* reports one error, of the provider.
GcpFails ==
    /\ at = "load" /\ at' = "failed"
    /\ UNCHANGED <<cancelled, orgLeft, pending, busy, projectFree, round, toResolve, pool, heard>>

\* The hierarchy is written; the services of the organization run if it has
\* found an organization or a folder, otherwise a notice says they do not.
HierarchyDone(scopes) ==
    /\ at = "load" /\ at' = "org"
    /\ orgLeft' = IF scopes THEN OrgServices ELSE {}
    /\ scanned' = IF scopes THEN scanned ELSE scanned \union ({Org} \X OrgServices)
    /\ UNCHANGED <<cancelled, pending, busy, projectFree, round, toResolve, pool, resolved>>

\* runOrgServices: one after another, with no budget of time of its own.
OrgService(v, how) ==
    /\ at = "org" /\ v \in orgLeft
    /\ orgLeft' = orgLeft \ {v}
    /\ Scanned(<<Org, v>>, how)
    /\ UNCHANGED <<cancelled, at, pending, busy, projectFree, round, toResolve, pool, resolved>>

\* All projects start, and wait for slots of their own.
StartProjects ==
    /\ at = "org" /\ orgLeft = {} /\ at' = "projects"
    /\ pending' = Projects \X ProjectServices
    /\ UNCHANGED <<cancelled, orgLeft, busy, projectFree, round, toResolve, pool, heard>>

\* projWG.Wait.
JoinProjects ==
    /\ at = "projects" /\ at' = "resolve"
    /\ pending = {} /\ busy = {}
    /\ toResolve' = Projects \union {Org}
    /\ UNCHANGED <<cancelled, orgLeft, pending, busy, projectFree, round, pool, heard>>

\* resolveRelationships of the next project, resolveOrgRelationships after the last.
StartRound(s) ==
    /\ at = "resolve" /\ pool = {} /\ s \in toResolve
    /\ s = Org => toResolve = {Org}
    /\ round' = s /\ toResolve' = toResolve \ {s}
    /\ pool' = IF s = Org THEN OrgResolvers ELSE ProjectResolvers
    /\ UNCHANGED <<cancelled, at, orgLeft, pending, busy, projectFree, heard>>

GcpEnds ==
    /\ at = "resolve" /\ pool = {} /\ toResolve = {}
    /\ at' = "over"
    /\ UNCHANGED <<cancelled, orgLeft, pending, busy, projectFree, round, toResolve, pool, heard>>

-----------------------------------------------------------------------------
(* Services of a project, and resolvers. *)

ProjectServiceStarts(c) ==
    /\ c \in pending /\ projectFree[c[1]] > 0
    /\ pending' = pending \ {c} /\ busy' = busy \union {c}
    /\ projectFree' = [projectFree EXCEPT ![c[1]] = @ - 1]
    /\ UNCHANGED <<cancelled, at, orgLeft, round, toResolve, pool, heard>>

\* Acquire fails: without a word.
ProjectServiceDropped(c) ==
    /\ c \in pending /\ cancelled
    /\ pending' = pending \ {c}
    /\ UNCHANGED <<cancelled, at, orgLeft, busy, projectFree, round, toResolve, pool, heard>>

\* Mutant of ProjectServiceEnds: the services are an errgroup, whose first error ends the
\* context of the others.
ProjectServiceEndsAborting(c, how) ==
    /\ c \in busy /\ busy' = busy \ {c}
    /\ projectFree' = [projectFree EXCEPT ![c[1]] = @ + 1]
    /\ Scanned(c, how)
    /\ pending' = IF how = OK THEN pending ELSE {}
    /\ UNCHANGED <<cancelled, at, orgLeft, round, toResolve, pool, resolved>>

\* The ladder of scanProject has no warning: a loss is an error, and costs no other service.
ProjectServiceEnds(c, how) ==
    /\ c \in busy /\ busy' = busy \ {c}
    /\ projectFree' = [projectFree EXCEPT ![c[1]] = @ + 1]
    /\ Scanned(c, how)
    /\ UNCHANGED <<cancelled, at, orgLeft, pending, round, toResolve, pool, resolved>>

\* A resolver and the flush of its edges: each error is reported, none is returned to
\* forEachItem, which would end the context of the others.
RunResolver(r) ==
    /\ r \in pool /\ pool' = pool \ {r}
    /\ resolved' = resolved \union {<<round, r>>}
    /\ UNCHANGED <<cancelled, at, orgLeft, pending, busy, projectFree, round, toResolve, scanned>>

\* Acquire of forEachItem fails: unlike AWS, a cancelled scan resolves nothing.
DropResolver(r) ==
    /\ r \in pool /\ cancelled
    /\ pool' = pool \ {r}
    /\ UNCHANGED <<cancelled, at, orgLeft, pending, busy, projectFree, round, toResolve, heard>>

-----------------------------------------------------------------------------
GcpMainStep ==
    \/ \E scopes \in BOOLEAN : HierarchyDone(scopes)
    \/ \E v \in OrgServices, how \in GcpOutcomes : OrgService(v, how)
    \/ StartProjects \/ JoinProjects
    \/ \E s \in Projects \union {Org} : StartRound(s)
    \/ \E r \in ProjectResolvers \union OrgResolvers :
          DropResolver(r) \/ RunResolver(r)
    \/ GcpEnds

ProjectStep(c) ==
    \/ ProjectServiceStarts(c) \/ ProjectServiceDropped(c)
    \/ \E how \in GcpOutcomes : ProjectServiceEnds(c, how)

GcpNext ==
    \/ GcpMainStep \/ GcpFails
    \/ \E c \in Projects \X ProjectServices : ProjectStep(c)

GcpOver == at \in {"over", "failed"}

GcpSpec ==
    /\ cancelled = FALSE /\ GcpInit
    /\ [][GcpNext \/ (Cancel /\ UNCHANGED gcpVars)]_<<cancelled, gcpVars>>

-----------------------------------------------------------------------------
(* Properties. *)

\* Every variable of a GCP scan holds the values the code's types allow.
GcpTypeOK ==
    /\ at \in {"load", "org", "projects", "resolve", "over", "failed"}
    /\ orgLeft \subseteq OrgServices
    /\ pending \subseteq Projects \X ProjectServices
    /\ busy \subseteq Projects \X ProjectServices
    /\ projectFree \in [Projects -> 0 .. ProjectSlots]
    /\ round \in Projects \union {Org, "none"}
    /\ toResolve \subseteq Projects \union {Org}
    /\ pool \subseteq ProjectResolvers \union OrgResolvers
    /\ scanned \subseteq ServiceCalls /\ resolved \subseteq ResolverCalls

\* No project's semaphore loses a slot or makes one up, however its services end: a lost
\* one starves the services queued behind it.
GcpSlotsBalance ==
    \A p \in Projects : projectFree[p] + Cardinality(Of(p, busy)) = ProjectSlots

Resolving == {round} \X pool

\* Edges are derived from rows that are all there.  When the first resolver runs, every
\* service of the organization and of every project has run or is named by a report; when
\* the first of the organization runs, so has every resolver of every project.  A
\* cancelled scan leaves some out, and even then no service is still on its way.
GcpResolvesLast ==
    /\ resolved \union Resolving # {} =>
          /\ orgLeft = {} /\ pending \union busy = {}
          /\ ~cancelled => scanned = ServiceCalls
    /\ (\E c \in resolved \union Resolving : c[1] = Org) /\ ~cancelled =>
          Projects \X ProjectResolvers \subseteq resolved

\* What the scan has yet to come to.
ServicesAhead ==
    pending \union busy
      \union (IF at = "load" THEN {Org} \X OrgServices ELSE {Org} \X orgLeft)
      \union (IF at \in {"load", "org"} THEN Projects \X ProjectServices ELSE {})
ResolversAhead ==
    IF at \in {"load", "org", "projects"} THEN ResolverCalls
    ELSE Resolving \union {c \in ResolverCalls : c[1] \in toResolve}

\* A scan that read the hierarchy and was not cancelled forgets nothing: at every moment
\* each service and each resolver of each scope is still to come, or has run, or is named
\* by a report, so no failure took a sibling down and at the end nothing is missing without
\* a word.  The exception is large: one project or folder that fails to answer, or one row
\* that is not written, before the services start (GcpFails), and none of them runs.
GcpForgetsNothing ==
    ~cancelled /\ at # "failed" =>
        /\ ServiceCalls \subseteq scanned \union ServicesAhead
        /\ ResolverCalls \subseteq resolved \union ResolversAhead

\* What holds of a GCP scan at every moment, whatever fails: slots, order and reports.
GcpScanSafe == GcpTypeOK /\ GcpSlotsBalance /\ GcpResolvesLast /\ GcpForgetsNothing
=============================================================================
