---------------------------- MODULE AwsDispatch ----------------------------
(***************************************************************************)
(* An AWS scan (src/internal/providers/aws/aws_scanner.go): the accounts   *)
(* one after another; of an account the global services beside a preflight *)
(* that picks regions, then the regions, each with its regional services,  *)
(* under three semaphores; then the resolvers, when all of them are back.  *)
(* Two sources say where AWS offers a service: a table shipped with the    *)
(* program and a catalog read at run time                                  *)
(* (src/internal/providers/aws/aws_region_availability.go).                *)
(***************************************************************************)
EXTENDS Integers, FiniteSets, ScanCalls

CONSTANTS
    Accounts,       \* number of accounts
    Globals,        \* global services left by --services, none under --skip-globals
    Regionals,      \* regional services left by --services
    Regions,        \* configured regions
    Offered,        \* Offered[v]: regions where AWS serves v, as the catalog says
    Shipped,        \* Shipped[v]: regions where the shipped table says so
    Unlisted,       \* services the shipped table has no opinion on
    Scoped,         \* FALSE: --no-scope-regions
    Resolvers,
    GlobalSlots,    \* maxConcurrentServices, of the global lane
    RegionSlots,    \* maxConcurrentRegions
    ServiceSlots    \* maxConcurrentServices, of each region

Everywhere == "global"

ASSUME AwsAssumption ==
    /\ Accounts \in Nat \ {0}
    /\ Globals \intersect Regionals = {} /\ Everywhere \notin Regions
    /\ Unlisted \subseteq Regionals
    /\ Offered \in [Regionals -> SUBSET Regions]
    /\ Shipped \in [Regionals -> SUBSET Regions]
    /\ IsFiniteSet(Globals) /\ IsFiniteSet(Regionals) /\ IsFiniteSet(Regions)
    /\ {GlobalSlots, RegionSlots, ServiceSlots} \subseteq Nat \ {0}

VARIABLES
    account,        \* the account being scanned
    stage,          \* of its main goroutine: "start", "probe", "catalog", "join", "resolve"
    kept,           \* regions the preflight kept
    listed,         \* services whose catalog entry was read
    waiting,        \* <<service, region>> that wait for a slot
    running,        \* <<service, region>> that hold one
    queued,         \* regions that wait for a slot
    open,           \* regions that hold one
    globalFree,     \* free slots
    regionFree,
    serviceFree,    \* region -> free slots
    unresolved,     \* resolvers that have not run
    silent          \* history: calls that lost work the scan does not own up to

awsVars == <<account, stage, kept, listed, waiting, running, queued, open, globalFree,
             regionFree, serviceFree, unresolved, silent>>
callVars == <<cancelled, silent>>
slots == <<globalFree, regionFree, serviceFree>>

Tasks == (Globals \X {Everywhere}) \union (Regionals \X Regions)
TaskOf(c) == <<account, c[1], c[2]>>
In(r, tasks) == {c \in tasks : c[2] = r}

AwsInit ==
    /\ account = 1 /\ stage = "start"
    /\ kept = {} /\ listed = {}
    /\ waiting = {} /\ running = {} /\ queued = {} /\ open = {}
    /\ globalFree = GlobalSlots /\ regionFree = RegionSlots
    /\ serviceFree = [r \in Regions |-> ServiceSlots]
    /\ unresolved = {}
    /\ silent = {}

\* Calls are left out without a word.
LeftOut(calls) ==
    /\ silent' = silent \union calls
    /\ UNCHANGED cancelled

CallEnds(call, how) == LeftOut(IF Told(how) THEN {} ELSE {call})

-----------------------------------------------------------------------------
(* The main goroutine of an account. *)

\* The global services are started, and nobody waits for them yet.
StartGlobals ==
    /\ stage = "start" /\ stage' = "probe"
    /\ waiting' = Globals \X {Everywhere}
    /\ UNCHANGED <<callVars, account, kept, listed, running, queued, open, slots, unresolved>>

\* enabledScanRegions: the regions the account has not opted into are dropped,
\* with a notice; when the probe fails all are scanned, with a warning.
ProbeRegions(enabled, how) ==
    /\ stage = "probe" /\ stage' = "catalog"
    /\ kept' = IF how = OK THEN enabled ELSE Regions
    /\ UNCHANGED <<callVars, account, listed, waiting, running, queued, open, slots, unresolved>>

\* buildRegionAvailability: the entries in got are read, the others fail or are
\* refused, which is worth a warning only if nothing came at all.  The catalog is
\* not read for one region.  Then the regions start.
ReadCatalog(got) ==
    /\ stage = "catalog" /\ stage' = "join"
    /\ listed' = IF Scoped /\ Cardinality(kept) > 1 THEN {v \in got : Offered[v] # {}} ELSE {}
    /\ queued' = kept
    /\ UNCHANGED <<callVars, account, kept, waiting, running, open, slots, unresolved>>

\* wg.Wait of the globals and the regions; the resolvers start.
Join ==
    /\ stage = "join" /\ stage' = "resolve"
    /\ waiting \union running = {} /\ queued \union open = {}
    /\ unresolved' = Resolvers
    /\ UNCHANGED <<callVars, account, kept, listed, waiting, running, queued, open, slots>>

\* A resolver and the flush of its edges; an error of either is reported.  Its context is
\* not asked: it runs even when the scan was cancelled.
Resolve(r) ==
    /\ stage = "resolve" /\ r \in unresolved
    /\ unresolved' = unresolved \ {r}
    /\ UNCHANGED <<callVars, account, stage, kept, listed, waiting, running, queued, open, slots>>

\* The next account, which starts from nothing; the last one ends the scan.
NextAccount ==
    /\ stage = "resolve" /\ unresolved = {}
    /\ IF account < Accounts THEN account' = account + 1 /\ stage' = "start"
                             ELSE stage' = "over" /\ UNCHANGED account
    /\ kept' = {} /\ listed' = {}
    /\ UNCHANGED <<callVars, waiting, running, queued, open, slots, unresolved>>

\* Scan reports an error and returns: the accounts cannot be loaded.
LoadFails ==
    /\ stage = "start" /\ account = 1
    /\ stage' = "over"
    /\ UNCHANGED <<callVars, account, kept, listed, waiting, running, queued, open, slots,
                   unresolved>>

-----------------------------------------------------------------------------
(* Where a service is worth a call. *)

\* Mutant of Available: the shipped table is asked first and believed.
AvailableByTable(v, r) ==
    IF v \notin Unlisted THEN r \in Shipped[v] ELSE v \in listed => r \in Offered[v]

\* serviceAvailableInRegion: a source lists the region, or none knows the service.
Available(v, r) ==
    \/ v \notin Unlisted /\ r \in Shipped[v]
    \/ v \in listed /\ r \in Offered[v]
    \/ v \in Unlisted /\ v \notin listed

\* scanRegion: the services that are not offered get a status, the others start.
OpenRegion(r) ==
    /\ r \in queued /\ regionFree > 0
    /\ queued' = queued \ {r} /\ open' = open \union {r}
    /\ regionFree' = regionFree - 1
    /\ LET on == {v \in Regionals : Scoped => Available(v, r)}
       IN  /\ waiting' = waiting \union (on \X {r})
           /\ LeftOut({<<account, v, r>> : v \in {u \in Regionals \ on : r \in Offered[u]}})
    /\ UNCHANGED <<account, stage, kept, listed, running, globalFree, serviceFree, unresolved>>

\* Acquire fails: the region is left out without a word.
DropRegion(r) ==
    /\ r \in queued /\ cancelled
    /\ queued' = queued \ {r}
    /\ LeftOut({<<account, v, r>> : v \in Regionals})
    /\ UNCHANGED <<account, stage, kept, listed, waiting, running, open, slots, unresolved>>

\* wg.Wait of scanRegion.
CloseRegion(r) ==
    /\ r \in open /\ In(r, waiting \union running) = {}
    /\ open' = open \ {r}
    /\ regionFree' = regionFree + 1
    /\ UNCHANGED <<callVars, account, stage, kept, listed, waiting, running, queued, globalFree,
                   serviceFree, unresolved>>

-----------------------------------------------------------------------------
(* A service in a region, or a global one. *)

\* Takes (by = -1) or gives (by = 1) a slot of the lane of call c.
Slot(c, by) ==
    /\ UNCHANGED regionFree
    /\ IF c[2] = Everywhere
       THEN globalFree' = globalFree + by /\ UNCHANGED serviceFree
       ELSE serviceFree' = [serviceFree EXCEPT ![c[2]] = @ + by] /\ UNCHANGED globalFree

FreeFor(c) == IF c[2] = Everywhere THEN globalFree > 0 ELSE serviceFree[c[2]] > 0

ServiceStarts(c) ==
    /\ c \in waiting /\ FreeFor(c)
    /\ waiting' = waiting \ {c} /\ running' = running \union {c}
    /\ Slot(c, -1)
    /\ UNCHANGED <<callVars, account, stage, kept, listed, queued, open, unresolved>>

\* Acquire fails: the service is left out without a word.
ServiceDropped(c) ==
    /\ c \in waiting /\ cancelled
    /\ waiting' = waiting \ {c}
    /\ LeftOut({TaskOf(c)})
    /\ UNCHANGED <<account, stage, kept, listed, running, queued, open, slots, unresolved>>

\* Mutant of ServiceEnds: a service that is off returns before the deferred Release.
ServiceEndsHolding(c, how) ==
    /\ c \in running /\ running' = running \ {c}
    /\ IF "off" \in how THEN UNCHANGED slots ELSE Slot(c, 1)
    /\ CallEnds(TaskOf(c), how)
    /\ UNCHANGED <<account, stage, kept, listed, waiting, queued, open, unresolved>>

ServiceEnds(c, how) ==
    /\ c \in running /\ running' = running \ {c}
    /\ Slot(c, 1)
    /\ CallEnds(TaskOf(c), how)
    /\ UNCHANGED <<account, stage, kept, listed, waiting, queued, open, unresolved>>

-----------------------------------------------------------------------------
AccountStep ==
    \/ StartGlobals
    \/ \E enabled \in SUBSET Regions, how \in {OK, {}} : ProbeRegions(enabled, how)
    \/ \E got \in SUBSET Regionals : ReadCatalog(got)
    \/ Join
    \/ \E r \in Resolvers : Resolve(r)
    \/ NextAccount

RegionStep(r) == OpenRegion(r) \/ DropRegion(r) \/ CloseRegion(r)

TaskStep(c) ==
    \/ ServiceStarts(c) \/ ServiceDropped(c)
    \/ \E how \in Outcomes : ServiceEnds(c, how)

AwsNext ==
    \/ AccountStep \/ LoadFails
    \/ \E r \in Regions : RegionStep(r)
    \/ \E c \in Tasks : TaskStep(c)

AwsOver == stage = "over"

AwsSpec ==
    /\ cancelled = FALSE /\ AwsInit
    /\ [][AwsNext \/ (Cancel /\ UNCHANGED awsVars)]_<<cancelled, awsVars>>

-----------------------------------------------------------------------------
(* Properties. *)

\* Every variable of an AWS scan holds the values the code's types allow.
AwsTypeOK ==
    /\ account \in 1 .. Accounts
    /\ stage \in {"start", "probe", "catalog", "join", "resolve", "over"}
    /\ kept \subseteq Regions /\ listed \subseteq Regionals
    /\ waiting \subseteq Tasks /\ running \subseteq Tasks
    /\ queued \subseteq Regions /\ open \subseteq Regions
    /\ globalFree \in 0 .. GlobalSlots /\ regionFree \in 0 .. RegionSlots
    /\ serviceFree \in [Regions -> 0 .. ServiceSlots]
    /\ unresolved \subseteq Resolvers

\* No slot of the three semaphores is lost or made up, whichever way a service, a
\* region or a whole account ends: a lost one starves the regions queued behind it.
AwsSlotsBalance ==
    /\ globalFree + Cardinality(In(Everywhere, running)) = GlobalSlots
    /\ regionFree + Cardinality(open) = RegionSlots
    /\ \A r \in Regions : serviceFree[r] + Cardinality(In(r, running)) = ServiceSlots

\* Resolvers read what the services wrote: none runs while a service, global or
\* regional, is on its way, though the globals and the regions are started in
\* different places and only one wait is for both.
AwsResolvesLast ==
    stage \in {"resolve", "over"} => waiting \union running = {} /\ queued \union open = {}

\* In a scan that was not cancelled, whatever a service AWS offers did not deliver
\* is named by an error or a warning, with one exception: the shipped table does
\* not list the region and the catalog, that would correct it, was not read.
AwsMissesAreNamed ==
    ~cancelled =>
        \A m \in silent :
            /\ m[2] \in Regionals \ Unlisted /\ m[3] \notin Shipped[m[2]]
            /\ m[1] = account => m[2] \notin listed

\* What holds of an AWS scan at every moment, whatever fails: slots, order, reports.
AwsScanSafe == AwsTypeOK /\ AwsSlotsBalance /\ AwsResolvesLast /\ AwsMissesAreNamed
=============================================================================
