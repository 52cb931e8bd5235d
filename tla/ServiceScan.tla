---------------------------- MODULE ServiceScan ----------------------------
(***************************************************************************)
(* How one service of a provider is scanned: the helpers that nearly all   *)
(* scanners are written with.  They differ in what runs beside what, in    *)
(* when rows are stored, and in what a refusal or a failure costs:         *)
(*   phases    listings beside each other, each page stored as it comes    *)
(*             (azRunPhases, azPageScan; one listing alone is pageScan or  *)
(*             runPaginated)                                               *)
(*   enrich    one listing, a call per item of a page in an errgroup, the  *)
(*             page stored when all are back (pageScanConcurrent)          *)
(*   fanout    an errgroup over regions or resource groups that gathers    *)
(*             everything and stores it in the end (gcpRegionFanoutScanIn, *)
(*             azRGFanoutScan)                                             *)
(*   clusters  one listing after the other into names, then a call per     *)
(*             batch of names that is stored at once (scanECSServices)     *)
(* The cloud answers, refuses or fails; what it holds does not change in   *)
(* between.  An item is one row, listed once: items the caller maps to     *)
(* nothing are left out, and a page may be empty.                          *)
(***************************************************************************)
EXTENDS Integers, Sequences, FiniteSets

CONSTANTS
    Shapes,         \* the shapes that are explored
    Listings,       \* list calls: a scope, region, resource group or cluster each
    Rows,
    Layout,         \* Layout[l]: the pages of a listing, sets of rows
    FanoutSlots     \* the semaphore of a fan-out

ASSUME ServiceAssumption ==
    /\ Shapes \subseteq {"phases", "enrich", "fanout", "clusters"}
    /\ IsFiniteSet(Listings) /\ IsFiniteSet(Rows)
    /\ Layout \in [Listings -> Seq(SUBSET Rows)]
    /\ \A l, k \in Listings : \A i \in DOMAIN Layout[l], j \in DOMAIN Layout[k] :
          l # k \/ i # j => Layout[l][i] \intersect Layout[k][j] = {}
    /\ FanoutSlots \in Nat \ {0}

VARIABLES
    shape,
    only,       \* the listings the service has
    where,      \* listing -> "waiting", "listing", "enriching", "describing", "back"
    taken,      \* listing -> pages dealt with
    asking,     \* rows of a page whose own call is out
    gathered,   \* rows waiting to be stored together
    inStore,
    total,      \* the count the scanner returns
    failed,     \* an error was handed to the errgroup, or kept by azRunPhases
    expired,    \* the context of the service is done (serviceTimeout, or the scan's)
    result,     \* "none" while it runs, "nil", "error"
    givenUp,    \* listing -> the page that was refused and ended it, 0
    skipped,    \* rows whose own call, or the one for their batch, was refused
    refusals    \* listing -> refused list calls, 0, 1 or more

serviceVars == <<shape, only, where, taken, asking, gathered, inStore, total, failed, expired,
                 result, givenUp, skipped, refusals>>

ServiceInit ==
    /\ shape \in Shapes
    /\ only \in SUBSET Listings \ {{}}
    /\ shape = "enrich" => Cardinality(only) = 1
    /\ where = [l \in Listings |-> IF l \notin only THEN "back"
                                   ELSE IF shape \in {"phases", "enrich"} THEN "listing"
                                   ELSE "waiting"]
    /\ taken = [l \in Listings |-> 0]
    /\ asking = {} /\ gathered = {} /\ inStore = {} /\ skipped = {}
    /\ total = 0
    /\ failed = FALSE /\ expired = FALSE
    /\ result = "none"
    /\ givenUp = [l \in Listings |-> 0]
    /\ refusals = [l \in Listings |-> 0]

Is(s, l, place) == shape = s /\ result = "none" /\ where[l] = place
More(l) == taken[l] < Len(Layout[l])
Page(l) == Layout[l][taken[l] + 1]
Puts(l, place) == where' = [where EXCEPT ![l] = place]
Passes(l) == taken' = [taken EXCEPT ![l] = @ + 1]
Back(ls) == \A l \in ls : where[l] = "back"

\* UpsertResources and RecordHierarchyBatch.  "unlinked": the rows are stored and
\* counted, the pairs are not.  "lost": stored, and the call failed all the same.
Ways == {"done", "unlinked", "lost", "failed"}

Upsert(rows, how) ==
    /\ rows = {} => how = "done"
    /\ inStore' = IF how = "failed" THEN inStore ELSE inStore \union rows
    /\ total' = IF how \in {"done", "unlinked"} THEN total + Cardinality(rows) ELSE total

-----------------------------------------------------------------------------
(* What a list call can come to beside a page, whatever is done with pages. *)

Lists(l) == result = "none" /\ where[l] = "listing" /\ More(l)

\* Refused, or any answer that is taken for a refusal: a warning, and the listing
\* is over without an error (skipIfAccessDenied, skipIfDenied).
ListingRefused(l) ==
    /\ shape # "clusters"
    /\ Lists(l) /\ ~expired
    /\ Puts(l, "back")
    /\ givenUp' = [givenUp EXCEPT ![l] = taken[l] + 1]
    /\ refusals' = [refusals EXCEPT ![l] = 1]
    /\ result' = IF shape = "enrich" THEN "nil" ELSE result
    /\ UNCHANGED <<shape, only, taken, asking, gathered, inStore, total, failed, expired, skipped>>

\* Any other error, that of a context which is done and the answer that the whole
\* service is disabled among them.  A loop returns it; a group waits for the others.
CallFails(l) ==
    /\ Lists(l) \/ (result = "none" /\ where[l] = "describing" /\ More(l))
    /\ Puts(l, "back")
    /\ failed' = TRUE
    /\ result' = IF shape \in {"enrich", "clusters"} THEN "error" ELSE result
    /\ UNCHANGED <<shape, only, taken, asking, gathered, inStore, total, expired, givenUp,
                   skipped, refusals>>

ListingEnds(l) ==
    /\ shape \in {"phases", "fanout"}
    /\ result = "none" /\ where[l] = "listing" /\ ~More(l)
    /\ Puts(l, "back")
    /\ UNCHANGED <<shape, only, taken, asking, gathered, inStore, total, failed, expired, result,
                   givenUp, skipped, refusals>>

-----------------------------------------------------------------------------
(* phases *)

\* A page is stored as it comes; a phase that fails does not stop the others.
PhasePage(l, how) ==
    /\ shape = "phases"
    /\ Lists(l) /\ ~expired
    /\ Upsert(Page(l), how)
    /\ IF how = "done" THEN Passes(l) /\ UNCHANGED <<where, failed>>
                       ELSE Puts(l, "back") /\ failed' = TRUE /\ UNCHANGED taken
    /\ UNCHANGED <<shape, only, asking, gathered, expired, result, givenUp, skipped, refusals>>

PhasesJoin ==
    /\ shape = "phases" /\ result = "none"
    /\ Back(only)
    /\ result' = IF failed THEN "error" ELSE "nil"
    /\ UNCHANGED <<shape, only, where, taken, asking, gathered, inStore, total, failed, expired,
                   givenUp, skipped, refusals>>

-----------------------------------------------------------------------------
(* enrich *)

EnrichPage(l) ==
    /\ shape = "enrich"
    /\ Lists(l) /\ ~expired
    /\ IF Page(l) = {} THEN Passes(l) /\ UNCHANGED <<where, asking>>
                       ELSE Puts(l, "enriching") /\ asking' = Page(l) /\ UNCHANGED taken
    /\ UNCHANGED <<shape, only, gathered, inStore, total, failed, expired, result, givenUp,
                   skipped, refusals>>

\* The call for one row: it is gathered, dropped without an error when refused, or its
\* error ends the context of the others, whose answers may still be on their way.
Enrich(x, how) ==
    /\ x \in asking
    /\ expired => how = "failed"
    /\ asking' = asking \ {x}
    /\ gathered' = IF how = "row" THEN gathered \union {x} ELSE gathered
    /\ skipped' = IF how = "refused" THEN skipped \union {x} ELSE skipped
    /\ failed' = (failed \/ how = "failed")
    /\ UNCHANGED <<shape, only, where, taken, inStore, total, expired, result, givenUp, refusals>>

EnrichJoin(l, how) ==
    /\ Is("enrich", l, "enriching") /\ asking = {}
    /\ IF failed THEN how = "done" /\ UNCHANGED <<inStore, total>>
                 ELSE how # "unlinked" /\ Upsert(gathered, how)
    /\ IF ~failed /\ how = "done"
       THEN Passes(l) /\ Puts(l, "listing") /\ UNCHANGED result
       ELSE result' = "error" /\ Puts(l, "back") /\ UNCHANGED taken
    /\ gathered' = {}
    /\ UNCHANGED <<shape, only, asking, failed, expired, givenUp, skipped, refusals>>

EnrichEnds(l) ==
    /\ Is("enrich", l, "listing") /\ ~More(l)
    /\ result' = "nil"
    /\ Puts(l, "back")
    /\ UNCHANGED <<shape, only, taken, asking, gathered, inStore, total, failed, expired, givenUp,
                   skipped, refusals>>

-----------------------------------------------------------------------------
(* fanout *)

FanoutAcquires(l) ==
    /\ Is("fanout", l, "waiting")
    /\ Cardinality({k \in only : where[k] = "listing"}) < FanoutSlots
    /\ Puts(l, "listing")
    /\ UNCHANGED <<shape, only, taken, asking, gathered, inStore, total, failed, expired, result,
                   givenUp, skipped, refusals>>

\* Mutant of FanoutDropped: a goroutine that gets no slot returns nil.
FanoutDroppedQuietly(l) ==
    /\ Is("fanout", l, "waiting")
    /\ failed \/ expired
    /\ Puts(l, "back")
    /\ UNCHANGED <<shape, only, taken, asking, gathered, inStore, total, failed, expired, result,
                   givenUp, skipped, refusals>>

\* The context of the group is done while a goroutine waits for its slot.
FanoutDropped(l) ==
    /\ Is("fanout", l, "waiting")
    /\ failed \/ expired
    /\ Puts(l, "back")
    /\ failed' = TRUE
    /\ UNCHANGED <<shape, only, taken, asking, gathered, inStore, total, expired, result, givenUp,
                   skipped, refusals>>

FanoutPage(l) ==
    /\ shape = "fanout"
    /\ Lists(l) /\ ~expired
    /\ gathered' = gathered \union Page(l)
    /\ Passes(l)
    /\ UNCHANGED <<shape, only, where, asking, inStore, total, failed, expired, result, givenUp,
                   skipped, refusals>>

\* An error of one drops what all have gathered.
FanoutJoin(how) ==
    /\ shape = "fanout" /\ result = "none"
    /\ Back(only)
    /\ IF failed THEN how = "done" /\ UNCHANGED <<inStore, total>>
                 ELSE Upsert(gathered, how)
    /\ result' = IF failed \/ how # "done" THEN "error" ELSE "nil"
    /\ gathered' = {}
    /\ UNCHANGED <<shape, only, where, taken, asking, failed, expired, givenUp, skipped, refusals>>

-----------------------------------------------------------------------------
(* clusters *)

ClusterStarts(l) ==
    /\ Is("clusters", l, "waiting")
    /\ \A k \in only : where[k] \in {"waiting", "back"}
    /\ Puts(l, "listing")
    /\ UNCHANGED <<shape, only, taken, asking, gathered, inStore, total, failed, expired, result,
                   givenUp, skipped, refusals>>

ClusterPage(l) ==
    /\ shape = "clusters"
    /\ Lists(l) /\ ~expired
    /\ Passes(l)
    /\ UNCHANGED <<shape, only, where, asking, gathered, inStore, total, failed, expired, result,
                   givenUp, skipped, refusals>>

\* The refusal is followed by `continue': the paginator stands where it stood.
ClusterRefused(l) ==
    /\ shape = "clusters"
    /\ Lists(l) /\ ~expired
    /\ refusals' = [refusals EXCEPT ![l] = IF @ = 2 THEN 2 ELSE @ + 1]
    /\ UNCHANGED <<shape, only, where, taken, asking, gathered, inStore, total, failed, expired,
                   result, givenUp, skipped>>

\* The names are complete; they are described batch by batch.
ClusterListed(l) ==
    /\ Is("clusters", l, "listing") /\ ~More(l)
    /\ Puts(l, "describing")
    /\ taken' = [taken EXCEPT ![l] = 0]
    /\ UNCHANGED <<shape, only, asking, gathered, inStore, total, failed, expired, result, givenUp,
                   skipped, refusals>>

Describe(l, how) ==
    /\ Is("clusters", l, "describing") /\ More(l) /\ ~expired
    /\ how # "unlinked" /\ Upsert(Page(l), how)
    /\ Passes(l)
    /\ IF how = "done" THEN UNCHANGED <<where, result>>
                       ELSE Puts(l, "back") /\ result' = "error"
    /\ UNCHANGED <<shape, only, asking, gathered, failed, expired, givenUp, skipped, refusals>>

\* `break': the other batches of the cluster are left out.
DescribeRefused(l) ==
    /\ Is("clusters", l, "describing") /\ More(l) /\ ~expired
    /\ skipped' = skipped \union UNION {Layout[l][i] : i \in taken[l] + 1 .. Len(Layout[l])}
    /\ Puts(l, "back")
    /\ UNCHANGED <<shape, only, taken, asking, gathered, inStore, total, failed, expired, result,
                   givenUp, refusals>>

ClusterEnds(l) ==
    /\ Is("clusters", l, "describing") /\ ~More(l)
    /\ Puts(l, "back")
    /\ UNCHANGED <<shape, only, taken, asking, gathered, inStore, total, failed, expired, result,
                   givenUp, skipped, refusals>>

ClustersEnd ==
    /\ shape = "clusters" /\ result = "none"
    /\ Back(only)
    /\ result' = "nil"
    /\ UNCHANGED <<shape, only, where, taken, asking, gathered, inStore, total, failed, expired,
                   givenUp, skipped, refusals>>

-----------------------------------------------------------------------------
\* serviceTimeout runs out, or the scan is cancelled.
Expire ==
    /\ result = "none" /\ ~expired
    /\ expired' = TRUE
    /\ UNCHANGED <<shape, only, where, taken, asking, gathered, inStore, total, failed, result,
                   givenUp, skipped, refusals>>

ListingStep(l) ==
    \/ ListingRefused(l) \/ CallFails(l) \/ ListingEnds(l)
    \/ EnrichPage(l) \/ EnrichEnds(l)
    \/ FanoutAcquires(l) \/ FanoutDropped(l) \/ FanoutPage(l)
    \/ ClusterStarts(l) \/ ClusterPage(l) \/ ClusterRefused(l) \/ ClusterListed(l)
    \/ DescribeRefused(l) \/ ClusterEnds(l)
    \/ \E how \in Ways : PhasePage(l, how) \/ EnrichJoin(l, how) \/ Describe(l, how)

RowStep(x) == \E how \in {"row", "refused", "failed"} : Enrich(x, how)

JoinStep == PhasesJoin \/ ClustersEnd \/ \E how \in Ways : FanoutJoin(how)

ServiceNext ==
    \/ Expire \/ JoinStep
    \/ \E l \in only : ListingStep(l)
    \/ \E x \in asking : RowStep(x)

ServiceSpec == ServiceInit /\ [][ServiceNext]_serviceVars

-----------------------------------------------------------------------------
(* Properties *)

\* A scanner that returns without an error has read everything: every row is stored,
\* or it was refused itself, or its listing was refused on its page or an earlier
\* one.  What a sibling's error, the deadline or a missing slot kept from being read
\* or stored must come back as an error, or the scan would count it as not there.
NilMeansAllRead ==
    result = "nil" =>
        \A l \in only : \A i \in DOMAIN Layout[l] : \A x \in Layout[l][i] :
            x \in inStore \/ x \in skipped \/ givenUp[l] \in 1 .. i

\* The count a scanner returns is of rows it stored, all of them unless it failed.
CountIsOfStored ==
    /\ total <= Cardinality(inStore)
    /\ result = "nil" => total = Cardinality(inStore)

\* What a scanner returns, an error or none and a count, is true of the store.
ServiceResultIsTrue == NilMeansAllRead /\ CountIsOfStored

\* A refusal is an answer: the list call that was refused is not made again, so that
\* a scan goes on with what it may read (skipIfAccessDenied).
RefusalsAreFinal == \A l \in Listings : refusals[l] < 2
=============================================================================
