# disco-cli: a verification project

`disco` scans AWS, Azure and GCP accounts and keeps what it finds in one
database (SQLite on a laptop, Postgres on a server): resources as version
chains, edges between them, a hierarchy closure, quotas, policy findings, and
one row per scan run. The scanners and resolvers of three providers run as
goroutines that share one `store.Store`; on Postgres several processes may
share one database.

The parts where order, concurrency and failure decide the outcome are modelled
here in TLA+, model-checked with TLC on small instances, and the invariants
that matter most are proved with TLAPS for every value of the constants.

* [1. Inventory](#1-inventory)
* [2. Modules](#2-modules)
* [3. Runs: what is checked](#3-runs-what-is-checked)
* [4. Theorems: what is proved](#4-theorems-what-is-proved)
* [5. What the runs refute](#5-what-the-runs-refute)
* [6. Assumptions and limits](#6-assumptions-and-limits)
* [7. Not modelled, and why](#7-not-modelled-and-why)
* [8. Plan](#8-plan)

## 1. Inventory

Paths are relative to `src/`.

**Resource version chains** (`store/resources_upsert.go`,
`resources_archive.go`, `resources_versioning.go`).
State: the table `resources` (one row per version; `root_id` from the natural
key, `previous_version_id`, `superseded_by`, `discovered_by`, `verified_by`,
`deleted_at`, `reference_only`; a unique index allows one row per natural key
with `superseded_by IS NULL`) and the counters `upsertNew`, `upsertChanged`.
Operations: `UpsertResources` (a scanner's page: verify the current version in
place, split it, or insert a root), `InsertResourcesIfAbsent` (a resolver's
placeholders), `ArchiveResource` (a tombstone version), `RestoreResource`,
`GetResourceVersions`, `TypesForScan`.
Hard: on Postgres transactions interleave at READ COMMITTED and the lookup
takes no lock, so every decision rests on a row that may be superseded by the
time it is used; connections die before, during and after a commit, and
`withWriteRetry` repeats the transaction; pages lock rows in their own order.
Correct when: one current row per resource; chains linked, unbranched, in id
order; history frozen; a split means a change; a committed sighting is visible;
counters count rows; every call returns.

**Native id sightings** (`noteNativeIDType` in `store/resources_upsert.go`).
State: a map from native id to the last type seen, shared by the process.
Operation: load, warn if the type differs, store. Hard: two steps of concurrent
scanners, and a map that outlives a scan. Correct when: it warns of what one
scan did, and misses a merge only when calls overlapped.

**Write retry** (`store/retry.go`). State: `writeFailStreak`, shared by all
scoped copies of a store. Operation: `withWriteRetry`, backoff and a circuit
breaker. Hard: concurrent writers race on the streak; a commit may have been
applied although its answer was lost. Correct when: a repeated transaction
writes nothing twice, a doomed write fails fast.

**Relationships and edge buffers** (`store/relationships.go`, `store/store.go`).
State: the table `relationships`, a buffer per resolver. Operations:
`UpsertRelationship`, `UpsertRelationships`, `BeginRelBuffer`,
`FlushRelBuffer`. Hard: the flush empties the buffer before it writes; two
flushes lock rows in opposite orders; UPDATE-then-INSERT leaves a gap between.
Correct when: an edge reported is stored or its loss is, an old edge is
refreshed, every writer ends.

**Hierarchy** (`store/relationships.go`, `gcp/gcp_hierarchy.go`,
`azure/management_scanners.go`). State: `hierarchy_closure` and the `contains`
edges. Operations: `RecordHierarchy`, `RecordHierarchyBatch`; a GCP scan calls
it node by node and then from every service, Azure once at the end. Hard: the
closure is built pair by pair from what the parent has at that moment, in the
order the callers choose; parents may be denied; folders move between scans.
Correct when: nothing in the closure is invented, and repeated scans complete it.

**Scan records** (`store/scans.go`, `store/dialect.go`). State: the table
`scans`. Operations: `CreateScanWithID` (an upsert), `CompleteScan`,
`PartialScan`, `FailScan`, `AppendScanError`, `AppendScanWarning`,
`ScanResourceCount`, `LatestIncompleteScan`, `LatestCompleteScan`. Hard:
finalisation is many statements, each of which can fail; on SQLite an append is
a read and a write; rows are resumed and taken over. Correct when: no report is
lost, the status says what happened, the finish is not before the start, the
count is of resources, neither of versions nor of listings.

**Scan run** (`internal/scanrun/scanrun.go`) and **scan command**
(`cmd/scan.go`, `main.go`). State: the run's errors and warnings, the callbacks
it chains onto the shared store, its context. Operations: `Allocate`,
`startOrResumeScan`, `RunScanners`, `Finalize`, `persistWarnings`,
`evaluateIfOlderThan`. Hard: providers in parallel, cancellation (first
SIGINT), death (second SIGINT, crash), resume, several runs on one store.
Correct when: "completed" means that everything ran and nothing failed; a row
left "running" had a run that died; callbacks do not outlive their run.

**Dispatchers** (`internal/providers/{aws,azure,gcp}/*_scanner.go`). State:
goroutines, semaphores, phase gates, what was reported. Operations: a scan phase
(services under a semaphore and a deadline), API resolvers, a resolver phase.
AWS takes one account after the other, with global services beside a preflight
that picks regions; GCP runs all projects at once between the services and the
resolvers of the organization; Azure adds a tenant phase beside the
subscriptions, a probe that may refuse a subscription, and a final stitch of
the hierarchy. Hard: cancellation while waiting for a slot, panics, a gate that
everybody waits for, one wait for what two places started. Correct when: every
scan ends, slots balance, resolvers run after what they read was written, a scan
that says nothing left nothing out.

**Scanners of services** (`internal/providers/*/..._scanners.go`), made of
helpers: `pageScan`, `pageScanConcurrent` (AWS), `azRunPhases`, `azPageScan`,
`azRGFanoutScan` (Azure), `runPaginated`, `forEachItem`, `gcpRegionFanoutScanIn`
(GCP). State: what was gathered, what was stored, the count. Hard: what the
failure or refusal of one call costs its siblings and what the caller is told.
Correct when: no error means that everything was read.

**Azure credential** (`azure/wif.go`, `azure/azure_credential.go`). State: a
stamp, when the streak of propagation failures began, shared by all keys.
Operation: `GetToken`, one flight per key, with retries. Hard: the stamp is
swapped and loaded in two steps. Correct when: it gives up neither early nor late.

**Quotas** (`store/quotas.go`). Version chains like those of resources, without
archive and placeholders. Operation: `UpsertQuotas`. Hard: a split marks the row
it looked up, which a sibling may have superseded since; only the unique index
stops it then. Correct when: chains are linear, what is verified is what was read, the limits
read are on record, the count returned is of rows.

**Graph queries, paged reads** (`store/graph.go`, `store/resources.go`). No
state of their own; `GraphWalk` and `GraphPath` search in layers under caps,
`loadAllResourcesPaged` reads by OFFSET a table that may change. Correct when:
they agree with distances in the graph; a page boundary loses only what moved.

**Migrations** (`store/migrate.go`, `migrate_pg.go`). State:
`schema_migrations`. Operation: open. Hard: nothing serialises two openers.
Correct when: a body takes effect once, and the highest version on record
implies those below.

**SDK snapshot cache** (`internal/sdkinv/cache.go`). State: a directory per
provider, with a manifest. Operation: `Ensure`. Hard: processes that fetch,
remove and rename beside each other and are killed. Correct when: a manifest
means a whole snapshot; one that could fetch leaves one.

**The rest**: findings, scan diff, the Postgres pool and IAM tokens, redaction,
volatile fields, managed types, snapshots, coverage and SDK inventories, policy
packs, command output; see section 7.

How they interact: `cmd/scan.go` allocates a scan row and calls
`scanrun.RunScanners`, which installs callbacks on the store and calls the
dispatchers; the dispatchers start services that call `UpsertResources` and
report through the callbacks; resolvers read the rows and write placeholders
and edges, which the dispatcher flushes; `Finalize` turns what was reported
into columns of the scan row. `Cancel` reaches all of them through one context.

## 2. Modules

| module | models | in |
|---|---|---|
| `VersionChain` | the transactions that write `resources`, statement by statement | `store/resources_*.go`, `store/retry.go` |
| `VersionChainInv`, `VersionChainProofs` | the inductive invariant and its proof | |
| `ResourceHistory` | the abstract promise: per resource a list of contents and what the last writer said | doc comments of `store` |
| `VersionChainRefinement` | the table mapped to that history | |
| `WriteRetry` | `withWriteRetry`: attempts, pauses, streak, circuit | `store/retry.go` |
| `WriteBreaker` | the same watched through an outage | |
| `EdgeBuffer` | buffers, flushes and direct writes of edges, under `WriteRetry` | `store/relationships.go`, `store/store.go` |
| `EdgeBufferProofs` | the inductive invariant of flushes and its proof | |
| `QuotaChain` | `UpsertQuotas` statement by statement, under `WriteRetry` | `store/quotas.go` |
| `HierarchyClosure` | the transactions of `RecordHierarchyBatch` | `store/relationships.go` |
| `HierarchyScan` | who records pairs, in which order, scan after scan | `gcp/gcp_hierarchy.go`, `azure/management_scanners.go` |
| `HierarchyClosureProofs`, `HierarchyScanProofs` | the proofs of both, and that the second implements the first | |
| `GraphWalk`, `PagedRead` | the searches, layer by layer; the reads, page by page | `store/graph.go`, `store/resources.go` |
| `Migrations` | openers of one database | `store/migrate.go`, `migrate_pg.go` |
| `TypeSightings` | the detector of merged types | `store/resources_upsert.go` |
| `SdkCache` | `Ensure` in several processes | `internal/sdkinv/cache.go` |
| `StorePartsProofs` | the proofs of `WriteBreaker`, `Migrations`, `PagedRead`, `TypeSightings`, `SdkCache`, `GraphWalk`, `QuotaChain` | |
| `ScanLifecycle` | scan rows, runs, processes | `store/scans.go`, `scanrun.go`, `cmd/scan.go` |
| `ScanLifecycleInv`, `ScanLifecycleProofs` | its inductive invariant and proof | |
| `AzureDispatch`, `AzureDispatchProofs` | the goroutines of one Azure scan | `azure/azure_scanner.go`, `tenant_scanners.go` |
| `ScanCalls` | what the AWS and the GCP dispatcher share: context, outcomes, reports | `aws/aws_errors.go`, `gcp/gcp_scanner.go` |
| `AwsDispatch` | the goroutines of one AWS scan | `aws/aws_scanner.go`, `aws_region_availability.go` |
| `GcpDispatch` | the goroutines of one GCP scan | `gcp/gcp_scanner.go`, `gcp_registry.go`, `gcp_scan_helpers.go` |
| `ServiceScan` | the scan of one service, in the shapes the helpers give it | `*_scan_helpers.go`, `aws/ecs_scanners.go` |
| `TokenRetry` | the retry of a federated credential | `azure/wif.go`, `azure_credential.go` |
| `ProviderScanProofs` | the proofs of `AwsDispatch`, `GcpDispatch`, `ServiceScan`, `TokenRetry` | |
| `MCVersionChain`, `MCScanLifecycle`, `MCServiceScan` | values for the constants of one module | |
| `MCAzureEdges`, `MCStoreParts`, `MCProviderScans` | several parts, one per behaviour | |

Where components share state they are composed: `EdgeBuffer` and `QuotaChain`
extend `WriteRetry` and conjoin their transactions with its attempts;
`HierarchyScan` extends `HierarchyClosure`; `AwsDispatch` and `GcpDispatch`
extend `ScanCalls`. The others meet at values: a service of a dispatcher or of
`ScanLifecycle` is what a writer of `VersionChain` works for, and the outcomes
of a service in `ScanLifecycle` (done, warned, failed, missed) are those a
dispatcher can produce. The three `MC` modules with several parts compose
nothing: `part` is chosen in the initial state and only that part moves, so that
the state spaces of small parts add up in one run.

### VersionChain

`table` is what is committed, `pend[w]` what writer `w` has written and not
committed; a statement of `w` sees `View(w)`, its own rows over the committed
ones. The program counter `phase[w]` walks through one call:

| action | code |
|---|---|
| `Call`, `Return` | entry and exit of the four operations |
| `BeginTx` | `withWriteRetry` starts an attempt; on SQLite it waits for the one connection |
| `DrawId` | `uuid.NewV7()`, after the lookup and before the statement that uses the id is sent |
| `UpsertLookup` | `SELECT` of the current version and the comparison by `jsonEqual`: insert, verify or split |
| `InsertRoot` | `INSERT ... ON CONFLICT DO NOTHING` of a new root or a placeholder |
| `Verify` | `UPDATE` of the current version in place |
| `Supersede`, `InsertVersion` | the two statements of a split |
| `ArchiveLookup` | the lookup of `archiveOnTx`, then the same split |
| `Commit`, `CommitAckLost` | commit; the answer may be lost after it was applied |
| `ConnectionLost`, `StatementFails`, `DeadlockVictim` | the ways a transaction ends otherwise; `RetryOrGiveUp` decides |
| `Publish` | the counters are added after the commit |
| `Restore` | `RestoreResource`, one statement |

A row keeps what the properties tell apart: `content` is type, attributes and
tags; `ver` stands for every column the verify path rewrites. Row ids are
UUIDv7s, numbers that grow with the moment they are drawn (`Fresh`). The draw is
a step of its own (`DrawId`): the `UPDATE` of `Supersede` and the `INSERT` of
`InsertRoot` may have to wait after it, while siblings draw later ids and commit
them. That gap is what `VersionsInOrder` and the refinement are about; an id
drawn before the lookup, or a random one, breaks them (`BeginTxWithId`,
`DrawIdAtRandom`). Locks are Postgres's: an update waits for the row, an insert waits for
every uncommitted change that could decide whether its key is taken
(`KeyFree`), and after the wait a statement applies to the newest committed
row. With `SerialWriters` a transaction starts only when no other is open.

### WriteRetry, EdgeBuffer, QuotaChain

`call[w]` is one `withWriteRetry`: it reads the streak once (`CallStarts`,
`AttemptsAllowed`), its attempts end in `AttemptSucceeds`, `AttemptFails`
(connection: pause or exhaust), `AttemptLost` (the same, after the server
applied the write) or `AttemptRefused` (a statement's error, not retried), and
the streak is reset in a step of its own (`CloseCircuit`).

`EdgeBuffer`: `Emit` is a resolver that fills its buffer, whole or up to an
error; `FlushStarts` takes the buffer, which is empty from then on;
`UpdateEdge` and `InsertEdge` are the pair of statements per edge, with row
locks in `held`; `Commit`, `CommitLost`, `ConnectionFails` and `DeadlockVictim`
end the transaction; `FlushReturns` is where the dispatcher reports. `Direct`
writers are scanners, whose statements commit one by one.

`QuotaChain`: `Upsert` starts a call with limits read earlier, of all that the
provider has reported so far (`limits`), `Move` is the provider changing one;
lookup, verify, mark and insert are the statements. A batch is what the pages of
`scanServiceQuotas` add up to, which is not deduplicated
(`aws/servicequotas_scanners.go:168`), so it may repeat a quota, with one limit
or two. `currentQuota` runs in the transaction: an item that comes again finds
the row an earlier item inserted (`Mine`, `Own`), which has a number only when
the transaction commits (`Placed`). `applied` and `outraced` are history
variables for what a call returns.

### HierarchyClosure, HierarchyScan

A transaction of `RecordHierarchyBatch` is `BatchStarts`, one `RecordPair` per
pair and `BatchCommits` or `BatchFails`. A pair gives the child a row for itself
and one per ancestor its parent has in the transaction's view, and a `contains`
edge if both ends are stored resources, otherwise `missing`, the warning.
`HierarchyScan` says who starts them: `StoreNode`, `RecordNode` walk GCP's
organizations, folders and projects in any order the code may choose,
`StoreResource`, `RecordResource` are the services beside each other, `Stitch`
is Azure's one batch, shallowest first (`EntityOrders`); reads may be denied,
writes may fail, and between scans `Move` turns the cloud's tree into another.

### ScanLifecycle

`scans` is the table, `phase[r]` where a run is: `Gate` (`--if-older-than`),
`CreateScan`, `ResumeLatest` or `ResumeNamed`, `Launch` (callbacks on the
store), then for each service `ServiceDone`, `ServiceFails` or `ServiceMissed`
(the context ended while it waited for a slot), `ScannerFails`, `Collect`
(callbacks off, `ctx.Err()` read), and `Finalize` as its statements: `Mark`
(status, error and count), `ReadCount`, one append per entry (`AppendJsonb` on
Postgres, `AppendRead` and `AppendWrite` on SQLite), `AppendFails`, `Finish`.
`Cancel` is the first SIGINT, `Kill` ends a process with all its runs,
`StoreFails` a database that is gone. Of what the services write the versions of
each resource are kept, with `verified_by` of each: a listing stamps the current
version or adds one (`Lists`), and `resource_count` is taken of those that are
not superseded (`Current`). `saw` and `taken` are history variables: what a scan
has listed, and what another scan has listed since.

### The dispatchers

`AzureDispatch`: `main` is `scanWithCredential`: `ResolveTenant`, the fan-out,
`Join` (`wg.Wait`), `Stitch`. The tenant goroutine is `Account`,
`TenantService` in order of registration, `TenantPanics`, `CloseEntra` (the
deferred `close(entraDone)`). A subscription is `Acquire`, `Probe` (the list of
resource groups and the probe of the providers, whose results decide together
whether the subscription is refused), the services (`ServiceStarts`,
`ServiceEnds`, `ServicePanics`), `ApiResolve`, `WaitForTenant`, `Resolve`,
`SubEnds`. `wif` is the federation contract: without one everything runs; with
one only the Graph services do, and only when a directory is named. Of what is
written the model keeps the built-in definitions, which either the tenant
service or every subscription stores, depending on the tenant id.

`AwsDispatch`: `stage` is the main goroutine of an account: `StartGlobals`,
`ProbeRegions` (`enabledScanRegions`), `ReadCatalog`
(`buildRegionAvailability`), `Join`, `Resolve`, `NextAccount`. Regions are
`OpenRegion`, `DropRegion`, `CloseRegion`, services `ServiceStarts`,
`ServiceDropped`, `ServiceEnds`. `Available` is `serviceAvailableInRegion` over
the shipped table and the catalog.

`GcpDispatch`: `at` is the main goroutine: `HierarchyDone`, `OrgService`,
`StartProjects`, `JoinProjects`, `StartRound` and `RunResolver` per scope,
`GcpEnds`.

What a call ends with is a set of things that may be true of its error at once
(`Outcomes`): a database that drops its connection looks like a network error.
`Ladder` is the order in which the code asks, `Told` whether the answer owns up
to what is missing. `silent` in `AwsDispatch` is a history variable, work that
was lost and that no error and no warning names; `scanned` and `resolved` in
`GcpDispatch` are the opposite, what has run or is named. An error of GCP is of
one kind (`GcpOutcomes`), so that the ladder of the organization, which does not
ask for failed writes, comes to the same answers. `GcpFails` is one error of
`loadProjects` or `scanHierarchy`: one project or folder that does not answer or
is not stored (`gcp/gcp_hierarchy.go:55`, `:90`) ends the scan of GCP before any
service has run.

### ServiceScan

`shape` picks the helper: `phases` (listings beside each other, stored page by
page), `enrich` (a call per item of a page in an errgroup), `fanout` (regions or
resource groups that gather everything and store it at the end), `clusters`
(`scanECSServices`, written by hand). Calls answer, are refused or fail; the
deadline passes. The list of regions or resource groups itself is taken as
given (`only`).

### GraphWalk, PagedRead, Migrations, TypeSightings, SdkCache, TokenRetry

Small modules, whose actions carry the names of the steps: a layer of a
search, a page, one statement of an opener, a load or a store of the shared map,
one system call of a fetch, one atomic operation on the stamp.

## 3. Runs: what is checked

Each passing run answers a question of its own; each property was seen to fail
when the definition it guards is changed the way a bug would change it (the
operators named as mutants in the modules).

| run | instance | shows |
|---|---|---|
| `vc_postgres` | 2 writers, 1 resource, 2 contents, 4 rows, 2 attempts | statement-level interleaving with lost connections and lost commit answers: `OneCurrentRow`, `ChainsLinked`, `NoDoubleTombstone`, `CountersMatchRows`, `HistoryFrozen`, `SplitMeansChange`, `PopulatedStays` |
| `vc_sqlite` | one connection, 2 scans, 2 resources, 3 contents, pages that repeat a resource | what only serial transactions give: `ScannedNotPlaceholder`, `SightingLands` |
| `vc_crosslocks` | 2 pages that list 2 resources in opposite orders, fairness | deadlocks happen, and every call still returns (`CallsReturn`) |
| `vc_refines` | 2 resources, 3 rows, ids drawn before the statement that waits | `ImplementsHistory`: the transactions implement the abstract history; `StoreInv`, the invariant of the proofs |
| `sl_shared` | 2 processes that may share a row, 2 providers of one service, a warning cap of 1, one row and one time | `CompletedMeansClean`, `OrphanHasCause`, `ReportsLand` |
| `sl_sqlite` | 2 runs one after the other in one process, 2 rows, 2 times, one service with 2 versions of what it lists, a warning cap of 0 | `ScanInv`; `ReportsLand` with the two-statement append, `NoDanglingSink` |
| `azure_edges` | the Azure dispatcher with 2 subscriptions for 1 slot, 2 services for 1 slot, 2 tenant services; or the edges of 3 writers in pairs, 2 edges, 3 attempts, a circuit that trips at 1 | `DispatchInv`, `QuietMeansComplete`, `ScanEnds`; `EdgesStoredOrReported`, `RefreshLands`, `WritersFinish` |
| `store_parts` | seven parts of the store, bounds below | `BreakerBoundsRetries`, `QuotasAreHonest`, `WalksAreTrue`, `MigrationsAreWhole`, `PagesAreTrue`, `SightingsAreTrue`, `CacheIsUsable`, `PartsSettle` |
| `provider_scans` | five parts of the providers, bounds below | `AwsScanSafe`, `GcpScanSafe`, `ServiceResultIsTrue`, `ClosureIsTrue`, `ConvergesWithDepth`, `RecordedIsLinked`, `ScanEnds`, `GivesUpInTime` |

The properties, in words:

* `OneCurrentRow`: a resource with rows has exactly one that is not superseded.
* `ChainsLinked`: `previous_version_id` and `superseded_by` are inverse links
  within one resource. (`VersionsInOrder`: the order `GetResourceVersions` sorts
  by is the order of the chain. It is a part of `IInv`, hence of `StoreInv`, and a theorem.)
* `HistoryFrozen`: no step removes a row or rewrites a superseded version's
  content or links.
* `SplitMeansChange`: a new version differs from its predecessor or is a
  tombstone. `NoDoubleTombstone`: a tombstone never follows a tombstone.
* `PopulatedStays`: a resolver's placeholder never replaces a scanned version.
  `SightingLands`, `ScannedNotPlaceholder`: after a scanner's commit the current
  row is that sighting, not deleted and not a placeholder.
* `CountersMatchRows`: without a lost commit answer the counters are the
  numbers of roots and versions.
* `CompletedMeansClean`, `OrphanHasCause`, `ReportsLand`, `NoDanglingSink`: see
  the inventory; `ReportsLand` includes the announced surplus when warnings
  exceed the cap. `ScanInv` holds besides that no row finishes before it starts,
  through takeovers at a later time, and that the recorded count is of resources
  (`CountIsOfResources`): at most those the scan listed, in however many versions,
  and no fewer than those that no other scan has listed since. The second scan of
  `sl_sqlite` may stamp the resource again between the end of the first one's
  services and its count, which then is one lower, or after it.
* `DispatchInv`: slots balance, nothing of a scan runs when the hierarchy is
  stitched, and what section 4 says. `QuietMeansComplete`: an uncancelled scan
  without errors and warnings resolved after the tenant phase, lost nothing and
  stored the built-in definitions.
* `EdgesStoredOrReported`: when neither a resolver nor its flush was reported,
  every edge it emitted is a row, whatever became of the buffer.
  `RefreshLands`: a flush that commits refreshes every edge that was a row when
  it began. `WritersFinish`: no two flushes wait for each other for ever.
* `BreakerBoundsRetries`: in an outage the calls that wait for a retry are
  bounded by the circuit and the number of writers, not by the number of
  writes; a success that began before the outage reopens it once per writer.
* `QuotasAreHonest`: chains are linear; a verified row has the value that was
  read; what a call read is on record unless a sibling outran it; the count
  returned is of rows inserted. All of it also for batches that repeat a quota.
* `WalksAreTrue`: a neighbourhood is exactly the nodes within the depth, each at
  its distance, unless a cap was reached; the result has no dangling edge and is
  connected; a path found is a shortest one, and none found means there is none.
* `MigrationsAreWhole`: a body takes effect once, exactly when its version is on
  record, and no version is on record before those below it.
* `PagesAreTrue`: a row that no write touched is missed only if another left its
  place, read twice only if another arrived, and at most once for each write.
* `SightingsAreTrue`: no false alarm across scans, no merge missed unless calls
  overlapped.
* `CacheIsUsable`: an interrupted fetch never passes for a snapshot, but for a
  removal cut short; when all have returned and nobody was killed, one able to
  fetch is enough.
* `AwsScanSafe`, `GcpScanSafe`: slots balance; resolvers run last, when every
  service has run or is named; what a scan that was not cancelled did not deliver
  is named, with one exception each: AWS's is the region of section 5, GCP's a
  hierarchy that was not read, where one error of the provider stands for every
  service and resolver (`GcpFails`). `gcp_scanner.go` says of its services and
  resolvers that a failure does not stop the others; that is `GcpForgetsNothing`,
  and the hierarchy is not among them. `ServiceResultIsTrue`: no error means all was read, stored or
  refused, and the count is of what was stored.
* `ClosureIsTrue`: every row of the closure and every `contains` edge follows
  from pairs that were recorded. `ConvergesWithDepth`: after as many clean scans
  as there are folders, and one at the least, everything a GCP scan discovers lies
  below all its discovered ancestors, but for folders the API names no parent of:
  `scanHierarchy` records no pair for those, so they have no row of their own that
  what lies in them could find. `RecordedIsLinked`: a scan without warnings linked what
  it stored, Azure's batch is right at the first scan, and a reversed edge comes
  only from a tree that was turned round.
* `GivesUpInTime`: a credential is given up after a budget of failures since the
  last success of any key, and no retry goes to sleep after that.
* `ScanEnds`, `PartsSettle`, `CallsReturn`: everything that starts comes to an
  end: scans of each dispatcher, services, openers, quota calls, writers.

**Why these bounds are enough to be of use.** Two writers suffice for every
race of the chain code: a step of one reads rows and locks of one other. Four
rows hold a root, two splits of two writers and one more; two attempts hold a
commit whose answer was lost and its repetition. Two runs on one row hold every
takeover, and those of one process differ only in their names (`AlikeRuns`, the symmetry
of `sl_sqlite`); three services or more only repeat the two. One slot for two
goroutines makes every `Acquire` contended. `store_parts`: two writers with a
circuit that trips at 2, eight calls in one outage; two quotas in opposite
orders or one quota twice, two calls, one change by the provider; every graph of six links over
four nodes, depths 2 and 3, caps 0 (none) and 2; three openers, one of an older
binary, two tries each; pages of two of four rows with two writes; four
spotters of two scans and two types; three fetchers of two sources, one killed.
`provider_scans`: two accounts, two regions of which the tables know one, one
global and two regional services with one slot in each of the three lanes; two
projects; three listings of one, two and three pages, one page empty, a fan-out
of two slots; two keys, four attempts, two waves over five ticks; three scans
over three trees of two folders and two projects, with one folder that may be
denied. The proofs remove the bounds for the invariants they cover.

**Fairness.** `FairSpec` of `VersionChain` takes strong fairness of every
writer's step, because a lock queue serves its waiters in turn and a waiter's
step is disabled again and again while others hold the row, and weak fairness
of `StatementFails` when the model has no ids left, which is the bound and not
the code. `MCAzureEdges` takes weak fairness of every goroutine and of every
writer's own step (`Progress`); `MCProviderScans` of every goroutine of the
dispatchers and of the listings, rows and deadline of a service;
`MCStoreParts` of an opener's statements and of a quota writer's. The reasons:
a service has a 30-minute deadline (`serviceTimeout`); the list of resource
groups, the probes, the API resolver, the services of a GCP organization and the
stitch have none of their own, and their calls are taken to return; a semaphore
serves waiters in order; a statement returns unless it waits for a lock, and the
server breaks cycles. Cancellation, kills, outages and failures are never fair:
nothing relies on them, but for `Expire`, the deadline itself.

`CHECK_DEADLOCK FALSE` is set where a system may really stop: a run or a scan
that is over does nothing more.

## 4. Theorems: what is proved

| module | theorem | for every |
|---|---|---|
| `VersionChainProofs` | `Invariance` (`IInv`), `TypeCorrect`, `OneCurrent`, `Linked`, `Ordered`, `FrozenHistory`, `ArchiveOnce`, `StoreInvariance` (`StoreInv`), `VersionsDiffer`, `StaysPopulated`, `CountersTrue` | number of writers, keys, pages, rows, attempts, both databases |
| | `PagesLand`, `ScannedIsPopulated` | the same, with one connection (`SerialWriters`) |
| | `HistoryImplemented` (`ImplementsHistory`), by `MoveInvariance` | the same, both databases, where no page names a key twice (`NamesOnce`) |
| `ScanLifecycleProofs` | `LifeInvariance` (`LifeInv`), `LifeTypes`, `CompletedIsClean`, `OrphansHaveCauses`, `NoSinkDangles`, `FinishFollowsStart`, `CountsAreOfResources` | number of runs, processes, rows, services, both databases, any cap |
| | `ScanInvariance` (`ScanInv`), `ReportsArrive` | the same, on Postgres or where no row has two live runs (`Unshared`) |
| `AzureDispatchProofs` | `DispatchInvariance` (`DispatchInv`), `DispatchTypes`, `SlotsAreBalanced`, `NobodyIsLeftBehind`, `QuietIsComplete` | number of subscriptions, services, tenant services, resolvers, slots |
| `ProviderScanProofs` | `AwsScanIsSafe` (`AwsScanSafe`), by `AwsTypes`, `AwsSlots`, `AwsResolversRunLast`, `AwsMisses` | number of accounts, regions, services, slots, any two tables |
| | `GcpScanIsSafe` (`GcpScanSafe`), by `GcpTypes`, `GcpSlots`, `GcpResolversRunLast`, `GcpNothingIsForgotten` | number of projects, services, resolvers, slots |
| | `ServiceTellsTruth` (`ServiceResultIsTrue`), by `ServiceInvariance` | number of listings, pages, rows, slots |
| | `TokenGivesUpInTime` (`GivesUpInTime`), by `TokenInvariance` | number of keys and attempts, any budget |
| `StorePartsProofs` | `BreakerKeepsBound` (`BreakerBoundsRetries`) | number of writers, attempts, outages, any threshold |
| | `SchemaIsMadeOnce` (`MigrationsAreWhole`) | number of openers, any versions, both databases |
| | `PagesStayTrue` (`PagesAreTrue`) | number of rows, names and writes, any page size |
| | `SightingsStayTrue` (`SightingsAreTrue`) | number of scans, types and calls |
| | `CacheStaysUsable` (`CacheIsUsable`) | number of processes, sources and kills |
| | `WalksStayTrue` (`WalksAreTrue`) | finite graphs, queries, depths and caps, any order of visits |
| | `QuotasStayHonest` (`QuotasAreHonest`) | number of quotas, limits, writers, attempts and calls, any batches, those that repeat a quota too |
| `EdgeBufferProofs` | `NoEdgeIsLost` (`EdgesStoredOrReported`), by `FlushInvariance` | number of writers, jobs, edges, attempts |
| | `EdgesAreRefreshed` (`RefreshLands`) | the same |
| `HierarchyClosureProofs` | `ClosureStaysTrue` (`ClosureIsTrue`), `HierarchyTypes`, `ClosureIsSound`, `ClosureIsBacked`, `ContainsMirrors` | number of nodes and recorders, any batches |
| `HierarchyScanProofs` | `ScansUseTheTables` (the scans implement `HierarchySpec`), `TreeTypes`, `ScansInventNothing`, `ScansKeepClosureTrue` | trees, nodes, providers, scans |
| | `RecordsAreLinked` (`RecordedIsLinked`), by `LinkInvariance` | forests of any depth, any Entities list, any number of scans and moves |
| | `ScansConverge` (`ConvergesWithDepth`), by `ConvInvariance` | forests of any size and depth, any number of scans and moves |

They assume what the modules' named `ASSUME`s say of the constants (types,
finiteness, disjointness, that a cloud's hierarchy has no loops) and nothing about
interleaving or failures.

**VersionChain.** `OneCurrentRow` is not inductive: a commit replaces committed
rows by pending ones, so what must be sound is not the table but every
writer's view of it. `IInv` therefore says that each `Restored(w)` is sound: the
committed rows overlaid with what `w` wrote, with a half-done split undone (the
old row keeps the link it had until the new version is in). A commit of `w`
then turns one sound view into the table; for the other writers `u` one shows
that `Restored(u)` stays sound although the table beneath it changed. That
needs who excludes whom: a row is locked by one writer (`LocksExclusive`), a
key is claimed by one (`ClaimsExclusive`), and whoever has inserted a row of a
key holds the committed current row of it (`InsertersHoldHead`). An id that is
drawn and not used is nobody else's (`OwnId`), and `FreshAt` follows it through
the wait: it is later than the row the lookup found, since it was drawn after the
lookup; and once the `UPDATE` has the row, above every id of its key if the split
can still succeed. A sibling that drew later and committed first has superseded
that row, and then the unique index refuses the split. That gives
`VersionsInOrder`. `ArchiveOnce` adds `TombInv` on top of `IInv`: a writer
about to insert a tombstone has superseded, and so locked, a row that is not one.
`VersionsDiffer` and `StaysPopulated` need `PayloadInv`: an uncommitted root is
of a key without a committed current row, an uncommitted later version is
populated and differs from its predecessor, which its writer has locked, and the
comparison the lookup made without a lock is still so when the insert runs.
`CountersTrue` needs `CountInv`: a writer's tally is the number of rows it has
inserted and not committed (`CountedAt`), and between its commit and its
publication the tally is a set of tickets, so that the published counters and the
tickets together are the rows of the table; a lost answer drops tickets, never
adds one. With one connection `SerialInv` adds that one
transaction is open at a time (`Alone`), so a lookup's decision holds when its
statement runs (`DecidedAt`) and the items written so far are what the writer's
view says (`WrittenLands`); the commit then makes that view the table. Without
that assumption `ScannedIsPopulated` is false, as `vc_placeholder_race` shows.

`HistoryImplemented` is the refinement: read in id order, the rows of a key change by
one step of `ResourceHistory` or not at all, for all keys of a commit together. What a
commit adds to the table must be one row of a key, so `MoveInv` says that what a
transaction has inserted is of items of its page it is done with, one row of each key
(`InsertedOnce`); that is where `NamesOnce` is needed, since a page that names a key
twice may add two versions to it in one commit, which the history has as two steps.
It also says that an update keeps the flags of a row or lifts both, and an archive keeps
them; that a root is no tombstone, and empty if it is a placeholder; and that a
tombstone holds what the version before it holds, because the archive copies what its
lookup read and nobody changes a row's payload meanwhile (`MoveAt`, `SeenAsWas`).
`CommitMove` then compares the table with the writer's view. No new row of a key is
`KeptMove`, the first one `FirstMove`; a later one follows the row the table has as
current (`NextMove`), for a row inserted below it would have to be the predecessor of a
committed row, and the table is sound. `Place` counts the rows up to a row, which makes
the order by id a function without recursion; `PlaceOnto` and `OneMoreInOrder` say that
it is a list of the rows, and that a row above all others goes to its end. `IInv`,
`TombInv`, `PayloadInv`, `CountInv` and, under `NamesOnce`, `MoveInv` are `StoreInv`.

**ScanLifecycle.** `LifeInv` ties the program counter of a run to its row and
its locals: it has a row (`HasRow`), what it left behind when it ended
(`Ended`), one chain of callbacks per store (`OneSink`), what was reported is
in its lists (`Told`), who is responsible for a running row (`Owned`), and
times (`Timely`) and counts (`Tallied`). The lemmas `Moves` and `RowMoves` say what a
single step may do to a run and to a row, so that each part is checked against
them and not against every action. `ScanInv` follows a report from there: what
the services reported is in the lists of the run, each warning once (`Heard`);
what Finalize is to append is in the row or still in the queue, unless an append
failed (`Underway`); the row names a run only for what that run keeps
(`Attributed`), which makes the number left out the right one; on SQLite the
array a run has read is still the row's (`Buffered`); and what has landed stays
(`Arrived`). `ColumnsMove` says what a step may do to an array of a row: nothing,
or the entry of one run at its end. That is so on Postgres, which appends in one
statement. On SQLite, which reads and writes back, it needs that no other run
appends to the row in between, so the two theorems assume `Unshared`: Postgres,
or no row with two live runs (`OneAtWork`).

**The dispatchers.** `DispatchInv` adds to the properties where the goroutines
may be for each phase of the main one (`Phased`), that losses are on the record
unless the scan was cancelled (`Accounted`), and who is in charge of the
built-in definitions (`Entrusted`): with a tenant id the tenant service has
stored them, or something was reported; without one every subscription that
listed them has. `AwsInv` has types (`Shaped`), which goroutines a stage allows
(`InStage`), that a call is either waiting or running (`Disjoint`), the balance
of slots, and what may be in `silent` (`Misses`): only services a table left
out, unless the scan was cancelled. `GcpInv` has types and phases (`GcpShaped`,
`InPhase`), the balance of slots, and that whatever is not yet in `scanned` or
`resolved` is still ahead (`ServicesKept`, `ResolversKept`); when the resolvers
start nothing of the services is ahead, so all of it has run or is named.

**EdgeBuffer.** `FlushInv` follows the edges of a job: a call is only made for
a job in progress and with an empty buffer (`InJob`); if the resolver emitted
them all they are in the buffer, and in the batch once the flush has begun
(`Carries`); those an attempt has passed are committed rows or in the writes of
its open transaction, a pause has forgotten the attempt, and a call that
succeeded has left rows (`Passed`). No row is ever removed, so what a sibling
commits cannot undo it; an edge that an attempt finds in the table and does not
write again is there when the attempt ends. `EdgesAreRefreshed` adds to it that what a
call found when it began (`known`) stays a row, so its attempts never take the branch that
inserts such an edge and would leave it to a sibling (`DO NOTHING`); and that of the part of the
batch they have passed they carry what it last says of it (`Refreshed`).

**ServiceScan.** Most of the work is in what is neither stored nor lost.
`HeldBack` says which rows wait (the page that is being enriched, or all that a
fan-out has read) and that a fan-out has stored nothing before it returns;
`PagesKept` that the rows of a page that was dealt with are stored, waiting or
were refused, unless an error comes back; `EndsKnown` that a listing that is
over was read through, or refused on its next page, or somebody returns an
error. The count needs `StoredOnce`: a stored row is of a page that was dealt
with, so that the next page adds rows the store does not have. That rests on
`ServiceAssumption`: no row is on two pages. A service that lists a row twice
would be counted twice, as in the code.

**TokenRetry.** `TokenInv`: the stamp is the time of the first failure since a
success, a success is never later than the stamp (`cleared`), and who judges
has failed at this very moment. So the swap and the load may fall on
different stamps, but never on one older than the last success.

**WriteBreaker.** The bound `(resets + 1) * (W + Trip - 1)` is not inductive: a
call under way when the database goes down may still stall. `BreakerInv` keeps
three accounts during an outage: resets are paid for by calls that had won
before it; stalled calls by the streak and by those that still wait; and those
that may yet stall fit under the bound, too. `WatchCounts` and `CountChanges` say how a step
of one writer changes the number of writers in each account.

**Migrations.** `MigInv`: versions are on record from 1 on; what an opener
knows and no longer has to do is on record; and the version an opener has noted
in an open transaction is on nobody's record, nor noted by another. The last is
what makes a body take effect once.

**PagedRead.** While the reading goes on, `UnderWay` relates every row at rest
to its place in the order: read at most once for each write, and once more when
the pages have passed it; and of the rows they have passed at most one for each write was not
read (`Missed`). `WriteMoves` says that a write moves every place by at most
one, and in one direction; `PageOfOrder` that a page is the rows of the next
places. Both need that the places count the rows before a row (`OrderPlaces`),
which is
induction on a number: a set of naturals that is not empty has a least element
(`LeastNatural`, from the well-founded order of the naturals), here the least
counterexample.

**TypeSightings.** `Undisturbed` says of a scan that was neither warned nor
blurred that its calls come one after another and what is stored is its last
one's. **SdkCache.** `RemovalsCover`: what a removal still has to delete covers what
is left of the directory it opened; `WholeOrRemoved` and `SoonFilled`: what
stands at the path is whole or being removed, and what is missing is about to
be renamed there. `MadeOnce` keeps a process from making two directories, so that a
removal never meets a second one of the same maker.

**GraphWalk.** A node is at distance k (`AtSteps`) if it is in the ball of k steps
and not in the one before. The balls are a recursion over numbers, so their
lemmas go by `NaturalInduction`; the one the searches live on is `NextRing`: who is
reached first from a ball is reached from its rim, which is why a layer may start
from the last one only. `WalkSoFar` says that nodes are admitted at their distance
and that, while the cap on nodes has room, the nodes admitted are the whole ball and the
frontier all of its rim that is walked through; room lost is never regained, so
nothing is claimed after it. `PathSoFar` says the same of the nodes that have a
predecessor, and that predecessors lead one ring back, whichever of several the
order of visits has picked. A frontier that is empty means that no ball is wider
(`NothingBeyond`), so stopping early loses nothing.

**QuotaChain.** The table is chains as long as every write of an open transaction
still fits it when the transaction commits, however many siblings commit before. `Fits`
is that condition for one write, `WroteIs` says it of all writes of an attempt, and
`EffectsAre`, by induction over the writes, that the writes of one attempt leave
chains, and leave fit what fitted and does not insert into one of theirs (`Separate`). What keeps the writes of two
transactions separate is the lock on the key, which an insert takes and an attempt
keeps until it ends: the row a lookup found may be superseded, even by a writer who
marks it a second time, but no insert comes between the check of the key and the
commit. A batch that repeats a quota writes one chain several times: the first write is of
the row the lookup found or of none, each later one of what the attempt inserted
last (`Aim`, `Follows`), and `PlacedFits` says that it fits when the earlier ones are in. `PastIs`
follows the limits of a batch, each written or a sibling's, to the end, where `WonIs` finds them in the table; rows never leave it and never change what they
hold (`Goes`). `CountIs` has the one way to a wrong count: an attempt that failed
after its COMMIT took effect.

**The hierarchy.** A transaction reads the closure other transactions commit in
the meantime, so the closure is not the transitive closure of anything at any
moment; what survives every interleaving is that each row is backed by a
recorded pair whose parent has that ancestor. `HierarchyInv` says it of the
table with the recorded pairs and of every open transaction with the pairs it
counts on, and soundness (no ancestor is unreachable) as membership in every set
of nodes the pairs do not lead out of, which needs no recursion.
`ScansUseTheTables` maps every step of a scan to a step of a recorder or a
stutter; everything proved of the tables then holds of the scans.

`RecordsAreLinked` adds what the scans themselves see to. `LinkInv` has three
parts that know nothing of each other. As long as the scan is quiet, every node
is linked or its turn is to come, and the pair in hand is linked or missed when
its transaction has done it (`LinkedSoFar`, `InHand`). Everything recorded is of
one tree until somebody moves it (`OneTree`); the closure's rows lie in every
set the recorded pairs do not lead out of, so an edge above one of its ancestors
would be a set of nodes each of which leads to another of them, and a forest has
none (`Acyclic`: `TreeAssumption` says it of folders as no set of them that is
closed under the tree, of Azure's nodes by the length of the chain). And of
Azure's rows, columns nobody else writes (`Apart`), each is its own or one more
than its parent's (`AzureRows`); a node already placed stays below all that is
above its parent because no later pair of the batch has that parent as its
child (`Ordered`), which is what sorting the entities by depth is for.

`ScansConverge` is the argument why a scan that repeats all pairs from the top
need not repeat them often. Being above is an iteration, which `ConvInv` does
without: a node hangs right (`Hangs`) if some set of nodes that leads upward
(`Upward`) and holds it is all above it in the table. `Late` are the folders that
do not, and the invariant bounds their number by what clean scans are left
(`Shrinks`). During a scan the late ones of its start, S, are kept aside: whatever
lies directly under what is not in S is done or has its turn (`Climbing`), since the
parent it copies from is right already. As a folder tree has no loops some late
folder has no late parent, so S loses one of its folders in every clean scan
(`Climbed`). Projects come after all folders and need one scan more than their
folder, the resource of a project another transaction than the project: they have
their own conjuncts (`Settled`, `Served`). Without folders the first scan does it
all, hence "one at the least".

**Only model-checked**: the liveness properties `CallsReturn`, `ScanEnds`,
`WritersFinish` and `PartsSettle`, which are out of the prover's reach. Every other
property of a passing run is stated by a theorem.

## 5. What the runs refute

Each of these runs checks one sentence of the repository and ends in a
counterexample.

| run | sentence | what happens |
|---|---|---|
| `vc_placeholder_race` | a scanner "finds the placeholder as the current version, and version-splits it" (`store/resources_upsert.go:294`) | on Postgres a placeholder committed between the scanner's lookup and its insert turns the insert into a no-op: the payload is dropped until a later scan |
| `vc_types_for_scan` | "reference_only rows are resolver placeholders ... Counting one as an emitted type would report a scanner that never ran" (`store/scans.go:460`) | a placeholder of scan 1 populated by a scanner of scan 2 keeps `discovered_by` = 1 and loses the flag: scan 1 reports the type |
| `ecs_refusal` | a refusal is recorded "as a scan warning and returns nil, allowing the caller to continue scanning other services" (`aws/aws_errors.go:323`) | `scanECSServices` answers a refused `ecs:ListServices` with `continue` (`aws/ecs_scanners.go:145`): the paginator stands where it stood and the call is made again until the service runs out of its budget |

Met while reading and given no run of their own:

* Archiving a placeholder writes a tombstone with `reference_only` FALSE
  (`store/resources_archive.go:108`).
* `resource_count` counts current rows by `verified_by`, so an overlapping scan
  that verifies a resource again takes it out of the count of the first
  (`store/scans.go:209`).
* `--if-older-than` measures from the start of a scan, its help
  (`cmd/scan.go:62`) says "finished".
* `FailScan` (`store/scans.go:240`) has no caller outside the tests.
* Two SQLite processes that finalise one row can lose appends, which
  `store/scans.go:285` excludes by "one scanner mutates one scan"; `sl_sqlite`
  excludes it by giving the row to one process.
* A resumed partial scan keeps its status while it writes (`cmd/scan.go:112`),
  and the latest one is "never a running one whose rows are still landing"
  (`cmd/coverage_verify.go:191`).
* A resumed run does not rewrite `providers` (`store/scans.go:416`), so a
  provider nobody scanned counts as covered by "a recent run already covered
  the same provider scope" (`store/scans.go:408`).
* A tenant service of Azure that panics is reported as
  `azure:microsoft.entra`, whichever it was (`azure/azure_scanner.go:303`), and
  the tenant services after it do not run; line 590 promises "a reported error
  for that service/scope".
* `ReversedContainsEdges` is "always empty" (`store/relationships.go:231`)
  unless somebody turned a branch of the tree round between two scans.
* A region that AWS has opened since the shipped table was made is skipped
  without a word when the catalog is not read, as with one configured region
  (`aws/aws_region_availability.go:82`); `AwsMissesAreNamed` states exactly that
  exception.
* A process killed in the middle of `os.RemoveAll` can leave a manifest without
  its sources, which `internal/sdkinv/cache.go:20` says cannot pass for a
  snapshot.
* `gcpRegionFanoutScan` says that what a region refuses is "tolerated silently
  per region" (`gcp/gcp_scan_helpers.go:142`); a denial warns, and "API not
  enabled" is escalated to an error that drops what all regions gathered.
* `scanECSClusters` returns a count of zero after earlier batches were stored
  (`aws/ecs_scanners.go:105`, `:126`).

## 6. Assumptions and limits

* UUIDv7 order: an id drawn later is larger. Within a process the generator
  sees to it; between processes it presumes synchronised clocks.
* Postgres row locks, `ON CONFLICT` and READ COMMITTED re-evaluation, and the
  deadlock detector are modelled from their documented behaviour as the
  statements in `store` use it. SQLite is one connection (`SetMaxOpenConns(1)`,
  `store/store.go:299`).
* `VersionChain` bounds ids by `MaxRows` and attempts by `MaxAttempts`; backoff
  and the circuit breaker are in `WriteRetry`, not there. When ids run out a
  statement fails.
* `ScanLifecycle` bounds the clock by `MaxTime`, the versions of a resource by
  `MaxVersions`, and uses each run once. Messages
  are topics. In-process runs on one store are one after the other, as
  `scanrun.go:447-451` requires of its callers.
* The dispatchers treat one call as one step between its start and its end and
  leave out filters, progress lines, the pacing of requests and wording. The
  lists of subscriptions, accounts and projects are given. In Azure
  `maxConcurrentResolvers` bounds goroutines that share nothing, so resolvers
  are single steps in any order.
* `EdgeBuffer`, `QuotaChain` and `HierarchyClosure` are Postgres; SQLite runs
  one transaction at a time, a subset of those behaviours. `Migrations` has both.
* `ServiceScan`: what the cloud holds does not change while a service is read;
  an item is one row. `TokenRetry`: callers that join a flight share its result
  and are not separate.
* A `modelled` component in `PROJECT.json` has every state-changing operation as
  an action; `partly` ones say what is missing.

Hazards of this code that no property covers, because what can go wrong is
wording, a process-wide end, or a file format: recency judged by the start of a
scan and its `providers` (`cmd/scan.go:597`); the name in the report of a panic
(`azure/azure_scanner.go:303`); a snapshot taken by `VACUUM INTO` before the
list of scans is read (`cmd/snapshot.go:102`); services of a GCP organization
have no `serviceTimeout` (`gcp/gcp_registry.go:150`); a cancelled scan drops
GCP's resolvers and runs all of AWS's (`gcp/gcp_scan_helpers.go:68`);
`wsiRegionsOnce` keeps the first caller's error for the rest of the process
(`aws/workspacesinstances_scanners.go:91`); a panic in an AWS or GCP service
ends the process, in Azure it is recovered (`aws/aws_scanner.go:205`); whoever
joins the flight of a token shares the leader's context
(`azure/azure_credential.go:77`).

## 7. Not modelled, and why

* **The mapping of each API to rows and edges**: about a thousand
  files of scanners, resolvers and types, five sixths of the source. Each
  is a fixed sequence of calls to a helper, a literal of a resource, and a field
  copied here and there; what can go wrong in order, concurrency and failure is
  in the helpers, which `ServiceScan` models once. A definition per file would
  restate literals. The same holds for generated tables
  (`services_generated.go`, `aws_types.go`). For this reason the share of the
  source that the definitions translate stays small.
* **Findings** (`store/findings.go`): one transaction of inserts per check run.
* **Scan diff** (`store/diff.go`): two reads and a subtraction.
* **Postgres connection**: configuration of a pool, IAM tokens by a library.
* **Redaction, volatile fields, managed types**: rewriting of one resource's
  data before it is stored; a property of strings.
* **Snapshots, coverage and SDK inventories, policy packs, command output**:
  file formats, comparison of lists, an external engine, formatting.

## 8. Plan

Done: the chain, the scan record and run, the three dispatchers, the hierarchy,
the edges, the retry, paged reads, migrations, the credential, the detector of merged types,
the SDK cache and the helpers of the scanners, the graph searches, the quotas, each with proofs.
Left, in this order:

1. A history in which one commit may move a key several times, so that
   `HistoryImplemented` holds without `NamesOnce`.
2. The pacing of requests (`aws/aws_ratepace.go`), the filter by kind of edge
   and the assembly of `GraphAll`.
3. `CheckRun` (findings) and `DiffScans` as operators over `VersionChain`'s table.
