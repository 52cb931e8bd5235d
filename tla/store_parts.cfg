\* One part at a time: the bounds are those each part needs.
CONSTANTS
    Writers = {w1, w2}
    MaxAttempts = 2
    Trip = 2
    MaxCalls = 8
    MaxOutages = 1
    q1 = q1
    q2 = q2
    Quotas = {q1, q2}
    Values = {1, 2}
    BatchOrders <- MCBatchOrders
    LongestBatch = 2
    MaxMoves = 1
    MaxUpserts = 2
    Nodes = {1, 2, 3, 4}
    Links <- MCLinks
    Seed = 1
    Goal = 4
    Filtered = {2, 4}
    Managed = {2, 3}
    Gone = {3}
    Depths = {2, 3}
    NodeCaps = {0, 2}
    EdgeCaps = {0, 2}
    Unseen = Unseen
    Openers = {1, 2, 3}
    Known <- MCKnown
    Plain = {2}
    MaxOpens = 2
    Ids = {1, 2, 3, 4}
    Names = {1, 2}
    PageSize = 2
    MaxWrites = 2
    Spotters = {1, 2, 3, 4}
    SpotScans = {1, 2}
    SpotTypes = {1, 2}
    NoSighting = NoSighting
    Fetchers = {f1, f2, f3}
    Sources = {a, b}
    Manifest = m
    MaxKills = 1
    Missing = Missing
SPECIFICATION PartsSpec
INVARIANTS BreakerBoundsRetries QuotasAreHonest WalksAreTrue MigrationsAreWhole
    PagesAreTrue SightingsAreTrue CacheIsUsable
PROPERTIES PartsSettle
CHECK_DEADLOCK FALSE
