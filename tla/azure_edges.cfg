CONSTANTS
    s1 = s1
    s2 = s2
    Subs = {s1, s2}
    Builtin = authorization
    entra = entra
    Services = {authorization, compute}
    TenantOrder <- MCTenantOrder
    GraphScoped <- MCGraphScoped
    Resolvers = {ra}
    SubSlots = 1
    SvcSlots = 1
    r1 = r1
    r2 = r2
    d = d
    e1 = e1
    e2 = e2
    a = a
    b = b
    Absent = Absent
    Writers = {r1, r2, d}
    Direct = {d}
    Failing = {r1}
    Edges = {e1, e2}
    Attrs = {a, b}
    Jobs <- MCJobs
    Teams <- MCTeams
    MaxAttempts = 3
    Trip = 1
SPECIFICATION PartsSpec
INVARIANTS DispatchInv QuietMeansComplete EdgesStoredOrReported
PROPERTIES RefreshLands ScanEnds WritersFinish
CHECK_DEADLOCK FALSE
