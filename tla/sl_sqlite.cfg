\* SQLite: one process with two runs at two times, on one row or on two: the second
\* run resumes the first one's row or takes it over when the first has ended or was
\* killed, or starts a row of its own and lists the same resource again, before or
\* after the first has counted.
CONSTANTS
    r1 = r1
    r2 = r2
    r3 = r3
    p1 = p1
    p2 = p2
    p3 = p3
    aws = aws
    gcp = gcp
    v1 = v1
    v2 = v2
    NoScan = NoScan
    NoBuf = NoBuf
    Runs = {r1, r2}
    Procs = {p1}
    ProcOf <- OneProcess
    ScanIds = {1, 2}
    Hints = {1}
    Providers = {aws}
    Services = {v1}
    ProviderOf <- OneProvider
    Wants <- WantsAll
    Postgres = FALSE
    ShareLive = FALSE
    WarnCap = 0
    MaxAge = 0
    MaxTime = 1
    MaxVersions = 2
SPECIFICATION Spec
SYMMETRY AlikeRuns
CHECK_DEADLOCK FALSE
INVARIANTS
    ScanInv
    ReportsLand
    NoDanglingSink
