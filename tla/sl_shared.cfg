\* Postgres: two `disco scan' processes, which may share a row through --resume
\* or DISCO_SCAN_ID; kills, cancellations and failing statements everywhere.
CONSTANTS
    r1 = r1
    r2 = r2
    r3 = r3
    p1 = p1
    p2 = p2
    p3 = p3
    aws = aws
    gcp = gcp
    v1 = v1
    v2 = v2
    NoScan = NoScan
    NoBuf = NoBuf
    Runs = {r1, r2}
    Procs = {p1, p2}
    ProcOf <- ProcessPerRun
    ScanIds = {1}
    Hints = {1}
    Providers = {aws, gcp}
    Services = {v1, v2}
    ProviderOf <- ServicePerProvider
    Wants <- WantsMore
    Postgres = TRUE
    ShareLive = TRUE
    WarnCap = 1
    MaxAge = 0
    MaxTime = 0
    MaxVersions = 1
SPECIFICATION Spec
CHECK_DEADLOCK FALSE
INVARIANTS
    CompletedMeansClean
    OrphanHasCause
    ReportsLand
