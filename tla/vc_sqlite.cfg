\* SQLite: the same calls over one connection; two scans one after the other
\* or interleaved call by call, pages that repeat a resource.
CONSTANTS
    k1 = k1
    k2 = k2
    empty = empty
    a = a
    b = b
    s1 = s1
    s2 = s2
    w1 = w1
    w2 = w2
    Absent = Absent
    Keys = {k1, k2}
    Contents = {empty, a, b}
    Empty = empty
    Scans = {s1, s2}
    Writers = {w1, w2}
    ScanOf <- ScanPerWriter
    Batches <- MixedPages
    MaxRows = 4
    MaxAttempts = 1
    SerialWriters = TRUE
SPECIFICATION Spec
INVARIANTS
    ScannedNotPlaceholder
PROPERTIES
    SightingLands
