\* Postgres: every interleaving implements the abstract history.
CONSTANTS
    k1 = k1
    k2 = k2
    empty = empty
    a = a
    b = b
    s1 = s1
    s2 = s2
    w1 = w1
    w2 = w2
    Absent = Absent
    Keys = {k1, k2}
    Contents = {empty, a}
    Empty = empty
    Scans = {s1}
    Writers = {w1, w2}
    ScanOf <- OneScan
    Batches <- DistinctPages
    MaxRows = 3
    MaxAttempts = 1
    SerialWriters = FALSE
SPECIFICATION Spec
SYMMETRY WriterSymmetry
INVARIANTS
    StoreInv
PROPERTIES
    ImplementsHistory
