\* SQLite: a placeholder of one scan populated by the scanner of another.
CONSTANTS
    k1 = k1
    k2 = k2
    empty = empty
    a = a
    b = b
    s1 = s1
    s2 = s2
    w1 = w1
    w2 = w2
    Absent = Absent
    Keys = {k1}
    Contents = {empty, a}
    Empty = empty
    Scans = {s1, s2}
    Writers = {w1, w2}
    ScanOf <- ScanPerWriter
    Batches <- TwoPages
    MaxRows = 4
    MaxAttempts = 2
    SerialWriters = TRUE
SPECIFICATION Spec
INVARIANTS
    TypesWereEmitted
