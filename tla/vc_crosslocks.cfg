\* Postgres: two pages that lock two resources in opposite orders.
CONSTANTS
    k1 = k1
    k2 = k2
    empty = empty
    a = a
    b = b
    s1 = s1
    s2 = s2
    w1 = w1
    w2 = w2
    Absent = Absent
    Keys = {k1, k2}
    Contents = {a, b}
    Empty = a
    Scans = {s1}
    Writers = {w1, w2}
    ScanOf <- OneScan
    Batches <- CrossPages
    MaxRows = 4
    MaxAttempts = 1
    SerialWriters = FALSE
SPECIFICATION FairSpec
PROPERTIES
    CallsReturn
