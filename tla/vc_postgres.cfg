\* Postgres: two writers of one scan interleave statement by statement on one
\* resource, with lost connections, lost commit answers and retries.
CONSTANTS
    k1 = k1
    k2 = k2
    empty = empty
    a = a
    b = b
    s1 = s1
    s2 = s2
    w1 = w1
    w2 = w2
    Absent = Absent
    Keys = {k1}
    Contents = {empty, a}
    Empty = empty
    Scans = {s1}
    Writers = {w1, w2}
    ScanOf <- OneScan
    Batches <- TwoPages
    MaxRows = 4
    MaxAttempts = 2
    SerialWriters = FALSE
SPECIFICATION Spec
SYMMETRY WriterSymmetry
INVARIANTS
    OneCurrentRow
    ChainsLinked
    NoDoubleTombstone
    CountersMatchRows
PROPERTIES
    HistoryFrozen
    SplitMeansChange
    PopulatedStays
