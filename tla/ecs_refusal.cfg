CONSTANTS
    c1 = c1
    c2 = c2
    Shapes = {"clusters"}
    Listings = {c1, c2}
    Rows = {1, 2, 3}
    Layout <- MCLayout
    FanoutSlots = 1
SPECIFICATION ServiceSpec
INVARIANTS RefusalsAreFinal
CHECK_DEADLOCK FALSE
