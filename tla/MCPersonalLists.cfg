SPECIFICATION ListsSpec
CONSTANTS
    Kinds = {"filter", "response"}
    Ids = {1, 2, 3, 4, 5, 6}
    Names = {"a", "b", "c", "d"}
    Keys = {k1, k2}
    Requests = {r1, r2, r3}
    Initial <- MCInitial
SYMMETRY MCSymmetry
INVARIANTS
    OrderKept
PROPERTIES
    NoLostEdit
CHECK_DEADLOCK FALSE
