CONSTANTS
    NItems = 3
    Size <- MixedSize
    Capacity = 2
    Downloaders = {d1, d2}
    Processors = {p1, p2}
    Sentinel = Sentinel
    CleanupMayRaise = TRUE
SYMMETRY ThreadSymmetry
SPECIFICATION Spec
CHECK_DEADLOCK FALSE
INVARIANTS
    TypeOK
    BudgetConserved
    BudgetBound
    LateStartsBounded
