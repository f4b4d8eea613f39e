SPECIFICATION Spec
CONSTANTS
    Requests = {r1, r2, r3}
    MaxConcurrent = 2
    MaxEgress = 1
    MaxHops = 1
    MaxFrames = 2
SYMMETRY RequestSymmetry
INVARIANTS
    PermitsExact
    TransfersBounded
    RefusedNeverDials
PROPERTIES
    BudgetClosesDoor
    ImplementsLimiter
CHECK_DEADLOCK FALSE
