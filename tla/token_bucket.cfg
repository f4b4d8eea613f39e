SPECIFICATION Spec
CONSTANTS
    Rps = 2
    TicksPerSecond = 5
    Rounding = 1
    MaxTime = 12
INVARIANTS
    RateBounded
    RefusesOnlyAboveRate
