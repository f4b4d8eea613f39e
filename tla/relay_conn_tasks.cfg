SPECIFICATION Spec
CONSTANTS
    Requests = {r1, r2}
    MaxConcurrent = 1
    MaxEgress = 1
    MaxHops = 1
    MaxFrames = 1
INVARIANTS
    ConnTasksBounded
CHECK_DEADLOCK FALSE
