SPECIFICATION LiveSpec
CONSTANTS
    Connections = {c1, c2, c3}
    Grace = 3
INVARIANTS
    CutOnlyAfterGrace
    EndsOnlyWhenAsked
PROPERTIES
    WatchedShutdownEnds
CHECK_DEADLOCK FALSE
