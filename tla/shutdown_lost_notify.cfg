SPECIFICATION LiveSpec
CONSTANTS
    Connections = {c1, c2, c3}
    Grace = 3
PROPERTIES
    ShutdownEnds
CHECK_DEADLOCK FALSE
