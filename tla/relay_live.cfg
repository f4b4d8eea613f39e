SPECIFICATION LiveSpec
CONSTANTS
    Requests = {r1, r2}
    MaxConcurrent = 1
    MaxEgress = 1
    MaxHops = 1
    MaxFrames = 1
PROPERTIES
    HandlersLetGo
CHECK_DEADLOCK FALSE
