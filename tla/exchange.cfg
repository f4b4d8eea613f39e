SPECIFICATION ExchangeLiveSpec
CONSTANTS
    Timeout = 2
    MaxFrames = 3
    HeadersTimeout = 3
INVARIANTS
    NoLostWakeup
    TimeoutMeansIdle
    OneFinalLine
PROPERTIES
    SilenceEndsTransfer
    SilentClientIsNotTheUpstream
CHECK_DEADLOCK FALSE
