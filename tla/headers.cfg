SPECIFICATION Spec
CONSTANTS
    ClientNames = {"host", "cookie", "proxy-connection", "authorization", "content-length"}
    UpstreamNames = {"vary", "access-control-allow-origin", "access-control-allow-credentials", "content-type", "transfer-encoding"}
    Unreadable = {"authorization", "vary"}
    MaxNominated = 1
    MaxHops = 2
INVARIANTS
    PrivateStaysBehind
    RestGoesThrough
    OneCorsVoice
CHECK_DEADLOCK FALSE
