SPECIFICATION ForwardLiveSpec
CONSTANTS
    Targets <- MCTargets
    Https <- MCHttps
    Listed <- MCListed
    Origin <- MCOrigin
    Unusable = Unusable
    MaxHops = 2
    Addresses = {loc, priv, pub}
    Unroutable = {priv}
    Local = {loc}
    NoAddress = NoAddress
    DnsTimeout = 1
    ConnectTimeout = 1
    TlsTimeout = 1
    HeadersTimeout = 1
INVARIANTS
    NoTargetTwice
    NeverDowngraded
    AuthStaysHome
    BodySentOnce
    EveryHopIsChecked
    NothingForbiddenDialed
    HopsBounded
PROPERTIES
    RequestEnds
CHECK_DEADLOCK FALSE
