SPECIFICATION Spec
CONSTANTS
    Addresses <- MCAddresses
    Unroutable <- MCUnroutable
    Local <- MCLocal
    DenyCidrs <- MCDenyCidrs
    Probes <- MCProbes
    NoAddress = NoAddress
    DnsTimeout = 1
    ConnectTimeout = 2
    TlsTimeout = 1
INVARIANTS
    UnroutableNeverDialed
    LocalNeverDialed
    PeerWasValidated
    EveryAddressTried
    WaitBounded
    AllowsPublicOnly
CHECK_DEADLOCK FALSE
