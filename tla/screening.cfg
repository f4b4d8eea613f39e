SPECIFICATION Spec
CONSTANTS
    Environments <- MCEnvironments
    Requests <- MCRequests
    Blank = Blank
    Unreadable = Unreadable
    NoPort = NoPort
    Invalid = Invalid
    Numeral <- MCNumeral
    Notation <- MCNotation
    NoRequest = NoRequest
INVARIANTS
    RestrictionsHold
    RefusalsAreDeserved
    StrangersLearnNothing
    OnlyForwardsAreCharged
    OpenOnlyOnPurpose
    OneAddressee
CHECK_DEADLOCK FALSE
