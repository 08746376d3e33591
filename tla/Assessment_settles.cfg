SPECIFICATION FairSpec
CONSTANTS
    Calls = {c1, c2}
    Keys = {k1, k2}
    NoKey = NoKey
    Targets = {t1}
    Hosts = {1}
    AnyHost = AnyHost
    Network <- WholeNetwork
    Lease = 1
    Validity = 1
    MaxHold = 9
    MaxClock = 2
PROPERTIES
    ReservationSettles
    ImplementsLedger
CHECK_DEADLOCK FALSE
