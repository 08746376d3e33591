SPECIFICATION Spec
CONSTANTS
    Calls = {c1, c2, c3}
    Keys = {k1}
    NoKey = NoKey
    Targets = {t1}
    Hosts = {1}
    AnyHost = AnyHost
    Network <- WholeNetwork
    Lease = 1
    Validity = 2
    MaxHold = 1
    MaxClock = 3
SYMMETRY CallSymmetry
INVARIANTS
    OneRunPerKey
CHECK_DEADLOCK FALSE
