SPECIFICATION Spec
CONSTANTS
    Calls = {c1, c2}
    Keys = {}
    NoKey = NoKey
    Targets = {t1, t2}
    Hosts = {1, 2}
    AnyHost = AnyHost
    Network <- OneSingleAddress
    Lease = 1
    Validity = 2
    MaxHold = 1
    MaxClock = 2
SYMMETRY CallSymmetry
INVARIANTS
    ChargedHostBelongs
PROPERTIES
    BillNeverShrinks
    BillIsFinal
CHECK_DEADLOCK FALSE
