SPECIFICATION Spec
CONSTANTS
    Requests = {r1, r2, r3}
    Addresses = {a1, a2}
    Window = 1
    MaxRequests = 1
    MaxTracked = 1
    MaxAttempts = 2
    MaxClock = 1
    MaxLeads = 1
INVARIANTS
    TypeOK
    LimitHolds
    OnlyRacesFail
    StoredBeforeTold
    RowTellsTheTruth
PROPERTIES
    SweptWhenAlone
    EveryStepAdvances
SYMMETRY RequestSymmetry
CHECK_DEADLOCK FALSE
