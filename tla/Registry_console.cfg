SPECIFICATION Spec
CONSTANTS
    Handlers = {h1, h2}
    UserNames = {u1, u2}
    People = {p1, p2}
    Nobody = Nobody
    Addresses = {a1}
    NoAddress = NoAddress
    Hosts = {g1}
    MaxBulk = 2
    Lists <- SomeLists
    MaxId = 2
    MaxScans = 2
SYMMETRY NameSymmetry
INVARIANTS
    TypeOK
    OnlyAdminsWrite
    BulkAnswersTrue
    NewestScanShown
PROPERTIES
    SetupClosesForGood
    ImplementsInventory
CHECK_DEADLOCK FALSE
