SPECIFICATION FairSpec
CONSTANTS
    Calls = {c1, c2}
    Assets = {a1, a2}
    Demo = {a1}
    Pool = 1
    Perishable = TRUE
    MaxAssets = 2
    Together = 2
INVARIANTS
    StableAlias
    PublishedAsAsked
PROPERTIES
    EveryCallEnds
CHECK_DEADLOCK FALSE
