SPECIFICATION Spec
CONSTANTS
    Calls = {c1, c2, c3}
    Assets = {a1, a2}
    Demo = {a1, a2}
    Pool = 1
    Perishable = FALSE
    MaxAssets = 1
    Together = 3
SYMMETRY CallAndAssetSymmetry
INVARIANTS
    TypeOK
    StableAlias
    DistinctAlias
PROPERTIES
    PoolFirst
CHECK_DEADLOCK FALSE
