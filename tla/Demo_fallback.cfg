\* Pool = 0: the names of the pool are given out and stay so.
SPECIFICATION Spec
CONSTANTS
    Calls = {c1, c2}
    Assets = {a1, a2, a3}
    Demo = {a1, a2, a3}
    Pool = 0
    Perishable = TRUE
    MaxAssets = 2
    Together = 1
SYMMETRY CallAndAssetSymmetry
INVARIANTS
    FallbackSuffices
CHECK_DEADLOCK FALSE
