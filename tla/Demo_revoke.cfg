SPECIFICATION Spec
CONSTANTS
    Calls = {c1, c2, c3}
    Assets = {a1}
    Demo = {a1}
    Pool = 1
    Perishable = FALSE
    MaxAssets = 1
    Together = 1
SYMMETRY CallSymmetry
PROPERTIES
    RevokeClearsTheDemo
CHECK_DEADLOCK FALSE
