SPECIFICATION Spec
CONSTANTS
    Extent = {2, 3}
    MaxSize = 4
    Modulus = 16
    Uninit = Uninit
    MaxVars = 2
    Respliced = TRUE
CHECK_DEADLOCK FALSE
INVARIANT
    RemainderIsShape
