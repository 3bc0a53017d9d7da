SPECIFICATION Spec
CONSTANTS
    Extent = {0, 2, 3}
    MaxSize = 4
    Modulus = 16
    Uninit = Uninit
    MaxVars = 3
    Respliced = FALSE
CHECK_DEADLOCK FALSE
INVARIANT
    TypeOK
    TypesDescribe
    ArrayMeaning
    ConstantsStayKnown
    ConstantShapesVerify
