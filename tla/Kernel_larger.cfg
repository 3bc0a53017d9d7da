\* Arrays may be longer than the space of the kernel that reads them.
SPECIFICATION Spec
CONSTANTS
    i = i
    j = j
    c = c
    x1 = x1
    x2 = x2
    xs = xs
    yss = yss
    NoVal = NoVal
    Gtids <- OneId
    Binders <- OneBinder
    Scalar <- OneScalar
    ArrayRank <- OneArray
    Content <- OneContent
    Val = {0, 1, 2, 3, 4}
    Apply <- Minus
    Operator <- Combine
    Neutral = 0
    Extent = {2}
    MaxExcess = 1
CONSTRAINT Relevant
CHECK_DEADLOCK FALSE
INVARIANT
    IterationSpaceIsSegSpace
