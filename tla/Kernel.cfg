\* The operation ends, so a state without successors is expected.
SPECIFICATION Spec
CONSTANTS
    i = i
    j = j
    c = c
    x1 = x1
    x2 = x2
    xs = xs
    yss = yss
    NoVal = NoVal
    Gtids <- TwoIds
    Binders <- TwoBinders
    Scalar <- OneScalar
    ArrayRank <- Arrays
    Content <- Contents
    Val = {0, 1, 2, 3, 4}
    Apply <- Minus
    Operator <- Combine
    Neutral = 0
    Extent = {0, 2}
    MaxExcess = 0
CONSTRAINT Relevant
CHECK_DEADLOCK FALSE
INVARIANTS
    TypeOK
    IterationSpaceIsSegSpace
    KernelMeaning
