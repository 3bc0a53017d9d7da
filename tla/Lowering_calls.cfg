\* Compilation ends, so a state without successors is expected.
SPECIFICATION Spec
CONSTANTS
    f = f
    g = g
    b = b
    c = c
    x = x
    n1 = n1
    n2 = n2
    n3 = n3
    n4 = n4
    n5 = n5
    n6 = n6
    NoValue = NoValue
    Fun <- CallsFun
    ProgFuns <- CallsProgFuns
    BlackBoxFun <- CallsBlackBoxFun
    Name <- CallsName
    Consts <- CallsConsts
    Params <- CallsParams
    MaxPattern = 1
    MaxBlocks = 5
CONSTRAINT CallsInOrder
CHECK_DEADLOCK FALSE
INVARIANTS
    Dominance
    InsertionPoint
    Symbols
    PrintedModule
    IInv
