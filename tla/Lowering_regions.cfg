\* Compilation ends, so a state without successors is expected.
SPECIFICATION Spec
CONSTANTS
    f = f
    g = g
    b = b
    c = c
    x = x
    n1 = n1
    n2 = n2
    n3 = n3
    n4 = n4
    n5 = n5
    n6 = n6
    NoValue = NoValue
    Fun <- RegionsFun
    ProgFuns <- RegionsProgFuns
    BlackBoxFun = {}
    Name <- RegionsName
    Consts = {}
    Params <- RegionsParams
    MaxPattern = 1
    MaxBlocks = 5
CONSTRAINT RegionsInOrder
CHECK_DEADLOCK FALSE
INVARIANTS
    TypeOK
    Dominance
    LexicalScoping
    OpenBlocks
    IInv
PROPERTY
    SealedBlocks
