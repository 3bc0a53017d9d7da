\* The flags are built and no more, so a state without successors is expected.
SPECIFICATION Spec
CONSTANTS
    n = n
    m = m
    SizeName = {n, m}
    Anonymous = Anonymous
    Extent = {0, 2, 3}
    MaxInferred = 2
    MaxExplicit = 2
    MaxRank = 2
SYMMETRY Renamings
CHECK_DEADLOCK FALSE
INVARIANTS
    TypeOK
    FlagsMeanTheTest
    EntryHandled
