\* The generated code ends, so a state without successors is expected.
SPECIFICATION FairSpec
CONSTANTS
    b0 = b0
    b1 = b1
    Bin = {b0, b1}
    Val <- Residues
    Op <- Mix
    Uninit = Uninit
    Pending = Pending
    Refused = Refused
    MaxThreads = 3
CHECK_DEADLOCK FALSE
INVARIANTS
    TypeOK
    IInv
PROPERTIES
    IsHistogram
