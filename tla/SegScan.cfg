\* The generated code ends, so a state without successors is expected.
SPECIFICATION FairSpec
CONSTANTS
    s = s
    t = t
    Uninit = Uninit
    Pending = Pending
    Row <- Rows
    Val <- Maps
    Neutral <- Identity
    Op <- Compose
    Out <- Tagged
    Post <- Tag
    MaxWidth = 2
CHECK_DEADLOCK FALSE
INVARIANTS
    TypeOK
    IInv
PROPERTIES
    IsSegScan
    WrittenOnce
