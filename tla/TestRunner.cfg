\* The runner exits, so a state without successors is expected.
SPECIFICATION Spec
CONSTANTS
    map = map
    oldMap = oldMap
    scan = scan
    Nothing = Nothing
    File <- ThreeFiles
    Files <- InTurn
    Base <- BaseName
    MaxBlocks = 2
CHECK_DEADLOCK FALSE
INVARIANTS
    TypeOK
    OwnProgram
    IInv
    CompleteFiles
    ExitCode
