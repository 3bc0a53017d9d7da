\* One file, with one input and perhaps no output.
SPECIFICATION Spec
CONSTANTS
    map = map
    oldMap = oldMap
    scan = scan
    Nothing = Nothing
    File <- OneFile
    Files <- Alone
    Base <- BaseName
    MaxBlocks = 1
CHECK_DEADLOCK FALSE
INVARIANT
    NotSkipped
