\* A file is visited twice.
CONSTANTS
    f1 = f1
    f2 = f2
    File = {f1, f2}
    NoFile = NoFile
    Nothing = Nothing
    Plan <- OverlappingTrees
    MinNew = 1
    MaxNew = 1
    MaxQueue = 20
    Desired = 2
    MaxSession = 2
    MaxFault = 0
SPECIFICATION Spec
INVARIANTS
    NoWrap
\* The second ticket of a file may wait for ever.
CHECK_DEADLOCK FALSE
