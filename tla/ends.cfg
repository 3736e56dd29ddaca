\* Every run ends, whatever is interrupted, and commits its tickets if nothing is.
CONSTANTS
    f1 = f1
    f2 = f2
    File = {f1, f2}
    NoFile = NoFile
    Nothing = Nothing
    Plan <- OneTree
    MinNew = 1
    MaxNew = 1
    MaxQueue = 20
    Desired = 2
    MaxSession = 2
    MaxFault = 1
SPECIFICATION FairSpec
PROPERTIES
    RunEnds
    BackupCommits
