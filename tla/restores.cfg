\* An undamaged archive of one file.
CONSTANTS
    f1 = f1
    f2 = f2
    File = {f1}
    Blocks <- TwoLists
    Names <- OneName
    Arguments <- OneLine
    Desired = 2
    MaxDamage = 0
    MaxFault = 0
SPECIFICATION FairSpec
PROPERTIES
    Restores
\* The client waits for ever when all is done.
CHECK_DEADLOCK FALSE
