\* Two files, any two objects of the archive missing or damaged, one fault.
CONSTANTS
    f1 = f1
    f2 = f2
    File = {f1, f2}
    Blocks <- TwoLists
    Names <- InOrder
    Arguments <- CommandLines
    Desired = 2
    MaxDamage = 2
    MaxFault = 1
SPECIFICATION FairSpec
\* The client waits for ever when all is done.
CHECK_DEADLOCK FALSE
INVARIANTS
    TypeOK
    WaitsWithAll
PROPERTIES
    Implements
    Extracts
