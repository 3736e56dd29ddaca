\* Two files, two runs, one signal or lost connection.  A cover may add no block.
CONSTANTS
    f1 = f1
    f2 = f2
    File = {f1, f2}
    NoFile = NoFile
    Nothing = Nothing
    Plan <- OneTree
    MinNew = 0
    MaxNew = 2
    MaxQueue = 20
    Desired = 2
    MaxSession = 2
    MaxFault = 1
SPECIFICATION Spec
\* A ticket with nothing to send waits for ever.
CHECK_DEADLOCK FALSE
INVARIANTS
    TypeOK
    SummaryComplete
    BlockTableStored
    MovedIsInFlight
    ByeIsLast
    NoLostWakeup
    NeverAborts
    StuckHasNothingNew
PROPERTY Implements
