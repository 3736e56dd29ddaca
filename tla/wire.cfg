\* Four conversations, one failed write.
CONSTANTS
    Base = 10
    ShortBytes = 1
    WordBytes = 2
    MinSize = 8
    Scripts <- Conversations
    PipeSize = 6
    BufSize = 6
    MaxError = 1
SPECIFICATION FairSpec
\* Both sides fall silent when everything has been said.
CHECK_DEADLOCK FALSE
INVARIANTS
    TypeOK
    Fits
PROPERTIES
    Implements
    Delivered
