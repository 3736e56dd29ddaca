\* Two clients that push and wait, an action that pushes, a transport that may throw.
CONSTANTS
    c1 = c1
    c2 = c2
    b1 = b1
    b2 = b2
    b3 = b3
    b4 = b4
    b5 = b5
    Client = {c1, c2}
    Worker = Worker
    Nobody = Nobody
    Block = {b1, b2, b3, b4, b5}
    Wait = Wait
    Program <- TwoWaiters
    Acts <- Chain
    BatchSize = 2
    MayThrow = TRUE
SPECIFICATION FairSpec
INVARIANTS
    TypeOK
    NothingLost
    JoinFlushes
PROPERTY WaitReturns
