\* Two files, two objects, the client started three times; lengths below and above the range.
CONSTANTS
    f1 = f1
    f2 = f2
    File = {f1, f2}
    Length = {2, 4}
    ShortRange = 3
    Preference = {"block_length", "always_compare_hash"}
    Stored = {"block_length"}
    MaxObject = 2
    MaxStart = 3
    Base = 3
    ShortBytes = 1
    WordBytes = 2
    MinSize = 4
    SumBytes = 1
SPECIFICATION Spec
SYMMETRY Swap
\* When the client is not started again, nothing happens.
CHECK_DEADLOCK FALSE
INVARIANTS
    TypeOK
    OneFilePerId
    SummaryReaches
    ViewShows
PROPERTY PassedIsKept
