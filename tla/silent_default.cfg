\* A preference that nothing stores ends the client.
CONSTANTS
    f1 = f1
    f2 = f2
    File = {f1, f2}
    Length = {2, 4}
    ShortRange = 3
    Preference = {"always_compare_hash"}
    Stored = {}
    MaxObject = 2
    MaxStart = 3
    Base = 3
    ShortBytes = 1
    WordBytes = 2
    MinSize = 4
    SumBytes = 1
SPECIFICATION Spec
SYMMETRY Swap
\* When the client is not started again, nothing happens.
CHECK_DEADLOCK FALSE
INVARIANT SilentDefault
