\* Two processes, one key, contents of two chunks, one config file.
CONSTANTS
    Process = {p1, p2}
    Key = {k1}
    Phrase = {w1, w2}
    Name = {n1}
    Content = {long}
    Long = {long}
    Type = {"base_transport", "no_transport", "fs"}
    None = None
    MaxId = 2
    MaxText = 2
    MaxFault = 1
SPECIFICATION Spec
SYMMETRY Swap
VIEW Seen
CHECK_DEADLOCK FALSE
INVARIANTS
    TypeOK
    Authentic
PROPERTIES
    LoneReads
