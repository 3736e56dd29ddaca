\* One backup, of a file that is longer than a block and ends in a part of one.
CONSTANTS
    Byte <- Bytes
    Junk = Junk
    NoSum = NoSum
    Content <- Contents
    BlockLength = 4
    Word = 2
    Checksum = {0, 1, 2, 3}
    Weak <- LowHalf
    MaxBackup = 1
    Base = 4
    M16 = 4
SPECIFICATION HashSpec
INVARIANT
    CoverWhole
