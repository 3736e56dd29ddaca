\* Three contents of up to eight bytes, in blocks of two words of two bytes; three
\* backups, with changes of the file, interruptions and extractions anywhere.
CONSTANTS
    Byte <- Bytes
    Junk = Junk
    NoSum = NoSum
    Content <- Contents
    BlockLength = 4
    Word = 2
    Checksum = {0, 1, 2, 3}
    Weak <- LowHalf
    MaxBackup = 3
    Base = 4
    M16 = 4
SPECIFICATION HashSpec
INVARIANTS
    KeptIsThere
    CoverReaches
    ExtractTrue
    SumsRoll
    FindsFirst
PROPERTY
    Implements
