SPECIFICATION FairSpec

CONSTANTS
    HDRSIZE = 2
    MaxLen = 3
    MaxSends = 3

INVARIANTS TypeOK DamageStartsAtShortRead EndLosesNothing
PROPERTY ReaderEnds

\* nothing happens after the reader has ended and the writer has closed
CHECK_DEADLOCK FALSE
