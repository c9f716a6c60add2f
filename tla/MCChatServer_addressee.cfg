SPECIFICATION Spec
CONSTANTS
    Nicks = {a, b, d, Empty}
    Channels = {}
    LikePairs <- MCExact
    Threads = {t1, t2, t3}
    Empty = Empty
    Commands = {"chat", "quit"}
    BufferLines = 1
    NickTries = 1
    MaxSessions = 1
    MaxSends <- One
    MaxCrashes = 0
INVARIANT OnlyAddresseeReceives
SYMMETRY Symm
CHECK_DEADLOCK FALSE
