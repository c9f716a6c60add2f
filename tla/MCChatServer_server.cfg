SPECIFICATION Spec
CONSTANTS
    Nicks = {a, b, Empty}
    Channels = {c}
    LikePairs <- MCExact
    Threads = {t1, t2}
    Empty = Empty
    Commands = {"chan", "exit", "quit"}
    BufferLines = 2
    NickTries = 2
    MaxSessions = 1
    MaxSends <- Two
    MaxCrashes = 1
SYMMETRY Symm
INVARIANTS TypeOK SessionsAreRows MembershipsAreAskedFor NoEcho SenderOrderKept
CHECK_DEADLOCK FALSE
