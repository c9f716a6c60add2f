SPECIFICATION FairSpec
CONSTANTS
    Nicks = {a, b, Empty}
    Channels = {}
    LikePairs <- MCExact
    Threads = {t1, t2}
    Empty = Empty
    Commands = {"chat"}
    BufferLines = 2
    NickTries = 1
    MaxSessions = 1
    MaxSends <- TwoAndOne
    MaxCrashes = 0
PROPERTIES MailIsDelivered ClosedSessionsEnd
CHECK_DEADLOCK FALSE
