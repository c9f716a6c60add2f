SPECIFICATION FairSpec

CONSTANTS
    n1 = n1
    n2 = n2
    Nicks = {n1, n2}
    LongNicks = {}
    Empty = Empty
    f1 = f1
    c1 = c1
    w1 = w1
    Recipients = {f1, c1, w1}
    Typed <- MCTyped
    NickTries = 3
    MAXCHAT = 1
    MAXCHAN = 1
    Mistakes = 2
    MaxLines = 2
    MaxMail = 0

PROPERTY LeavingEnds

CHECK_DEADLOCK FALSE
