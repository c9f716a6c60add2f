SPECIFICATION FairSpec

CONSTANTS
    n1 = n1
    n2 = n2
    Nicks = {n1, n2}
    LongNicks <- MCLong
    Empty = Empty
    f1 = f1
    c1 = c1
    w1 = w1
    Recipients = {f1, c1, w1}
    Typed <- MCTyped
    NickTries = 3
    MAXCHAT = 1
    MAXCHAN = 1
    Mistakes = 2
    MaxLines = 3
    MaxMail = 1

INVARIANTS TypeOK HandshakeAgrees
PROPERTIES TextInConversation QuitEnds NickIsAnswered

\* the user may stop typing, and an empty nick leaves both ends waiting
CHECK_DEADLOCK FALSE
