SPECIFICATION FairNewSpec

CONSTANTS
    Msgs = {m1, m2, m3}
    Writers = {w1, w2}
    Pollers = {p1}
    Blockers = {b1}
    N = 2
    NULL = NULL
    Nobody = Nobody
    Garbage = Garbage

INVARIANTS WindowHoldsLateMail OnlyEarlyLinesLost
PROPERTIES CountsLikeMailbox LateLinesTaken

\* nothing is left to do when the messages are used up and the readers are parked
CHECK_DEADLOCK FALSE
