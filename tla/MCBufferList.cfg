SPECIFICATION Spec

CONSTANTS
    Threads = {t1, t2}
    Items = {i1, i2, i3}
    ClientIds = {c1, c2}
    NULL = NULL

INVARIANTS PointsForward SerialAppendsKeepList SearchFindsReady

\* the process may die
CHECK_DEADLOCK FALSE
