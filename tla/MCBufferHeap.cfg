SPECIFICATION Spec

CONSTANTS
    Blocks = {x1, x2, x3}
    ClientIds = {c1, c2}
    Lines = {m1, m2}
    BUFFER_LINE_AMOUNT = 1
    NULL = NULL
    MaxNew = 4

INVARIANTS ListIsLinked NothingFreedIsUsed LinesInOnePlace LostOnlyAfterLastRemoved

\* nothing follows clear_all_msg_buffers, nor undefined behaviour
CHECK_DEADLOCK FALSE
