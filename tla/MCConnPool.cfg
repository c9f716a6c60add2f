SPECIFICATION FairSpec

CONSTANTS
    Threads = {t1, t2}
    Conns = {c1, c2, c3}
    SQLite = SQLite
    Journal = Journal
    Fds = {0, 1, 2, 3, 4, 5, 6, 7}
    None = None
    Terminal = Terminal
    Null = Null
    Database = Database
    Listener = Listener

INVARIANTS NoLeak StraysBounded OutputGoesNowhere
PROPERTIES KeptOpen WaitingIsAccepted

\* nothing happens when all connections have come and gone, or the process has
CHECK_DEADLOCK FALSE
