SPECIFICATION FairSpec
CONSTANTS
    Workers = {0, 1}
    Threads = {t1, t2}
    Nobody = Nobody
    MaxWorkerId = 1
    SequenceMask = 1
    Span = 2
    ClockKept = TRUE
    MaxClock = 2
    MaxSetbacks = 1
    MaxRestarts = 1
    MaxIds = 4
INVARIANTS TypeOK IdsAreUnique
PROPERTIES SpinEnds
CHECK_DEADLOCK FALSE
