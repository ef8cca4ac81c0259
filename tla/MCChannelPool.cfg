SPECIFICATION FairSpec
CONSTANTS
    Threads = {t1, t2, t3}
    Channels = {c1, c2, c3, c4, c5}
    Nobody = Nobody
    PoolSize = 2
    MayDispose = TRUE
INVARIANTS CountIsExact PoolWithinSize ChannelsExclusive
PROPERTY SpinTerminates
CHECK_DEADLOCK FALSE
