SPECIFICATION FairSpec
CONSTANTS
    p1 = p1
    p2 = p2
    t1 = t1
    t2 = t2
    Publishers = {p1}
    Transactions = {t1, t2}
    NoTx = NoTx
    Noop = Noop
    MaxMessages = 4
    MaxCrashes = 1
    MixedUse = FALSE
    ReuseAfterRollback = FALSE
CHECK_DEADLOCK FALSE
INVARIANTS TypeOK EnqueuedIsDurable ThrewIsNotEnqueued NothingStranded EnqueuedOnce
PROPERTIES CommittedWhenAsked CommittedIsEnqueued
