SPECIFICATION Spec
CONSTANTS
    p1 = p1
    p2 = p2
    t1 = t1
    t2 = t2
    Publishers = {p1}
    Transactions = {t1, t2}
    NoTx = NoTx
    Noop = Noop
    MaxMessages = 2
    MaxCrashes = 0
    MixedUse = TRUE
    ReuseAfterRollback = FALSE
CHECK_DEADLOCK FALSE
PROPERTY CommittedWhenAsked
