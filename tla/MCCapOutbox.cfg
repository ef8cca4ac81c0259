SPECIFICATION FairSpec
CONSTANTS
    Publishers = {p1}
    Transactions = {t1}
    NoTx = NoTx
    Noop = Noop
    MaxMessages = 2
    MixedUse = FALSE
    ReuseAfterRollback = FALSE
    NoMessage = NoMessage
    Nodes = {n1}
    FailedRetryCount = 3
    DefaultRetryCount = 2
    Timely = TRUE
    RetriesInTime = TRUE
    MaxBrokerFaults = 1
    MaxDbFaults = 1
    MaxCrashes = 1
    Home = n1
CHECK_DEADLOCK FALSE
INVARIANTS SentOnce OneCopy
PROPERTIES SucceededIsFinal RetriesNeverLost ImplementsOutbox CommittedIsSettled
