SPECIFICATION FairSpec
CONSTANTS
    Messages = {m1}
    NoMessage = NoMessage
    Nodes = {n1, n2}
    FailedRetryCount = 3
    DefaultRetryCount = 2
    Timely = FALSE
    RetriesInTime = TRUE
    MaxBrokerFaults = 6
    MaxDbFaults = 1
    MaxCrashes = 1
CHECK_DEADLOCK FALSE
INVARIANTS TypeOK SucceededWasSent ThresholdIsReported
PROPERTIES ImplementsOutbox SettlesEveryMessage
