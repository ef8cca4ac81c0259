SPECIFICATION FairSpec
CONSTANTS
    Messages = {m1, m2}
    NoMessage = NoMessage
    Subscribed = {m1}
    Answered = {m1}
    Nodes = {n1, n2}
    FailedRetryCount = 2
    DefaultRetryCount = 1
    MaxArrivals = 1
    MaxRows = 2
    Timely = TRUE
    RetriesInTime = TRUE
    StartsFirst = TRUE
    MaxFailures = 1
    MaxDbFaults = 1
    MaxBrokerFaults = 1
    MaxCrashes = 1
    MaxFaults = 2
CHECK_DEADLOCK FALSE
INVARIANTS TypeOK AckedIsStored ConsumedOnce OneCopy SucceededWasInvoked ThresholdIsReported
PROPERTIES ImplementsOutbox SettlesEveryMessage
