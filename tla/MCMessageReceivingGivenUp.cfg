SPECIFICATION Spec
CONSTANTS
    Messages = {m1}
    NoMessage = NoMessage
    Subscribed = {m1}
    Answered = {}
    Nodes = {n1}
    FailedRetryCount = 3
    DefaultRetryCount = 2
    MaxArrivals = 1
    MaxRows = 2
    Timely = TRUE
    RetriesInTime = TRUE
    StartsFirst = FALSE
    MaxFailures = 0
    MaxDbFaults = 0
    MaxBrokerFaults = 0
    MaxCrashes = 1
    MaxFaults = 1
CHECK_DEADLOCK FALSE
INVARIANT GivenUpHasNoSubscriber
