SPECIFICATION FairSpec
CONSTANTS
    g1 = g1
    g2 = g2
    Groups = {g1}
    MaxRestarts = 2
    MaxConnections = 3
    MaxOutages = 2
    MayStop = TRUE
PROPERTIES ComesToListen
CHECK_DEADLOCK FALSE
