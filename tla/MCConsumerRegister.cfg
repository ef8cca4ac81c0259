SPECIFICATION Spec
CONSTANTS
    g1 = g1
    g2 = g2
    Groups = {g1, g2}
    MaxRestarts = 2
    MaxConnections = 2
    MaxOutages = 1
    MayStop = FALSE
SYMMETRY SymmetricGroups
INVARIANTS TypeOK NoFailureForgotten EveryListenerCanBeStopped
CHECK_DEADLOCK FALSE
