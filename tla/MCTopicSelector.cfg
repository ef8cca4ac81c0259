SPECIFICATION Spec
CONSTANTS
    g1 = g1
    g2 = g2
    Groups = {g1, g2}
    Spelling <- MCSpelling
    Letters = {"a", "b"}
    Subscribers <- MCSubscribers
    Keys <- MCKeys
    NoExecutor = NoExecutor
INVARIANTS AnsweredAsAtFirst RoutedIsFound FoundIsBound
