CONSTANTS
    Processes = {p1, p2, p3}
    Nodes = 2
SPECIFICATION Spec
INVARIANTS TypeOK MagicMeansComplete
PROPERTIES HandsOutCompleteDags UndisturbedCallsSucceed
