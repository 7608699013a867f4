SPECIFICATION BFairSpec
CONSTANTS
    Producers = {p1, p2, p3}
    Nodes = {a, b, c}
    Null = null
    MaxPushed = 4
INVARIANTS Fifo NoNullBack NoStaleLink
PROPERTY EveryBuildIsTaken
CHECK_DEADLOCK FALSE
