SPECIFICATION ELFairSpec
CONSTANTS
    Producers = {a, b, c}
    Nodes = {a, b, c}
    Work = {a}
    Cpp = {b}
    Stray = {c}
    Null = null
    MaxPushed = 3
    MaxImmediates = 1
INVARIANTS RefsAreExact NoJobCutOff NoSleepOnChange RunInOrder
PROPERTY LoopEnds
CHECK_DEADLOCK FALSE
