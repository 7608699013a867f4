SPECIFICATION ELSpec
CONSTANTS
    Producers = {a}
    Nodes = {a}
    Work = {}
    Cpp = {a}
    Stray = {}
    Null = null
    MaxPushed = 1
    MaxImmediates = 1
INVARIANT CppKeepsLoopAlive
CHECK_DEADLOCK FALSE
