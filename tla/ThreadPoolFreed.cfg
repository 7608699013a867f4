SPECIFICATION Spec
CONSTANTS
    Workers = {w1, w2}
    Main = Main
    NoThread = NoThread
    Tasks = {t1, t2}
    NoTask = NoTask
    Capacity = 2
    SpawnFails = FALSE
INVARIANT
    PoolOutlivesNotify
CHECK_DEADLOCK FALSE
