SPECIFICATION Spec
CONSTANTS
    Workers = {w1, w2}
    Main = Main
    NoThread = NoThread
    Tasks = {t1, t2, t3, t4}
    NoTask = NoTask
    Capacity = 2
    SpawnFails = TRUE
INVARIANTS
    TasksConserved
    OneWakingThread
    NoStrandedTask
    CountsAreExact
    JoinIsSafe
    IdleTasksRun
CHECK_DEADLOCK FALSE
SYMMETRY TaskSymmetry
