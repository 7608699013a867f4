SPECIFICATION FairSpec
CONSTANTS
    Main = main
    Workers = {w1, w2, w3}
    NoThread = none
    MaxTasks = 4
INVARIANTS CountIsExact WaitIsBarrier NoMissedSignal
PROPERTY WaitReturns
