SPECIFICATION FairSpec
CONSTANTS
    Threads = {t1, t2, t3}
    NoThread = none
    MaxWakes = 2
INVARIANTS WordIsBalanced NoLostSignal
PROPERTY ImplementsCond
CHECK_DEADLOCK FALSE
