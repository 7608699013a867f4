SPECIFICATION FairSpec
CONSTANTS
    Threads = {t1, t2, t3}
    NoThread = none
    WeakCas = TRUE
INVARIANTS NoForgottenSleeper NoFalseDeadlockReport
PROPERTIES Progress ImplementsLock
