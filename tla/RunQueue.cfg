SPECIFICATION Spec
CONSTANTS
    Threads = {t1, t2, t3}
    NoThread = none
    Nodes = {a, b, c}
    Null = null
INVARIANTS ConsumerIsExclusive EmptyIsEmpty
PROPERTY ImplementsQueue
