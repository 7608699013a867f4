SPECIFICATION Spec
CONSTANTS
    Thieves = {t1, t2}
    Capacity = 4
    IndexSize = 8
    Start = 6
    MaxList = 2
    MaxNodes = 6
INVARIANTS SizeIsBounded
PROPERTY ImplementsBuffer
CHECK_DEADLOCK FALSE
SYMMETRY ThiefSymmetry
