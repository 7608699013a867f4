SPECIFICATION FairSpec
CONSTANTS
    N = 3
    K = 2
    Bails = {0, 1}
    SocketSize = 1
    MaxFaults = 2
    None = none
INVARIANTS OnePlacePerFile LiveWorkersIsExact InflightAgrees ResultsAreTrue ReportIsMerged
PROPERTIES Terminates ImplementsTestRun
CHECK_DEADLOCK FALSE
