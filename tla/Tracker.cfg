\* One order, and every report a venue could make about it.
SPECIFICATION FairSpec
CONSTANTS
    OrderID = {o1}
    ExecID = {e1, e2}
    NoExecID = NoExecID
    Qtys = {1, 2}
    Cums = {0, 1, 2, 3}
    Leaves = {0, 1}
    VenueTimes = {0, 1}
    Timeout = 1
    MaxNow = 2
INVARIANTS
    TypeOK
    AdoptionIsSafe
    MetricsExact
PROPERTIES
    ImplementsOrderLife
    OverdueIsCounted
