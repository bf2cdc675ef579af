\* The read model with two reads in a refresh of two units of time, rows going
\* stale between them, outages and recoveries for ever (ages are capped, the
\* clock is not); and the process with a probe, every report racing its waits,
\* or without one until it is told to stop.
SPECIFICATION CarrySpec
CONSTANTS
    Reads <- TwoReads
    Market <- PerpOnly
    Polled <- WalletOnly
    StaleAfter = 1
    Every = 2
    Beat = 1
    Starts = {TRUE, FALSE}
    ReportBuffer = 2
    UpdateBuffer = 1
    MaxRetries = 1
\* The process ends.
CHECK_DEADLOCK FALSE
INVARIANTS
    FreshIsFresh
    CleanReturn
PROPERTIES
    FollowsHealth
    AlwaysEnds
