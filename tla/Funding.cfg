\* Five hours of three samples, a timer up to five intervals late, two
\* restarts; frames of the trades at most one margin apart, a late timer, one
\* reconnect, two windows of two buckets; two starts of the backfill over six
\* minutes, pages of two, an hour of maintenance.
SPECIFICATION SeriesSpec
CONSTANTS
    S = 3
    MinSamples = 2
    Retention = 6
    Closed <- SecondHour
    Lateness = 5
    MaxTime = 15
    MaxCrashes = 2
    Unmarkable = TRUE
    NoMark = NoMark
    B = 4
    Buckets = 2
    Grace = 2
    markMargin = 2
    Beat = 2
    MaxLate = 2
    BucketCap = 3
    MidCap = 4
    Showings <- TradedAndQuoted
    MaxReconnects = 1
    MarksEnd = 22
    N = 6
    PerpTrades <- TwoOrAll
    PageLen = 2
    HourLen = 3
    SampleLen = 1
    ClosedHours = {3}
    MaxStarts = 2
\* The bounds on time and on the starts end a behaviour.
CHECK_DEADLOCK FALSE
INVARIANTS
    SmoothedAgainstThePast
    AsksForGaps
    SpotHeals
PROPERTIES
    NoHourLeft
    
