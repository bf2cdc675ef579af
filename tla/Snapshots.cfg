\* The book over two connections, a lost or garbled frame, two boundaries; the
\* sampler over two boundaries of each set of feeds, three of the timer alone.
SPECIFICATION SnapshotsSpec
CONSTANTS
    Prices <- TwoPrices
    OpeningBooks <- OneBid
    MaxQty = 1
    bookDepth = 1
    Interval = 2
    Quiet = 1
    readTimeout = 1
    backoffResetAfter = 1
    BackoffBase = 1
    BackoffMax = 1
    MaxTime = 4
    MaxFrames = 3
    MaxInFlight = 1
    MaxMoves = 1
    MaxDials = 2
    interval = 2
    maxQuoteAge = 1
    maxMarkAge = 1
    maxFundingAge = 1
    maxSessionAge = 1
    Closed = {4}
    Lateness = 1
    Busy = 1
    SamplerTime <- FeedTime
    SamplerSteps <- FeedSteps
\* The bounds on time and connections end a behaviour.
CHECK_DEADLOCK FALSE
INVARIANTS
    OneGapPerDrought
    
PROPERTIES
    
    EachBoundaryOnce
