\* Two orders, or one and its cancel, over two lives of the process on one
\* fills table; an order of 3 prints as 1 and 2.
SPECIFICATION FairSpec
CONSTANTS
    ClOrdID = {1, 2}
    Terms <- AllTerms
    Touches <- TwoTouches
    PartialThreshold = 1
    PartialSlices = 2
    SlippageBps = 100
    Latency = 1
    BookPoll = 1
    BookMaxAge = 1
    MaxNow = 2
    MaxMessages = 2
    MaxRuns = 2
\* The engine really stops: its context ends or it cannot record a fill.
CHECK_DEADLOCK FALSE
INVARIANTS
    ReportedIsRecorded
    RowsAddUp
    
PROPERTIES
    ImplementsOrderLife
    NobodyWaits
