\* An order the venue works and one it cannot; a drop, a restart of either
\* process, orderly or not, and a consumer that stops draining; the record of
\* the session over two processes and four callbacks, with numbers past what the
\* column holds.
SPECIFICATION SessionSpec
CONSTANTS
    o1 = o1
    o2 = o2
    None = None
    CancelId = CancelId
    Orders <- TwoOrders
    Terms <- MixedTerms
    ReportBuffer = 1
    Contract = 2
    MaxDrops = 1
    MaxVenueLives = 2
    MaxLives = 2
    BrokenConsumer = TRUE
    MaxNow = 4
    MaxSeqNum = 3
    MaxResends = 1
    MaxInt32 = 2
    MaxRecorders = 2
\* A process that is not restarted stops.
CHECK_DEADLOCK FALSE
INVARIANTS
    WorkedOnce
    ReceivedIsAccounted
    QuietAgreement
PROPERTIES
    ReportsArrive
    StopReturns
    RecordIsSound
