\* The session drops between Submit's check and its send; the record of the
\* session rests.
SPECIFICATION SessionSpec
CONSTANTS
    o1 = o1
    o2 = o2
    None = None
    CancelId = CancelId
    Orders <- TwoOrders
    Terms <- MixedTerms
    ReportBuffer = 1
    Contract = 2
    MaxDrops = 1
    MaxVenueLives = 1
    MaxLives = 1
    BrokenConsumer = FALSE
    MaxNow = 1
    MaxSeqNum = 0
    MaxResends = 0
    MaxInt32 = 0
    MaxRecorders = 1
\* A process that is not restarted stops.
CHECK_DEADLOCK FALSE
PROPERTIES
    AckMeansVenueHasIt
