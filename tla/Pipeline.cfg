\* Three calls on a queue of one: the queue fills, batches of two are sent
\* by size and smaller ones by the ticker, and the second attempt is the last.
SPECIFICATION PipeSpec
CONSTANTS
    c1 = c1
    c2 = c2
    c3 = c3
    k1 = k1
    k2 = k2
    Calls <- ThreeCalls
    Keys <- TwoKeys
    KeyOf <- SharedKey
    QueueSize = 1
    BatchSize = 2
    MaxAttempts = 2
\* The binary really stops: Run returns and every Submit has been answered.
CHECK_DEADLOCK FALSE
INVARIANTS
    RowsKept
    NothingStranded
PROPERTIES
    AlwaysExits
    AcceptedEventuallyLands
