\* Three calls on a queue of one, one of them preempted between its selects while
\* the writer drains and stops.
SPECIFICATION Spec
CONSTANTS
    c1 = c1
    c2 = c2
    c3 = c3
    k1 = k1
    k2 = k2
    Calls <- ThreeCalls
    Keys <- TwoKeys
    KeyOf <- SharedKey
    QueueSize = 1
    BatchSize = 2
    MaxAttempts = 2
\* The writer really stops: Run returns and every Submit has been answered.
CHECK_DEADLOCK FALSE
INVARIANTS
    AcceptedLands
