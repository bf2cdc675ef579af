\* Trades under the two sets of constants MCHandlers gives; candles with an
\* outage within the replay window, three connections, skipped intervals.
SPECIFICATION HandlersSpec
CONSTANTS
    Narrow <- NarrowBuckets
    Wide <- WideBuckets
    Window = 2
    Outage = 1
    MaxCandle = 6
    MaxChange = 1
    MaxConns = 3
\* The bounds on time and connections end a behaviour.
CHECK_DEADLOCK FALSE
INVARIANTS
    RowIsWhole
    HolesAreTold
    BarsAreFinal
