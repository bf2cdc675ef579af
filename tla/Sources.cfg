\* The Base poller over every pool and token, polls of one call timeout, two
\* blocks; the account poller over two balances, a long, a short and no
\* position; the stream with the constants MCSources gives.
SPECIFICATION SourcesSpec
CONSTANTS
    Interval = 2
    RpcTimeout = 1
    WethDec = 3
    UsdcDec = 1
    MaxTokenDecimals = 4
    Pools <- AllPools
    Usdcs <- AllUsdcs
    MaxBlocks = 2
    Null = Null
    Margins = {"m1", "m2"}
    Positions <- AnyPosition
    Intraday = {TRUE}
\* A canceled source returns.
CHECK_DEADLOCK FALSE
INVARIANTS
    
    LossesAreTold
PROPERTIES
    
    NeverStuck
