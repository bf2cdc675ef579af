\* A node too slow for one interval, on a fully configured pool.
SPECIFICATION Spec
CONSTANTS
    Interval = 4
    RpcTimeout = 2
    WethDec = 3
    UsdcDec = 1
    MaxTokenDecimals = 4
    Pools <- OnePool
    Usdcs <- OneUsdc
    MaxBlocks = 1
INVARIANT
    StopsOnlyWhenTold
CHECK_DEADLOCK FALSE
