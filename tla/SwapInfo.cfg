CONSTANTS
    InAmounts = {1, 3, 17}
    OutAmounts = {5}
    FeeAmounts = {2}
    MaxI64 = 15
    PoolReserve = 5
    UserReserve = 14
    Precision = 7
    MaxTrades = 2
SPECIFICATION Spec
INVARIANTS
    TypeOK
    TradesRecovered
    LoneTradeAgrees
    NetDirection
