CONSTANTS
    v = v
    orc = orc
    NoAccount = NoAccount
    Accounts = {v, orc}
    AppOracle = orc
    Viewer = v
    Traders = {v}
    LOOKBACK = 1
    LIMIT = 2
    EVENT_TTL = 1
    TIMEOUT = 1
    MAX_INT64 = 15
    MaxLedger = 2
    MaxCalls = 3
    LiquidityArgs = {20}
    FundingArgs = {13}
    Amounts = {10, 20}
    Limits = {0, 1000}
    MAX_FUNDING = 1000
    MaxSold = 20
    Cost <- MCcost
    InitialLiquidity <- MCinitial_liquidity
SPECIFICATION DetailSpec
INVARIANTS
    BalancesShownAreReal
    ChartWithinMarket
    
PROPERTIES
    PageAndReadersFinish
