CONSTANTS
    u1 = u1
    x1 = x1
    orc = orc
    NoAccount = NoAccount
    Accounts = {u1, x1, orc}
    Users = {u1}
    Outsiders = {x1}
    AppOracle = orc
    r1 = r1
    r2 = r2
    RequestIds = {r1, r2}
    Slippages = {6, 11}
    MAX_INT64 = 51
    TokenCodes = {10, 13}
    LiquidityArgs = {20}
    FundingArgs = {13}
    Amounts = {51}
    Limits = {0, 1000}
    MAX_FUNDING = 1000
    MaxSold = 102
    Cost <- MCcost
    InitialLiquidity <- MCinitial_liquidity
    PriceOverflows <- MCprice_overflows
SPECIFICATION FlowSpec
INVARIANTS
    NothingToClaimIsTrue
CHECK_DEADLOCK FALSE
