CONSTANTS
    a1 = a1
    a2 = a2
    a3 = a3
    NoAccount = NoAccount
    Accounts = {a1, a2, a3}
    LiquidityArgs = {0, 60, 100}
    FundingArgs = {41, 69, 2000}
    Amounts = {0, 49, 98}
    Limits = {0, 1000}
    MAX_FUNDING = 1000
    MaxSold = 196
    Cost <- MCcost
    InitialLiquidity <- MCinitial_liquidity
SYMMETRY Symmetry
SPECIFICATION Spec
INVARIANT WinnerCanAlwaysClaim
CHECK_DEADLOCK FALSE
