CONSTANTS
    orc = orc
    x1 = x1
    None = None
    Accounts = {orc, x1}
    AppOracle = orc
    s1 = s1
    s2 = s2
    Salts = {s1, s2}
    LmsrWasm = LmsrWasm
    Wasms = {LmsrWasm}
    t1 = t1
    Tokens = {t1}
    LiquidityArgs = {60}
    FundingArgs = {41}
    MAX_FUNDING = 1000
    InitialLiquidity <- MCinitial_liquidity
    d1 = d1
    DeployIds = {d1}
    FormNumbers = {0, 1, 81, 121, 126}
    PRECISION = 2
    MAX_INT64 = 60
    p1 = p1
    ListPages = {p1}
    Reload = Reload
    TTL = 1
    REVALIDATION = 1
    TIMEOUT = 1
    MaxTime = 3
SPECIFICATION ListingSpec
INVARIANTS
    FormCoversSubsidy
    DeployedMarketsShown
PROPERTY ListAnswered
CHECK_DEADLOCK FALSE
