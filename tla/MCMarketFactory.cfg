CONSTANTS
    a1 = a1
    a2 = a2
    None = None
    Accounts = {a1, a2}
    s1 = s1
    s2 = s2
    s3 = s3
    Salts = {s1, s2, s3}
    LmsrWasm = LmsrWasm
    otherWasm = otherWasm
    Wasms = {LmsrWasm, otherWasm}
    t1 = t1
    t2 = t2
    Tokens = {t1, t2}
    LiquidityArgs = {0, 60}
    FundingArgs = {40, 41, 2000}
    MAX_FUNDING = 1000
    InitialLiquidity <- MCinitial_liquidity
SYMMETRY Symmetry
SPECIFICATION Spec
INVARIANTS
    TypeOK
    MarketsMatchLedger
    ListedMarketsFunded
PROPERTIES
    DeploymentsPermanent
    AdminControlsConfig
CHECK_DEADLOCK FALSE
