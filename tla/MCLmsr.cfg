CONSTANTS
    SCALE_FACTOR = 1000
    LN2_SCALED = 693
    LiquidityParams = {20, 50, 110}
    Step = 5
    MaxSkew = 6
SPECIFICATION Spec
INVARIANTS
    CostBracket
    PricesSumToOne
    LnInvertsExp
PROPERTIES
    MarginalPriceBounded
    PricesDirectional
CHECK_DEADLOCK FALSE
