CONSTANTS
    SCALE_FACTOR = 1000
    LN2_SCALED = 693
    LiquidityParams = {1000}
    Step = 10
    MaxSkew = 1
SPECIFICATION Spec
PROPERTY BuyCostPositive
CHECK_DEADLOCK FALSE
