------------------------------- MODULE MCLmsr -------------------------------
(***************************************************************************)
(* Walks over the quantities (q_yes, q_no) a market can reach by buying    *)
(* in steps of Step, and checks the fixed-point functions of Lmsr at each  *)
(* point and along each step against what the real-valued LMSR promises.   *)
(***************************************************************************)
EXTENDS Lmsr

CONSTANTS LiquidityParams,   \* the values of b that are tried
          Step,              \* tokens bought by one step of the walk
          MaxSkew            \* quantities stay at or below MaxSkew * b

ASSUME WalkAssumption ==
    LiquidityParams \subseteq Nat \ {0} /\ Step \in Nat /\ MaxSkew \in Nat

\* LN2_SCALED is no less than the series of ln_scaled below x = 2.
ASSUME SeriesAssumption == \A y \in 0 .. SCALE_FACTOR - 1 : LnSeries(y) <= LN2_SCALED

VARIABLES b, q_yes, q_no

vars == <<b, q_yes, q_no>>

Init == b \in LiquidityParams /\ q_yes = 0 /\ q_no = 0

BuyYes == q_yes + Step <= MaxSkew * b /\ q_yes' = q_yes + Step /\ UNCHANGED <<b, q_no>>
BuyNo  == q_no + Step <= MaxSkew * b /\ q_no' = q_no + Step /\ UNCHANGED <<b, q_yes>>

Next == BuyYes \/ BuyNo

Spec == Init /\ [][Next]_vars
-----------------------------------------------------------------------------
\* ln_scaled stops after LN_TERMS terms, which near x = 2 leaves out up to
\* 1 / (2 * (LN_TERMS + 1)), less than 2%, besides a few units of rounding.
LnTolerance == SCALE_FACTOR \div 50 + 4

\* What that error, times b, and rounding to b / SCALE_FACTOR can add to or
\* take from the difference of two cost values.
CostSlack == 1 + (b * LnTolerance) \div SCALE_FACTOR

(***************************************************************************)
(* The cost lies between the larger quantity (so the collateral it stands  *)
(* for covers every winning token) and that plus the subsidy that          *)
(* initial_liquidity(b) demands, and the untraded market costs exactly the *)
(* subsidy. This is what makes the funding check of initialize sufficient. *)
(***************************************************************************)
CostBracket ==
    /\ cost(0, 0, b) = initial_liquidity(b)
    /\ max(q_yes, q_no) <= cost(q_yes, q_no, b)
    /\ cost(q_yes, q_no, b) <= max(q_yes, q_no) + initial_liquidity(b)

(***************************************************************************)
(* One purchase costs at least nothing and at most one unit of collateral  *)
(* per token, up to CostSlack: calculate_buy_cost never makes a token much *)
(* dearer than what it can redeem for.                                     *)
(***************************************************************************)
MarginalPriceBounded ==
    [][cost(q_yes', q_no', b) - cost(q_yes, q_no, b)
         \in -CostSlack .. Step + CostSlack]_vars

(***************************************************************************)
(* A purchase has a positive cost, as the test test_buy_cost_positive of   *)
(* lmsr.rs asserts ("Buy cost should be positive") for one purchase.       *)
(***************************************************************************)
BuyCostPositive ==
    [][cost(q_yes', q_no', b) - cost(q_yes, q_no, b) > 0]_vars

(***************************************************************************)
(* The two prices of calculate_price are probabilities and sum to one, up  *)
(* to the unit that truncation drops.                                      *)
(***************************************************************************)
PricesSumToOne ==
    ~price_overflows(q_yes, q_no, b) =>
        LET yes == calculate_price(q_yes, q_no, 0, b)
            no  == calculate_price(q_yes, q_no, 1, b)
        IN  yes >= 0 /\ no >= 0 /\ yes + no \in {SCALE_FACTOR - 1, SCALE_FACTOR}

\* Neither is negative and the other positive.
SameSign(x, y) == (x >= 0 /\ y >= 0) \/ (x <= 0 /\ y <= 0)

(***************************************************************************)
(* The prices of the list of markets, estimated without b, are             *)
(* "directionally correct": the same outcome leads as in the contract's    *)
(* prices, and a purchase never moves the two prices of an outcome in      *)
(* opposite directions.                                                    *)
(***************************************************************************)
PricesDirectional ==
    [][LET price == calculate_price(q_yes, q_no, 0, b)
           shown == calculatePrices(q_yes, q_no)
       IN  ~price_overflows(q_yes', q_no', b) =>
             /\ SameSign(price - calculate_price(q_yes, q_no, 1, b), shown[1] - shown[2])
             /\ SameSign(calculate_price(q_yes', q_no', 0, b) - price,
                         calculatePrices(q_yes', q_no')[1] - shown[1])]_vars

(***************************************************************************)
(* ln_scaled inverts exp_scaled for every exponent a price calculation     *)
(* uses, up to LnTolerance.                                                *)
(***************************************************************************)
LnInvertsExp ==
    LET x == OverB(q_yes, b)
    IN  ln_scaled(exp_scaled(x)) - x \in -LnTolerance .. LnTolerance

(***************************************************************************)
(* e^x is at most 1 for x <= 0, the least that the accuracy the comment on *)
(* EXP_ITERATIONS claims for [-20, 20] means for the exponent of cost. The *)
(* series keeps it only down to about -8.8, so it is no invariant but the  *)
(* condition under which CostBracket is proved.                            *)
(***************************************************************************)
ExpOfDiffAtMostOne ==
    exp_scaled(min(OverB(q_yes, b), OverB(q_no, b))
                 - max(OverB(q_yes, b), OverB(q_no, b))) <= SCALE_FACTOR
=============================================================================
