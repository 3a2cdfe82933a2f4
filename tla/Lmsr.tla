-------------------------------- MODULE Lmsr --------------------------------
(***************************************************************************)
(* The fixed-point arithmetic of contracts/lmsr_market/src/lmsr.rs: the    *)
(* Taylor series for exp and ln, the LMSR cost function and the price.     *)
(*                                                                         *)
(* Quantities are integers scaled by SCALE_FACTOR (10^7 in the contract, a *)
(* smaller power of ten for TLC, whose integers have 32 bits). Rust's `/`  *)
(* truncates towards zero, which TruncDiv keeps. The checked_* operations  *)
(* that fail do so with MarketError::Overflow; the ones that a reachable   *)
(* input can make fail are the predicates exp_overflows and                *)
(* price_overflows, the rest is the bound MaxSold of LmsrMarket.           *)
(***************************************************************************)
EXTENDS Integers

CONSTANTS SCALE_FACTOR,   \* 1.0 in fixed point
          LN2_SCALED      \* ln(2) in fixed point, rounded to nearest

ASSUME ScaleAssumption ==
    /\ SCALE_FACTOR \in Nat \ {0}
    /\ LN2_SCALED \in 1 .. SCALE_FACTOR

EXP_ITERATIONS == 20
LN_TERMS == 30

\* No i128 needs more halvings or doublings than this.
MaxShift == 127

\* i128 division; every divisor in lmsr.rs is positive.
TruncDiv(a, d) == IF a >= 0 THEN a \div d ELSE -((-a) \div d)

max(a, c) == IF a >= c THEN a ELSE c
min(a, c) == IF a <= c THEN a ELSE c
-----------------------------------------------------------------------------
(***************************************************************************)
(* exp_scaled. The loop leaves early when a term is 0; every later term    *)
(* would be 0 too, so the sum of all EXP_ITERATIONS terms is the same.     *)
(***************************************************************************)
exp_overflows(x) == x > 20 * SCALE_FACTOR

TaylorExp(x, iterations) ==
    LET taylor[n \in 0 .. iterations] ==
          IF n = 0
          THEN [term |-> SCALE_FACTOR, sum |-> SCALE_FACTOR]
          ELSE LET prev == taylor[n-1]
                   term == TruncDiv(prev.term * x, n * SCALE_FACTOR)
               IN  [term |-> term, sum |-> prev.sum + term]
    IN  taylor[iterations].sum

\* Mutant of exp_scaled: the series stops too early.
exp_scaled_four_iterations(x) ==
    IF x < -20 * SCALE_FACTOR THEN 1 ELSE max(TaylorExp(x, 4), 0)

exp_scaled(x) ==
    IF x < -20 * SCALE_FACTOR THEN 1 ELSE max(TaylorExp(x, EXP_ITERATIONS), 0)

(***************************************************************************)
(* ln_scaled: bring x into [1, 2) by halving or doubling, sum the series   *)
(* of ln(1 + y), add the shifts' multiple of ln 2. As in exp_scaled, the   *)
(* early exit only skips terms that are 0. Callers pass x > 0.             *)
(***************************************************************************)
halvings(x) == CHOOSE n \in 0 .. MaxShift :
                 /\ x \div 2^n < 2 * SCALE_FACTOR
                 /\ n > 0 => x \div 2^(n-1) >= 2 * SCALE_FACTOR

doublings(x) == CHOOSE n \in 0 .. MaxShift :
                  /\ x * 2^n >= SCALE_FACTOR
                  /\ n > 0 => x * 2^(n-1) < SCALE_FACTOR

LnSeries(y) ==
    LET series[k \in 0 .. LN_TERMS] ==
          IF k = 0
          THEN [power |-> y, sign |-> 1, sum |-> 0]
          ELSE LET prev == series[k-1]
               IN  [power |-> TruncDiv(prev.power * y, SCALE_FACTOR),
                    sign  |-> -prev.sign,
                    sum   |-> prev.sum + TruncDiv(prev.sign * prev.power, k)]
    IN  series[LN_TERMS].sum

\* Mutant of ln_scaled: the shift is dropped.
ln_scaled_no_shift(x) ==
    IF x >= SCALE_FACTOR THEN LnSeries(x \div 2^halvings(x) - SCALE_FACTOR)
                         ELSE LnSeries(x * 2^doublings(x) - SCALE_FACTOR)

ln_scaled(x) ==
    IF x >= SCALE_FACTOR
    THEN LnSeries(x \div 2^halvings(x) - SCALE_FACTOR)
         + halvings(x) * LN2_SCALED
    ELSE LnSeries(x * 2^doublings(x) - SCALE_FACTOR)
         - doublings(x) * LN2_SCALED
-----------------------------------------------------------------------------
OverB(q, b) == TruncDiv(q * SCALE_FACTOR, b)

\* Mutant of cost: the logarithm is lost.
cost_rounds_to_max(q_yes, q_no, b) ==
    TruncDiv(b * max(OverB(q_yes, b), OverB(q_no, b)), SCALE_FACTOR)

(***************************************************************************)
(* cost: b * (max + ln(1 + e^(min - max))), the log-sum-exp form of        *)
(* b * ln(e^(q_yes/b) + e^(q_no/b)).                                       *)
(***************************************************************************)
cost(q_yes, q_no, b) ==
    LET max_q  == max(OverB(q_yes, b), OverB(q_no, b))
        min_q  == min(OverB(q_yes, b), OverB(q_no, b))
        ln_sum == ln_scaled(SCALE_FACTOR + exp_scaled(min_q - max_q))
    IN  TruncDiv(b * (max_q + ln_sum), SCALE_FACTOR)

(***************************************************************************)
(* calculate_price: e^(q/b) over the sum, without the log-sum-exp form, so *)
(* that it overflows as soon as a quantity exceeds 20 b.                   *)
(***************************************************************************)
price_overflows(q_yes, q_no, b) ==
    exp_overflows(OverB(q_yes, b)) \/ exp_overflows(OverB(q_no, b))

\* Mutant of calculate_price: both prices are those of the first outcome.
calculate_price_first(q_yes, q_no, outcome, b) ==
    TruncDiv(exp_scaled(OverB(q_yes, b)) * SCALE_FACTOR,
             exp_scaled(OverB(q_yes, b)) + exp_scaled(OverB(q_no, b)))

calculate_price(q_yes, q_no, outcome, b) ==
    LET exp_yes == exp_scaled(OverB(q_yes, b))
        exp_no  == exp_scaled(OverB(q_no, b))
    IN  TruncDiv((IF outcome = 0 THEN exp_yes ELSE exp_no) * SCALE_FACTOR,
                 exp_yes + exp_no)

initial_liquidity(b) == TruncDiv(b * LN2_SCALED, SCALE_FACTOR)
-----------------------------------------------------------------------------
(***************************************************************************)
(* calculatePrices of the service: the prices shown where b is not known,  *)
(* from the ratio of the quantities. Each is at least 1% before the two    *)
(* are made to sum to one, and here they count parts of SCALE_FACTOR.      *)
(***************************************************************************)
part_of(q, total) == max(100 * q, total)

share(a, b) == TruncDiv(a * SCALE_FACTOR, a + b)

\* Mutant of calculatePrices: the side with more tokens is the cheaper one.
calculatePrices_of_supply(yesSold, noSold) ==
    LET yes == part_of(yesSold, yesSold + noSold)
        no  == part_of(noSold, yesSold + noSold)
    IN  IF yesSold + noSold = 0 THEN <<share(1, 1), share(1, 1)>>
                                ELSE <<share(no, yes), share(yes, no)>>

calculatePrices(yesSold, noSold) ==
    LET yes == part_of(yesSold, yesSold + noSold)
        no  == part_of(noSold, yesSold + noSold)
    IN  IF yesSold + noSold = 0 THEN <<share(1, 1), share(1, 1)>>
                                ELSE <<share(yes, no), share(no, yes)>>
=============================================================================
