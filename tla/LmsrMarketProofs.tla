-------------------------- MODULE LmsrMarketProofs --------------------------
(***************************************************************************)
(* Safety of the market contract for every set of accounts, every amount,  *)
(* and every pricing function that satisfies CostAssumption.               *)
(***************************************************************************)
EXTENDS LmsrMarket, SumProofs

(***************************************************************************)
(* The inductive invariant. PoolPricesPosition alone is not inductive: the *)
(* pricing function is only known at a valid b, which Configured provides. *)
(* BoundedLoss has to survive resolve, where it follows from               *)
(* PoolPricesPosition and from the cost covering the winning quantity.     *)
(***************************************************************************)
Configured ==
    /\ is_initialized => /\ liquidity_param \in LiquidityArgs
                         /\ liquidity_param > 0
                         /\ funding >= InitialLiquidity(liquidity_param)
    /\ ~is_initialized => collateral_pool = 0 /\ sold = [o \in Outcomes |-> 0]
    /\ resolved => is_initialized /\ winning_outcome \in Outcomes
    /\ withdrawn => resolved

ReserveHolds == withdrawn => collateral_pool <= reserved_for(unclaimed)

IInv ==
    /\ TypeOK
    /\ Configured
    /\ PoolPricesPosition
    /\ PoolBacked
    /\ BoundedLoss
    /\ ReserveHolds

(***************************************************************************)
(* What CostAssumption says at one point of the price function.            *)
(***************************************************************************)
LEMMA CostFacts ==
    ASSUME NEW b \in LiquidityArgs, b > 0,
           NEW q_yes \in 0 .. MaxSold, NEW q_no \in 0 .. MaxSold
    PROVE  /\ InitialLiquidity(b) \in Nat
           /\ Cost(0, 0, b) = InitialLiquidity(b)
           /\ Cost(q_yes, q_no, b) \in Int
           /\ Cost(q_yes, q_no, b) >= q_yes
           /\ Cost(q_yes, q_no, b) >= q_no
BY CostAssumption

(***************************************************************************)
(* claim_error and claim agree with withdraw_remaining on the fee up to    *)
(* rounding: a claim takes at least as much out of the pool as it takes    *)
(* out of the reserve.                                                     *)
(***************************************************************************)
LEMMA ClaimShrinksReserve ==
    ASSUME NEW tokens \in Int, NEW gross \in Int
    PROVE  reserved_for(tokens) - user_payout(gross) <= reserved_for(tokens - gross)
BY DEF reserved_for, user_payout, claim_fee, CLAIM_FEE_BPS, BPS_DENOMINATOR

\* A payout is an integer between 0 and the tokens it redeems.
LEMMA PayoutBounds ==
    ASSUME NEW gross \in Int, gross > 0
    PROVE  /\ user_payout(gross) \in Int
           /\ 0 <= user_payout(gross)
           /\ user_payout(gross) <= gross
BY DEF user_payout, claim_fee, CLAIM_FEE_BPS, BPS_DENOMINATOR

\* What withdraw_remaining reserves is an integer.
LEMMA ReservedType == ASSUME NEW tokens \in Int PROVE reserved_for(tokens) \in Int
BY DEF reserved_for, CLAIM_FEE_BPS, BPS_DENOMINATOR
-----------------------------------------------------------------------------
\* The storage of a contract that is not initialised satisfies the invariant.
LEMMA InitIInv == Init => IInv
<1> SUFFICES ASSUME Init PROVE IInv
  OBVIOUS
<1>1. TypeOK
  <2>1. sold \in [Outcomes -> 0 .. MaxSold]
    BY ArgsAssumption DEF Init
  <2>2. user_balance \in [Accounts -> [Outcomes -> Nat]]
    BY DEF Init
  <2>3. /\ oracle \in Accounts \cup {NoAccount}
        /\ winning_outcome \in Outcomes \cup {NoOutcome}
        /\ liquidity_param \in LiquidityArgs \cup {0}
    BY DEF Init
  <2>4. resolved \in BOOLEAN /\ withdrawn \in BOOLEAN
    BY DEF Init
  <2>5. collateral_pool \in Int /\ unclaimed \in Int /\ escrow \in Int /\ funding \in Int
    BY DEF Init
  <2> QED BY <2>1, <2>2, <2>3, <2>4, <2>5 DEF TypeOK
<1>2. Configured
  BY ArgsAssumption DEF Init, Configured, is_initialized
<1>3. PoolPricesPosition /\ PoolBacked /\ BoundedLoss /\ ReserveHolds
  BY DEF Init, PoolPricesPosition, PoolBacked, BoundedLoss, ReserveHolds, trading,
         is_initialized
<1> QED BY <1>1, <1>2, <1>3 DEF IInv

\* The constructor leaves a market in the state of the invariant.
LEMMA DeployedIInv ==
    ASSUME NEW a \in Accounts, DeployedBy(a)
    PROVE  IInv
<1>1. /\ oracle = a /\ NoAccount \notin Accounts
      /\ liquidity_param \in LiquidityArgs /\ liquidity_param > 0
      /\ funding \in FundingArgs
      /\ funding \in InitialLiquidity(liquidity_param) .. MAX_FUNDING
      /\ sold = [o \in Outcomes |-> 0]
      /\ collateral_pool = funding /\ escrow = funding
      /\ resolved = FALSE /\ winning_outcome = NoOutcome /\ unclaimed = 0
      /\ user_balance = [u \in Accounts |-> [o \in Outcomes |-> 0]]
      /\ withdrawn = FALSE
  BY ArgsAssumption DEF DeployedBy
<1>2. funding \in Int /\ 0 \in 0 .. MaxSold
  BY <1>1, ArgsAssumption
<1>3. InitialLiquidity(liquidity_param) \in Nat /\ Cost(0, 0, liquidity_param) \in Int
  BY <1>1, <1>2, CostFacts
<1>4. sold \in [Outcomes -> 0 .. MaxSold]
  BY <1>1, <1>2
<1>5. user_balance \in [Accounts -> [Outcomes -> Nat]]
  BY <1>1
<1>6. TypeOK
  <2>1. resolved \in BOOLEAN /\ withdrawn \in BOOLEAN
    BY <1>1
  <2>2. /\ oracle \in Accounts \cup {NoAccount}
        /\ winning_outcome \in Outcomes \cup {NoOutcome}
        /\ liquidity_param \in LiquidityArgs \cup {0}
    BY <1>1
  <2>3. collateral_pool \in Int /\ unclaimed \in Int /\ escrow \in Int
    BY <1>1, <1>2
  <2> QED BY <1>2, <1>4, <1>5, <2>1, <2>2, <2>3 DEF TypeOK
<1>7. Configured
  BY <1>1, <1>2, <1>3 DEF Configured, is_initialized
<1>8. PoolPricesPosition
  <2>1. cost_now = Cost(0, 0, liquidity_param)
    BY <1>1 DEF cost_now, Outcomes, OUTCOME_YES, OUTCOME_NO
  <2> QED BY <1>1, <1>2, <1>3, <2>1 DEF PoolPricesPosition
<1>9. PoolBacked /\ BoundedLoss /\ ReserveHolds
  BY <1>1 DEF PoolBacked, BoundedLoss, ReserveHolds
<1> QED BY <1>6, <1>7, <1>8, <1>9 DEF IInv

(***************************************************************************)
(* The successor position of a trade prices within the bound MaxSold.      *)
(***************************************************************************)
LEMMA PositionAfter ==
    ASSUME TypeOK, Configured, is_initialized,
           NEW outcome \in Outcomes, NEW delta \in Int,
           sold[outcome] + delta \in 0 .. MaxSold
    PROVE  /\ sold_after(outcome, delta) \in [Outcomes -> 0 .. MaxSold]
           /\ cost_after(outcome, delta) \in Int
           /\ cost_after(outcome, delta) >= 0
           /\ cost_now \in Int
           /\ Cost(0, 0, liquidity_param) \in Int
           /\ InitialLiquidity(liquidity_param) \in Nat
           /\ Cost(0, 0, liquidity_param) = InitialLiquidity(liquidity_param)
<1>1. liquidity_param \in LiquidityArgs /\ liquidity_param > 0
  BY DEF Configured
<1>2. sold \in [Outcomes -> 0 .. MaxSold]
  BY DEF TypeOK
<1>3. sold_after(outcome, delta) \in [Outcomes -> 0 .. MaxSold]
  BY <1>2 DEF sold_after
<1>4. OUTCOME_YES \in Outcomes /\ OUTCOME_NO \in Outcomes
  BY DEF Outcomes
<1>5. cost_after(outcome, delta) \in Int /\ cost_after(outcome, delta) >= 0
  <2> DEFINE q == sold_after(outcome, delta)
  <2>1. q[OUTCOME_YES] \in 0 .. MaxSold /\ q[OUTCOME_NO] \in 0 .. MaxSold
    BY <1>3, <1>4
  <2>2. Cost(q[OUTCOME_YES], q[OUTCOME_NO], liquidity_param) \in Int
        /\ Cost(q[OUTCOME_YES], q[OUTCOME_NO], liquidity_param) >= q[OUTCOME_YES]
    BY <1>1, <2>1, CostFacts
  <2> QED BY <2>1, <2>2, ArgsAssumption DEF cost_after
<1>6. cost_now \in Int
  BY <1>1, <1>2, <1>4, CostFacts DEF cost_now
<1>7. 0 \in 0 .. MaxSold
  BY ArgsAssumption
<1>8. /\ Cost(0, 0, liquidity_param) \in Int
      /\ InitialLiquidity(liquidity_param) \in Nat
      /\ Cost(0, 0, liquidity_param) = InitialLiquidity(liquidity_param)
  BY <1>1, <1>7, CostFacts
<1> QED BY <1>3, <1>5, <1>6, <1>8

\* initialize establishes Configured and a pool that prices the empty position.
LEMMA InitializeIInv ==
    ASSUME IInv, NEW a \in Accounts, NEW b \in LiquidityArgs, NEW f \in FundingArgs,
           initialize(a, b, f)
    PROVE  IInv'
<1>1. /\ ~is_initialized
      /\ b > 0
      /\ f >= InitialLiquidity(b)
      /\ f \in Int /\ b \in Int
      /\ 0 \in 0 .. MaxSold
  <2>1. b \in Int /\ f \in Int /\ 0 \in 0 .. MaxSold
    BY ArgsAssumption
  <2>2. ~is_initialized /\ ~(b <= 0) /\ ~(f < InitialLiquidity(b))
    BY DEF initialize, initialize_error
  <2>3. b > 0
    BY <2>1, <2>2
  <2>4. InitialLiquidity(b) \in Nat
    BY <2>1, <2>3, CostFacts
  <2> QED BY <2>1, <2>2, <2>3, <2>4
<1>2. ~resolved /\ ~withdrawn
  BY <1>1 DEF IInv, Configured
<1>3. TypeOK'
  <2>1. sold' \in [Outcomes -> 0 .. MaxSold]
    BY <1>1 DEF initialize
  <2>2. /\ escrow' \in Int /\ collateral_pool' \in Int /\ funding' \in Int
        /\ liquidity_param' \in LiquidityArgs \cup {0}
        /\ oracle' \in Accounts \cup {NoAccount}
    BY <1>1 DEF IInv, TypeOK, initialize
  <2> QED BY <2>1, <2>2 DEF IInv, TypeOK, initialize
<1>4. Configured'
  BY <1>1, <1>2, ArgsAssumption DEF IInv, Configured, initialize, is_initialized
<1>5. PoolPricesPosition'
  <2>1. Cost(0, 0, b) \in Int
    BY <1>1, CostFacts
  <2> QED BY <1>1, <2>1 DEF PoolPricesPosition, initialize, cost_now, Outcomes,
                            OUTCOME_YES, OUTCOME_NO
<1>6. PoolBacked'
  BY <1>1 DEF IInv, TypeOK, PoolBacked, initialize, Configured
<1>7. BoundedLoss' /\ ReserveHolds'
  BY <1>2 DEF BoundedLoss, ReserveHolds, initialize
<1> QED BY <1>3, <1>4, <1>5, <1>6, <1>7 DEF IInv

\* buy adds to the pool what it collects, the difference of two costs.
LEMMA BuyIInv ==
    ASSUME IInv, NEW u \in Accounts, NEW o, NEW n \in Int, NEW m, buy(u, o, n, m)
    PROVE  IInv'
<1>1. /\ trading /\ o \in Outcomes
      /\ n \in Int /\ n > 0
      /\ sold[o] + n <= MaxSold
  <2>1. /\ is_initialized /\ ~resolved
        /\ o \in Outcomes
        /\ ~(n <= 0)
        /\ ~(sold[o] + n > MaxSold)
    BY DEF buy, buy_error, trade_error, is_valid_outcome
  <2>2. n \in Int /\ MaxSold \in Nat
    BY ArgsAssumption
  <2>3. sold[o] \in Int
    BY <2>1 DEF IInv, TypeOK
  <2> QED BY <2>1, <2>2, <2>3 DEF trading
<1>2. sold[o] + n \in 0 .. MaxSold
  BY <1>1, ArgsAssumption DEF IInv, TypeOK
<1>3. ~resolved /\ ~withdrawn /\ is_initialized
  BY <1>1 DEF IInv, Configured, trading
<1>4. /\ sold_after(o, n) \in [Outcomes -> 0 .. MaxSold]
      /\ cost_after(o, n) \in Int
      /\ cost_now \in Int
      /\ Cost(0, 0, liquidity_param) \in Int
  BY <1>1, <1>2, <1>3, PositionAfter DEF IInv
<1>5. calculate_buy_cost(o, n) \in Int
  BY <1>4 DEF calculate_buy_cost
<1>6. TypeOK'
  <2>1. sold' \in [Outcomes -> 0 .. MaxSold]
    BY <1>4 DEF buy
  <2>2. escrow' \in Int /\ collateral_pool' \in Int
    BY <1>5 DEF IInv, TypeOK, buy
  <2>3. user_balance' \in [Accounts -> [Outcomes -> Nat]]
    BY <1>1 DEF IInv, TypeOK, buy
  <2> QED BY <2>1, <2>2, <2>3 DEF IInv, TypeOK, buy
<1>7. Configured'
  BY <1>3 DEF IInv, Configured, buy, is_initialized
<1>8. PoolPricesPosition'
  <2>1. cost_now' = cost_after(o, n)
    BY DEF buy, cost_now, cost_after
  <2>2. collateral_pool = funding + cost_now - Cost(0, 0, liquidity_param)
    BY <1>1 DEF IInv, PoolPricesPosition
  <2>3. collateral_pool' = collateral_pool + (cost_after(o, n) - cost_now)
    BY DEF buy, calculate_buy_cost
  <2>4. funding \in Int /\ UNCHANGED <<funding, liquidity_param>>
    BY DEF IInv, TypeOK, buy
  <2>5. collateral_pool' = funding + cost_after(o, n) - Cost(0, 0, liquidity_param)
    BY <1>4, <2>2, <2>3, <2>4
  <2> QED BY <2>1, <2>4, <2>5 DEF PoolPricesPosition
<1>9. PoolBacked'
  BY <1>5 DEF IInv, PoolBacked, buy
<1>10. BoundedLoss' /\ ReserveHolds'
  BY <1>3 DEF BoundedLoss, ReserveHolds, buy
<1> QED BY <1>6, <1>7, <1>8, <1>9, <1>10 DEF IInv

\* sell takes from the pool what it pays, the difference of two costs.
LEMMA SellIInv ==
    ASSUME IInv, NEW u \in Accounts, NEW o, NEW n \in Int, NEW m, sell(u, o, n, m)
    PROVE  IInv'
<1>1. /\ trading /\ o \in Outcomes
      /\ n \in Int /\ n > 0
      /\ sold[o] >= n /\ user_balance[u][o] >= n
  <2>1. /\ is_initialized /\ ~resolved
        /\ o \in Outcomes
        /\ ~(n <= 0)
        /\ ~(sold[o] < n) /\ ~(user_balance[u][o] < n)
    BY DEF sell, sell_error, trade_error, is_valid_outcome
  <2>2. n \in Int
    BY ArgsAssumption
  <2>3. sold[o] \in Int /\ user_balance[u][o] \in Int
    BY <2>1 DEF IInv, TypeOK
  <2> QED BY <2>1, <2>2, <2>3 DEF trading
<1>2. sold[o] + (-n) \in 0 .. MaxSold
  BY <1>1, ArgsAssumption DEF IInv, TypeOK
<1>3. ~resolved /\ ~withdrawn /\ is_initialized
  BY <1>1 DEF IInv, Configured, trading
<1>4. /\ sold_after(o, -n) \in [Outcomes -> 0 .. MaxSold]
      /\ cost_after(o, -n) \in Int
      /\ cost_now \in Int
      /\ Cost(0, 0, liquidity_param) \in Int
  <2>1. -n \in Int
    BY <1>1
  <2> QED BY <1>1, <1>2, <1>3, <2>1, PositionAfter DEF IInv
<1>5. calculate_sell_return(o, n) \in Int
  BY <1>4 DEF calculate_sell_return
<1>6. TypeOK'
  <2>1. sold' \in [Outcomes -> 0 .. MaxSold]
    BY <1>4 DEF sell
  <2>2. escrow' \in Int /\ collateral_pool' \in Int
    BY <1>5 DEF IInv, TypeOK, sell
  <2>3. user_balance' \in [Accounts -> [Outcomes -> Nat]]
    <3>1. user_balance[u][o] - n \in Nat
      BY <1>1 DEF IInv, TypeOK
    <3> QED BY <1>1, <3>1 DEF IInv, TypeOK, sell
  <2> QED BY <2>1, <2>2, <2>3 DEF IInv, TypeOK, sell
<1>7. Configured'
  BY <1>3 DEF IInv, Configured, sell, is_initialized
<1>8. PoolPricesPosition'
  <2>1. cost_now' = cost_after(o, -n)
    BY DEF sell, cost_now, cost_after
  <2>2. collateral_pool = funding + cost_now - Cost(0, 0, liquidity_param)
    BY <1>1 DEF IInv, PoolPricesPosition
  <2>3. collateral_pool' = collateral_pool - (cost_now - cost_after(o, -n))
    BY DEF sell, calculate_sell_return
  <2>4. funding \in Int /\ UNCHANGED <<funding, liquidity_param>>
    BY DEF IInv, TypeOK, sell
  <2>5. collateral_pool' = funding + cost_after(o, -n) - Cost(0, 0, liquidity_param)
    BY <1>4, <2>2, <2>3, <2>4
  <2> QED BY <2>1, <2>4, <2>5 DEF PoolPricesPosition
<1>9. PoolBacked'
  BY <1>5 DEF IInv, PoolBacked, sell
<1>10. BoundedLoss' /\ ReserveHolds'
  BY <1>3 DEF BoundedLoss, ReserveHolds, sell
<1> QED BY <1>6, <1>7, <1>8, <1>9, <1>10 DEF IInv

\* resolve: the pool prices the position, so it covers the winning tokens.
LEMMA ResolveIInv ==
    ASSUME IInv, NEW a \in Accounts, NEW o, resolve(a, o)
    PROVE  IInv'
<1>1. trading /\ is_initialized /\ ~resolved /\ ~withdrawn /\ o \in Outcomes
  BY DEF resolve, resolve_error, is_valid_outcome, trading, IInv, Configured
<1>2. sold[o] \in 0 .. MaxSold
  BY <1>1 DEF IInv, TypeOK
<1>3. TypeOK'
  BY <1>1, <1>2 DEF IInv, TypeOK, resolve
<1>4. Configured'
  BY <1>1 DEF IInv, Configured, resolve, is_initialized
<1>5. PoolPricesPosition' /\ PoolBacked' /\ ReserveHolds'
  BY <1>1 DEF IInv, PoolPricesPosition, trading, PoolBacked, ReserveHolds, resolve
<1>6. BoundedLoss'
  <2>1. liquidity_param \in LiquidityArgs /\ liquidity_param > 0
    BY <1>1 DEF IInv, Configured
  <2>2. sold[OUTCOME_YES] \in 0 .. MaxSold /\ sold[OUTCOME_NO] \in 0 .. MaxSold
    BY DEF IInv, TypeOK, Outcomes
  <2>3. /\ cost_now \in Int
        /\ cost_now >= sold[OUTCOME_YES] /\ cost_now >= sold[OUTCOME_NO]
        /\ InitialLiquidity(liquidity_param) \in Nat
        /\ Cost(0, 0, liquidity_param) = InitialLiquidity(liquidity_param)
    BY <2>1, <2>2, CostFacts DEF cost_now
  <2>4. cost_now >= sold[o]
    BY <1>1, <2>3 DEF Outcomes
  <2>5. collateral_pool = funding + cost_now - InitialLiquidity(liquidity_param)
    BY <1>1, <2>3 DEF IInv, PoolPricesPosition
  <2>6. funding \in Int
    BY DEF IInv, TypeOK
  <2>7. collateral_pool - sold[o] >= funding - InitialLiquidity(liquidity_param)
    BY <1>2, <2>3, <2>4, <2>5, <2>6
  <2> QED BY <2>7 DEF BoundedLoss, resolve
<1> QED BY <1>3, <1>4, <1>5, <1>6 DEF IInv

\* claim takes no more from the pool than it takes from the unclaimed tokens,
\* and at least what it takes from the reserve.
LEMMA ClaimIInv ==
    ASSUME IInv, NEW u \in Accounts, claim(u)
    PROVE  IInv'
<1> DEFINE gross == user_balance[u][winning_outcome]
<1>1. resolved /\ is_initialized /\ ~(gross <= 0)
  BY DEF claim, claim_error
<1>2. winning_outcome \in Outcomes
  BY <1>1 DEF IInv, Configured
<1>3. gross \in Int /\ gross > 0
  BY <1>1, <1>2 DEF IInv, TypeOK
<1>4. user_payout(gross) \in Int /\ user_payout(gross) <= gross
  BY <1>3, PayoutBounds
<1>5. /\ unclaimed' = unclaimed - gross
      /\ collateral_pool' = collateral_pool - user_payout(gross)
      /\ escrow' = escrow - user_payout(gross)
      /\ user_balance' = [user_balance EXCEPT ![u][winning_outcome] = 0]
      /\ UNCHANGED <<oracle, liquidity_param, sold, resolved, winning_outcome,
                     funding, withdrawn>>
  BY DEF claim
<1>6. unclaimed \in Int /\ collateral_pool \in Int /\ escrow \in Int /\ funding \in Int
  BY DEF IInv, TypeOK
<1> HIDE DEF gross
<1>7. TypeOK'
  <2>1. user_balance' \in [Accounts -> [Outcomes -> Nat]]
    BY <1>2, <1>5 DEF IInv, TypeOK
  <2>2. unclaimed' \in Int /\ collateral_pool' \in Int /\ escrow' \in Int
    BY <1>3, <1>4, <1>5, <1>6
  <2> QED BY <1>5, <2>1, <2>2 DEF IInv, TypeOK
<1>8. Configured'
  BY <1>1, <1>2, <1>5 DEF IInv, Configured, is_initialized
<1>9. PoolPricesPosition'
  BY <1>1, <1>5 DEF PoolPricesPosition, trading
<1>10. PoolBacked'
  BY <1>5 DEF IInv, PoolBacked
<1>11. BoundedLoss'
  <2>1. CASE withdrawn
    BY <2>1, <1>5 DEF BoundedLoss
  <2>2. CASE ~withdrawn
    <3>1. InitialLiquidity(liquidity_param) \in Nat
      BY <1>1, CostAssumption DEF IInv, Configured
    <3>2. collateral_pool - unclaimed >= funding - InitialLiquidity(liquidity_param)
      BY <1>1, <2>2 DEF IInv, BoundedLoss
    <3>3. collateral_pool' - unclaimed' >= funding - InitialLiquidity(liquidity_param)
      BY <1>3, <1>4, <1>5, <1>6, <3>1, <3>2
    <3> QED BY <1>5, <3>3 DEF BoundedLoss
  <2> QED BY <2>1, <2>2
<1>12. ReserveHolds'
  <2>1. CASE withdrawn
    <3>1. collateral_pool <= reserved_for(unclaimed)
      BY <2>1 DEF IInv, ReserveHolds
    <3>2. /\ reserved_for(unclaimed) - user_payout(gross) <= reserved_for(unclaimed - gross)
          /\ reserved_for(unclaimed) \in Int /\ reserved_for(unclaimed - gross) \in Int
      BY <1>3, <1>6, ClaimShrinksReserve, ReservedType
    <3>3. collateral_pool - user_payout(gross) <= reserved_for(unclaimed - gross)
      BY <1>4, <1>6, <3>1, <3>2
    <3> QED BY <1>5, <3>3 DEF ReserveHolds, reserved_for
  <2>2. CASE ~withdrawn
    BY <2>2, <1>5 DEF ReserveHolds
  <2> QED BY <2>1, <2>2
<1> QED BY <1>7, <1>8, <1>9, <1>10, <1>11, <1>12 DEF IInv

\* withdraw_remaining leaves exactly the reserve in the pool.
LEMMA WithdrawIInv ==
    ASSUME IInv, NEW a \in Accounts, withdraw_remaining(a)
    PROVE  IInv'
<1>1. resolved /\ is_initialized
  BY DEF withdraw_remaining, withdraw_error
<1>2. /\ collateral_pool \in Int /\ unclaimed \in Int /\ escrow \in Int
      /\ reserved_for(unclaimed) \in Int
  BY ReservedType DEF IInv, TypeOK
<1>3. TypeOK'
  BY <1>2 DEF IInv, TypeOK, withdraw_remaining, withdrawable
<1>4. Configured'
  BY <1>1 DEF IInv, Configured, withdraw_remaining, is_initialized
<1>5. PoolPricesPosition' /\ BoundedLoss'
  BY <1>1 DEF PoolPricesPosition, trading, BoundedLoss, withdraw_remaining
<1>6. PoolBacked'
  BY <1>2 DEF IInv, PoolBacked, withdraw_remaining, withdrawable
<1>7. ReserveHolds'
  BY <1>2 DEF ReserveHolds, withdraw_remaining, reserved_for
<1> QED BY <1>3, <1>4, <1>5, <1>6, <1>7 DEF IInv
-----------------------------------------------------------------------------
\* Every call preserves the invariant.
LEMMA NextIInv == IInv /\ [Next]_vars => IInv'
<1> SUFFICES ASSUME IInv, [Next]_vars PROVE IInv'
  OBVIOUS
<1>1. CASE Initialize
  BY <1>1, InitializeIInv DEF Initialize
<1>2. CASE Buy
  BY <1>2, BuyIInv, ArgsAssumption DEF Buy
<1>3. CASE Sell
  BY <1>3, SellIInv, ArgsAssumption DEF Sell
<1>4. CASE Resolve
  BY <1>4, ResolveIInv DEF Resolve
<1>5. CASE Claim
  BY <1>5, ClaimIInv DEF Claim
<1>6. CASE WithdrawRemaining
  BY <1>6, WithdrawIInv DEF WithdrawRemaining
<1>7. CASE UNCHANGED vars
  BY <1>7 DEF vars, IInv, TypeOK, Configured, PoolPricesPosition, PoolBacked,
              BoundedLoss, ReserveHolds, trading, is_initialized, cost_now, reserved_for
<1> QED BY <1>1, <1>2, <1>3, <1>4, <1>5, <1>6, <1>7 DEF Next

\* The invariant holds in every reachable state.
LEMMA Inductive == Spec => []IInv
BY InitIInv, NextIInv, PTL DEF Spec

(***************************************************************************)
(* A call of an entry point other than initialize, with any integers for   *)
(* the amount and the limit. The compositions with the application make    *)
(* such calls, so what follows is stated for them.                         *)
(***************************************************************************)
ContractCall ==
    \/ \E u \in Accounts, o \in OutcomeArgs, n, m \in Int : buy(u, o, n, m) \/ sell(u, o, n, m)
    \/ \E a \in Accounts, o \in OutcomeArgs : resolve(a, o)
    \/ \E u \in Accounts : claim(u) \/ withdraw_remaining(u)

\* The calls of the specification are among them.
LEMMA NextIsCall == Next => Initialize \/ ContractCall
<1>1. Amounts \subseteq Int /\ Limits \subseteq Int
  BY ArgsAssumption
<1>2. Buy \/ Sell => ContractCall
  BY <1>1 DEF Buy, Sell, ContractCall
<1>3. Resolve \/ Claim \/ WithdrawRemaining => ContractCall
  BY DEF Resolve, Claim, WithdrawRemaining, ContractCall
<1>4. QED
  BY <1>2, <1>3 DEF Next

LEMMA CallIInv == IInv /\ ContractCall => IInv'
BY BuyIInv, SellIInv, ResolveIInv, ClaimIInv, WithdrawIInv DEF ContractCall

(***************************************************************************)
(* Type correctness: in particular the quantities sold stay where the      *)
(* pricing function does not overflow.                                     *)
(***************************************************************************)
THEOREM TypeCorrect == Spec => []TypeOK
<1>1. IInv => TypeOK
  BY DEF IInv
<1> QED BY <1>1, Inductive, PTL

(***************************************************************************)
(* Path independence of buy and sell, for every pricing function.          *)
(***************************************************************************)
THEOREM PathIndependence == Spec => []PoolPricesPosition
<1>1. IInv => PoolPricesPosition
  BY DEF IInv
<1> QED BY <1>1, Inductive, PTL

(***************************************************************************)
(* The contract holds exactly the collateral its pool accounts for.        *)
(***************************************************************************)
THEOREM CollateralBacked == Spec => []PoolBacked
<1>1. IInv => PoolBacked
  BY DEF IInv
<1> QED BY <1>1, Inductive, PTL

(***************************************************************************)
(* The pool covers all winning tokens at resolution and keeps the excess   *)
(* funding: the oracle loses at most InitialLiquidity(b).                 *)
(***************************************************************************)
THEOREM LossBounded == Spec => []BoundedLoss
<1>1. IInv => BoundedLoss
  BY DEF IInv
<1> QED BY <1>1, Inductive, PTL

\* The pool is at least the cost of what remains, so it covers the return.
LEMMA SalesAreFunded == IInv => SellNeverShortOfPool
<1> SUFFICES ASSUME IInv, NEW u \in Accounts, NEW o \in Outcomes,
                    NEW n \in Amounts, NEW m \in Limits,
                    sell_error(u, o, n, m) = "InsufficientPool"
             PROVE  FALSE
  BY DEF SellNeverShortOfPool
<1>1. /\ is_initialized /\ ~resolved
      /\ ~(n <= 0)
      /\ ~(sold[o] < n)
      /\ collateral_pool < calculate_sell_return(o, n)
  BY DEF sell_error, trade_error
<1>2. n \in Int /\ -n \in Int /\ sold[o] \in 0 .. MaxSold /\ MaxSold \in Nat
  BY ArgsAssumption DEF IInv, TypeOK
<1>3. sold[o] + (-n) \in 0 .. MaxSold
  BY <1>1, <1>2
<1>4. /\ cost_after(o, -n) \in Int /\ cost_after(o, -n) >= 0
      /\ cost_now \in Int
      /\ InitialLiquidity(liquidity_param) \in Nat
      /\ Cost(0, 0, liquidity_param) = InitialLiquidity(liquidity_param)
  BY <1>1, <1>2, <1>3, PositionAfter DEF IInv
<1>5. /\ collateral_pool = funding + cost_now - InitialLiquidity(liquidity_param)
      /\ funding >= InitialLiquidity(liquidity_param)
      /\ funding \in Int
  BY <1>1, <1>4 DEF IInv, PoolPricesPosition, trading, Configured, TypeOK
<1> QED BY <1>1, <1>4, <1>5 DEF calculate_sell_return

(***************************************************************************)
(* sell never answers InsufficientPool.                                    *)
(***************************************************************************)
THEOREM SellAlwaysFunded == Spec => []SellNeverShortOfPool
BY SalesAreFunded, Inductive, PTL

\* The reserve that a withdrawal leaves is all there is.
LEMMA NothingLeftToWithdraw == IInv => WithdrawsAtMostOnce
<1> SUFFICES ASSUME IInv, withdrawn, NEW a \in Accounts
             PROVE  withdraw_error(a) # "Ok"
  BY DEF WithdrawsAtMostOnce
<1>1. collateral_pool \in Int /\ reserved_for(unclaimed) \in Int
  BY ReservedType DEF IInv, TypeOK
<1>2. withdrawable <= 0
  BY <1>1 DEF IInv, ReserveHolds, withdrawable
<1> QED BY <1>2 DEF withdraw_error

(***************************************************************************)
(* After a successful withdraw_remaining every further one is refused.     *)
(***************************************************************************)
THEOREM WithdrawalUnique == Spec => []WithdrawsAtMostOnce
BY NothingLeftToWithdraw, Inductive, PTL

Final == resolved => /\ UNCHANGED <<oracle, resolved, winning_outcome, sold>>
                     /\ collateral_pool' <= collateral_pool
                     /\ unclaimed' <= unclaimed

\* Trades and a second resolve are refused; claim and withdraw_remaining pay.
LEMMA CallFinal == IInv /\ ContractCall => Final
<1> SUFFICES ASSUME IInv, ContractCall, resolved PROVE Final
  BY DEF Final
<1>1. /\ is_initialized
      /\ winning_outcome \in Outcomes
      /\ collateral_pool \in Int /\ unclaimed \in Int
  BY DEF IInv, TypeOK, Configured
<1>2. ASSUME NEW u \in Accounts, NEW o \in OutcomeArgs, NEW n \in Int, NEW m \in Int,
             buy(u, o, n, m) \/ sell(u, o, n, m)
      PROVE  Final
  BY <1>2 DEF buy, buy_error, sell, sell_error, trade_error
<1>3. ASSUME NEW a \in Accounts, NEW o \in OutcomeArgs, resolve(a, o) PROVE Final
  BY <1>3 DEF resolve, resolve_error
<1>4. ASSUME NEW u \in Accounts, claim(u) PROVE Final
  <2> DEFINE gross == user_balance[u][winning_outcome]
  <2>1. /\ ~(gross <= 0)
        /\ unclaimed' = unclaimed - gross
        /\ collateral_pool' = collateral_pool - user_payout(gross)
        /\ UNCHANGED <<oracle, resolved, winning_outcome, sold>>
    BY <1>4 DEF claim, claim_error
  <2>2. gross \in Int /\ gross > 0
    BY <1>1, <2>1 DEF IInv, TypeOK
  <2>3. user_payout(gross) \in Int /\ user_payout(gross) >= 0
    BY <2>2, PayoutBounds
  <2> HIDE DEF gross
  <2> QED BY <1>1, <2>1, <2>2, <2>3 DEF Final
<1>5. ASSUME NEW a \in Accounts, withdraw_remaining(a) PROVE Final
  <2>1. ~(withdrawable <= 0)
    BY <1>1, <1>5 DEF withdraw_remaining, withdraw_error
  <2>2. reserved_for(unclaimed) \in Int
    BY <1>1, ReservedType
  <2> QED BY <1>1, <1>5, <2>1, <2>2 DEF withdraw_remaining, withdrawable, Final
<1> QED BY <1>2, <1>3, <1>4, <1>5 DEF ContractCall

(***************************************************************************)
(* No call after resolve changes the outcome, and collateral only leaves.  *)
(***************************************************************************)
THEOREM ResolutionIsFinal == Spec => ResolutionFinal
<1>1. IInv /\ Initialize => Final
  BY DEF IInv, Configured, Initialize, initialize, initialize_error, Final
<1>2. IInv /\ [Next]_vars => [Final]_vars
  BY <1>1, NextIsCall, CallFinal
<1>3. Spec => [][Final]_vars
  BY <1>2, Inductive, PTL DEF Spec
<1> QED BY <1>3 DEF ResolutionFinal, Final
-----------------------------------------------------------------------------
(***************************************************************************)
(* What the users hold in total and what the winners are owed. The second  *)
(* invariant is inductive relative to IInv: the sums need to be empty      *)
(* before initialize, which sets the quantities sold but no balance. The   *)
(* shortfall arises when the oracle withdraws; until then the pool covers  *)
(* every winning token in full, by BoundedLoss.                            *)
(***************************************************************************)
NobodyHolds ==
    ~is_initialized => \A u \in Accounts, o \in Outcomes : user_balance[u][o] = 0

SweptShortfall == withdrawn => Owed - collateral_pool <= Cardinality(Accounts)

HoldingsInv ==
    /\ NobodyHolds
    /\ TokensMatchBalances
    /\ SweptShortfall

\* A payout and what reserved_for sets aside for the same tokens differ by
\* less than one unit.
LEMMA PayoutRounding ==
    ASSUME NEW gross \in Nat
    PROVE  /\ user_payout(gross) \in Nat
           /\ user_payout(gross) <= gross
           /\ 10000 * user_payout(gross) <= 9800 * gross + 9999
           /\ gross = 0 => user_payout(gross) = 0
BY DEF user_payout, claim_fee, CLAIM_FEE_BPS, BPS_DENOMINATOR

\* The reserve loses less than one unit by its own rounding.
LEMMA ReserveRounding ==
    ASSUME NEW tokens \in Int
    PROVE  10000 * reserved_for(tokens) >= 9800 * tokens - 9999
BY DEF reserved_for, CLAIM_FEE_BPS, BPS_DENOMINATOR

\* The total is a number of tokens, and no user holds more than the total.
LEMMA TotalFacts ==
    ASSUME TypeOK, NEW o \in Outcomes
    PROVE  /\ Total(o) \in Nat
           /\ \A u \in Accounts : user_balance[u][o] <= Total(o)
<1>1. \A u \in Accounts : holdings(o)[u] = user_balance[u][o] /\ holdings(o)[u] \in Nat
  BY DEF holdings, TypeOK
<1>2. QED
  BY <1>1, SumNatural, SumAtLeast, ArgsAssumption DEF Total

\* buy, sell and claim change one balance, and the total by as much.
LEMMA TotalAfter ==
    ASSUME TypeOK, TypeOK', NEW u \in Accounts, NEW o \in Outcomes, NEW n \in Int,
           user_balance' = [user_balance EXCEPT ![u][o] = @ + n]
    PROVE  /\ Total(o)' = Total(o) + n
           /\ \A x \in Outcomes : x # o => Total(x)' = Total(x)
<1>1. ASSUME NEW x \in Outcomes, NEW v \in Accounts
      PROVE  /\ holdings(x)[v] = user_balance[v][x] /\ holdings(x)[v] \in Int
             /\ holdings(x)'[v] = user_balance'[v][x] /\ holdings(x)'[v] \in Int
             /\ x # o \/ v # u => holdings(x)'[v] = holdings(x)[v]
  BY DEF holdings, TypeOK
<1>2. holdings(o)'[u] = holdings(o)[u] + n
  BY <1>1 DEF TypeOK
<1> HIDE DEF holdings
<1>3. SumFunctionOnSet(holdings(o)', Accounts)
        = SumFunctionOnSet(holdings(o), Accounts) + (holdings(o)'[u] - holdings(o)[u])
  BY <1>1, SumUpdate, ArgsAssumption
<1>4. Total(o)' = Total(o) + n
  <2>1. holdings(o)'[u] - holdings(o)[u] = n
    BY <1>1, <1>2
  <2>2. QED
    BY <1>3, <2>1 DEF Total
<1>5. ASSUME NEW x \in Outcomes, x # o PROVE Total(x)' = Total(x)
  BY <1>1, <1>5, SumEqual, ArgsAssumption DEF Total
<1>6. QED
  BY <1>4, <1>5

\* Together the winners are owed at most one unit per token.
LEMMA OwedFacts ==
    ASSUME TypeOK, winning_outcome \in Outcomes
    PROVE  /\ Owed \in Nat
           /\ Owed <= Total(winning_outcome)
           /\ 10000 * Owed <= 9800 * Total(winning_outcome) + 9999 * Cardinality(Accounts)
           /\ Cardinality(Accounts) \in Nat
<1> DEFINE held == holdings(winning_outcome)
           payouts == [u \in Accounts |-> 10000 * owed[u]]
           shares == [u \in Accounts |-> 9800 * held[u]]
<1>1. IsFiniteSet(Accounts) /\ Cardinality(Accounts) \in Nat
  BY ArgsAssumption, FS_CardinalityType
<1>2. ASSUME NEW u \in Accounts
      PROVE  /\ held[u] \in Nat /\ owed[u] \in Nat
             /\ owed[u] <= held[u]
             /\ payouts[u] = 10000 * owed[u] /\ shares[u] = 9800 * held[u]
             /\ payouts[u] <= shares[u] + 9999
  <2>1. /\ user_balance[u][winning_outcome] \in Nat
        /\ held[u] = user_balance[u][winning_outcome]
        /\ owed[u] = user_payout(user_balance[u][winning_outcome])
    BY DEF TypeOK, holdings, owed
  <2>2. QED
    BY <2>1, PayoutRounding
<1> HIDE DEF held, payouts, shares
<1>3. Owed \in Nat
  BY <1>1, <1>2, SumNatural DEF Owed
<1>4. SumFunctionOnSet(held, Accounts) \in Nat
  BY <1>1, <1>2, SumNatural
<1>5. Owed <= SumFunctionOnSet(held, Accounts)
  <2>1. Owed <= SumFunctionOnSet(held, Accounts) + 0 * Cardinality(Accounts)
    <3>1. \A u \in Accounts : owed[u] \in Int /\ held[u] \in Int /\ owed[u] <= held[u] + 0
      BY <1>2
    <3>2. QED
      BY <1>1, <3>1, SumBounded DEF Owed
  <2>2. QED
    BY <1>1, <1>3, <1>4, <2>1
<1>6. SumFunctionOnSet(payouts, Accounts) = 10000 * Owed
  BY <1>1, <1>2, SumScale DEF Owed
<1>7. SumFunctionOnSet(shares, Accounts) = 9800 * SumFunctionOnSet(held, Accounts)
  BY <1>1, <1>2, SumScale
<1>8. SumFunctionOnSet(payouts, Accounts)
        <= SumFunctionOnSet(shares, Accounts) + 9999 * Cardinality(Accounts)
  <2> DEFINE slack == 9999
  <2>1. /\ slack \in Nat
        /\ \A u \in Accounts : /\ payouts[u] \in Int /\ shares[u] \in Int
                               /\ payouts[u] <= shares[u] + slack
    BY <1>2
  <2> HIDE DEF slack
  <2>2. SumFunctionOnSet(payouts, Accounts)
          <= SumFunctionOnSet(shares, Accounts) + slack * Cardinality(Accounts)
    BY <1>1, <2>1, SumBounded
  <2>3. QED
    BY <2>2 DEF slack
<1>9. QED
  BY <1>1, <1>3, <1>4, <1>5, <1>6, <1>7, <1>8 DEF Total, held

(***************************************************************************)
(* A claim pays exactly what it takes off the sum owed, so the shortfall   *)
(* is settled when the oracle withdraws.                                   *)
(***************************************************************************)
LEMMA OwedAfterClaim ==
    ASSUME TypeOK, TypeOK', winning_outcome \in Outcomes, NEW u \in Accounts,
           user_balance' = [user_balance EXCEPT ![u][winning_outcome] = 0],
           winning_outcome' = winning_outcome
    PROVE  Owed' = Owed - user_payout(user_balance[u][winning_outcome])
<1>1. ASSUME NEW v \in Accounts
      PROVE  /\ owed[v] = user_payout(user_balance[v][winning_outcome])
             /\ owed[v] \in Nat
             /\ v # u => owed'[v] = owed[v]
             /\ v = u => owed'[v] = 0
  <2> DEFINE before == user_balance[v][winning_outcome]
             after == user_balance'[v][winning_outcome]
  <2>1. /\ before \in Nat /\ after = IF v = u THEN 0 ELSE before
        /\ owed[v] = user_payout(before) /\ owed'[v] = user_payout(after)
    <3>1. owed[v] = user_payout(before)
      BY DEF owed
    <3>2. owed'[v] = user_payout(after)
      BY DEF owed, user_payout, claim_fee
    <3>3. QED
      BY <3>1, <3>2 DEF TypeOK
  <2> HIDE DEF before, after
  <2>2. user_payout(before) \in Nat /\ user_payout(0) = 0
    <3>1. user_payout(0) = 0
      BY DEF user_payout, claim_fee, CLAIM_FEE_BPS, BPS_DENOMINATOR
    <3>2. QED
      BY <2>1, <3>1, PayoutRounding
  <2>3. CASE v = u
    <3>1. after = 0
      BY <2>1, <2>3
    <3>2. QED
      BY <2>1, <2>2, <2>3, <3>1 DEF before
  <2>4. CASE v # u
    <3>1. after = before
      BY <2>1, <2>4
    <3>2. QED
      BY <2>1, <2>2, <2>4, <3>1 DEF before
  <2>5. QED
    BY <2>3, <2>4
<1>2. \A v \in Accounts : owed[v] \in Int /\ owed'[v] \in Int
  BY <1>1
<1>3. \A v \in Accounts \ {u} : owed'[v] = owed[v]
  BY <1>1
<1>4. SumFunctionOnSet(owed', Accounts)
        = SumFunctionOnSet(owed, Accounts) + (owed'[u] - owed[u])
  BY <1>2, <1>3, SumUpdate, ArgsAssumption
<1>5. SumFunctionOnSet(owed, Accounts) \in Int
  BY <1>2, SumType, ArgsAssumption
<1>6. QED
  BY <1>1, <1>2, <1>3, <1>4, <1>5 DEF Owed

\* Nobody holds a token of a contract that is not initialised.
LEMMA InitHoldings == Init => HoldingsInv
BY DEF Init, HoldingsInv, NobodyHolds, TokensMatchBalances, SweptShortfall,
       trading, is_initialized

\* A market opens with no token sold and none held.
LEMMA InitializeHoldings ==
    ASSUME IInv, IInv', HoldingsInv, NEW a \in Accounts, NEW b \in LiquidityArgs,
           NEW f \in FundingArgs, initialize(a, b, f)
    PROVE  HoldingsInv'
<1>1. /\ ~is_initialized /\ is_initialized' /\ ~resolved'
      /\ sold' = [o \in Outcomes |-> 0] /\ user_balance' = user_balance
  BY ArgsAssumption DEF initialize, initialize_error, is_initialized
<1>2. \A u \in Accounts, o \in Outcomes : user_balance[u][o] = 0
  BY <1>1 DEF HoldingsInv, NobodyHolds
<1>3. ASSUME NEW o \in Outcomes PROVE Total(o)' = 0
  <2>1. \A u \in Accounts : holdings(o)'[u] = 0
    BY <1>1, <1>2 DEF holdings
  <2>2. QED
    BY <2>1, SumZero, ArgsAssumption DEF Total
<1>4. QED
  BY <1>1, <1>3
  DEF HoldingsInv, NobodyHolds, TokensMatchBalances, SweptShortfall, trading, IInv, Configured

\* A trade moves the quantity sold and the trader's balance together.
LEMMA TradeHoldings ==
    ASSUME IInv, IInv', HoldingsInv, trading, NEW u \in Accounts, NEW o \in Outcomes,
           NEW n \in Int,
           sold' = sold_after(o, n),
           user_balance' = [user_balance EXCEPT ![u][o] = @ + n],
           UNCHANGED <<oracle, resolved>>
    PROVE  HoldingsInv'
<1>1. trading' /\ ~resolved' /\ is_initialized'
  BY DEF trading, is_initialized
<1>2. sold \in [Outcomes -> 0 .. MaxSold] /\ TypeOK /\ TypeOK'
  BY DEF IInv, TypeOK
<1>3. \A x \in Outcomes : Total(x) = sold[x]
  BY DEF HoldingsInv, TokensMatchBalances
<1>4. /\ Total(o)' = Total(o) + n
      /\ \A x \in Outcomes : x # o => Total(x)' = Total(x)
  BY <1>2, TotalAfter
<1>5. \A x \in Outcomes : Total(x)' = sold'[x]
  BY <1>2, <1>3, <1>4 DEF sold_after
<1>6. QED
  BY <1>1, <1>5
  DEF HoldingsInv, NobodyHolds, TokensMatchBalances, SweptShortfall, IInv, Configured

\* Before the oracle withdraws the pool covers every winning token in full.
LEMMA PoolCoversWinners ==
    ASSUME IInv, resolved, ~withdrawn
    PROVE  unclaimed <= collateral_pool
<1>1. /\ liquidity_param \in LiquidityArgs /\ liquidity_param > 0
      /\ funding >= InitialLiquidity(liquidity_param)
      /\ funding \in Int /\ collateral_pool \in Int /\ unclaimed \in Int
      /\ 0 \in 0 .. MaxSold
  BY ArgsAssumption DEF IInv, Configured, TypeOK
<1>2. InitialLiquidity(liquidity_param) \in Nat
  BY <1>1, CostFacts
<1>3. collateral_pool - unclaimed >= funding - InitialLiquidity(liquidity_param)
  BY DEF IInv, BoundedLoss
<1>4. QED
  BY <1>1, <1>2, <1>3

\* resolve starts the counter of unclaimed tokens at what the winners hold.
LEMMA ResolveHoldings ==
    ASSUME IInv, HoldingsInv, NEW a \in Accounts, NEW o \in OutcomeArgs, resolve(a, o)
    PROVE  HoldingsInv'
<1>1. /\ trading /\ is_initialized /\ ~resolved /\ ~withdrawn /\ o \in Outcomes
      /\ resolved' /\ ~withdrawn' /\ is_initialized'
      /\ winning_outcome' = o /\ unclaimed' = sold[o] /\ user_balance' = user_balance
  BY DEF resolve, resolve_error, is_valid_outcome, trading, is_initialized, IInv, Configured
<1>2. Total(o) = sold[o]
  BY <1>1 DEF HoldingsInv, TokensMatchBalances
<1>3. Total(winning_outcome)' = unclaimed'
  BY <1>1, <1>2 DEF Total, holdings
<1>4. QED
  BY <1>1, <1>3 DEF HoldingsInv, NobodyHolds, TokensMatchBalances, SweptShortfall, trading

\* A claim takes the claimed tokens off the counter and their payout off
\* the pool.
LEMMA ClaimHoldings ==
    ASSUME IInv, IInv', HoldingsInv, NEW u \in Accounts, claim(u)
    PROVE  HoldingsInv'
<1> DEFINE w == winning_outcome
           gross == user_balance[u][w]
<1>1. /\ resolved /\ is_initialized /\ w \in Outcomes
      /\ user_balance' = [user_balance EXCEPT ![u][w] = 0]
      /\ unclaimed' = unclaimed - gross
      /\ collateral_pool' = collateral_pool - user_payout(gross)
      /\ UNCHANGED <<oracle, resolved, winning_outcome, withdrawn>>
  BY DEF claim, claim_error, IInv, Configured
<1>2. TypeOK /\ TypeOK' /\ gross \in Nat /\ collateral_pool \in Int /\ unclaimed \in Int
  BY <1>1 DEF IInv, TypeOK
<1>3. Total(w)' = Total(w) - gross
  <2>1. -gross \in Int /\ gross + (-gross) = 0
    BY <1>2
  <2>2. user_balance' = [user_balance EXCEPT ![u][w] = @ + (-gross)]
    BY <1>1, <2>1
  <2>3. \E o \in Outcomes : o = w /\ Total(o)' = Total(o) + (-gross)
    BY <1>1, <1>2, <2>1, <2>2, TotalAfter
  <2>4. Total(w) \in Nat
    BY <1>1, <1>2, TotalFacts
  <2>5. QED
    BY <1>1, <1>2, <2>3, <2>4 DEF Total, holdings
<1>4. TokensMatchBalances'
  <2>1. Total(w) = unclaimed
    BY <1>1 DEF HoldingsInv, TokensMatchBalances
  <2>2. QED
    BY <1>1, <1>3, <2>1 DEF TokensMatchBalances, trading
<1>5. SweptShortfall'
  <2>1. Owed' = Owed - user_payout(gross)
    BY <1>1, <1>2, OwedAfterClaim
  <2>2. /\ Owed \in Nat /\ user_payout(gross) \in Nat /\ Cardinality(Accounts) \in Nat
    BY <1>1, <1>2, OwedFacts, PayoutRounding
  <2>3. Owed' - collateral_pool' = Owed - collateral_pool
    BY <1>1, <1>2, <2>1, <2>2
  <2>4. QED
    BY <1>1, <2>3 DEF HoldingsInv, SweptShortfall
<1>6. NobodyHolds'
  BY <1>1 DEF NobodyHolds, is_initialized
<1>7. QED
  BY <1>4, <1>5, <1>6 DEF HoldingsInv

\* The oracle leaves the reserve, which rounds once where the winners'
\* payouts round once each.
LEMMA WithdrawHoldings ==
    ASSUME IInv, HoldingsInv, NEW a \in Accounts, withdraw_remaining(a)
    PROVE  HoldingsInv'
<1>1. /\ resolved /\ is_initialized /\ winning_outcome \in Outcomes
      /\ collateral_pool' = reserved_for(unclaimed)
      /\ UNCHANGED <<oracle, resolved, winning_outcome, unclaimed, user_balance, sold>>
  BY DEF withdraw_remaining, withdraw_error, IInv, Configured
<1>2. TypeOK /\ unclaimed \in Int /\ reserved_for(unclaimed) \in Int
  BY ReservedType DEF IInv, TypeOK
<1>3. Total(winning_outcome) = unclaimed
  BY <1>1 DEF HoldingsInv, TokensMatchBalances
<1>4. Owed' = Owed
  BY <1>1 DEF Owed, owed, user_payout, claim_fee
<1>5. Owed - reserved_for(unclaimed) <= Cardinality(Accounts)
  <2>1. /\ Owed \in Nat /\ Cardinality(Accounts) \in Nat
        /\ 10000 * Owed <= 9800 * unclaimed + 9999 * Cardinality(Accounts)
    BY <1>1, <1>2, <1>3, OwedFacts
  <2>2. 10000 * reserved_for(unclaimed) >= 9800 * unclaimed - 9999
    BY <1>2, ReserveRounding
  <2> DEFINE short == Owed - reserved_for(unclaimed)
             n == Cardinality(Accounts)
             pool == reserved_for(unclaimed)
  <2>3. short \in Int /\ Owed = short + pool /\ n \in Nat /\ pool \in Int
    BY <1>2, <2>1
  <2> HIDE DEF short, n, pool
  <2>4. 10000 * short <= 9999 * n + 9999
    BY <1>2, <2>1, <2>2, <2>3 DEF n, pool
  <2>5. short <= n
    BY <2>3, <2>4
  <2>6. QED
    BY <2>5 DEF short, n
<1>6. TokensMatchBalances' /\ NobodyHolds'
  BY <1>1 DEF HoldingsInv, TokensMatchBalances, NobodyHolds, trading, is_initialized,
              Total, holdings
<1>7. SweptShortfall'
  BY <1>1, <1>4, <1>5 DEF SweptShortfall
<1>8. QED
  BY <1>6, <1>7 DEF HoldingsInv

LEMMA CallHoldings == IInv /\ IInv' /\ HoldingsInv /\ ContractCall => HoldingsInv'
<1> SUFFICES ASSUME IInv, IInv', HoldingsInv, ContractCall PROVE HoldingsInv'
  OBVIOUS
<1>1. ASSUME NEW u \in Accounts, NEW o \in OutcomeArgs, NEW n \in Int, NEW m \in Int,
             buy(u, o, n, m)
      PROVE  HoldingsInv'
  <2>1. trading /\ o \in Outcomes
    BY <1>1 DEF buy, buy_error, trade_error, is_valid_outcome, trading
  <2>2. QED
    BY <1>1, <2>1, TradeHoldings DEF buy
<1>2. ASSUME NEW u \in Accounts, NEW o \in OutcomeArgs, NEW n \in Int, NEW m \in Int,
             sell(u, o, n, m)
      PROVE  HoldingsInv'
  <2>1. trading /\ o \in Outcomes /\ -n \in Int
    BY <1>2 DEF sell, sell_error, trade_error, is_valid_outcome, trading
  <2>2. user_balance[u][o] - n = user_balance[u][o] + (-n)
    BY <2>1 DEF IInv, TypeOK
  <2>3. user_balance' = [user_balance EXCEPT ![u][o] = @ + (-n)]
    BY <1>2, <2>2 DEF sell
  <2>4. QED
    BY <1>2, <2>1, <2>3, TradeHoldings DEF sell
<1>3. QED
  BY <1>1, <1>2, ResolveHoldings, ClaimHoldings, WithdrawHoldings DEF ContractCall

\* A step that leaves the contract alone leaves the sums alone.
LEMMA IdleHoldings == HoldingsInv /\ UNCHANGED vars => HoldingsInv'
BY DEF vars, HoldingsInv, NobodyHolds, TokensMatchBalances, SweptShortfall, trading,
       is_initialized, Total, holdings, Owed, owed, user_payout, claim_fee

LEMMA NextHoldings == IInv /\ IInv' /\ HoldingsInv /\ [Next]_vars => HoldingsInv'
BY NextIsCall, InitializeHoldings, CallHoldings, IdleHoldings DEF Initialize

LEMMA HoldingsInductive == Spec => []HoldingsInv
BY Inductive, InitHoldings, NextHoldings, PTL DEF Spec

(***************************************************************************)
(* No call loses or duplicates a token: the quantities that price trades,  *)
(* and after resolve the counter withdraw_remaining reserves for, are what *)
(* the accounts hold in total, for any number of accounts.                 *)
(***************************************************************************)
THEOREM TokensAccounted == Spec => []TokensMatchBalances
<1>1. HoldingsInv => TokensMatchBalances
  BY DEF HoldingsInv
<1>2. QED
  BY <1>1, HoldingsInductive, PTL

\* A winner holds no more than is unclaimed, which the pool covers.
LEMMA ClaimsAreFunded == IInv /\ HoldingsInv => ClaimsCoveredBeforeWithdrawal
<1> SUFFICES ASSUME IInv, HoldingsInv, ~withdrawn, NEW u \in Accounts
             PROVE  claim_error(u) \notin {"InsufficientPool", "TransferFailed"}
  BY DEF ClaimsCoveredBeforeWithdrawal
<1>1. CASE ~is_initialized \/ ~resolved
  BY <1>1 DEF claim_error
<1>2. CASE is_initialized /\ resolved
  <2> DEFINE gross == user_balance[u][winning_outcome]
  <2>1. winning_outcome \in Outcomes /\ TypeOK
    BY <1>2 DEF IInv, Configured
  <2>2. gross \in Nat /\ collateral_pool \in Int /\ unclaimed \in Int
    BY <2>1 DEF TypeOK
  <2>3. gross <= unclaimed /\ unclaimed <= collateral_pool
    BY <1>2, <2>1, TotalFacts, PoolCoversWinners DEF HoldingsInv, TokensMatchBalances
  <2>4. user_payout(gross) \in Nat /\ user_payout(gross) <= gross
    BY <2>2, PayoutRounding
  <2>5. escrow = collateral_pool
    BY DEF IInv, PoolBacked
  <2>6. ~(collateral_pool < user_payout(gross)) /\ ~(escrow < user_payout(gross))
    BY <2>2, <2>3, <2>4, <2>5
  <2>7. QED
    BY <1>2, <2>6 DEF claim_error
<1>3. QED
  BY <1>1, <1>2

(***************************************************************************)
(* Until the oracle withdraws, no claim is refused for lack of collateral, *)
(* whatever the trades were and in whichever order the winners claim.      *)
(***************************************************************************)
THEOREM ClaimsCovered == Spec => []ClaimsCoveredBeforeWithdrawal
BY ClaimsAreFunded, Inductive, HoldingsInductive, PTL

\* Before the withdrawal nothing is missing, after it SweptShortfall bounds it.
LEMMA ShortfallIsSmall == IInv /\ HoldingsInv => ShortfallBelowOnePerAccount
<1> SUFFICES ASSUME IInv, HoldingsInv, resolved
             PROVE  Owed - collateral_pool <= Cardinality(Accounts)
  BY DEF ShortfallBelowOnePerAccount
<1>1. CASE withdrawn
  BY <1>1 DEF HoldingsInv, SweptShortfall
<1>2. CASE ~withdrawn
  <2>1. /\ winning_outcome \in Outcomes /\ TypeOK
        /\ collateral_pool \in Int /\ unclaimed \in Int
    BY DEF IInv, Configured, TypeOK
  <2>2. /\ Owed \in Nat /\ Cardinality(Accounts) \in Nat
        /\ Owed <= unclaimed /\ unclaimed <= collateral_pool
    BY <1>2, <2>1, OwedFacts, PoolCoversWinners DEF HoldingsInv, TokensMatchBalances
  <2>3. QED
    BY <2>1, <2>2
<1>3. QED
  BY <1>1, <1>2

(***************************************************************************)
(* After withdraw_remaining the winners together miss at most one unit of  *)
(* the last digit per account, whatever they claim in whichever order.     *)
(***************************************************************************)
THEOREM ShortfallBounded == Spec => []ShortfallBelowOnePerAccount
BY ShortfallIsSmall, Inductive, HoldingsInductive, PTL
-----------------------------------------------------------------------------
(***************************************************************************)
(* The refinement of AbstractMarket. There is a lemma for each entry point *)
(* that names the abstract step it is; outstanding is what the mapping     *)
(* takes for the tokens not redeemed.                                      *)
(***************************************************************************)
outstanding == [o \in Outcomes |->
                  IF resolved /\ o = winning_outcome THEN unclaimed ELSE sold[o]]

TradingCovered == trading => \A o \in Outcomes : sold[o] <= escrow

\* While the market trades, the collateral covers the tokens of each outcome.
LEMMA CollateralCovers == IInv => TradingCovered
<1> SUFFICES ASSUME IInv, trading PROVE \A o \in Outcomes : sold[o] <= escrow
  BY DEF TradingCovered
<1>1. /\ liquidity_param \in LiquidityArgs /\ liquidity_param > 0
      /\ funding >= InitialLiquidity(liquidity_param)
      /\ funding \in Int
  BY DEF IInv, Configured, trading, TypeOK
<1>2. sold[OUTCOME_YES] \in 0 .. MaxSold /\ sold[OUTCOME_NO] \in 0 .. MaxSold
  BY DEF IInv, TypeOK, Outcomes
<1>3. /\ cost_now \in Int
      /\ cost_now >= sold[OUTCOME_YES] /\ cost_now >= sold[OUTCOME_NO]
      /\ InitialLiquidity(liquidity_param) \in Nat
      /\ Cost(0, 0, liquidity_param) = InitialLiquidity(liquidity_param)
  BY <1>1, <1>2, CostFacts DEF cost_now
<1>4. escrow = funding + cost_now - InitialLiquidity(liquidity_param)
  BY <1>3 DEF IInv, PoolPricesPosition, PoolBacked
<1>5. sold[OUTCOME_YES] <= escrow /\ sold[OUTCOME_NO] <= escrow
  BY <1>1, <1>2, <1>3, <1>4
<1> QED BY <1>5 DEF Outcomes

\* A contract that is not initialised is a closed market.
LEMMA InitAbstract == Init => Abstract!Init
BY DEF Init, Abstract!Init, is_initialized

\* initialize opens the market.
LEMMA InitializeAbstract ==
    ASSUME IInv, NEW a \in Accounts, NEW b \in LiquidityArgs, NEW f \in FundingArgs,
           initialize(a, b, f)
    PROVE  Abstract!Open
<1>1. ~is_initialized /\ ~(b <= 0) /\ ~(f < InitialLiquidity(b))
  BY DEF initialize, initialize_error
<1>2. b \in Int /\ f \in Int /\ 0 \in 0 .. MaxSold /\ a # NoAccount
  BY ArgsAssumption
<1>3. InitialLiquidity(b) \in Nat
  BY <1>1, <1>2, CostFacts
<1>4. ~resolved /\ escrow = 0 /\ sold = [o \in Outcomes |-> 0]
  BY <1>1 DEF IInv, Configured, PoolBacked
<1>5. escrow' >= 0
  BY <1>1, <1>2, <1>3, <1>4 DEF initialize
<1>6. UNCHANGED <<user_balance, sold, winning_outcome>> /\ ~resolved' /\ is_initialized'
  BY <1>2, <1>4 DEF initialize, is_initialized
<1> QED BY <1>1, <1>4, <1>5, <1>6 DEF Abstract!Open

\* A trade changes one position, and the market stays covered.
LEMMA TradeAbstract ==
    ASSUME IInv, IInv', TradingCovered', trading, NEW u \in Accounts, NEW o \in Outcomes, NEW n \in Int,
           sold' = sold_after(o, n),
           user_balance' = [user_balance EXCEPT ![u][o] = @ + n],
           UNCHANGED <<oracle, resolved, winning_outcome, withdrawn>>
    PROVE  Abstract!Trade(u, o)
<1>1. is_initialized /\ ~resolved /\ is_initialized' /\ ~resolved'
  BY DEF trading, is_initialized
<1>2. \A x \in Outcomes : sold'[x] <= escrow'
  BY <1>1 DEF TradingCovered, trading
<1>3. user_balance \in [Accounts -> [Outcomes -> Nat]] /\ sold \in [Outcomes -> 0 .. MaxSold]
  BY DEF IInv, TypeOK
<1>4. /\ user_balance'[u][o] = user_balance[u][o] + n
      /\ user_balance'[u][o] \in Nat
      /\ user_balance[u][o] \in Nat
  BY <1>3 DEF IInv, TypeOK
<1>5. user_balance' = [user_balance EXCEPT ![u][o] = user_balance'[u][o]]
  BY <1>3, <1>4
<1>6. sold' = [sold EXCEPT ![o] = @ + user_balance'[u][o] - user_balance[u][o]]
  <2>1. sold[o] + user_balance'[u][o] - user_balance[u][o] = sold[o] + n
    BY <1>3, <1>4
  <2> QED BY <2>1 DEF sold_after
<1>7. outstanding = sold /\ outstanding' = sold'
  <2>1. sold' \in [Outcomes -> 0 .. MaxSold]
    BY DEF IInv, TypeOK
  <2> QED BY <1>1, <1>3, <2>1 DEF outstanding
<1>8. UNCHANGED <<winning_outcome, withdrawn>>
  OBVIOUS
<1>9. outstanding' = [outstanding EXCEPT ![o] = @ + user_balance'[u][o] - user_balance[u][o]]
  BY <1>6, <1>7
<1>10. \A x \in Outcomes : outstanding'[x] <= escrow'
  BY <1>2, <1>7
<1>11. Abstract!Covered'
  BY <1>10 DEF Abstract!Covered, outstanding
<1> QED BY <1>1, <1>4, <1>5, <1>8, <1>9, <1>11 DEF Abstract!Trade, outstanding

\* buy and sell are trades of the user.
LEMMA BuyAbstract ==
    ASSUME IInv, IInv', TradingCovered', NEW u \in Accounts, NEW o \in OutcomeArgs,
           NEW n \in Int, NEW m \in Int, buy(u, o, n, m)
    PROVE  o \in Outcomes /\ Abstract!Trade(u, o)
<1>1. trading /\ o \in Outcomes
  BY DEF buy, buy_error, trade_error, is_valid_outcome, trading
<1>2. /\ sold' = sold_after(o, n)
      /\ user_balance' = [user_balance EXCEPT ![u][o] = @ + n]
      /\ UNCHANGED <<oracle, resolved, winning_outcome, withdrawn>>
  BY DEF buy
<1> QED BY <1>1, <1>2, TradeAbstract

\* A sale is a trade of a negative number of tokens.
LEMMA SellAbstract ==
    ASSUME IInv, IInv', TradingCovered', NEW u \in Accounts, NEW o \in OutcomeArgs,
           NEW n \in Int, NEW m \in Int, sell(u, o, n, m)
    PROVE  o \in Outcomes /\ Abstract!Trade(u, o)
<1>1. trading /\ o \in Outcomes
  BY DEF sell, sell_error, trade_error, is_valid_outcome, trading
<1>2. -n \in Int
  OBVIOUS
<1>3. user_balance[u][o] - n = user_balance[u][o] + (-n)
  BY <1>1, <1>2 DEF IInv, TypeOK
<1>4. /\ sold' = sold_after(o, -n)
      /\ user_balance' = [user_balance EXCEPT ![u][o] = @ + (-n)]
      /\ UNCHANGED <<oracle, resolved, winning_outcome, withdrawn>>
  BY <1>3 DEF sell
<1> QED BY <1>1, <1>2, <1>4, TradeAbstract

\* resolve settles the market: unclaimed starts as the quantity sold.
LEMMA ResolveAbstract ==
    ASSUME IInv, NEW a \in Accounts, NEW o \in OutcomeArgs, resolve(a, o)
    PROVE  Abstract!Settle
<1>1. is_initialized /\ ~resolved /\ ~withdrawn /\ o \in Outcomes
  BY DEF resolve, resolve_error, is_valid_outcome, IInv, Configured
<1>2. /\ resolved' /\ winning_outcome' = o /\ unclaimed' = sold[o]
      /\ UNCHANGED <<oracle, sold, user_balance, escrow, withdrawn>>
  BY DEF resolve
<1>3. is_initialized' /\ ~withdrawn'
  BY <1>1, <1>2 DEF is_initialized
<1>4. outstanding' = outstanding
  BY <1>1, <1>2 DEF outstanding
<1> QED BY <1>1, <1>2, <1>3, <1>4 DEF Abstract!Settle, outstanding

\* A payout is what the abstract market owes for the tokens.
LEMMA PayoutWorth ==
    ASSUME NEW gross \in Int
    PROVE  BPS_DENOMINATOR * user_payout(gross) >= (BPS_DENOMINATOR - CLAIM_FEE_BPS) * gross
BY DEF user_payout, claim_fee, CLAIM_FEE_BPS, BPS_DENOMINATOR

\* What is reserved is less than a unit short of what the tokens are worth.
LEMMA ReserveWorth ==
    ASSUME NEW tokens \in Int
    PROVE  BPS_DENOMINATOR * (reserved_for(tokens) + 1)
             > (BPS_DENOMINATOR - CLAIM_FEE_BPS) * tokens
BY DEF reserved_for, CLAIM_FEE_BPS, BPS_DENOMINATOR

\* claim redeems the position of the user.
LEMMA ClaimAbstract ==
    ASSUME IInv, NEW u \in Accounts, claim(u)
    PROVE  Abstract!Redeem(u)
<1> DEFINE gross == user_balance[u][winning_outcome]
<1>1. resolved /\ is_initialized /\ ~(gross <= 0) /\ ~(escrow < user_payout(gross))
  BY DEF claim, claim_error
<1>2. winning_outcome \in Outcomes
  BY <1>1 DEF IInv, Configured
<1>3. gross \in Int /\ gross > 0 /\ escrow \in Int /\ unclaimed \in Int
  BY <1>1, <1>2 DEF IInv, TypeOK
<1>4. /\ user_payout(gross) \in Int /\ user_payout(gross) <= gross
      /\ BPS_DENOMINATOR * user_payout(gross) >= (BPS_DENOMINATOR - CLAIM_FEE_BPS) * gross
  BY <1>3, PayoutBounds, PayoutWorth
<1>5. /\ unclaimed' = unclaimed - gross
      /\ escrow' = escrow - user_payout(gross)
      /\ user_balance' = [user_balance EXCEPT ![u][winning_outcome] = 0]
      /\ UNCHANGED <<oracle, sold, resolved, winning_outcome, withdrawn>>
  BY DEF claim
<1>6. outstanding' = [outstanding EXCEPT ![winning_outcome] = @ - gross]
  BY <1>1, <1>2, <1>5 DEF outstanding
<1>7. /\ escrow - escrow' = user_payout(gross)
      /\ escrow' >= 0
  BY <1>1, <1>3, <1>4, <1>5
<1>8. is_initialized' = is_initialized
  BY <1>5 DEF is_initialized
<1> QED BY <1>1, <1>3, <1>4, <1>5, <1>6, <1>7, <1>8
        DEF Abstract!Redeem, outstanding

\* withdraw_remaining sweeps the purse, once.
LEMMA WithdrawAbstract ==
    ASSUME IInv, NEW a \in Accounts, withdraw_remaining(a)
    PROVE  Abstract!Sweep
<1>1. resolved /\ is_initialized /\ ~(withdrawable <= 0)
  BY DEF withdraw_remaining, withdraw_error
<1>2. /\ collateral_pool \in Int /\ unclaimed \in Int /\ escrow = collateral_pool
      /\ reserved_for(unclaimed) \in Int
      /\ winning_outcome \in Outcomes
  BY <1>1, ReservedType DEF IInv, TypeOK, PoolBacked, Configured
<1>3. ~withdrawn
  BY <1>1, <1>2 DEF IInv, ReserveHolds, withdrawable
<1>4. /\ escrow' = reserved_for(unclaimed)
      /\ escrow' < escrow
      /\ withdrawn'
      /\ UNCHANGED <<oracle, sold, resolved, winning_outcome, unclaimed, user_balance>>
  BY <1>1, <1>2 DEF withdraw_remaining, withdrawable
<1>5. BPS_DENOMINATOR * (escrow' + 1) > (BPS_DENOMINATOR - CLAIM_FEE_BPS) * unclaimed
  BY <1>2, <1>4, ReserveWorth
<1>6. outstanding[winning_outcome] = unclaimed /\ outstanding' = outstanding
  BY <1>1, <1>2, <1>4 DEF outstanding
<1>7. is_initialized' = is_initialized
  BY <1>4 DEF is_initialized
<1> QED BY <1>1, <1>3, <1>4, <1>5, <1>6, <1>7 DEF Abstract!Sweep, outstanding

\* Every call is a step of the abstract market.
LEMMA CallAbstract ==
    IInv /\ IInv' /\ TradingCovered' /\ ContractCall => Abstract!Next
BY BuyAbstract, SellAbstract, ResolveAbstract, ClaimAbstract, WithdrawAbstract
   DEF ContractCall, Abstract!Next

LEMMA IdleAbstract == UNCHANGED vars => UNCHANGED Abstract!avars
BY DEF vars, Abstract!avars, is_initialized

LEMMA NextAbstract ==
    IInv /\ IInv' /\ TradingCovered' /\ [Next]_vars => [Abstract!Next]_(Abstract!avars)
<1>1. IInv /\ Initialize => Abstract!Next
  BY InitializeAbstract DEF Initialize, Abstract!Next
<1> QED BY <1>1, NextIsCall, CallAbstract, IdleAbstract

(***************************************************************************)
(* The contract implements AbstractMarket, for every pricing function that *)
(* satisfies CostAssumption: every call of an entry point is one step of   *)
(* the abstract market, and a call that is refused is none.                *)
(***************************************************************************)
THEOREM MarketRefinement == Spec => ImplementsAbstractMarket
BY InitAbstract, NextAbstract, CollateralCovers, Inductive, PTL
   DEF Spec, ImplementsAbstractMarket, Abstract!Spec
-----------------------------------------------------------------------------
(***************************************************************************)
(* The contract in the compositions, which start from a market its         *)
(* constructor has initialised and make calls of ContractCall.             *)
(***************************************************************************)
MarketSound ==
    /\ PoolBacked /\ PoolPricesPosition /\ BoundedLoss
    /\ SellNeverShortOfPool /\ WithdrawsAtMostOnce
    /\ TokensMatchBalances /\ ClaimsCoveredBeforeWithdrawal /\ ShortfallBelowOnePerAccount

LEMMA StateSound == IInv /\ HoldingsInv => MarketSound
<1>1. IInv => PoolBacked /\ PoolPricesPosition /\ BoundedLoss
  BY DEF IInv
<1>2. HoldingsInv => TokensMatchBalances
  BY DEF HoldingsInv
<1>3. QED
  BY <1>1, <1>2, SalesAreFunded, NothingLeftToWithdraw, ClaimsAreFunded, ShortfallIsSmall
  DEF MarketSound

\* A market that was just deployed has sold nothing.
LEMMA DeployedHoldings ==
    ASSUME NEW a \in Accounts, DeployedBy(a)
    PROVE  HoldingsInv
<1>1. /\ oracle = a /\ ~resolved /\ ~withdrawn
      /\ sold = [o \in Outcomes |-> 0]
      /\ user_balance = [u \in Accounts |-> [o \in Outcomes |-> 0]]
  BY DEF DeployedBy
<1>2. is_initialized
  BY <1>1, ArgsAssumption DEF is_initialized
<1>3. ASSUME NEW o \in Outcomes PROVE Total(o) = 0
  <2>1. \A u \in Accounts : holdings(o)[u] = 0
    BY <1>1 DEF holdings
  <2>2. QED
    BY <2>1, SumZero, ArgsAssumption DEF Total
<1>4. QED
  BY <1>1, <1>2, <1>3 DEF HoldingsInv, NobodyHolds, TokensMatchBalances, SweptShortfall

\* A step of a composition on the contract.
LEMMA SoundStep ==
    IInv /\ IInv' /\ HoldingsInv /\ (ContractCall \/ UNCHANGED vars)
        => /\ HoldingsInv'
           /\ [Final]_vars
           /\ [Abstract!Next]_(Abstract!avars)
<1>1. IInv' => TradingCovered'
  BY CollateralCovers, PTL
<1>2. QED
  BY <1>1, CallHoldings, IdleHoldings, CallFinal, CallAbstract, IdleAbstract
=============================================================================
