----------------------------- MODULE LmsrMarket -----------------------------
(***************************************************************************)
(* One prediction market: the contract contracts/lmsr_market/src/lib.rs.   *)
(*                                                                         *)
(* A call runs atomically in one ledger transaction and an error or a      *)
(* panic undoes all of it. Each entry point is therefore an operator that  *)
(* gives the error of a call in the current state ("Ok" if none), with the *)
(* checks in the order of the code, and an action that is enabled when     *)
(* the answer is "Ok"; a failed call is a stuttering step.                 *)
(*                                                                         *)
(* The pricing function is a parameter, restricted by CostAssumption; Lmsr *)
(* is the one of the contract. The collateral token is external: escrow is *)
(* the contract's own balance in it, the accounts' balances are left open, *)
(* so a transfer from an account may always fail.                          *)
(***************************************************************************)
EXTENDS Integers, FiniteSetsExt

CONSTANTS
    Accounts,               \* addresses that can call the contract
    NoAccount,              \* an address that is not stored
    LiquidityArgs,          \* values of b offered to initialize
    FundingArgs,            \* values of initial_funding offered to initialize
    Amounts,                \* token amounts offered to buy and sell
    Limits,                 \* values of max_cost and min_return
    MAX_FUNDING,            \* i128::MAX / 2
    MaxSold,                \* largest quantity whose cost fits an i128
    Cost(_, _, _),          \* lmsr::cost
    InitialLiquidity(_)    \* lmsr::initial_liquidity

OUTCOME_YES == 0
OUTCOME_NO == 1
Outcomes == {OUTCOME_YES, OUTCOME_NO}
OutcomeArgs == Outcomes \cup {2}       \* a u32 that names no outcome
NoOutcome == -1                        \* WinningOutcome is not stored

CLAIM_FEE_BPS == 200
BPS_DENOMINATOR == 10000

ASSUME ArgsAssumption ==
    /\ NoAccount \notin Accounts /\ IsFiniteSet(Accounts)
    /\ LiquidityArgs \subseteq Int
    /\ FundingArgs \subseteq Int
    /\ Amounts \subseteq Int
    /\ Limits \subseteq Int
    /\ MAX_FUNDING \in Nat
    /\ MaxSold \in Nat

(***************************************************************************)
(* What the proofs use of the pricing function: it is defined wherever it  *)
(* does not overflow, an untraded market costs no more than the funding    *)
(* initialize demands, and the cost covers either outcome winning.         *)
(***************************************************************************)
ASSUME CostAssumption ==
    \A b \in {x \in LiquidityArgs : x > 0} :
        /\ InitialLiquidity(b) \in Nat
        /\ Cost(0, 0, b) = InitialLiquidity(b)
        /\ \A q_yes, q_no \in 0 .. MaxSold :
              /\ Cost(q_yes, q_no, b) \in Int
              /\ Cost(q_yes, q_no, b) >= q_yes
              /\ Cost(q_yes, q_no, b) >= q_no

VARIABLES
    oracle,                 \* DataKey::Oracle; NoAccount before initialize
    liquidity_param,        \* DataKey::LiquidityParam
    sold,                   \* DataKey::YesSold and NoSold
    collateral_pool,        \* DataKey::CollateralPool
    resolved,               \* DataKey::Resolved
    winning_outcome,        \* DataKey::WinningOutcome
    unclaimed,              \* DataKey::UnclaimedWinningTokens, 0 if not stored
    user_balance,           \* DataKey::UserBalance(user, outcome), 0 if not stored
    escrow,                 \* external: the contract's balance in the token
    funding,                \* history: what initialize put into the pool
    withdrawn               \* history: the oracle has withdrawn

vars == <<oracle, liquidity_param, sold, collateral_pool, resolved,
          winning_outcome, unclaimed, user_balance, escrow, funding, withdrawn>>

Init ==
    /\ oracle = NoAccount
    /\ liquidity_param = 0
    /\ sold = [o \in Outcomes |-> 0]
    /\ collateral_pool = 0
    /\ resolved = FALSE
    /\ winning_outcome = NoOutcome
    /\ unclaimed = 0
    /\ user_balance = [u \in Accounts |-> [o \in Outcomes |-> 0]]
    /\ escrow = 0
    /\ funding = 0
    /\ withdrawn = FALSE

\* A market that exists was initialised by its constructor.
DeployedBy(a) ==
    /\ oracle = a
    /\ liquidity_param \in {b \in LiquidityArgs : b > 0}
    /\ funding \in {f \in FundingArgs : f \in InitialLiquidity(liquidity_param) .. MAX_FUNDING}
    /\ sold = [o \in Outcomes |-> 0]
    /\ collateral_pool = funding
    /\ escrow = funding
    /\ resolved = FALSE
    /\ winning_outcome = NoOutcome
    /\ unclaimed = 0
    /\ user_balance = [u \in Accounts |-> [o \in Outcomes |-> 0]]
    /\ withdrawn = FALSE
-----------------------------------------------------------------------------
(***************************************************************************)
(* Pricing of a trade (lmsr.rs) and the arithmetic of a claim.             *)
(***************************************************************************)
is_valid_outcome(outcome) == outcome \in Outcomes

cost_now == Cost(sold[OUTCOME_YES], sold[OUTCOME_NO], liquidity_param)

sold_after(outcome, delta) == [sold EXCEPT ![outcome] = @ + delta]

cost_after(outcome, delta) ==
    LET q == sold_after(outcome, delta)
    IN  Cost(q[OUTCOME_YES], q[OUTCOME_NO], liquidity_param)

calculate_buy_cost(outcome, amount) == cost_after(outcome, amount) - cost_now

calculate_sell_return(outcome, amount) == cost_now - cost_after(outcome, -amount)

claim_fee(gross) == (gross * CLAIM_FEE_BPS) \div BPS_DENOMINATOR

user_payout(gross) == gross - claim_fee(gross)

\* Mutant: the reserve leaves out the fee twice.
reserved_for_double_fee(tokens) ==
    (tokens * (BPS_DENOMINATOR - 2 * CLAIM_FEE_BPS)) \div BPS_DENOMINATOR

reserved_for(tokens) ==
    (tokens * (BPS_DENOMINATOR - CLAIM_FEE_BPS)) \div BPS_DENOMINATOR
-----------------------------------------------------------------------------
is_initialized == oracle # NoAccount

\* Mutant: the funding is not compared with the required liquidity.
initialize_error_unfunded(caller, b, initial_funding) ==
    IF is_initialized                              THEN "AlreadyInitialized"
    ELSE IF b <= 0                                 THEN "InvalidLiquidity"
    ELSE IF initial_funding > MAX_FUNDING          THEN "Overflow"
    ELSE "Ok"

initialize_error(caller, b, initial_funding) ==
    IF is_initialized                              THEN "AlreadyInitialized"
    ELSE IF b <= 0                                 THEN "InvalidLiquidity"
    ELSE IF initial_funding < InitialLiquidity(b) THEN "InvalidAmount"
    ELSE IF initial_funding > MAX_FUNDING          THEN "Overflow"
    ELSE "Ok"

\* Mutant: the pool starts with the required liquidity, not with the funding.
initialize_required_only(caller, b, initial_funding) ==
    /\ initialize_error(caller, b, initial_funding) = "Ok"
    /\ oracle' = caller
    /\ liquidity_param' = b
    /\ collateral_pool' = InitialLiquidity(b)
    /\ escrow' = escrow + initial_funding
    /\ funding' = initial_funding
    /\ UNCHANGED <<sold, resolved, winning_outcome, unclaimed, user_balance, withdrawn>>

\* Also __constructor, which calls initialize and panics on its error.
initialize(caller, b, initial_funding) ==
    /\ initialize_error(caller, b, initial_funding) = "Ok"
    /\ oracle' = caller
    /\ liquidity_param' = b
    /\ sold' = [o \in Outcomes |-> 0]
    /\ collateral_pool' = initial_funding
    /\ resolved' = FALSE
    /\ escrow' = escrow + initial_funding
    /\ funding' = initial_funding
    /\ UNCHANGED <<winning_outcome, unclaimed, user_balance, withdrawn>>

\* require_initialized, require_not_resolved and the checks on the arguments
\* that buy and sell share.
trade_error(outcome, amount) ==
    IF ~is_initialized                    THEN "NotInitialized"
    ELSE IF resolved                      THEN "AlreadyResolved"
    ELSE IF ~is_valid_outcome(outcome)    THEN "InvalidOutcome"
    ELSE IF amount <= 0                   THEN "InvalidAmount"
    ELSE "Ok"

buy_error(user, outcome, amount, max_cost) ==
    IF trade_error(outcome, amount) # "Ok" THEN trade_error(outcome, amount)
    ELSE IF sold[outcome] + amount > MaxSold THEN "Overflow"
    ELSE IF calculate_buy_cost(outcome, amount) > max_cost THEN "SlippageExceeded"
    ELSE IF calculate_buy_cost(outcome, amount) < 0 THEN "TransferFailed"
    ELSE "Ok"

\* Mutant: the cost is collected but not added to the pool.
buy_skips_pool(user, outcome, amount, max_cost) ==
    /\ buy_error(user, outcome, amount, max_cost) = "Ok"
    /\ escrow' = escrow + calculate_buy_cost(outcome, amount)
    /\ sold' = sold_after(outcome, amount)
    /\ user_balance' = [user_balance EXCEPT ![user][outcome] = @ + amount]
    /\ UNCHANGED <<oracle, liquidity_param, collateral_pool, resolved,
                   winning_outcome, unclaimed, funding, withdrawn>>

buy(user, outcome, amount, max_cost) ==
    /\ buy_error(user, outcome, amount, max_cost) = "Ok"
    /\ escrow' = escrow + calculate_buy_cost(outcome, amount)
    /\ sold' = sold_after(outcome, amount)
    /\ collateral_pool' = collateral_pool + calculate_buy_cost(outcome, amount)
    /\ user_balance' = [user_balance EXCEPT ![user][outcome] = @ + amount]
    /\ UNCHANGED <<oracle, liquidity_param, resolved, winning_outcome,
                   unclaimed, funding, withdrawn>>

\* Mutant: only the market's total is checked, not the seller's own balance.
sell_error_any_holder(user, outcome, amount, min_return) ==
    IF trade_error(outcome, amount) # "Ok" THEN trade_error(outcome, amount)
    ELSE IF sold[outcome] < amount THEN "InsufficientBalance"
    ELSE IF calculate_sell_return(outcome, amount) < min_return THEN "ReturnTooLow"
    ELSE IF collateral_pool < calculate_sell_return(outcome, amount) THEN "InsufficientPool"
    ELSE "Ok"

\* calculate_sell_return also answers InsufficientBalance when fewer than
\* `amount` tokens are sold in total.
sell_error(user, outcome, amount, min_return) ==
    IF trade_error(outcome, amount) # "Ok" THEN trade_error(outcome, amount)
    ELSE IF user_balance[user][outcome] < amount THEN "InsufficientBalance"
    ELSE IF sold[outcome] < amount THEN "InsufficientBalance"
    ELSE IF calculate_sell_return(outcome, amount) < min_return THEN "ReturnTooLow"
    ELSE IF collateral_pool < calculate_sell_return(outcome, amount) THEN "InsufficientPool"
    ELSE IF calculate_sell_return(outcome, amount) \notin 0 .. escrow THEN "TransferFailed"
    ELSE "Ok"

sell(user, outcome, amount, min_return) ==
    /\ sell_error(user, outcome, amount, min_return) = "Ok"
    /\ sold' = sold_after(outcome, -amount)
    /\ collateral_pool' = collateral_pool - calculate_sell_return(outcome, amount)
    /\ user_balance' = [user_balance EXCEPT ![user][outcome] = @ - amount]
    /\ escrow' = escrow - calculate_sell_return(outcome, amount)
    /\ UNCHANGED <<oracle, liquidity_param, resolved, winning_outcome,
                   unclaimed, funding, withdrawn>>

\* Mutant: require_not_resolved is missing.
resolve_error_repeatable(caller, outcome) ==
    IF ~is_initialized                    THEN "NotInitialized"
    ELSE IF ~is_valid_outcome(outcome)    THEN "InvalidOutcome"
    ELSE IF caller # oracle               THEN "Unauthorized"
    ELSE "Ok"

resolve_error(caller, outcome) ==
    IF ~is_initialized                    THEN "NotInitialized"
    ELSE IF resolved                      THEN "AlreadyResolved"
    ELSE IF ~is_valid_outcome(outcome)    THEN "InvalidOutcome"
    ELSE IF caller # oracle               THEN "Unauthorized"
    ELSE "Ok"

resolve(caller, outcome) ==
    /\ resolve_error(caller, outcome) = "Ok"
    /\ resolved' = TRUE
    /\ winning_outcome' = outcome
    /\ unclaimed' = sold[outcome]
    /\ UNCHANGED <<oracle, liquidity_param, sold, collateral_pool,
                   user_balance, escrow, funding, withdrawn>>

claim_error(user) ==
    IF ~is_initialized                    THEN "NotInitialized"
    ELSE IF ~resolved                     THEN "NotResolved"
    ELSE LET payout == user_payout(user_balance[user][winning_outcome]) IN
         IF user_balance[user][winning_outcome] <= 0 THEN "NothingToClaim"
         ELSE IF collateral_pool < payout THEN "InsufficientPool"
         ELSE IF escrow < payout          THEN "TransferFailed"
         ELSE "Ok"

\* Mutant: the balance is not zeroed.
claim_keeps_balance(user) ==
    /\ claim_error(user) = "Ok"
    /\ LET gross == user_balance[user][winning_outcome] IN
         /\ unclaimed' = unclaimed - gross
         /\ collateral_pool' = collateral_pool - user_payout(gross)
         /\ escrow' = escrow - user_payout(gross)
    /\ UNCHANGED <<oracle, liquidity_param, sold, resolved, winning_outcome,
                   user_balance, funding, withdrawn>>

\* Mutant: the transfer pays out the fee as well.
claim_transfers_gross(user) ==
    /\ claim_error(user) = "Ok"
    /\ LET gross == user_balance[user][winning_outcome] IN
         /\ user_balance' = [user_balance EXCEPT ![user][winning_outcome] = 0]
         /\ unclaimed' = unclaimed - gross
         /\ collateral_pool' = collateral_pool - user_payout(gross)
         /\ escrow' = escrow - gross
    /\ UNCHANGED <<oracle, liquidity_param, sold, resolved, winning_outcome,
                   funding, withdrawn>>

claim(user) ==
    /\ claim_error(user) = "Ok"
    /\ LET gross == user_balance[user][winning_outcome] IN
         /\ user_balance' = [user_balance EXCEPT ![user][winning_outcome] = 0]
         /\ unclaimed' = unclaimed - gross
         /\ collateral_pool' = collateral_pool - user_payout(gross)
         /\ escrow' = escrow - user_payout(gross)
    /\ UNCHANGED <<oracle, liquidity_param, sold, resolved, winning_outcome,
                   funding, withdrawn>>

withdrawable == collateral_pool - reserved_for(unclaimed)

withdraw_error(caller) ==
    IF ~is_initialized                    THEN "NotInitialized"
    ELSE IF ~resolved                     THEN "NotResolved"
    ELSE IF caller # oracle               THEN "Unauthorized"
    ELSE IF withdrawable <= 0             THEN "NothingToClaim"
    ELSE IF escrow < withdrawable         THEN "TransferFailed"
    ELSE "Ok"

\* Mutant: the pool is not set to the reserve.
withdraw_forgets_pool(caller) ==
    /\ withdraw_error(caller) = "Ok"
    /\ escrow' = escrow - withdrawable
    /\ withdrawn' = TRUE
    /\ UNCHANGED <<oracle, liquidity_param, sold, collateral_pool, resolved,
                   winning_outcome, unclaimed, user_balance, funding>>

withdraw_remaining(caller) ==
    /\ withdraw_error(caller) = "Ok"
    /\ collateral_pool' = reserved_for(unclaimed)
    /\ escrow' = escrow - withdrawable
    /\ withdrawn' = TRUE
    /\ UNCHANGED <<oracle, liquidity_param, sold, resolved, winning_outcome,
                   unclaimed, user_balance, funding>>

Initialize == \E a \in Accounts, b \in LiquidityArgs, f \in FundingArgs :
                initialize(a, b, f)
Buy == \E u \in Accounts, o \in OutcomeArgs, n \in Amounts, m \in Limits :
         buy(u, o, n, m)
Sell == \E u \in Accounts, o \in OutcomeArgs, n \in Amounts, m \in Limits :
          sell(u, o, n, m)
Resolve == \E a \in Accounts, o \in OutcomeArgs : resolve(a, o)
Claim == \E u \in Accounts : claim(u)
WithdrawRemaining == \E a \in Accounts : withdraw_remaining(a)

Next == Initialize \/ Buy \/ Sell \/ Resolve \/ Claim \/ WithdrawRemaining

Spec == Init /\ [][Next]_vars
-----------------------------------------------------------------------------
\* The storage holds values of the types the contract reads back; a balance
\* is never negative and a quantity sold never overflows its price.
TypeOK ==
    /\ oracle \in Accounts \cup {NoAccount}
    /\ liquidity_param \in LiquidityArgs \cup {0}
    /\ sold \in [Outcomes -> 0 .. MaxSold]
    /\ collateral_pool \in Int
    /\ resolved \in BOOLEAN
    /\ winning_outcome \in Outcomes \cup {NoOutcome}
    /\ unclaimed \in Int
    /\ user_balance \in [Accounts -> [Outcomes -> Nat]]
    /\ escrow \in Int
    /\ funding \in Int
    /\ withdrawn \in BOOLEAN

trading == is_initialized /\ ~resolved

(***************************************************************************)
(* Whatever the order and the sizes of the trades, the pool of a market    *)
(* that is trading is the funding plus the cost of the position outstanding*)
(* less the cost of the empty one: rounding in buy and sell never          *)
(* accumulates, since both charge differences of the same function.        *)
(***************************************************************************)
PoolPricesPosition ==
    trading => collateral_pool = funding + cost_now - Cost(0, 0, liquidity_param)

(***************************************************************************)
(* The guard of sell on the pool never fires ("should not happen with      *)
(* correct LMSR math"): the pool always has what a holder's tokens return. *)
(***************************************************************************)
SellNeverShortOfPool ==
    \A u \in Accounts, o \in Outcomes, n \in Amounts, m \in Limits :
        sell_error(u, o, n, m) # "InsufficientPool"

\* Every transfer out is covered: the pool the contract accounts for is the
\* collateral it holds.
PoolBacked == escrow = collateral_pool

holdings(o) == [u \in Accounts |-> user_balance[u][o]]

Total(o) == SumFunctionOnSet(holdings(o), Accounts)

(***************************************************************************)
(* The quantities that price trades are the tokens the users hold, and     *)
(* after resolve the counter that withdraw_remaining reserves for is the   *)
(* winning tokens not yet claimed: no buy, sell or claim loses or          *)
(* duplicates a token.                                                     *)
(***************************************************************************)
TokensMatchBalances ==
    /\ trading => \A o \in Outcomes : Total(o) = sold[o]
    /\ resolved => Total(winning_outcome) = unclaimed

(***************************************************************************)
(* The market maker's loss is bounded: after resolution and until the      *)
(* oracle withdraws, the pool covers every unclaimed winning token in full *)
(* and still holds whatever the oracle put in beyond InitialLiquidity(b). *)
(***************************************************************************)
BoundedLoss ==
    resolved /\ ~withdrawn =>
        collateral_pool - unclaimed >= funding - InitialLiquidity(liquidity_param)

(***************************************************************************)
(* Until the oracle withdraws, every winner can claim, in any order: no    *)
(* claim is refused for lack of collateral.                                *)
(***************************************************************************)
ClaimsCoveredBeforeWithdrawal ==
    ~withdrawn =>
        \A u \in Accounts : claim_error(u) \notin {"InsufficientPool", "TransferFailed"}

owed == [u \in Accounts |-> user_payout(user_balance[u][winning_outcome])]

Owed == SumFunctionOnSet(owed, Accounts)

(***************************************************************************)
(* After withdraw_remaining, and however the claims that follow are        *)
(* ordered, what the winners are still owed exceeds the pool by at most one*)
(* unit of the last digit per account (reserved truncates once, each claim *)
(* rounds its fee down).                                                   *)
(***************************************************************************)
ShortfallBelowOnePerAccount ==
    resolved => Owed - collateral_pool <= Cardinality(Accounts)

(***************************************************************************)
(* The oracle withdraws at most once: after a withdrawal no sequence of    *)
(* claims makes the pool exceed the reserve again.                         *)
(***************************************************************************)
WithdrawsAtMostOnce ==
    withdrawn => \A a \in Accounts : withdraw_error(a) # "Ok"

(***************************************************************************)
(* Resolution is final: afterwards no call changes the outcome, the        *)
(* quantities sold or the oracle, and collateral and unclaimed tokens only *)
(* decrease.                                                               *)
(***************************************************************************)
ResolutionFinal ==
    [][resolved => /\ UNCHANGED <<oracle, resolved, winning_outcome, sold>>
                   /\ collateral_pool' <= collateral_pool
                   /\ unclaimed' <= unclaimed]_vars

(***************************************************************************)
(* A winner can always claim, also after the oracle withdrew: what the     *)
(* comment of withdraw_remaining promises ("reserving enough collateral    *)
(* for unclaimed winning tokens").                                         *)
(***************************************************************************)
WinnerCanAlwaysClaim ==
    \A u \in Accounts : claim_error(u) # "InsufficientPool"

(***************************************************************************)
(* The contract implements AbstractMarket. Its purse is the collateral     *)
(* held; the tokens outstanding are the quantities that price the trades   *)
(* and, once the market is resolved, the counter of unclaimed tokens.      *)
(***************************************************************************)
Abstract == INSTANCE AbstractMarket WITH
    Payout <- BPS_DENOMINATOR - CLAIM_FEE_BPS,
    Whole <- BPS_DENOMINATOR,
    Undecided <- NoOutcome,
    phase <- IF ~is_initialized THEN "closed"
             ELSE IF ~resolved THEN "trading"
             ELSE IF ~withdrawn THEN "settled" ELSE "swept",
    position <- user_balance,
    outstanding <- [o \in Outcomes |->
                      IF resolved /\ o = winning_outcome THEN unclaimed ELSE sold[o]],
    purse <- escrow,
    winner <- winning_outcome

(***************************************************************************)
(* Every call of the contract is a step of the abstract market: whatever   *)
(* the prices and the order of the calls, each trade leaves collateral for *)
(* every token of either outcome, each claim pays a token its worth once,  *)
(* and a withdrawal leaves what is still owed.                             *)
(***************************************************************************)
ImplementsAbstractMarket == Abstract!Spec
=============================================================================
