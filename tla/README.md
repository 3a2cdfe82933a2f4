# A TLA+ model of TOTAL

TOTAL is a prediction market on Stellar: a Soroban contract per market prices YES
and NO tokens with the logarithmic market scoring rule (LMSR), a factory contract
deploys markets and lists them, and a stateless Go web application reads the
contracts and builds transactions that users sign in their wallets. This
directory models the two contracts, the arithmetic they rest on, and the paths of
the application that race with the ledger or with each other: quoting and
building a transaction, and reading the list of markets, their states, their
metadata, balances and trades, most of it through caches.

## 1. Inventory

| Part | State | Operations | What makes it correct | Model |
|---|---|---|---|---|
| LMSR arithmetic, `contracts/lmsr_market/src/lmsr.rs` | none | `exp_scaled`, `ln_scaled`, `cost`, `calculate_buy_cost`, `calculate_sell_return`, `calculate_price`, `initial_liquidity` | the cost covers either outcome winning; its subsidy is bounded; prices are probabilities | `Lmsr` |
| Market contract, `contracts/lmsr_market/src/lib.rs` | instance storage (`DataKey`), collateral held | `__constructor`/`initialize`, `buy`, `sell`, `resolve`, `claim`, `withdraw_remaining`, getters | solvency, no token lost or made up, finality of the resolution | `LmsrMarket`, `AbstractMarket` |
| Factory contract, `contracts/market_factory/src/lib.rs` | admin, code hash, default token, list of markets | `initialize`, `deploy_market`, two setters, getters | the list is what was deployed; earlier markets never change | `MarketFactory` |
| Transaction pipeline, `internal/handler`, `internal/service/market.go`, `internal/stellar`, `internal/soroban` | one goroutine per request, no shared state | the quote, buy, sell, resolve, claim and withdraw forms, the messages for errors | slippage limits hold however late a transaction runs; a request is not executed twice; every form is answered, and what the answer says stays true | `TradeFlow` |
| Market state reads, `internal/service/factory.go`, `cache.go` | a stale-while-revalidate cache | `GetMarketStates`, `fetchMarketState`, background reload | bounded staleness, no invented state, every page is answered | `MarketStates` |
| Market list, `ListMarkets` | a second cache of the same kind | `ListMarkets`, `fetchMarketList` | the list served is one the factory had, and a new market appears on it | `MarketListing` |
| Deploy form, `BuildDeployMarketTx` | none | validation, random salt, simulation | what it accepts the constructor accepts | `MarketListing` |
| Page of a market, `handleMarketDetail`, `handleOutcomePage`, `GetBalance` | two goroutines and two channels per page | reading both balances | a balance shown is one the account had; no goroutine is left behind | `MarketDetail` |
| Trade events, `internal/service/events.go`, `eventsToChartPoints` | a cache without revalidation | one page of 200 events of the last 17280 ledgers | the chart shows what was traded, and recent trades reach it | `MarketDetail` |
| IPFS client, `internal/ipfs/client.go`; `buildMarketViews`; `warmupIPFSCache` | a stale-while-revalidate cache of what the gateway sent | `GetJSON`, `fetchFromGateway` with back-off, reload, warm-up | a page waits for a bounded time, and a bad answer is forgotten | `MarketMetadata` |
| Estimated prices, `calculatePrices` | none | prices of the list, without b | they point the same way as the contract's | `Lmsr` |
| Submission in the Soroban client, `internal/soroban/client.go` | none | `SendTransaction`, `WaitForTransaction` | nothing calls them | not modelled |
| Display calculator, `internal/lmsr`; models, chart, templates, configuration, `cmd` | none | floating-point display, formatting, start-up | - | not modelled |

The application holds no keys. It talks to the contracts only by simulating
calls through the Soroban RPC server, and to the ledger through Horizon for
sequence numbers; a transaction it hands out is signed and submitted elsewhere,
at a time it does not control. What is hard to test is therefore

* the long life of one contract, in which every trade rounds and the last claim
  has to be paid from what all earlier calls left behind;
* the window between a quote, the transaction built from it and its execution;
* the caches, filled by readers that overtake each other and fail;
* pages put together from several reads, some of which fail, while the market
  moves on and the reader may have left.

`PROJECT.json` lists each such hazard at its line, with the properties about it.

## 2. The modules

**`Lmsr`** is `lmsr.rs` in integers scaled by the constant `SCALE_FACTOR`. Division
truncates towards zero as in Rust (`TruncDiv`). The loops of `exp_scaled` and
`ln_scaled` are recursive functions over the number of the term; their early exit
skips only terms that are zero. `MCLmsr` walks over the quantities a market can
reach and checks the functions at each point and along each purchase.

**`LmsrMarket`** has one variable per storage key, the contract's balance in the
collateral token (`escrow`, external), and two history variables (`funding`,
`withdrawn`). For each entry point `f` there is an operator `f_error` that gives the
error of a call in the current state, with the checks in the code's order, and an
action `f` enabled when it is `"Ok"`. A call that fails is rolled back by the host and
is a stuttering step. Authorisation is the identity of the caller. Users' own
token balances are left open: any transfer from a user may fail, which is a
stuttering step as well. The pricing function is a constant operator, so that
the theorems hold for every function with the three properties of
`CostAssumption`; `MCLmsrMarket` gives it the one of `Lmsr` (tabulated) at a scale of 100.

**`AbstractMarket`** says what the contract promises without any pricing function: a purse out of
which every token of either outcome can be redeemed. A trade may cost anything that leaves the
purse large enough; after settlement a winning token is worth at least 98 % of a unit and
at most one; the market maker sweeps the rest once, and leaves what the
outstanding tokens are worth to within one unit. `LmsrMarket` implements it (`ImplementsAbstractMarket`) under the mapping
`phase` from `oracle`, `resolved` and `withdrawn`; `position` = `user_balance`; `purse` = `escrow`; `winner` =
`winning_outcome`; and `outstanding` = `sold`, except that the winning outcome's count is
`unclaimed` once the market is resolved. That the three counters the contract keeps
separately play this one role is the point of the mapping.

**`LmsrProofs`**, **`LmsrMarketProofs`**, **`TradeFlowProofs`**, **`MarketStatesProofs`**, **`MarketListingProofs`**,
**`MarketDetailProofs`** and **`MarketMetadataProofs`** hold the theorems about the module they are named after (section 5);
those of `LmsrProofs` are about the walk of `MCLmsr`, and `MarketListingProofs` begins with the theorems about `MarketFactory`, which
`MarketListing` composes. Where a module composes another one, so do its proofs. **`SumProofs`** holds what they need of sums, of powers
of two and of induction.

**`MarketFactory`** has the factory's storage keys and `ledger`, what the network keeps
under each address. An address is derived from the factory and the salt, so
salts stand for addresses. The constructor of a market is its condition
(`constructor_ok`); code other than `lmsr_market` may be configured, and nothing is
assumed of its constructor.

**`TradeFlow`** EXTENDS `LmsrMarket` with requests and account sequence numbers. A request
goes through `quote` (simulate `get_quote` or `get_sell_quote`, compute the limit),
`build` (read the sequence number) and `prepare` (simulate the transaction), each a
separate step between which the ledger moves; `resolve`, `claim` and `withdraw` start
at `build`, and the quote page and the quote of the trade form end after the first step. A request
ends `handed_out`, `quoted` or `rejected`, the last with the message that `mapError` and
`mapContractError` choose. An error of a simulation is the sequence of the codes its text names, the
outermost contract first; `extractLastErrorCode` takes the last one and the message depends on
that number alone. A call that moves collateral may fail in the token, with any of its own codes
(`TokenCodes`, any set of numbers in the proofs), so every message of the market can also be the answer to a failed
transfer; the history field `source` says who raised the error. `Submit` is the wallet: it may come at any
time, in any order and again and again, since the transaction carries an infinite
time bound; the network accepts it when it has the account's next sequence number,
and consumes the number even if the call fails. The limit is computed in floating
point, so where the exact product is a whole number the result may be one less
(`limits_of`). An amount of 0 stands for a positive number of shares below the smallest unit, a
slippage of 0 for a tolerance too small to change the quote. `Outside` are calls not built by the application.

**`Int64`** is the application's int64, shared by `TradeFlow`, `MarketDetail` and `MarketListing`. `DecodeI128` checks
its range exactly (`FitsInt64`). `safeFloatToInt64` compares with `float64(math.MaxInt64)`, which is 2^63: the float 2^63 passes, and
`MAX_INT64` itself has become that float. `int64(2^63)` is left to the platform by Go (the least number on amd64, the
greatest on arm64), so the conversion gives a set of values. Between 2^53 and 2^63 a float64 is coarser than a
unit; that error, at most one part in 2^52 of a number no collateral token has so many units of, is
kept only at the boundary.

**`MarketStates`** has a page as one goroutine per market, each reading the contract in
two or three separate steps (`get_state`, for a resolved market `get_winning_outcome`,
`get_metadata_hash`), with a failure possible at each, and a background worker per
market for the cache's revalidation. Of a market's state it keeps the time of
the read, whether the market was resolved and whether a winner is known.
The cache library (samber/hot) is external: an entry is served until
TTL + REVALIDATION, and reloaded in the background when served after TTL.

**`MarketListing`** EXTENDS `MarketFactory` with the deploy form and the list page. A deploy request
goes from `build` (read the oracle's sequence number) over `prepare` (simulate `deploy_market`) to
`handed_out` or `rejected`; the numbers of the form are finer than the contract's unit
(`PRECISION`), and are truncated after they were validated. Others may deploy and the admin may change
the configuration in between. A request for the list either is answered by the cache or reads the
factory and stores what it read in two steps, between which time passes and the factory moves on.
The cache works as in `MarketStates`, except that this loader reports its errors: whether
KeepOnError merely leaves the entry or also renews it is the library's affair and left open.

**`MarketDetail`** EXTENDS `LmsrMarket` with its events and the page of one market. The two goroutines of
`GetBalance` simulate `get_balance` at times of their own, each with its one-element channel. A simulation fails, gives what the
account holds, or comes without results, which the code takes for 0; a 0 of this kind for an account that does hold
tokens is marked `NoResults`, to tell it from one that was read. The page
takes YES before NO and gives up at the first error, so that a goroutine may outlive it. The chart
comes from the cache or from two calls (`GetLatestLedger`, `GetEvents`) between which ledgers close;
the server's answer is the oldest `LIMIT` events from `startLedger` on. Events are known by
their positions in the log of the contract, so that a set of positions stands for a list of events in their order; the clock
is the ledger number, and what the page shows is compared with the log while it is in state `shown`.

**`MarketMetadata`** is the reading of IPFS. Pages, the warm-up at the start of the process and the
reloads of the cache are workers that run `fetchFromGateway`: a request that ends with status 200, with
429 or with another error, and a pause between attempts. The reader may leave (`Leave`),
which cancels the request's context but not the warm-up or the reloads. Of an answer
only whether it decodes is kept, since the contents of a hash never change. All
times are ages, capped where no one distinguishes them, so that time is unbounded in this model.
`MCMetadataStale` adds the time since a reload failed, for what the code's comment says of failed reloads.

Operators named after another one with a suffix (`buy_skips_pool`, ...) and marked
"Mutant" are plausible mistakes in that operation. No specification uses them;
each is substituted for the operation to confirm that some property notices.

## 3. The runs

| Run | Bounds | Result |
|---|---|---|
| `lmsr` | scale 1000, b of 20, 50, 110 units, quantities up to 6 b in steps of 5; 22 035 states | passes |
| `lmsr_positive` | scale 1000, b = 1000, steps of 10 | violated: finding 2 |
| `market` | three accounts, b of 0, 60, 100, fundings below, at and above the requirement and above `MAX_FUNDING`, trades of 0, 49 and 98 units, limits 0 and 1000; 23 662 states | passes |
| `market_winner` | as `market` | violated: finding 1 |
| `factory` | two accounts, three salts, two code hashes, two tokens; 51 222 states | passes |
| `flow` | two requests of one user and the oracle, one outside trader, b of 20, trades of 51 units, slippage of 6 and (refused) 11 %, `MAX_INT64` = 51, token errors 10 and 13; 891 020 states | passes |
| `flow_codes` | as `flow` | violated: finding 3 |
| `states` | two markets, of which one may be resolved (`Decided`), one page and the background reloads, TTL = REVALIDATION = TIMEOUT = 1, four ticks; 347 143 states | passes |
| `detail` | one account that reads and trades 10 or 20 units, the oracle, three calls, two ledgers, LOOKBACK = EVENT_TTL = TIMEOUT = 1, LIMIT = 2, `MAX_INT64` = 15; 2.1 million states | passes |
| `metadata` | two hashes, one of them malformed, one page, warm-up and reloads, three retries with pauses of 1, 2 and 4, TTL = REVALIDATION = TIMEOUT = 1; 174 644 states | passes |
| `metadata_stale` | as `metadata`, with one retry and TTL = REVALIDATION = 2 | violated: finding 4 |
| `listing` | one deploy form with numbers of 0, 0.5, 40.5, 60.5 and 63 units, `MAX_INT64` = 60, two salts, one outside deployer, one list page and the reload, TTL = REVALIDATION = TIMEOUT = 1, three ticks; 2.3 million states | passes |

What they check:

* `lmsr`: `CostBracket` (the cost lies between the larger quantity and that plus
  `initial_liquidity(b)`, and equals the latter when nothing is sold; this is what
  `CostAssumption` takes for granted), `PricesSumToOne`, `LnInvertsExp`,
  `MarginalPriceBounded`, `PricesDirectional` (the estimate without b has the same leader and moves the
  same way as the contract's price).
* `market`: `PoolPricesPosition` (rounding never accumulates), `SellNeverShortOfPool` (the
  guard "should not happen with correct LMSR math" indeed never fires), `PoolBacked`,
  `TokensMatchBalances`, `BoundedLoss`, `ClaimsCoveredBeforeWithdrawal`,
  `ShortfallBelowOnePerAccount`, `WithdrawsAtMostOnce`, `ResolutionFinal`, `ImplementsAbstractMarket`.
* `factory`: `MarketsMatchLedger`, `ListedMarketsFunded`, `DeploymentsPermanent`,
  `AdminControlsConfig`.
* `flow`: `SlippageRespected`, `PositionsExplained`, `SubmissionVoidsOthers`, `FinalAnswersStay` (a user whom
  the market contract refuses because it is resolved, or because there is nothing to claim, is told what stays true, although the answer was
  computed while others traded; for refusals by the token see finding 3), `RequestAnswered`; its type
  invariant `FlowTypeOK` includes that amounts and limits are numbers an int64 holds, which the conversion guarantees in spite
  of its check. `SlippageRespected` covers what becomes of a limit at the end of the range: a purchase with a negative
  maximum does not run, and only a sale quoted at the largest int64 may be left without its minimum.
* `states`: `StalenessBounded`, `ShownStatesAreReal`, `PageAnswered`.
* `detail`: `BalancesShownAreReal` (two separate reads show a pair the account had at one time,
  unless it made two calls itself meanwhile; the 0 of an answer without results is the only other thing shown), `ChartWithinMarket` (a window that starts late and clamps
  never shows more than was sold nor less than was traded since), `TradesReachChart` (a trade within the window is
  on every chart EVENT_TTL later, unless the server cut its answer), `PageAndReadersFinish`.
* `metadata`: `WaitBounded` (all requests and pauses of one hash; with the program's constants 4 * 30 + 3.5
  seconds, which is more than the 30 seconds of the server's WriteTimeout), `GarbledAnswersForgotten`,
  `MetadataAnswered`.
* `listing`: `FormCoversSubsidy` (70 % of b covers `b * ln 2` although both numbers are
  truncated), `DeployedMarketsShown` (the list is a prefix of the factory's, and lacks a market for at
  most TTL + REVALIDATION + TIMEOUT unless a reload failed), `ListAnswered`.

Why the bounds are enough. TLC's integers have 32 bits, so the scale is 100 or 1000
instead of 10^7; the functions are the same and rounding is coarser, which makes
rounding errors more visible, not less. 49 and 98 are chosen because 2 % of 49
truncates to 0 and 2 % of 98 to 1, so that claims round differently from their
sum; three accounts are the fewest with two winners and a loser. Two requests
are enough for one to overtake the other. With `MAX_INT64` = 51 the amount of 51 units is the number that becomes
2^63 as a float, and a purchase of the outcome that leads is quoted so high that 6 % more lies at or beyond the end of the range, so that both the refusal and
the wrapped limit happen; 11 % is more than the form allows. Four ticks in `states` are longer than the life of a cache entry and two
fetches. In `listing` b = 60.5 needs 41 units: two thirds of it would pass for 40; 60.5 is also the number that becomes 2^63
there, and 63 units are refused by the conversion; three ticks are exactly the delay `DeployedMarketsShown` allows. In `detail` three calls are a purchase, a sale and a third trade,
claim or resolution, LIMIT = 2 cuts an answer, LOOKBACK = 1 loses the first of two ledgers, and 20 units do
not fit `MAX_INT64`, so that balances and events fail to decode. In `metadata` the
pauses double as in the program, where the cap of `maxBackoff` is not reached either; a page,
the warm-up and the reload may all fetch the same hash at once. In `states` only one market may be resolved, since
markets do not affect each other except through the page that waits for both. Sets of accounts, salts and tokens that no
operation distinguishes are symmetric in `market` and `factory`; the runs with liveness properties use no symmetry.
Deadlock is an error in `detail` and `metadata`. In the other
runs it is not: a contract nobody calls, a bounded walk or a
bounded clock simply stops.

Fairness. `TradeFlow` assumes weak fairness of the handler's own steps only
(`Handle`): a goroutine that was started runs, and the HTTP clients have timeouts, so
every call returns. That a call fails (`RpcFails`) is possible and never required,
and nothing makes a user sign. `MarketStates` assumes weak fairness of the page's
goroutines and of the reads, for the same reason, and none of `StartPage`, `Resolve` or
the clock. `MarketListing` assumes weak fairness of each reader of the list, and none of the forms.
`MarketDetail` assumes weak fairness of the page and of each goroutine. `MarketMetadata` assumes weak fairness of each fetch
(it ends in one of the ways it can, none of them preferred), of lookups, pages and the warm-up, and strong fairness of the clock: pages that
need no time may come and go between two ticks, each holding the clock for a moment, and time passes nevertheless.

## 4. Findings

1. **The reserve can be short of the payouts** (`market_winner`). `withdraw_remaining` keeps
   `floor(0.98 * unclaimed)`, each claim takes its balance less `floor(0.02 * balance)`. With one winner
   of 49 units the reserve is 48 and the payout 49: after an early
   withdrawal the winner is refused with `InsufficientPool`, and stays so. The
   shortfall is at most one unit (10^-7) per account (`ShortfallBelowOnePerAccount`), but the whole
   claim fails.
2. **A small purchase can have a negative cost** (`lmsr_positive`). `ln_scaled` stops after
   30 terms and is about 1.6 % too low just below 2, so that the cost function jumps down when
   a market leaves equilibrium. The transfer of a negative amount fails, so small
   trades near equilibrium are impossible rather than free.
3. **A winner can be told that there is nothing to claim** (`flow_codes`). The message depends on the number of
   the last error and not on the contract that raised it, and only number 10 has words for both. The
   token's error 13 is a missing trustline: a user who bought, won and then lacks the trustline is
   told "Nothing to claim. You either have no winning tokens or already claimed." In the run the
   user holds 51 winning units. In the same way a token error 8 reads "Slippage exceeded".
4. **Stale metadata is not preserved** (`metadata_stale`). The comment on the cache says that it is, by KeepOnError, when a
   reload fails; but `loadFromGateway` returns no error for the hashes it could not read, so the
   policy never applies and the entry expires when its old life ends, here one tick after the failed reload.
   `GarbledAnswersForgotten` holds for this reason only: with the behaviour the comment describes,
   one bad answer would be served for as long as the gateway fails.

Other places where the code and its comments disagree, which no run is about:

* `exp_scaled` is not accurate on [-20, 20] as `lmsr.rs:17` says: below about -8.8 its 20 terms diverge, and `exp_scaled(-9)` is
  about 1.51. `ExpOfDiffAtMostOne` of `MCLmsr` states the least that the comment implies; checked as an invariant of the walk at scale 100 with b = 20 and
  quantities up to 11 b, it is violated. The cost is then too high, never too low (section 5).
* Anyone deploys markets: `deploy_market` (`market_factory/src/lib.rs:100`) asks for the oracle's authorisation, while
  `lib.rs:28` and `:50` speak of the admin as the one who can. `MarketFactory` has it as the code does: any account deploys.
* `safeFloatToInt64` (`service/market.go:27`) promises an error for what exceeds the int64 range and lets 2^63 pass (`Int64`).
* `getOutcomeBalance` (`service/market.go:428`) takes empty results for "no position", but
  `get_balance` returns a value for every account; what an answer without results does to the page is in `MarketDetail`.

## 5. What is proved

Every safety invariant and every action property of the passing runs is also a theorem, for all values of the constants, except
three of run `lmsr`: `LnInvertsExp` and `MarginalPriceBounded` are only model-checked, and `CostBracket` is proved under a condition
(below). The bounds of the models (`MaxCalls`, `MaxLedger`, `MaxTime`, the sets of amounts) are
arbitrary in the proofs, so the theorems speak of runs of any length.

| Module | Theorem | Property |
|---|---|---|
| `LmsrProofs` | `PricesAreProbabilities`, `ListPricesAreDirectional` | `PricesSumToOne`, `PricesDirectional` |
| | `CostBracketed`, `BalancedCostBracketed` | `CostBracket` where exp_scaled of the difference lies above 0 and at most at 1.0; where the quantities are at most b |
| | `CostCoversPayouts` | `CostAssumption` of the market, for the contract's own functions |
| `LmsrMarketProofs` | `TypeCorrect`, `PathIndependence`, `CollateralBacked`, `LossBounded`, `SellAlwaysFunded` | `TypeOK`, `PoolPricesPosition`, `PoolBacked`, `BoundedLoss`, `SellNeverShortOfPool` |
| | `TokensAccounted`, `ClaimsCovered`, `ShortfallBounded` | `TokensMatchBalances`, `ClaimsCoveredBeforeWithdrawal`, `ShortfallBelowOnePerAccount` |
| | `WithdrawalUnique`, `ResolutionIsFinal`, `MarketRefinement` | `WithdrawsAtMostOnce`, `ResolutionFinal`, `ImplementsAbstractMarket` |
| `MarketListingProofs` (factory) | `FactoryTypeCorrect`, `ListMatchesLedger`, `ListedAreFunded`, `DeploymentsArePermanent`, `AdminInControl` | `TypeOK`, `MarketsMatchLedger`, `ListedMarketsFunded`, `DeploymentsPermanent`, `AdminControlsConfig` |
| `TradeFlowProofs` | `FlowTypeCorrect`, `SlippageHolds`, `PositionsAreExplained`, `RefusalsAreFinal`, `SubmissionIsExclusive` | `FlowTypeOK`, `SlippageRespected`, `PositionsExplained`, `FinalAnswersStay`, `SubmissionVoidsOthers` |
| | `MarketSafeInFlow` | `MarketSound`: the eight invariants of the market, in the composition |
| | `ResolutionFinalInFlow`, `FlowStepsAreAbstract` | `ResolutionFinal`, and the steps of `AbstractMarket`, in the composition |
| `MarketStatesProofs` | `StalenessIsBounded`, `ShownAreReal` | `StalenessBounded`, `ShownStatesAreReal` |
| `MarketListingProofs` | `FormIsAccepted`, `DeploymentsAreShown` | `FormCoversSubsidy`, `DeployedMarketsShown` |
| | `MarketsSoundInListing`, `DeploymentsPermanentInListing`, `AdminInControlInListing` | `MarketsMatchLedger` and `ListedMarketsFunded`, `DeploymentsPermanent`, `AdminControlsConfig` in the composition |
| `MarketDetailProofs` | `BalancesAreReal`, `ChartIsWithinMarket`, `TradesAreCharted` | `BalancesShownAreReal`, `ChartWithinMarket`, `TradesReachChart` |
| | `ReadersNeverBlock`, `MarketSafeInDetail` | `NoReaderBlocks` (the safety part of `PageAndReadersFinish`), `MarketSound` in the composition |
| `MarketMetadataProofs` | `WaitIsBounded`, `GarbledIsForgotten` | `WaitBounded`, `GarbledAnswersForgotten` |

### Assumptions

Each is named, in the module that declares the constants, and TLC evaluates it on the instances of the runs.

* `ArgsAssumption`: arguments are integers, there are finitely many accounts, and `NoAccount` is none of them.
* `CostAssumption`: for a positive b the cost is an integer, an untraded market costs `initial_liquidity(b)`, and the cost is at
  least either quantity. `CostCoversPayouts` proves it for the contract's own functions, for every b and every pair of quantities
  for which `exp_scaled` of the difference is not 0: it never is when the quantities differ by at most b (also proved), nor when they
  differ by more than 20 b, where the code returns 1. In between it is a matter of the numbers. Evaluating the loop, outside of TLA+, at each of the
  2 * 10^8 arguments of the contract's scale 10^7 gives at least 26 923, so there the condition always holds. The inaccuracy of `exp_scaled` below -8.8 does not touch
  the assumption: a series that is too large makes the cost too large, never too small.
* `ScaleAssumption`: the scale is positive and ln 2 lies between one unit and 1.0.
* `WalkAssumption`: in the walk of `MCLmsr` b is positive, and the step and the bound on the quantities are natural numbers.
* `SeriesAssumption`: the 30 terms of `ln_scaled`, for an argument below 2, sum up to no more than `LN2_SCALED`. TLC evaluates it at every argument
  of the scales of the runs. At the scale 10^7 the largest sum, evaluated in the same way, is 6 767 582, against 6 931 472. Only the upper
  half of `CostBracket` rests on it.
* `FlowAssumption`: the users of the application are not among the outsiders, there are finitely many requests, and the
  token's error codes are some set of natural numbers.
* `FactoryAssumption`, `ListingAssumption`: `None` is none of the values it is compared with; an int64 does not exceed
  `MAX_FUNDING`; the cache has a positive life (`marketListCacheTTL` is 30 s).
* `SubsidyAssumption`: `initial_liquidity(b)` is at most 70 % of b for every b that is a positive int64, where `LN2_SCALED` / `SCALE_FACTOR` is 0.6931472. What is
  proved from it is that truncating b and the funding after the check does not lose that margin.
* `TimesAssumption`, `MetadataAssumption`, `DetailAssumption`: times are natural numbers, entries of the caches of states and of metadata live
  for at least one unit (30 s, 5 min), and the first pause does not exceed the longest (500 ms, 5 s).

### The market

The inductive invariant `IInv` is `TypeOK`, `Configured`, `PoolPricesPosition`,
`PoolBacked`, `BoundedLoss` and `ReserveHolds`. `PoolPricesPosition` is preserved by `buy` and `sell` because both
move the difference of two costs; it needs `Configured`, since the cost is only known for
a b that `initialize` accepted. It is what `sell`'s guard and `BoundedLoss` rest on:
`resolve` turns "the pool prices the position" into "the pool covers the winning
tokens" by the last part of `CostAssumption`. From then on `claim` takes no more than it
redeems. For `WithdrawalUnique`, `ReserveHolds` says that after a withdrawal
the pool is at most the reserve; `ClaimShrinksReserve` shows that a claim, because it
rounds the fee down, takes at least as much from the pool as from the reserve - the
same rounding that causes finding 1.

`TokensAccounted` is a sum over the accounts, of which a call changes one summand (`SumUpdate`). `ClaimsCovered` follows from it and
`BoundedLoss`: one account holds no more than all of them. `ShortfallBounded` compares the sum of the payouts with the reserve,
summand by summand with a slack of one unit each (`SumBounded`), and that slack is the bound.

For `MarketRefinement`, `CollateralCovers` derives from the invariant that a trading market holds collateral for either outcome.
`InitAbstract` maps the initial states, one lemma per entry point maps its calls to one abstract step
(`TradeAbstract` serves `buy` and `sell` alike), and `NextAbstract` combines them. A claim needs `PayoutWorth`
(rounding the fee down favours the winner), a withdrawal `ReserveWorth` (the reserve is less than a unit short)
and `ReserveHolds`, without which it could be a second sweep.

### The arithmetic

What a truncating division keeps is stated once (`TruncNat`, `TruncGreatest`, `TruncMonotone`). `PricesAreProbabilities` needs of `exp_scaled` only that
it is never negative and at least 1.0 for a quantity that is not: two shares of one whole lose less than a unit each.
`ListPricesAreDirectional` compares two purchases by cross-multiplication: the series grows with a non-negative argument, term by term
(`ExpMonotone`), so a purchase raises the price of its outcome and lowers the other, and the estimate without b, floor of 1 % included, does the
same.

`CostCoversPayouts` takes the cost apart (`CostFacts`). The larger quantity over b is truncated, and the logarithm must make up for the unit it
may lack; it does because a logarithm of more than 1.0 is at least one unit (`LnRange`), which is where an `exp_scaled` of 0 would break
it. `LnRange` in turn needs that `halvings` finds its shift, hence a bound on the series (`LoopBounded`: a term grows
at most by 20 at each step), and that the terms of `ln(1 + y)` shrink, so that the alternating sum stays positive (`LnSeriesPositive`). For arguments
down to -1.0 the terms of `exp_scaled` shrink as well, its partial sums stay between two neighbours (`BetweenStays`), and
`ExpOfSmallDiff` follows. The upper half of `CostBracket` needs `exp_scaled` of the difference at
most 1.0, which fails once the quantities differ by 8.8 b (section 4); the theorem says so in its hypothesis.
The inductive invariant of the walk (`WInv`) says that b is positive and the quantities are within their bound.

### The compositions

The market is proved about once, and for more than its own specification: `ContractCall` is a call of any entry point but `initialize`
with any integers as arguments. Each composition shows that its step, seen on the market's variables, is such a call or leaves
them alone (`FlowStepOnContract`, `DetailStepOnContract`); `SoundStep` then gives the invariants, `ResolutionFinal` and the abstract step
together. It takes `IInv` from the invariant of the composition, where the proofs of the composition needed it anyway. In the same way
`ListingStepOnFactory` says that whatever the forms and the users of the factory do is one of its operations, with `Fundable` in
the invariant of the forms: a form that was accepted is still one the constructor accepts when it is submitted. `ListedOnce` and `FundedOK` are
then inductive as for the factory alone.

### The other components

* Factory. `ListedMarketsFunded` is about the list; its inductive form is about every occupied address, where the constructor
  left what it had checked. `MarketsMatchLedger` needs that the list is empty before `initialize` overwrites it.
* Pipeline (`FInv`). `IInv` of the market is part of it, so every call, from the application or not, is one of `LmsrMarketProofs`.
  `RequestOK` carries the relation between limit and quote from the handler to the execution; `SequenceOK` bounds the number
  a handler can have been given; `AnswerOK` says why the market gave a final refusal, in terms of state that no later call undoes
  (`MarketKept`); it rests on `mapContractError` being injective where it matters, for the market's own codes (`ErrorTable`, `MessageGrounds`).
  What a limit can be after `safeFloatToInt64` is `FloatFacts` and `LimitFacts`. `PositionsExplained` is itself inductive, as a sum over the requests.
* State reads (`IInv` of `MarketStatesProofs`). The bound on staleness is not local to a goroutine: what one of them has read waits for the slowest one of
  its page. `WaitingOK` therefore says that all goroutines of a page looked into the cache at one time.
* Market list (`LInv`). For each list that is held somewhere, in the cache, by a reader or on a page, the invariant says which
  markets must be on it, given when it was read or stored; that a stale reader may overwrite a newer list is thereby accounted for.
* Page of a market (`DInv`). The log explains the contract (`LogExplains`): what was sold, at no time negative, and what the
  reader holds are sums over it, and a claim is final. `BalancesAreReal` then needs that between two events a position changes only by an
  event of its own account, and in one outcome only (`PositionStep`), so that of a pair read around one event one of the two
  moments fits both. `TradesAreCharted` needs what an entry of the cache lacked when it was stored, and that an answer shorter
  than the limit was not cut (`UncutAnswer`: the first event left out would have had fewer than `LIMIT` before it). `ChartIsWithinMarket` is an induction along the points, whose upper bound
  survives the clamp because `sold_at` was never negative.
* Metadata (`MInv`). For every fetch of a waiting page, the time the page has waited and the time the fetch can still take
  are together at most `MaxWait`; the pauses double, which makes `MaxWait` a sum of powers of two. The last answer
  that did not decode is no further back than the age of an entry that does not (`CacheExplained`).

### How the inductions are done

The provers cannot instantiate an induction theorem whose property is an operator. They can when the property is a *set*: strict
inclusion of finite sets is well founded, so a non-empty set of subsets has a minimal element (`SmallestSubset`), and from it come
`SubsetInduction`, `IntervalInduction`, and the recursion theorem for `SumFunctionOnSet` (`SumExists`, `SumUnique`, `SumUnfolds`). Sums in
the modules are written with `SumFunctionOnSet` for this reason. The loops of `Lmsr` are recursive functions over the number of the
term; that such a function exists and unfolds is `RecursionExists`, by the same means. Of powers of two the provers know only
the number of subsets of a finite set, which suffices (`PowerIsNatural`, `PowerDoubles`).

### Only model-checked

* Liveness: `RequestAnswered`, `PageAnswered`, `ListAnswered`, `PageAndReadersFinish` and `MetadataAnswered`. The prover handles
  neither fairness nor `ENABLED`.
  The safety part of `PageAndReadersFinish` is a theorem.
* What the series compute: `LnInvertsExp` and `MarginalPriceBounded` bound the sum of the rounding errors of 20 and of 30 terms at a given
  scale, and `CostBracket` its upper half where the quantities differ by more than b. The provers have no theory of the exponential function
  to compare the series with, and evaluating them is what TLC does.
* That each assumption holds of the instances of the runs.

## 6. Not modelled

* `SendTransaction`, `GetTransaction` and `WaitForTransaction` of the Soroban client, `MarketService.GetMarketState` and
  `PinJSON` of the IPFS client: nothing in the program calls them.
* The calculator of `internal/lmsr`: floating point, and the program uses its error values only.
* Rendering, the drawing of the chart, logging and configuration: no state of the system.
* The shutdown of the HTTP server: the process keeps nothing that outlives it, and a request it
  cuts off is to its reader the same as a failed one.
* Expiry of contract storage, network fees and the limits of instance storage: they belong to the network.
* A price overflow beyond 20 b is part of `get_quote_error`, but lies outside the bounds of the runs.
* Evictions from the caches (500 to 1000 entries, least recently used): an evicted entry is a miss, which every
  reader handles as it handles an expired one.
* The metadata hash in the contract: written once and only returned. The pause of 200 ms between two hashes of the
  warm-up, which the model lets take no time.

## 7. Plan

All modules of section 2 are written, and the theorems of section 5 proved. What could be added:

1. A bound, as a theorem, on the error of `exp_scaled` and `ln_scaled` in units of the scale, by comparing each with the same series without
   truncation; `MarginalPriceBounded` would follow from it.
2. The events of the contract other than trades, should a page come to read them.
