---------------------------- MODULE MarketDetail ----------------------------
(***************************************************************************)
(* The page of one market: the reader's balances and the price chart, in   *)
(* handleMarketDetail and handleOutcomePage, MarketService.GetBalance and  *)
(* EventService, composed with LmsrMarket. How the state of the market is  *)
(* read first is MarketStates.                                             *)
(*                                                                         *)
(* The balances are read by two goroutines, each of which leaves its       *)
(* answer in a channel of its own; the page takes the YES one first and    *)
(* gives up when it is an error. The chart is drawn from the events of the *)
(* last LOOKBACK ledgers, at most LIMIT of them, which are cached for      *)
(* EVENT_TTL. The market is traded on meanwhile.                           *)
(*                                                                         *)
(* The clock is the number of the current ledger. One page is served at a  *)
(* time.                                                                   *)
(***************************************************************************)
EXTENDS LmsrMarket, Int64, Sequences

CONSTANTS
    AppOracle,              \* the oracle of the market
    Viewer,                 \* accountID: the account in the reader's cookie
    Traders,                \* the accounts that trade
    LOOKBACK,               \* lookbackLedgers
    LIMIT,                  \* EventPagination.Limit
    EVENT_TTL,              \* eventCacheTTL, in ledgers
    TIMEOUT,                \* of the RPC client, in ledgers
    MaxLedger, MaxCalls     \* bounds of the model

ASSUME DetailAssumption ==
    /\ {AppOracle, Viewer} \cup Traders \subseteq Accounts
    /\ LOOKBACK \in Nat /\ LIMIT \in Nat \ {0} /\ EVENT_TTL \in Nat
    /\ TIMEOUT \in Nat /\ MAX_INT64 \in Nat /\ MaxLedger \in Nat /\ MaxCalls \in Nat

VARIABLES
    ledger,                 \* external: the sequence number of the ledger
    log,                    \* external: the events of the contract
    cache,                  \* external: samber/hot, EventService.cache
    reader,                 \* the goroutines of GetBalance, by outcome
    channel,                \* yesCh and noCh
    page                    \* the request

chain == <<vars, log>>
detail_vars == <<chain, ledger, cache, reader, channel, page>>

\* Events are known by their positions in the log, which are their order.
Empty == [events |-> {}, stored |-> -1]

Nothing == -2               \* an empty channel, no answer yet
Failed == -1                \* a result with an error
NoResults == -3             \* the 0 of an answer without results, for a holder

\* from and to are history: the length of the log when GetBalance started
\* and when it returned. at is when the page was rendered.
NoPage == [pc |-> "none", kind |-> "outcome", balance |-> [o \in Outcomes |-> Nothing],
           from |-> 0, to |-> 0, since |-> 0, latest |-> 0,
           charted |-> FALSE, events |-> {}, at |-> 0]

DetailInit ==
    /\ DeployedBy(AppOracle)
    /\ ledger = 0
    /\ log = << >>
    /\ cache = Empty
    /\ reader = [o \in Outcomes |-> "done"]
    /\ channel = [o \in Outcomes |-> Nothing]
    /\ page = NoPage
-----------------------------------------------------------------------------
(***************************************************************************)
(* Calls of the contract and the events they publish. A claim publishes    *)
(* what was paid, not the tokens it redeemed.                              *)
(***************************************************************************)
Publish(kind, user, outcome, amount, collateral) ==
    log' = Append(log, [kind |-> kind, user |-> user, outcome |-> outcome,
                        amount |-> amount, collateral |-> collateral, ledger |-> ledger])

Call ==
    /\ Len(log) < MaxCalls /\ page.pc # "shown"
    /\ \/ \E u \in Traders, o \in Outcomes, n \in Amounts, m \in Limits :
            \/ buy(u, o, n, m)  /\ Publish("buy", u, o, n, escrow' - escrow)
            \/ sell(u, o, n, m) /\ Publish("sell", u, o, n, escrow - escrow')
       \/ \E o \in Outcomes :
            resolve(AppOracle, o) /\ Publish("resolve", AppOracle, o, 0, 0)
       \/ \E u \in Traders :
            claim(u) /\ Publish("claim", u, NoOutcome, 0, escrow - escrow')
       \/ withdraw_remaining(AppOracle)
            /\ Publish("withdraw", AppOracle, NoOutcome, 0, escrow - escrow')
    /\ UNCHANGED <<ledger, cache, reader, channel, page>>
-----------------------------------------------------------------------------
(***************************************************************************)
(* GetBalance.                                                             *)
(***************************************************************************)
Step(p) == page' = p

Rendered(p) == [p EXCEPT !.pc = "shown", !.kind = NoPage.kind, !.since = 0, !.latest = 0,
                         !.at = ledger]

\* What the page does when it has the balances, or has given them up.
after_balance(p) ==
    IF p.kind = "detail" THEN [p EXCEPT !.pc = "lookup"] ELSE Rendered(p)

Quiet == page.pc = "none" /\ \A o \in Outcomes : reader[o] = "done"

\* The page of a reader whose account is known reads the balances first.
StartPage(kind, known) ==
    /\ Quiet
    /\ IF known
       THEN /\ Step([NoPage EXCEPT !.pc = "yes", !.kind = kind, !.from = Len(log)])
            /\ reader' = [o \in Outcomes |-> "reading"]
       ELSE /\ Step(after_balance([NoPage EXCEPT !.kind = kind]))
            /\ UNCHANGED reader
    /\ UNCHANGED <<chain, ledger, cache, channel>>

\* Mutant: the balance of the account that simulates is asked for.
balance_results_of_oracle(o) ==
    {Failed} \cup {b \in {user_balance[AppOracle][o]} : FitsInt64(b)}

\* The simulation of get_balance: it may fail, its answer may not decode, and
\* one without results passes for a balance of 0, whatever the account holds.
balance_results(o) ==
    LET held == user_balance[Viewer][o]
    IN  {Failed, IF held = 0 THEN 0 ELSE NoResults} \cup {b \in {held} : FitsInt64(b)}

waits_for(o) == page.pc = IF o = OUTCOME_YES THEN "yes" ELSE "no"

\* Mutant: the channels have no buffer.
can_send_unbuffered(o) == waits_for(o)

\* The channels have a buffer of one.
can_send(o) == channel[o] = Nothing

\* The goroutine of one outcome: the simulation, and its result sent. One
\* that nobody will take is dropped with its channel.
getOutcomeBalance(o) ==
    /\ reader[o] = "reading" /\ page.pc # "shown"
    /\ can_send(o)
    /\ \E result \in balance_results(o) :
         channel' = IF page.pc \in {"yes", "no"} THEN [channel EXCEPT ![o] = result] ELSE channel
    /\ reader' = [reader EXCEPT ![o] = "done"]
    /\ UNCHANGED <<chain, ledger, cache, page>>

Receive(o) ==
    /\ waits_for(o)
    /\ channel[o] # Nothing
    /\ channel' = [c \in Outcomes |-> IF c = o \/ channel[o] = Failed THEN Nothing ELSE channel[c]]
    /\ LET p == [page EXCEPT !.balance[o] = channel[o], !.to = Len(log)] IN
         CASE channel[o] = Failed ->
                Step(after_balance([NoPage EXCEPT !.kind = page.kind]))
           [] channel[o] # Failed /\ o = OUTCOME_YES -> Step([p EXCEPT !.pc = "no"])
           [] channel[o] # Failed /\ o = OUTCOME_NO  -> Step(after_balance(p))
    /\ UNCHANGED <<chain, ledger, cache, reader>>
-----------------------------------------------------------------------------
(***************************************************************************)
(* GetTradeEvents.                                                         *)
(***************************************************************************)
\* Mutant: the cache is built without WithTTL.
is_found_no_ttl == cache # Empty

is_found == cache # Empty /\ ledger < cache.stored + EVENT_TTL

show(evs) == [Rendered(page) EXCEPT !.charted = TRUE, !.events = evs]

Lookup ==
    /\ page.pc = "lookup"
    /\ IF is_found
       THEN Step(show(cache.events))
       ELSE Step([page EXCEPT !.pc = "latest_ledger", !.since = ledger])
    /\ UNCHANGED <<chain, ledger, cache, reader, channel>>

GetLatestLedger ==
    /\ page.pc = "latest_ledger"
    /\ Step([page EXCEPT !.pc = "get_events", !.since = ledger, !.latest = ledger])
    /\ UNCHANGED <<chain, ledger, cache, reader, channel>>

startLedger == IF page.latest > LOOKBACK THEN page.latest - LOOKBACK ELSE 0

is_trade(e) == e.kind \in {"buy", "sell"}

\* The server answers with the oldest events of the window, LIMIT at most.
answer ==
    LET matching == {i \in 1 .. Len(log) : is_trade(log[i]) /\ log[i].ledger >= startLedger}
    IN  {i \in matching : Cardinality({j \in matching : j < i}) < LIMIT}

parses(e) == FitsInt64(e.amount) /\ FitsInt64(e.collateral)

\* Events that do not parse are left out; it is an error when none does.
GetEvents ==
    /\ page.pc = "get_events"
    /\ LET parsed == {i \in answer : parses(log[i])} IN
         IF parsed = {} /\ answer # {}
         THEN Step(Rendered(page)) /\ UNCHANGED cache
         ELSE Step(show(parsed)) /\ cache' = [events |-> parsed, stored |-> ledger]
    /\ UNCHANGED <<chain, ledger, reader, channel>>

\* The page has a message in place of the chart, and nothing is cached.
EventsFail ==
    /\ page.pc \in {"latest_ledger", "get_events"}
    /\ Step(Rendered(page))
    /\ UNCHANGED <<chain, ledger, cache, reader, channel>>

clamp(n) == IF n < 0 THEN 0 ELSE n

\* Mutant: sales are added.
chart_delta_adds(e) == e.amount

chart_delta(e) == IF e.kind = "buy" THEN e.amount ELSE -e.amount

\* The quantity of an outcome behind each point of the chart, and after every
\* event between two points; the price of a point is the ratio of the two.
eventsToChartPoints(evs, outcome) ==
    LET quantity[i \in 0 .. Len(log)] ==
          IF i = 0 THEN 0
          ELSE IF i \in evs /\ log[i].outcome = outcome
               THEN clamp(quantity[i - 1] + chart_delta(log[i]))
               ELSE quantity[i - 1]
    IN  quantity

\* The page was sent; what it shows is looked at before the market goes on.
Finish ==
    /\ page.pc = "shown"
    /\ Step(NoPage)
    /\ UNCHANGED <<chain, ledger, cache, reader, channel>>

\* Time passes; a call to the RPC server does not outlive its timeout.
CloseLedger ==
    /\ ledger < MaxLedger
    /\ page.pc \notin {"lookup", "shown"}
    /\ page.pc \in {"latest_ledger", "get_events"} => ledger < page.since + TIMEOUT
    /\ ledger' = ledger + 1
    /\ UNCHANGED <<chain, cache, reader, channel, page>>

Serve == Lookup \/ GetLatestLedger \/ GetEvents \/ EventsFail \/ Finish
         \/ \E o \in Outcomes : Receive(o)

DetailNext ==
    \/ Call \/ CloseLedger \/ Serve
    \/ \E o \in Outcomes : getOutcomeBalance(o)
    \/ \E kind \in {"detail", "outcome"}, known \in BOOLEAN : StartPage(kind, known)

(***************************************************************************)
(* The handler and the goroutines run, and every call they make is         *)
(* answered or fails.                                                      *)
(***************************************************************************)
DetailSpec ==
    /\ DetailInit
    /\ [][DetailNext]_detail_vars
    /\ WF_detail_vars(Serve)
    /\ \A o \in Outcomes : WF_detail_vars(getOutcomeBalance(o))
-----------------------------------------------------------------------------
moved(e) == CASE e.kind = "buy" -> e.amount [] e.kind = "sell" -> -e.amount [] OTHER -> 0

\* The quantities sold and the balances of Viewer after the first k events.
sold_at(k) ==
    [o \in Outcomes |->
       SumFunctionOnSet([i \in 1 .. k |-> IF log[i].outcome = o THEN moved(log[i]) ELSE 0],
                        1 .. k)]

claimed_at(k) == \E i \in 1 .. k : log[i].kind = "claim" /\ log[i].user = Viewer

traded_at(k) ==
    [o \in Outcomes |->
       SumFunctionOnSet([i \in 1 .. k |-> IF log[i].outcome = o /\ log[i].user = Viewer
                                          THEN moved(log[i]) ELSE 0],
                        1 .. k)]

position_at(k) ==
    [o \in Outcomes |->
       IF claimed_at(k) /\ o = winning_outcome THEN 0 ELSE traded_at(k)[o]]

(***************************************************************************)
(* Although the two balances are read at different times, each is one the  *)
(* account had while the page was read, and unless the account itself made *)
(* two calls meanwhile they are a pair it had at one time: no call of the  *)
(* contract changes both balances of an account. The only balance shown    *)
(* that the account need not have had is the 0 of an answer without        *)
(* results.                                                                *)
(***************************************************************************)
BalancesShownAreReal ==
    page.pc = "shown" /\ page.balance[OUTCOME_NO] # Nothing =>
        /\ \A o \in Outcomes : page.balance[o] # NoResults =>
              \E k \in page.from .. page.to : page.balance[o] = position_at(k)[o]
        /\ (\A o \in Outcomes : page.balance[o] # NoResults)
             /\ Cardinality({i \in page.from + 1 .. page.to : log[i].user = Viewer}) <= 1
              => \E k \in page.from .. page.to : page.balance = position_at(k)

\* No trade between two of them was left out.
whole(evs) == \A i, k \in evs : \A j \in i .. k : is_trade(log[j]) => j \in evs

(***************************************************************************)
(* A chart that starts with the market shows the quantities the market had *)
(* after each trade. One whose window starts later shows no more than the  *)
(* market had and no less than what was traded since, although the sum is  *)
(* clamped at 0 on the way.                                                *)
(***************************************************************************)
ChartWithinMarket ==
    page.pc = "shown" /\ whole(page.events) =>
        \A first \in page.events : (\A i \in page.events : first <= i) =>
            \A i \in page.events, o \in Outcomes :
                LET real == sold_at(i)[o]
                IN  eventsToChartPoints(page.events, o)[i]
                        \in clamp(real - sold_at(first - 1)[o]) .. real

(***************************************************************************)
(* A trade of the last LOOKBACK ledgers is on every chart drawn EVENT_TTL  *)
(* after it or later, however often the page was visited in between,       *)
(* unless the server cut its answer or the event does not parse.           *)
(***************************************************************************)
TradesReachChart ==
    page.pc = "shown" /\ page.charted /\ Cardinality(page.events) < LIMIT
      /\ (\A i \in 1 .. Len(log) : parses(log[i])) =>
        \A i \in 1 .. Len(log) :
            is_trade(log[i]) /\ log[i].ledger \in page.at - LOOKBACK .. page.at - EVENT_TTL
                => i \in page.events

(***************************************************************************)
(* Every page is rendered, whichever reads fail, and no goroutine is left  *)
(* behind by a page that gave up before taking its answer.                 *)
(***************************************************************************)
PageAndReadersFinish == ~Quiet ~> Quiet
=============================================================================
