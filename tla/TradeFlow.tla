----------------------------- MODULE TradeFlow -----------------------------
(***************************************************************************)
(* How a form posted to the web application becomes a call of the market   *)
(* contract: internal/handler, internal/service/market.go,                 *)
(* internal/stellar/builder.go and internal/soroban/contract.go composed   *)
(* with LmsrMarket.                                                        *)
(*                                                                         *)
(* A handler runs in a goroutine of its own and reads the ledger three     *)
(* times: it simulates a quote, reads the account's sequence number and    *)
(* simulates the transaction it built. Anything may happen on the ledger   *)
(* in between and after, for the transaction has no time bound: the user   *)
(* may sign and submit it at any later time, more than once. The network   *)
(* takes it when it carries the account's next sequence number, which it   *)
(* uses up even when the call fails.                                       *)
(***************************************************************************)
EXTENDS LmsrMarket, Int64, SequencesExt

CONSTANTS
    RequestIds,             \* requests the handlers serve
    Users,                  \* accounts that trade through the application
    Outsiders,              \* accounts that call the contract directly
    AppOracle,              \* h.oraclePublicKey
    Slippages,              \* per cent, as posted
    TokenCodes,             \* external: the error codes of the token's transfer
    PriceOverflows(_, _, _)    \* lmsr::calculate_price fails

ASSUME FlowAssumption ==
    /\ Users \cup Outsiders \cup {AppOracle} \subseteq Accounts
    /\ (Users \cup {AppOracle}) \cap Outsiders = {}
    /\ IsFiniteSet(RequestIds)
    /\ Slippages \subseteq Int
    /\ MAX_INT64 \in Nat
    /\ TokenCodes \subseteq Nat /\ TokenCodes # {}

VARIABLES
    request,                \* the state of each handler and what it handed out
    account_seq             \* external: the sequence number of each account

flow_vars == <<vars, request, account_seq>>

TradeKinds == {"buy", "sell"}
Kinds == TradeKinds \cup {"quote", "resolve", "claim", "withdraw"}
Working == {"quote", "build", "prepare"}    \* the step the handler does next
Answered == {"handed_out", "quoted", "rejected"}
Stages == {"free"} \cup Answered \cup Working

MaxSlippage == 10

\* ran, moved, seen and source are history: how often the call took effect,
\* the collateral it moved, the quote it was based on and which contract, if
\* one did, raised the error it was refused with.
NoRequest == [stage |-> "free", kind |-> "claim", user |-> AppOracle,
              outcome |-> "YES", amount |-> 0, slippage |-> 0,
              seen |-> 0, limit |-> 0, seq |-> 0, ran |-> 0, moved |-> 0,
              answer |-> "none", source |-> "none"]

FlowInit ==
    /\ DeployedBy(AppOracle)
    /\ request = [id \in RequestIds |-> NoRequest]
    /\ account_seq = [a \in Accounts |-> 0]
-----------------------------------------------------------------------------
(***************************************************************************)
(* Conversions of internal/service and internal/soroban.                   *)
(***************************************************************************)
\* Mutant: the outcomes are swapped.
OutcomeToU32_swapped(outcome) ==
    IF outcome = "YES" THEN OUTCOME_NO ELSE OUTCOME_YES

OutcomeToU32(outcome) ==
    IF outcome = "YES" THEN OUTCOME_YES ELSE OUTCOME_NO

\* Mutant: the minimum of a sale is the tolerance, not what it leaves.
percent_of_quote_tolerance_only(kind, slippage) ==
    IF kind = "buy" THEN 100 + slippage ELSE slippage

percent_of_quote(kind, slippage) ==
    IF kind = "buy" THEN 100 + slippage ELSE 100 - slippage

\* float64(quote) * (1 +- slippage) truncated: where the product is a whole
\* number the floating-point one may fall just below it.
limits_of(quote, percent) ==
    LET exact == (quote * percent) \div 100
    IN  IF (quote * percent) % 100 = 0 THEN {exact - 1, exact} ELSE {exact}
-----------------------------------------------------------------------------
(***************************************************************************)
(* The read-only calls get_quote and get_sell_quote.                       *)
(***************************************************************************)
quote_delta(r) == IF r.kind = "sell" THEN -r.amount ELSE r.amount

get_quote_error(r) ==
    LET o == OutcomeToU32(r.outcome)
        q == sold_after(o, quote_delta(r))
    IN  IF trade_error(o, r.amount) # "Ok" THEN trade_error(o, r.amount)
        ELSE IF q[o] < 0 THEN "InsufficientBalance"
        ELSE IF q[o] > MaxSold THEN "Overflow"
        ELSE IF PriceOverflows(q[OUTCOME_YES], q[OUTCOME_NO], liquidity_param)
             THEN "Overflow"
        ELSE "Ok"

quoted(r) ==
    IF r.kind = "sell" THEN calculate_sell_return(OutcomeToU32(r.outcome), r.amount)
                       ELSE calculate_buy_cost(OutcomeToU32(r.outcome), r.amount)

\* What the contract answers when the transaction of a request is simulated
\* or executed now.
call_error(r) ==
    CASE r.kind = "buy"      -> buy_error(r.user, OutcomeToU32(r.outcome), r.amount, r.limit)
      [] r.kind = "sell"     -> sell_error(r.user, OutcomeToU32(r.outcome), r.amount, r.limit)
      [] r.kind = "resolve"  -> resolve_error(r.user, OutcomeToU32(r.outcome))
      [] r.kind = "claim"    -> claim_error(r.user)
      [] r.kind = "withdraw" -> withdraw_error(r.user)
      [] r.kind = "quote"    -> get_quote_error(r)

(***************************************************************************)
(* The message for an error of the simulation. Its text names the codes of *)
(* all the contracts in the call chain, the outermost first.               *)
(***************************************************************************)
MarketErrors ==
    <<"AlreadyInitialized", "NotInitialized", "AlreadyResolved", "NotResolved",
      "InvalidOutcome", "InvalidAmount", "InsufficientBalance", "SlippageExceeded",
      "ReturnTooLow", "Unauthorized", "InvalidLiquidity", "Overflow",
      "NothingToClaim", "StorageCorrupted", "InsufficientPool">>

extractLastErrorCode(codes) == IF codes = << >> THEN -1 ELSE Last(codes)

\* Mutant: the messages of the codes 3 and 4 are exchanged.
mapContractError_swapped(codes) ==
    LET code == extractLastErrorCode(codes)
    IN  IF code \in DOMAIN MarketErrors
        THEN MarketErrors[IF code \in {3, 4} THEN 7 - code ELSE code]
        ELSE "ContractError"

\* The message depends on the number alone, whichever contract raised it.
mapContractError(codes) ==
    LET code == extractLastErrorCode(codes)
    IN  IF code = 10 THEN "CheckYourBalance"
        ELSE IF code \in DOMAIN MarketErrors THEN MarketErrors[code]
        ELSE "ContractError"

market_errors(error) == {<<c>> : c \in {n \in DOMAIN MarketErrors : MarketErrors[n] = error}}

\* External: a failed transfer. Its own code is the innermost.
token_errors == {<<outer, c>> : outer \in DOMAIN MarketErrors, c \in TokenCodes}

\* The other messages of mapError: a server failed, anything else.
OtherMessages == {"Unavailable", "Unexpected"}

run(r) ==
    \/ r.kind = "buy"      /\ buy(r.user, OutcomeToU32(r.outcome), r.amount, r.limit)
    \/ r.kind = "sell"     /\ sell(r.user, OutcomeToU32(r.outcome), r.amount, r.limit)
    \/ r.kind = "resolve"  /\ resolve(r.user, OutcomeToU32(r.outcome))
    \/ r.kind = "claim"    /\ claim(r.user)
    \/ r.kind = "withdraw" /\ withdraw_remaining(r.user)
-----------------------------------------------------------------------------
(***************************************************************************)
(* One request. A form that does not validate changes nothing.             *)
(***************************************************************************)
Move(id, r) == request' = [request EXCEPT ![id] = r]

\* writeError: of the request only what the answer is about is kept.
Refuse(id, message, source) ==
    Move(id, [NoRequest EXCEPT !.stage = "rejected", !.kind = request[id].kind,
                               !.user = request[id].user, !.answer = message,
                               !.source = source])

\* TradeRequest.Validate. An amount of 0 is a positive number of shares
\* smaller than the smallest unit, a slippage of 0 a positive tolerance too
\* small to change the quote.
PostTrade(id) ==
    \E kind \in TradeKinds, user \in Users, outcome \in {"YES", "NO"},
       shares \in Amounts, slippage \in Slippages :
        /\ request[id].stage = "free"
        /\ shares >= 0
        /\ slippage >= 0 /\ slippage <= MaxSlippage
        /\ \E amount \in safeFloatToInt64(shares) :
             Move(id, [NoRequest EXCEPT !.stage = "quote", !.kind = kind,
                         !.user = user, !.outcome = outcome, !.amount = amount,
                         !.slippage = slippage])
        /\ UNCHANGED <<vars, account_seq>>

\* The quote page and the quote of the trade form, for a purchase.
PostQuote(id) ==
    \E outcome \in {"YES", "NO"}, shares \in Amounts :
        /\ request[id].stage = "free"
        /\ shares >= 0
        /\ \E amount \in safeFloatToInt64(shares) :
             Move(id, [NoRequest EXCEPT !.stage = "quote", !.kind = "quote",
                         !.outcome = outcome, !.amount = amount])
        /\ UNCHANGED <<vars, account_seq>>

\* The resolve form acts for the configured oracle.
PostResolve(id) ==
    \E outcome \in {"YES", "NO"} :
        /\ request[id].stage = "free"
        /\ Move(id, [NoRequest EXCEPT !.stage = "build", !.kind = "resolve",
                        !.user = AppOracle, !.outcome = outcome])
        /\ UNCHANGED <<vars, account_seq>>

\* The claim and withdraw forms carry the account that is to sign.
PostPayout(id) ==
    \E kind \in {"claim", "withdraw"}, user \in Users \cup {AppOracle} :
        /\ request[id].stage = "free"
        /\ Move(id, [NoRequest EXCEPT !.stage = "build", !.kind = kind, !.user = user])
        /\ UNCHANGED <<vars, account_seq>>

\* The limit of a trade, computed from the quote.
Quoted(id, r) ==
    IF quoted(r) <= 0 THEN Refuse(id, "Unexpected", "server")
    ELSE \E product \in limits_of(quoted(r), percent_of_quote(r.kind, r.slippage)) :
           \/ safeFloatToInt64(product) = {} /\ Refuse(id, "Unexpected", "server")
           \/ \E limit \in safeFloatToInt64(product) :
                Move(id, [r EXCEPT !.stage = "build", !.seen = quoted(r), !.limit = limit])

\* Mutant: a quote that fails leaves the request where it is.
GetQuote_no_error_path(id) ==
    LET r == request[id] IN
    /\ r.stage = "quote"
    /\ get_quote_error(r) = "Ok"
    /\ FitsInt64(quoted(r))
    /\ r.kind # "quote" /\ Quoted(id, r)
    /\ UNCHANGED <<vars, account_seq>>

\* GetQuote or GetSellQuote, and what follows its answer. The quote of the
\* trade form has one message for every error.
GetQuote(id) ==
    LET r == request[id] IN
    /\ r.stage = "quote"
    /\ IF get_quote_error(r) # "Ok"
       THEN \/ \E codes \in market_errors(get_quote_error(r)) :
                 Refuse(id, mapContractError(codes), "market")
            \/ r.kind = "quote" /\ Refuse(id, "Unavailable", "market")
       ELSE IF ~FitsInt64(quoted(r)) THEN Refuse(id, "Unexpected", "server")
       ELSE IF r.kind = "quote" THEN Move(id, [NoRequest EXCEPT !.stage = "quoted"])
       ELSE Quoted(id, r)
    /\ UNCHANGED <<vars, account_seq>>

\* Mutant: the application numbers the transactions it hands out itself.
next_sequence_own_counter(u) ==
    {account_seq[u] + 1
       + Cardinality({i \in RequestIds : /\ request[i].stage = "handed_out"
                                         /\ request[i].user = u
                                         /\ request[i].seq > account_seq[u]})}

\* GetAccount and IncrementSequenceNum: Horizon may lag behind the ledger.
next_sequence(u) == {s + 1 : s \in 0 .. account_seq[u]}

BuildInvokeTx(id) ==
    LET r == request[id] IN
    /\ r.stage = "build"
    /\ \E s \in next_sequence(r.user) : Move(id, [r EXCEPT !.stage = "prepare", !.seq = s])
    /\ UNCHANGED <<vars, account_seq>>

\* The simulation refuses what the contract refuses, and every call that pays
\* or is paid may also fail in the token: no trustline, too small a balance.
SimulateAndPrepare(id) ==
    LET r == request[id] IN
    /\ r.stage = "prepare"
    /\ \/ call_error(r) = "Ok" /\ Move(id, [r EXCEPT !.stage = "handed_out"])
       \/ \E codes \in market_errors(call_error(r)) :
            Refuse(id, mapContractError(codes), "market")
       \/ /\ call_error(r) \in {"Ok", "TransferFailed"} /\ r.kind # "resolve"
          /\ \E message \in {mapContractError(codes) : codes \in token_errors} :
               Refuse(id, message, "token")
    /\ UNCHANGED <<vars, account_seq>>

\* Horizon or the RPC server answers with an error or not in time, the
\* answer does not parse, or the fee overflows.
RpcFails(id) ==
    /\ request[id].stage \in Working
    /\ \E message \in OtherMessages : Refuse(id, message, "server")
    /\ UNCHANGED <<vars, account_seq>>

Handle(id) == GetQuote(id) \/ BuildInvokeTx(id) \/ SimulateAndPrepare(id)
-----------------------------------------------------------------------------
(***************************************************************************)
(* External: the wallet submits a transaction it was handed. The call runs *)
(* or fails, on its own checks or for want of collateral or resources.     *)
(***************************************************************************)
valid(r) == r.stage = "handed_out" /\ r.seq = account_seq[r.user] + 1

Submit(id) ==
    LET r == request[id] IN
    /\ valid(r)
    /\ account_seq' = [account_seq EXCEPT ![r.user] = r.seq]
    /\ \/ /\ run(r)
          /\ Move(id, [r EXCEPT !.ran = @ + 1,
                                !.moved = IF escrow' > escrow THEN escrow' - escrow
                                                              ELSE escrow - escrow'])
       \/ UNCHANGED <<vars, request>>

\* Calls that do not come from the application: others trade and claim, and
\* the oracle may resolve with a transaction it built itself.
Outside ==
    /\ \/ /\ \E u \in Outsiders, o \in Outcomes, n \in Amounts, m \in Limits :
                buy(u, o, n, m) \/ sell(u, o, n, m)
          /\ UNCHANGED account_seq
       \/ /\ \E u \in Outsiders : claim(u)
          /\ UNCHANGED account_seq
       \/ /\ \E o \in Outcomes : resolve(AppOracle, o)
          /\ account_seq' = [account_seq EXCEPT ![AppOracle] = @ + 1]
    /\ UNCHANGED request

FlowNext ==
    \/ \E id \in RequestIds : \/ PostTrade(id)
                              \/ PostQuote(id)
                              \/ PostResolve(id)
                              \/ PostPayout(id)
                              \/ Handle(id)
                              \/ RpcFails(id)
                              \/ Submit(id)
    \/ Outside

(***************************************************************************)
(* A handler that was started runs: every HTTP call it makes is answered,  *)
(* or fails with the client's timeout at the latest, but need not fail.    *)
(* Nothing makes a user sign or submit.                                    *)
(***************************************************************************)
FlowSpec == /\ FlowInit
            /\ [][FlowNext]_flow_vars
            /\ \A id \in RequestIds : WF_flow_vars(Handle(id))
-----------------------------------------------------------------------------
Messages == Range(MarketErrors) \cup {"CheckYourBalance", "ContractError", "none"}
                \cup OtherMessages

Requests ==
    [stage : Stages, kind : Kinds, user : Users \cup {AppOracle},
     outcome : {"YES", "NO"}, amount : MIN_INT64 .. MAX_INT64,
     slippage : 0 .. MaxSlippage, seen : 0 .. MAX_INT64, limit : MIN_INT64 .. MAX_INT64,
     seq : Nat, ran : Nat, moved : Nat, answer : Messages,
     source : {"none", "server", "market", "token"}]

\* Requests and sequence numbers are of their types: the amounts and limits
\* that safeFloatToInt64 lets through are numbers an int64 holds.
FlowTypeOK ==
    /\ request \in [RequestIds -> Requests]
    /\ account_seq \in [Accounts -> Nat]

(***************************************************************************)
(* However long a transaction waits and whatever trades in between, a buy  *)
(* never takes more than the quote the user saw plus the tolerance, and a  *)
(* sale returns no less than the quote less the tolerance, to within one   *)
(* unit of the last digit (the limit is truncated). A buy whose limit has  *)
(* turned negative at the end of the int64 range does not run at all; the  *)
(* sale quoted at MAX_INT64 itself may be left without a minimum.          *)
(***************************************************************************)
SlippageRespected ==
    \A id \in RequestIds : LET r == request[id] IN
        r.ran > 0 =>
          /\ r.kind = "buy"  => 100 * r.moved <= r.seen * (100 + r.slippage)
          /\ r.kind = "sell" /\ r.seen < MAX_INT64 =>
                100 * (r.moved + 1) >= r.seen * (100 - r.slippage)

\* What the executions of a request added to a user's tokens of an outcome.
net(r, u, outcome) ==
    IF r.kind \in TradeKinds /\ r.user = u /\ r.outcome = outcome
    THEN r.ran * quote_delta(r) ELSE 0

nets(u, outcome) == [id \in RequestIds |-> net(request[id], u, outcome)]

net_of(u, outcome) == SumFunctionOnSet(nets(u, outcome), RequestIds)

(***************************************************************************)
(* Until the market is resolved, what the contract holds for a user of the *)
(* application is the sum of the trades whose transactions took effect,    *)
(* outcome by outcome: no request is executed twice, for another outcome   *)
(* or for another amount.                                                  *)
(***************************************************************************)
PositionsExplained ==
    ~resolved => \A u \in Users :
        /\ user_balance[u][OUTCOME_YES] = net_of(u, "YES")
        /\ user_balance[u][OUTCOME_NO] = net_of(u, "NO")

(***************************************************************************)
(* A form posted twice is not executed twice: as soon as the network takes *)
(* one transaction of an account, every other one the application had      *)
(* handed out or was preparing for it is void for ever.                    *)
(***************************************************************************)
SubmissionVoidsOthers ==
    [][\A id \in RequestIds : LET r == request[id] IN
         /\ r.stage \in {"prepare", "handed_out"}
         /\ account_seq'[r.user] # account_seq[r.user]
         => r.seq <= account_seq'[r.user]]_flow_vars

(***************************************************************************)
(* Two refusals by the market contract need no second try: a request that  *)
(* was told the market has been resolved, or that there is nothing to      *)
(* claim or to withdraw, would get the same answer at any later time,      *)
(* whoever trades, claims or withdraws meanwhile. (A failed transfer may   *)
(* be answered with the same words: see NothingToClaimIsTrue.)             *)
(***************************************************************************)
FinalAnswersStay ==
    \A id \in RequestIds : LET r == request[id] IN
        /\ r.stage = "rejected" /\ r.source = "market"
        /\ r.answer \in {"AlreadyResolved", "NothingToClaim"}
        => call_error(r) = r.answer

(***************************************************************************)
(* What mapContractError's message for code 13 says: who is told there is  *)
(* nothing to claim holds no winning tokens, or has claimed already.       *)
(***************************************************************************)
NothingToClaimIsTrue ==
    \A id \in RequestIds : LET r == request[id] IN
        r.stage = "rejected" /\ r.kind = "claim" /\ r.answer = "NothingToClaim"
            => claim_error(r.user) = "NothingToClaim"

\* Every request is answered, with a transaction or with an error.
RequestAnswered ==
    \A id \in RequestIds :
        request[id].stage \in Working ~> request[id].stage \in Answered
=============================================================================
