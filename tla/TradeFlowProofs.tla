-------------------------- MODULE TradeFlowProofs --------------------------
(***************************************************************************)
(* Safety of the path from a posted form to a call of the contract, for    *)
(* every number of requests, users and outsiders, every tolerance, and     *)
(* every pricing function that satisfies CostAssumption.                   *)
(***************************************************************************)
EXTENDS TradeFlow, LmsrMarketProofs

(***************************************************************************)
(* The inductive invariant. SlippageRespected speaks only of calls that    *)
(* ran; RequestOK carries the relation of the limit to the quote from the  *)
(* handler to the execution, however late that is. SequenceOK bounds what  *)
(* a handler that read an account late can have been given, and AnswerOK   *)
(* records why the market contract gave a final refusal, in terms of state *)
(* that no later call of the contract undoes.                              *)
(***************************************************************************)
RequestOK(r) ==
    /\ r.stage = "quote" => r.kind \in TradeKinds \cup {"quote"}
    /\ r.stage # "handed_out" => r.ran = 0
    /\ r.stage \in {"build", "prepare", "handed_out"} =>
          /\ r.kind = "buy" => 100 * r.limit <= r.seen * (100 + r.slippage)
          /\ r.kind = "sell" /\ r.seen < MAX_INT64 =>
                100 * (r.limit + 1) >= r.seen * (100 - r.slippage)
    /\ r.ran > 0 => /\ r.kind = "buy" => r.moved <= r.limit
                    /\ r.kind = "sell" => r.limit <= r.moved

SequenceOK(r) ==
    r.stage \in {"prepare", "handed_out"} => r.seq <= account_seq[r.user] + 1

AnswerOK(r) ==
    r.stage = "rejected" /\ r.source = "market" =>
      /\ r.answer = "AlreadyResolved" =>
            resolved /\ r.kind \in TradeKinds \cup {"quote", "resolve"}
      /\ r.answer = "NothingToClaim" =>
            /\ resolved
            /\ \/ r.kind = "claim" /\ user_balance[r.user][winning_outcome] = 0
               \/ r.kind = "withdraw" /\ r.user = oracle /\ withdrawable <= 0

RequestsOK ==
    \A id \in RequestIds : /\ RequestOK(request[id])
                           /\ SequenceOK(request[id])
                           /\ AnswerOK(request[id])

FInv ==
    /\ IInv
    /\ oracle = AppOracle
    /\ FlowTypeOK
    /\ RequestsOK
    /\ PositionsExplained
-----------------------------------------------------------------------------
(***************************************************************************)
(* What no step of the flow undoes on the ledger. The market's part holds  *)
(* of every call of the contract, from the application or from outside.    *)
(***************************************************************************)
MarketKept ==
    /\ IInv'
    /\ oracle' = oracle
    /\ resolved =>
          /\ resolved' /\ winning_outcome' = winning_outcome
          /\ withdrawable <= 0 => withdrawable' <= 0
          /\ \A u \in Accounts : user_balance[u][winning_outcome] = 0
                                   => user_balance'[u][winning_outcome] = 0

\* A trade is refused on a resolved market, so it keeps all of this.
LEMMA BuyKept ==
    ASSUME IInv, NEW u \in Accounts, NEW o, NEW n \in Int, NEW m, buy(u, o, n, m)
    PROVE  MarketKept /\ ~resolved /\ ~resolved' /\ o \in Outcomes
<1>1. IInv'
  BY BuyIInv
<1>2. ~resolved /\ o \in Outcomes
  BY DEF buy, buy_error, trade_error, is_valid_outcome
<1>3. oracle' = oracle /\ resolved' = resolved
  BY DEF buy
<1>4. QED
  BY <1>1, <1>2, <1>3 DEF MarketKept

LEMMA SellKept ==
    ASSUME IInv, NEW u \in Accounts, NEW o, NEW n \in Int, NEW m, sell(u, o, n, m)
    PROVE  MarketKept /\ ~resolved /\ ~resolved' /\ o \in Outcomes
<1>1. IInv'
  BY SellIInv
<1>2. ~resolved /\ o \in Outcomes
  BY DEF sell, sell_error, trade_error, is_valid_outcome
<1>3. oracle' = oracle /\ resolved' = resolved
  BY DEF sell
<1>4. QED
  BY <1>1, <1>2, <1>3 DEF MarketKept

LEMMA ResolveKept ==
    ASSUME IInv, NEW a \in Accounts, NEW o, resolve(a, o)
    PROVE  MarketKept /\ resolved'
<1>1. IInv'
  BY ResolveIInv
<1>2. ~resolved
  BY DEF resolve, resolve_error
<1>3. oracle' = oracle /\ resolved'
  BY DEF resolve
<1>4. QED
  BY <1>1, <1>2, <1>3 DEF MarketKept

(***************************************************************************)
(* A claim takes at least as much from the pool as from the reserve, so it *)
(* leaves the oracle nothing to withdraw where there was nothing.          *)
(***************************************************************************)
LEMMA ClaimKept ==
    ASSUME IInv, NEW u \in Accounts, claim(u)
    PROVE  MarketKept /\ resolved'
<1> DEFINE gross == user_balance[u][winning_outcome]
<1>1. IInv'
  BY ClaimIInv
<1>2. resolved /\ ~(gross <= 0)
  BY DEF claim, claim_error
<1>3. winning_outcome \in Outcomes
  BY <1>2 DEF IInv, Configured
<1>4. gross \in Int /\ gross > 0
  BY <1>2, <1>3 DEF IInv, TypeOK
<1>5. /\ unclaimed' = unclaimed - gross
      /\ collateral_pool' = collateral_pool - user_payout(gross)
      /\ user_balance' = [user_balance EXCEPT ![u][winning_outcome] = 0]
      /\ UNCHANGED <<oracle, resolved, winning_outcome>>
  BY DEF claim
<1>6. /\ unclaimed \in Int /\ collateral_pool \in Int
      /\ user_balance \in [Accounts -> [Outcomes -> Nat]]
  BY DEF IInv, TypeOK
<1> HIDE DEF gross
<1>7. /\ reserved_for(unclaimed) - user_payout(gross) <= reserved_for(unclaimed - gross)
      /\ reserved_for(unclaimed) \in Int /\ reserved_for(unclaimed - gross) \in Int
      /\ user_payout(gross) \in Int
  <2>1. user_payout(gross) \in Int
    BY <1>4, PayoutBounds
  <2>2. reserved_for(unclaimed) \in Int /\ reserved_for(unclaimed - gross) \in Int
    BY <1>4, <1>6, ReservedType
  <2> QED BY <1>4, <1>6, <2>1, <2>2, ClaimShrinksReserve
<1>8. withdrawable' = collateral_pool' - reserved_for(unclaimed - gross)
  BY <1>5 DEF withdrawable, reserved_for
<1>9. withdrawable <= 0 => withdrawable' <= 0
  <2> SUFFICES ASSUME withdrawable <= 0 PROVE withdrawable' <= 0
    OBVIOUS
  <2>1. collateral_pool - reserved_for(unclaimed) <= 0
    BY DEF withdrawable
  <2>2. collateral_pool' - reserved_for(unclaimed - gross) <= 0
    BY <1>5, <1>6, <1>7, <2>1
  <2> QED BY <1>8, <2>2
<1>10. \A x \in Accounts : user_balance[x][winning_outcome] = 0
                             => user_balance'[x][winning_outcome] = 0
  BY <1>3, <1>5, <1>6
<1>11. QED
  BY <1>1, <1>2, <1>5, <1>9, <1>10 DEF MarketKept

LEMMA WithdrawKept ==
    ASSUME IInv, NEW a \in Accounts, withdraw_remaining(a)
    PROVE  MarketKept /\ resolved'
<1>1. IInv'
  BY WithdrawIInv
<1>2. resolved /\ ~(withdrawable <= 0)
  BY DEF withdraw_remaining, withdraw_error
<1>3. UNCHANGED <<oracle, resolved, winning_outcome, user_balance>>
  BY DEF withdraw_remaining
<1>4. QED
  BY <1>1, <1>2, <1>3 DEF MarketKept

\* A step that leaves the contract alone.
LEMMA IdleKept == IInv /\ UNCHANGED vars => MarketKept
<1> SUFFICES ASSUME IInv, UNCHANGED vars PROVE MarketKept
  OBVIOUS
<1>1. UNCHANGED <<oracle, resolved, winning_outcome, user_balance, collateral_pool, unclaimed>>
  BY DEF vars
<1>2. IInv'
  BY NextIInv
<1>3. withdrawable' = withdrawable
  BY <1>1 DEF withdrawable, reserved_for
<1>4. QED
  BY <1>1, <1>2, <1>3 DEF MarketKept
-----------------------------------------------------------------------------
(***************************************************************************)
(* A request that a step does not touch stays as it should be: the reasons *)
(* of its refusal persist, and sequence numbers only grow.                 *)
(***************************************************************************)
LEMMA UntouchedRequest ==
    ASSUME FInv, MarketKept, NEW id \in RequestIds, request'[id] = request[id],
           \A a \in Accounts : account_seq'[a] \in Nat /\ account_seq[a] <= account_seq'[a]
    PROVE  (RequestOK(request[id]) /\ SequenceOK(request[id]) /\ AnswerOK(request[id]))'
<1>1. request[id] \in Requests /\ request[id].user \in Accounts
  BY FlowAssumption DEF FInv, FlowTypeOK, Requests
<1>2. RequestOK(request[id]) /\ SequenceOK(request[id]) /\ AnswerOK(request[id])
  BY DEF FInv, RequestsOK
<1>3. RequestOK(request[id])'
  BY <1>2 DEF RequestOK
<1>4. SequenceOK(request[id])'
  <2>1. account_seq[request[id].user] \in Nat /\ request[id].seq \in Nat
    BY <1>1 DEF FInv, FlowTypeOK, Requests
  <2> QED BY <1>1, <1>2, <2>1 DEF SequenceOK
<1>5. AnswerOK(request[id])'
  BY <1>1, <1>2 DEF AnswerOK, MarketKept
<1>6. QED
  BY <1>3, <1>4, <1>5

\* The tokens a request moved, as an integer.
LEMMA NetType ==
    ASSUME NEW r \in Requests, NEW u, NEW outcome
    PROVE  net(r, u, outcome) \in Int /\ quote_delta(r) \in Int
<1>1. r.ran \in Nat /\ r.amount \in Int
  BY FlowAssumption DEF Requests, MIN_INT64
<1>2. quote_delta(r) \in Int
  BY <1>1 DEF quote_delta
<1>3. r.ran * quote_delta(r) \in Int
  BY <1>1, <1>2
<1>4. QED
  BY <1>2, <1>3 DEF net

\* A request that never ran moved nothing.
LEMMA NetZero ==
    ASSUME NEW r \in Requests, r.ran = 0, NEW u, NEW outcome
    PROVE  net(r, u, outcome) = 0
<1>1. quote_delta(r) \in Int
  BY NetType
<1>2. r.ran * quote_delta(r) = 0
  BY <1>1
<1>3. QED
  BY <1>2 DEF net

(***************************************************************************)
(* A step of a handler: it leaves the ledger alone and moves its own       *)
(* request, which has not run, to another proper state.                    *)
(***************************************************************************)
LEMMA MoveFInv ==
    ASSUME FInv, NEW id \in RequestIds, request[id].ran = 0,
           NEW s \in Requests, s.ran = 0, RequestOK(s), SequenceOK(s), AnswerOK(s),
           Move(id, s), UNCHANGED <<vars, account_seq>>
    PROVE  FInv'
<1>1. MarketKept
  BY IdleKept DEF FInv
<1>2. /\ request \in [RequestIds -> Requests]
      /\ account_seq' = account_seq /\ account_seq \in [Accounts -> Nat]
      /\ request' = [request EXCEPT ![id] = s]
  BY DEF FInv, FlowTypeOK, Move
<1>3. FlowTypeOK'
  BY <1>2 DEF FlowTypeOK
<1>4. UNCHANGED <<oracle, resolved, winning_outcome, user_balance, collateral_pool, unclaimed>>
  BY DEF vars
<1>5. RequestsOK'
  <2> SUFFICES ASSUME NEW i \in RequestIds
               PROVE  (RequestOK(request[i]) /\ SequenceOK(request[i]) /\ AnswerOK(request[i]))'
    BY DEF RequestsOK
  <2>1. CASE i = id
    <3>1. request'[i] = s
      BY <1>2, <2>1
    <3>2. withdrawable' = withdrawable
      BY <1>4 DEF withdrawable, reserved_for
    <3> QED BY <1>2, <1>4, <3>1, <3>2 DEF RequestOK, SequenceOK, AnswerOK
  <2>2. CASE i # id
    <3>1. request'[i] = request[i]
      BY <1>2, <2>2
    <3>2. \A a \in Accounts : account_seq'[a] \in Nat /\ account_seq[a] <= account_seq'[a]
      BY <1>2
    <3> QED BY <1>1, <3>1, <3>2, UntouchedRequest
  <2> QED BY <2>1, <2>2
<1>6. PositionsExplained'
  <2>1. \A u, outcome : nets(u, outcome)' = nets(u, outcome)
    <3> SUFFICES ASSUME NEW u, NEW outcome, NEW i \in RequestIds
                 PROVE  net(request'[i], u, outcome) = net(request[i], u, outcome)
      BY DEF nets
    <3>1. CASE i = id
      <4>1. request'[i] = s /\ request[i] \in Requests
        BY <1>2, <3>1
      <4> QED BY <3>1, <4>1, NetZero
    <3>2. CASE i # id
      BY <1>2, <3>2
    <3> QED BY <3>1, <3>2
  <2>2. \A u, outcome : net_of(u, outcome)' = net_of(u, outcome)
    BY <2>1 DEF net_of
  <2> QED BY <1>4, <2>2 DEF FInv, PositionsExplained
<1>7. QED
  BY <1>1, <1>3, <1>4, <1>5, <1>6 DEF FInv, MarketKept
-----------------------------------------------------------------------------
(***************************************************************************)
(* The answers of the contract. The two final ones are only given where    *)
(* AnswerOK says so.                                                       *)
(***************************************************************************)
\* The MarketErrors of the calls of the flow, and the failed transfer.
ErrorCodes ==
    {"NotInitialized", "AlreadyResolved", "NotResolved", "InvalidOutcome",
     "InvalidAmount", "InsufficientBalance", "SlippageExceeded", "ReturnTooLow",
     "Unauthorized", "Overflow", "NothingToClaim", "InsufficientPool", "TransferFailed"}

\* Why a call of this kind would be told e, if e is a final refusal.
Grounds(r, e) ==
    /\ e = "AlreadyResolved" => resolved /\ r.kind \in TradeKinds \cup {"quote", "resolve"}
    /\ e = "NothingToClaim" =>
          /\ resolved
          /\ \/ r.kind = "claim" /\ user_balance[r.user][winning_outcome] = 0
             \/ r.kind = "withdraw" /\ r.user = oracle /\ withdrawable <= 0

LEMMA TradeErrors ==
    ASSUME NEW o, NEW n
    PROVE  /\ trade_error(o, n) \in ErrorCodes \cup {"Ok"}
           /\ trade_error(o, n) # "NothingToClaim"
           /\ trade_error(o, n) = "AlreadyResolved" => resolved
BY DEF trade_error, ErrorCodes

LEMMA QuoteErrors ==
    ASSUME NEW r, r.kind \in TradeKinds \cup {"quote"}
    PROVE  get_quote_error(r) \in ErrorCodes \cup {"Ok"} /\ Grounds(r, get_quote_error(r))
<1> DEFINE o == OutcomeToU32(r.outcome)
           q == sold_after(o, quote_delta(r))
           e == trade_error(o, r.amount)
<1>1. /\ e \in ErrorCodes \cup {"Ok"} /\ e # "NothingToClaim"
      /\ e = "AlreadyResolved" => resolved
  BY TradeErrors
<1>2. get_quote_error(r) = (IF e # "Ok" THEN e
        ELSE IF q[o] < 0 THEN "InsufficientBalance"
        ELSE IF q[o] > MaxSold THEN "Overflow"
        ELSE IF PriceOverflows(q[OUTCOME_YES], q[OUTCOME_NO], liquidity_param)
             THEN "Overflow"
        ELSE "Ok")
  BY DEF get_quote_error
<1> HIDE DEF o, q, e
<1>3. QED
  BY <1>1, <1>2 DEF Grounds, ErrorCodes

LEMMA CallErrors ==
    ASSUME IInv, NEW r \in Requests
    PROVE  call_error(r) \in ErrorCodes \cup {"Ok"} /\ Grounds(r, call_error(r))
<1> DEFINE o == OutcomeToU32(r.outcome)
           e == trade_error(o, r.amount)
<1>1. /\ e \in ErrorCodes \cup {"Ok"} /\ e # "NothingToClaim"
      /\ e = "AlreadyResolved" => resolved
  BY TradeErrors
<1>2. r.kind \in Kinds /\ r.user \in Accounts
  BY FlowAssumption DEF Requests
<1>3. CASE r.kind = "buy"
  <2>1. call_error(r) = buy_error(r.user, o, r.amount, r.limit)
    BY <1>3 DEF call_error
  <2>2. buy_error(r.user, o, r.amount, r.limit)
          \in {"Overflow", "SlippageExceeded", "TransferFailed", "Ok", e}
    BY DEF buy_error
  <2> HIDE DEF e, o
  <2> QED BY <1>1, <1>3, <2>1, <2>2 DEF Grounds, TradeKinds, ErrorCodes
<1>4. CASE r.kind = "sell"
  <2>1. call_error(r) = sell_error(r.user, o, r.amount, r.limit)
    BY <1>4 DEF call_error
  <2>2. sell_error(r.user, o, r.amount, r.limit)
          \in {"InsufficientBalance", "ReturnTooLow", "InsufficientPool",
               "TransferFailed", "Ok", e}
    BY DEF sell_error
  <2> HIDE DEF e, o
  <2> QED BY <1>1, <1>4, <2>1, <2>2 DEF Grounds, TradeKinds, ErrorCodes
<1>5. CASE r.kind = "resolve"
  <2>1. call_error(r) = resolve_error(r.user, o)
    BY <1>5 DEF call_error
  <2> HIDE DEF o
  <2> QED BY <1>5, <2>1 DEF Grounds, resolve_error, ErrorCodes
<1>6. CASE r.kind = "claim"
  <2>1. call_error(r) = claim_error(r.user)
    BY <1>6 DEF call_error
  <2>2. /\ claim_error(r.user) \in {"NotInitialized", "NotResolved", "NothingToClaim",
                                    "InsufficientPool", "TransferFailed", "Ok"}
        /\ claim_error(r.user) = "NothingToClaim" =>
              resolved /\ user_balance[r.user][winning_outcome] <= 0
    BY DEF claim_error
  <2>3. resolved => user_balance[r.user][winning_outcome] \in Nat
    BY <1>2 DEF IInv, TypeOK, Configured
  <2> QED BY <1>6, <2>1, <2>2, <2>3 DEF Grounds, ErrorCodes
<1>7. CASE r.kind = "withdraw"
  <2>1. call_error(r) = withdraw_error(r.user)
    BY <1>7 DEF call_error
  <2> QED BY <1>7, <2>1 DEF Grounds, withdraw_error, ErrorCodes
<1>8. CASE r.kind = "quote"
  <2>1. call_error(r) = get_quote_error(r)
    BY <1>8 DEF call_error
  <2> QED BY <1>8, <2>1, QuoteErrors
<1>9. QED
  BY <1>2, <1>3, <1>4, <1>5, <1>6, <1>7, <1>8 DEF Kinds, TradeKinds

\* The table of error.rs has no name twice.
LEMMA ErrorTable ==
    /\ DOMAIN MarketErrors = 1 .. 15
    /\ \A n \in 1 .. 15 : /\ MarketErrors[n] \in Range(MarketErrors)
                          /\ MarketErrors[n] = "AlreadyResolved" => n = 3
                          /\ MarketErrors[n] = "NothingToClaim" => n = 13
    /\ MarketErrors[3] = "AlreadyResolved" /\ MarketErrors[13] = "NothingToClaim"
<1>1. DOMAIN MarketErrors = 1 .. 15
  BY DEF MarketErrors
<1>2. \A n \in 1 .. 15 : MarketErrors[n] \in Range(MarketErrors)
  BY <1>1 DEF Range
<1>3. QED
  BY <1>1, <1>2 DEF MarketErrors

\* extractLastErrorCode finds the code of the market when it is the only one,
\* and the token's where there is one.
LEMMA LastErrorCode ==
    /\ \A c : extractLastErrorCode(<<c>>) = c
    /\ \A outer, c : extractLastErrorCode(<<outer, c>>) = c
BY DEF extractLastErrorCode, Last

\* Whatever the codes, the answer is a message of mapContractError.
LEMMA MessageType ==
    ASSUME NEW codes
    PROVE  mapContractError(codes) \in Messages
<1> DEFINE code == extractLastErrorCode(codes)
<1>1. code \in DOMAIN MarketErrors => MarketErrors[code] \in Range(MarketErrors)
  BY ErrorTable
<1> HIDE DEF code
<1>2. mapContractError(codes) = (IF code = 10 THEN "CheckYourBalance"
                                 ELSE IF code \in DOMAIN MarketErrors THEN MarketErrors[code]
                                 ELSE "ContractError")
  BY DEF mapContractError, code
<1>3. QED
  BY <1>1, <1>2 DEF Messages

\* The message for a code of the market is a final refusal only where the
\* error is.
LEMMA MessageGrounds ==
    ASSUME NEW r, NEW e, Grounds(r, e), NEW codes \in market_errors(e)
    PROVE  mapContractError(codes) \in Messages /\ Grounds(r, mapContractError(codes))
<1>1. PICK c \in 1 .. 15 : MarketErrors[c] = e /\ codes = <<c>>
  BY ErrorTable DEF market_errors
<1>2. extractLastErrorCode(codes) = c
  BY <1>1, LastErrorCode
<1>3. mapContractError(codes) = IF c = 10 THEN "CheckYourBalance" ELSE e
  BY <1>1, <1>2, ErrorTable DEF mapContractError
<1>4. Grounds(r, mapContractError(codes))
  BY <1>3 DEF Grounds
<1>5. QED
  BY <1>4, MessageType

\* The request that asks for nothing is a proper one.
LEMMA NoRequestOK == NoRequest \in Requests /\ NoRequest.ran = 0
<1>1. /\ "free" \in Stages /\ "claim" \in Kinds /\ "YES" \in {"YES", "NO"}
      /\ 0 \in 0 .. MaxSlippage /\ 0 \in 0 .. MAX_INT64 /\ 0 \in MIN_INT64 .. MAX_INT64
      /\ 0 \in Nat /\ "none" \in Messages
  BY FlowAssumption DEF Stages, Kinds, MaxSlippage, Messages, MIN_INT64
<1>2. AppOracle \in Users \cup {AppOracle}
  OBVIOUS
<1>3. QED
  BY <1>1, <1>2 DEF NoRequest, Requests

\* writeError: a refusal given, if by the market contract, on its grounds.
LEMMA RefuseFInv ==
    ASSUME FInv, NEW id \in RequestIds, request[id].ran = 0, NEW message \in Messages,
           NEW source \in {"server", "market", "token"},
           source = "market" => Grounds(request[id], message),
           Refuse(id, message, source), UNCHANGED <<vars, account_seq>>
    PROVE  FInv'
<1> DEFINE s == [NoRequest EXCEPT !.stage = "rejected", !.kind = request[id].kind,
                                  !.user = request[id].user, !.answer = message,
                                  !.source = source]
<1>1. request[id] \in Requests
  BY DEF FInv, FlowTypeOK
<1>2. request[id].kind \in Kinds /\ request[id].user \in Users \cup {AppOracle}
  BY <1>1 DEF Requests
<1>3. "rejected" \in Stages
  BY DEF Stages, Answered
<1>4. s \in Requests
  BY <1>2, <1>3, NoRequestOK DEF Requests
<1>5. /\ s.stage = "rejected" /\ s.kind = request[id].kind /\ s.user = request[id].user
      /\ s.answer = message /\ s.source = source /\ s.ran = 0
  BY NoRequestOK DEF NoRequest
<1>6. Move(id, s)
  BY DEF Refuse
<1> HIDE DEF s
<1>7. RequestOK(s) /\ SequenceOK(s)
  BY <1>5 DEF RequestOK, SequenceOK
<1>8. AnswerOK(s)
  BY <1>5 DEF AnswerOK, Grounds
<1>9. QED
  BY <1>4, <1>5, <1>6, <1>7, <1>8, MoveFInv
-----------------------------------------------------------------------------
(***************************************************************************)
(* The steps of a handler.                                                 *)
(***************************************************************************)
(***************************************************************************)
(* What a conversion lets through is an int64, never above the number that *)
(* was converted, and below MAX_INT64 it is that number.                   *)
(***************************************************************************)
LEMMA FloatFacts ==
    ASSUME NEW n \in Nat, NEW k \in safeFloatToInt64(n)
    PROVE  /\ k \in MIN_INT64 .. MAX_INT64 /\ k <= n
           /\ n < MAX_INT64 => k = n
BY FlowAssumption DEF safeFloatToInt64, MIN_INT64

\* A form that was posted starts with a quote or, without one, is built.
LEMMA PostFInv ==
    ASSUME FInv, NEW id \in RequestIds,
           PostTrade(id) \/ PostQuote(id) \/ PostResolve(id) \/ PostPayout(id)
    PROVE  FInv'
<1>1. request[id].ran = 0
  <2>1. request[id].stage = "free"
    BY DEF PostTrade, PostQuote, PostResolve, PostPayout
  <2> QED BY <2>1 DEF FInv, RequestsOK, RequestOK
<1>2. /\ "quote" \in Stages /\ "build" \in Stages
      /\ TradeKinds \subseteq Kinds
      /\ {"quote", "resolve", "claim", "withdraw"} \subseteq Kinds
  BY DEF Stages, Working, Kinds
<1>3. CASE PostTrade(id)
  <2>1. PICK kind \in TradeKinds, user \in Users, outcome \in {"YES", "NO"},
             shares \in Amounts, slippage \in Slippages :
          /\ shares >= 0
          /\ slippage >= 0 /\ slippage <= MaxSlippage
          /\ \E amount \in safeFloatToInt64(shares) :
               Move(id, [NoRequest EXCEPT !.stage = "quote", !.kind = kind,
                           !.user = user, !.outcome = outcome, !.amount = amount,
                           !.slippage = slippage])
          /\ UNCHANGED <<vars, account_seq>>
    BY <1>3 DEF PostTrade
  <2>2. PICK amount \in safeFloatToInt64(shares) :
               Move(id, [NoRequest EXCEPT !.stage = "quote", !.kind = kind,
                           !.user = user, !.outcome = outcome, !.amount = amount,
                           !.slippage = slippage])
    BY <2>1
  <2> DEFINE s == [NoRequest EXCEPT !.stage = "quote", !.kind = kind,
                        !.user = user, !.outcome = outcome, !.amount = amount,
                        !.slippage = slippage]
  <2>3. /\ amount \in MIN_INT64 .. MAX_INT64
        /\ slippage \in 0 .. MaxSlippage /\ kind \in Kinds
    <3>1. shares \in Nat
      BY <2>1, ArgsAssumption
    <3> QED BY <1>2, <2>1, <3>1, FloatFacts, FlowAssumption DEF MaxSlippage
  <2>4. s \in Requests
    BY <1>2, <2>3, NoRequestOK DEF Requests
  <2>5. s.stage = "quote" /\ s.kind \in TradeKinds /\ s.ran = 0
    BY NoRequestOK DEF NoRequest
  <2>6. Move(id, s) /\ UNCHANGED <<vars, account_seq>>
    BY <2>1, <2>2
  <2> HIDE DEF s
  <2>7. RequestOK(s) /\ SequenceOK(s) /\ AnswerOK(s)
    BY <2>5 DEF RequestOK, SequenceOK, AnswerOK
  <2> QED BY <1>1, <2>4, <2>5, <2>6, <2>7, MoveFInv
<1>4. CASE PostQuote(id)
  <2>1. PICK outcome \in {"YES", "NO"}, shares \in Amounts :
          /\ shares >= 0
          /\ \E amount \in safeFloatToInt64(shares) :
               Move(id, [NoRequest EXCEPT !.stage = "quote", !.kind = "quote",
                           !.outcome = outcome, !.amount = amount])
          /\ UNCHANGED <<vars, account_seq>>
    BY <1>4 DEF PostQuote
  <2>2. PICK amount \in safeFloatToInt64(shares) :
               Move(id, [NoRequest EXCEPT !.stage = "quote", !.kind = "quote",
                           !.outcome = outcome, !.amount = amount])
    BY <2>1
  <2> DEFINE s == [NoRequest EXCEPT !.stage = "quote", !.kind = "quote",
                        !.outcome = outcome, !.amount = amount]
  <2>3. amount \in MIN_INT64 .. MAX_INT64 /\ "quote" \in Kinds
    <3>1. shares \in Nat
      BY <2>1, ArgsAssumption
    <3> QED BY <1>2, <2>1, <3>1, FloatFacts
  <2>4. s \in Requests
    BY <1>2, <2>3, NoRequestOK DEF Requests
  <2>5. s.stage = "quote" /\ s.kind = "quote" /\ s.ran = 0
    BY NoRequestOK DEF NoRequest
  <2>6. Move(id, s) /\ UNCHANGED <<vars, account_seq>>
    BY <2>1, <2>2
  <2> HIDE DEF s
  <2>7. RequestOK(s) /\ SequenceOK(s) /\ AnswerOK(s)
    BY <2>5 DEF RequestOK, SequenceOK, AnswerOK
  <2> QED BY <1>1, <2>4, <2>5, <2>6, <2>7, MoveFInv
<1>5. CASE PostResolve(id)
  <2>1. PICK outcome \in {"YES", "NO"} :
          /\ Move(id, [NoRequest EXCEPT !.stage = "build", !.kind = "resolve",
                        !.user = AppOracle, !.outcome = outcome])
          /\ UNCHANGED <<vars, account_seq>>
    BY <1>5 DEF PostResolve
  <2> DEFINE s == [NoRequest EXCEPT !.stage = "build", !.kind = "resolve",
                        !.user = AppOracle, !.outcome = outcome]
  <2>2. "resolve" \in Kinds /\ AppOracle \in Users \cup {AppOracle}
    BY <1>2
  <2>3. s \in Requests
    BY <1>2, <2>2, NoRequestOK DEF Requests
  <2>4. s.stage = "build" /\ s.kind = "resolve" /\ s.ran = 0
    BY NoRequestOK DEF NoRequest
  <2>5. Move(id, s) /\ UNCHANGED <<vars, account_seq>>
    BY <2>1
  <2> HIDE DEF s
  <2>6. RequestOK(s) /\ SequenceOK(s) /\ AnswerOK(s)
    BY <2>4 DEF RequestOK, SequenceOK, AnswerOK
  <2> QED BY <1>1, <2>3, <2>4, <2>5, <2>6, MoveFInv
<1>6. CASE PostPayout(id)
  <2>1. PICK kind \in {"claim", "withdraw"}, user \in Users \cup {AppOracle} :
          /\ Move(id, [NoRequest EXCEPT !.stage = "build", !.kind = kind, !.user = user])
          /\ UNCHANGED <<vars, account_seq>>
    BY <1>6 DEF PostPayout
  <2> DEFINE s == [NoRequest EXCEPT !.stage = "build", !.kind = kind, !.user = user]
  <2>2. kind \in Kinds
    BY <1>2
  <2>3. s \in Requests
    BY <1>2, <2>2, NoRequestOK DEF Requests
  <2>4. s.stage = "build" /\ s.kind \in {"claim", "withdraw"} /\ s.ran = 0
    BY NoRequestOK DEF NoRequest
  <2>5. Move(id, s) /\ UNCHANGED <<vars, account_seq>>
    BY <2>1
  <2> HIDE DEF s
  <2>6. RequestOK(s) /\ SequenceOK(s) /\ AnswerOK(s)
    BY <2>4 DEF RequestOK, SequenceOK, AnswerOK
  <2> QED BY <1>1, <2>3, <2>4, <2>5, <2>6, MoveFInv
<1>7. QED
  BY <1>3, <1>4, <1>5, <1>6

(***************************************************************************)
(* The limit computed from a quote is a natural number, and is within the  *)
(* tolerance of it up to the truncation.                                   *)
(***************************************************************************)
LEMMA LimitFacts ==
    ASSUME NEW q \in Nat, q > 0, NEW kind \in TradeKinds, NEW slippage \in 0 .. MaxSlippage,
           NEW l \in limits_of(q, percent_of_quote(kind, slippage))
    PROVE  /\ l \in Nat
           /\ kind = "sell" => l <= q
           /\ kind = "buy" => 100 * l <= q * (100 + slippage)
           /\ kind = "sell" => 100 * (l + 1) >= q * (100 - slippage)
<1> DEFINE p == percent_of_quote(kind, slippage)
           x == q * p
<1>1. p \in Nat /\ p > 0
  BY DEF percent_of_quote, MaxSlippage
<1>2. /\ kind = "buy" => p = 100 + slippage
      /\ kind = "sell" => p = 100 - slippage
  BY DEF percent_of_quote
<1>3. l \in (IF x % 100 = 0 THEN {(x \div 100) - 1, x \div 100} ELSE {x \div 100})
  BY DEF limits_of
<1> HIDE DEF p
<1>4. x \in Nat /\ x > 0
  BY <1>1
<1> HIDE DEF x
<1>5. l \in Nat /\ 100 * l <= x /\ 100 * (l + 1) >= x
  BY <1>3, <1>4
<1>6. /\ kind = "buy" => x = q * (100 + slippage)
      /\ kind = "sell" => x = q * (100 - slippage)
  BY <1>2 DEF x
<1>7. kind = "sell" => l <= q
  <2> SUFFICES ASSUME kind = "sell" PROVE l <= q
    OBVIOUS
  <2>1. x <= q * 100
    <3>1. p \in Nat /\ p <= 100 /\ x = q * p
      BY <1>1, <1>2 DEF x, MaxSlippage
    <3>2. q * p <= q * 100
      BY <3>1, SMTT(30)
    <3> QED BY <3>1, <3>2
  <2> QED BY <1>4, <1>5, <2>1
<1>8. QED
  BY <1>5, <1>6, <1>7

\* A quote that is answered without an error is an integer.
LEMMA QuotedType ==
    ASSUME FInv, NEW r \in Requests, get_quote_error(r) = "Ok"
    PROVE  quoted(r) \in Int
<1> DEFINE o == OutcomeToU32(r.outcome)
           d == quote_delta(r)
<1>1. r.amount \in Int /\ d \in Int /\ o \in Outcomes
  BY NetType, FlowAssumption DEF Requests, MIN_INT64, OutcomeToU32, Outcomes
<1>2. /\ trade_error(o, r.amount) = "Ok"
      /\ ~(sold_after(o, d)[o] < 0) /\ ~(sold_after(o, d)[o] > MaxSold)
  BY DEF get_quote_error
<1>3. is_initialized
  BY <1>2 DEF trade_error
<1>4. /\ d = (IF r.kind = "sell" THEN -r.amount ELSE r.amount)
      /\ quoted(r) = (IF r.kind = "sell" THEN cost_now - cost_after(o, -r.amount)
                                         ELSE cost_after(o, r.amount) - cost_now)
  BY DEF quote_delta, quoted, calculate_sell_return, calculate_buy_cost
<1> HIDE DEF o, d
<1>5. sold_after(o, d)[o] = sold[o] + d /\ sold[o] \in Int
  BY <1>1 DEF sold_after, FInv, IInv, TypeOK
<1>6. sold[o] + d \in 0 .. MaxSold
  BY <1>1, <1>2, <1>5, ArgsAssumption
<1>7. cost_after(o, d) \in Int /\ cost_now \in Int
  BY <1>1, <1>3, <1>6, PositionAfter DEF FInv, IInv
<1>8. QED
  BY <1>4, <1>7

\* GetQuote: the limit of the trade that goes on is the tolerance of what it saw.
LEMMA GetQuoteFInv ==
    ASSUME FInv, NEW id \in RequestIds, GetQuote(id)
    PROVE  FInv'
<1> DEFINE r == request[id]
<1>1. r \in Requests /\ RequestOK(r)
  BY DEF FInv, FlowTypeOK, RequestsOK
<1>2. r.stage = "quote" /\ UNCHANGED <<vars, account_seq>>
  BY DEF GetQuote
<1>3. r.ran = 0 /\ r.kind \in TradeKinds \cup {"quote"}
  BY <1>1, <1>2 DEF RequestOK
<1>4. "Unavailable" \in Messages /\ "Unexpected" \in Messages
  BY DEF Messages, OtherMessages
<1>5. Grounds(r, "Unavailable")
  BY DEF Grounds
<1>6. CASE get_quote_error(r) # "Ok"
  <2>1. \/ \E codes \in market_errors(get_quote_error(r)) :
             Refuse(id, mapContractError(codes), "market")
        \/ Refuse(id, "Unavailable", "market")
    BY <1>6 DEF GetQuote
  <2>2. Grounds(r, get_quote_error(r))
    BY <1>3, QuoteErrors
  <2>3. ASSUME NEW codes \in market_errors(get_quote_error(r)),
               Refuse(id, mapContractError(codes), "market")
        PROVE  FInv'
    <3>1. mapContractError(codes) \in Messages /\ Grounds(r, mapContractError(codes))
      BY <2>2, MessageGrounds
    <3> QED BY <1>2, <1>3, <2>3, <3>1, RefuseFInv
  <2>4. CASE Refuse(id, "Unavailable", "market")
    BY <1>2, <1>3, <1>4, <1>5, <2>4, RefuseFInv
  <2> QED BY <2>1, <2>3, <2>4
<1>7. CASE get_quote_error(r) = "Ok" /\ ~FitsInt64(quoted(r))
  <2>1. Refuse(id, "Unexpected", "server")
    BY <1>7 DEF GetQuote
  <2> QED BY <1>2, <1>3, <1>4, <2>1, RefuseFInv
<1>8. CASE get_quote_error(r) = "Ok" /\ FitsInt64(quoted(r)) /\ r.kind = "quote"
  <2> DEFINE s == [NoRequest EXCEPT !.stage = "quoted"]
  <2>1. Move(id, s)
    BY <1>8 DEF GetQuote
  <2>2. "quoted" \in Stages
    BY DEF Stages, Answered
  <2>3. s \in Requests
    BY <2>2, NoRequestOK DEF Requests
  <2>4. s.stage = "quoted" /\ s.ran = 0
    BY NoRequestOK DEF NoRequest
  <2> HIDE DEF s
  <2>5. RequestOK(s) /\ SequenceOK(s) /\ AnswerOK(s)
    BY <2>4 DEF RequestOK, SequenceOK, AnswerOK
  <2> QED BY <1>2, <1>3, <2>1, <2>3, <2>4, <2>5, MoveFInv
<1>9. CASE get_quote_error(r) = "Ok" /\ FitsInt64(quoted(r)) /\ r.kind # "quote"
  <2>1. Quoted(id, r) /\ r.kind \in TradeKinds
    BY <1>3, <1>9 DEF GetQuote
  <2>2. quoted(r) \in Int
    BY <1>1, <1>9, QuotedType
  <2>3. CASE quoted(r) <= 0
    <3>1. Refuse(id, "Unexpected", "server")
      BY <2>1, <2>3 DEF Quoted
    <3> QED BY <1>2, <1>3, <1>4, <3>1, RefuseFInv
  <2>4. CASE ~(quoted(r) <= 0)
    <3>1. PICK product \in limits_of(quoted(r), percent_of_quote(r.kind, r.slippage)) :
             \/ Refuse(id, "Unexpected", "server")
             \/ \E limit \in safeFloatToInt64(product) :
                  Move(id, [r EXCEPT !.stage = "build", !.seen = quoted(r), !.limit = limit])
      BY <2>1, <2>4 DEF Quoted
    <3>2. CASE Refuse(id, "Unexpected", "server")
      BY <1>2, <1>3, <1>4, <3>2, RefuseFInv
    <3>3. ASSUME NEW limit \in safeFloatToInt64(product),
                 Move(id, [r EXCEPT !.stage = "build", !.seen = quoted(r), !.limit = limit])
          PROVE  FInv'
      <4> DEFINE s == [r EXCEPT !.stage = "build", !.seen = quoted(r), !.limit = limit]
      <4>1. Move(id, s)
        BY <3>3
      <4>2. quoted(r) \in Nat /\ quoted(r) > 0 /\ quoted(r) \in 0 .. MAX_INT64
        BY <1>9, <2>2, <2>4, FlowAssumption DEF FitsInt64, MIN_INT64
      <4>3. r.slippage \in 0 .. MaxSlippage
        BY <1>1 DEF Requests
      <4> DEFINE above == quoted(r) * (100 + r.slippage)
                 below == quoted(r) * (100 - r.slippage)
      <4>4. /\ product \in Nat
            /\ r.kind = "sell" => product <= quoted(r)
            /\ r.kind = "buy" => 100 * product <= above
            /\ r.kind = "sell" => 100 * (product + 1) >= below
        BY <2>1, <3>1, <4>2, <4>3, LimitFacts
      <4>5. /\ limit \in MIN_INT64 .. MAX_INT64 /\ limit <= product
            /\ product < MAX_INT64 => limit = product
        BY <3>3, <4>4, FloatFacts
      <4>6. limit \in Int /\ above \in Int /\ below \in Int /\ MAX_INT64 \in Nat
        BY <4>2, <4>3, <4>5, FlowAssumption DEF MIN_INT64
      <4> HIDE DEF above, below
      <4>7. /\ r.kind = "buy" => 100 * limit <= above
            /\ r.kind = "sell" /\ quoted(r) < MAX_INT64 => 100 * (limit + 1) >= below
        BY <4>2, <4>4, <4>5, <4>6
      <4>8. /\ r.kind = "buy" => 100 * limit <= quoted(r) * (100 + r.slippage)
            /\ r.kind = "sell" /\ quoted(r) < MAX_INT64 =>
                  100 * (limit + 1) >= quoted(r) * (100 - r.slippage)
        BY <4>7 DEF above, below
      <4>9. "build" \in Stages
        BY DEF Stages, Working
      <4>10. s \in Requests
        BY <1>1, <4>2, <4>5, <4>9 DEF Requests
      <4>11. /\ s.stage = "build" /\ s.seen = quoted(r) /\ s.limit = limit
            /\ s.kind = r.kind /\ s.slippage = r.slippage /\ s.ran = 0
        BY <1>1, <1>3 DEF Requests
      <4> HIDE DEF s
      <4>12. RequestOK(s)
        BY <2>1, <4>8, <4>11 DEF RequestOK
      <4>13. SequenceOK(s) /\ AnswerOK(s)
        BY <4>11 DEF SequenceOK, AnswerOK
      <4> QED BY <1>2, <1>3, <4>1, <4>10, <4>11, <4>12, <4>13, MoveFInv
    <3> QED BY <3>1, <3>2, <3>3
  <2> QED BY <2>3, <2>4
<1>10. QED
  BY <1>6, <1>7, <1>8, <1>9

\* BuildInvokeTx: a sequence number that may be late but is never ahead.
LEMMA BuildFInv ==
    ASSUME FInv, NEW id \in RequestIds, BuildInvokeTx(id)
    PROVE  FInv'
<1> DEFINE r == request[id]
<1>1. r \in Requests /\ RequestOK(r)
  BY DEF FInv, FlowTypeOK, RequestsOK
<1>2. r.stage = "build" /\ UNCHANGED <<vars, account_seq>>
  BY DEF BuildInvokeTx
<1>3. PICK n \in next_sequence(r.user) : Move(id, [r EXCEPT !.stage = "prepare", !.seq = n])
  BY DEF BuildInvokeTx
<1>4. account_seq[r.user] \in Nat
  BY <1>1, FlowAssumption DEF FInv, FlowTypeOK, Requests
<1>5. n \in Nat /\ n <= account_seq[r.user] + 1
  BY <1>3, <1>4 DEF next_sequence
<1> DEFINE s == [r EXCEPT !.stage = "prepare", !.seq = n]
<1>6. "prepare" \in Stages
  BY DEF Stages, Working
<1>7. s \in Requests
  BY <1>1, <1>5, <1>6 DEF Requests
<1>8. /\ s.stage = "prepare" /\ s.seq = n /\ s.user = r.user
      /\ s.kind = r.kind /\ s.seen = r.seen /\ s.limit = r.limit
      /\ s.slippage = r.slippage /\ s.ran = r.ran /\ s.moved = r.moved
  BY <1>1 DEF Requests
<1>9. Move(id, s)
  BY <1>3
<1> HIDE DEF s
<1>10. RequestOK(s) /\ r.ran = 0
  BY <1>1, <1>2, <1>8 DEF RequestOK
<1>11. SequenceOK(s) /\ AnswerOK(s)
  BY <1>5, <1>8 DEF SequenceOK, AnswerOK
<1>12. QED
  BY <1>2, <1>7, <1>8, <1>9, <1>10, <1>11, MoveFInv

\* SimulateAndPrepare hands out what it was given, or refuses it.
LEMMA SimulateFInv ==
    ASSUME FInv, NEW id \in RequestIds, SimulateAndPrepare(id)
    PROVE  FInv'
<1> DEFINE r == request[id]
<1>1. r \in Requests /\ RequestOK(r) /\ SequenceOK(r)
  BY DEF FInv, FlowTypeOK, RequestsOK
<1>2. r.stage = "prepare" /\ UNCHANGED <<vars, account_seq>>
  BY DEF SimulateAndPrepare
<1>3. r.ran = 0
  BY <1>1, <1>2 DEF RequestOK
<1>4. CASE Move(id, [r EXCEPT !.stage = "handed_out"])
  <2> DEFINE s == [r EXCEPT !.stage = "handed_out"]
  <2>1. Move(id, s)
    BY <1>4
  <2>2. "handed_out" \in Stages
    BY DEF Stages, Answered
  <2>3. s \in Requests
    BY <1>1, <2>2 DEF Requests
  <2>4. /\ s.stage = "handed_out" /\ s.seq = r.seq /\ s.user = r.user
        /\ s.kind = r.kind /\ s.seen = r.seen /\ s.limit = r.limit
        /\ s.slippage = r.slippage /\ s.ran = r.ran /\ s.moved = r.moved
    BY <1>1 DEF Requests
  <2> HIDE DEF s
  <2>5. RequestOK(s)
    BY <1>1, <1>2, <2>4 DEF RequestOK
  <2>6. SequenceOK(s) /\ AnswerOK(s)
    BY <1>1, <1>2, <2>4 DEF SequenceOK, AnswerOK
  <2> QED BY <1>2, <1>3, <2>1, <2>3, <2>4, <2>5, <2>6, MoveFInv
<1>5. ASSUME NEW codes \in market_errors(call_error(r)),
             Refuse(id, mapContractError(codes), "market")
      PROVE  FInv'
  <2>1. Grounds(r, call_error(r))
    BY <1>1, CallErrors DEF FInv
  <2>2. mapContractError(codes) \in Messages /\ Grounds(r, mapContractError(codes))
    BY <2>1, MessageGrounds
  <2> QED BY <1>2, <1>3, <1>5, <2>2, RefuseFInv
<1>6. ASSUME NEW message \in {mapContractError(codes) : codes \in token_errors},
             Refuse(id, message, "token")
      PROVE  FInv'
  <2>1. message \in Messages
    BY MessageType
  <2> QED BY <1>2, <1>3, <1>6, <2>1, RefuseFInv
<1>7. QED
  BY <1>4, <1>5, <1>6 DEF SimulateAndPrepare

\* A server that fails gives none of the contracts' answers.
LEMMA RpcFailsFInv ==
    ASSUME FInv, NEW id \in RequestIds, RpcFails(id)
    PROVE  FInv'
<1>1. PICK message \in OtherMessages : Refuse(id, message, "server")
  BY DEF RpcFails
<1>2. UNCHANGED <<vars, account_seq>> /\ request[id].stage \in Working
  BY DEF RpcFails
<1>3. request[id].ran = 0
  BY <1>2 DEF FInv, RequestsOK, RequestOK, Working
<1>4. message \in Messages
  BY <1>1 DEF Messages
<1>5. QED
  BY <1>1, <1>2, <1>3, <1>4, RefuseFInv
-----------------------------------------------------------------------------
(***************************************************************************)
(* The network takes a transaction.                                        *)
(***************************************************************************)
\* One more execution of a trade moves the user's balance and the sum of the
\* executed trades by the same amount.
LEMMA TradePositions ==
    ASSUME FInv, NEW id \in RequestIds, NEW s \in Requests,
           request[id].kind \in TradeKinds,
           s.kind = request[id].kind, s.user = request[id].user,
           s.outcome = request[id].outcome, s.amount = request[id].amount,
           s.ran = request[id].ran + 1,
           request' = [request EXCEPT ![id] = s],
           user_balance' = [user_balance EXCEPT
               ![request[id].user][OutcomeToU32(request[id].outcome)]
                   = @ + quote_delta(request[id])],
           ~resolved
    PROVE  PositionsExplained'
<1> DEFINE r == request[id]
           d == quote_delta(r)
<1>1. /\ request \in [RequestIds -> Requests] /\ r \in Requests
      /\ r.user \in Accounts /\ r.outcome \in {"YES", "NO"}
  BY FlowAssumption DEF FInv, FlowTypeOK, Requests
<1>2. d \in Int /\ quote_delta(s) = d
  BY <1>1, NetType DEF quote_delta
<1>3. s.ran * d = r.ran * d + d
  <2>1. r.ran \in Int
    BY <1>1 DEF Requests
  <2> HIDE DEF d, r
  <2>2. \A n, k \in Int : (n + 1) * k = n * k + k
    OBVIOUS
  <2>3. (r.ran + 1) * d = r.ran * d + d
    BY <1>2, <2>1, <2>2
  <2> QED BY <2>3 DEF r
<1> HIDE DEF d
<1>4. ASSUME NEW u, NEW outcome
      PROVE  net_of(u, outcome)' = net_of(u, outcome)
               + (IF r.user = u /\ r.outcome = outcome THEN d ELSE 0)
  <2> DEFINE f == nets(u, outcome)
             g == [i \in RequestIds |-> net(request'[i], u, outcome)]
  <2>1. /\ \A i \in RequestIds : f[i] = net(request[i], u, outcome)
        /\ \A i \in RequestIds : g[i] = net(request'[i], u, outcome)
    BY DEF nets
  <2>2. request'[id] = s /\ \A i \in RequestIds \ {id} : request'[i] = request[i]
    BY <1>1
  <2>3. \A i \in RequestIds : request[i] \in Requests /\ request'[i] \in Requests
    BY <1>1, <2>2
  <2>4. net_of(u, outcome) = SumFunctionOnSet(f, RequestIds)
    BY DEF net_of
  <2>5. net_of(u, outcome)' = SumFunctionOnSet(g, RequestIds)
    BY DEF net_of, nets
  <2>6. g[id] - f[id] = (IF r.user = u /\ r.outcome = outcome THEN d ELSE 0)
    <3>1. r.ran * d \in Int
      BY <1>1, <1>2 DEF Requests
    <3>2. f[id] = (IF r.user = u /\ r.outcome = outcome THEN r.ran * d ELSE 0)
      BY <2>1 DEF net, d
    <3>3. g[id] = (IF r.user = u /\ r.outcome = outcome THEN s.ran * d ELSE 0)
      BY <1>2, <2>1, <2>2 DEF net
    <3> QED BY <1>2, <1>3, <3>1, <3>2, <3>3
  <2> HIDE DEF f, g
  <2>7. \A i \in RequestIds : f[i] \in Int /\ g[i] \in Int
    BY <2>1, <2>3, NetType
  <2>8. \A i \in RequestIds \ {id} : g[i] = f[i]
    BY <2>1, <2>2
  <2>9. SumFunctionOnSet(g, RequestIds) = SumFunctionOnSet(f, RequestIds) + (g[id] - f[id])
    BY <2>7, <2>8, FlowAssumption, SumUpdate
  <2> QED BY <2>4, <2>5, <2>6, <2>9
<1>5. \A u \in Users : /\ user_balance[u][OUTCOME_YES] = net_of(u, "YES")
                       /\ user_balance[u][OUTCOME_NO] = net_of(u, "NO")
  BY DEF FInv, PositionsExplained
<1>6. user_balance \in [Accounts -> [Outcomes -> Nat]]
  BY DEF FInv, IInv, TypeOK
<1>7. user_balance' = [user_balance EXCEPT ![r.user][OutcomeToU32(r.outcome)] = @ + d]
  BY DEF d
<1> HIDE DEF r
<1>8. ASSUME NEW u \in Users, NEW outcome \in {"YES", "NO"}
      PROVE  user_balance'[u][OutcomeToU32(outcome)] =
               user_balance[u][OutcomeToU32(outcome)]
                 + (IF r.user = u /\ r.outcome = outcome THEN d ELSE 0)
  <2>1. u \in Accounts /\ OutcomeToU32(outcome) \in Outcomes /\ OutcomeToU32(r.outcome) \in Outcomes
    BY FlowAssumption DEF OutcomeToU32, Outcomes
  <2>2. OutcomeToU32(outcome) = OutcomeToU32(r.outcome) <=> outcome = r.outcome
    BY <1>1 DEF OutcomeToU32, OUTCOME_YES, OUTCOME_NO
  <2>3. user_balance[u][OutcomeToU32(outcome)] \in Nat
    BY <1>6, <2>1
  <2> QED BY <1>1, <1>2, <1>6, <1>7, <2>1, <2>2, <2>3
<1>9. OutcomeToU32("YES") = OUTCOME_YES /\ OutcomeToU32("NO") = OUTCOME_NO
  BY DEF OutcomeToU32
<1>10. ASSUME NEW u \in Users
       PROVE  /\ user_balance'[u][OUTCOME_YES] = net_of(u, "YES")'
              /\ user_balance'[u][OUTCOME_NO] = net_of(u, "NO")'
  <2>1. user_balance'[u][OUTCOME_YES] = net_of(u, "YES")'
    <3>1. user_balance'[u][OUTCOME_YES] = user_balance[u][OUTCOME_YES]
             + (IF r.user = u /\ r.outcome = "YES" THEN d ELSE 0)
      BY <1>8, <1>9
    <3> QED BY <1>4, <1>5, <3>1
  <2>2. user_balance'[u][OUTCOME_NO] = net_of(u, "NO")'
    <3>1. user_balance'[u][OUTCOME_NO] = user_balance[u][OUTCOME_NO]
             + (IF r.user = u /\ r.outcome = "NO" THEN d ELSE 0)
      BY <1>8, <1>9
    <3> QED BY <1>4, <1>5, <3>1
  <2> QED BY <2>1, <2>2
<1>11. QED
  BY <1>10 DEF PositionsExplained

(***************************************************************************)
(* What running a handed-out call does: the collateral a trade moves obeys *)
(* the limit it carries, and the user's tokens change by its amount.       *)
(***************************************************************************)
LEMMA RunEffect ==
    ASSUME IInv, NEW r \in Requests, run(r)
    PROVE  /\ MarketKept
           /\ \/ resolved' /\ r.kind \notin TradeKinds
              \/ /\ ~resolved /\ r.kind \in TradeKinds
                 /\ user_balance' = [user_balance EXCEPT
                       ![r.user][OutcomeToU32(r.outcome)] = @ + quote_delta(r)]
                 /\ r.kind = "buy" => escrow' - escrow \in 0 .. r.limit
                 /\ r.kind = "sell" => escrow - escrow' \in Nat /\ r.limit <= escrow - escrow'
<1> DEFINE o == OutcomeToU32(r.outcome)
           n == r.amount
<1>1. /\ r.user \in Accounts /\ o \in Outcomes /\ n \in Int /\ r.limit \in Int
  BY FlowAssumption DEF Requests, MIN_INT64, OutcomeToU32, Outcomes
<1>2. escrow \in Int /\ user_balance \in [Accounts -> [Outcomes -> Nat]]
      /\ sold \in [Outcomes -> 0 .. MaxSold]
  BY DEF IInv, TypeOK
<1>3. CASE r.kind = "buy" /\ buy(r.user, o, n, r.limit)
  <2> DEFINE c == calculate_buy_cost(o, n)
  <2>1. MarketKept /\ ~resolved
    BY <1>1, <1>3, BuyKept
  <2>2. /\ ~(c > r.limit) /\ ~(c < 0)
        /\ ~(sold[o] + n > MaxSold) /\ is_initialized /\ ~(n <= 0)
    BY <1>3 DEF buy, buy_error, trade_error
  <2>3. escrow' = escrow + c /\ user_balance' = [user_balance EXCEPT ![r.user][o] = @ + n]
    BY <1>3 DEF buy
  <2>4. quote_delta(r) = n
    BY <1>3 DEF quote_delta
  <2>5. c \in Int
    <3>1. sold[o] + n \in 0 .. MaxSold
      BY <1>1, <1>2, <2>2, ArgsAssumption
    <3>2. cost_after(o, n) \in Int /\ cost_now \in Int
      BY <1>1, <2>2, <3>1, PositionAfter DEF IInv
    <3> QED BY <3>2 DEF calculate_buy_cost
  <2> HIDE DEF c
  <2>6. escrow' - escrow \in 0 .. r.limit
    BY <1>1, <1>2, <2>2, <2>3, <2>5
  <2> QED BY <1>3, <2>1, <2>3, <2>4, <2>6 DEF TradeKinds
<1>4. CASE r.kind = "sell" /\ sell(r.user, o, n, r.limit)
  <2> DEFINE c == calculate_sell_return(o, n)
  <2>1. MarketKept /\ ~resolved
    BY <1>1, <1>4, SellKept
  <2>2. ~(c < r.limit) /\ c \in 0 .. escrow
    BY <1>4 DEF sell, sell_error
  <2>3. escrow' = escrow - c /\ user_balance' = [user_balance EXCEPT ![r.user][o] = @ - n]
    BY <1>4 DEF sell
  <2>4. quote_delta(r) = -n
    BY <1>4 DEF quote_delta
  <2> HIDE DEF c
  <2>5. escrow - escrow' \in Nat /\ r.limit <= escrow - escrow'
    BY <1>1, <1>2, <2>2, <2>3
  <2>6. user_balance' = [user_balance EXCEPT ![r.user][o] = @ + quote_delta(r)]
    <3>1. user_balance[r.user][o] \in Int
      BY <1>1, <1>2
    <3>2. user_balance[r.user][o] - n = user_balance[r.user][o] + quote_delta(r)
      BY <1>1, <2>4, <3>1
    <3> HIDE DEF n, o
    <3> QED BY <2>3, <3>2
  <2> QED BY <1>4, <2>1, <2>5, <2>6 DEF TradeKinds
<1>5. CASE r.kind = "resolve" /\ resolve(r.user, o)
  BY <1>1, <1>5, ResolveKept DEF TradeKinds
<1>6. CASE r.kind = "claim" /\ claim(r.user)
  BY <1>1, <1>6, ClaimKept DEF TradeKinds
<1>7. CASE r.kind = "withdraw" /\ withdraw_remaining(r.user)
  BY <1>1, <1>7, WithdrawKept DEF TradeKinds
<1>8. QED
  BY <1>3, <1>4, <1>5, <1>6, <1>7 DEF run

\* A submission, whether its call runs or fails.
LEMMA SubmitFInv ==
    ASSUME FInv, NEW id \in RequestIds, Submit(id)
    PROVE  FInv'
<1> DEFINE r == request[id]
<1>1. /\ r \in Requests /\ RequestOK(r) /\ SequenceOK(r)
      /\ request \in [RequestIds -> Requests] /\ account_seq \in [Accounts -> Nat]
  BY DEF FInv, FlowTypeOK, RequestsOK
<1>2. /\ r.stage = "handed_out" /\ r.seq = account_seq[r.user] + 1
      /\ account_seq' = [account_seq EXCEPT ![r.user] = r.seq]
  BY DEF Submit, valid
<1>3. r.user \in Accounts /\ r.seq \in Nat
  BY <1>1, FlowAssumption DEF Requests
<1>4. /\ account_seq' \in [Accounts -> Nat]
      /\ \A a \in Accounts : account_seq'[a] \in Nat /\ account_seq[a] <= account_seq'[a]
      /\ account_seq'[r.user] = r.seq
  BY <1>1, <1>2, <1>3
<1>5. CASE UNCHANGED <<vars, request>>
  <2>1. MarketKept
    BY <1>5, IdleKept DEF FInv
  <2>2. request' = request /\ UNCHANGED <<resolved, user_balance>>
    BY <1>5 DEF vars
  <2>3. RequestsOK'
    <3> SUFFICES ASSUME NEW i \in RequestIds
                 PROVE  (RequestOK(request[i]) /\ SequenceOK(request[i]) /\ AnswerOK(request[i]))'
      BY DEF RequestsOK
    <3> QED BY <1>4, <2>1, <2>2, UntouchedRequest
  <2>4. FlowTypeOK'
    BY <1>1, <1>4, <2>2 DEF FlowTypeOK
  <2>5. PositionsExplained'
    BY <2>2 DEF FInv, PositionsExplained, net_of, nets
  <2> QED BY <2>1, <2>3, <2>4, <2>5 DEF FInv, MarketKept
<1>6. CASE /\ run(r)
           /\ Move(id, [r EXCEPT !.ran = @ + 1,
                                 !.moved = IF escrow' > escrow THEN escrow' - escrow
                                                               ELSE escrow - escrow'])
  <2> DEFINE moved == IF escrow' > escrow THEN escrow' - escrow ELSE escrow - escrow'
             s == [r EXCEPT !.ran = @ + 1, !.moved = moved]
  <2>1. /\ MarketKept
        /\ \/ resolved' /\ r.kind \notin TradeKinds
           \/ /\ ~resolved /\ r.kind \in TradeKinds
              /\ user_balance' = [user_balance EXCEPT
                    ![r.user][OutcomeToU32(r.outcome)] = @ + quote_delta(r)]
              /\ r.kind = "buy" => escrow' - escrow \in 0 .. r.limit
              /\ r.kind = "sell" => escrow - escrow' \in Nat /\ r.limit <= escrow - escrow'
    BY <1>1, <1>6, RunEffect DEF FInv
  <2>2. escrow \in Int /\ escrow' \in Int
    BY <2>1 DEF FInv, MarketKept, IInv, TypeOK
  <2>3. moved \in Nat
    <3>1. \A a, b \in Int : (IF a > b THEN a - b ELSE b - a) \in Nat
      OBVIOUS
    <3> QED BY <2>2, <3>1
  <2>4. r.limit \in Int /\ r.ran \in Nat
    BY <1>1, FlowAssumption DEF Requests, MIN_INT64
  <2>5. /\ r.kind = "buy" => moved <= r.limit
        /\ r.kind = "sell" => r.limit <= moved
    BY <2>1, <2>2, <2>4 DEF TradeKinds
  <2>6. request' = [request EXCEPT ![id] = s]
    BY <1>6 DEF Move
  <2> HIDE DEF moved
  <2>7. s \in Requests
    <3>1. r.ran + 1 \in Nat
      BY <2>4
    <3> QED BY <1>1, <2>3, <3>1 DEF Requests
  <2>8. /\ s.stage = r.stage /\ s.seq = r.seq /\ s.user = r.user /\ s.kind = r.kind
        /\ s.outcome = r.outcome /\ s.amount = r.amount /\ s.seen = r.seen
        /\ s.limit = r.limit /\ s.slippage = r.slippage
        /\ s.ran = r.ran + 1 /\ s.moved = moved
    BY <1>1 DEF Requests
  <2> HIDE DEF s
  <2>9. FlowTypeOK'
    BY <1>1, <1>4, <2>6, <2>7 DEF FlowTypeOK
  <2>10. request'[id] = s /\ \A i \in RequestIds \ {id} : request'[i] = request[i]
    BY <1>1, <2>6
  <2>11. RequestsOK'
    <3> SUFFICES ASSUME NEW i \in RequestIds
                 PROVE  (RequestOK(request[i]) /\ SequenceOK(request[i]) /\ AnswerOK(request[i]))'
      BY DEF RequestsOK
    <3>1. CASE i # id
      BY <1>4, <2>1, <2>10, <3>1, UntouchedRequest
    <3>2. CASE i = id
      <4>1. RequestOK(s)
        BY <1>1, <1>2, <2>5, <2>8 DEF RequestOK
      <4>2. RequestOK(request[i])'
        BY <2>10, <3>2, <4>1 DEF RequestOK
      <4>3. SequenceOK(request[i])'
        BY <1>3, <1>4, <2>8, <2>10, <3>2 DEF SequenceOK
      <4>4. AnswerOK(request[i])'
        BY <1>2, <2>8, <2>10, <3>2 DEF AnswerOK
      <4> QED BY <4>2, <4>3, <4>4
    <3> QED BY <3>1, <3>2
  <2>12. PositionsExplained'
    <3>1. CASE resolved'
      BY <3>1 DEF PositionsExplained
    <3>2. CASE ~resolved'
      BY <2>1, <2>6, <2>7, <2>8, <3>2, TradePositions
    <3> QED BY <3>1, <3>2
  <2> QED BY <2>1, <2>9, <2>11, <2>12 DEF FInv, MarketKept
<1>7. QED
  BY <1>5, <1>6 DEF Submit

\* Calls that do not come from the application touch none of its users.
LEMMA OutsideFInv ==
    ASSUME FInv, Outside
    PROVE  FInv'
<1>1. /\ request' = request /\ request \in [RequestIds -> Requests]
      /\ account_seq \in [Accounts -> Nat] /\ AppOracle \in Accounts
      /\ Outsiders \subseteq Accounts
      /\ user_balance \in [Accounts -> [Outcomes -> Nat]]
  BY FlowAssumption DEF Outside, FInv, FlowTypeOK, IInv, TypeOK
<1>2. \/ account_seq' = account_seq
      \/ account_seq' = [account_seq EXCEPT ![AppOracle] = @ + 1]
  BY DEF Outside
<1>3. /\ account_seq' \in [Accounts -> Nat]
      /\ \A a \in Accounts : account_seq'[a] \in Nat /\ account_seq[a] <= account_seq'[a]
  BY <1>1, <1>2
<1>4. /\ MarketKept
      /\ \/ resolved'
         \/ ~resolved /\ \A u \in Users : user_balance'[u] = user_balance[u]
  <2>1. ASSUME NEW u \in Outsiders, NEW o \in Outcomes, NEW n \in Amounts, NEW m \in Limits,
               buy(u, o, n, m) \/ sell(u, o, n, m)
        PROVE  MarketKept /\ ~resolved /\ \A x \in Users : user_balance'[x] = user_balance[x]
    <3>1. u \in Accounts /\ n \in Int /\ u \notin Users /\ Users \subseteq Accounts
      BY <1>1, ArgsAssumption, FlowAssumption
    <3>2. MarketKept /\ ~resolved
      BY <2>1, <3>1, BuyKept, SellKept DEF FInv
    <3>3. \/ user_balance' = [user_balance EXCEPT ![u][o] = @ + n]
          \/ user_balance' = [user_balance EXCEPT ![u][o] = @ - n]
      BY <2>1 DEF buy, sell
    <3> QED BY <1>1, <3>1, <3>2, <3>3
  <2>2. ASSUME NEW u \in Outsiders, claim(u)
        PROVE  MarketKept /\ resolved'
    BY <1>1, <2>2, ClaimKept DEF FInv
  <2>3. ASSUME NEW o \in Outcomes, resolve(AppOracle, o)
        PROVE  MarketKept /\ resolved'
    BY <1>1, <2>3, ResolveKept DEF FInv
  <2> QED BY <2>1, <2>2, <2>3 DEF Outside
<1>5. FlowTypeOK'
  BY <1>1, <1>3 DEF FlowTypeOK
<1>6. RequestsOK'
  <2> SUFFICES ASSUME NEW i \in RequestIds
               PROVE  (RequestOK(request[i]) /\ SequenceOK(request[i]) /\ AnswerOK(request[i]))'
    BY DEF RequestsOK
  <2> QED BY <1>1, <1>3, <1>4, UntouchedRequest
<1>7. PositionsExplained'
  <2>1. \A u, outcome : net_of(u, outcome)' = net_of(u, outcome)
    BY <1>1 DEF net_of, nets
  <2> QED BY <1>4, <2>1 DEF FInv, PositionsExplained
<1>8. QED
  BY <1>4, <1>5, <1>6, <1>7 DEF FInv, MarketKept
-----------------------------------------------------------------------------
\* A market just deployed, with no request yet, satisfies the invariant.
LEMMA InitFInv == FlowInit => FInv
<1> SUFFICES ASSUME FlowInit PROVE FInv
  OBVIOUS
<1>1. /\ DeployedBy(AppOracle) /\ AppOracle \in Accounts
      /\ oracle = AppOracle
      /\ user_balance = [u \in Accounts |-> [o \in Outcomes |-> 0]]
  BY FlowAssumption DEF FlowInit, DeployedBy
<1>4. IInv
  BY <1>1, DeployedIInv
<1>5. /\ request = [id \in RequestIds |-> NoRequest]
      /\ account_seq = [a \in Accounts |-> 0]
  BY DEF FlowInit
<1>6. FlowTypeOK
  BY <1>5, NoRequestOK DEF FlowTypeOK
<1>7. RequestsOK
  <2>1. NoRequest.stage = "free" /\ NoRequest.ran = 0
    BY DEF NoRequest
  <2>2. RequestOK(NoRequest) /\ SequenceOK(NoRequest) /\ AnswerOK(NoRequest)
    BY <2>1 DEF RequestOK, SequenceOK, AnswerOK
  <2> QED BY <1>5, <2>2 DEF RequestsOK
<1>8. PositionsExplained
  <2>1. ASSUME NEW u, NEW outcome PROVE net_of(u, outcome) = 0
    <3> DEFINE f == nets(u, outcome)
    <3>1. \A id \in RequestIds : f[id] = 0
      BY <1>5, NoRequestOK, NetZero DEF nets
    <3> HIDE DEF f
    <3>2. SumFunctionOnSet(f, RequestIds) = 0
      BY <3>1, FlowAssumption, SumZero
    <3> QED BY <3>2 DEF net_of, f
  <2>2. \A u \in Users : user_balance[u][OUTCOME_YES] = 0 /\ user_balance[u][OUTCOME_NO] = 0
    BY <1>1, FlowAssumption DEF Outcomes
  <2> QED BY <2>1, <2>2 DEF PositionsExplained
<1>9. QED
  BY <1>1, <1>4, <1>6, <1>7, <1>8 DEF FInv

LEMMA NextFInv == FInv /\ [FlowNext]_flow_vars => FInv'
<1> SUFFICES ASSUME FInv, [FlowNext]_flow_vars PROVE FInv'
  OBVIOUS
<1>1. ASSUME NEW id \in RequestIds,
             PostTrade(id) \/ PostQuote(id) \/ PostResolve(id) \/ PostPayout(id)
      PROVE  FInv'
  BY <1>1, PostFInv
<1>2. ASSUME NEW id \in RequestIds, Handle(id) PROVE FInv'
  BY <1>2, GetQuoteFInv, BuildFInv, SimulateFInv DEF Handle
<1>3. ASSUME NEW id \in RequestIds, RpcFails(id) PROVE FInv'
  BY <1>3, RpcFailsFInv
<1>4. ASSUME NEW id \in RequestIds, Submit(id) PROVE FInv'
  BY <1>4, SubmitFInv
<1>5. CASE Outside
  BY <1>5, OutsideFInv
<1>6. CASE UNCHANGED flow_vars
  <2>1. UNCHANGED vars /\ request' = request /\ account_seq' = account_seq
    BY <1>6 DEF flow_vars
  <2>2. MarketKept
    BY <2>1, IdleKept DEF FInv
  <2>3. UNCHANGED <<resolved, user_balance, winning_outcome, oracle, collateral_pool, unclaimed>>
    BY <2>1 DEF vars
  <2>4. FlowTypeOK' /\ PositionsExplained'
    BY <2>1, <2>3 DEF FInv, FlowTypeOK, PositionsExplained, net_of, nets
  <2>5. RequestsOK'
    <3> SUFFICES ASSUME NEW i \in RequestIds
                 PROVE  (RequestOK(request[i]) /\ SequenceOK(request[i]) /\ AnswerOK(request[i]))'
      BY DEF RequestsOK
    <3>1. \A a \in Accounts : account_seq'[a] \in Nat /\ account_seq[a] <= account_seq'[a]
      BY <2>1 DEF FInv, FlowTypeOK
    <3> QED BY <2>1, <2>2, <3>1, UntouchedRequest
  <2> QED BY <2>2, <2>4, <2>5 DEF FInv, MarketKept
<1>7. QED
  BY <1>1, <1>2, <1>3, <1>4, <1>5, <1>6 DEF FlowNext

LEMMA FlowInductive == FlowSpec => []FInv
BY InitFInv, NextFInv, PTL DEF FlowSpec
-----------------------------------------------------------------------------
\* Every request and every message is one the handlers can produce; what
\* safeFloatToInt64 lets through, the power of two above MAX_INT64 included,
\* has become an int64.
THEOREM FlowTypeCorrect == FlowSpec => []FlowTypeOK
<1>1. FInv => FlowTypeOK
  BY DEF FInv
<1>2. QED
  BY <1>1, FlowInductive, PTL

(***************************************************************************)
(* The tolerance of PostTrade holds at execution: the limit GetQuote       *)
(* computed bounds what buy and sell move, at any later time and whatever  *)
(* traded in between.                                                      *)
(***************************************************************************)
THEOREM SlippageHolds == FlowSpec => []SlippageRespected
<1>1. FInv => SlippageRespected
  <2> SUFFICES ASSUME FInv, NEW id \in RequestIds, request[id].ran > 0
               PROVE  /\ request[id].kind = "buy"  =>
                            100 * request[id].moved
                              <= request[id].seen * (100 + request[id].slippage)
                      /\ request[id].kind = "sell" /\ request[id].seen < MAX_INT64 =>
                            100 * (request[id].moved + 1)
                              >= request[id].seen * (100 - request[id].slippage)
    BY DEF SlippageRespected
  <2> DEFINE r == request[id]
  <2>1. r \in Requests /\ RequestOK(r)
    BY DEF FInv, FlowTypeOK, RequestsOK
  <2>2. /\ r.moved \in Nat /\ r.limit \in Int /\ r.ran \in Nat
        /\ r.seen \in Int /\ r.slippage \in Int
    BY <2>1, FlowAssumption DEF Requests, MIN_INT64
  <2> DEFINE above == r.seen * (100 + r.slippage)
             below == r.seen * (100 - r.slippage)
  <2>3. above \in Int /\ below \in Int
    BY <2>2
  <2>4. r.stage = "handed_out"
    BY <2>1, <2>2 DEF RequestOK
  <2>5. /\ r.kind = "buy" => 100 * r.limit <= above /\ r.moved <= r.limit
        /\ r.kind = "sell" => r.limit <= r.moved
        /\ r.kind = "sell" /\ r.seen < MAX_INT64 => 100 * (r.limit + 1) >= below
    BY <2>1, <2>4 DEF RequestOK
  <2> HIDE DEF above, below
  <2>6. /\ r.kind = "buy" => 100 * r.moved <= above
        /\ r.kind = "sell" /\ r.seen < MAX_INT64 => 100 * (r.moved + 1) >= below
    BY <2>2, <2>3, <2>5
  <2> QED BY <2>6 DEF above, below
<1>2. QED
  BY <1>1, FlowInductive, PTL

(***************************************************************************)
(* The contract's balances of a user of the application are the sum of the *)
(* trades its transactions executed, for any number of requests.           *)
(***************************************************************************)
THEOREM PositionsAreExplained == FlowSpec => []PositionsExplained
<1>1. FInv => PositionsExplained
  BY DEF FInv
<1>2. QED
  BY <1>1, FlowInductive, PTL

(***************************************************************************)
(* The messages of mapContractError for AlreadyResolved and NothingToClaim *)
(* stay true where the market contract raised the error: resolve cannot be *)
(* undone, a redeemed balance cannot return, and claims do not free        *)
(* collateral for withdraw_remaining.                                      *)
(***************************************************************************)
THEOREM RefusalsAreFinal == FlowSpec => []FinalAnswersStay
<1>1. FInv => FinalAnswersStay
  <2> SUFFICES ASSUME FInv, NEW id \in RequestIds, request[id].stage = "rejected",
                      request[id].source = "market",
                      request[id].answer \in {"AlreadyResolved", "NothingToClaim"}
               PROVE  call_error(request[id]) = request[id].answer
    BY DEF FinalAnswersStay
  <2> DEFINE r == request[id]
  <2>1. AnswerOK(r)
    BY DEF FInv, RequestsOK
  <2>2. is_initialized
    BY FlowAssumption, ArgsAssumption DEF FInv, is_initialized
  <2>3. CASE r.answer = "AlreadyResolved"
    <3>1. resolved /\ r.kind \in TradeKinds \cup {"quote", "resolve"}
      BY <2>1, <2>3 DEF AnswerOK
    <3>2. \A o, n : trade_error(o, n) = "AlreadyResolved"
      BY <2>2, <3>1 DEF trade_error
    <3>3. r.kind = "buy" => call_error(r) = "AlreadyResolved"
      BY <3>2 DEF call_error, buy_error
    <3>4. r.kind = "sell" => call_error(r) = "AlreadyResolved"
      BY <3>2 DEF call_error, sell_error
    <3>5. r.kind = "quote" => call_error(r) = "AlreadyResolved"
      BY <3>2 DEF call_error, get_quote_error
    <3>6. r.kind = "resolve" => call_error(r) = "AlreadyResolved"
      BY <2>2, <3>1 DEF call_error, resolve_error
    <3> QED BY <2>3, <3>1, <3>3, <3>4, <3>5, <3>6 DEF TradeKinds
  <2>4. CASE r.answer = "NothingToClaim"
    <3>1. /\ resolved
          /\ \/ r.kind = "claim" /\ user_balance[r.user][winning_outcome] = 0
             \/ r.kind = "withdraw" /\ r.user = oracle /\ withdrawable <= 0
      BY <2>1, <2>4 DEF AnswerOK
    <3>2. r.kind = "claim" => call_error(r) = "NothingToClaim"
      BY <2>2, <3>1 DEF call_error, claim_error
    <3>3. r.kind = "withdraw" => call_error(r) = "NothingToClaim"
      BY <2>2, <3>1 DEF call_error, withdraw_error
    <3> QED BY <2>4, <3>1, <3>2, <3>3
  <2> QED BY <2>3, <2>4
<1>2. QED
  BY <1>1, FlowInductive, PTL

(***************************************************************************)
(* A transaction the network takes uses up a sequence number that no other *)
(* transaction of the account, built by BuildInvokeTx before, is beyond.   *)
(***************************************************************************)
THEOREM SubmissionIsExclusive == FlowSpec => SubmissionVoidsOthers
<1>1. ASSUME FInv, [FlowNext]_flow_vars, NEW id \in RequestIds,
             request[id].stage \in {"prepare", "handed_out"},
             account_seq'[request[id].user] # account_seq[request[id].user]
      PROVE  request[id].seq <= account_seq'[request[id].user]
  <2> DEFINE a == request[id].user
  <2>1. /\ a \in Accounts /\ account_seq \in [Accounts -> Nat]
        /\ request[id].seq <= account_seq[a] + 1
    BY <1>1, FlowAssumption DEF FInv, FlowTypeOK, Requests, RequestsOK, SequenceOK
  <2>2. account_seq' # account_seq
    BY <1>1
  <2> HIDE DEF a
  <2>3. ASSUME NEW x \in RequestIds, Submit(x)
        PROVE  account_seq'[a] \in {account_seq[a], account_seq[a] + 1}
    <3>1. account_seq' = [account_seq EXCEPT ![request[x].user] = account_seq[request[x].user] + 1]
      BY <2>3 DEF Submit, valid
    <3> QED BY <2>1, <3>1
  <2>4. ASSUME Outside
        PROVE  account_seq'[a] \in {account_seq[a], account_seq[a] + 1}
    <3>1. \/ account_seq' = account_seq
          \/ account_seq' = [account_seq EXCEPT ![AppOracle] = account_seq[AppOracle] + 1]
      BY <2>4 DEF Outside
    <3> QED BY <2>1, <3>1
  <2>5. (\E x \in RequestIds : Submit(x)) \/ Outside
    <3>1. ASSUME NEW x \in RequestIds,
                 \/ PostTrade(x) \/ PostQuote(x) \/ PostResolve(x) \/ PostPayout(x)
                 \/ Handle(x) \/ RpcFails(x)
          PROVE  account_seq' = account_seq
      BY <3>1 DEF PostTrade, PostQuote, PostResolve, PostPayout, Handle, GetQuote,
                  BuildInvokeTx, SimulateAndPrepare, RpcFails
    <3>2. ~ UNCHANGED flow_vars
      BY <2>2 DEF flow_vars
    <3> QED BY <1>1, <2>2, <3>1, <3>2 DEF FlowNext
  <2>6. account_seq'[a] = account_seq[a] + 1
    BY <1>1, <2>3, <2>4, <2>5 DEF a
  <2> QED BY <2>1, <2>6 DEF a
<1>2. FInv /\ [FlowNext]_flow_vars
        => [\A id \in RequestIds : LET r == request[id] IN
              /\ r.stage \in {"prepare", "handed_out"}
              /\ account_seq'[r.user] # account_seq[r.user]
              => r.seq <= account_seq'[r.user]]_flow_vars
  BY <1>1
<1>3. QED
  BY <1>2, FlowInductive, PTL DEF FlowSpec, SubmissionVoidsOthers
-----------------------------------------------------------------------------
\* A handed-out transaction that runs is a call of the contract.
LEMMA RunIsCall ==
    ASSUME NEW r \in Requests, run(r)
    PROVE  ContractCall
<1> DEFINE o == OutcomeToU32(r.outcome)
<1>1. /\ r.user \in Accounts /\ o \in OutcomeArgs /\ r.amount \in Int /\ r.limit \in Int
  BY FlowAssumption DEF Requests, OutcomeToU32, OutcomeArgs, Outcomes
<1>2. CASE r.kind = "buy" /\ buy(r.user, o, r.amount, r.limit)
  BY <1>1, <1>2 DEF ContractCall
<1>3. CASE r.kind = "sell" /\ sell(r.user, o, r.amount, r.limit)
  BY <1>1, <1>3 DEF ContractCall
<1>4. CASE r.kind = "resolve" /\ resolve(r.user, o)
  BY <1>1, <1>4 DEF ContractCall
<1>5. CASE claim(r.user) \/ withdraw_remaining(r.user)
  BY <1>1, <1>5 DEF ContractCall
<1>6. QED
  BY <1>2, <1>3, <1>4, <1>5 DEF run

\* So is one from outside.
LEMMA OutsideIsCall == Outside => ContractCall
<1> SUFFICES ASSUME Outside PROVE ContractCall
  OBVIOUS
<1>1. /\ Outsiders \subseteq Accounts /\ AppOracle \in Accounts /\ Outcomes \subseteq OutcomeArgs
      /\ Amounts \subseteq Int /\ Limits \subseteq Int
  BY FlowAssumption, ArgsAssumption DEF OutcomeArgs
<1>2. ASSUME NEW u \in Outsiders, NEW o \in Outcomes, NEW n \in Amounts, NEW m \in Limits,
             buy(u, o, n, m) \/ sell(u, o, n, m)
      PROVE  ContractCall
  <2>1. u \in Accounts /\ o \in OutcomeArgs /\ n \in Int /\ m \in Int
    BY <1>1
  <2> QED BY <1>2, <2>1 DEF ContractCall
<1>3. ASSUME NEW u \in Outsiders, claim(u) PROVE ContractCall
  BY <1>1, <1>3 DEF ContractCall
<1>4. ASSUME NEW o \in Outcomes, resolve(AppOracle, o) PROVE ContractCall
  BY <1>1, <1>4 DEF ContractCall
<1>5. QED
  BY <1>2, <1>3, <1>4 DEF Outside

\* Everything else the application does leaves the contract alone.
LEMMA FlowStepOnContract ==
    FInv /\ [FlowNext]_flow_vars => ContractCall \/ UNCHANGED vars
<1> SUFFICES ASSUME FInv, [FlowNext]_flow_vars PROVE ContractCall \/ UNCHANGED vars
  OBVIOUS
<1>1. ASSUME NEW id \in RequestIds,
             \/ PostTrade(id) \/ PostQuote(id) \/ PostResolve(id) \/ PostPayout(id)
             \/ Handle(id) \/ RpcFails(id)
      PROVE  UNCHANGED vars
  BY <1>1 DEF PostTrade, PostQuote, PostResolve, PostPayout, Handle, GetQuote,
              BuildInvokeTx, SimulateAndPrepare, RpcFails
<1>2. ASSUME NEW id \in RequestIds, Submit(id) PROVE ContractCall \/ UNCHANGED vars
  <2>1. request[id] \in Requests
    BY DEF FInv, FlowTypeOK
  <2>2. run(request[id]) \/ UNCHANGED vars
    BY <1>2 DEF Submit
  <2> QED BY <2>1, <2>2, RunIsCall
<1>3. CASE UNCHANGED flow_vars
  BY <1>3 DEF flow_vars
<1>4. QED
  BY <1>1, <1>2, <1>3, OutsideIsCall DEF FlowNext

LEMMA FlowHoldings == FlowSpec => []HoldingsInv
<1>1. FlowInit => HoldingsInv
  BY DeployedHoldings, FlowAssumption DEF FlowInit
<1>2. FInv /\ FInv' /\ HoldingsInv /\ [FlowNext]_flow_vars => HoldingsInv'
  BY FlowStepOnContract, SoundStep DEF FInv
<1>3. QED
  BY <1>1, <1>2, FlowInductive, PTL DEF FlowSpec

(***************************************************************************)
(* The contract is as safe behind the application as it is alone. Whatever *)
(* the handlers build and however late the wallets submit it: the pool is  *)
(* backed and prices the position, no token is lost, every claim before    *)
(* the withdrawal is covered, and what is missing after it is less than a  *)
(* unit per account.                                                       *)
(***************************************************************************)
THEOREM MarketSafeInFlow == FlowSpec => []MarketSound
<1>1. FInv /\ HoldingsInv => MarketSound
  BY StateSound DEF FInv
<1>2. QED
  BY <1>1, FlowInductive, FlowHoldings, PTL

(***************************************************************************)
(* A transaction that is submitted after the market was resolved moves     *)
(* collateral to winners and to the oracle only: no stale trade is         *)
(* executed and no second resolution changes the outcome.                  *)
(***************************************************************************)
THEOREM ResolutionFinalInFlow == FlowSpec => ResolutionFinal
<1>1. FInv /\ FInv' /\ HoldingsInv /\ [FlowNext]_flow_vars => [Final]_vars
  BY FlowStepOnContract, SoundStep DEF FInv
<1>2. FlowSpec => [][Final]_vars
  BY <1>1, FlowInductive, FlowHoldings, PTL DEF FlowSpec
<1> QED BY <1>2 DEF ResolutionFinal, Final

(***************************************************************************)
(* What the users of the application see of the ledger is AbstractMarket:  *)
(* each step of the application, its users and the others is at most one   *)
(* step of the abstract market.                                            *)
(***************************************************************************)
THEOREM FlowStepsAreAbstract == FlowSpec => [][Abstract!Next]_(Abstract!avars)
<1>1. FInv /\ FInv' /\ HoldingsInv /\ [FlowNext]_flow_vars
        => [Abstract!Next]_(Abstract!avars)
  BY FlowStepOnContract, SoundStep DEF FInv
<1>2. QED
  BY <1>1, FlowInductive, FlowHoldings, PTL DEF FlowSpec
=============================================================================
