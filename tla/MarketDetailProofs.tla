------------------------ MODULE MarketDetailProofs -------------------------
(***************************************************************************)
(* Safety of the page of a market, for every number of trades and ledgers, *)
(* every window, limit and cache life, and every pricing function that     *)
(* satisfies CostAssumption.                                               *)
(***************************************************************************)
EXTENDS MarketDetail, LmsrMarketProofs

Events == [kind : {"buy", "sell", "resolve", "claim", "withdraw"}, user : Accounts,
           outcome : Outcomes \cup {NoOutcome}, amount : Int, collateral : Int, ledger : Nat]

Waiting == {"yes", "no"}

Pages == [pc : Waiting \cup {"none", "lookup", "latest_ledger", "get_events", "shown"},
          kind : {"detail", "outcome"}, balance : [Outcomes -> Int],
          from : Nat, to : Nat, since : Nat, latest : Nat,
          charted : BOOLEAN, events : SUBSET Nat, at : Nat]

(***************************************************************************)
(* The inductive invariant. The log explains the contract: what was sold,  *)
(* never less than 0 at any time, and what Viewer holds. A claim is final, *)
(* which needs that none precedes the resolution.                          *)
(***************************************************************************)
LogTypeOK ==
    /\ ledger \in Nat
    /\ log \in Seq(Events)
    /\ \A i \in 1 .. Len(log) :
          /\ log[i].ledger <= ledger
          /\ is_trade(log[i]) => log[i].outcome \in Outcomes
          /\ log[i].kind = "claim" => resolved

LogExplains ==
    /\ \A k \in 0 .. Len(log), o \in Outcomes : sold_at(k)[o] >= 0
    /\ \A o \in Outcomes : /\ sold[o] = sold_at(Len(log))[o]
                           /\ user_balance[Viewer][o] = position_at(Len(log))[o]

(***************************************************************************)
(* A balance on its way to the page, in a channel or received, is one that *)
(* Viewer had since GetBalance started, or stands for no answer at all.    *)
(***************************************************************************)
HeldSince(balance, o, to) ==
    balance # NoResults => \E k \in page.from .. to : balance = position_at(k)[o]

BalancesOK ==
    /\ channel \in [Outcomes -> Int]
    /\ reader \in [Outcomes -> {"reading", "done"}]
    /\ page.pc \in Waiting => page.from <= Len(log) /\ page.balance[OUTCOME_NO] = Nothing
    /\ page.pc = "no" => /\ HeldSince(page.balance[OUTCOME_YES], OUTCOME_YES, Len(log))
                         /\ channel[OUTCOME_YES] = Nothing /\ reader[OUTCOME_YES] = "done"
    /\ \A o \in Outcomes : channel[o] # Nothing =>
          /\ page.pc \in Waiting /\ reader[o] = "done"
          /\ channel[o] # Failed => HeldSince(channel[o], o, Len(log))
    /\ page.balance[OUTCOME_NO] # Nothing =>
          /\ page.to <= Len(log)
          /\ \A o \in Outcomes : HeldSince(page.balance[o], o, page.to)

\* Positions of trades.
trades == {i \in 1 .. Len(log) : is_trade(log[i])}

all_parse == \A i \in 1 .. Len(log) : parses(log[i])

(***************************************************************************)
(* An uncut entry of the cache has every trade of the LOOKBACK ledgers     *)
(* before the one in which it was stored.                                  *)
(***************************************************************************)
EventsOK ==
    /\ cache \in [events : SUBSET Nat, stored : Int]
    /\ cache.events \subseteq trades /\ cache.stored <= ledger
    /\ cache # Empty /\ Cardinality(cache.events) < LIMIT /\ all_parse =>
          \A i \in trades : log[i].ledger \in cache.stored - LOOKBACK .. cache.stored - 1
                               => i \in cache.events
    /\ page.events \subseteq trades
    /\ page.latest <= ledger
    /\ page.pc # "shown" => page.charted = FALSE
    /\ TradesReachChart

DInv ==
    /\ IInv
    /\ LogTypeOK
    /\ LogExplains
    /\ page \in Pages
    /\ BalancesOK
    /\ EventsOK
-----------------------------------------------------------------------------
(***************************************************************************)
(* The log and the sums over it.                                           *)
(***************************************************************************)
LEMMA EventFacts ==
    ASSUME NEW e \in Events
    PROVE  /\ e.amount \in Int /\ e.collateral \in Int /\ e.ledger \in Nat
           /\ e.user \in Accounts /\ e.outcome \in Outcomes \cup {NoOutcome}
           /\ moved(e) \in Int
           /\ ~is_trade(e) => moved(e) = 0
           /\ is_trade(e) => moved(e) = chart_delta(e)
<1>1. /\ e.amount \in Int /\ e.collateral \in Int /\ e.ledger \in Nat
      /\ e.user \in Accounts /\ e.outcome \in Outcomes \cup {NoOutcome}
  BY DEF Events
<1>2. CASE e.kind = "buy"
  BY <1>1, <1>2 DEF moved, is_trade, chart_delta
<1>3. CASE e.kind = "sell"
  BY <1>1, <1>3 DEF moved, is_trade, chart_delta
<1>4. CASE e.kind \notin {"buy", "sell"}
  BY <1>1, <1>4 DEF moved, is_trade
<1>5. QED
  BY <1>1, <1>2, <1>3, <1>4

\* The sums are integers.
LEMMA SumsAreIntegers ==
    ASSUME log \in Seq(Events), NEW k \in 0 .. Len(log), NEW o \in Outcomes
    PROVE  sold_at(k)[o] \in Int /\ traded_at(k)[o] \in Int /\ position_at(k)[o] \in Int
<1> DEFINE f == [i \in 1 .. k |-> IF log[i].outcome = o THEN moved(log[i]) ELSE 0]
           g == [i \in 1 .. k |-> IF log[i].outcome = o /\ log[i].user = Viewer
                                  THEN moved(log[i]) ELSE 0]
<1>1. Len(log) \in Nat /\ k \in Nat /\ IsFiniteSet(1 .. k)
  BY FS_Interval
<1>2. \A i \in 1 .. k : log[i] \in Events
  BY <1>1
<1>3. \A i \in 1 .. k : f[i] \in Int /\ g[i] \in Int
  BY <1>2, EventFacts
<1>4. sold_at(k)[o] = SumFunctionOnSet(f, 1 .. k)
      /\ traded_at(k)[o] = SumFunctionOnSet(g, 1 .. k)
  BY DEF sold_at, traded_at
<1> HIDE DEF f, g
<1>5. sold_at(k)[o] \in Int /\ traded_at(k)[o] \in Int
  BY <1>1, <1>3, <1>4, SumType
<1>6. QED
  BY <1>5 DEF position_at

\* One event more: the sums up to earlier events stay, the last one follows.
LEMMA LogGrows ==
    ASSUME log \in Seq(Events), NEW n \in Nat, n = Len(log), NEW e \in Events,
           log' = Append(log, e)
    PROVE  /\ log' \in Seq(Events) /\ Len(log') = n + 1
           /\ log'[n + 1] = e
           /\ \A i \in 1 .. n : log'[i] = log[i]
           /\ \A k \in 0 .. n : /\ sold_at(k)' = sold_at(k)
                                /\ traded_at(k)' = traded_at(k)
                                /\ claimed_at(k)' = claimed_at(k)
           /\ \A o \in Outcomes :
                 /\ sold_at(n + 1)'[o]
                      = sold_at(n)[o] + IF e.outcome = o THEN moved(e) ELSE 0
                 /\ traded_at(n + 1)'[o]
                      = traded_at(n)[o]
                          + IF e.outcome = o /\ e.user = Viewer THEN moved(e) ELSE 0
           /\ claimed_at(n + 1)'
                 <=> claimed_at(n) \/ (e.kind = "claim" /\ e.user = Viewer)
<1>1. /\ log' \in Seq(Events) /\ Len(log') = n + 1
      /\ log'[n + 1] = e
      /\ \A i \in 1 .. n : log'[i] = log[i]
      /\ \A i \in 1 .. n : log[i] \in Events
  OBVIOUS
<1>2. ASSUME NEW k \in 0 .. n
      PROVE  /\ sold_at(k)' = sold_at(k)
             /\ traded_at(k)' = traded_at(k)
             /\ claimed_at(k)' = claimed_at(k)
  <2>1. \A i \in 1 .. k : log'[i] = log[i]
    BY <1>1
  <2>2. \A o \in Outcomes :
           [i \in 1 .. k |-> IF log'[i].outcome = o THEN moved(log'[i]) ELSE 0]
             = [i \in 1 .. k |-> IF log[i].outcome = o THEN moved(log[i]) ELSE 0]
    BY <2>1
  <2>3. \A o \in Outcomes :
           [i \in 1 .. k |-> IF log'[i].outcome = o /\ log'[i].user = Viewer
                             THEN moved(log'[i]) ELSE 0]
             = [i \in 1 .. k |-> IF log[i].outcome = o /\ log[i].user = Viewer
                                 THEN moved(log[i]) ELSE 0]
    BY <2>1
  <2>4. sold_at(k)' = sold_at(k)
    BY <2>2 DEF sold_at, moved
  <2>5. traded_at(k)' = traded_at(k)
    BY <2>3 DEF traded_at, moved
  <2>6. claimed_at(k)' = claimed_at(k)
    BY <2>1 DEF claimed_at
  <2>7. QED
    BY <2>4, <2>5, <2>6
<1>3. ASSUME NEW o \in Outcomes
      PROVE  /\ sold_at(n + 1)'[o]
                  = sold_at(n)[o] + IF e.outcome = o THEN moved(e) ELSE 0
             /\ traded_at(n + 1)'[o]
                  = traded_at(n)[o]
                      + IF e.outcome = o /\ e.user = Viewer THEN moved(e) ELSE 0
  <2> DEFINE f == [i \in 1 .. n |-> IF log[i].outcome = o THEN moved(log[i]) ELSE 0]
             ff == [i \in 1 .. (n + 1) |->
                       IF log'[i].outcome = o THEN moved(log'[i]) ELSE 0]
             g == [i \in 1 .. n |-> IF log[i].outcome = o /\ log[i].user = Viewer
                                    THEN moved(log[i]) ELSE 0]
             gg == [i \in 1 .. (n + 1) |->
                       IF log'[i].outcome = o /\ log'[i].user = Viewer
                       THEN moved(log'[i]) ELSE 0]
  <2>1. /\ sold_at(n)[o] = SumFunctionOnSet(f, 1 .. n)
        /\ traded_at(n)[o] = SumFunctionOnSet(g, 1 .. n)
    BY DEF sold_at, traded_at
  <2>2. sold_at(n + 1)'[o] = SumFunctionOnSet(ff, 1 .. (n + 1))
    BY DEF sold_at, moved
  <2>3. traded_at(n + 1)'[o] = SumFunctionOnSet(gg, 1 .. (n + 1))
    BY DEF traded_at, moved
  <2>4. n + 1 \in 1 .. (n + 1) /\ 1 .. n \subseteq 1 .. (n + 1)
    BY <1>1
  <2>5. \A i \in 1 .. n : /\ f[i] \in Int /\ ff[i] = f[i]
                          /\ g[i] \in Int /\ gg[i] = g[i]
    BY <1>1, <2>4, EventFacts
  <2>6. /\ ff[n + 1] = IF e.outcome = o THEN moved(e) ELSE 0
        /\ gg[n + 1] = IF e.outcome = o /\ e.user = Viewer THEN moved(e) ELSE 0
        /\ ff[n + 1] \in Int /\ gg[n + 1] \in Int
    BY <1>1, <2>4, EventFacts
  <2> HIDE DEF f, ff, g, gg
  <2>7. /\ SumFunctionOnSet(ff, 1 .. (n + 1)) = SumFunctionOnSet(f, 1 .. n) + ff[n + 1]
        /\ SumFunctionOnSet(gg, 1 .. (n + 1)) = SumFunctionOnSet(g, 1 .. n) + gg[n + 1]
    <3>1. /\ \A i \in 1 .. n : f[i] \in Int /\ ff[i] = f[i]
          /\ \A i \in 1 .. n : g[i] \in Int /\ gg[i] = g[i]
      BY <2>5
    <3>2. SumFunctionOnSet(ff, 1 .. (n + 1)) = SumFunctionOnSet(f, 1 .. n) + ff[n + 1]
      BY <2>6, <3>1, SumNext
    <3>3. SumFunctionOnSet(gg, 1 .. (n + 1)) = SumFunctionOnSet(g, 1 .. n) + gg[n + 1]
      BY <2>6, <3>1, SumNext
    <3>4. QED
      BY <3>2, <3>3
  <2>8. QED
    BY <2>1, <2>2, <2>3, <2>6, <2>7
<1>4. claimed_at(n + 1)' <=> claimed_at(n) \/ (e.kind = "claim" /\ e.user = Viewer)
  <2>1. \A i \in 1 .. (n + 1) : i \in 1 .. n \/ i = n + 1
    BY <1>1
  <2>2. n + 1 \in 1 .. (n + 1) /\ 1 .. n \subseteq 1 .. (n + 1)
    BY <1>1
  <2>3. QED
    BY <1>1, <2>1, <2>2 DEF claimed_at
<1>5. QED
  BY <1>1, <1>2, <1>3, <1>4
-----------------------------------------------------------------------------
(***************************************************************************)
(* A call of the contract. What was known of Viewer's earlier balances     *)
(* stays, and the event says how the balances changed.                     *)
(***************************************************************************)
LEMMA PositionsKept ==
    ASSUME DInv, NEW n \in Nat, n = Len(log), NEW e \in Events, log' = Append(log, e),
           resolved => winning_outcome' = winning_outcome
    PROVE  \A k \in 0 .. n : position_at(k)' = position_at(k)
<1> SUFFICES ASSUME NEW k \in 0 .. n PROVE position_at(k)' = position_at(k)
  OBVIOUS
<1>1. claimed_at(k) => resolved
  BY DEF claimed_at, DInv, LogTypeOK
<1>2. traded_at(k)' = traded_at(k) /\ claimed_at(k)' = claimed_at(k)
  BY LogGrows DEF DInv, LogTypeOK
<1>3. CASE claimed_at(k)
  <2>1. winning_outcome' = winning_outcome /\ claimed_at(k)'
    BY <1>1, <1>2, <1>3
  <2>2. QED
    BY <1>2, <1>3, <2>1 DEF position_at
<1>4. CASE ~claimed_at(k)
  BY <1>2, <1>4 DEF position_at
<1>5. QED
  BY <1>3, <1>4

LEMMA PositionAfterEvent ==
    ASSUME DInv, NEW n \in Nat, n = Len(log), NEW e \in Events, log' = Append(log, e),
           resolved => winning_outcome' = winning_outcome,
           is_trade(e) => ~resolved,
           e.kind = "claim" => resolved,
           NEW o \in Outcomes
    PROVE  position_at(n + 1)'[o] =
             IF e.kind = "claim" /\ e.user = Viewer /\ o = winning_outcome THEN 0
             ELSE position_at(n)[o]
                    + IF e.outcome = o /\ e.user = Viewer THEN moved(e) ELSE 0
<1> DEFINE d == IF e.outcome = o /\ e.user = Viewer THEN moved(e) ELSE 0
           claims == e.kind = "claim" /\ e.user = Viewer
<1>1. /\ traded_at(n + 1)'[o] = traded_at(n)[o] + d
      /\ claimed_at(n + 1)' <=> claimed_at(n) \/ claims
  BY LogGrows DEF DInv, LogTypeOK
<1>2. position_at(n + 1)'[o] =
        IF claimed_at(n + 1)' /\ o = winning_outcome' THEN 0 ELSE traded_at(n + 1)'[o]
  BY DEF position_at
<1>3. position_at(n)[o] = IF claimed_at(n) /\ o = winning_outcome THEN 0 ELSE traded_at(n)[o]
  BY DEF position_at
<1>4. claimed_at(n) \/ claims => resolved
  BY DEF claimed_at, DInv, LogTypeOK
<1>5. traded_at(n)[o] \in Int /\ d \in Int /\ (resolved => d = 0)
  <2>1. n \in 0 .. Len(log)
    OBVIOUS
  <2>2. traded_at(n)[o] \in Int
    BY <2>1, SumsAreIntegers DEF DInv, LogTypeOK
  <2>3. QED
    BY <2>2, EventFacts
<1>6. CASE claimed_at(n) \/ claims
  <2>1. winning_outcome' = winning_outcome /\ d = 0 /\ claimed_at(n + 1)'
    BY <1>1, <1>4, <1>5, <1>6
  <2>2. QED
    BY <1>1, <1>2, <1>3, <1>5, <2>1
<1>7. CASE ~(claimed_at(n) \/ claims)
  BY <1>1, <1>2, <1>3, <1>7
<1>8. QED
  BY <1>6, <1>7

LEMMA LogStep ==
    ASSUME DInv, IInv', NEW n \in Nat, n = Len(log), NEW e \in Events,
           log' = Append(log, e), e.ledger = ledger,
           is_trade(e) => e.outcome \in Outcomes /\ ~resolved,
           e.kind = "claim" => resolved,
           resolved => resolved' /\ winning_outcome' = winning_outcome,
           \A o \in Outcomes : sold'[o] = sold[o] + IF e.outcome = o THEN moved(e) ELSE 0,
           \A o \in Outcomes : user_balance'[Viewer][o] =
               IF e.kind = "claim" /\ e.user = Viewer /\ o = winning_outcome THEN 0
               ELSE user_balance[Viewer][o]
                      + IF e.outcome = o /\ e.user = Viewer THEN moved(e) ELSE 0,
           page.pc # "shown", UNCHANGED <<ledger, cache, reader, channel, page>>
    PROVE  DInv'
<1>1. log \in Seq(Events)
  BY DEF DInv, LogTypeOK
<1>2. /\ log' \in Seq(Events) /\ Len(log') = n + 1
      /\ log'[n + 1] = e
      /\ \A i \in 1 .. n : log'[i] = log[i]
      /\ \A k \in 0 .. n : sold_at(k)' = sold_at(k)
      /\ \A o \in Outcomes : sold_at(n + 1)'[o]
                               = sold_at(n)[o] + IF e.outcome = o THEN moved(e) ELSE 0
  BY <1>1, LogGrows
<1>3. /\ \A i \in 1 .. Len(log') : i \in 1 .. n \/ i = n + 1
      /\ \A k \in 0 .. Len(log') : k \in 0 .. n \/ k = n + 1
  BY <1>2
<1>4. \A k \in 0 .. n : position_at(k)' = position_at(k)
  BY PositionsKept
<1>5. LogTypeOK'
  <2>1. ledger \in Nat
    BY DEF DInv, LogTypeOK
  <2>2. ASSUME NEW i \in 1 .. Len(log')
        PROVE  /\ log'[i].ledger <= ledger
               /\ is_trade(log'[i]) => log'[i].outcome \in Outcomes
               /\ log'[i].kind = "claim" => resolved'
    <3>1. CASE i \in 1 .. n
      BY <1>2, <3>1 DEF DInv, LogTypeOK
    <3>2. CASE i = n + 1
      BY <1>2, <2>1, <3>2
    <3>3. QED
      BY <1>3, <3>1, <3>2
  <2>3. QED
    BY <1>2, <2>1, <2>2 DEF LogTypeOK, is_trade
<1>6. ASSUME NEW o \in Outcomes
      PROVE  sold'[o] = sold_at(n + 1)'[o] /\ user_balance'[Viewer][o] = position_at(n + 1)'[o]
  <2>1. sold[o] = sold_at(n)[o] /\ user_balance[Viewer][o] = position_at(n)[o]
    BY DEF DInv, LogExplains
  <2>2. sold'[o] = sold_at(n + 1)'[o]
    BY <1>2, <2>1
  <2>3. QED
    BY <2>1, <2>2, PositionAfterEvent
<1>7. LogExplains'
  <2>1. ASSUME NEW k \in 0 .. Len(log'), NEW o \in Outcomes PROVE sold_at(k)'[o] >= 0
    <3>1. CASE k \in 0 .. n
      BY <1>2, <3>1 DEF DInv, LogExplains
    <3>2. CASE k = n + 1
      BY <1>6, <3>2 DEF IInv, TypeOK
    <3>3. QED
      BY <1>3, <3>1, <3>2
  <2>2. QED
    BY <1>2, <1>6, <2>1 DEF LogExplains
<1>8. BalancesOK'
  <2>1. ASSUME NEW b, NEW o \in Outcomes, NEW t \in 0 .. n, HeldSince(b, o, t)
        PROVE  b # NoResults =>
                 /\ \E k \in page.from .. t : b = position_at(k)'[o]
                 /\ \E k \in page.from .. (n + 1) : b = position_at(k)'[o]
    <3> HAVE b # NoResults
    <3>1. PICK k \in page.from .. t : b = position_at(k)[o]
      BY <2>1 DEF HeldSince
    <3>2. page.from \in Nat
      BY DEF DInv, Pages
    <3>3. k \in 0 .. n /\ k \in page.from .. (n + 1)
      BY <3>2
    <3>4. QED
      BY <1>4, <3>1, <3>3
  <2>2. /\ OUTCOME_YES \in Outcomes /\ OUTCOME_NO \in Outcomes /\ n \in 0 .. n
        /\ page.from \in Nat /\ page.to \in Nat
    BY DEF Outcomes, DInv, Pages
  <2>3. /\ channel \in [Outcomes -> Int]
        /\ reader \in [Outcomes -> {"reading", "done"}]
        /\ page.pc \in Waiting => page.from <= n + 1 /\ page.balance[OUTCOME_NO] = Nothing
    BY <2>2 DEF DInv, BalancesOK
  <2>4. page.pc = "no" =>
           /\ page.balance[OUTCOME_YES] # NoResults =>
                 \E k \in page.from .. (n + 1) :
                    page.balance[OUTCOME_YES] = position_at(k)'[OUTCOME_YES]
           /\ channel[OUTCOME_YES] = Nothing /\ reader[OUTCOME_YES] = "done"
    BY <2>1, <2>2 DEF DInv, BalancesOK
  <2>5. ASSUME NEW o \in Outcomes, channel[o] # Nothing
        PROVE  /\ page.pc \in Waiting /\ reader[o] = "done"
               /\ channel[o] \notin {Failed, NoResults} =>
                     \E k \in page.from .. (n + 1) : channel[o] = position_at(k)'[o]
    BY <2>1, <2>2, <2>5 DEF DInv, BalancesOK
  <2>6. page.balance[OUTCOME_NO] # Nothing =>
           /\ page.to <= n + 1
           /\ \A o \in Outcomes : page.balance[o] # NoResults =>
                 \E k \in page.from .. page.to : page.balance[o] = position_at(k)'[o]
    <3>1. page.balance[OUTCOME_NO] # Nothing => page.to \in 0 .. n
      BY <2>2 DEF DInv, BalancesOK
    <3>2. page.balance[OUTCOME_NO] # Nothing =>
             \A o \in Outcomes : HeldSince(page.balance[o], o, page.to)
      BY DEF DInv, BalancesOK
    <3>3. ASSUME page.balance[OUTCOME_NO] # Nothing, NEW o \in Outcomes,
                 page.balance[o] # NoResults
          PROVE  \E k \in page.from .. page.to : page.balance[o] = position_at(k)'[o]
      BY <2>1, <3>1, <3>2, <3>3
    <3>4. QED
      BY <2>2, <3>1, <3>3
  <2>7. QED
    BY <1>2, <2>3, <2>4, <2>5, <2>6 DEF BalancesOK, HeldSince
<1>9. EventsOK'
  <2>1. trades \subseteq trades' /\ trades' \subseteq trades \cup {n + 1}
    BY <1>2, <1>3 DEF trades, is_trade
  <2>2. all_parse' => all_parse
    BY <1>2 DEF all_parse, parses, FitsInt64
  <2>3. TradesReachChart'
    BY DEF TradesReachChart
  <2>4. /\ cache.stored \in Int /\ cache.stored <= ledger /\ ledger \in Nat
        /\ LOOKBACK \in Nat
    BY DetailAssumption DEF DInv, EventsOK, LogTypeOK
  <2>5. e.ledger \notin cache.stored - LOOKBACK .. cache.stored - 1
    BY <2>4
  <2>6. \A i \in trades : i \in 1 .. n
    BY DEF trades
  <2>7. QED
    BY <1>2, <2>1, <2>2, <2>3, <2>5, <2>6 DEF DInv, EventsOK
<1>10. QED
  BY <1>5, <1>7, <1>8, <1>9 DEF DInv

\* The event that a call publishes.
LEMMA Published ==
    ASSUME DInv, IInv', NEW kind \in {"buy", "sell", "resolve", "claim", "withdraw"},
           NEW u \in Accounts, NEW o \in Outcomes \cup {NoOutcome}, NEW a \in Int,
           NEW c \in Int, Publish(kind, u, o, a, c)
    PROVE  \E e \in Events :
              /\ log' = Append(log, e) /\ e.ledger = ledger
              /\ e.kind = kind /\ e.user = u /\ e.outcome = o /\ e.amount = a
<1> DEFINE e == [kind |-> kind, user |-> u, outcome |-> o, amount |-> a,
                 collateral |-> c, ledger |-> ledger]
<1>1. e \in Events
  BY DEF Events, DInv, LogTypeOK
<1>2. QED
  BY <1>1 DEF Publish

LEMMA TradeDInv ==
    ASSUME DInv, NEW u \in Traders, NEW o \in Outcomes, NEW a \in Amounts, NEW m \in Limits,
           \/ buy(u, o, a, m) /\ Publish("buy", u, o, a, escrow' - escrow)
           \/ sell(u, o, a, m) /\ Publish("sell", u, o, a, escrow - escrow'),
           page.pc # "shown", UNCHANGED <<ledger, cache, reader, channel, page>>
    PROVE  DInv'
<1>1. u \in Accounts /\ Viewer \in Accounts /\ a \in Int
  BY DetailAssumption, ArgsAssumption
<1>2. /\ user_balance \in [Accounts -> [Outcomes -> Nat]]
      /\ sold \in [Outcomes -> 0 .. MaxSold] /\ MaxSold \in Nat
      /\ escrow \in Int /\ Len(log) \in Nat
  BY ArgsAssumption DEF DInv, IInv, TypeOK, LogTypeOK
<1>3. CASE buy(u, o, a, m) /\ Publish("buy", u, o, a, escrow' - escrow)
  <2>1. IInv'
    BY <1>1, <1>3, BuyIInv DEF DInv
  <2>2. escrow' - escrow \in Int
    BY <1>2, <2>1 DEF IInv, TypeOK
  <2>3. PICK e \in Events :
           /\ log' = Append(log, e) /\ e.ledger = ledger
           /\ e.kind = "buy" /\ e.user = u /\ e.outcome = o /\ e.amount = a
    BY <1>1, <1>3, <2>1, <2>2, Published
  <2>4. moved(e) = a
    BY <2>3 DEF moved
  <2>5. /\ ~resolved
        /\ sold' = [sold EXCEPT ![o] = @ + a]
        /\ user_balance' = [user_balance EXCEPT ![u][o] = @ + a]
    BY <1>3 DEF buy, buy_error, trade_error, sold_after
  <2>6. ASSUME NEW x \in Outcomes
        PROVE  /\ sold'[x] = sold[x] + IF e.outcome = x THEN moved(e) ELSE 0
               /\ user_balance'[Viewer][x] =
                    IF e.kind = "claim" /\ e.user = Viewer /\ x = winning_outcome THEN 0
                    ELSE user_balance[Viewer][x]
                           + IF e.outcome = x /\ e.user = Viewer THEN moved(e) ELSE 0
    BY <1>1, <1>2, <2>3, <2>4, <2>5
  <2>7. QED
    BY <1>2, <2>1, <2>3, <2>4, <2>5, <2>6, LogStep
<1>4. CASE sell(u, o, a, m) /\ Publish("sell", u, o, a, escrow - escrow')
  <2>1. IInv'
    BY <1>1, <1>4, SellIInv DEF DInv
  <2>2. escrow - escrow' \in Int
    BY <1>2, <2>1 DEF IInv, TypeOK
  <2>3. PICK e \in Events :
           /\ log' = Append(log, e) /\ e.ledger = ledger
           /\ e.kind = "sell" /\ e.user = u /\ e.outcome = o /\ e.amount = a
    BY <1>1, <1>4, <2>1, <2>2, Published
  <2>4. moved(e) = -a
    BY <2>3 DEF moved
  <2>5. /\ ~resolved
        /\ sold' = [sold EXCEPT ![o] = @ + (-a)]
        /\ user_balance' = [user_balance EXCEPT ![u][o] = @ - a]
    BY <1>4 DEF sell, sell_error, trade_error, sold_after
  <2>6. ASSUME NEW x \in Outcomes
        PROVE  /\ sold'[x] = sold[x] + IF e.outcome = x THEN moved(e) ELSE 0
               /\ user_balance'[Viewer][x] =
                    IF e.kind = "claim" /\ e.user = Viewer /\ x = winning_outcome THEN 0
                    ELSE user_balance[Viewer][x]
                           + IF e.outcome = x /\ e.user = Viewer THEN moved(e) ELSE 0
    BY <1>1, <1>2, <2>3, <2>4, <2>5
  <2>7. QED
    BY <1>2, <2>1, <2>3, <2>4, <2>5, <2>6, LogStep
<1>5. QED
  BY <1>3, <1>4

LEMMA SettleDInv ==
    ASSUME DInv, page.pc # "shown", UNCHANGED <<ledger, cache, reader, channel, page>>,
           \/ \E o \in Outcomes :
                resolve(AppOracle, o) /\ Publish("resolve", AppOracle, o, 0, 0)
           \/ \E u \in Traders :
                claim(u) /\ Publish("claim", u, NoOutcome, 0, escrow - escrow')
           \/ withdraw_remaining(AppOracle)
                /\ Publish("withdraw", AppOracle, NoOutcome, 0, escrow - escrow')
    PROVE  DInv'
<1>1. AppOracle \in Accounts /\ Viewer \in Accounts /\ Traders \subseteq Accounts
  BY DetailAssumption
<1>2. /\ user_balance \in [Accounts -> [Outcomes -> Nat]]
      /\ sold \in [Outcomes -> 0 .. MaxSold] /\ MaxSold \in Nat
      /\ escrow \in Int /\ Len(log) \in Nat
      /\ resolved => winning_outcome \in Outcomes
  BY ArgsAssumption DEF DInv, IInv, TypeOK, LogTypeOK, Configured
<1>3. NoOutcome \notin Outcomes
  BY DEF NoOutcome, Outcomes, OUTCOME_YES, OUTCOME_NO
<1>4. ASSUME NEW o \in Outcomes, resolve(AppOracle, o),
             Publish("resolve", AppOracle, o, 0, 0)
      PROVE  DInv'
  <2>1. IInv'
    BY <1>1, <1>4, ResolveIInv DEF DInv
  <2>2. PICK e \in Events :
           /\ log' = Append(log, e) /\ e.ledger = ledger
           /\ e.kind = "resolve" /\ e.user = AppOracle /\ e.outcome = o /\ e.amount = 0
    BY <1>1, <1>4, <2>1, Published
  <2>3. moved(e) = 0 /\ ~is_trade(e)
    BY <2>2 DEF moved, is_trade
  <2>4. ~resolved /\ sold' = sold /\ user_balance' = user_balance
    BY <1>4 DEF resolve, resolve_error
  <2>5. ASSUME NEW x \in Outcomes
        PROVE  /\ sold'[x] = sold[x] + IF e.outcome = x THEN moved(e) ELSE 0
               /\ user_balance'[Viewer][x] =
                    IF e.kind = "claim" /\ e.user = Viewer /\ x = winning_outcome THEN 0
                    ELSE user_balance[Viewer][x]
                           + IF e.outcome = x /\ e.user = Viewer THEN moved(e) ELSE 0
    BY <1>1, <1>2, <2>2, <2>3, <2>4
  <2>6. QED
    BY <1>2, <2>1, <2>2, <2>3, <2>4, <2>5, LogStep
<1>5. ASSUME NEW u \in Traders, claim(u), Publish("claim", u, NoOutcome, 0, escrow - escrow')
      PROVE  DInv'
  <2>1. IInv'
    BY <1>1, <1>5, ClaimIInv DEF DInv
  <2>2. escrow - escrow' \in Int
    BY <1>2, <2>1 DEF IInv, TypeOK
  <2>3. PICK e \in Events :
           /\ log' = Append(log, e) /\ e.ledger = ledger
           /\ e.kind = "claim" /\ e.user = u /\ e.outcome = NoOutcome /\ e.amount = 0
    BY <1>1, <1>5, <2>1, <2>2, Published
  <2>4. moved(e) = 0 /\ ~is_trade(e)
    BY <2>3 DEF moved, is_trade
  <2>5. /\ resolved /\ resolved' = resolved
        /\ sold' = sold /\ winning_outcome' = winning_outcome
        /\ user_balance' = [user_balance EXCEPT ![u][winning_outcome] = 0]
    BY <1>5 DEF claim, claim_error
  <2>6. ASSUME NEW o \in Outcomes
        PROVE  /\ sold'[o] = sold[o] + IF e.outcome = o THEN moved(e) ELSE 0
               /\ user_balance'[Viewer][o] =
                    IF e.kind = "claim" /\ e.user = Viewer /\ o = winning_outcome THEN 0
                    ELSE user_balance[Viewer][o]
                           + IF e.outcome = o /\ e.user = Viewer THEN moved(e) ELSE 0
    BY <1>1, <1>2, <1>3, <2>3, <2>4, <2>5
  <2>7. QED
    BY <1>2, <2>1, <2>3, <2>4, <2>5, <2>6, LogStep
<1>6. ASSUME withdraw_remaining(AppOracle),
             Publish("withdraw", AppOracle, NoOutcome, 0, escrow - escrow')
      PROVE  DInv'
  <2>1. IInv'
    BY <1>1, <1>6, WithdrawIInv DEF DInv
  <2>2. escrow - escrow' \in Int
    BY <1>2, <2>1 DEF IInv, TypeOK
  <2>3. PICK e \in Events :
           /\ log' = Append(log, e) /\ e.ledger = ledger
           /\ e.kind = "withdraw" /\ e.user = AppOracle /\ e.outcome = NoOutcome
           /\ e.amount = 0
    BY <1>1, <1>6, <2>1, <2>2, Published
  <2>4. moved(e) = 0 /\ ~is_trade(e)
    BY <2>3 DEF moved, is_trade
  <2>5. /\ resolved' = resolved /\ winning_outcome' = winning_outcome
        /\ sold' = sold /\ user_balance' = user_balance
    BY <1>6 DEF withdraw_remaining
  <2>6. ASSUME NEW x \in Outcomes
        PROVE  /\ sold'[x] = sold[x] + IF e.outcome = x THEN moved(e) ELSE 0
               /\ user_balance'[Viewer][x] =
                    IF e.kind = "claim" /\ e.user = Viewer /\ x = winning_outcome THEN 0
                    ELSE user_balance[Viewer][x]
                           + IF e.outcome = x /\ e.user = Viewer THEN moved(e) ELSE 0
    BY <1>1, <1>2, <2>3, <2>4, <2>5
  <2>7. QED
    BY <1>2, <2>1, <2>3, <2>4, <2>5, <2>6, LogStep
<1>7. QED
  BY <1>4, <1>5, <1>6

LEMMA CallDInv ==
    ASSUME DInv, Call
    PROVE  DInv'
BY TradeDInv, SettleDInv DEF Call
-----------------------------------------------------------------------------
(***************************************************************************)
(* Steps of the page and its goroutines: the contract and its log stay.    *)
(***************************************************************************)
LEMMA ChainKept ==
    ASSUME UNCHANGED chain
    PROVE  /\ UNCHANGED <<log, resolved>>
           /\ trades' = trades /\ all_parse' = all_parse
           /\ \A k : position_at(k)' = position_at(k)
           /\ IInv => IInv'
           /\ LogExplains => LogExplains'
<1>1. UNCHANGED vars /\ log' = log
  BY DEF chain
<1>2. UNCHANGED <<resolved, winning_outcome, sold, user_balance>>
  BY <1>1 DEF vars
<1>3. \A k : /\ claimed_at(k)' = claimed_at(k) /\ traded_at(k)' = traded_at(k)
             /\ sold_at(k)' = sold_at(k)
  BY <1>1 DEF claimed_at, traded_at, sold_at, moved
<1>4. \A k : position_at(k)' = position_at(k)
  BY <1>2, <1>3 DEF position_at
<1>5. trades' = trades /\ all_parse' = all_parse
  BY <1>1 DEF trades, is_trade, all_parse, parses, FitsInt64
<1>6. IInv => IInv'
  BY <1>1, NextIInv
<1>7. LogExplains => LogExplains'
  BY <1>1, <1>2, <1>3, <1>4 DEF LogExplains
<1>8. QED
  BY <1>1, <1>2, <1>4, <1>5, <1>6, <1>7

LEMMA PageDInv ==
    ASSUME DInv, UNCHANGED <<chain, ledger>>, page' \in Pages, BalancesOK', EventsOK'
    PROVE  DInv'
<1>1. LogTypeOK'
  BY ChainKept DEF DInv, LogTypeOK, is_trade
<1>2. QED
  BY <1>1, ChainKept DEF DInv

\* The page before it has a chart, or one that has none.
LEMMA UnchartedEvents ==
    ASSUME DInv, UNCHANGED <<chain, ledger, cache>>, page'.charted = FALSE,
           page'.events \subseteq trades, page'.latest <= ledger
    PROVE  EventsOK'
<1>1. log' = log /\ trades' = trades /\ all_parse' = all_parse
  BY ChainKept
<1>2. TradesReachChart'
  BY DEF TradesReachChart
<1>3. QED
  BY <1>1, <1>2 DEF DInv, EventsOK, Empty

LEMMA RenderedFacts ==
    ASSUME NEW p \in Pages, ledger \in Nat
    PROVE  /\ Rendered(p) \in Pages
           /\ Rendered(p).pc = "shown" /\ Rendered(p).at = ledger /\ Rendered(p).latest = 0
           /\ Rendered(p).balance = p.balance /\ Rendered(p).from = p.from
           /\ Rendered(p).to = p.to
           /\ Rendered(p).charted = p.charted /\ Rendered(p).events = p.events
BY DEF Rendered, Pages, NoPage

LEMMA AfterBalanceFacts ==
    ASSUME NEW p \in Pages, ledger \in Nat
    PROVE  /\ after_balance(p) \in Pages
           /\ after_balance(p).pc \in {"lookup", "shown"}
           /\ after_balance(p).latest \in {p.latest, 0}
           /\ after_balance(p).balance = p.balance /\ after_balance(p).from = p.from
           /\ after_balance(p).to = p.to
           /\ after_balance(p).charted = p.charted /\ after_balance(p).events = p.events
<1>1. CASE p.kind = "detail"
  <2> DEFINE q == [p EXCEPT !.pc = "lookup"]
  <2>1. /\ q \in Pages /\ q.pc = "lookup" /\ q.latest = p.latest
        /\ q.balance = p.balance /\ q.from = p.from /\ q.to = p.to
        /\ q.charted = p.charted /\ q.events = p.events
    BY DEF Pages
  <2>2. after_balance(p) = q
    BY <1>1 DEF after_balance
  <2> HIDE DEF q
  <2>3. QED
    BY <2>1, <2>2
<1>2. CASE p.kind # "detail"
  BY <1>2, RenderedFacts DEF after_balance
<1>3. QED
  BY <1>1, <1>2

LEMMA NoPageFacts ==
    /\ NoPage \in Pages /\ NoPage.pc = "none"
    /\ NoPage.balance = [o \in Outcomes |-> Nothing]
    /\ NoPage.charted = FALSE /\ NoPage.events = {} /\ NoPage.latest = 0
    /\ \A kind \in {"detail", "outcome"} :
          /\ [NoPage EXCEPT !.kind = kind] \in Pages
          /\ [NoPage EXCEPT !.kind = kind].balance = [o \in Outcomes |-> Nothing]
          /\ [NoPage EXCEPT !.kind = kind].charted = FALSE
          /\ [NoPage EXCEPT !.kind = kind].events = {}
          /\ [NoPage EXCEPT !.kind = kind].latest = 0
<1> DEFINE none == [o \in Outcomes |-> Nothing]
<1>1. none \in [Outcomes -> Int] /\ {} \in SUBSET Nat /\ FALSE \in BOOLEAN /\ 0 \in Nat
  BY DEF Nothing
<1>2. NoPage = [pc |-> "none", kind |-> "outcome", balance |-> none, from |-> 0, to |-> 0,
                since |-> 0, latest |-> 0, charted |-> FALSE, events |-> {}, at |-> 0]
  BY DEF NoPage
<1> HIDE DEF none
<1>3. NoPage \in Pages
  BY <1>1, <1>2 DEF Pages
<1>4. ASSUME NEW kind \in {"detail", "outcome"}
      PROVE  [NoPage EXCEPT !.kind = kind] \in Pages
  BY <1>3 DEF Pages
<1>5. QED
  BY <1>2, <1>3, <1>4 DEF none

\* A page without balances: the channels are empty.
LEMMA NoBalances ==
    ASSUME DInv, UNCHANGED chain, page'.pc \notin Waiting,
           page'.balance = [o \in Outcomes |-> Nothing],
           channel' = [o \in Outcomes |-> Nothing], reader' = reader
    PROVE  BalancesOK'
<1>1. OUTCOME_NO \in Outcomes
  BY DEF Outcomes
<1>2. channel' \in [Outcomes -> Int] /\ \A o \in Outcomes : channel'[o] = Nothing
  BY DEF Nothing
<1>3. page'.pc # "no" /\ page'.balance[OUTCOME_NO] = Nothing
  BY <1>1 DEF Waiting
<1>4. QED
  BY <1>2, <1>3 DEF BalancesOK, DInv

\* Outside GetBalance the channels are empty.
LEMMA IdleChannels ==
    ASSUME DInv, page.pc \notin Waiting
    PROVE  channel = [o \in Outcomes |-> Nothing]
BY DEF DInv, BalancesOK

\* A page that only goes on keeps its balances.
LEMMA BalancesKept ==
    ASSUME DInv, UNCHANGED <<chain, reader, channel>>,
           page.pc \notin Waiting, page'.pc \notin Waiting,
           page'.balance = page.balance, page'.from = page.from, page'.to = page.to
    PROVE  BalancesOK'
<1>1. log' = log /\ \A k : position_at(k)' = position_at(k)
  BY ChainKept
<1>2. /\ page'.pc # "no" /\ \A o \in Outcomes : channel[o] = Nothing
      /\ channel \in [Outcomes -> Int] /\ reader \in [Outcomes -> {"reading", "done"}]
  BY DEF DInv, BalancesOK, Waiting
<1>3. page.balance[OUTCOME_NO] # Nothing =>
         /\ page.to <= Len(log)
         /\ \A o \in Outcomes : page.balance[o] # NoResults =>
               \E k \in page.from .. page.to : page.balance[o] = position_at(k)[o]
  BY DEF DInv, BalancesOK, HeldSince
<1>4. QED
  BY <1>1, <1>2, <1>3 DEF BalancesOK, HeldSince
-----------------------------------------------------------------------------
(***************************************************************************)
(* GetBalance.                                                             *)
(***************************************************************************)
LEMMA StartPageDInv ==
    ASSUME DInv, NEW kind \in {"detail", "outcome"}, NEW known \in BOOLEAN,
           StartPage(kind, known)
    PROVE  DInv'
<1>1. /\ page.pc = "none" /\ page.pc \notin Waiting
      /\ UNCHANGED <<chain, ledger, cache, channel>>
      /\ log' = log /\ ledger \in Nat /\ Len(log) \in Nat
  BY DEF StartPage, Quiet, Waiting, chain, DInv, LogTypeOK
<1>2. channel = [o \in Outcomes |-> Nothing]
  BY <1>1, IdleChannels
<1>3. CASE known
  <2> DEFINE p == [NoPage EXCEPT !.pc = "yes", !.kind = kind, !.from = Len(log)]
  <2>1. page' = p /\ reader' = [o \in Outcomes |-> "reading"]
    BY <1>3 DEF StartPage, Step
  <2>2. /\ p \in Pages /\ p.pc = "yes" /\ p.from = Len(log) /\ p.balance = NoPage.balance
        /\ p.charted = NoPage.charted /\ p.events = NoPage.events
        /\ p.latest = NoPage.latest
    BY <1>1, NoPageFacts DEF Pages, Waiting
  <2> HIDE DEF p
  <2>3. EventsOK'
    <3>1. page'.charted = FALSE /\ page'.events \subseteq trades /\ page'.latest <= ledger
      BY <1>1, <2>1, <2>2, NoPageFacts
    <3>2. QED
      BY <1>1, <3>1, UnchartedEvents
  <2>4. BalancesOK'
    <3>1. /\ reader' \in [Outcomes -> {"reading", "done"}]
          /\ channel' \in [Outcomes -> Int] /\ \A o \in Outcomes : channel'[o] = Nothing
          /\ page'.balance[OUTCOME_NO] = Nothing
      BY <1>1, <1>2, <2>1, <2>2, NoPageFacts DEF Nothing, Outcomes
    <3>2. page'.pc # "no" /\ page'.from <= Len(log')
      BY <1>1, <2>1, <2>2
    <3>3. QED
      BY <3>1, <3>2 DEF BalancesOK
  <2>5. QED
    BY <1>1, <2>1, <2>2, <2>3, <2>4, PageDInv
<1>4. CASE ~known
  <2> DEFINE q == [NoPage EXCEPT !.kind = kind]
             p == after_balance(q)
  <2>1. page' = p /\ reader' = reader
    BY <1>4 DEF StartPage, Step
  <2>2. /\ q \in Pages /\ q.balance = [o \in Outcomes |-> Nothing]
        /\ q.charted = FALSE /\ q.events = {} /\ q.latest = 0
    BY NoPageFacts
  <2> HIDE DEF q
  <2>3. /\ p \in Pages /\ p.pc \notin Waiting /\ p.latest = 0
        /\ p.balance = [o \in Outcomes |-> Nothing]
        /\ p.charted = FALSE /\ p.events = {}
    BY <1>1, <2>2, AfterBalanceFacts DEF Waiting
  <2> HIDE DEF p
  <2>4. EventsOK'
    <3>1. page'.charted = FALSE /\ page'.events \subseteq trades /\ page'.latest <= ledger
      BY <1>1, <2>1, <2>3
    <3>2. QED
      BY <1>1, <3>1, UnchartedEvents
  <2>5. BalancesOK'
    BY <1>1, <1>2, <2>1, <2>3, NoBalances
  <2>6. QED
    BY <1>1, <2>1, <2>3, <2>4, <2>5, PageDInv
<1>5. QED
  BY <1>3, <1>4

\* The page itself does not move.
LEMMA SamePageEvents ==
    ASSUME DInv, UNCHANGED <<chain, ledger, cache, page>>
    PROVE  EventsOK'
<1>1. log' = log /\ trades' = trades /\ all_parse' = all_parse
  BY ChainKept
<1>2. TradesReachChart'
  BY <1>1 DEF DInv, EventsOK, TradesReachChart, is_trade, parses, FitsInt64
<1>3. QED
  BY <1>1, <1>2 DEF DInv, EventsOK, Empty

\* A goroutine sends the balance of the moment.
LEMMA GetOutcomeBalanceDInv ==
    ASSUME DInv, NEW o \in Outcomes, getOutcomeBalance(o)
    PROVE  DInv'
<1>1. /\ UNCHANGED <<chain, ledger, cache, page>>
      /\ reader[o] = "reading" /\ reader' = [reader EXCEPT ![o] = "done"]
      /\ channel[o] = Nothing
  BY DEF getOutcomeBalance, can_send
<1>2. log' = log /\ \A k : position_at(k)' = position_at(k)
  BY <1>1, ChainKept
<1>3. EventsOK'
  BY <1>1, SamePageEvents
<1>4. PICK result \in balance_results(o) :
         channel' = IF page.pc \in {"yes", "no"} THEN [channel EXCEPT ![o] = result]
                                                 ELSE channel
  BY DEF getOutcomeBalance
<1>5. /\ channel \in [Outcomes -> Int] /\ reader \in [Outcomes -> {"reading", "done"}]
      /\ reader' \in [Outcomes -> {"reading", "done"}] /\ reader'[o] = "done"
      /\ \A c \in Outcomes : reader[c] = "done" => reader'[c] = "done"
  BY <1>1 DEF DInv, BalancesOK
<1>6. /\ result \in Int
      /\ result \notin {Failed, NoResults} => result = user_balance[Viewer][o]
  <2>1. user_balance[Viewer][o] \in Int
    BY DetailAssumption DEF DInv, IInv, TypeOK
  <2>2. QED
    BY <2>1 DEF balance_results, Failed, NoResults
<1>7. /\ channel' \in [Outcomes -> Int]
      /\ \A c \in Outcomes : c # o => channel'[c] = channel[c]
      /\ page.pc \notin Waiting => channel' = channel
      /\ page.pc \in Waiting => channel'[o] = result
  BY <1>4, <1>5, <1>6 DEF Waiting
<1>8. page.pc = "no" => o # OUTCOME_YES /\ OUTCOME_YES \in Outcomes
  BY <1>1 DEF DInv, BalancesOK, Outcomes
<1>9. page.pc \in Waiting /\ result # Failed => HeldSince(result, o, Len(log))
  <2>1. user_balance[Viewer][o] = position_at(Len(log))[o]
    BY DEF DInv, LogExplains
  <2>2. page.pc \in Waiting => Len(log) \in page.from .. Len(log)
    BY DEF DInv, BalancesOK, Pages, LogTypeOK
  <2>3. QED
    BY <1>6, <2>1, <2>2 DEF HeldSince
<1>10. BalancesOK'
  <2>1. ASSUME NEW c \in Outcomes, channel'[c] # Nothing
        PROVE  /\ page.pc \in Waiting /\ reader'[c] = "done"
               /\ channel'[c] # Failed => HeldSince(channel'[c], c, Len(log))
    <3>1. CASE c = o
      BY <1>1, <1>5, <1>7, <1>9, <2>1, <3>1
    <3>2. CASE c # o
      BY <1>5, <1>7, <2>1, <3>2 DEF DInv, BalancesOK
    <3>3. QED
      BY <3>1, <3>2
  <2>2. page.pc = "no" => channel'[OUTCOME_YES] = Nothing /\ reader'[OUTCOME_YES] = "done"
    BY <1>5, <1>7, <1>8 DEF DInv, BalancesOK
  <2>3. QED
    BY <1>1, <1>2, <1>5, <1>7, <2>1, <2>2 DEF DInv, BalancesOK, HeldSince
<1>11. QED
  BY <1>1, <1>3, <1>10, PageDInv DEF DInv

\* The page takes an answer, the YES one first.
LEMMA ReceiveDInv ==
    ASSUME DInv, NEW o \in Outcomes, Receive(o)
    PROVE  DInv'
<1> DEFINE p == [page EXCEPT !.balance[o] = channel[o], !.to = Len(log)]
<1>1. /\ UNCHANGED <<chain, ledger, cache, reader>>
      /\ channel[o] # Nothing
      /\ channel' = [c \in Outcomes |->
                       IF c = o \/ channel[o] = Failed THEN Nothing ELSE channel[c]]
      /\ page.pc = IF o = OUTCOME_YES THEN "yes" ELSE "no"
  BY DEF Receive, waits_for
<1>2. /\ log' = log /\ \A k : position_at(k)' = position_at(k)
      /\ ledger \in Nat /\ Len(log) \in Nat
  BY <1>1, ChainKept DEF DInv, LogTypeOK
<1>3. /\ Outcomes = {OUTCOME_YES, OUTCOME_NO} /\ OUTCOME_YES # OUTCOME_NO
      /\ Nothing \in Int /\ Failed \in Int /\ Nothing # Failed
  BY DEF Outcomes, OUTCOME_YES, OUTCOME_NO, Nothing, Failed
<1>4. /\ page \in Pages /\ page.balance \in [Outcomes -> Int] /\ page.from \in Nat
      /\ channel \in [Outcomes -> Int] /\ reader \in [Outcomes -> {"reading", "done"}]
      /\ page.pc \in Waiting /\ page.from <= Len(log)
      /\ page.charted = FALSE /\ page.events \subseteq trades /\ page.latest <= ledger
  BY <1>1 DEF DInv, BalancesOK, EventsOK, Pages, Waiting
<1>5. channel' \in [Outcomes -> Int]
  BY <1>1, <1>3, <1>4
<1>6. CASE channel[o] = Failed
  <2> DEFINE q == [NoPage EXCEPT !.kind = page.kind]
             r == after_balance(q)
  <2>1. page' = r
    BY <1>6 DEF Receive, Step
  <2>2. /\ q \in Pages /\ q.balance = [c \in Outcomes |-> Nothing]
        /\ q.charted = FALSE /\ q.events = {} /\ q.latest = 0
    BY <1>4, NoPageFacts DEF Pages
  <2> HIDE DEF q
  <2>3. /\ r \in Pages /\ r.pc \notin Waiting /\ r.latest = 0
        /\ r.balance = [c \in Outcomes |-> Nothing]
        /\ r.charted = FALSE /\ r.events = {}
    BY <1>2, <2>2, AfterBalanceFacts DEF Waiting
  <2> HIDE DEF r
  <2>4. EventsOK'
    <3>1. page'.charted = FALSE /\ page'.events \subseteq trades /\ page'.latest <= ledger
      BY <1>2, <2>1, <2>3
    <3>2. QED
      BY <1>1, <3>1, UnchartedEvents
  <2>5. channel' = [c \in Outcomes |-> Nothing]
    BY <1>1, <1>6
  <2>6. BalancesOK'
    BY <1>1, <2>1, <2>3, <2>5, NoBalances
  <2>7. QED
    BY <1>1, <2>1, <2>3, <2>4, <2>6, PageDInv
<1>7. CASE channel[o] # Failed
  <2>1. /\ p \in Pages /\ p.pc = page.pc /\ p.from = page.from /\ p.to = Len(log)
        /\ p.balance = [page.balance EXCEPT ![o] = channel[o]]
        /\ p.charted = page.charted /\ p.events = page.events /\ p.latest = page.latest
    <3>1. [page.balance EXCEPT ![o] = channel[o]] \in [Outcomes -> Int]
      BY <1>4
    <3>2. QED
      BY <1>2, <1>4, <3>1 DEF Pages
  <2>2. /\ p.balance[o] = channel[o]
        /\ \A c \in Outcomes : c # o => p.balance[c] = page.balance[c]
    BY <1>4, <2>1
  <2>3. channel[o] # NoResults => \E k \in page.from .. Len(log) : channel[o] = position_at(k)[o]
    BY <1>1, <1>7 DEF DInv, BalancesOK, HeldSince
  <2>4. \A c \in Outcomes : channel'[c] = IF c = o THEN Nothing ELSE channel[c]
    BY <1>1, <1>7
  <2>5. CASE o = OUTCOME_YES
    <3> DEFINE r == [p EXCEPT !.pc = "no"]
    <3>1. page' = r
      BY <1>3, <1>7, <2>5 DEF Receive, Step
    <3> HIDE DEF p
    <3>2. /\ r \in Pages /\ r.pc = "no" /\ r.from = page.from /\ r.balance = p.balance
          /\ r.charted = page.charted /\ r.events = page.events /\ r.latest = page.latest
      BY <2>1 DEF Pages, Waiting
    <3> HIDE DEF r
    <3>3. EventsOK'
      BY <1>1, <1>4, <3>1, <3>2, UnchartedEvents
    <3>4. p.balance[OUTCOME_NO] = Nothing
      BY <1>3, <1>4, <2>2, <2>5 DEF DInv, BalancesOK
    <3>5. reader[OUTCOME_YES] = "done"
      BY <1>1, <2>5 DEF DInv, BalancesOK
    <3>6. ASSUME NEW c \in Outcomes, channel'[c] # Nothing
          PROVE  /\ reader[c] = "done"
                 /\ channel'[c] \notin {Failed, NoResults} =>
                       \E k \in page.from .. Len(log) : channel'[c] = position_at(k)[c]
      BY <2>4, <3>6 DEF DInv, BalancesOK, HeldSince
    <3>7. /\ page'.pc = "no" /\ page'.pc \in Waiting /\ page'.from = page.from
          /\ page'.balance[OUTCOME_NO] = Nothing
          /\ channel'[OUTCOME_YES] = Nothing
          /\ page'.balance[OUTCOME_YES] # NoResults =>
                \E k \in page.from .. Len(log) :
                   page'.balance[OUTCOME_YES] = position_at(k)[OUTCOME_YES]
      BY <2>2, <2>3, <2>4, <2>5, <3>1, <3>2, <3>4 DEF Waiting
    <3>8. BalancesOK'
      BY <1>1, <1>2, <1>4, <1>5, <3>5, <3>6, <3>7 DEF BalancesOK, HeldSince
    <3>9. QED
      BY <1>1, <3>1, <3>2, <3>3, <3>8, PageDInv
  <2>6. CASE o = OUTCOME_NO
    <3> DEFINE r == after_balance(p)
    <3>1. page' = r
      BY <1>3, <1>7, <2>6 DEF Receive, Step
    <3> HIDE DEF p
    <3>2. /\ r \in Pages /\ r.pc \notin Waiting /\ r.from = page.from /\ r.to = Len(log)
          /\ r.balance = p.balance /\ r.latest \in {page.latest, 0}
          /\ r.charted = FALSE /\ r.events = page.events
      BY <1>2, <1>4, <2>1, AfterBalanceFacts DEF Waiting
    <3> HIDE DEF r
    <3>3. EventsOK'
      <4>1. page'.charted = FALSE /\ page'.events \subseteq trades /\ page'.latest <= ledger
        BY <1>2, <1>4, <3>1, <3>2
      <4>2. QED
        BY <1>1, <4>1, UnchartedEvents
    <3>4. page.balance[OUTCOME_YES] # NoResults =>
             \E k \in page.from .. Len(log) :
                page.balance[OUTCOME_YES] = position_at(k)[OUTCOME_YES]
      BY <1>1, <1>3, <2>6 DEF DInv, BalancesOK, HeldSince
    <3>5. \A c \in Outcomes : channel'[c] = Nothing
      BY <1>1, <1>3, <2>4, <2>6 DEF DInv, BalancesOK
    <3>6. \A c \in Outcomes : p.balance[c] # NoResults =>
             \E k \in page.from .. Len(log) : p.balance[c] = position_at(k)[c]
      BY <1>3, <2>2, <2>3, <2>6, <3>4
    <3>7. BalancesOK'
      BY <1>1, <1>2, <1>4, <1>5, <3>1, <3>2, <3>5, <3>6 DEF BalancesOK, HeldSince, Waiting
    <3>8. QED
      BY <1>1, <3>1, <3>2, <3>3, <3>7, PageDInv
  <2>7. QED
    BY <1>3, <2>5, <2>6
<1>8. QED
  BY <1>6, <1>7
-----------------------------------------------------------------------------
(***************************************************************************)
(* The events. An answer shorter than the limit was not cut: the first     *)
(* event that is missing would have had fewer than LIMIT before it.        *)
(***************************************************************************)
LEMMA UncutAnswer ==
    ASSUME NEW n \in Nat, NEW matching \in SUBSET (1 .. n), NEW limit \in Nat, NEW taken,
           taken = {i \in matching : Cardinality({j \in matching : j < i}) < limit},
           Cardinality(taken) < limit
    PROVE  taken = matching
<1> DEFINE before(i) == {j \in matching : j < i}
           Good == {k \in Nat : \A i \in matching : i <= k => i \in taken}
<1>1. /\ \A i \in matching : i \in 1 .. n
      /\ taken \subseteq matching
  OBVIOUS
<1>2. IsFiniteSet(taken) /\ Cardinality(taken) \in Nat
  <2>1. IsFiniteSet(1 .. n)
    BY FS_Interval
  <2>2. taken \subseteq 1 .. n
    BY <1>1
  <2>3. QED
    BY <2>1, <2>2, FS_Subset, FS_CardinalityType
<1>3. 0 \in Good
  BY <1>1
<1>4. ASSUME NEW k \in Nat, k \in Good PROVE k + 1 \in Good
  <2>1. \A i \in matching : i <= k => i \in taken
    BY <1>4
  <2>2. \A i \in matching : i < k + 1 => i <= k
    BY <1>1
  <2>3. before(k + 1) \subseteq taken
    BY <2>1, <2>2
  <2>4. k + 1 \in matching => (k + 1 \in taken <=> Cardinality(before(k + 1)) < limit)
    OBVIOUS
  <2> HIDE DEF before
  <2>5. Cardinality(before(k + 1)) <= Cardinality(taken)
        /\ Cardinality(before(k + 1)) \in Nat
    BY <1>2, <2>3, FS_Subset, FS_CardinalityType
  <2>6. k + 1 \in matching => k + 1 \in taken
    BY <1>2, <2>4, <2>5
  <2>7. \A i \in matching : i <= k + 1 => i <= k \/ i = k + 1
    BY <1>1
  <2>8. \A i \in matching : i <= k + 1 => i \in taken
    BY <2>1, <2>6, <2>7
  <2>9. QED
    BY <2>8
<1> HIDE DEF Good
<1>5. \A k \in 0 .. n : k \in Good
  BY <1>3, <1>4, IntervalInduction
<1>6. n \in Good
  BY <1>5
<1>7. \A i \in matching : i <= n
  BY <1>1
<1>8. matching \subseteq taken
  BY <1>6, <1>7 DEF Good
<1>9. QED
  BY <1>1, <1>8

\* What the server answers with are trades, all of the window unless cut.
LEMMA AnswerFacts ==
    ASSUME DInv
    PROVE  /\ answer \subseteq trades
           /\ Cardinality(answer) < LIMIT =>
                 \A i \in trades : log[i].ledger >= ledger - LOOKBACK => i \in answer
<1> DEFINE matching == {i \in 1 .. Len(log) :
                           is_trade(log[i]) /\ log[i].ledger >= startLedger}
<1>1. answer = {i \in matching : Cardinality({j \in matching : j < i}) < LIMIT}
  BY DEF answer
<1>2. matching \in SUBSET (1 .. Len(log)) /\ Len(log) \in Nat /\ LIMIT \in Nat
  BY DetailAssumption DEF DInv, LogTypeOK
<1>3. \A i \in trades : log[i].ledger >= ledger - LOOKBACK => i \in matching
  <2>1. page.latest \in Nat /\ page.latest <= ledger /\ ledger \in Nat /\ LOOKBACK \in Nat
    BY DetailAssumption DEF DInv, LogTypeOK, EventsOK, Pages
  <2>2. \A i \in trades : i \in 1 .. Len(log) /\ is_trade(log[i]) /\ log[i].ledger \in Nat
    BY EventFacts DEF trades, DInv, LogTypeOK
  <2>3. startLedger = 0 \/ startLedger <= ledger - LOOKBACK
    BY <2>1 DEF startLedger
  <2>4. startLedger \in Int
    BY <2>1 DEF startLedger
  <2>5. QED
    BY <2>1, <2>2, <2>3, <2>4
<1>4. matching \subseteq trades
  BY DEF trades
<1> HIDE DEF matching
<1>5. Cardinality(answer) < LIMIT => answer = matching
  BY <1>1, <1>2, UncutAnswer
<1>6. QED
  BY <1>1, <1>3, <1>4, <1>5

\* A page rendered with a chart.
LEMMA ShowFacts ==
    ASSUME page \in Pages, ledger \in Nat, NEW evs \in SUBSET Nat
    PROVE  /\ show(evs) \in Pages
           /\ show(evs).pc = "shown" /\ show(evs).at = ledger /\ show(evs).latest = 0
           /\ show(evs).balance = page.balance /\ show(evs).from = page.from
           /\ show(evs).to = page.to /\ show(evs).events = evs
<1>1. /\ Rendered(page) \in Pages
      /\ Rendered(page).pc = "shown" /\ Rendered(page).at = ledger
      /\ Rendered(page).latest = 0
      /\ Rendered(page).balance = page.balance /\ Rendered(page).from = page.from
      /\ Rendered(page).to = page.to
  BY RenderedFacts
<1>2. TRUE \in BOOLEAN
  OBVIOUS
<1>3. QED
  BY <1>1, <1>2 DEF show, Pages

LEMMA ShowDInv ==
    ASSUME DInv, page.pc \notin Waiting, UNCHANGED <<chain, ledger, reader, channel>>,
           NEW evs \in SUBSET Nat, evs \subseteq trades, page' = show(evs),
           EventsOK'
    PROVE  DInv'
<1>1. page \in Pages /\ ledger \in Nat
  BY DEF DInv, LogTypeOK
<1>2. /\ page' \in Pages /\ page'.pc \notin Waiting
      /\ page'.balance = page.balance /\ page'.from = page.from /\ page'.to = page.to
  BY <1>1, ShowFacts DEF Waiting
<1>3. BalancesOK'
  BY <1>2, BalancesKept
<1>4. QED
  BY <1>2, <1>3, PageDInv

LEMMA LookupDInv ==
    ASSUME DInv, Lookup
    PROVE  DInv'
<1>1. /\ page.pc = "lookup" /\ page.pc \notin Waiting
      /\ UNCHANGED <<chain, ledger, cache, reader, channel>>
      /\ log' = log /\ trades' = trades /\ all_parse' = all_parse
      /\ page \in Pages /\ ledger \in Nat
      /\ page.charted = FALSE /\ page.events \subseteq trades /\ page.latest <= ledger
  BY ChainKept DEF Lookup, Waiting, DInv, EventsOK, LogTypeOK
<1>2. /\ cache \in [events : SUBSET Nat, stored : Int]
      /\ cache.events \in SUBSET Nat /\ cache.events \subseteq trades
      /\ cache.stored \in Int /\ cache.stored <= ledger
      /\ cache # Empty /\ Cardinality(cache.events) < LIMIT /\ all_parse =>
            \A i \in trades : log[i].ledger \in cache.stored - LOOKBACK .. cache.stored - 1
                                 => i \in cache.events
  BY DEF DInv, EventsOK
<1>3. CASE is_found
  <2>1. page' = show(cache.events)
    BY <1>3 DEF Lookup, Step
  <2>2. /\ page'.pc = "shown" /\ page'.at = ledger /\ page'.latest = 0
        /\ page'.events = cache.events
    BY <1>1, <1>2, <2>1, ShowFacts
  <2>3. cache # Empty /\ ledger < cache.stored + EVENT_TTL
    BY <1>3 DEF is_found
  <2>4. ASSUME Cardinality(cache.events) < LIMIT, all_parse, NEW i \in 1 .. Len(log),
               is_trade(log[i]), log[i].ledger \in ledger - LOOKBACK .. ledger - EVENT_TTL
        PROVE  i \in cache.events
    <3>1. i \in trades /\ log[i].ledger \in Int
      BY <2>4 DEF trades
    <3>2. LOOKBACK \in Nat /\ EVENT_TTL \in Nat
      BY DetailAssumption
    <3>3. log[i].ledger \in cache.stored - LOOKBACK .. cache.stored - 1
      BY <1>1, <1>2, <2>3, <2>4, <3>1, <3>2
    <3>4. QED
      BY <1>2, <2>3, <2>4, <3>1, <3>3
  <2>5. TradesReachChart'
    BY <1>1, <2>2, <2>4 DEF TradesReachChart, all_parse, parses, FitsInt64, is_trade
  <2>6. EventsOK'
    BY <1>1, <1>2, <2>2, <2>5 DEF EventsOK, Empty
  <2>7. QED
    BY <1>1, <1>2, <2>1, <2>6, ShowDInv
<1>4. CASE ~is_found
  <2> DEFINE p == [page EXCEPT !.pc = "latest_ledger", !.since = ledger]
  <2>1. page' = p
    BY <1>4 DEF Lookup, Step
  <2>2. /\ p \in Pages /\ p.pc = "latest_ledger" /\ p.latest = page.latest
        /\ p.balance = page.balance /\ p.from = page.from /\ p.to = page.to
        /\ p.charted = page.charted /\ p.events = page.events
    BY <1>1 DEF Pages
  <2> HIDE DEF p
  <2>3. EventsOK'
    BY <1>1, <2>1, <2>2, UnchartedEvents
  <2>4. BalancesOK'
    <3>1. page'.pc \notin Waiting
      BY <2>1, <2>2 DEF Waiting
    <3>2. QED
      BY <1>1, <2>1, <2>2, <3>1, BalancesKept
  <2>5. QED
    BY <1>1, <2>1, <2>2, <2>3, <2>4, PageDInv
<1>5. QED
  BY <1>3, <1>4

LEMMA GetLatestLedgerDInv ==
    ASSUME DInv, GetLatestLedger
    PROVE  DInv'
<1> DEFINE p == [page EXCEPT !.pc = "get_events", !.since = ledger, !.latest = ledger]
<1>1. /\ page.pc \notin Waiting /\ page.charted = FALSE
      /\ UNCHANGED <<chain, ledger, cache, reader, channel>> /\ page' = p
      /\ page \in Pages /\ ledger \in Nat /\ page.events \subseteq trades
  BY DEF GetLatestLedger, Waiting, DInv, EventsOK, LogTypeOK, Step
<1>2. /\ p \in Pages /\ p.pc = "get_events" /\ p.latest = ledger
      /\ p.balance = page.balance /\ p.from = page.from /\ p.to = page.to
      /\ p.charted = page.charted /\ p.events = page.events
  BY <1>1 DEF Pages
<1> HIDE DEF p
<1>3. EventsOK'
  <2>1. page'.charted = FALSE /\ page'.events \subseteq trades /\ page'.latest <= ledger
    BY <1>1, <1>2
  <2>2. QED
    BY <1>1, <2>1, UnchartedEvents
<1>4. BalancesOK'
  <2>1. page'.pc \notin Waiting
    BY <1>1, <1>2 DEF Waiting
  <2>2. QED
    BY <1>1, <1>2, <2>1, BalancesKept
<1>5. QED
  BY <1>1, <1>2, <1>3, <1>4, PageDInv

\* A page without a chart.
LEMMA RenderedDInv ==
    ASSUME DInv, page.pc \notin Waiting, page.charted = FALSE, page' = Rendered(page),
           UNCHANGED <<chain, ledger, cache, reader, channel>>
    PROVE  DInv'
<1>1. page \in Pages /\ ledger \in Nat /\ page.events \subseteq trades
  BY DEF DInv, EventsOK, LogTypeOK
<1>2. /\ page' \in Pages /\ page'.pc \notin Waiting /\ page'.latest <= ledger
      /\ page'.balance = page.balance /\ page'.from = page.from /\ page'.to = page.to
      /\ page'.charted = FALSE /\ page'.events = page.events
  BY <1>1, RenderedFacts DEF Waiting
<1>3. EventsOK'
  BY <1>1, <1>2, UnchartedEvents
<1>4. BalancesOK'
  BY <1>2, BalancesKept
<1>5. QED
  BY <1>2, <1>3, <1>4, PageDInv

LEMMA EventsFailDInv ==
    ASSUME DInv, EventsFail
    PROVE  DInv'
<1>1. /\ page.pc \notin Waiting /\ page.charted = FALSE /\ page' = Rendered(page)
      /\ UNCHANGED <<chain, ledger, cache, reader, channel>>
  BY DEF EventsFail, Waiting, DInv, EventsOK, Step
<1>2. QED
  BY <1>1, RenderedDInv

LEMMA GetEventsDInv ==
    ASSUME DInv, GetEvents
    PROVE  DInv'
<1> DEFINE parsed == {i \in answer : parses(log[i])}
<1>1. /\ page.pc \notin Waiting /\ page.charted = FALSE
      /\ UNCHANGED <<chain, ledger, reader, channel>>
      /\ log' = log /\ trades' = trades /\ all_parse' = all_parse
      /\ page \in Pages /\ ledger \in Nat /\ Len(log) \in Nat
  BY ChainKept DEF GetEvents, Waiting, DInv, EventsOK, LogTypeOK
<1>2. CASE parsed = {} /\ answer # {}
  <2>1. page' = Rendered(page) /\ cache' = cache
    BY <1>2 DEF GetEvents, Step
  <2>2. QED
    BY <1>1, <2>1, RenderedDInv
<1>3. CASE ~(parsed = {} /\ answer # {})
  <2>1. page' = show(parsed) /\ cache' = [events |-> parsed, stored |-> ledger]
    BY <1>3 DEF GetEvents, Step
  <2>2. parsed \subseteq trades /\ parsed \in SUBSET Nat
    BY <1>1, AnswerFacts DEF trades
  <2>3. all_parse => parsed = answer
    BY AnswerFacts DEF trades, all_parse
  <2>4. all_parse /\ Cardinality(parsed) < LIMIT =>
           \A i \in trades : log[i].ledger >= ledger - LOOKBACK => i \in parsed
    BY <2>3, AnswerFacts
  <2> HIDE DEF parsed
  <2>5. /\ page'.pc = "shown" /\ page'.at = ledger /\ page'.latest = 0
        /\ page'.events = parsed
    BY <1>1, <2>1, <2>2, ShowFacts
  <2>6. /\ cache' \in [events : SUBSET Nat, stored : Int]
        /\ cache'.events = parsed /\ cache'.stored = ledger
    BY <1>1, <2>1, <2>2
  <2>7. \A i \in trades : i \in 1 .. Len(log) /\ is_trade(log[i]) /\ log[i].ledger \in Nat
    BY EventFacts DEF trades, DInv, LogTypeOK
  <2>8. LOOKBACK \in Nat /\ EVENT_TTL \in Nat
    BY DetailAssumption
  <2>9. ASSUME Cardinality(parsed) < LIMIT, all_parse, NEW i \in 1 .. Len(log),
               is_trade(log[i]), log[i].ledger \in ledger - LOOKBACK .. ledger - EVENT_TTL
        PROVE  i \in parsed
    <3>1. i \in trades /\ log[i].ledger >= ledger - LOOKBACK
      BY <1>1, <2>8, <2>9 DEF trades
    <3>2. QED
      BY <2>4, <2>9, <3>1
  <2>10. TradesReachChart'
    BY <1>1, <2>5, <2>9 DEF TradesReachChart, all_parse, parses, FitsInt64, is_trade
  <2>11. ASSUME Cardinality(parsed) < LIMIT, all_parse, NEW i \in trades,
                log[i].ledger \in ledger - LOOKBACK .. ledger - 1
         PROVE  i \in parsed
    BY <1>1, <2>4, <2>7, <2>8, <2>11
  <2>12. EventsOK'
    BY <1>1, <2>2, <2>5, <2>6, <2>10, <2>11 DEF EventsOK
  <2>13. QED
    BY <1>1, <2>1, <2>2, <2>12, ShowDInv
<1>4. QED
  BY <1>2, <1>3

\* The page was sent.
LEMMA FinishDInv ==
    ASSUME DInv, Finish
    PROVE  DInv'
<1>1. /\ page.pc \notin Waiting /\ page' = NoPage
      /\ UNCHANGED <<chain, ledger, cache, reader, channel>> /\ ledger \in Nat
  BY DEF Finish, Waiting, Step, DInv, LogTypeOK
<1>2. /\ page' \in Pages /\ page'.pc \notin Waiting
      /\ page'.balance = [o \in Outcomes |-> Nothing]
      /\ page'.charted = FALSE /\ page'.events \subseteq trades /\ page'.latest <= ledger
  BY <1>1, NoPageFacts DEF Waiting
<1>3. channel' = [o \in Outcomes |-> Nothing] /\ reader' = reader
  BY <1>1, IdleChannels
<1>4. BalancesOK'
  BY <1>1, <1>2, <1>3, NoBalances
<1>5. EventsOK'
  BY <1>1, <1>2, UnchartedEvents
<1>6. QED
  BY <1>1, <1>2, <1>4, <1>5, PageDInv

\* Time passes.
LEMMA CloseLedgerDInv ==
    ASSUME DInv, CloseLedger
    PROVE  DInv'
<1>1. /\ page.pc # "shown" /\ ledger' = ledger + 1 /\ ledger \in Nat
      /\ UNCHANGED <<chain, cache, reader, channel, page>>
  BY DEF CloseLedger, DInv, LogTypeOK
<1>2. /\ log' = log /\ resolved' = resolved
      /\ trades' = trades /\ all_parse' = all_parse
      /\ \A k : position_at(k)' = position_at(k)
  BY <1>1, ChainKept
<1>3. IInv' /\ LogExplains'
  BY <1>1, ChainKept DEF DInv
<1>4. LogTypeOK'
  <2>1. \A i \in 1 .. Len(log) : log[i].ledger \in Nat
    BY EventFacts DEF DInv, LogTypeOK
  <2>2. \A i \in 1 .. Len(log) : log[i].ledger <= ledger + 1
    BY <1>1, <2>1 DEF DInv, LogTypeOK
  <2>3. ledger + 1 \in Nat
    BY <1>1
  <2>4. QED
    BY <1>1, <1>2, <2>2, <2>3 DEF DInv, LogTypeOK, is_trade
<1>5. BalancesOK'
  BY <1>1, <1>2 DEF DInv, BalancesOK, HeldSince
<1>6. EventsOK'
  <2>1. TradesReachChart'
    BY <1>1 DEF TradesReachChart
  <2>2. cache.stored <= ledger + 1 /\ page.latest <= ledger + 1
    BY <1>1 DEF DInv, EventsOK, Pages
  <2>3. QED
    BY <1>1, <1>2, <2>1, <2>2 DEF DInv, EventsOK, Empty
<1>7. QED
  BY <1>1, <1>3, <1>4, <1>5, <1>6 DEF DInv
-----------------------------------------------------------------------------
\* A market that was just deployed, with an empty log and no page.
LEMMA DetailInitDInv ==
    ASSUME DetailInit
    PROVE  DInv
<1>1. /\ ledger = 0 /\ log = << >> /\ cache = Empty /\ page = NoPage
      /\ reader = [o \in Outcomes |-> "done"] /\ channel = [o \in Outcomes |-> Nothing]
      /\ DeployedBy(AppOracle) /\ AppOracle \in Accounts /\ Viewer \in Accounts
  BY DetailAssumption DEF DetailInit
<1>2. IInv
  BY <1>1, DeployedIInv
<1>3. /\ log \in Seq(Events) /\ Len(log) = 0 /\ 1 .. Len(log) = {} /\ 0 .. Len(log) = {0}
  BY <1>1
<1>4. LogTypeOK
  BY <1>1, <1>3 DEF LogTypeOK
<1>5. ASSUME NEW o \in Outcomes PROVE sold_at(0)[o] = 0 /\ position_at(0)[o] = 0
  <2> DEFINE f == [i \in 1 .. 0 |-> IF log[i].outcome = o THEN moved(log[i]) ELSE 0]
             g == [i \in 1 .. 0 |-> IF log[i].outcome = o /\ log[i].user = Viewer
                                    THEN moved(log[i]) ELSE 0]
  <2>1. /\ sold_at(0)[o] = SumFunctionOnSet(f, 1 .. 0)
        /\ traded_at(0)[o] = SumFunctionOnSet(g, 1 .. 0)
    BY DEF sold_at, traded_at
  <2> HIDE DEF f, g
  <2>2. IsFiniteSet(1 .. 0) /\ 1 .. 0 = {}
    BY FS_Interval
  <2>3. SumFunctionOnSet(f, 1 .. 0) = 0 /\ SumFunctionOnSet(g, 1 .. 0) = 0
    BY <2>2, SumZero
  <2>4. QED
    BY <2>1, <2>3 DEF position_at
<1>6. /\ sold = [o \in Outcomes |-> 0]
      /\ user_balance = [u \in Accounts |-> [o \in Outcomes |-> 0]]
  BY <1>1 DEF DeployedBy
<1>7. LogExplains
  BY <1>1, <1>3, <1>5, <1>6 DEF LogExplains
<1>8. page \in Pages /\ page.pc = "none" /\ page.charted = FALSE /\ page.events = {}
      /\ page.latest = 0 /\ page.balance[OUTCOME_NO] = Nothing
  BY <1>1, NoPageFacts DEF Outcomes
<1>9. BalancesOK
  BY <1>1, <1>8 DEF BalancesOK, Waiting, Nothing
<1>10. EventsOK
  <2>1. cache.events = {} /\ cache.stored = -1
        /\ cache \in [events : SUBSET Nat, stored : Int]
    BY <1>1 DEF Empty
  <2>2. QED
    BY <1>1, <1>8, <2>1 DEF EventsOK, TradesReachChart
<1>11. QED
  BY <1>2, <1>4, <1>7, <1>8, <1>9, <1>10 DEF DInv

LEMMA DetailNextDInv ==
    ASSUME DInv, [DetailNext]_detail_vars
    PROVE  DInv'
<1>1. CASE UNCHANGED detail_vars
  <2>1. UNCHANGED <<chain, ledger, cache, reader, channel, page>>
    BY <1>1 DEF detail_vars
  <2>2. log' = log /\ \A k : position_at(k)' = position_at(k)
    BY <2>1, ChainKept
  <2>3. EventsOK'
    BY <2>1, SamePageEvents
  <2>4. BalancesOK'
    BY <2>1, <2>2 DEF DInv, BalancesOK, HeldSince
  <2>5. page' \in Pages
    BY <2>1 DEF DInv
  <2>6. QED
    BY <2>1, <2>3, <2>4, <2>5, PageDInv
<1>2. CASE Call
  BY <1>2, CallDInv
<1>3. CASE CloseLedger
  BY <1>3, CloseLedgerDInv
<1>4. CASE Serve
  BY <1>4, LookupDInv, GetLatestLedgerDInv, GetEventsDInv, EventsFailDInv, FinishDInv,
     ReceiveDInv DEF Serve
<1>5. CASE \E o \in Outcomes : getOutcomeBalance(o)
  BY <1>5, GetOutcomeBalanceDInv
<1>6. CASE \E kind \in {"detail", "outcome"}, known \in BOOLEAN : StartPage(kind, known)
  BY <1>6, StartPageDInv
<1>7. QED
  BY <1>1, <1>2, <1>3, <1>4, <1>5, <1>6 DEF DetailNext

\* DInv is inductive: every state of the pages satisfies it.
LEMMA DetailInductive == DetailSpec => []DInv
<1>1. DetailInit => DInv
  BY DetailInitDInv
<1>2. DInv /\ [DetailNext]_detail_vars => DInv'
  BY DetailNextDInv
<1>3. QED
  BY <1>1, <1>2, PTL DEF DetailSpec
-----------------------------------------------------------------------------
(***************************************************************************)
(* A trade of the last LOOKBACK ledgers is on every chart drawn EVENT_TTL  *)
(* after it or later, unless the server cut its answer or an event does    *)
(* not parse: GetTradeEvents asks for a window that starts no later than   *)
(* LOOKBACK before the moment its answer is shown, an entry of the cache   *)
(* holds every trade of the window that ended when it was stored, and it   *)
(* is served only while it is younger than EVENT_TTL.                      *)
(***************************************************************************)
THEOREM TradesAreCharted == DetailSpec => []TradesReachChart
<1>1. DInv => TradesReachChart
  BY DEF DInv, EventsOK
<1>2. QED
  BY <1>1, DetailInductive, PTL
-----------------------------------------------------------------------------
(***************************************************************************)
(* The balances on the page. From one event to the next the position of    *)
(* Viewer changes only by an event of its own, and in one outcome at most. *)
(***************************************************************************)
LEMMA PrefixSums ==
    ASSUME log \in Seq(Events), NEW k \in Nat, k < Len(log), NEW o \in Outcomes
    PROVE  /\ sold_at(k + 1)[o]
                = sold_at(k)[o] + IF log[k + 1].outcome = o THEN moved(log[k + 1]) ELSE 0
           /\ traded_at(k + 1)[o]
                = traded_at(k)[o] + IF log[k + 1].outcome = o /\ log[k + 1].user = Viewer
                                    THEN moved(log[k + 1]) ELSE 0
<1> DEFINE m == k + 1
           term(i) == IF log[i].outcome = o THEN moved(log[i]) ELSE 0
           own(i) == IF log[i].outcome = o /\ log[i].user = Viewer THEN moved(log[i]) ELSE 0
           f == [i \in 1 .. k |-> term(i)]
           ff == [i \in 1 .. m |-> term(i)]
           g == [i \in 1 .. k |-> own(i)]
           gg == [i \in 1 .. m |-> own(i)]
<1>1. /\ sold_at(k)[o] = SumFunctionOnSet(f, 1 .. k)
      /\ sold_at(m)[o] = SumFunctionOnSet(ff, 1 .. m)
      /\ traded_at(k)[o] = SumFunctionOnSet(g, 1 .. k)
      /\ traded_at(m)[o] = SumFunctionOnSet(gg, 1 .. m)
  BY DEF sold_at, traded_at
<1>2. /\ m \in 1 .. m /\ 1 .. k \subseteq 1 .. m
      /\ \A i \in 1 .. m : log[i] \in Events
  OBVIOUS
<1>3. \A i \in 1 .. m : term(i) \in Int /\ own(i) \in Int
  BY <1>2, EventFacts
<1>4. /\ \A i \in 1 .. k : f[i] \in Int /\ ff[i] = f[i]
      /\ \A i \in 1 .. k : g[i] \in Int /\ gg[i] = g[i]
      /\ ff[k + 1] \in Int /\ gg[k + 1] \in Int
      /\ ff[k + 1] = term(m) /\ gg[k + 1] = own(m)
  BY <1>2, <1>3
<1> HIDE DEF f, ff, g, gg
<1>5. SumFunctionOnSet(ff, 1 .. (k + 1)) = SumFunctionOnSet(f, 1 .. k) + ff[k + 1]
  BY <1>4, SumNext
<1>6. SumFunctionOnSet(gg, 1 .. (k + 1)) = SumFunctionOnSet(g, 1 .. k) + gg[k + 1]
  BY <1>4, SumNext
<1>7. QED
  BY <1>1, <1>4, <1>5, <1>6

LEMMA PositionStep ==
    ASSUME log \in Seq(Events), NEW k \in Nat, k < Len(log)
    PROVE  /\ log[k + 1].user # Viewer => position_at(k + 1) = position_at(k)
           /\ \E o \in Outcomes : \A c \in Outcomes :
                 c # o => position_at(k + 1)[c] = position_at(k)[c]
<1> DEFINE e == log[k + 1]
           claims == e.kind = "claim" /\ e.user = Viewer
<1>1. e \in Events /\ k \in 0 .. Len(log)
  OBVIOUS
<1>2. ASSUME NEW c \in Outcomes
      PROVE  /\ traded_at(k)[c] \in Int
             /\ traded_at(k + 1)[c]
                  = traded_at(k)[c] + IF e.outcome = c /\ e.user = Viewer
                                      THEN moved(e) ELSE 0
  BY <1>1, PrefixSums, SumsAreIntegers
<1>3. claimed_at(k + 1) <=> claimed_at(k) \/ claims
  <2>1. \A i \in 1 .. (k + 1) : i \in 1 .. k \/ i = k + 1
    OBVIOUS
  <2>2. k + 1 \in 1 .. (k + 1) /\ 1 .. k \subseteq 1 .. (k + 1)
    OBVIOUS
  <2>3. QED
    BY <2>1, <2>2 DEF claimed_at
<1>4. claims => moved(e) = 0
  BY DEF moved
<1> HIDE DEF e
<1>5. ASSUME NEW c \in Outcomes,
             ~(claims /\ c = winning_outcome), e.outcome # c \/ e.user # Viewer \/ claims
      PROVE  position_at(k + 1)[c] = position_at(k)[c]
  <2>1. traded_at(k + 1)[c] = traded_at(k)[c]
    BY <1>2, <1>4, <1>5
  <2>2. QED
    BY <1>3, <1>5, <2>1 DEF position_at
<1>6. ASSUME e.user # Viewer PROVE position_at(k + 1) = position_at(k)
  <2>1. \A c \in Outcomes : position_at(k + 1)[c] = position_at(k)[c]
    BY <1>5, <1>6
  <2>2. QED
    BY <2>1 DEF position_at
<1>7. \E o \in Outcomes : \A c \in Outcomes :
         c # o => position_at(k + 1)[c] = position_at(k)[c]
  <2>1. PICK o \in Outcomes : \/ claims /\ (winning_outcome \in Outcomes => o = winning_outcome)
                              \/ ~claims /\ (e.outcome \in Outcomes => o = e.outcome)
    BY DEF Outcomes
  <2>2. \A c \in Outcomes : c # o => position_at(k + 1)[c] = position_at(k)[c]
    BY <1>5, <2>1
  <2>3. QED
    BY <2>2
<1>8. QED
  BY <1>6, <1>7 DEF e

\* Without an event of Viewer its position stays.
LEMMA PositionStays ==
    ASSUME log \in Seq(Events), NEW a \in Nat, NEW b \in Nat, b <= Len(log),
           \A i \in a + 1 .. b : log[i].user # Viewer
    PROVE  \A k \in a .. b : position_at(k) = position_at(a)
<1> DEFINE Good == {d \in Nat : a + d <= b => position_at(a + d) = position_at(a)}
<1>1. 0 \in Good
  OBVIOUS
<1>2. ASSUME NEW d \in Nat, d \in Good PROVE d + 1 \in Good
  <2> SUFFICES ASSUME a + (d + 1) <= b PROVE position_at(a + (d + 1)) = position_at(a)
    OBVIOUS
  <2>1. a + d \in Nat /\ a + d <= b /\ a + d < Len(log) /\ a + (d + 1) = (a + d) + 1
        /\ (a + d) + 1 \in a + 1 .. b
    OBVIOUS
  <2>2. position_at(a + d) = position_at(a)
    BY <1>2, <2>1
  <2>3. position_at((a + d) + 1) = position_at(a + d)
    BY <2>1, PositionStep
  <2>4. QED
    BY <2>1, <2>2, <2>3
<1> HIDE DEF Good
<1>3. \A d \in 0 .. b : d \in Good
  BY <1>1, <1>2, IntervalInduction
<1>4. ASSUME NEW k \in a .. b PROVE position_at(k) = position_at(a)
  <2>1. k - a \in 0 .. b /\ k - a \in Nat /\ a + (k - a) = k /\ k <= b
    OBVIOUS
  <2>2. position_at(a + (k - a)) = position_at(a)
    BY <1>3, <2>1 DEF Good
  <2>3. QED
    BY <2>1, <2>2
<1>5. QED
  BY <1>4

\* Two balances read while Viewer made at most one call are a pair it had.
LEMMA PairWasHeld ==
    ASSUME log \in Seq(Events), NEW a \in Nat, NEW b \in Nat, b <= Len(log),
           NEW balance \in [Outcomes -> Int],
           \A o \in Outcomes : \E k \in a .. b : balance[o] = position_at(k)[o],
           Cardinality({i \in a + 1 .. b : log[i].user = Viewer}) <= 1
    PROVE  \E k \in a .. b : balance = position_at(k)
<1> DEFINE own == {i \in a + 1 .. b : log[i].user = Viewer}
<1>1. Outcomes = {OUTCOME_YES, OUTCOME_NO} /\ OUTCOME_YES # OUTCOME_NO
  BY DEF Outcomes, OUTCOME_YES, OUTCOME_NO
<1>2. a <= b
  <2>1. PICK k \in a .. b : balance[OUTCOME_YES] = position_at(k)[OUTCOME_YES]
    BY <1>1
  <2>2. QED
    BY <2>1
<1>3. ASSUME NEW k, \A o \in Outcomes : balance[o] = position_at(k)[o]
      PROVE  balance = position_at(k)
  BY <1>3 DEF position_at
<1>4. CASE own = {}
  <2>1. \A i \in a + 1 .. b : log[i].user # Viewer
    BY <1>4
  <2>2. \A k \in a .. b : position_at(k) = position_at(a)
    BY <2>1, PositionStays
  <2>3. \A o \in Outcomes : balance[o] = position_at(a)[o]
    BY <2>2
  <2>4. balance = position_at(a)
    BY <1>3, <2>3
  <2>5. a \in a .. b
    BY <1>2
  <2>6. QED
    BY <2>4, <2>5
<1>5. CASE own # {}
  <2>1. PICK m \in own : TRUE
    BY <1>5
  <2>2. own \subseteq {m}
    <3>1. IsFiniteSet(own)
      <4>1. IsFiniteSet(a + 1 .. b)
        BY FS_Interval
      <4>2. QED
        BY <4>1, FS_Subset
    <3> HIDE DEF own
    <3>2. IsFiniteSet(own \ {m}) /\ Cardinality(own \ {m}) = Cardinality(own) - 1
      BY <2>1, <3>1, FS_RemoveElement
    <3>3. Cardinality(own) \in Nat /\ Cardinality(own \ {m}) \in Nat
      BY <3>1, <3>2, FS_CardinalityType
    <3>4. Cardinality(own) <= 1
      BY DEF own
    <3>5. Cardinality(own \ {m}) = 0
      BY <3>2, <3>3, <3>4
    <3>6. own \ {m} = {}
      BY <3>2, <3>5, FS_EmptySet
    <3>7. QED
      BY <3>6
  <2>3. /\ m \in a + 1 .. b /\ m - 1 \in Nat /\ m \in Nat /\ m - 1 < Len(log)
        /\ m - 1 <= Len(log) /\ (m - 1) + 1 = m
        /\ m - 1 \in a .. b /\ m \in a .. b
    BY <2>1
  <2>4. \A k \in a .. m - 1 : position_at(k) = position_at(m - 1)
    <3>1. \A i \in a + 1 .. m - 1 : i \in a + 1 .. b /\ i # m
      BY <2>3
    <3>2. \A i \in a + 1 .. m - 1 : log[i].user # Viewer
      BY <2>2, <3>1
    <3>3. \A k \in a .. m - 1 : position_at(k) = position_at(a)
      BY <2>3, <3>2, PositionStays
    <3>4. m - 1 \in a .. m - 1
      BY <2>3
    <3>5. QED
      BY <3>3, <3>4
  <2>5. \A k \in m .. b : position_at(k) = position_at(m)
    <3>1. \A i \in m + 1 .. b : i \in a + 1 .. b /\ i # m
      BY <2>3
    <3>2. \A i \in m + 1 .. b : log[i].user # Viewer
      BY <2>2, <3>1
    <3>3. QED
      BY <2>3, <3>2, PositionStays
  <2>6. \A k \in a .. b : k \in a .. m - 1 \/ k \in m .. b
    BY <2>3
  <2>7. \A o \in Outcomes : \/ balance[o] = position_at(m - 1)[o]
                            \/ balance[o] = position_at(m)[o]
    BY <2>4, <2>5, <2>6
  <2>8. PICK o \in Outcomes : \A c \in Outcomes :
           c # o => position_at(m)[c] = position_at(m - 1)[c]
    BY <2>3, PositionStep
  <2>9. CASE balance[o] = position_at(m)[o]
    <3>1. \A c \in Outcomes : balance[c] = position_at(m)[c]
      BY <2>7, <2>8, <2>9
    <3>2. balance = position_at(m)
      BY <1>3, <3>1
    <3>3. QED
      BY <2>3, <3>2
  <2>10. CASE balance[o] = position_at(m - 1)[o]
    <3>1. \A c \in Outcomes : balance[c] = position_at(m - 1)[c]
      BY <2>7, <2>8, <2>10
    <3>2. balance = position_at(m - 1)
      BY <1>3, <3>1
    <3>3. QED
      BY <2>3, <3>2
  <2>11. QED
    BY <2>7, <2>9, <2>10
<1>6. QED
  BY <1>4, <1>5

(***************************************************************************)
(* The two balances on a page, read by two goroutines at different times,  *)
(* are balances the account had while GetBalance ran, and a pair it had at *)
(* one time unless it made two calls itself meanwhile. The argument is not *)
(* one about locks: no call of the contract changes both balances of an    *)
(* account, so one call between the two reads leaves a pair that was real  *)
(* before it or after it. The exception is the 0 that getOutcomeBalance    *)
(* makes of an answer without results.                                     *)
(***************************************************************************)
THEOREM BalancesAreReal == DetailSpec => []BalancesShownAreReal
<1>1. ASSUME DInv PROVE BalancesShownAreReal
  <2> SUFFICES ASSUME page.pc = "shown", page.balance[OUTCOME_NO] # Nothing
               PROVE  /\ \A o \in Outcomes : page.balance[o] # NoResults =>
                            \E k \in page.from .. page.to : page.balance[o] = position_at(k)[o]
                      /\ (\A o \in Outcomes : page.balance[o] # NoResults)
                           /\ Cardinality({i \in page.from + 1 .. page.to :
                                              log[i].user = Viewer}) <= 1
                            => \E k \in page.from .. page.to :
                                  page.balance = position_at(k)
    BY DEF BalancesShownAreReal
  <2>1. /\ page.from \in Nat /\ page.to \in Nat /\ page.to <= Len(log)
        /\ page.balance \in [Outcomes -> Int] /\ log \in Seq(Events)
    BY <1>1 DEF DInv, BalancesOK, Pages, LogTypeOK
  <2>2. \A o \in Outcomes : page.balance[o] # NoResults =>
           \E k \in page.from .. page.to : page.balance[o] = position_at(k)[o]
    BY <1>1 DEF DInv, BalancesOK, HeldSince
  <2>3. ASSUME \A o \in Outcomes : page.balance[o] # NoResults,
               Cardinality({i \in page.from + 1 .. page.to : log[i].user = Viewer}) <= 1
        PROVE  \E k \in page.from .. page.to : page.balance = position_at(k)
    <3>1. \A o \in Outcomes : \E k \in page.from .. page.to :
             page.balance[o] = position_at(k)[o]
      BY <2>2, <2>3
    <3>2. QED
      BY <2>1, <2>3, <3>1, PairWasHeld
  <2>4. QED
    BY <2>2, <2>3
<1>2. QED
  BY <1>1, DetailInductive, PTL
-----------------------------------------------------------------------------
(***************************************************************************)
(* The chart. Its recursion has a solution, which is built point by point. *)
(***************************************************************************)
next_quantity(q, i, evs, outcome) ==
    IF i \in evs /\ log[i].outcome = outcome THEN clamp(q + chart_delta(log[i])) ELSE q

IsChart(q, evs, outcome, n) ==
    q = [i \in 0 .. n |-> IF i = 0 THEN 0 ELSE next_quantity(q[i - 1], i, evs, outcome)]

LEMMA ChartExists ==
    ASSUME NEW n \in Nat, NEW evs, NEW o
    PROVE  \E q : IsChart(q, evs, o, n)
<1> DEFINE Good == {k \in Nat : \E q : IsChart(q, evs, o, k)}
<1>1. 0 \in Good
  <2> DEFINE q == [i \in 0 .. 0 |-> 0]
  <2>1. \A i \in 0 .. 0 : i = 0
    OBVIOUS
  <2>2. q = [i \in 0 .. 0 |-> IF i = 0 THEN 0 ELSE next_quantity(q[i - 1], i, evs, o)]
    BY <2>1
  <2>3. IsChart(q, evs, o, 0)
    BY <2>2 DEF IsChart
  <2>4. QED
    BY <2>3
<1>2. ASSUME NEW k \in Nat, k \in Good PROVE k + 1 \in Good
  <2>1. PICK q : IsChart(q, evs, o, k)
    BY <1>2
  <2> DEFINE r == [i \in 0 .. (k + 1) |->
                     IF i = k + 1 THEN next_quantity(q[k], k + 1, evs, o) ELSE q[i]]
  <2>2. \A i \in 0 .. k : r[i] = q[i]
    OBVIOUS
  <2>3. r[k + 1] = next_quantity(q[k], k + 1, evs, o)
    OBVIOUS
  <2>4. r = [i \in 0 .. (k + 1) |-> r[i]]
    OBVIOUS
  <2> HIDE DEF r
  <2>5. \A i \in 0 .. k :
           q[i] = IF i = 0 THEN 0 ELSE next_quantity(q[i - 1], i, evs, o)
    BY <2>1 DEF IsChart
  <2>6. ASSUME NEW i \in 0 .. (k + 1)
        PROVE  r[i] = IF i = 0 THEN 0 ELSE next_quantity(r[i - 1], i, evs, o)
    <3>1. CASE i = k + 1
      <4>1. i # 0 /\ i - 1 = k /\ k \in 0 .. k
        BY <3>1
      <4>2. QED
        BY <2>2, <2>3, <3>1, <4>1
    <3>2. CASE i \in 0 .. k
      <4>1. i # 0 => i - 1 \in 0 .. k
        BY <3>2
      <4>2. QED
        BY <2>2, <2>5, <3>2, <4>1
    <3>3. QED
      BY <3>1, <3>2
  <2>7. IsChart(r, evs, o, k + 1)
    BY <2>4, <2>6 DEF IsChart
  <2>8. QED
    BY <2>7
<1> HIDE DEF Good
<1>3. \A k \in 0 .. n : k \in Good
  BY <1>1, <1>2, IntervalInduction
<1>4. n \in Good
  BY <1>3
<1>5. QED
  BY <1>4 DEF Good

LEMMA ChartPoints ==
    ASSUME Len(log) \in Nat, NEW evs, NEW o, NEW q, q = eventsToChartPoints(evs, o)
    PROVE  /\ q[0] = 0
           /\ \A j \in Nat : j < Len(log) => q[j + 1] = next_quantity(q[j], j + 1, evs, o)
<1>1. q = CHOOSE g : IsChart(g, evs, o, Len(log))
  BY DEF eventsToChartPoints, IsChart, next_quantity
<1>2. IsChart(q, evs, o, Len(log))
  BY <1>1, ChartExists
<1>3. \A i \in 0 .. Len(log) :
         q[i] = IF i = 0 THEN 0 ELSE next_quantity(q[i - 1], i, evs, o)
  BY <1>2 DEF IsChart
<1>4. \A j \in Nat : j < Len(log) =>
         j + 1 \in 0 .. Len(log) /\ j + 1 # 0 /\ (j + 1) - 1 = j
  OBVIOUS
<1>5. 0 \in 0 .. Len(log)
  OBVIOUS
<1>6. QED
  BY <1>3, <1>4, <1>5

\* Up to the first event the chart is at 0.
LEMMA ChartStart ==
    ASSUME Len(log) \in Nat, NEW evs, NEW o, NEW q, q = eventsToChartPoints(evs, o),
           NEW first \in 1 .. Len(log), \A i \in evs : i \in Nat /\ first <= i
    PROVE  q[first - 1] = 0
<1> DEFINE Good == {j \in Nat : q[j] = 0}
<1>1. 0 \in Good
  BY ChartPoints
<1>2. ASSUME NEW j \in Nat, j < first - 1, j \in Good PROVE j + 1 \in Good
  <2>1. j < Len(log) /\ j + 1 < first
    BY <1>2
  <2>2. j + 1 \notin evs
    BY <2>1
  <2>3. q[j + 1] = next_quantity(q[j], j + 1, evs, o)
    BY <2>1, ChartPoints
  <2>4. QED
    BY <1>2, <2>2, <2>3 DEF next_quantity
<1>3. first - 1 \in Nat /\ first - 1 \in 0 .. first - 1
  OBVIOUS
<1> HIDE DEF Good
<1>4. \A j \in 0 .. first - 1 : j \in Good
  BY <1>1, <1>2, <1>3, IntervalInduction
<1>5. QED
  BY <1>3, <1>4 DEF Good

\* One event more keeps the quantity between its bounds.
LEMMA ChartStep ==
    ASSUME DInv, NEW evs, evs \subseteq trades, NEW o \in Outcomes, NEW q,
           q = eventsToChartPoints(evs, o),
           NEW base \in Int, NEW j \in Nat, j < Len(log),
           is_trade(log[j + 1]) => j + 1 \in evs,
           q[j] \in clamp(sold_at(j)[o] - base) .. sold_at(j)[o]
    PROVE  q[j + 1] \in clamp(sold_at(j + 1)[o] - base) .. sold_at(j + 1)[o]
<1> DEFINE e == log[j + 1]
           s == sold_at(j)[o]
           t == sold_at(j + 1)[o]
<1>1. /\ log \in Seq(Events) /\ Len(log) \in Nat
      /\ j \in 0 .. Len(log) /\ j + 1 \in 0 .. Len(log) /\ j + 1 \in 1 .. Len(log)
      /\ e \in Events
  BY DEF DInv, LogTypeOK
<1>2. s \in Int /\ t \in Int
  BY <1>1, SumsAreIntegers
<1>3. s >= 0 /\ t >= 0
  BY <1>1 DEF DInv, LogExplains
<1>4. t = s + IF e.outcome = o THEN moved(e) ELSE 0
  BY <1>1, PrefixSums
<1>5. q[j + 1] = next_quantity(q[j], j + 1, evs, o)
  BY <1>1, ChartPoints
<1>6. /\ moved(e) \in Int
      /\ ~is_trade(e) => moved(e) = 0
      /\ is_trade(e) => moved(e) = chart_delta(e)
  BY <1>1, EventFacts
<1>7. j + 1 \in evs <=> is_trade(e)
  BY DEF trades
<1>8. q[j] \in Int /\ clamp(s - base) <= q[j] /\ q[j] <= s
  <2>1. clamp(s - base) \in Int
    BY <1>2 DEF clamp
  <2>2. QED
    BY <1>2, <2>1
<1> HIDE DEF s, t, e
<1>9. CASE is_trade(e) /\ e.outcome = o
  <2>1. q[j + 1] = clamp(q[j] + moved(e)) /\ t = s + moved(e)
    BY <1>4, <1>5, <1>6, <1>7, <1>9 DEF next_quantity, e
  <2>2. clamp(t - base) <= q[j + 1] /\ q[j + 1] <= t /\ q[j + 1] \in Int
    <3>1. \A x, y, d, c \in Int : y >= 0 /\ y + d >= 0 /\ x <= y /\ clamp(y - c) <= x =>
             /\ clamp((y + d) - c) <= clamp(x + d)
             /\ clamp(x + d) <= y + d /\ clamp(x + d) \in Int
      BY DEF clamp
    <3>2. /\ clamp((s + moved(e)) - base) <= clamp(q[j] + moved(e))
          /\ clamp(q[j] + moved(e)) <= s + moved(e) /\ clamp(q[j] + moved(e)) \in Int
      <4>1. s >= 0 /\ s + moved(e) >= 0
        BY <1>3, <2>1
      <4>2. QED
        BY <1>2, <1>6, <1>8, <3>1, <4>1
    <3>3. QED
      BY <2>1, <3>2
  <2>3. clamp(t - base) \in Int
    BY <1>2 DEF clamp
  <2>4. QED
    BY <1>2, <2>2, <2>3 DEF t
<1>10. CASE ~(is_trade(e) /\ e.outcome = o)
  <2>1. q[j + 1] = q[j]
    BY <1>5, <1>7, <1>10 DEF next_quantity, e
  <2>2. t = s
    BY <1>2, <1>4, <1>6, <1>10
  <2>3. QED
    BY <2>1, <2>2 DEF s, t
<1>11. QED
  BY <1>9, <1>10

\* From the first event on it stays between them, as no trade is missing.
LEMMA ChartBounds ==
    ASSUME DInv, NEW evs, evs \subseteq trades, whole(evs), NEW o \in Outcomes,
           NEW first \in evs, \A i \in evs : first <= i, NEW last \in evs
    PROVE  eventsToChartPoints(evs, o)[last]
              \in clamp(sold_at(last)[o] - sold_at(first - 1)[o]) .. sold_at(last)[o]
<1> DEFINE q == eventsToChartPoints(evs, o)
           a == first - 1
           base == sold_at(a)[o]
           Good == {d \in Nat : q[a + d] \in clamp(sold_at(a + d)[o] - base)
                                               .. sold_at(a + d)[o]}
<1>1. /\ log \in Seq(Events) /\ Len(log) \in Nat
      /\ \A i \in evs : i \in 1 .. Len(log) /\ i \in Nat /\ is_trade(log[i])
      /\ first \in 1 .. Len(log) /\ last \in 1 .. Len(log) /\ first <= last
  BY DEF DInv, LogTypeOK, trades
<1>2. a \in Nat /\ a \in 0 .. Len(log) /\ a + 0 = a /\ last - a \in Nat /\ a + (last - a) = last
  BY <1>1
<1>3. base \in Int /\ base >= 0
  <2>1. base \in Int
    BY <1>1, <1>2, SumsAreIntegers
  <2>2. base >= 0
    BY <1>2 DEF DInv, LogExplains
  <2>3. QED
    BY <2>1, <2>2
<1>4. q[a] = 0
  BY <1>1, ChartStart
<1> HIDE DEF q
<1>5. 0 \in Good
  <2> HIDE DEF a, base
  <2>1. clamp(base - base) = 0
    BY <1>3 DEF clamp
  <2>2. q[a] \in clamp(base - base) .. base
    BY <1>3, <1>4, <2>1
  <2>3. q[a + 0] \in clamp(sold_at(a + 0)[o] - base) .. sold_at(a + 0)[o]
    BY <1>2, <2>2 DEF base
  <2>4. QED
    BY <2>3
<1>6. ASSUME NEW d \in Nat, d < last - a, d \in Good PROVE d + 1 \in Good
  <2>1. /\ a + d \in Nat /\ a + d < Len(log) /\ a + (d + 1) = (a + d) + 1
        /\ (a + d) + 1 \in first .. last
    BY <1>1, <1>2, <1>6
  <2>2. is_trade(log[(a + d) + 1]) => (a + d) + 1 \in evs
    BY <2>1 DEF whole
  <2>3. q[a + d] \in clamp(sold_at(a + d)[o] - base) .. sold_at(a + d)[o]
    BY <1>6
  <2> DEFINE j == a + d
  <2> HIDE DEF a, base, j
  <2>4. /\ j \in Nat /\ j < Len(log)
        /\ is_trade(log[j + 1]) => j + 1 \in evs
        /\ q[j] \in clamp(sold_at(j)[o] - base) .. sold_at(j)[o]
    BY <2>1, <2>2, <2>3 DEF j
  <2>5. q[j + 1] \in clamp(sold_at(j + 1)[o] - base) .. sold_at(j + 1)[o]
    BY <1>3, <2>1, <2>4, ChartStep DEF q, j
  <2>6. q[a + (d + 1)] \in clamp(sold_at(a + (d + 1))[o] - base) .. sold_at(a + (d + 1))[o]
    BY <2>1, <2>5 DEF j
  <2>7. QED
    BY <2>6
<1> HIDE DEF Good, a
<1>7. \A d \in 0 .. last - a : d \in Good
  BY <1>2, <1>5, <1>6, IntervalInduction
<1>8. last - a \in Good
  BY <1>2, <1>7
<1>9. QED
  BY <1>2, <1>8 DEF Good, q, a

(***************************************************************************)
(* A chart from which no trade is missing shows at each point at most what *)
(* the market had sold then, and at least what was sold net since the      *)
(* window began; one that starts with the market shows exactly the market. *)
(* eventsToChartPoints starts at 0 whatever was sold before and clamps at  *)
(* 0, so a sale of older tokens is lost; that it never shows more than the *)
(* market had needs that the quantities sold were never negative.          *)
(***************************************************************************)
THEOREM ChartIsWithinMarket == DetailSpec => []ChartWithinMarket
<1>1. ASSUME DInv PROVE ChartWithinMarket
  <2>1. page.events \subseteq trades
    BY <1>1 DEF DInv, EventsOK
  <2>2. ASSUME whole(page.events), NEW first \in page.events,
               \A i \in page.events : first <= i,
               NEW i \in page.events, NEW o \in Outcomes
        PROVE  eventsToChartPoints(page.events, o)[i]
                  \in clamp(sold_at(i)[o] - sold_at(first - 1)[o]) .. sold_at(i)[o]
    BY <1>1, <2>1, <2>2, ChartBounds
  <2>3. QED
    BY <2>2 DEF ChartWithinMarket
<1>2. QED
  BY <1>1, DetailInductive, PTL
-----------------------------------------------------------------------------
(***************************************************************************)
(* The goroutines of GetBalance. That they end is a liveness property; its *)
(* safety part is that none of them is ever blocked.                       *)
(***************************************************************************)
NoReaderBlocks == \A o \in Outcomes : reader[o] = "reading" => can_send(o)

(***************************************************************************)
(* A goroutine that has its answer can always send it, also when the page  *)
(* gave up after the error of the other one: the buffer of its channel is  *)
(* empty until it sends.                                                   *)
(***************************************************************************)
THEOREM ReadersNeverBlock == DetailSpec => []NoReaderBlocks
<1>1. DInv => NoReaderBlocks
  BY DEF DInv, BalancesOK, NoReaderBlocks, can_send
<1>2. QED
  BY <1>1, DetailInductive, PTL

\* The calls whose events are logged are calls of the contract.
LEMMA DetailStepOnContract == [DetailNext]_detail_vars => ContractCall \/ UNCHANGED vars
<1> SUFFICES ASSUME [DetailNext]_detail_vars PROVE ContractCall \/ UNCHANGED vars
  OBVIOUS
<1>1. /\ Traders \subseteq Accounts /\ AppOracle \in Accounts /\ Outcomes \subseteq OutcomeArgs
      /\ Amounts \subseteq Int /\ Limits \subseteq Int
  BY DetailAssumption, ArgsAssumption DEF OutcomeArgs
<1>2. CASE Call
  <2>1. ASSUME NEW u \in Traders, NEW o \in Outcomes, NEW n \in Amounts, NEW m \in Limits,
               buy(u, o, n, m) \/ sell(u, o, n, m)
        PROVE  ContractCall
    <3>1. u \in Accounts /\ o \in OutcomeArgs /\ n \in Int /\ m \in Int
      BY <1>1
    <3> QED BY <2>1, <3>1 DEF ContractCall
  <2>2. ASSUME NEW u \in Traders, claim(u) PROVE ContractCall
    BY <1>1, <2>2 DEF ContractCall
  <2>3. ASSUME NEW o \in Outcomes, resolve(AppOracle, o) PROVE ContractCall
    BY <1>1, <2>3 DEF ContractCall
  <2>4. withdraw_remaining(AppOracle) => ContractCall
    BY <1>1 DEF ContractCall
  <2> QED BY <1>2, <2>1, <2>2, <2>3, <2>4 DEF Call
<1>3. UNCHANGED chain => UNCHANGED vars
  BY DEF chain
<1>4. Serve \/ CloseLedger => UNCHANGED chain
  BY DEF Serve, Lookup, GetLatestLedger, GetEvents, EventsFail, Finish, Receive, CloseLedger
<1>5. (\E o \in Outcomes : getOutcomeBalance(o))
        \/ (\E kind \in {"detail", "outcome"}, known \in BOOLEAN : StartPage(kind, known))
        \/ UNCHANGED detail_vars
        => UNCHANGED chain
  BY DEF getOutcomeBalance, StartPage, detail_vars
<1>6. QED
  BY <1>2, <1>3, <1>4, <1>5 DEF DetailNext

(***************************************************************************)
(* The market the pages and their goroutines read while it is traded on is *)
(* the one of LmsrMarket: its accounts add up in every state they can see. *)
(***************************************************************************)
THEOREM MarketSafeInDetail == DetailSpec => []MarketSound
<1>1. DetailInit => HoldingsInv
  BY DeployedHoldings, DetailAssumption DEF DetailInit
<1>2. DInv /\ DInv' /\ HoldingsInv /\ [DetailNext]_detail_vars => HoldingsInv'
  BY DetailStepOnContract, SoundStep DEF DInv
<1>3. DInv /\ HoldingsInv => MarketSound
  BY StateSound DEF DInv
<1>4. QED
  BY <1>1, <1>2, <1>3, DetailInductive, PTL DEF DetailSpec
=============================================================================
