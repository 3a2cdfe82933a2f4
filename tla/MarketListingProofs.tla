------------------------ MODULE MarketListingProofs ------------------------
(***************************************************************************)
(* Safety of the factory contract for every set of accounts, addresses,    *)
(* code hashes and tokens and every list length, and of the deploy form    *)
(* and the cached list of markets for every number of forms, pages and     *)
(* deployments and every life of the cache.                                *)
(***************************************************************************)
EXTENDS MarketListing, TLAPS

(***************************************************************************)
(* The inductive invariant. MarketsMatchLedger needs the list to be empty  *)
(* before initialize, which overwrites it (TypeOK). ListedMarketsFunded    *)
(* speaks of the list; the ledger is where the constructor leaves what it  *)
(* checked, so the invariant states it of every occupied address.          *)
(***************************************************************************)
DeployedMarketsFunded ==
    \A s \in occupied : ledger[s].wasm = LmsrWasm =>
        /\ ledger[s].b > 0
        /\ ledger[s].funding >= InitialLiquidity(ledger[s].b)
        /\ ledger[s].funding <= MAX_FUNDING

IInv ==
    /\ TypeOK
    /\ MarketsMatchLedger
    /\ DeployedMarketsFunded

(***************************************************************************)
(* What appending an element does to the list: its range gains the         *)
(* element, earlier indices keep theirs.                                   *)
(***************************************************************************)
LEMMA AppendFacts ==
    ASSUME NEW S, NEW seq \in Seq(S), NEW e \in S
    PROVE  /\ Append(seq, e) \in Seq(S)
           /\ Range(Append(seq, e)) = Range(seq) \cup {e}
           /\ IsPrefix(seq, Append(seq, e))
           /\ (/\ e \notin Range(seq)
               /\ \A i, j \in DOMAIN seq : seq[i] = seq[j] => i = j)
              => \A i, j \in DOMAIN Append(seq, e) :
                    Append(seq, e)[i] = Append(seq, e)[j] => i = j
<1> DEFINE long == Append(seq, e)
<1>1. /\ long \in Seq(S)
      /\ Len(seq) \in Nat
      /\ Len(long) = Len(seq) + 1
      /\ DOMAIN seq = 1 .. Len(seq)
      /\ DOMAIN long = 1 .. (Len(seq) + 1)
      /\ long[Len(seq) + 1] = e
      /\ \A i \in 1 .. Len(seq) : long[i] = seq[i]
  OBVIOUS
<1> HIDE DEF long
<1>2. Range(long) = Range(seq) \cup {e}
  <2>1. \A i \in DOMAIN long : long[i] \in Range(seq) \cup {e}
    BY <1>1 DEF Range
  <2>2. \A i \in DOMAIN seq : seq[i] \in Range(long)
    BY <1>1 DEF Range
  <2>3. e \in Range(long)
    BY <1>1 DEF Range
  <2>4. QED
    BY <2>1, <2>2, <2>3 DEF Range
<1>3. IsPrefix(seq, long)
  <2>1. SubSeq(seq, 1, Len(seq)) = SubSeq(long, 1, Len(seq))
    BY <1>1
  <2>2. QED
    BY <1>1, <2>1 DEF IsPrefix
<1>4. ASSUME e \notin Range(seq),
             \A i, j \in DOMAIN seq : seq[i] = seq[j] => i = j
      PROVE  \A i, j \in DOMAIN long : long[i] = long[j] => i = j
  <2>1. \A i \in 1 .. Len(seq) : long[i] # e
    BY <1>1, <1>4 DEF Range
  <2>2. QED
    BY <1>1, <1>4, <2>1
<1>5. QED
  BY <1>1, <1>2, <1>3, <1>4 DEF long
-----------------------------------------------------------------------------
\* A factory that is not initialised lists nothing and nothing is deployed.
LEMMA InitIInv == Init => IInv
<1> SUFFICES ASSUME Init PROVE IInv
  OBVIOUS
<1>1. occupied = {}
  BY DEF Init, occupied
<1>2. TypeOK
  BY DEF Init, TypeOK, is_initialized
<1>3. MarketsMatchLedger
  BY <1>1 DEF Init, MarketsMatchLedger, Range
<1>4. QED
  BY <1>1, <1>2, <1>3 DEF IInv, DeployedMarketsFunded

\* initialize overwrites a list that is still empty.
LEMMA InitializeIInv ==
    ASSUME IInv, NEW a \in Accounts, NEW wasm \in Wasms, NEW token \in Tokens,
           initialize(a, wasm, token)
    PROVE  IInv'
<1>1. markets' = markets /\ ledger' = ledger
  BY DEF IInv, TypeOK, initialize
<1>2. TypeOK'
  BY <1>1, FactoryAssumption DEF IInv, TypeOK, initialize, is_initialized
<1>3. MarketsMatchLedger' /\ DeployedMarketsFunded'
  BY <1>1 DEF IInv, MarketsMatchLedger, DeployedMarketsFunded, occupied
<1>4. QED
  BY <1>2, <1>3 DEF IInv

\* A deployment takes a free address, so the list stays without repetition,
\* and leaves there a market its constructor accepted.
LEMMA DeployIInv ==
    ASSUME IInv, NEW a \in Accounts, NEW b \in LiquidityArgs, NEW f \in FundingArgs,
           NEW s \in Salts, deploy_market(a, b, f, s)
    PROVE  IInv'
<1> DEFINE market == [oracle |-> a, wasm |-> market_wasm_hash,
                      token |-> default_collateral_token, b |-> b, funding |-> f]
<1>1. /\ market \in Market
      /\ market.wasm = market_wasm_hash /\ market.b = b /\ market.funding = f
  BY DEF IInv, TypeOK, deploy_market, Market
<1>2. /\ ledger[s] = None
      /\ constructor_ok(market.wasm, market.b, market.funding)
      /\ ledger' = [ledger EXCEPT ![s] = market]
      /\ markets' = Append(markets, s)
      /\ UNCHANGED <<admin, market_wasm_hash, default_collateral_token>>
      /\ caller' = a
  BY DEF deploy_market, deploy_v2, config
<1> HIDE DEF market
<1>3. /\ ledger \in [Salts -> Market \cup {None}]
      /\ ledger'[s] = market
      /\ \A r \in Salts \ {s} : ledger'[r] = ledger[r]
  BY <1>2 DEF IInv, TypeOK
<1>4. occupied' = occupied \cup {s} /\ s \notin occupied
  BY <1>1, <1>2, <1>3, FactoryAssumption DEF occupied
<1>5. /\ markets' \in Seq(Salts)
      /\ Range(markets') = Range(markets) \cup {s}
      /\ s \notin Range(markets)
      /\ \A i, j \in DOMAIN markets' : markets'[i] = markets'[j] => i = j
  <2>1. markets \in Seq(Salts) /\ s \notin Range(markets)
    BY <1>4 DEF IInv, TypeOK, MarketsMatchLedger
  <2>2. \A i, j \in DOMAIN markets : markets[i] = markets[j] => i = j
    BY DEF IInv, MarketsMatchLedger
  <2>3. QED
    BY <1>2, <2>1, <2>2, AppendFacts
<1>6. TypeOK'
  BY <1>1, <1>2, <1>5 DEF IInv, TypeOK, is_initialized, deploy_market
<1>7. MarketsMatchLedger'
  BY <1>4, <1>5 DEF IInv, MarketsMatchLedger
<1>8. DeployedMarketsFunded'
  BY <1>2, <1>3, <1>4 DEF IInv, DeployedMarketsFunded, constructor_ok, occupied
<1>9. QED
  BY <1>6, <1>7, <1>8 DEF IInv

\* A change of the configuration leaves the list and the ledger alone.
LEMMA SetWasmIInv ==
    ASSUME IInv, NEW a \in Accounts, NEW wasm \in Wasms, set_market_wasm_hash(a, wasm)
    PROVE  IInv'
<1>1. TypeOK'
  BY FactoryAssumption
  DEF IInv, TypeOK, set_market_wasm_hash, require_admin, is_initialized
<1>2. MarketsMatchLedger' /\ DeployedMarketsFunded'
  BY DEF IInv, MarketsMatchLedger, DeployedMarketsFunded, occupied, set_market_wasm_hash
<1>3. QED
  BY <1>1, <1>2 DEF IInv

LEMMA SetTokenIInv ==
    ASSUME IInv, NEW a \in Accounts, NEW token \in Tokens,
           set_default_collateral_token(a, token)
    PROVE  IInv'
<1>1. TypeOK'
  BY FactoryAssumption
  DEF IInv, TypeOK, set_default_collateral_token, require_admin, is_initialized
<1>2. MarketsMatchLedger' /\ DeployedMarketsFunded'
  BY DEF IInv, MarketsMatchLedger, DeployedMarketsFunded, occupied,
         set_default_collateral_token
<1>3. QED
  BY <1>1, <1>2 DEF IInv

LEMMA StutterIInv == IInv /\ UNCHANGED vars => IInv'
<1> SUFFICES ASSUME IInv, UNCHANGED vars PROVE IInv'
  OBVIOUS
<1>1. TypeOK'
  BY DEF IInv, TypeOK, vars, config, is_initialized
<1>2. MarketsMatchLedger' /\ DeployedMarketsFunded'
  BY DEF IInv, MarketsMatchLedger, DeployedMarketsFunded, occupied, vars
<1>3. QED
  BY <1>1, <1>2 DEF IInv

LEMMA NextIInv == IInv /\ [Next]_vars => IInv'
<1> SUFFICES ASSUME IInv, [Next]_vars PROVE IInv'
  OBVIOUS
<1>1. CASE Initialize
  BY <1>1, InitializeIInv DEF Initialize
<1>2. CASE DeployMarket
  BY <1>2, DeployIInv DEF DeployMarket
<1>3. CASE SetMarketWasmHash
  BY <1>3, SetWasmIInv DEF SetMarketWasmHash
<1>4. CASE SetDefaultCollateralToken
  BY <1>4, SetTokenIInv DEF SetDefaultCollateralToken
<1>5. CASE UNCHANGED vars
  BY <1>5, StutterIInv
<1>6. QED
  BY <1>1, <1>2, <1>3, <1>4, <1>5 DEF Next

LEMMA Inductive == Spec => []IInv
BY InitIInv, NextIInv, PTL DEF Spec
-----------------------------------------------------------------------------
(***************************************************************************)
(* The keys of the factory and the network's ledger always hold values of  *)
(* their types, and after initialize no key is missing: the reads that     *)
(* answer StorageCorrupted never do.                                       *)
(***************************************************************************)
THEOREM FactoryTypeCorrect == Spec => []TypeOK
<1>1. IInv => TypeOK
  BY DEF IInv
<1>2. QED
  BY <1>1, Inductive, PTL

(***************************************************************************)
(* However many markets are deployed, by whomever, the list holds exactly  *)
(* the contracts the factory created, each once (deploy_market).           *)
(***************************************************************************)
THEOREM ListMatchesLedger == Spec => []MarketsMatchLedger
<1>1. IInv => MarketsMatchLedger
  BY DEF IInv
<1>2. QED
  BY <1>1, Inductive, PTL

(***************************************************************************)
(* Every listed market that runs lmsr_market was accepted by its           *)
(* constructor and so starts with the funding that its b requires,         *)
(* whatever the admin set before or after.                                 *)
(***************************************************************************)
THEOREM ListedAreFunded == Spec => []ListedMarketsFunded
<1>1. IInv => ListedMarketsFunded
  <2> SUFFICES ASSUME IInv, NEW s \in Range(markets), ledger[s].wasm = LmsrWasm
               PROVE  /\ ledger[s].b > 0
                      /\ ledger[s].funding \in InitialLiquidity(ledger[s].b) .. MAX_FUNDING
    BY DEF ListedMarketsFunded
  <2>1. s \in occupied
    BY DEF IInv, MarketsMatchLedger
  <2>2. ledger[s] \in Market
    BY <2>1 DEF IInv, TypeOK, occupied
  <2>3. ledger[s].b \in LiquidityArgs /\ ledger[s].funding \in Int
    BY <2>2, FactoryAssumption DEF Market
  <2>4. ledger[s].b > 0 /\ ledger[s].funding >= InitialLiquidity(ledger[s].b)
                        /\ ledger[s].funding <= MAX_FUNDING
    BY <2>1 DEF IInv, DeployedMarketsFunded
  <2>5. QED
    BY <2>3, <2>4, FactoryAssumption
<1>2. QED
  BY <1>1, Inductive, PTL

(***************************************************************************)
(* The list only grows at its end and no step touches a deployed market:   *)
(* what get_market answers for an index, and what it names, is final.      *)
(***************************************************************************)
THEOREM DeploymentsArePermanent == Spec => DeploymentsPermanent
<1> DEFINE Kept == /\ IsPrefix(markets, markets')
                   /\ \A s \in occupied : ledger'[s] = ledger[s]
<1>1. IInv /\ [Next]_vars => [Kept]_vars
  <2> SUFFICES ASSUME IInv, Next PROVE Kept
    OBVIOUS
  <2>1. markets \in Seq(Salts) /\ ledger \in [Salts -> Market \cup {None}]
    BY DEF IInv, TypeOK
  <2>2. ASSUME markets' = markets, ledger' = ledger PROVE Kept
    BY <2>1, <2>2 DEF IsPrefix
  <2>3. CASE Initialize
    BY <2>2, <2>3 DEF Initialize, initialize, IInv, TypeOK
  <2>4. CASE DeployMarket
    <3>1. PICK s \in Salts : /\ ledger[s] = None
                             /\ markets' = Append(markets, s)
                             /\ \A r \in Salts : r # s => ledger'[r] = ledger[r]
      BY <2>1, <2>4 DEF DeployMarket, deploy_market, deploy_v2
    <3>2. QED
      BY <2>1, <3>1, AppendFacts DEF occupied
  <2>5. CASE SetMarketWasmHash
    BY <2>2, <2>5 DEF SetMarketWasmHash, set_market_wasm_hash
  <2>6. CASE SetDefaultCollateralToken
    BY <2>2, <2>6 DEF SetDefaultCollateralToken, set_default_collateral_token
  <2>7. QED
    BY <2>3, <2>4, <2>5, <2>6 DEF Next
<1>2. QED
  BY <1>1, Inductive, PTL DEF Spec, DeploymentsPermanent

(***************************************************************************)
(* No sequence of calls takes the factory away from its admin, and nobody  *)
(* else changes the code or the token of later markets (require_admin and  *)
(* the AlreadyInitialized check of initialize).                            *)
(***************************************************************************)
THEOREM AdminInControl == Spec => AdminControlsConfig
<1> DEFINE Controlled == is_initialized => /\ admin' = admin
                                           /\ config' # config => caller' = admin
<1>1. [Next]_vars => [Controlled]_vars
  <2> SUFFICES ASSUME Next PROVE Controlled
    OBVIOUS
  <2>1. CASE Initialize
    BY <2>1 DEF Initialize, initialize
  <2>2. CASE DeployMarket
    BY <2>2 DEF DeployMarket, deploy_market
  <2>3. CASE SetMarketWasmHash
    BY <2>3 DEF SetMarketWasmHash, set_market_wasm_hash, require_admin
  <2>4. CASE SetDefaultCollateralToken
    BY <2>4 DEF SetDefaultCollateralToken, set_default_collateral_token, require_admin
  <2>5. QED
    BY <2>1, <2>2, <2>3, <2>4 DEF Next
<1>2. QED
  BY <1>1, PTL DEF Spec, AdminControlsConfig
-----------------------------------------------------------------------------
(***************************************************************************)
(* The factory composed with the deploy form and the list of markets.      *)
(***************************************************************************)
Deploys == [stage : {"free", "build", "prepare", "handed_out", "rejected"},
            b : Int, funding : Int, salt : Salts \cup {None}, seq : Nat]

ReaderStates == [pc : {"none", "fetch", "store", "shown", "error"}, started : Nat,
                 ids : Seq(Salts), at : Nat]

FactoryTypeOK ==
    /\ admin \in Accounts
    /\ market_wasm_hash \in Wasms
    /\ default_collateral_token \in Tokens
    /\ markets \in Seq(Salts)
    /\ ledger \in [Salts -> Contract \cup {None}]
    /\ Range(markets) = occupied

(***************************************************************************)
(* The inductive invariant. A form in progress has numbers and a salt the  *)
(* factory can be called with. Of every list that is held somewhere, in    *)
(* the cache, by a reader or on a page, it says which markets must be on   *)
(* it: a reader that started at some time has every market listed before   *)
(* then (fetchMarketList reads the factory later), and the entry of the    *)
(* cache every market listed a TIMEOUT before it was stored, unless a      *)
(* failed reload may have renewed an old entry.                            *)
(***************************************************************************)
Fundable(b, funding) ==
    InitialLiquidity(b) \in Nat /\ (funding >= 0 => constructor_ok(LmsrWasm, b, funding))

FormsOK ==
    /\ deploy \in [DeployIds -> Deploys]
    /\ \A d \in DeployIds : deploy[d].stage \in {"build", "prepare", "handed_out"} =>
          /\ deploy[d].salt \in Salts
          /\ deploy[d].b > 0 => Fundable(deploy[d].b, deploy[d].funding)

ClockOK ==
    /\ now \in Nat
    /\ oracle_seq \in Nat
    /\ listed_at \in [Salts -> Nat]
    /\ last_failure \in Int
    /\ \A s \in occupied : listed_at[s] <= now

CacheOK ==
    /\ list \in [ids : Seq(Salts), stored : Int]
    /\ list.stored <= now
    /\ IsPrefix(list.ids, markets)
    /\ \A s \in occupied :
          listed_at[s] + TIMEOUT < list.stored /\ last_failure < listed_at[s]
             => s \in Range(list.ids)

ReaderOK(r) ==
    /\ r \in ReaderStates
    /\ IsPrefix(r.ids, markets)
    /\ r.pc \in Reading => r.started <= now /\ now <= r.started + TIMEOUT
    /\ r.pc = "store" => \A s \in occupied : listed_at[s] < r.started => s \in Range(r.ids)
    /\ r.pc = "shown" => /\ r.at <= now
                         /\ \A s \in occupied :
                               /\ listed_at[s] + TTL + REVALIDATION + TIMEOUT <= r.at
                               /\ last_failure < listed_at[s]
                               => s \in Range(r.ids)

ReadersOK ==
    /\ reader = [w \in Readers |-> reader[w]]
    /\ \A w \in Readers : ReaderOK(reader[w])

LInv ==
    /\ FactoryTypeOK
    /\ FormsOK
    /\ ClockOK
    /\ CacheOK
    /\ ReadersOK
-----------------------------------------------------------------------------
(***************************************************************************)
(* Prefixes of the list of markets: a list is one of itself, the empty     *)
(* list is one of any, and none stops being one when a market is added.    *)
(***************************************************************************)
LEMMA PrefixFacts ==
    ASSUME NEW S, NEW seq \in Seq(S), NEW p \in Seq(S)
    PROVE  /\ IsPrefix(seq, seq)
           /\ IsPrefix(<< >>, seq)
           /\ IsPrefix(p, seq) => \A e \in S : IsPrefix(p, Append(seq, e))
<1>1. IsPrefix(seq, seq)
  BY DEF IsPrefix
<1>2. IsPrefix(<< >>, seq)
  <2>1. Len(<< >>) = 0 /\ Len(seq) \in Nat
    OBVIOUS
  <2>2. SubSeq(<< >>, 1, 0) = << >> /\ SubSeq(seq, 1, 0) = << >>
    OBVIOUS
  <2>3. QED
    BY <2>1, <2>2 DEF IsPrefix
<1>3. ASSUME IsPrefix(p, seq), NEW e \in S PROVE IsPrefix(p, Append(seq, e))
  <2> DEFINE long == Append(seq, e)
  <2>1. /\ Len(p) \in Nat /\ Len(seq) \in Nat
        /\ long \in Seq(S)
        /\ Len(long) = Len(seq) + 1
        /\ \A i \in 1 .. Len(seq) : long[i] = seq[i]
    OBVIOUS
  <2>2. Len(p) <= Len(seq) /\ SubSeq(p, 1, Len(p)) = SubSeq(seq, 1, Len(p))
    BY <1>3 DEF IsPrefix
  <2> HIDE DEF long
  <2>3. SubSeq(long, 1, Len(p)) = SubSeq(seq, 1, Len(p))
    BY <2>1, <2>2
  <2>4. Len(p) <= Len(long)
    BY <2>1, <2>2
  <2>5. IsPrefix(p, long)
    BY <2>2, <2>3, <2>4 DEF IsPrefix
  <2>6. QED
    BY <2>5 DEF long
<1>4. QED
  BY <1>1, <1>2, <1>3

\* The subsidy of the form: truncating both numbers keeps 70% enough, and so
\* does the rounding at the end of the int64 range, unless it turns one negative.
LEMMA TruncationCovers ==
    ASSUME NEW liquidity \in FormNumbers, NEW funding \in FormNumbers,
           Validate(liquidity, funding),
           NEW b \in safeFloatToInt64(scaled(liquidity)),
           NEW f \in safeFloatToInt64(scaled(funding))
    PROVE  /\ b \in Int /\ f \in Int
           /\ b > 0 => Fundable(b, f)
<1> DEFINE exact == scaled(funding)
           need == InitialLiquidity(b)
<1>1. /\ liquidity \in Nat /\ funding \in Nat /\ PRECISION \in Nat /\ PRECISION > 0
      /\ 10 * funding >= 7 * liquidity
      /\ MAX_INT64 \in Nat /\ MAX_FUNDING \in Nat /\ MAX_INT64 <= MAX_FUNDING
  BY ListingAssumption, FactoryAssumption DEF Validate
<1>2. /\ scaled(liquidity) \in Nat /\ exact \in Nat
      /\ scaled(liquidity) * PRECISION <= liquidity
      /\ funding < (exact + 1) * PRECISION
  <2>1. \A n \in Nat : /\ n \div PRECISION \in Nat
                       /\ (n \div PRECISION) * PRECISION <= n
                       /\ n < ((n \div PRECISION) + 1) * PRECISION
    BY <1>1
  <2>2. QED
    BY <1>1, <2>1 DEF scaled
<1>3. /\ b \in Int /\ b <= MAX_INT64 /\ b <= scaled(liquidity)
      /\ f \in Int /\ f <= MAX_INT64
      /\ f >= 0 => f \in {exact, MAX_INT64}
  <2>1. ASSUME NEW n \in Nat, NEW k \in safeFloatToInt64(n)
        PROVE  /\ k \in Int /\ k <= MAX_INT64 /\ k <= n
               /\ k >= 0 => k \in {n, MAX_INT64}
    BY <1>1, <2>1 DEF safeFloatToInt64, MIN_INT64
  <2> HIDE DEF exact
  <2>2. f \in safeFloatToInt64(exact)
    BY DEF exact
  <2>3. QED
    BY <1>2, <2>1, <2>2
<1>4. ASSUME b > 0 PROVE Fundable(b, f)
  <2>1. b \in 1 .. MAX_INT64 /\ b \in Nat
    BY <1>1, <1>3, <1>4
  <2>2. need \in Nat /\ 10 * need <= 7 * b
    BY <2>1, SubsidyAssumption
  <2> HIDE DEF exact, need
  <2>3. b * PRECISION <= liquidity
    <3>1. \A j, k \in Nat : j <= k => j * PRECISION <= k * PRECISION
      BY <1>1
    <3>2. b * PRECISION <= scaled(liquidity) * PRECISION
      BY <1>2, <1>3, <2>1, <3>1
    <3>3. b * PRECISION \in Int /\ scaled(liquidity) * PRECISION \in Int
      BY <1>1, <1>2, <2>1
    <3>4. QED
      BY <1>1, <1>2, <3>2, <3>3
  <2>4. need <= exact
    <3>1. SUFFICES ASSUME need >= exact + 1 PROVE FALSE
      BY <1>2, <2>2
    <3>2. 7 * b >= 10 * (exact + 1)
      BY <1>2, <2>1, <2>2, <3>1
    <3>3. 7 * (b * PRECISION) >= 10 * ((exact + 1) * PRECISION)
      <4>1. \A j, k \in Nat : 7 * j >= 10 * k => 7 * (j * PRECISION) >= 10 * (k * PRECISION)
        <5>1. \A j, k \in Nat : /\ 7 * (j * PRECISION) = (7 * j) * PRECISION
                                /\ 10 * (k * PRECISION) = (10 * k) * PRECISION
          BY <1>1
        <5>2. \A j, k \in Nat : j >= k => j * PRECISION >= k * PRECISION
          BY <1>1
        <5>3. QED
          BY <1>1, <5>1, <5>2
      <4>2. QED
        BY <1>2, <2>1, <3>2, <4>1
    <3>4. QED
      <4>1. b * PRECISION \in Nat /\ (exact + 1) * PRECISION \in Nat
        BY <1>1, <1>2, <2>1
      <4>2. QED
        BY <1>1, <1>2, <2>3, <3>3, <4>1
  <2>5. need <= MAX_INT64
    BY <1>1, <2>1, <2>2
  <2>6. f >= 0 => need <= f /\ f <= MAX_FUNDING
    BY <1>1, <1>3, <2>4, <2>5
  <2>7. QED
    BY <1>4, <2>2, <2>6 DEF Fundable, constructor_ok, need
<1>5. QED
  BY <1>3, <1>4
-----------------------------------------------------------------------------
\* Nothing is deployed, posted, cached or read.
LEMMA InitLInv == ListingInit => LInv
<1> SUFFICES ASSUME ListingInit PROVE LInv
  OBVIOUS
<1>1. occupied = {}
  BY DEF ListingInit, occupied
<1>2. FactoryTypeOK
  BY <1>1, ListingAssumption, FactoryAssumption DEF ListingInit, FactoryTypeOK, Range
<1>3. FormsOK
  BY DEF ListingInit, FormsOK, Deploys, NoDeploy
<1>4. ClockOK
  BY <1>1, ListingAssumption DEF ListingInit, ClockOK, Never
<1>5. << >> \in Seq(Salts) /\ IsPrefix(<< >>, markets)
  <2>1. << >> \in Seq(Salts)
    OBVIOUS
  <2>2. QED
    BY <1>2, <2>1, PrefixFacts DEF FactoryTypeOK
<1>6. CacheOK
  BY <1>1, <1>5 DEF ListingInit, CacheOK, Empty
<1>7. ReadersOK
  BY <1>5 DEF ListingInit, ReadersOK, ReaderOK, ReaderStates, NotReading, Reading
<1>8. QED
  BY <1>2, <1>3, <1>4, <1>6, <1>7 DEF LInv

\* A step that leaves the factory, the clock and the histories alone keeps what
\* the invariant says of every list.
LEMMA KeepLists ==
    ASSUME LInv, UNCHANGED <<markets, ledger, now, listed_at, last_failure>>
    PROVE  /\ occupied' = occupied
           /\ \A r : ReaderOK(r) => ReaderOK(r)'
           /\ list' = list => CacheOK'
           /\ reader' = reader => ReadersOK'
<1>1. occupied' = occupied
  BY DEF occupied
<1>2. \A r : ReaderOK(r) => ReaderOK(r)'
  BY <1>1 DEF ReaderOK
<1>3. list' = list => CacheOK'
  BY <1>1 DEF LInv, CacheOK
<1>4. reader' = reader => ReadersOK'
  BY <1>1 DEF LInv, ReadersOK, ReaderOK
<1>5. QED
  BY <1>1, <1>2, <1>3, <1>4

\* A step of the handler of a form.
LEMMA FormLInv ==
    ASSUME LInv, NEW d \in DeployIds, NEW r \in Deploys,
           r.stage \in {"build", "prepare", "handed_out"} =>
              /\ r.salt \in Salts
              /\ r.b > 0 => Fundable(r.b, r.funding),
           Proceed(d, r), UNCHANGED <<vars, oracle_seq, now, listed_at, reading>>
    PROVE  LInv'
<1>1. /\ UNCHANGED <<admin, market_wasm_hash, default_collateral_token, markets, ledger>>
      /\ UNCHANGED <<list, reader, last_failure>>
  BY DEF vars, config, reading
<1>2. FormsOK'
  BY DEF LInv, FormsOK, Proceed, Fundable, constructor_ok
<1>3. CacheOK' /\ ReadersOK' /\ occupied' = occupied
  BY <1>1, KeepLists
<1>4. QED
  BY <1>1, <1>2, <1>3 DEF LInv, FactoryTypeOK, ClockOK

LEMMA PostDeployLInv ==
    ASSUME LInv, NEW d \in DeployIds, PostDeploy(d)
    PROVE  LInv'
<1>1. PICK liquidity \in FormNumbers, funding \in FormNumbers, salt \in Salts :
        /\ Validate(liquidity, funding)
        /\ \E b \in safeFloatToInt64(scaled(liquidity)), f \in safeFloatToInt64(scaled(funding)) :
             Proceed(d, [NoDeploy EXCEPT !.stage = "build", !.b = b, !.funding = f, !.salt = salt])
        /\ UNCHANGED <<vars, oracle_seq, now, listed_at, reading>>
  BY DEF PostDeploy
<1>2. PICK b \in safeFloatToInt64(scaled(liquidity)), f \in safeFloatToInt64(scaled(funding)) :
        Proceed(d, [NoDeploy EXCEPT !.stage = "build", !.b = b, !.funding = f, !.salt = salt])
  BY <1>1
<1> DEFINE r == [NoDeploy EXCEPT !.stage = "build", !.b = b, !.funding = f, !.salt = salt]
<1>3. b \in Int /\ f \in Int /\ (b > 0 => Fundable(b, f))
  BY <1>1, TruncationCovers
<1>4. r \in Deploys /\ r.salt = salt /\ r.b = b /\ r.funding = f
  BY <1>3 DEF Deploys, NoDeploy
<1>5. Proceed(d, r)
  BY <1>2
<1> HIDE DEF r
<1>6. QED
  BY <1>1, <1>3, <1>4, <1>5, FormLInv

LEMMA HandlerLInv ==
    ASSUME LInv, NEW d \in DeployIds,
           BuildDeployMarketTx(d) \/ SimulateDeploy(d) \/ DeployRpcFails(d)
    PROVE  LInv'
<1>1. deploy[d] \in Deploys
  BY DEF LInv, FormsOK
<1>2. Refused \in Deploys /\ Refused.stage = "rejected"
  BY DEF Refused, NoDeploy, Deploys
<1>3. ASSUME deploy[d].stage \in {"build", "prepare"},
             NEW r \in Deploys, r.salt = deploy[d].salt, r.b = deploy[d].b,
             r.funding = deploy[d].funding, Proceed(d, r),
             UNCHANGED <<vars, oracle_seq, now, listed_at, reading>>
      PROVE  LInv'
  <2>1. /\ r.salt \in Salts
        /\ r.b > 0 => Fundable(r.b, r.funding)
    BY <1>3 DEF LInv, FormsOK
  <2>2. QED
    BY <1>3, <2>1, FormLInv
<1>4. ASSUME Proceed(d, Refused), UNCHANGED <<vars, oracle_seq, now, listed_at, reading>>
      PROVE  LInv'
  BY <1>2, <1>4, FormLInv
<1>5. CASE BuildDeployMarketTx(d)
  <2>1. PICK s \in 0 .. oracle_seq :
           Proceed(d, [deploy[d] EXCEPT !.stage = "prepare", !.seq = s + 1])
    BY <1>5 DEF BuildDeployMarketTx
  <2> DEFINE r == [deploy[d] EXCEPT !.stage = "prepare", !.seq = s + 1]
  <2>2. s + 1 \in Nat
    BY DEF LInv, ClockOK
  <2>3. /\ r \in Deploys
        /\ r.salt = deploy[d].salt /\ r.b = deploy[d].b /\ r.funding = deploy[d].funding
    BY <1>1, <2>2 DEF Deploys
  <2>4. Proceed(d, r)
    BY <2>1
  <2> HIDE DEF r
  <2>5. QED
    BY <1>3, <1>5, <2>3, <2>4 DEF BuildDeployMarketTx
<1>6. CASE SimulateDeploy(d)
  <2> DEFINE r == [deploy[d] EXCEPT !.stage = "handed_out"]
  <2>1. /\ r \in Deploys
        /\ r.salt = deploy[d].salt /\ r.b = deploy[d].b /\ r.funding = deploy[d].funding
    BY <1>1 DEF Deploys
  <2>2. Proceed(d, r) \/ Proceed(d, Refused)
    BY <1>6 DEF SimulateDeploy
  <2> HIDE DEF r
  <2>3. QED
    BY <1>3, <1>4, <1>6, <2>1, <2>2 DEF SimulateDeploy
<1>7. CASE DeployRpcFails(d)
  BY <1>4, <1>7 DEF DeployRpcFails
<1>8. QED
  BY <1>5, <1>6, <1>7
-----------------------------------------------------------------------------
(***************************************************************************)
(* A deployment: the new market was listed now, which is too late for any  *)
(* list already held to lack it wrongly.                                   *)
(***************************************************************************)
LEMMA DeployLInv ==
    ASSUME LInv, NEW a \in Accounts, NEW b \in Int, NEW f \in Int, NEW s \in Salts,
           deploy_market(a, b, f, s), Listed(s), oracle_seq' \in Nat,
           UNCHANGED <<deploy, now, reading>>
    PROVE  LInv'
<1> DEFINE market == [oracle |-> a, wasm |-> market_wasm_hash,
                      token |-> default_collateral_token, b |-> b, funding |-> f]
<1>1. market \in Contract
  BY DEF LInv, FactoryTypeOK, Contract
<1>2. /\ ledger[s] = None
      /\ ledger' = [ledger EXCEPT ![s] = market]
      /\ markets' = Append(markets, s)
      /\ UNCHANGED <<admin, market_wasm_hash, default_collateral_token>>
      /\ UNCHANGED <<list, reader, last_failure>>
      /\ listed_at' = [listed_at EXCEPT ![s] = now]
  BY DEF deploy_market, deploy_v2, config, reading, Listed
<1> HIDE DEF market
<1>3. /\ ledger' \in [Salts -> Contract \cup {None}]
      /\ occupied' = occupied \cup {s}
      /\ s \notin occupied
  BY <1>1, <1>2, ListingAssumption DEF LInv, FactoryTypeOK, occupied
<1>4. FactoryTypeOK'
  <2>1. markets \in Seq(Salts) /\ Range(markets) = occupied
    BY DEF LInv, FactoryTypeOK
  <2>2. markets' \in Seq(Salts) /\ Range(markets') = Range(markets) \cup {s}
    BY <1>2, <2>1, AppendFacts
  <2>3. QED
    BY <1>2, <1>3, <2>1, <2>2 DEF LInv, FactoryTypeOK
<1>5. /\ listed_at' \in [Salts -> Nat]
      /\ listed_at'[s] = now
      /\ \A r \in occupied : listed_at'[r] = listed_at[r] /\ r # s /\ r \in Salts
  BY <1>2, <1>3 DEF LInv, ClockOK, occupied
<1>6. now \in Nat /\ \A r \in occupied : listed_at[r] \in Nat /\ listed_at[r] <= now
  BY DEF LInv, ClockOK, occupied
<1>7. ClockOK'
  <2>1. \A r \in occupied' : listed_at'[r] <= now
    BY <1>3, <1>5, <1>6
  <2>2. QED
    BY <1>2, <1>5, <2>1 DEF LInv, ClockOK
<1>8. \A p \in Seq(Salts) : IsPrefix(p, markets) => IsPrefix(p, markets')
  BY <1>2, PrefixFacts DEF LInv, FactoryTypeOK
<1>9. FormsOK'
  BY DEF LInv, FormsOK, Fundable, constructor_ok
<1>10. CacheOK'
  <2>1. /\ list \in [ids : Seq(Salts), stored : Int] /\ list.stored <= now
        /\ IsPrefix(list.ids, markets)
        /\ \A r \in occupied :
              listed_at[r] + TIMEOUT < list.stored /\ last_failure < listed_at[r]
                 => r \in Range(list.ids)
    BY DEF LInv, CacheOK
  <2>2. list.stored \in Int /\ list.ids \in Seq(Salts)
    BY <2>1
  <2>3. ~(now + TIMEOUT < list.stored)
    BY <1>6, <2>1, <2>2, ListingAssumption
  <2>4. \A r \in occupied' :
           listed_at'[r] + TIMEOUT < list.stored /\ last_failure < listed_at'[r]
              => r \in Range(list.ids)
    BY <1>3, <1>5, <2>1, <2>3
  <2>5. QED
    BY <1>2, <1>8, <2>1, <2>2, <2>4 DEF CacheOK
<1>11. ReadersOK'
  <2>1. SUFFICES ASSUME NEW w \in Readers PROVE ReaderOK(reader[w])'
    BY <1>2 DEF LInv, ReadersOK
  <2> DEFINE r == reader[w]
  <2>2. ReaderOK(r)
    BY DEF LInv, ReadersOK
  <2>3. /\ r' = r
        /\ r \in ReaderStates /\ r.ids \in Seq(Salts) /\ r.started \in Nat /\ r.at \in Nat
    BY <1>2, <2>2 DEF ReaderOK, ReaderStates
  <2> HIDE DEF r
  <2>4. r.pc = "store" =>
           \A t \in occupied' : listed_at'[t] < r.started => t \in Range(r.ids)
    <3>1. r.pc = "store" => ~(now < r.started)
      BY <1>6, <2>2, <2>3 DEF ReaderOK, Reading
    <3>2. QED
      BY <1>3, <1>5, <2>2, <3>1 DEF ReaderOK
  <2>5. r.pc = "shown" =>
           \A t \in occupied' :
              /\ listed_at'[t] + TTL + REVALIDATION + TIMEOUT <= r.at
              /\ last_failure < listed_at'[t]
              => t \in Range(r.ids)
    <3>1. r.pc = "shown" => ~(now + TTL + REVALIDATION + TIMEOUT <= r.at)
      BY <1>6, <2>2, <2>3, ListingAssumption DEF ReaderOK
    <3>2. QED
      BY <1>3, <1>5, <2>2, <3>1 DEF ReaderOK
  <2>6. IsPrefix(r.ids, markets')
    BY <1>8, <2>2, <2>3 DEF ReaderOK
  <2>7. ReaderOK(r)'
    BY <1>2, <2>2, <2>3, <2>4, <2>5, <2>6 DEF ReaderOK
  <2>8. QED
    BY <2>3, <2>7 DEF r
<1>12. QED
  BY <1>4, <1>7, <1>9, <1>10, <1>11 DEF LInv

\* The wallet submits the transaction of a form.
LEMMA SubmitLInv ==
    ASSUME LInv, NEW d \in DeployIds, SubmitDeploy(d)
    PROVE  LInv'
<1>1. /\ deploy[d] \in Deploys
      /\ deploy[d].salt \in Salts
      /\ deploy[d].b \in Int /\ deploy[d].funding \in Int /\ deploy[d].seq \in Nat
      /\ oracle_seq' = deploy[d].seq
      /\ UNCHANGED <<deploy, now, reading>>
  BY DEF LInv, FormsOK, Deploys, SubmitDeploy
<1>2. CASE deploy_market(AppOracle, deploy[d].b, deploy[d].funding, deploy[d].salt)
              /\ Listed(deploy[d].salt)
  BY <1>1, <1>2, DeployLInv, ListingAssumption
<1>3. CASE UNCHANGED <<vars, listed_at>>
  <2>1. UNCHANGED <<admin, market_wasm_hash, default_collateral_token, markets, ledger>>
    BY <1>3 DEF vars, config
  <2>2. UNCHANGED <<list, reader, last_failure>>
    BY <1>1 DEF reading
  <2>3. CacheOK' /\ ReadersOK' /\ occupied' = occupied
    BY <1>1, <1>3, <2>1, <2>2, KeepLists
  <2>4. FormsOK'
    BY <1>1 DEF LInv, FormsOK, Fundable, constructor_ok
  <2>5. QED
    BY <1>1, <1>3, <2>1, <2>2, <2>3, <2>4 DEF LInv, FactoryTypeOK, ClockOK
<1>4. QED
  BY <1>2, <1>3 DEF SubmitDeploy

\* Others deploy, and the admin changes the configuration.
LEMMA OthersLInv ==
    ASSUME LInv, OutsideDeploy \/ Reconfigure
    PROVE  LInv'
<1>1. CASE OutsideDeploy
  <2>1. PICK a \in Accounts, b \in LiquidityArgs, f \in FundingArgs, s \in Salts :
           deploy_market(a, b, f, s) /\ Listed(s)
    BY <1>1 DEF OutsideDeploy
  <2>2. b \in Int /\ f \in Int
    BY FactoryAssumption
  <2>3. UNCHANGED <<deploy, now, reading>> /\ oracle_seq' \in Nat
    BY <1>1 DEF OutsideDeploy, flow, LInv, ClockOK
  <2>4. QED
    BY <2>1, <2>2, <2>3, DeployLInv
<1>2. CASE Reconfigure
  <2>1. /\ admin' = admin /\ markets' = markets /\ ledger' = ledger
        /\ market_wasm_hash' \in Wasms /\ default_collateral_token' \in Tokens
    BY <1>2 DEF Reconfigure, SetMarketWasmHash, SetDefaultCollateralToken,
                set_market_wasm_hash, set_default_collateral_token, LInv, FactoryTypeOK
  <2>2. /\ UNCHANGED <<deploy, now, listed_at, list, reader, last_failure>>
        /\ oracle_seq' = oracle_seq + 1
    BY <1>2 DEF Reconfigure, reading
  <2>3. CacheOK' /\ ReadersOK' /\ occupied' = occupied
    BY <2>1, <2>2, KeepLists
  <2>4. FormsOK'
    BY <2>2 DEF LInv, FormsOK, Fundable, constructor_ok
  <2>5. QED
    BY <2>1, <2>2, <2>3, <2>4 DEF LInv, FactoryTypeOK, ClockOK
<1>3. QED
  BY <1>1, <1>2
-----------------------------------------------------------------------------
\* A reader takes a step of its own.
LEMMA ReadersLInv ==
    ASSUME LInv, UNCHANGED <<vars, flow, now, listed_at, last_failure>>, CacheOK',
           reader' = [w \in Readers |-> reader'[w]],
           \A w \in Readers : ReaderOK(reader'[w])
    PROVE  LInv'
<1>1. /\ UNCHANGED <<admin, market_wasm_hash, default_collateral_token, markets, ledger>>
      /\ UNCHANGED <<deploy, oracle_seq>>
  BY DEF vars, config, flow
<1>2. occupied' = occupied /\ \A r : ReaderOK(r) => ReaderOK(r)'
  BY <1>1, KeepLists
<1>3. ReadersOK'
  BY <1>2 DEF ReadersOK
<1>4. FormsOK'
  BY <1>1 DEF LInv, FormsOK, Fundable, constructor_ok
<1>5. QED
  BY <1>1, <1>2, <1>3, <1>4 DEF LInv, FactoryTypeOK, ClockOK

\* A reader that starts, and one that stops without a list.
LEMMA ReaderEdges ==
    ASSUME LInv
    PROVE  /\ ReaderOK(Fetch)
           /\ ReaderOK(NotReading)
           /\ ReaderOK([NotReading EXCEPT !.pc = "error"])
<1>1. << >> \in Seq(Salts) /\ IsPrefix(<< >>, markets)
  <2>1. << >> \in Seq(Salts)
    OBVIOUS
  <2>2. QED
    BY <2>1, PrefixFacts DEF LInv, FactoryTypeOK
<1>2. now \in Nat
  BY DEF LInv, ClockOK
<1>3. ReaderOK(NotReading)
  BY <1>1 DEF ReaderOK, ReaderStates, NotReading, Reading
<1>4. ReaderOK([NotReading EXCEPT !.pc = "error"])
  BY <1>1 DEF ReaderOK, ReaderStates, NotReading, Reading
<1>5. ReaderOK(Fetch)
  <2>1. /\ Fetch.pc = "fetch" /\ Fetch.started = now /\ Fetch.ids = << >> /\ Fetch.at = 0
        /\ Fetch \in ReaderStates
    BY <1>1, <1>2 DEF Fetch, NotReading, ReaderStates
  <2>2. QED
    BY <1>1, <1>2, <2>1, ListingAssumption DEF ReaderOK, Reading
<1>6. QED
  BY <1>3, <1>4, <1>5

\* A page that shows a list with every market that is old enough.
LEMMA ShownOK ==
    ASSUME LInv, NEW ids \in Seq(Salts), IsPrefix(ids, markets),
           \A s \in occupied : /\ listed_at[s] + TTL + REVALIDATION + TIMEOUT <= now
                               /\ last_failure < listed_at[s]
                               => s \in Range(ids)
    PROVE  ReaderOK(Shown(ids))
<1>1. now \in Nat
  BY DEF LInv, ClockOK
<1>2. /\ Shown(ids).pc = "shown" /\ Shown(ids).ids = ids /\ Shown(ids).at = now
      /\ Shown(ids) \in ReaderStates
  BY <1>1 DEF Shown, NotReading, ReaderStates
<1>3. QED
  BY <1>1, <1>2 DEF ReaderOK, Reading

(***************************************************************************)
(* The cache answers: an entry it still serves was stored recently, so     *)
(* what its list may lack was listed recently.                             *)
(***************************************************************************)
LEMMA ListMarketsLInv ==
    ASSUME LInv, NEW p \in ListPages, ListMarkets(p)
    PROVE  LInv'
<1>1. /\ UNCHANGED <<vars, flow, now, listed_at, list, last_failure>>
      /\ UNCHANGED <<markets, ledger>>
  BY DEF ListMarkets, vars
<1>2. CacheOK'
  BY <1>1, KeepLists
<1>3. /\ reader = [w \in Readers |-> reader[w]]
      /\ \A w \in Readers : ReaderOK(reader[w])
      /\ p \in Readers /\ Reload \in Readers /\ p # Reload
  BY ListingAssumption DEF LInv, ReadersOK, Readers
<1>4. ReaderOK(Fetch)
  BY ReaderEdges
<1>5. CASE ~is_found
  <2>1. reader' = [reader EXCEPT ![p] = Fetch]
    BY <1>5 DEF ListMarkets
  <2>2. /\ reader' = [w \in Readers |-> reader'[w]]
        /\ \A w \in Readers : ReaderOK(reader'[w])
    BY <1>3, <1>4, <2>1
  <2>3. QED
    BY <1>1, <1>2, <2>2, ReadersLInv
<1>6. CASE is_found
  <2>1. reader' = [reader EXCEPT ![p] = Shown(list.ids),
                       ![Reload] = IF is_stale /\ @.pc = "none" THEN Fetch ELSE @]
    BY <1>6 DEF ListMarkets
  <2>2. ReaderOK(Shown(list.ids))
    <3>1. /\ list.ids \in Seq(Salts) /\ list.stored \in Int
          /\ IsPrefix(list.ids, markets)
          /\ \A s \in occupied :
                listed_at[s] + TIMEOUT < list.stored /\ last_failure < listed_at[s]
                   => s \in Range(list.ids)
      BY DEF LInv, CacheOK
    <3>2. now \in Nat /\ now < list.stored + TTL + REVALIDATION
      BY <1>6 DEF is_found, LInv, ClockOK
    <3>3. \A s \in occupied : listed_at[s] \in Nat
      BY DEF LInv, ClockOK, occupied
    <3>4. \A s \in occupied : listed_at[s] + TTL + REVALIDATION + TIMEOUT <= now
                                 => listed_at[s] + TIMEOUT < list.stored
      BY <3>1, <3>2, <3>3, ListingAssumption
    <3>5. QED
      BY <3>1, <3>4, ShownOK
  <2>3. /\ reader' = [w \in Readers |-> reader'[w]]
        /\ \A w \in Readers : ReaderOK(reader'[w])
    BY <1>3, <1>4, <2>1, <2>2
  <2>4. QED
    BY <1>1, <1>2, <2>3, ReadersLInv
<1>7. QED
  BY <1>5, <1>6

(***************************************************************************)
(* A read of the factory has every market there is; storing it, at most a  *)
(* TIMEOUT after the read began, leaves an entry that lacks only markets   *)
(* listed since. A failed reload may renew an old entry, and is remembered.*)
(***************************************************************************)
LEMMA ReadStepLInv ==
    ASSUME LInv, NEW w \in Readers, ReadStep(w)
    PROVE  LInv'
<1>1. /\ reader = [v \in Readers |-> reader[v]]
      /\ \A v \in Readers : ReaderOK(reader[v])
  BY DEF LInv, ReadersOK
<1>2. /\ reader[w] \in ReaderStates
      /\ reader[w].ids \in Seq(Salts) /\ reader[w].started \in Nat
      /\ IsPrefix(reader[w].ids, markets)
  BY <1>1 DEF ReaderOK, ReaderStates
<1>3. /\ now \in Nat
      /\ TTL \in Nat /\ TTL > 0 /\ REVALIDATION \in Nat /\ TIMEOUT \in Nat
      /\ \A s \in occupied : listed_at[s] \in Nat /\ listed_at[s] <= now
  BY ListingAssumption DEF LInv, ClockOK, occupied
<1>4. /\ markets \in Seq(Salts) /\ Range(markets) = occupied
      /\ IsPrefix(markets, markets)
  BY PrefixFacts DEF LInv, FactoryTypeOK
<1>5. ASSUME NEW r, ReaderOK(r), reader' = [reader EXCEPT ![w] = r], CacheOK',
             UNCHANGED <<vars, flow, now, listed_at, last_failure>>
      PROVE  LInv'
  <2>1. /\ reader' = [v \in Readers |-> reader'[v]]
        /\ \A v \in Readers : ReaderOK(reader'[v])
    BY <1>1, <1>5
  <2>2. QED
    BY <1>5, <2>1, ReadersLInv
<1>6. CASE fetchMarketList(w)
  <2> DEFINE r == [reader[w] EXCEPT !.pc = "store", !.ids = markets]
  <2>1. /\ r \in ReaderStates
        /\ r.pc = "store" /\ r.ids = markets /\ r.started = reader[w].started
    BY <1>2, <1>4 DEF ReaderStates
  <2>2. reader[w].started <= now /\ now <= reader[w].started + TIMEOUT
    BY <1>1, <1>6 DEF fetchMarketList, ReaderOK, Reading
  <2>3. /\ reader' = [reader EXCEPT ![w] = r]
        /\ UNCHANGED <<vars, flow, now, listed_at, list, last_failure>>
        /\ UNCHANGED <<markets, ledger>>
    BY <1>6 DEF fetchMarketList, vars
  <2> HIDE DEF r
  <2>4. ReaderOK(r)
    BY <1>4, <2>1, <2>2 DEF ReaderOK
  <2>5. CacheOK'
    BY <2>3, KeepLists
  <2>6. QED
    BY <1>5, <2>3, <2>4, <2>5
<1>7. CASE StoreList(w)
  <2> DEFINE ids == reader[w].ids
             r == IF w = Reload THEN NotReading ELSE Shown(ids)
  <2>1. /\ reader' = [reader EXCEPT ![w] = r]
        /\ list' = [ids |-> ids, stored |-> now]
        /\ UNCHANGED <<vars, flow, now, listed_at, last_failure>>
        /\ UNCHANGED <<markets, ledger>>
    BY <1>7 DEF StoreList, vars
  <2>2. /\ reader[w].started <= now /\ now <= reader[w].started + TIMEOUT
        /\ \A s \in occupied : listed_at[s] < reader[w].started => s \in Range(ids)
    BY <1>1, <1>7 DEF StoreList, ReaderOK, Reading
  <2>3. ids \in Seq(Salts) /\ IsPrefix(ids, markets)
    BY <1>2
  <2>4. ReaderOK(Shown(ids))
    <3>1. \A s \in occupied : listed_at[s] + TTL + REVALIDATION + TIMEOUT <= now
                                 => listed_at[s] < reader[w].started
      BY <1>2, <1>3, <2>2
    <3> HIDE DEF ids
    <3>2. QED
      BY <2>2, <2>3, <3>1, ShownOK
  <2>5. ReaderOK(r)
    BY <2>4, ReaderEdges
  <2>6. CacheOK'
    <3>1. list'.ids = ids /\ list'.stored = now
          /\ list' \in [ids : Seq(Salts), stored : Int]
      BY <1>3, <2>1, <2>3
    <3>2. \A s \in occupied : listed_at[s] + TIMEOUT < now
                                 => listed_at[s] < reader[w].started
      BY <1>2, <1>3, <2>2
    <3>3. occupied' = occupied
      BY <2>1 DEF occupied
    <3> HIDE DEF ids
    <3>4. QED
      BY <1>3, <2>1, <2>2, <2>3, <3>1, <3>2, <3>3 DEF CacheOK
  <2> HIDE DEF r
  <2>7. QED
    BY <1>5, <2>1, <2>5, <2>6
<1>8. CASE w \in ListPages /\ ListFails(w)
  <2>1. UNCHANGED <<vars, flow, now, listed_at, list, last_failure>>
        /\ UNCHANGED <<markets, ledger>>
    BY <1>8 DEF ListFails, vars
  <2>2. CacheOK'
    BY <2>1, KeepLists
  <2>3. QED
    BY <1>5, <1>8, <2>1, <2>2, ReaderEdges DEF ListFails
<1>9. CASE w = Reload /\ ReloadFails
  <2>1. /\ UNCHANGED <<admin, market_wasm_hash, default_collateral_token, markets, ledger>>
        /\ UNCHANGED <<deploy, oracle_seq, now, listed_at>>
        /\ last_failure' = now
        /\ reader' = [reader EXCEPT ![w] = NotReading]
        /\ list' \in {list, [list EXCEPT !.stored = now]}
    BY <1>9 DEF ReloadFails, vars, config, flow
  <2>2. occupied' = occupied
    BY <2>1 DEF occupied
  <2>3. \A s \in occupied : ~(last_failure' < listed_at[s])
    BY <1>3, <2>1
  <2>4. CacheOK'
    <3>1. /\ list'.ids = list.ids /\ list'.stored <= now
          /\ list' \in [ids : Seq(Salts), stored : Int]
      BY <1>3, <2>1 DEF LInv, CacheOK
    <3>2. QED
      BY <2>1, <2>2, <2>3, <3>1 DEF LInv, CacheOK
  <2>5. ReadersOK'
    <3>1. \A r : ReaderOK(r) => ReaderOK(r)'
      BY <2>1, <2>2, <2>3 DEF ReaderOK
    <3>2. /\ reader' = [v \in Readers |-> reader'[v]]
          /\ \A v \in Readers : ReaderOK(reader'[v])
      BY <1>1, <2>1, ReaderEdges
    <3>3. QED
      BY <3>1, <3>2 DEF ReadersOK
  <2>6. FormsOK'
    BY <2>1 DEF LInv, FormsOK, Fundable, constructor_ok
  <2>7. QED
    BY <1>3, <2>1, <2>2, <2>4, <2>5, <2>6 DEF LInv, FactoryTypeOK, ClockOK
<1>10. QED
  BY <1>6, <1>7, <1>8, <1>9 DEF ReadStep

\* Time passes only while no fetch has reached its timeout.
LEMMA TickLInv ==
    ASSUME LInv, Tick
    PROVE  LInv'
<1>1. /\ UNCHANGED <<admin, market_wasm_hash, default_collateral_token, markets, ledger>>
      /\ UNCHANGED <<deploy, oracle_seq, listed_at, list, reader, last_failure>>
      /\ now' = now + 1
      /\ occupied' = occupied
  BY DEF Tick, vars, config, flow, reading, occupied
<1>2. now \in Nat /\ TIMEOUT \in Nat
  BY ListingAssumption DEF LInv, ClockOK
<1>3. ClockOK'
  <2>1. \A s \in occupied : listed_at[s] \in Nat /\ listed_at[s] <= now
    BY DEF LInv, ClockOK, occupied
  <2>2. QED
    BY <1>1, <1>2, <2>1 DEF LInv, ClockOK
<1>4. CacheOK'
  <2>1. list.stored \in Int /\ list.stored <= now
    BY DEF LInv, CacheOK
  <2>2. QED
    BY <1>1, <1>2, <2>1 DEF LInv, CacheOK
<1>5. ReadersOK'
  <2>1. SUFFICES ASSUME NEW w \in Readers PROVE ReaderOK(reader[w])'
    BY <1>1 DEF LInv, ReadersOK
  <2>2. ReaderOK(reader[w]) /\ reader'[w] = reader[w]
    BY <1>1 DEF LInv, ReadersOK
  <2>3. /\ reader[w].started \in Nat /\ reader[w].at \in Nat
        /\ reader[w].pc \in Reading => now < reader[w].started + TIMEOUT
    BY <2>2 DEF ReaderOK, ReaderStates, Tick
  <2>4. /\ reader[w].pc \in Reading =>
              reader[w].started <= now' /\ now' <= reader[w].started + TIMEOUT
        /\ reader[w].pc = "shown" => reader[w].at <= now'
    BY <1>1, <1>2, <2>2, <2>3 DEF ReaderOK
  <2>5. QED
    BY <1>1, <2>2, <2>4 DEF ReaderOK
<1>6. FormsOK'
  BY <1>1 DEF LInv, FormsOK, Fundable, constructor_ok
<1>7. QED
  BY <1>1, <1>3, <1>4, <1>5, <1>6 DEF LInv, FactoryTypeOK

LEMMA NextLInv == LInv /\ [ListingNext]_listing_vars => LInv'
<1> SUFFICES ASSUME LInv, [ListingNext]_listing_vars PROVE LInv'
  OBVIOUS
<1>1. ASSUME NEW d \in DeployIds,
             \/ PostDeploy(d) \/ BuildDeployMarketTx(d) \/ SimulateDeploy(d)
             \/ DeployRpcFails(d) \/ SubmitDeploy(d)
      PROVE  LInv'
  BY <1>1, PostDeployLInv, HandlerLInv, SubmitLInv
<1>2. CASE UNCHANGED listing_vars
  <2>1. /\ UNCHANGED <<admin, market_wasm_hash, default_collateral_token, markets, ledger>>
        /\ UNCHANGED <<deploy, oracle_seq, now, listed_at, list, reader, last_failure>>
    BY <1>2 DEF listing_vars, vars, config, flow, reading
  <2>2. CacheOK' /\ ReadersOK' /\ occupied' = occupied
    BY <2>1, KeepLists
  <2>3. FormsOK'
    BY <2>1 DEF LInv, FormsOK, Fundable, constructor_ok
  <2>4. QED
    BY <2>1, <2>2, <2>3 DEF LInv, FactoryTypeOK, ClockOK
<1>3. QED
  BY <1>1, <1>2, OthersLInv, ListMarketsLInv, ReadStepLInv, TickLInv DEF ListingNext

LEMMA ListingInductive == ListingSpec => []LInv
BY InitLInv, NextLInv, PTL DEF ListingSpec
-----------------------------------------------------------------------------
(***************************************************************************)
(* What DeployMarketRequest.Validate accepts the constructor of            *)
(* lmsr_market accepts, whatever the precision of the numbers posted.      *)
(***************************************************************************)
THEOREM FormIsAccepted == ListingSpec => []FormCoversSubsidy
<1>1. LInv => FormCoversSubsidy
  BY DEF LInv, FormsOK, Fundable, FormCoversSubsidy
<1>2. QED
  BY <1>1, ListingInductive, PTL

(***************************************************************************)
(* However readers of the list overtake each other and the factory, a page *)
(* shows a prefix of the factory's list, and lacks only markets younger    *)
(* than the life of the entry and one fetch, or than a failed reload.      *)
(***************************************************************************)
THEOREM DeploymentsAreShown == ListingSpec => []DeployedMarketsShown
<1>1. LInv => DeployedMarketsShown
  BY DEF LInv, ReadersOK, ReaderOK, Readers, DeployedMarketsShown
<1>2. QED
  BY <1>1, ListingInductive, PTL
-----------------------------------------------------------------------------
(***************************************************************************)
(* The factory in the composition. The application deploys with numbers of *)
(* its own, so that a step is one of the factory's up to the range of      *)
(* these, and the factory's results are carried over.                      *)
(***************************************************************************)
Deployment ==
    \E a \in Accounts, b, f \in Int, s \in Salts :
        (b > 0 => InitialLiquidity(b) \in Nat) /\ deploy_market(a, b, f, s)

FactoryStep == Deployment \/ SetMarketWasmHash \/ SetDefaultCollateralToken

LEMMA ListingStepOnFactory ==
    LInv /\ [ListingNext]_listing_vars => FactoryStep \/ UNCHANGED vars
<1> SUFFICES ASSUME LInv, [ListingNext]_listing_vars PROVE FactoryStep \/ UNCHANGED vars
  OBVIOUS
<1>1. ASSUME NEW d \in DeployIds,
             PostDeploy(d) \/ BuildDeployMarketTx(d) \/ SimulateDeploy(d) \/ DeployRpcFails(d)
      PROVE  UNCHANGED vars
  BY <1>1 DEF PostDeploy, BuildDeployMarketTx, SimulateDeploy, DeployRpcFails
<1>2. ASSUME NEW d \in DeployIds, SubmitDeploy(d) PROVE FactoryStep \/ UNCHANGED vars
  <2>1. /\ deploy[d].salt \in Salts /\ AppOracle \in Accounts
        /\ deploy[d].b \in Int /\ deploy[d].funding \in Int
        /\ deploy[d].b > 0 => InitialLiquidity(deploy[d].b) \in Nat
    BY <1>2, ListingAssumption DEF LInv, FormsOK, Deploys, Fundable, SubmitDeploy
  <2>2. \/ deploy_market(AppOracle, deploy[d].b, deploy[d].funding, deploy[d].salt)
        \/ UNCHANGED vars
    BY <1>2 DEF SubmitDeploy
  <2>3. QED
    BY <2>1, <2>2 DEF FactoryStep, Deployment
<1>3. OutsideDeploy => FactoryStep
  <2> SUFFICES ASSUME OutsideDeploy PROVE FactoryStep
    OBVIOUS
  <2>1. PICK a \in Accounts, b \in LiquidityArgs, f \in FundingArgs, s \in Salts :
           deploy_market(a, b, f, s)
    BY DEF OutsideDeploy
  <2>2. b \in Int /\ f \in Int /\ (b > 0 => InitialLiquidity(b) \in Nat)
    BY FactoryAssumption
  <2>3. QED
    BY <2>1, <2>2 DEF FactoryStep, Deployment
<1>4. Reconfigure => FactoryStep
  BY DEF Reconfigure, FactoryStep
<1>5. ASSUME NEW p \in ListPages, ListMarkets(p) PROVE UNCHANGED vars
  BY <1>5 DEF ListMarkets
<1>6. ASSUME NEW w \in Readers, ReadStep(w) PROVE UNCHANGED vars
  BY <1>6 DEF ReadStep, fetchMarketList, StoreList, ListFails, ReloadFails
<1>7. Tick \/ UNCHANGED listing_vars => UNCHANGED vars
  BY DEF Tick, listing_vars
<1>8. QED
  BY <1>1, <1>2, <1>3, <1>4, <1>5, <1>6, <1>7 DEF ListingNext

Kept == /\ IsPrefix(markets, markets')
        /\ \A s \in occupied : ledger'[s] = ledger[s]

ListedOnce == \A i, j \in DOMAIN markets : markets[i] = markets[j] => i = j

FundedOK ==
    \A s \in occupied : ledger[s].wasm = LmsrWasm =>
        /\ ledger[s].b > 0 /\ InitialLiquidity(ledger[s].b) \in Nat
        /\ ledger[s].funding >= InitialLiquidity(ledger[s].b)
        /\ ledger[s].funding <= MAX_FUNDING

\* A deployment adds one market to the list and one contract to the ledger.
LEMMA DeploymentKeeps ==
    ASSUME LInv, ListedOnce, FundedOK, Deployment
    PROVE  Kept /\ ListedOnce' /\ FundedOK'
<1>1. PICK a \in Accounts, b \in Int, f \in Int, s \in Salts :
         (b > 0 => InitialLiquidity(b) \in Nat) /\ deploy_market(a, b, f, s)
  BY DEF Deployment
<1> DEFINE market == [oracle |-> a, wasm |-> market_wasm_hash,
                      token |-> default_collateral_token, b |-> b, funding |-> f]
<1>2. /\ ledger[s] = None /\ ledger' = [ledger EXCEPT ![s] = market]
      /\ markets' = Append(markets, s)
      /\ constructor_ok(market_wasm_hash, b, f)
  BY <1>1 DEF deploy_market, deploy_v2
<1>3. /\ market.wasm = market_wasm_hash /\ market.b = b /\ market.funding = f
  OBVIOUS
<1> HIDE DEF market
<1>4. /\ markets \in Seq(Salts) /\ ledger \in [Salts -> Contract \cup {None}]
      /\ Range(markets) = occupied /\ s \notin occupied
  BY <1>2 DEF LInv, FactoryTypeOK, occupied
<1>5. /\ ledger'[s] = market
      /\ \A r \in Salts : r # s => ledger'[r] = ledger[r]
  BY <1>2, <1>4
<1>6. Kept
  BY <1>2, <1>4, <1>5, AppendFacts DEF Kept, occupied
<1>7. ListedOnce'
  <2>1. \A i, j \in DOMAIN markets : markets[i] = markets[j] => i = j
    BY DEF ListedOnce
  <2>2. \A i, j \in DOMAIN Append(markets, s) :
           Append(markets, s)[i] = Append(markets, s)[j] => i = j
    BY <1>4, <2>1, AppendFacts
  <2>3. QED
    BY <1>2, <2>2 DEF ListedOnce
<1>8. FundedOK'
  <2> SUFFICES ASSUME NEW r \in Salts, ledger'[r] # None, ledger'[r].wasm = LmsrWasm
               PROVE  /\ ledger'[r].b > 0 /\ InitialLiquidity(ledger'[r].b) \in Nat
                      /\ ledger'[r].funding >= InitialLiquidity(ledger'[r].b)
                      /\ ledger'[r].funding <= MAX_FUNDING
    BY DEF FundedOK, occupied
  <2>1. CASE r = s
    <3>1. market_wasm_hash = LmsrWasm
      BY <1>3, <1>5, <2>1
    <3>2. b > 0 /\ f >= InitialLiquidity(b) /\ f <= MAX_FUNDING
      BY <1>2, <3>1 DEF constructor_ok
    <3>3. QED
      BY <1>1, <1>3, <1>5, <2>1, <3>2
  <2>2. CASE r # s
    BY <1>5, <2>2 DEF FundedOK, occupied
  <2>3. QED
    BY <2>1, <2>2
<1>9. QED
  BY <1>6, <1>7, <1>8

LEMMA FactoryStepKeeps ==
    LInv /\ ListedOnce /\ FundedOK /\ [ListingNext]_listing_vars
        => Kept /\ ListedOnce' /\ FundedOK'
<1> SUFFICES ASSUME LInv, ListedOnce, FundedOK, [ListingNext]_listing_vars
             PROVE  Kept /\ ListedOnce' /\ FundedOK'
  OBVIOUS
<1>1. ASSUME markets' = markets, ledger' = ledger
      PROVE  Kept /\ ListedOnce' /\ FundedOK'
  <2>1. IsPrefix(markets, markets)
    BY PrefixFacts DEF LInv, FactoryTypeOK
  <2>2. QED
    BY <1>1, <2>1 DEF Kept, ListedOnce, FundedOK, occupied
<1>2. SetMarketWasmHash \/ SetDefaultCollateralToken \/ UNCHANGED vars
        => markets' = markets /\ ledger' = ledger
  BY DEF SetMarketWasmHash, SetDefaultCollateralToken, set_market_wasm_hash,
         set_default_collateral_token, vars
<1>3. QED
  BY <1>1, <1>2, ListingStepOnFactory, DeploymentKeeps DEF FactoryStep

LEMMA ListingLedger == ListingSpec => [](ListedOnce /\ FundedOK)
<1>1. ListingInit => ListedOnce /\ FundedOK
  BY DEF ListingInit, ListedOnce, FundedOK, occupied
<1>2. QED
  BY <1>1, FactoryStepKeeps, ListingInductive, PTL DEF ListingSpec

(***************************************************************************)
(* Every market on the list that runs lmsr_market can be traded on with    *)
(* the guarantees of LmsrMarket, whether it came from the form or from     *)
(* outside, and the list names every deployed market once: also a form     *)
(* that is submitted late, or beside others, leaves no market unlisted.    *)
(***************************************************************************)
THEOREM MarketsSoundInListing ==
    ListingSpec => [](MarketsMatchLedger /\ ListedMarketsFunded)
<1>1. LInv /\ ListedOnce => MarketsMatchLedger
  BY DEF LInv, FactoryTypeOK, ListedOnce, MarketsMatchLedger
<1>2. LInv /\ FundedOK => ListedMarketsFunded
  <2> SUFFICES ASSUME LInv, FundedOK, NEW s \in Range(markets), ledger[s].wasm = LmsrWasm
               PROVE  /\ ledger[s].b > 0
                      /\ ledger[s].funding \in InitialLiquidity(ledger[s].b) .. MAX_FUNDING
    BY DEF ListedMarketsFunded
  <2>1. s \in occupied
    BY DEF LInv, FactoryTypeOK
  <2>2. ledger[s] \in Contract
    BY <2>1 DEF LInv, FactoryTypeOK, occupied
  <2>3. ledger[s].funding \in Int
    BY <2>2 DEF Contract
  <2>4. QED
    BY <2>1, <2>3, FactoryAssumption DEF FundedOK
<1>3. QED
  BY <1>1, <1>2, ListingInductive, ListingLedger, PTL

(***************************************************************************)
(* Nothing the application, its oracle or other users of the factory do    *)
(* renumbers the list or alters a market that was deployed: the links the  *)
(* list page hands out stay good.                                          *)
(***************************************************************************)
THEOREM DeploymentsPermanentInListing == ListingSpec => DeploymentsPermanent
<1>1. LInv /\ ListedOnce /\ FundedOK /\ [ListingNext]_listing_vars => [Kept]_vars
  BY FactoryStepKeeps
<1>2. ListingSpec => [][Kept]_vars
  BY <1>1, ListingInductive, ListingLedger, PTL DEF ListingSpec
<1> QED BY <1>2 DEF DeploymentsPermanent, Kept

(***************************************************************************)
(* The oracle of the application stays the admin, and nobody else changes  *)
(* what the markets of its forms are deployed with.                        *)
(***************************************************************************)
THEOREM AdminInControlInListing == ListingSpec => AdminControlsConfig
<1> DEFINE Controlled == is_initialized => /\ admin' = admin
                                           /\ config' # config => caller' = admin
<1>1. LInv /\ [ListingNext]_listing_vars => [Controlled]_vars
  <2> SUFFICES ASSUME FactoryStep PROVE Controlled
    BY ListingStepOnFactory
  <2>1. CASE Deployment
    BY <2>1 DEF Deployment, deploy_market
  <2>2. CASE SetMarketWasmHash
    BY <2>2 DEF SetMarketWasmHash, set_market_wasm_hash, require_admin
  <2>3. CASE SetDefaultCollateralToken
    BY <2>3 DEF SetDefaultCollateralToken, set_default_collateral_token, require_admin
  <2>4. QED
    BY <2>1, <2>2, <2>3 DEF FactoryStep
<1>2. QED
  BY <1>1, ListingInductive, PTL DEF ListingSpec, AdminControlsConfig
=============================================================================
