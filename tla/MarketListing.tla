--------------------------- MODULE MarketListing ---------------------------
(***************************************************************************)
(* How a market gets from the oracle's form onto the list of markets:      *)
(* handleBuildDeployTx, FactoryService.BuildDeployMarketTx and ListMarkets *)
(* with its cache, composed with MarketFactory.                            *)
(*                                                                         *)
(* The list has a cache of its own with one entry, which is served until   *)
(* TTL + REVALIDATION and reloaded in the background when served after     *)
(* TTL. Unlike the loader of market states this one reports its errors, so *)
(* that the policy KeepOnError applies to them. Readers overtake each      *)
(* other: between reading the factory and storing the answer time passes.  *)
(***************************************************************************)
EXTENDS MarketFactory, Int64

CONSTANTS
    AppOracle,              \* h.oraclePublicKey
    DeployIds,              \* deploy forms the handlers serve
    FormNumbers,            \* numbers posted, in PRECISION-ths of a unit
    PRECISION,              \* a float64 is finer than the contract's unit
    ListPages,              \* requests for the list in progress at a time
    Reload,                 \* the revalidation of the cache
    TTL,                    \* marketListCacheTTL, WithTTL
    REVALIDATION,           \* marketListCacheTTL, WithRevalidation
    TIMEOUT,                \* a fetch ends by its context or the HTTP clients' timeouts
    MaxTime                 \* bound of the model

\* A market at an address, whoever chose its numbers.
Contract == [oracle : Accounts, wasm : Wasms, token : Tokens, b : Int, funding : Int]

ASSUME ListingAssumption ==
    /\ AppOracle \in Accounts
    /\ None \notin Contract
    /\ FormNumbers \subseteq Nat
    /\ PRECISION \in Nat \ {0}
    /\ MAX_INT64 \in Nat /\ MAX_INT64 <= MAX_FUNDING
    /\ Reload \notin ListPages
    /\ TTL \in Nat \ {0}
    /\ REVALIDATION \in Nat /\ TIMEOUT \in Nat /\ MaxTime \in Nat

Readers == ListPages \cup {Reload}

VARIABLES
    deploy,                 \* the deploy requests
    oracle_seq,             \* external: the sequence number of AppOracle
    now,
    listed_at,              \* history: when each market was deployed
    list,                   \* external: samber/hot, the entry "all" or Empty
    reader,                 \* the goroutine of each page and of the reload
    last_failure            \* history: when a reload failed last

flow == <<deploy, oracle_seq>>
reading == <<list, reader, last_failure>>
listing_vars == <<vars, flow, now, listed_at, reading>>

Empty == [ids |-> << >>, stored |-> -1]
NoDeploy == [stage |-> "free", b |-> 0, funding |-> 0, salt |-> None, seq |-> 0]
NotReading == [pc |-> "none", started |-> 0, ids |-> << >>, at |-> 0]
Never == MaxTime + 1

\* The factory was initialised by the deployment script.
ListingInit ==
    /\ admin = AppOracle
    /\ market_wasm_hash = LmsrWasm
    /\ default_collateral_token \in Tokens
    /\ markets = << >>
    /\ ledger = [s \in Salts |-> None]
    /\ caller = admin
    /\ deploy = [d \in DeployIds |-> NoDeploy]
    /\ oracle_seq = 0
    /\ now = 0
    /\ listed_at = [s \in Salts |-> Never]
    /\ list = Empty
    /\ reader = [w \in Readers |-> NotReading]
    /\ last_failure = -1
-----------------------------------------------------------------------------
(***************************************************************************)
(* The deploy form.                                                        *)
(***************************************************************************)
Proceed(d, r) == deploy' = [deploy EXCEPT ![d] = r]
Refused == [NoDeploy EXCEPT !.stage = "rejected"]

\* The number times ScaleFactor, truncated.
scaled(n) == n \div PRECISION

\* External: the contract multiplies b by LN2_SCALED / SCALE_FACTOR, which is
\* 0.6931472, and truncates.
ASSUME SubsidyAssumption ==
    \A b \in 1 .. MAX_INT64 :
        InitialLiquidity(b) \in Nat /\ 10 * InitialLiquidity(b) <= 7 * b

\* Mutant: two thirds are asked for.
Validate_two_thirds(liquidity, funding) ==
    liquidity > 0 /\ funding > 0 /\ 3 * funding >= 2 * liquidity

\* The handler's checks and DeployMarketRequest.Validate.
Validate(liquidity, funding) ==
    liquidity > 0 /\ funding > 0 /\ 10 * funding >= 7 * liquidity

\* A form that does not validate changes nothing. The salt is 32 random
\* bytes: no other request has it.
PostDeploy(d) ==
    \E liquidity \in FormNumbers, funding \in FormNumbers,
       salt \in Salts \ {deploy[e].salt : e \in DeployIds} :
        /\ deploy[d].stage = "free"
        /\ Validate(liquidity, funding)
        /\ \E b \in safeFloatToInt64(scaled(liquidity)), f \in safeFloatToInt64(scaled(funding)) :
             Proceed(d, [NoDeploy EXCEPT !.stage = "build", !.b = b, !.funding = f, !.salt = salt])
        /\ UNCHANGED <<vars, oracle_seq, now, listed_at, reading>>

\* GetAccount and IncrementSequenceNum: Horizon may lag behind the ledger.
BuildDeployMarketTx(d) ==
    /\ deploy[d].stage = "build"
    /\ \E s \in 0 .. oracle_seq :
         Proceed(d, [deploy[d] EXCEPT !.stage = "prepare", !.seq = s + 1])
    /\ UNCHANGED <<vars, oracle_seq, now, listed_at, reading>>

would_deploy(r) ==
    ledger[r.salt] = None /\ constructor_ok(market_wasm_hash, r.b, r.funding)

SimulateDeploy(d) ==
    /\ deploy[d].stage = "prepare"
    /\ Proceed(d, IF would_deploy(deploy[d]) THEN [deploy[d] EXCEPT !.stage = "handed_out"]
                                             ELSE Refused)
    /\ UNCHANGED <<vars, oracle_seq, now, listed_at, reading>>

\* Horizon or the RPC server fails.
DeployRpcFails(d) ==
    /\ deploy[d].stage \in {"build", "prepare"}
    /\ Proceed(d, Refused)
    /\ UNCHANGED <<vars, oracle_seq, now, listed_at, reading>>

Listed(salt) == listed_at' = [listed_at EXCEPT ![salt] = now]

\* External: the wallet submits; the call runs or fails.
SubmitDeploy(d) ==
    LET r == deploy[d] IN
    /\ r.stage = "handed_out" /\ r.seq = oracle_seq + 1
    /\ oracle_seq' = r.seq
    /\ \/ deploy_market(AppOracle, r.b, r.funding, r.salt) /\ Listed(r.salt)
       \/ UNCHANGED <<vars, listed_at>>
    /\ UNCHANGED <<deploy, now, reading>>

\* External: others deploy through the factory, and the admin reconfigures it.
OutsideDeploy ==
    /\ \E a \in Accounts \ {AppOracle}, b \in LiquidityArgs, f \in FundingArgs, s \in Salts :
          deploy_market(a, b, f, s) /\ Listed(s)
    /\ UNCHANGED <<flow, now, reading>>

Reconfigure ==
    /\ SetMarketWasmHash \/ SetDefaultCollateralToken
    /\ oracle_seq' = oracle_seq + 1
    /\ oracle_seq < Cardinality(DeployIds)      \* bound of the model
    /\ UNCHANGED <<deploy, now, listed_at, reading>>
-----------------------------------------------------------------------------
(***************************************************************************)
(* The list page.                                                          *)
(***************************************************************************)
is_found == list # Empty /\ now < list.stored + TTL + REVALIDATION
is_stale == is_found /\ now >= list.stored + TTL

Fetch == [NotReading EXCEPT !.pc = "fetch", !.started = now]
Shown(ids) == [NotReading EXCEPT !.pc = "shown", !.ids = ids, !.at = now]
Reading == {"fetch", "store"}

\* handleListMarkets and ListMarkets up to the answer of the cache.
ListMarkets(p) ==
    /\ reader[p].pc \notin Reading
    /\ reader' = IF ~is_found
                 THEN [reader EXCEPT ![p] = Fetch]
                 ELSE [reader EXCEPT ![p] = Shown(list.ids),
                                     ![Reload] = IF is_stale /\ @.pc = "none" THEN Fetch ELSE @]
    /\ UNCHANGED <<vars, flow, now, listed_at, list, last_failure>>

\* fetchMarketList: list_markets of the factory is simulated.
fetchMarketList(w) ==
    /\ reader[w].pc = "fetch"
    /\ reader' = [reader EXCEPT ![w] = [@ EXCEPT !.pc = "store", !.ids = markets]]
    /\ UNCHANGED <<vars, flow, now, listed_at, list, last_failure>>

\* Mutant: the answer is shown but not stored.
StoreList_not_stored(w) ==
    /\ reader[w].pc = "store"
    /\ list' = [list EXCEPT !.stored = now]
    /\ reader' = [reader EXCEPT ![w] = IF w = Reload THEN NotReading ELSE Shown(@.ids)]
    /\ UNCHANGED <<vars, flow, now, listed_at, last_failure>>

\* Set("all", ids), by ListMarkets or by the cache itself.
StoreList(w) ==
    /\ reader[w].pc = "store"
    /\ list' = [ids |-> reader[w].ids, stored |-> now]
    /\ reader' = [reader EXCEPT ![w] = IF w = Reload THEN NotReading ELSE Shown(@.ids)]
    /\ UNCHANGED <<vars, flow, now, listed_at, last_failure>>

\* Mutant: the page of a failed fetch is never answered.
ListFails_unanswered(p) ==
    /\ reader[p].pc = "fetch"
    /\ reader' = [reader EXCEPT ![p] = [NotReading EXCEPT !.pc = "lost"]]
    /\ UNCHANGED <<vars, flow, now, listed_at, list, last_failure>>

\* A page whose fetch fails says so.
ListFails(p) ==
    /\ reader[p].pc = "fetch"
    /\ reader' = [reader EXCEPT ![p] = [NotReading EXCEPT !.pc = "error"]]
    /\ UNCHANGED <<vars, flow, now, listed_at, list, last_failure>>

\* A reload fails: KeepOnError leaves the entry or renews it.
ReloadFails ==
    /\ reader[Reload].pc = "fetch"
    /\ list' \in {list, [list EXCEPT !.stored = now]}
    /\ reader' = [reader EXCEPT ![Reload] = NotReading]
    /\ last_failure' = now
    /\ UNCHANGED <<vars, flow, now, listed_at>>

ReadStep(w) == \/ fetchMarketList(w)
               \/ StoreList(w)
               \/ w \in ListPages /\ ListFails(w)
               \/ w = Reload /\ ReloadFails

\* Time passes; no fetch outlives its timeout.
Tick ==
    /\ now < MaxTime
    /\ \A w \in Readers : reader[w].pc \in Reading => now < reader[w].started + TIMEOUT
    /\ now' = now + 1
    /\ UNCHANGED <<vars, flow, listed_at, reading>>

ListingNext ==
    \/ \E d \in DeployIds : \/ PostDeploy(d)
                            \/ BuildDeployMarketTx(d)
                            \/ SimulateDeploy(d)
                            \/ DeployRpcFails(d)
                            \/ SubmitDeploy(d)
    \/ OutsideDeploy
    \/ Reconfigure
    \/ \E p \in ListPages : ListMarkets(p)
    \/ \E w \in Readers : ReadStep(w)
    \/ Tick

\* Every reader runs on, and every call it makes answers or fails.
ListingSpec == /\ ListingInit
               /\ [][ListingNext]_listing_vars
               /\ \A w \in Readers : WF_listing_vars(ReadStep(w))
-----------------------------------------------------------------------------
(***************************************************************************)
(* What the form accepts the constructor of the market accepts: 70% of b   *)
(* covers b * ln 2 in spite of the truncation of both numbers, unless b is *)
(* less than the smallest unit or a number was turned negative at the end  *)
(* of the int64 range.                                                     *)
(***************************************************************************)
FormCoversSubsidy ==
    \A d \in DeployIds :
        /\ deploy[d].stage \in {"build", "prepare", "handed_out"}
        /\ deploy[d].b > 0 /\ deploy[d].funding >= 0
        => constructor_ok(LmsrWasm, deploy[d].b, deploy[d].funding)

(***************************************************************************)
(* A page never shows a market the factory did not deploy, nor the markets *)
(* in another order; and a market that was deployed longer ago than the    *)
(* life of the cached list and one fetch is shown, unless a reload failed  *)
(* since it was deployed.                                                  *)
(***************************************************************************)
DeployedMarketsShown ==
    \A p \in ListPages : reader[p].pc = "shown" =>
        /\ IsPrefix(reader[p].ids, markets)
        /\ \A s \in occupied :
              /\ listed_at[s] + TTL + REVALIDATION + TIMEOUT <= reader[p].at
              /\ last_failure < listed_at[s]
              => s \in Range(reader[p].ids)

\* A request for the list is answered with a list or an error.
ListAnswered ==
    \A p \in ListPages : reader[p].pc \in Reading ~> reader[p].pc \in {"shown", "error"}
=============================================================================
