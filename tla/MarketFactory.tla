--------------------------- MODULE MarketFactory ---------------------------
(***************************************************************************)
(* The factory contract contracts/market_factory/src/lib.rs: it deploys    *)
(* one LmsrMarket contract per call and keeps the list the application     *)
(* shows. The address of a market is a function of the factory and the     *)
(* salt, so a salt stands for the address; ledger is what the network      *)
(* keeps under it. A call is atomic: when the constructor of the market    *)
(* panics nothing of deploy_market remains.                                *)
(***************************************************************************)
EXTENDS Integers, Sequences, SequencesExt

CONSTANTS
    Accounts,
    None,                   \* a key that is not stored, an unused address
    Salts,
    Wasms,                  \* hashes of installed contract code
    LmsrWasm,               \* the one of lmsr_market; others may be set
    Tokens,
    LiquidityArgs,
    FundingArgs,
    MAX_FUNDING,            \* i128::MAX / 2
    InitialLiquidity(_)    \* lmsr::initial_liquidity

Market == [oracle : Accounts, wasm : Wasms, token : Tokens,
           b : LiquidityArgs, funding : FundingArgs]

ASSUME FactoryAssumption ==
    /\ None \notin Accounts \cup Wasms \cup Tokens \cup Market
    /\ LmsrWasm \in Wasms
    /\ LiquidityArgs \subseteq Int
    /\ FundingArgs \subseteq Int
    /\ MAX_FUNDING \in Nat
    /\ \A b \in LiquidityArgs : b > 0 => InitialLiquidity(b) \in Nat

VARIABLES
    admin,                      \* DataKey::Admin
    market_wasm_hash,           \* DataKey::MarketWasmHash
    default_collateral_token,   \* DataKey::DefaultCollateralToken
    markets,                    \* DataKey::Markets
    ledger,                     \* external: the contract at each address
    caller                      \* history: who authorised the last step

config == <<market_wasm_hash, default_collateral_token>>
vars == <<admin, config, markets, ledger, caller>>

occupied == {s \in Salts : ledger[s] # None}

is_initialized == admin # None

Init ==
    /\ admin = None
    /\ market_wasm_hash = None
    /\ default_collateral_token = None
    /\ markets = << >>
    /\ ledger = [s \in Salts |-> None]
    /\ caller = None
-----------------------------------------------------------------------------
\* Mutant: a second initialize is accepted.
initialize_again(a, wasm, token) ==
    /\ admin' = a
    /\ market_wasm_hash' = wasm
    /\ default_collateral_token' = token
    /\ markets' = << >>
    /\ caller' = a
    /\ UNCHANGED ledger

\* Mutant: the default token is not stored.
initialize_without_token(a, wasm, token) ==
    /\ ~is_initialized
    /\ admin' = a
    /\ market_wasm_hash' = wasm
    /\ markets' = << >>
    /\ caller' = a
    /\ UNCHANGED <<default_collateral_token, ledger>>

initialize(a, wasm, token) ==
    /\ ~is_initialized
    /\ admin' = a
    /\ market_wasm_hash' = wasm
    /\ default_collateral_token' = token
    /\ markets' = << >>
    /\ caller' = a
    /\ UNCHANGED ledger

\* Mutant: the constructor drops the error of initialize.
constructor_ok_ignores_error(wasm, b, initial_funding) == TRUE

\* LmsrMarket::__constructor succeeds; of other code nothing is known.
constructor_ok(wasm, b, initial_funding) ==
    wasm = LmsrWasm => /\ b > 0
                       /\ initial_funding >= InitialLiquidity(b)
                       /\ initial_funding <= MAX_FUNDING

\* External: the host refuses an address that is in use.
deploy_v2(salt, market) ==
    /\ ledger[salt] = None
    /\ constructor_ok(market.wasm, market.b, market.funding)
    /\ ledger' = [ledger EXCEPT ![salt] = market]

\* Mutant: the list is rewritten with the new market only.
deploy_market_loses_list(oracle, b, initial_funding, salt) ==
    /\ is_initialized
    /\ deploy_v2(salt, [oracle |-> oracle, wasm |-> market_wasm_hash,
                        token |-> default_collateral_token,
                        b |-> b, funding |-> initial_funding])
    /\ markets' = <<salt>>
    /\ caller' = oracle
    /\ UNCHANGED <<admin, config>>

deploy_market(oracle, b, initial_funding, salt) ==
    /\ is_initialized
    /\ deploy_v2(salt, [oracle |-> oracle, wasm |-> market_wasm_hash,
                        token |-> default_collateral_token,
                        b |-> b, funding |-> initial_funding])
    /\ markets' = Append(markets, salt)
    /\ caller' = oracle
    /\ UNCHANGED <<admin, config>>

\* Mutant: any initialised factory accepts any caller.
require_admin_skipped(a) == is_initialized

require_admin(a) == is_initialized /\ a = admin

set_market_wasm_hash(a, wasm) ==
    /\ require_admin(a)
    /\ market_wasm_hash' = wasm
    /\ caller' = a
    /\ UNCHANGED <<admin, default_collateral_token, markets, ledger>>

set_default_collateral_token(a, token) ==
    /\ require_admin(a)
    /\ default_collateral_token' = token
    /\ caller' = a
    /\ UNCHANGED <<admin, market_wasm_hash, markets, ledger>>

Initialize == \E a \in Accounts, w \in Wasms, t \in Tokens : initialize(a, w, t)
DeployMarket == \E a \in Accounts, b \in LiquidityArgs, f \in FundingArgs, s \in Salts :
                  deploy_market(a, b, f, s)
SetMarketWasmHash == \E a \in Accounts, w \in Wasms : set_market_wasm_hash(a, w)
SetDefaultCollateralToken ==
    \E a \in Accounts, t \in Tokens : set_default_collateral_token(a, t)

Next == \/ Initialize
        \/ DeployMarket
        \/ SetMarketWasmHash
        \/ SetDefaultCollateralToken

Spec == Init /\ [][Next]_vars
-----------------------------------------------------------------------------
\* The storage and the ledger hold values of their types; once the
\* factory is initialised no key is missing (StorageCorrupted never occurs).
TypeOK ==
    /\ admin \in Accounts \cup {None}
    /\ market_wasm_hash \in Wasms \cup {None}
    /\ default_collateral_token \in Tokens \cup {None}
    /\ markets \in Seq(Salts)
    /\ ledger \in [Salts -> Market \cup {None}]
    /\ caller \in Accounts \cup {None}
    /\ is_initialized <=> market_wasm_hash # None
    /\ is_initialized <=> default_collateral_token # None
    /\ ~is_initialized => markets = << >>

(***************************************************************************)
(* The list names every contract the factory deployed, and each once: a    *)
(* deployment that fails in the constructor leaves no entry, one that      *)
(* reuses a salt does not list an address twice.                           *)
(***************************************************************************)
MarketsMatchLedger ==
    /\ Range(markets) = occupied
    /\ \A i, j \in DOMAIN markets : markets[i] = markets[j] => i = j

(***************************************************************************)
(* A listed market that runs the lmsr_market code was funded for its b, so *)
(* the solvency results of LmsrMarket apply to every market the factory    *)
(* lists, whichever configuration was current when it was deployed.        *)
(***************************************************************************)
ListedMarketsFunded ==
    \A s \in Range(markets) : ledger[s].wasm = LmsrWasm =>
        /\ ledger[s].b > 0
        /\ ledger[s].funding \in InitialLiquidity(ledger[s].b) .. MAX_FUNDING

(***************************************************************************)
(* The list only grows at its end, so an index given out by get_market     *)
(* keeps naming the same market, and no call, a change of the default      *)
(* token or code included, alters a market that was deployed earlier.      *)
(***************************************************************************)
DeploymentsPermanent ==
    [][/\ IsPrefix(markets, markets')
       /\ \A s \in occupied : ledger'[s] = ledger[s]]_vars

(***************************************************************************)
(* Once the factory is initialised its admin never changes, and only the   *)
(* admin changes what later markets are deployed with.                     *)
(***************************************************************************)
AdminControlsConfig ==
    [][is_initialized => /\ admin' = admin
                         /\ config' # config => caller' = admin]_vars
=============================================================================
