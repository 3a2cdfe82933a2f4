---------------------------- MODULE MarketStates ----------------------------
(***************************************************************************)
(* How the pages of the application read the markets:                      *)
(* FactoryService.GetMarketStates, fetchMarketState and StateCache         *)
(* (internal/service/factory.go and cache.go).                             *)
(*                                                                         *)
(* A page starts one goroutine per market and waits for all of them. Each  *)
(* looks into the cache and, on a miss, reads the contract by two or three *)
(* separate simulations and stores the answer. A hit on an entry older     *)
(* than TTL also starts a reload in the background, one at a time per      *)
(* market. The market keeps changing meanwhile, any of the reads may fail, *)
(* and a slow reader may store an older answer over a newer one.           *)
(*                                                                         *)
(* Time is counted in ticks. Of a state of the contract only the time it   *)
(* was read and whether the market was resolved are kept.                  *)
(***************************************************************************)
EXTENDS Integers, FiniteSets

CONSTANTS
    Markets,                \* contract IDs
    Decided,                \* bound of the model: the markets that are ever resolved
    Pages,                  \* page requests in progress at a time
    Background,             \* the revalidation of the cache
    TTL,                    \* marketStateCacheTTL, WithTTL
    REVALIDATION,           \* marketStateCacheTTL, WithRevalidation
    TIMEOUT,                \* a fetch ends by its context or the HTTP clients' timeouts
    MaxTime                 \* bound of the model

ASSUME TimesAssumption ==
    /\ Decided \subseteq Markets
    /\ Background \notin Pages
    /\ TTL \in Nat \ {0} /\ REVALIDATION \in Nat
    /\ TIMEOUT \in Nat /\ MaxTime \in Nat

Workers == Pages \cup {Background}

VARIABLES
    now,
    resolved_at,            \* external: when each market was resolved, Never before
    cache,                  \* external: samber/hot, an entry per market or Empty
    task,                   \* the goroutine of each worker and market
    page                    \* the page requests

vars == <<now, resolved_at, cache, task, page>>

Never == MaxTime + 1

\* A MarketState: when get_state answered, whether the market was resolved,
\* and whether WinningOutcome is filled in. Nothing has ContractID = "".
Nothing == [as_of |-> -1, resolved |-> FALSE, outcome |-> FALSE]
States == [as_of : 0 .. MaxTime, resolved : BOOLEAN, outcome : BOOLEAN]

Empty == [state |-> Nothing, stored |-> -1]

Fetching == {"get_state", "get_winning_outcome", "get_metadata_hash"}
Idle == [pc |-> "idle", started |-> 0, state |-> Nothing]

Init ==
    /\ now = 0
    /\ resolved_at = [m \in Markets |-> Never]
    /\ cache = [m \in Markets |-> Empty]
    /\ task = [w \in Workers |-> [m \in Markets |-> Idle]]
    /\ page = [p \in Pages |-> [pc |-> "none", at |-> 0]]
-----------------------------------------------------------------------------
Go(w, m, t) == task' = [task EXCEPT ![w][m] = t]

is_found(m) == cache[m] # Empty /\ now < cache[m].stored + TTL + REVALIDATION
is_stale(m) == is_found(m) /\ now >= cache[m].stored + TTL

\* GetMarketStates: one goroutine per contract ID.
StartPage(p) ==
    /\ page[p].pc # "waiting"
    /\ page' = [page EXCEPT ![p] = [pc |-> "waiting", at |-> 0]]
    /\ task' = [task EXCEPT ![p] = [m \in Markets |-> [Idle EXCEPT !.pc = "lookup"]]]
    /\ UNCHANGED <<now, resolved_at, cache>>

\* StateCache.Get, then the return of the goroutine or the start of a fetch.
\* A hit on a stale entry reloads it in the background.
Lookup(p, m) ==
    /\ task[p][m].pc = "lookup"
    /\ task' = IF ~is_found(m)
               THEN [task EXCEPT ![p][m] = [@ EXCEPT !.pc = "get_state", !.started = now]]
               ELSE [task EXCEPT
                       ![p][m] = [@ EXCEPT !.pc = "done", !.state = cache[m].state],
                       ![Background][m] =
                          IF is_stale(m) /\ @.pc = "idle"
                          THEN [Idle EXCEPT !.pc = "get_state", !.started = now]
                          ELSE @]
    /\ UNCHANGED <<now, resolved_at, cache, page>>

\* fetchMarketState: get_state answers, and a resolved market is asked for
\* its outcome next.
GetState(w, m) ==
    /\ task[w][m].pc = "get_state"
    /\ LET resolved == resolved_at[m] <= now IN
         Go(w, m, [task[w][m] EXCEPT
                     !.pc = IF resolved THEN "get_winning_outcome" ELSE "get_metadata_hash",
                     !.state = [as_of |-> now, resolved |-> resolved, outcome |-> FALSE]])
    /\ UNCHANGED <<now, resolved_at, cache, page>>

\* Mutant: the error leaves a zero state behind.
fetch_failed_zero_state(w, m) ==
    [task[w][m] EXCEPT !.pc = "done",
                       !.state = [as_of |-> now, resolved |-> FALSE, outcome |-> FALSE]]

\* Mutant: the goroutine of a failed fetch never calls wg.Done.
fetch_failed_no_done(w, m) == [Idle EXCEPT !.pc = "lost"]

fetch_failed(w, m) == IF w = Background THEN Idle ELSE [Idle EXCEPT !.pc = "failed"]

\* Mutant: the loader reports the error, so that KeepOnError keeps the entry.
after_failure_keep(w, m) ==
    IF w = Background /\ cache[m] # Empty
    THEN [cache EXCEPT ![m].stored = now]
    ELSE cache

\* The loader skips a market it cannot read and reports no error, so the
\* entry is not renewed by KeepOnError.
after_failure(w, m) == cache

\* get_state fails: the goroutine reports the error and is done.
GetStateFails(w, m) ==
    /\ task[w][m].pc = "get_state"
    /\ Go(w, m, fetch_failed(w, m))
    /\ cache' = after_failure(w, m)
    /\ UNCHANGED <<now, resolved_at, page>>

\* getWinningOutcome; an error is logged and leaves WinningOutcome empty.
GetWinningOutcome(w, m) ==
    /\ task[w][m].pc = "get_winning_outcome"
    /\ \E ok \in BOOLEAN :
         Go(w, m, [task[w][m] EXCEPT !.pc = "get_metadata_hash", !.state.outcome = ok])
    /\ UNCHANGED <<now, resolved_at, cache, page>>

\* getMetadataHash, whose error is ignored too, then StateCache.Set and
\* states[idx] = *state.
GetMetadataHash(w, m) ==
    /\ task[w][m].pc = "get_metadata_hash"
    /\ cache' = [cache EXCEPT ![m] = [state |-> task[w][m].state, stored |-> now]]
    /\ Go(w, m, IF w = Background THEN Idle
                ELSE [task[w][m] EXCEPT !.pc = "done", !.started = 0])
    /\ UNCHANGED <<now, resolved_at, page>>

is_complete(p) ==
    page[p].pc = "waiting" /\ \A m \in Markets : task[p][m].pc \in {"done", "failed"}

\* wg.Wait, the filter of the valid states, the error when there is none.
FinishPage(p) ==
    /\ is_complete(p)
    /\ page' = [page EXCEPT ![p] =
          [pc |-> IF \A m \in Markets : task[p][m].pc = "failed" THEN "error" ELSE "shown",
           at |-> now]]
    /\ UNCHANGED <<now, resolved_at, cache, task>>

\* External: the oracle resolves a market.
Resolve(m) ==
    /\ m \in Decided
    /\ resolved_at[m] = Never
    /\ resolved_at' = [resolved_at EXCEPT ![m] = now]
    /\ UNCHANGED <<now, cache, task, page>>

\* Time passes; no fetch outlives its timeout, and what needs no call takes
\* no time.
Tick ==
    /\ now < MaxTime
    /\ \A p \in Pages : ~is_complete(p) /\ \A m \in Markets : task[p][m].pc # "lookup"
    /\ \A w \in Workers, m \in Markets :
          task[w][m].pc \in Fetching => now < task[w][m].started + TIMEOUT
    /\ now' = now + 1
    /\ UNCHANGED <<resolved_at, cache, task, page>>

Fetch(w, m) == \/ GetState(w, m)
               \/ GetStateFails(w, m)
               \/ GetWinningOutcome(w, m)
               \/ GetMetadataHash(w, m)

Next ==
    \/ \E p \in Pages : StartPage(p) \/ FinishPage(p) \/ \E m \in Markets : Lookup(p, m)
    \/ \E w \in Workers, m \in Markets : Fetch(w, m)
    \/ \E m \in Markets : Resolve(m)
    \/ Tick

(***************************************************************************)
(* Every goroutine runs on, and every call it makes answers or fails.      *)
(***************************************************************************)
Fairness ==
    /\ \A p \in Pages : WF_vars(FinishPage(p))
    /\ \A p \in Pages, m \in Markets : WF_vars(Lookup(p, m))
    /\ \A w \in Workers, m \in Markets : WF_vars(Fetch(w, m))

Spec == Init /\ [][Next]_vars /\ Fairness
-----------------------------------------------------------------------------
shown(p) == {m \in Markets : page[p].pc = "shown" /\ task[p][m].pc = "done"}

(***************************************************************************)
(* What a page shows is never older than the life of a cache entry and two *)
(* fetches (the one that filled the entry and the one the page waited for),*)
(* although a reload may fail again and again and a slow fetch may store   *)
(* an older state over a newer one.                                        *)
(***************************************************************************)
StalenessBounded ==
    \A p \in Pages : \A m \in shown(p) :
        page[p].at - task[p][m].state.as_of < TTL + REVALIDATION + 2 * TIMEOUT

(***************************************************************************)
(* A page never shows a market in a state it was not in: resolved and      *)
(* unresolved are what the contract said at as_of, and a winner is named   *)
(* only for a resolved market. A failed read shows no market at all.       *)
(***************************************************************************)
ShownStatesAreReal ==
    \A p \in Pages : \A m \in shown(p) :
        LET s == task[p][m].state IN
        /\ s \in States
        /\ s.resolved => resolved_at[m] <= s.as_of
        /\ ~s.resolved => s.as_of <= resolved_at[m]
        /\ s.outcome => s.resolved

\* Every page is answered: GetMarketStates never waits for ever on a
\* goroutine, whichever reads fail.
PageAnswered ==
    \A p \in Pages : page[p].pc = "waiting" ~> page[p].pc \in {"shown", "error"}
=============================================================================
