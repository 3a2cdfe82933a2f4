--------------------------- MODULE MarketMetadata ---------------------------
(***************************************************************************)
(* How the questions and descriptions of the markets are read from IPFS:   *)
(* ipfs.Client, buildMarketViews of the handler and warmupIPFSCache of     *)
(* cmd/total (internal/ipfs/client.go, internal/handler/market.go and      *)
(* cmd/total/main.go).                                                     *)
(*                                                                         *)
(* A page starts a goroutine per market and waits for all of them. On a    *)
(* miss of the cache the goroutine asks the gateway, and again after a     *)
(* growing pause as long as it is told to slow down. Two more workers fill *)
(* the cache with the same function: the warm-up when the process starts,  *)
(* and the reload of entries served after TTL. Whatever the gateway sends  *)
(* with status 200 is cached; only the page finds out that it is no JSON.  *)
(*                                                                         *)
(* Time is counted in ticks, and what has to know it counts how many have  *)
(* passed. Metadata of a hash never changes, so of an answer only whether  *)
(* it decodes is kept.                                                     *)
(***************************************************************************)
EXTENDS Integers, Sequences, FiniteSetsExt

CONSTANTS
    Hashes,                 \* MetadataHash of the markets
    Malformed,              \* the ones ValidateCID refuses
    WarmOrder,              \* the hashes in the order of the list of markets
    Pages,                  \* page requests in progress at a time
    Warm, Reload,           \* the goroutine of Warmup, the revalidation of the cache
    TTL,                    \* cacheTTL, WithTTL
    REVALIDATION,           \* cacheTTL, WithRevalidation
    TIMEOUT,                \* of one request in doFetch
    MaxRetries,             \* maxRetries
    INITIAL_BACKOFF,        \* initialBackoff
    MAX_BACKOFF             \* maxBackoff

ASSUME MetadataAssumption ==
    /\ Malformed \subseteq Hashes /\ WarmOrder \in Seq(Hashes)
    /\ {Warm, Reload} \cap Pages = {} /\ Warm # Reload
    /\ TTL \in Nat \ {0} /\ REVALIDATION \in Nat /\ TIMEOUT \in Nat /\ MaxRetries \in Nat
    /\ INITIAL_BACKOFF \in Nat /\ MAX_BACKOFF \in Nat /\ INITIAL_BACKOFF <= MAX_BACKOFF

Workers == Pages \cup {Warm, Reload}

\* An entry is served for so long.
Life == TTL + REVALIDATION

min(a, b) == IF a <= b THEN a ELSE b

\* The requests and the pauses of one fetch.
pause(n) == min(INITIAL_BACKOFF * 2^n, MAX_BACKOFF)
pauses == [n \in 0 .. MaxRetries - 1 |-> pause(n)]
MaxWait == (MaxRetries + 1) * TIMEOUT + SumFunctionOnSet(pauses, 0 .. MaxRetries - 1)

VARIABLES
    cache,                  \* external: samber/hot, an entry per hash or Empty
    fetch,                  \* the state of each worker's GetJSON or fetch of a hash
    page,                   \* the page requests
    warm,                   \* warmupIPFSCache and Warmup
    garbled                 \* history: how long ago the gateway last sent no JSON

vars == <<cache, fetch, page, warm, garbled>>

\* An entry past its life is as good as none, and a long time ago is Life;
\* waited, which is history, stops one tick after MaxWait.
Empty == [decodes |-> FALSE, age |-> Life]
Idle == [pc |-> "idle", age |-> 0, attempt |-> 0, backoff |-> 0]
NoPage == [pc |-> "none", waited |-> 0, cancelled |-> FALSE]

Fetching == {"request", "pause"}
Results == {"decoded", "garbled", "failed"}

Init ==
    /\ cache = [h \in Hashes |-> Empty]
    /\ fetch = [w \in Workers |-> [h \in Hashes |-> Idle]]
    /\ page = [p \in Pages |-> NoPage]
    /\ warm = [pc |-> "listing", todo |-> << >>]
    /\ garbled = [h \in Hashes |-> Life]
-----------------------------------------------------------------------------
(***************************************************************************)
(* fetchFromGateway, one action for each thing that can happen to it.      *)
(***************************************************************************)
Begin == [pc |-> "request", age |-> 0, attempt |-> 0, backoff |-> INITIAL_BACKOFF]

\* What is left of a fetch: the goroutines of a page keep its result.
Ended(w, result) ==
    IF w \in Pages THEN [Idle EXCEPT !.pc = result] ELSE Idle

Go(w, h, f) == fetch' = [fetch EXCEPT ![w][h] = f]

\* doFetch answers 200: cache.Set, and for a page json.Unmarshal.
Answered(w, h) ==
    /\ fetch[w][h].pc = "request"
    /\ \E decodes \in BOOLEAN :
         /\ cache' = [cache EXCEPT ![h] = [decodes |-> decodes, age |-> 0]]
         /\ garbled' = IF decodes THEN garbled ELSE [garbled EXCEPT ![h] = 0]
         /\ Go(w, h, Ended(w, IF decodes THEN "decoded" ELSE "garbled"))
    /\ UNCHANGED <<page, warm>>

\* Mutant: the last attempt is followed by another one.
may_retry_once_more(attempt) == attempt <= MaxRetries

may_retry(attempt) == attempt < MaxRetries

\* Mutant: the loader reports the error, so that KeepOnError keeps the entry.
after_failure_keep(w, h) ==
    IF w = Reload /\ cache[h] # Empty THEN [cache EXCEPT ![h].age = 0] ELSE cache

\* The loader skips a hash it cannot read and reports no error, so the entry
\* is not renewed by KeepOnError.
after_failure(w, h) == cache

\* doFetch answers 429, maybe for the last time.
RateLimited(w, h) ==
    LET f == fetch[w][h] IN
    /\ f.pc = "request"
    /\ IF may_retry(f.attempt)
       THEN /\ Go(w, h, [f EXCEPT !.pc = "pause", !.age = 0, !.attempt = @ + 1])
            /\ UNCHANGED cache
       ELSE Go(w, h, Ended(w, "failed")) /\ cache' = after_failure(w, h)
    /\ UNCHANGED <<page, warm, garbled>>

\* The pause is over.
Retry(w, h) ==
    LET f == fetch[w][h] IN
    /\ f.pc = "pause"
    /\ f.age >= f.backoff
    /\ Go(w, h, [f EXCEPT !.pc = "request", !.age = 0,
                          !.backoff = min(2 * @, MAX_BACKOFF)])
    /\ UNCHANGED <<cache, page, warm, garbled>>

\* Any other error of doFetch, its timeout included.
RequestFails(w, h) ==
    /\ fetch[w][h].pc = "request"
    /\ Go(w, h, Ended(w, "failed"))
    /\ cache' = after_failure(w, h)
    /\ UNCHANGED <<page, warm, garbled>>

\* The reader has left: ctx ends the request or the pause.
ContextDone(p, h) ==
    /\ page[p].cancelled
    /\ fetch[p][h].pc \in Fetching
    /\ Go(p, h, Ended(p, "failed"))
    /\ UNCHANGED <<cache, page, warm, garbled>>

Gateway(w, h) == Answered(w, h) \/ RateLimited(w, h) \/ RequestFails(w, h) \/ Retry(w, h)
-----------------------------------------------------------------------------
(***************************************************************************)
(* The pages.                                                              *)
(***************************************************************************)
is_found(h) == cache[h].age < Life
is_stale(h) == is_found(h) /\ cache[h].age >= TTL

\* buildMarketViews for the list of the markets; a market without metadata
\* has no goroutine here, and the page of one market has one.
StartPage(p, hashes) ==
    /\ page[p].pc = "none"
    /\ page' = [page EXCEPT ![p] = [NoPage EXCEPT !.pc = "waiting"]]
    /\ fetch' = [fetch EXCEPT ![p] = [h \in Hashes |->
                    IF h \in hashes THEN [Idle EXCEPT !.pc = "lookup"] ELSE Idle]]
    /\ UNCHANGED <<cache, warm, garbled>>

\* GetJSON: the cache, and on a miss the gateway.
GetJSON(p, h) ==
    /\ fetch[p][h].pc = "lookup"
    /\ fetch' = CASE is_found(h) ->
                       [fetch EXCEPT
                         ![p][h] = Ended(p, IF cache[h].decodes THEN "decoded" ELSE "garbled"),
                         ![Reload][h] = IF is_stale(h) /\ @.pc = "idle" THEN Begin ELSE @]
                  [] ~is_found(h) /\ h \in Malformed ->
                       [fetch EXCEPT ![p][h] = Ended(p, "failed")]
                  [] OTHER -> [fetch EXCEPT ![p][h] = Begin]
    /\ UNCHANGED <<cache, page, warm, garbled>>

\* Mutant: a page whose reader has left waits for no one and is never done.
is_complete_unless_cancelled(p) ==
    /\ page[p].pc = "waiting" /\ ~page[p].cancelled
    /\ \A h \in Hashes : fetch[p][h].pc \in Results \cup {"idle"}

is_complete(p) ==
    /\ page[p].pc = "waiting"
    /\ \A h \in Hashes : fetch[p][h].pc \in Results \cup {"idle"}

\* wg.Wait; a market whose metadata is missing is shown with its ID.
FinishPage(p) ==
    /\ is_complete(p)
    /\ page' = [page EXCEPT ![p] = NoPage]
    /\ fetch' = [fetch EXCEPT ![p] = [h \in Hashes |-> Idle]]
    /\ UNCHANGED <<cache, warm, garbled>>

\* External: the reader closes the connection, and the server cancels r.Context().
Leave(p) ==
    /\ page[p].pc = "waiting" /\ ~page[p].cancelled
    /\ page' = [page EXCEPT ![p].cancelled = TRUE]
    /\ UNCHANGED <<cache, fetch, warm, garbled>>
-----------------------------------------------------------------------------
(***************************************************************************)
(* The start of the process.                                               *)
(***************************************************************************)
\* ListMarkets and GetMarketStates answer, or there is nothing to warm up.
warmupIPFSCache ==
    /\ warm.pc = "listing"
    /\ warm' \in {[pc |-> "fetching", todo |-> WarmOrder], [pc |-> "done", todo |-> << >>]}
    /\ UNCHANGED <<cache, fetch, page, garbled>>

\* One hash after the other, the ones that fail are left out.
Warmup ==
    /\ warm.pc = "fetching"
    /\ \A h \in Hashes : fetch[Warm][h].pc = "idle"
    /\ IF warm.todo = << >>
       THEN warm' = [warm EXCEPT !.pc = "done"] /\ UNCHANGED fetch
       ELSE /\ warm' = [warm EXCEPT !.todo = Tail(@)]
            /\ IF Head(warm.todo) \in Malformed THEN UNCHANGED fetch
               ELSE Go(Warm, Head(warm.todo), Begin)
    /\ UNCHANGED <<cache, page, garbled>>

aged(entry) == IF entry.age + 1 < Life THEN [entry EXCEPT !.age = @ + 1] ELSE Empty

\* Time passes; no request outlives its timeout, a pause ends when it is over,
\* and what needs no call takes no time.
Tick ==
    /\ \A p \in Pages : ~is_complete(p) /\ \A h \in Hashes : fetch[p][h].pc # "lookup"
    /\ \A w \in Workers, h \in Hashes : LET f == fetch[w][h] IN
          /\ f.pc = "request" => f.age < TIMEOUT
          /\ f.pc = "pause" => f.age < f.backoff
    /\ cache' = [h \in Hashes |-> aged(cache[h])]
    /\ fetch' = [w \in Workers |-> [h \in Hashes |->
          IF fetch[w][h].pc \in Fetching THEN [fetch[w][h] EXCEPT !.age = @ + 1] ELSE fetch[w][h]]]
    /\ page' = [p \in Pages |->
          IF page[p].pc = "waiting" THEN [page[p] EXCEPT !.waited = min(@ + 1, MaxWait + 1)]
                                    ELSE page[p]]
    /\ garbled' = [h \in Hashes |-> min(garbled[h] + 1, Life)]
    /\ UNCHANGED warm

Next ==
    \/ \E w \in Workers, h \in Hashes : Gateway(w, h)
    \/ \E p \in Pages, h \in Hashes : GetJSON(p, h) \/ ContextDone(p, h)
    \/ \E p \in Pages : \/ \E hashes \in SUBSET Hashes : StartPage(p, hashes)
                        \/ FinishPage(p)
                        \/ Leave(p)
    \/ warmupIPFSCache \/ Warmup \/ Tick

(***************************************************************************)
(* Goroutines run, requests end and time passes, however many pages that   *)
(* need no time are served. Nothing makes the gateway answer well.         *)
(***************************************************************************)
Spec ==
    /\ Init
    /\ [][Next]_vars
    /\ \A w \in Workers, h \in Hashes : WF_vars(Gateway(w, h))
    /\ \A p \in Pages, h \in Hashes : WF_vars(GetJSON(p, h))
    /\ \A p \in Pages : WF_vars(FinishPage(p))
    /\ WF_vars(warmupIPFSCache) /\ WF_vars(Warmup) /\ SF_vars(Tick)
-----------------------------------------------------------------------------
(***************************************************************************)
(* However slow the gateway and however often it says 429, a page waits    *)
(* for its metadata no longer than the requests and pauses of one hash     *)
(* take, whatever the warm-up and the reloads do at the same time.         *)
(***************************************************************************)
WaitBounded ==
    \A p \in Pages : page[p].pc = "waiting" => page[p].waited <= MaxWait

(***************************************************************************)
(* An answer that is no JSON is cached like any other, but is forgotten:   *)
(* no page fails to decode metadata that the gateway did not garble within *)
(* the life of a cache entry, even when all reloads since have failed.     *)
(***************************************************************************)
GarbledAnswersForgotten ==
    [][\A p \in Pages, h \in Hashes :
         fetch[p][h].pc # "garbled" /\ fetch'[p][h].pc = "garbled"
            => garbled'[h] < Life]_vars

(***************************************************************************)
(* Every page gets past its metadata, also when the gateway fails or the   *)
(* reader leaves, and the warm-up comes to an end.                         *)
(***************************************************************************)
MetadataAnswered ==
    /\ \A p \in Pages : page[p].pc = "waiting" ~> page[p].pc = "none"
    /\ warm.pc # "done" ~> warm.pc = "done"
=============================================================================
