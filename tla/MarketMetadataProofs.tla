------------------------ MODULE MarketMetadataProofs ------------------------
(***************************************************************************)
(* How long a page waits for metadata and how long an answer that is no    *)
(* JSON is remembered, for every set of markets, every number of pages and *)
(* retries and every timeout.                                              *)
(***************************************************************************)
EXTENDS MarketMetadata, SumProofs

(***************************************************************************)
(* The pauses.                                                             *)
(***************************************************************************)
\* The first pause is initialBackoff, and each is twice the one before or
\* maxBackoff.
LEMMA PauseFacts ==
    ASSUME NEW n \in Nat
    PROVE  /\ pause(n) \in Nat
           /\ pause(0) = INITIAL_BACKOFF
           /\ pause(n + 1) = min(2 * pause(n), MAX_BACKOFF)
<1> DEFINE x == 2^n
           y == INITIAL_BACKOFF * x
<1>1. x \in Nat /\ 2^(n + 1) = 2 * x
  BY PowerIsNatural, PowerDoubles
<1>2. /\ INITIAL_BACKOFF \in Nat /\ MAX_BACKOFF \in Nat
      /\ INITIAL_BACKOFF <= MAX_BACKOFF
  BY MetadataAssumption
<1>3. pause(n) = min(y, MAX_BACKOFF) /\ pause(n + 1) = min(INITIAL_BACKOFF * (2 * x), MAX_BACKOFF)
  BY <1>1 DEF pause
<1> HIDE DEF x
<1>4. y \in Nat /\ INITIAL_BACKOFF * (2 * x) = 2 * y
  BY <1>1, <1>2
<1> HIDE DEF y
<1>5. pause(n) \in Nat /\ pause(n + 1) = min(2 * pause(n), MAX_BACKOFF)
  BY <1>2, <1>3, <1>4 DEF min
<1>6. 2^0 = 1
  OBVIOUS
<1>7. pause(0) = INITIAL_BACKOFF
  BY <1>2, <1>6 DEF pause, min
<1>8. QED
  BY <1>5, <1>7

\* What a fetch may still take after the request of an attempt: the pauses
\* and the requests that are left.
Left(a) == (MaxRetries - a) * TIMEOUT + SumFunctionOnSet(pauses, a .. MaxRetries - 1)

LEMMA LeftFacts ==
    ASSUME NEW a \in 0 .. MaxRetries
    PROVE  /\ Left(a) \in Nat
           /\ a < MaxRetries => Left(a) = pause(a) + TIMEOUT + Left(a + 1)
           /\ MaxWait = TIMEOUT + Left(0)
           /\ MaxWait \in Nat
<1>1. MaxRetries \in Nat /\ TIMEOUT \in Nat
  BY MetadataAssumption
<1>2. \A n \in 0 .. MaxRetries - 1 : pauses[n] = pause(n) /\ pauses[n] \in Nat /\ pauses[n] \in Int
  BY <1>1, PauseFacts DEF pauses
<1>3. ASSUME NEW i \in 0 .. MaxRetries
      PROVE  /\ SumFunctionOnSet(pauses, i .. MaxRetries - 1) \in Nat
             /\ IsFiniteSet(i .. MaxRetries - 1)
             /\ \A n \in i .. MaxRetries - 1 : pauses[n] \in Int
             /\ Left(i) \in Nat
  <2>1. IsFiniteSet(i .. MaxRetries - 1)
    BY <1>1, FS_Interval
  <2>2. \A n \in i .. MaxRetries - 1 : pauses[n] \in Nat /\ pauses[n] \in Int
    BY <1>1, <1>2
  <2>3. SumFunctionOnSet(pauses, i .. MaxRetries - 1) \in Nat
    BY <2>1, <2>2, SumNatural
  <2>4. (MaxRetries - i) * TIMEOUT \in Nat
    <3>1. MaxRetries - i \in Nat
      BY <1>1
    <3>2. \A j, k \in Nat : j * k \in Nat
      OBVIOUS
    <3> QED BY <1>1, <3>1, <3>2
  <2>5. Left(i) \in Nat
    BY <2>3, <2>4 DEF Left
  <2> QED BY <2>1, <2>2, <2>3, <2>5
<1>4. ASSUME a < MaxRetries PROVE Left(a) = pause(a) + TIMEOUT + Left(a + 1)
  <2>1. a \in a .. MaxRetries - 1 /\ (a .. MaxRetries - 1) \ {a} = a + 1 .. MaxRetries - 1
    BY <1>1, <1>4
  <2>2. SumFunctionOnSet(pauses, a .. MaxRetries - 1)
          = pauses[a] + SumFunctionOnSet(pauses, (a .. MaxRetries - 1) \ {a})
    BY <1>3, <2>1, SumRemove
  <2>3. pauses[a] = pause(a) /\ pause(a) \in Nat
    BY <1>1, <1>2, <1>4
  <2>4. a + 1 \in 0 .. MaxRetries
    BY <1>1, <1>4
  <2>5. SumFunctionOnSet(pauses, a + 1 .. MaxRetries - 1) \in Nat
    BY <1>3, <2>4
  <2> DEFINE t == (MaxRetries - (a + 1)) * TIMEOUT
  <2>6. (MaxRetries - a) * TIMEOUT = t + TIMEOUT /\ t \in Int
    <3>1. \A j, k \in Int : (j + 1) * k = j * k + k /\ j * k \in Int
      OBVIOUS
    <3>2. MaxRetries - a = (MaxRetries - (a + 1)) + 1 /\ MaxRetries - (a + 1) \in Int
      BY <1>1
    <3> QED BY <1>1, <3>1, <3>2
  <2> HIDE DEF t
  <2>7. Left(a + 1) = t + SumFunctionOnSet(pauses, a + 1 .. MaxRetries - 1)
    BY DEF Left, t
  <2>8. Left(a) = t + TIMEOUT + (pause(a) + SumFunctionOnSet(pauses, a + 1 .. MaxRetries - 1))
    BY <2>1, <2>2, <2>3, <2>6 DEF Left
  <2> QED BY <1>1, <2>3, <2>5, <2>6, <2>7, <2>8
<1>5. MaxWait = TIMEOUT + Left(0)
  <2>1. SumFunctionOnSet(pauses, 0 .. MaxRetries - 1) \in Nat
    BY <1>1, <1>3
  <2>2. (MaxRetries + 1) * TIMEOUT = MaxRetries * TIMEOUT + TIMEOUT /\ MaxRetries * TIMEOUT \in Nat
    <3>1. \A j, k \in Nat : (j + 1) * k = j * k + k /\ j * k \in Nat
      OBVIOUS
    <3> QED BY <1>1, <3>1
  <2>3. MaxRetries - 0 = MaxRetries
    BY <1>1
  <2>4. Left(0) = MaxRetries * TIMEOUT + SumFunctionOnSet(pauses, 0 .. MaxRetries - 1)
    BY <2>3 DEF Left
  <2> QED BY <1>1, <2>1, <2>2, <2>4 DEF MaxWait
<1>6. Left(0) \in Nat
  BY <1>1, <1>3
<1>7. QED
  BY <1>1, <1>3, <1>4, <1>5, <1>6
-----------------------------------------------------------------------------
(***************************************************************************)
(* The inductive invariant. WaitBounded alone does not survive Tick: that  *)
(* it does follows from the time each fetch of the page still may take,    *)
(* which FetchOK keeps, and from the fact that time passes only while some *)
(* fetch of the page goes on. CacheExplained says why an entry that does   *)
(* not decode is there.                                                    *)
(***************************************************************************)
FetchStates ==
    [pc : {"idle", "lookup"} \cup Fetching \cup Results, age : Nat,
     attempt : 0 .. MaxRetries, backoff : Nat]
Entries == [decodes : BOOLEAN, age : 0 .. Life]
PageStates == [pc : {"none", "waiting"}, waited : Nat, cancelled : BOOLEAN]

MetadataTypeOK ==
    /\ cache \in [Hashes -> Entries]
    /\ fetch \in [Workers -> [Hashes -> FetchStates]]
    /\ page \in [Pages -> PageStates]
    /\ garbled \in [Hashes -> 0 .. Life]

CacheExplained == \A h \in Hashes : ~cache[h].decodes => garbled[h] <= cache[h].age

FetchOK(g, f) ==
    /\ f.pc = "lookup" => g.waited = 0
    /\ f.pc = "request" =>
          /\ f.age <= TIMEOUT /\ f.backoff = pause(f.attempt)
          /\ g.waited + (TIMEOUT - f.age) + Left(f.attempt) <= MaxWait
    /\ f.pc = "pause" =>
          /\ f.attempt > 0 /\ f.age <= f.backoff /\ f.backoff = pause(f.attempt - 1)
          /\ g.waited + (f.backoff - f.age) + TIMEOUT + Left(f.attempt) <= MaxWait

PageOK(g, fs) ==
    g.pc = "waiting" => /\ g.waited <= MaxWait
                        /\ \A h \in Hashes : FetchOK(g, fs[h])

PagesOK == \A p \in Pages : PageOK(page[p], fetch[p])

MInv == MetadataTypeOK /\ CacheExplained /\ PagesOK

\* The constants of the code, and the states a fetch starts and ends in.
LEMMA MetadataConstants ==
    /\ TIMEOUT \in Nat /\ MaxRetries \in Nat /\ Life \in Nat /\ Life > 0
    /\ TTL \in Nat /\ 0 \in 0 .. MaxRetries /\ 0 \in 0 .. Life /\ Life \in 0 .. Life
  BY MetadataAssumption DEF Life

LEMMA FetchEnds ==
    /\ Idle \in FetchStates /\ Idle.pc = "idle"
    /\ [Idle EXCEPT !.pc = "lookup"] \in FetchStates
    /\ [Idle EXCEPT !.pc = "lookup"].pc = "lookup"
    /\ \A w, result : result \in Results =>
          Ended(w, result) \in FetchStates /\ Ended(w, result).pc \in Results \cup {"idle"}
<1>1. 0 \in 0 .. MaxRetries
  BY MetadataConstants
<1>2. Idle \in FetchStates /\ Idle.pc = "idle"
  BY <1>1 DEF Idle, FetchStates
<1>3. /\ [Idle EXCEPT !.pc = "lookup"] \in FetchStates
      /\ [Idle EXCEPT !.pc = "lookup"].pc = "lookup"
  BY <1>1 DEF Idle, FetchStates
<1>4. ASSUME NEW w, NEW result \in Results
      PROVE  Ended(w, result) \in FetchStates /\ Ended(w, result).pc \in Results \cup {"idle"}
  <2>1. [Idle EXCEPT !.pc = result] \in FetchStates /\ [Idle EXCEPT !.pc = result].pc = result
    BY <1>1 DEF Idle, FetchStates
  <2> QED BY <1>2, <2>1 DEF Ended
<1>5. QED
  BY <1>2, <1>3, <1>4

LEMMA BeginFacts ==
    /\ Begin \in FetchStates /\ Begin.pc = "request" /\ Begin.age = 0
    /\ Begin.attempt = 0 /\ Begin.backoff = INITIAL_BACKOFF
<1>1. 0 \in 0 .. MaxRetries /\ INITIAL_BACKOFF \in Nat
  BY MetadataConstants, MetadataAssumption
<1>2. QED
  BY <1>1 DEF Begin, FetchStates, Fetching

\* A fetch that has ended or not begun puts no bound on the page.
LEMMA QuietFetch ==
    ASSUME NEW g, NEW f, f.pc \in Results \cup {"idle"}
    PROVE  FetchOK(g, f)
BY DEF FetchOK, Results

\* A page that looked up everything at once starts with all the time.
LEMMA FreshFetch ==
    ASSUME NEW g, g.waited = 0
    PROVE  FetchOK(g, Begin)
<1>1. /\ TIMEOUT \in Nat /\ 0 \in 0 .. MaxRetries
  BY MetadataConstants
<1>2. MaxWait = TIMEOUT + Left(0) /\ Left(0) \in Nat
  BY <1>1, LeftFacts
<1>3. pause(0) = INITIAL_BACKOFF
  BY PauseFacts
<1>4. /\ Begin.pc = "request" /\ Begin.age = 0
      /\ Begin.attempt = 0 /\ Begin.backoff = INITIAL_BACKOFF
  BY BeginFacts
<1>5. g.waited + (TIMEOUT - 0) + Left(0) <= MaxWait
  BY <1>1, <1>2
<1>6. QED
  BY <1>1, <1>3, <1>4, <1>5 DEF FetchOK

(***************************************************************************)
(* A step of one fetch.                                                    *)
(***************************************************************************)
LEMMA GoFacts ==
    ASSUME MInv, NEW w \in Workers, NEW h, NEW f \in FetchStates, Go(w, h, f)
    PROVE  /\ fetch' \in [Workers -> [Hashes -> FetchStates]]
           /\ \A x \in Workers, y \in Hashes :
                 fetch'[x][y] = IF x = w /\ y = h THEN f ELSE fetch[x][y]
<1>1. fetch \in [Workers -> [Hashes -> FetchStates]]
  BY DEF MInv, MetadataTypeOK
<1>2. fetch' = [fetch EXCEPT ![w][h] = f]
  BY DEF Go
<1> DEFINE inner == [fetch[w] EXCEPT ![h] = f]
<1>3. inner \in [Hashes -> FetchStates]
  BY <1>1
<1>4. \A y \in Hashes : inner[y] = IF y = h THEN f ELSE fetch[w][y]
  BY <1>1
<1>5. fetch' = [fetch EXCEPT ![w] = inner]
  BY <1>2
<1> HIDE DEF inner
<1>6. QED
  BY <1>1, <1>3, <1>4, <1>5

LEMMA GoPages ==
    ASSUME MInv, NEW w \in Workers, NEW h, NEW f \in FetchStates, Go(w, h, f),
           UNCHANGED page,
           w \in Pages /\ h \in Hashes /\ page[w].pc = "waiting" => FetchOK(page[w], f)
    PROVE  fetch' \in [Workers -> [Hashes -> FetchStates]] /\ PagesOK'
<1>1. /\ fetch' \in [Workers -> [Hashes -> FetchStates]]
      /\ \A x \in Workers, y \in Hashes :
            fetch'[x][y] = IF x = w /\ y = h THEN f ELSE fetch[x][y]
  BY GoFacts
<1>2. ASSUME NEW p \in Pages, page[p].pc = "waiting"
      PROVE  page[p].waited <= MaxWait /\ \A y \in Hashes : FetchOK(page[p], fetch'[p][y])
  <2>1. p \in Workers
    BY DEF Workers
  <2>2. page[p].waited <= MaxWait /\ \A y \in Hashes : FetchOK(page[p], fetch[p][y])
    BY <1>2 DEF MInv, PagesOK, PageOK
  <2>3. ASSUME NEW y \in Hashes PROVE FetchOK(page[p], fetch'[p][y])
    <3>1. CASE p = w /\ y = h
      BY <1>1, <1>2, <2>1, <3>1
    <3>2. CASE ~(p = w /\ y = h)
      BY <1>1, <2>1, <2>2, <3>2
    <3> QED BY <3>1, <3>2
  <2> QED BY <2>2, <2>3
<1>3. PagesOK'
  BY <1>2 DEF PagesOK, PageOK
<1>4. QED
  BY <1>1, <1>3

\* doFetch answers: what is cached, and what the history says of it, agree.
LEMMA AnsweredMInv ==
    ASSUME MInv, NEW w \in Workers, NEW h \in Hashes, Answered(w, h)
    PROVE  MInv'
<1>1. PICK decodes \in BOOLEAN :
         /\ cache' = [cache EXCEPT ![h] = [decodes |-> decodes, age |-> 0]]
         /\ garbled' = IF decodes THEN garbled ELSE [garbled EXCEPT ![h] = 0]
         /\ Go(w, h, Ended(w, IF decodes THEN "decoded" ELSE "garbled"))
  BY DEF Answered
<1>2. UNCHANGED page
  BY DEF Answered
<1>3. cache \in [Hashes -> Entries] /\ garbled \in [Hashes -> 0 .. Life]
      /\ page \in [Pages -> PageStates]
  BY DEF MInv, MetadataTypeOK
<1>4. Life \in Nat /\ 0 \in 0 .. Life
  BY MetadataConstants
<1> DEFINE e == [decodes |-> decodes, age |-> 0]
<1>5. e \in Entries /\ e.decodes = decodes /\ e.age = 0
  BY <1>4 DEF Entries
<1>6. cache' = [cache EXCEPT ![h] = e]
  BY <1>1
<1> HIDE DEF e
<1>7. cache' \in [Hashes -> Entries] /\ garbled' \in [Hashes -> 0 .. Life]
  BY <1>1, <1>3, <1>4, <1>5, <1>6
<1>8. CacheExplained'
  <2> SUFFICES ASSUME NEW y \in Hashes, ~cache'[y].decodes
               PROVE  garbled'[y] <= cache'[y].age
    BY DEF CacheExplained
  <2>1. CASE y = h
    <3>1. cache'[y] = e /\ ~decodes
      BY <1>3, <1>5, <1>6, <2>1
    <3>2. garbled'[y] = 0
      BY <1>1, <1>3, <2>1, <3>1
    <3> QED BY <1>5, <3>1, <3>2
  <2>2. CASE y # h
    <3>1. cache'[y] = cache[y] /\ garbled'[y] = garbled[y]
      BY <1>1, <1>3, <1>6, <2>2
    <3> QED BY <3>1 DEF MInv, CacheExplained
  <2> QED BY <2>1, <2>2
<1> DEFINE result == IF decodes THEN "decoded" ELSE "garbled"
<1>9. Ended(w, result) \in FetchStates /\ Ended(w, result).pc \in Results \cup {"idle"}
  <2>1. result \in Results
    BY DEF Results
  <2> QED BY <2>1, FetchEnds
<1>10. fetch' \in [Workers -> [Hashes -> FetchStates]] /\ PagesOK'
  <2>1. FetchOK(page[w], Ended(w, result))
    BY <1>9, QuietFetch
  <2> QED BY <1>1, <1>2, <1>9, <2>1, GoPages
<1>11. QED
  BY <1>2, <1>3, <1>7, <1>8, <1>10 DEF MInv, MetadataTypeOK

\* A fetch that ends without an answer.
LEMMA FailedMInv ==
    ASSUME MInv, NEW w \in Workers, NEW h \in Hashes, Go(w, h, Ended(w, "failed")),
           UNCHANGED <<cache, page, garbled>>
    PROVE  MInv'
<1>1. Ended(w, "failed") \in FetchStates /\ Ended(w, "failed").pc \in Results \cup {"idle"}
  <2>1. "failed" \in Results
    BY DEF Results
  <2> QED BY <2>1, FetchEnds
<1>2. FetchOK(page[w], Ended(w, "failed"))
  BY <1>1, QuietFetch
<1>3. fetch' \in [Workers -> [Hashes -> FetchStates]] /\ PagesOK'
  BY <1>1, <1>2, GoPages
<1>4. QED
  BY <1>3 DEF MInv, MetadataTypeOK, CacheExplained

\* After a 429 the request's time is over, and the pause and the rest remain.
LEMMA RateLimitedMInv ==
    ASSUME MInv, NEW w \in Workers, NEW h \in Hashes, RateLimited(w, h)
    PROVE  MInv'
<1> DEFINE f == fetch[w][h]
<1>1. f.pc = "request" /\ f \in FetchStates /\ UNCHANGED <<page, warm, garbled>>
  BY DEF RateLimited, MInv, MetadataTypeOK
<1>2. CASE ~may_retry(f.attempt)
  <2>1. Go(w, h, Ended(w, "failed")) /\ cache' = cache
    BY <1>2 DEF RateLimited, after_failure
  <2> QED BY <1>1, <2>1, FailedMInv
<1>3. CASE may_retry(f.attempt)
  <2> DEFINE s == [f EXCEPT !.pc = "pause", !.age = 0, !.attempt = @ + 1]
  <2>1. Go(w, h, s) /\ UNCHANGED cache
    BY <1>3 DEF RateLimited
  <2>2. /\ f.attempt \in 0 .. MaxRetries /\ f.attempt < MaxRetries
        /\ f.age \in Nat /\ f.backoff \in Nat
    BY <1>1, <1>3 DEF FetchStates, may_retry
  <2>3. f.attempt + 1 \in 0 .. MaxRetries /\ MaxRetries \in Nat /\ TIMEOUT \in Nat
    BY <2>2, MetadataConstants
  <2>4. "pause" \in Fetching
    BY DEF Fetching
  <2>5. s \in FetchStates
    BY <1>1, <2>3, <2>4 DEF FetchStates
  <2>6. s.pc = "pause" /\ s.age = 0 /\ s.attempt = f.attempt + 1 /\ s.backoff = f.backoff
    BY <1>1 DEF FetchStates
  <2> HIDE DEF s
  <2>7. ASSUME w \in Pages, page[w].pc = "waiting" PROVE FetchOK(page[w], s)
    <3> DEFINE a == f.attempt
               t == page[w].waited
    <3>1. /\ f.age <= TIMEOUT /\ f.backoff = pause(a)
          /\ t + (TIMEOUT - f.age) + Left(a) <= MaxWait
      BY <1>1, <2>7 DEF MInv, PagesOK, PageOK, FetchOK
    <3>2. t \in Nat
      BY <2>7 DEF MInv, MetadataTypeOK, PageStates
    <3>3. Left(a) = pause(a) + TIMEOUT + Left(a + 1) /\ Left(a) \in Nat /\ MaxWait \in Nat
      BY <2>2, LeftFacts
    <3>4. Left(a + 1) \in Nat
      BY <2>3, LeftFacts
    <3>5. (a + 1) - 1 = a /\ a + 1 > 0
      BY <2>2, <2>3
    <3> HIDE DEF t
    <3>6. t + (f.backoff - 0) + TIMEOUT + Left(a + 1) <= MaxWait
      BY <2>2, <2>3, <3>1, <3>2, <3>3, <3>4
    <3> QED BY <2>2, <2>6, <3>1, <3>5, <3>6 DEF FetchOK, t
  <2>8. fetch' \in [Workers -> [Hashes -> FetchStates]] /\ PagesOK'
    BY <1>1, <2>1, <2>5, <2>7, GoPages
  <2> QED BY <1>1, <2>1, <2>8 DEF MInv, MetadataTypeOK, CacheExplained
<1>4. QED
  BY <1>2, <1>3

\* After the pause there is time for one request and what follows it.
LEMMA RetryMInv ==
    ASSUME MInv, NEW w \in Workers, NEW h \in Hashes, Retry(w, h)
    PROVE  MInv'
<1> DEFINE f == fetch[w][h]
           s == [f EXCEPT !.pc = "request", !.age = 0, !.backoff = min(2 * @, MAX_BACKOFF)]
<1>1. /\ f.pc = "pause" /\ f.age >= f.backoff /\ f \in FetchStates
      /\ Go(w, h, s) /\ UNCHANGED <<cache, page, warm, garbled>>
  BY DEF Retry, MInv, MetadataTypeOK
<1>2. f.attempt \in 0 .. MaxRetries /\ f.age \in Nat /\ f.backoff \in Nat
  BY <1>1 DEF FetchStates
<1>3. min(2 * f.backoff, MAX_BACKOFF) \in Nat
  BY <1>2, MetadataAssumption DEF min
<1>4. "request" \in Fetching
  BY DEF Fetching
<1>5. s \in FetchStates
  BY <1>1, <1>3, <1>4 DEF FetchStates
<1>6. /\ s.pc = "request" /\ s.age = 0 /\ s.attempt = f.attempt
      /\ s.backoff = min(2 * f.backoff, MAX_BACKOFF)
  BY <1>1 DEF FetchStates
<1> HIDE DEF s
<1>7. ASSUME w \in Pages, page[w].pc = "waiting" PROVE FetchOK(page[w], s)
  <2> DEFINE a == f.attempt
             t == page[w].waited
  <2>1. /\ a > 0 /\ f.age <= f.backoff /\ f.backoff = pause(a - 1)
        /\ t + (f.backoff - f.age) + TIMEOUT + Left(a) <= MaxWait
    BY <1>1, <1>7 DEF MInv, PagesOK, PageOK, FetchOK
  <2>2. t \in Nat /\ TIMEOUT \in Nat /\ MaxRetries \in Nat
    BY <1>7, MetadataConstants DEF MInv, MetadataTypeOK, PageStates
  <2>3. Left(a) \in Nat /\ MaxWait \in Nat
    BY <1>2, LeftFacts
  <2>4. a - 1 \in Nat /\ (a - 1) + 1 = a
    BY <1>2, <2>1, <2>2
  <2>5. pause(a) = min(2 * f.backoff, MAX_BACKOFF)
    BY <2>1, <2>4, PauseFacts
  <2> HIDE DEF t
  <2>6. t + (TIMEOUT - 0) + Left(a) <= MaxWait
    BY <1>1, <1>2, <2>1, <2>2, <2>3
  <2> QED BY <1>6, <2>2, <2>5, <2>6 DEF FetchOK, t
<1>8. fetch' \in [Workers -> [Hashes -> FetchStates]] /\ PagesOK'
  BY <1>1, <1>5, <1>7, GoPages
<1>9. QED
  BY <1>1, <1>8 DEF MInv, MetadataTypeOK, CacheExplained

LEMMA GatewayMInv ==
    ASSUME MInv, NEW w \in Workers, NEW h \in Hashes, Gateway(w, h)
    PROVE  MInv'
<1>1. CASE RequestFails(w, h)
  BY <1>1, FailedMInv DEF RequestFails, after_failure
<1>2. QED
  BY <1>1, AnsweredMInv, RateLimitedMInv, RetryMInv DEF Gateway

(***************************************************************************)
(* The steps of a page.                                                    *)
(***************************************************************************)
LEMMA StartPageMInv ==
    ASSUME MInv, NEW p \in Pages, NEW hashes \in SUBSET Hashes, StartPage(p, hashes)
    PROVE  MInv'
<1> DEFINE new == [h \in Hashes |-> IF h \in hashes THEN [Idle EXCEPT !.pc = "lookup"] ELSE Idle]
           g == [NoPage EXCEPT !.pc = "waiting"]
<1>1. /\ page' = [page EXCEPT ![p] = g] /\ fetch' = [fetch EXCEPT ![p] = new]
      /\ UNCHANGED <<cache, warm, garbled>>
  BY DEF StartPage
<1>2. /\ page \in [Pages -> PageStates] /\ fetch \in [Workers -> [Hashes -> FetchStates]]
      /\ Pages \subseteq Workers
  BY DEF MInv, MetadataTypeOK, Workers
<1>3. g \in PageStates /\ g.waited = 0
  BY DEF NoPage, PageStates
<1>4. new \in [Hashes -> FetchStates]
  BY FetchEnds
<1>5. \A h \in Hashes : FetchOK(g, new[h])
  <2> SUFFICES ASSUME NEW h \in Hashes PROVE FetchOK(g, new[h])
    OBVIOUS
  <2>1. new[h].pc \in {"lookup", "idle"}
    BY FetchEnds
  <2> HIDE DEF new, g
  <2> QED BY <1>3, <2>1 DEF FetchOK
<1>6. 0 <= MaxWait
  BY MetadataConstants, LeftFacts
<1> HIDE DEF new, g
<1>7. page' \in [Pages -> PageStates] /\ fetch' \in [Workers -> [Hashes -> FetchStates]]
  BY <1>1, <1>2, <1>3, <1>4
<1>8. PagesOK'
  <2> SUFFICES ASSUME NEW x \in Pages PROVE PageOK(page'[x], fetch'[x])
    BY DEF PagesOK
  <2>1. CASE x = p
    <3>1. page'[x] = g /\ fetch'[x] = new
      BY <1>1, <1>2, <2>1
    <3> QED BY <1>3, <1>5, <1>6, <3>1 DEF PageOK
  <2>2. CASE x # p
    <3>1. page'[x] = page[x] /\ fetch'[x] = fetch[x]
      BY <1>1, <1>2, <2>2
    <3> QED BY <3>1 DEF MInv, PagesOK
  <2> QED BY <2>1, <2>2
<1>9. QED
  BY <1>1, <1>7, <1>8 DEF MInv, MetadataTypeOK, CacheExplained

\* A page only looks up before time passes for it.
LEMMA GetJSONMInv ==
    ASSUME MInv, NEW p \in Pages, NEW h \in Hashes, GetJSON(p, h)
    PROVE  MInv'
<1>1. fetch[p][h].pc = "lookup" /\ UNCHANGED <<cache, page, warm, garbled>>
  BY DEF GetJSON
<1>2. /\ p \in Workers /\ Reload \in Workers /\ p # Reload /\ Reload \notin Pages
      /\ fetch \in [Workers -> [Hashes -> FetchStates]]
  BY MetadataAssumption DEF MInv, MetadataTypeOK, Workers
<1>3. page[p].pc = "waiting" => page[p].waited = 0
  BY <1>1 DEF MInv, PagesOK, PageOK, FetchOK
<1>4. CASE is_found(h)
  <2> DEFINE result == IF cache[h].decodes THEN "decoded" ELSE "garbled"
             s == Ended(p, result)
             again == IF is_stale(h) /\ fetch[Reload][h].pc = "idle" THEN Begin ELSE fetch[Reload][h]
  <2>1. fetch' = [fetch EXCEPT ![p][h] = s, ![Reload][h] = again]
    BY <1>2, <1>4 DEF GetJSON
  <2>2. s \in FetchStates /\ s.pc \in Results \cup {"idle"}
    <3>1. result \in Results
      BY DEF Results
    <3> QED BY <3>1, FetchEnds
  <2>3. again \in FetchStates
    BY <1>2, BeginFacts
  <2> HIDE DEF s, again
  <2> DEFINE first == [fetch EXCEPT ![p][h] = s]
  <2>4. /\ first \in [Workers -> [Hashes -> FetchStates]]
        /\ \A x \in Workers, y \in Hashes :
              first[x][y] = IF x = p /\ y = h THEN s ELSE fetch[x][y]
    BY <1>2, <2>2
  <2>5. fetch' = [first EXCEPT ![Reload][h] = again]
    BY <2>1
  <2> HIDE DEF first
  <2>6. /\ fetch' \in [Workers -> [Hashes -> FetchStates]]
        /\ \A x \in Pages : fetch'[x] = first[x]
    BY <1>2, <2>3, <2>4, <2>5 DEF Workers
  <2>7. FetchOK(page[p], s)
    BY <2>2, QuietFetch
  <2>8. PagesOK'
    <3> SUFFICES ASSUME NEW x \in Pages, page[x].pc = "waiting"
                 PROVE  /\ page[x].waited <= MaxWait
                        /\ \A y \in Hashes : FetchOK(page[x], fetch'[x][y])
      BY <1>1 DEF PagesOK, PageOK
    <3>1. page[x].waited <= MaxWait /\ \A y \in Hashes : FetchOK(page[x], fetch[x][y])
      BY DEF MInv, PagesOK, PageOK
    <3>2. x \in Workers
      BY DEF Workers
    <3> QED BY <2>4, <2>6, <2>7, <3>1, <3>2
  <2> QED BY <1>1, <2>6, <2>8 DEF MInv, MetadataTypeOK, CacheExplained
<1>5. CASE ~is_found(h) /\ h \in Malformed
  <2>1. Go(p, h, Ended(p, "failed"))
    BY <1>5 DEF GetJSON, Go
  <2> QED BY <1>1, <1>2, <2>1, FailedMInv
<1>6. CASE ~is_found(h) /\ h \notin Malformed
  <2>1. Go(p, h, Begin)
    BY <1>6 DEF GetJSON, Go
  <2>2. page[p].pc = "waiting" => FetchOK(page[p], Begin)
    BY <1>3, FreshFetch
  <2>3. fetch' \in [Workers -> [Hashes -> FetchStates]] /\ PagesOK'
    BY <1>1, <1>2, <2>1, <2>2, BeginFacts, GoPages
  <2> QED BY <1>1, <2>3 DEF MInv, MetadataTypeOK, CacheExplained
<1>7. QED
  BY <1>4, <1>5, <1>6

LEMMA FinishPageMInv ==
    ASSUME MInv, NEW p \in Pages, FinishPage(p)
    PROVE  MInv'
<1> DEFINE new == [h \in Hashes |-> Idle]
<1>1. /\ page' = [page EXCEPT ![p] = NoPage] /\ fetch' = [fetch EXCEPT ![p] = new]
      /\ UNCHANGED <<cache, warm, garbled>>
  BY DEF FinishPage
<1>2. /\ page \in [Pages -> PageStates] /\ fetch \in [Workers -> [Hashes -> FetchStates]]
      /\ Pages \subseteq Workers
  BY DEF MInv, MetadataTypeOK, Workers
<1>3. NoPage \in PageStates /\ NoPage.pc = "none" /\ new \in [Hashes -> FetchStates]
  BY FetchEnds DEF NoPage, PageStates
<1> HIDE DEF new
<1>4. page' \in [Pages -> PageStates] /\ fetch' \in [Workers -> [Hashes -> FetchStates]]
  BY <1>1, <1>2, <1>3
<1>5. PagesOK'
  <2> SUFFICES ASSUME NEW x \in Pages PROVE PageOK(page'[x], fetch'[x])
    BY DEF PagesOK
  <2>1. CASE x = p
    <3>1. page'[x].pc = "none"
      BY <1>1, <1>2, <1>3, <2>1
    <3> QED BY <3>1 DEF PageOK
  <2>2. CASE x # p
    <3>1. page'[x] = page[x] /\ fetch'[x] = fetch[x]
      BY <1>1, <1>2, <2>2
    <3> QED BY <3>1 DEF MInv, PagesOK
  <2> QED BY <2>1, <2>2
<1>6. QED
  BY <1>1, <1>4, <1>5 DEF MInv, MetadataTypeOK, CacheExplained

LEMMA LeaveMInv ==
    ASSUME MInv, NEW p \in Pages, Leave(p)
    PROVE  MInv'
<1>1. page' = [page EXCEPT ![p].cancelled = TRUE] /\ UNCHANGED <<cache, fetch, warm, garbled>>
  BY DEF Leave
<1> DEFINE g == [page[p] EXCEPT !.cancelled = TRUE]
<1>2. page \in [Pages -> PageStates] /\ page[p] \in PageStates
  BY DEF MInv, MetadataTypeOK
<1>3. g \in PageStates /\ g.pc = page[p].pc /\ g.waited = page[p].waited
  BY <1>2 DEF PageStates
<1>4. page' = [page EXCEPT ![p] = g]
  BY <1>1
<1> HIDE DEF g
<1>5. page' \in [Pages -> PageStates]
  BY <1>2, <1>3, <1>4
<1>6. PagesOK'
  <2> SUFFICES ASSUME NEW x \in Pages PROVE PageOK(page'[x], fetch[x])
    BY <1>1 DEF PagesOK
  <2>1. page'[x].pc = page[x].pc /\ page'[x].waited = page[x].waited
    BY <1>2, <1>3, <1>4
  <2>2. PageOK(page[x], fetch[x])
    BY DEF MInv, PagesOK
  <2> QED BY <2>1, <2>2 DEF PageOK, FetchOK
<1>7. QED
  BY <1>1, <1>5, <1>6 DEF MInv, MetadataTypeOK, CacheExplained

\* The warm-up has a worker of its own, which no page waits for.
LEMMA WarmupMInv ==
    ASSUME MInv, warmupIPFSCache \/ Warmup
    PROVE  MInv'
<1>1. UNCHANGED <<cache, page, garbled>>
  BY DEF warmupIPFSCache, Warmup
<1>2. fetch' = fetch \/ Go(Warm, Head(warm.todo), Begin)
  BY DEF warmupIPFSCache, Warmup
<1>3. fetch' \in [Workers -> [Hashes -> FetchStates]] /\ PagesOK'
  <2>1. CASE fetch' = fetch
    BY <1>1, <2>1 DEF MInv, MetadataTypeOK, PagesOK
  <2>2. CASE Go(Warm, Head(warm.todo), Begin)
    <3>1. Warm \in Workers /\ Warm \notin Pages
      BY MetadataAssumption DEF Workers
    <3> QED BY <1>1, <2>2, <3>1, BeginFacts, GoPages
  <2> QED BY <1>2, <2>1, <2>2
<1>4. QED
  BY <1>1, <1>3 DEF MInv, MetadataTypeOK, CacheExplained

\* One unit of time for a page and one of its fetches.
LEMMA TickFetch ==
    ASSUME NEW g \in PageStates, NEW f \in FetchStates, FetchOK(g, f),
           f.pc \in Fetching,
           f.pc = "request" => f.age < TIMEOUT,
           f.pc = "pause" => f.age < f.backoff,
           NEW k, k.waited = g.waited + 1
    PROVE  g.waited + 1 <= MaxWait /\ FetchOK(k, [f EXCEPT !.age = @ + 1])
<1> DEFINE s == [f EXCEPT !.age = @ + 1]
           t == g.waited
           a == f.attempt
<1>1. /\ t \in Nat /\ a \in 0 .. MaxRetries /\ f.age \in Nat /\ f.backoff \in Nat
      /\ TIMEOUT \in Nat /\ MaxRetries \in Nat
  BY MetadataConstants DEF PageStates, FetchStates
<1>2. Left(a) \in Nat /\ MaxWait \in Nat
  BY <1>1, LeftFacts
<1>3. s.pc = f.pc /\ s.age = f.age + 1 /\ s.attempt = a /\ s.backoff = f.backoff
  BY DEF FetchStates
<1> HIDE DEF s, t, a
<1>4. CASE f.pc = "request"
  <2>1. f.age < TIMEOUT /\ f.backoff = pause(a) /\ t + (TIMEOUT - f.age) + Left(a) <= MaxWait
    BY <1>4 DEF FetchOK, t, a
  <2>2. /\ t + 1 <= MaxWait /\ f.age + 1 <= TIMEOUT
        /\ (t + 1) + (TIMEOUT - (f.age + 1)) + Left(a) <= MaxWait
    BY <1>1, <1>2, <2>1
  <2>3. FetchOK(k, s)
    BY <1>3, <1>4, <2>1, <2>2 DEF FetchOK, t
  <2> QED BY <2>2, <2>3 DEF s, t
<1>5. CASE f.pc = "pause"
  <2>1. /\ f.age < f.backoff /\ f.backoff = pause(a - 1) /\ a > 0
        /\ t + (f.backoff - f.age) + TIMEOUT + Left(a) <= MaxWait
    BY <1>5 DEF FetchOK, t, a
  <2>2. /\ t + 1 <= MaxWait /\ f.age + 1 <= f.backoff
        /\ (t + 1) + (f.backoff - (f.age + 1)) + TIMEOUT + Left(a) <= MaxWait
    BY <1>1, <1>2, <2>1
  <2>3. FetchOK(k, s)
    BY <1>3, <1>5, <2>1, <2>2 DEF FetchOK, t
  <2> QED BY <2>2, <2>3 DEF s, t
<1>6. QED
  BY <1>4, <1>5 DEF Fetching

\* An entry and the history of its hash age together.
LEMMA TickCache ==
    ASSUME MInv, Tick
    PROVE  /\ cache' \in [Hashes -> Entries] /\ garbled' \in [Hashes -> 0 .. Life]
           /\ CacheExplained'
<1>1. /\ cache' = [h \in Hashes |-> aged(cache[h])]
      /\ garbled' = [h \in Hashes |-> min(garbled[h] + 1, Life)]
  BY DEF Tick
<1>2. Life \in Nat /\ Life \in 0 .. Life
  BY MetadataConstants
<1>3. ASSUME NEW h \in Hashes
      PROVE  /\ aged(cache[h]) \in Entries /\ min(garbled[h] + 1, Life) \in 0 .. Life
             /\ ~aged(cache[h]).decodes => min(garbled[h] + 1, Life) <= aged(cache[h]).age
  <2> DEFINE e == cache[h]
  <2>1. /\ e \in Entries /\ garbled[h] \in 0 .. Life
        /\ ~e.decodes => garbled[h] <= e.age
    BY DEF MInv, MetadataTypeOK, CacheExplained
  <2>2. e.age \in 0 .. Life /\ e.decodes \in BOOLEAN
    BY <2>1 DEF Entries
  <2>3. min(garbled[h] + 1, Life) \in 0 .. Life
    BY <1>2, <2>1 DEF min
  <2> HIDE DEF e
  <2>4. CASE e.age + 1 < Life
    <3> DEFINE s == [e EXCEPT !.age = @ + 1]
    <3>1. e.age + 1 \in 0 .. Life
      BY <1>2, <2>2, <2>4
    <3>2. s \in Entries /\ s.decodes = e.decodes /\ s.age = e.age + 1
      BY <2>1, <3>1 DEF Entries
    <3>3. aged(e) = s
      BY <2>4 DEF aged
    <3> HIDE DEF s
    <3>4. ~e.decodes => min(garbled[h] + 1, Life) <= e.age + 1
      BY <1>2, <2>1, <2>2, <2>4 DEF min
    <3> QED BY <2>3, <3>2, <3>3, <3>4 DEF e
  <2>5. CASE ~(e.age + 1 < Life)
    <3>1. Empty \in Entries /\ Empty.age = Life
      BY <1>2 DEF Empty, Entries
    <3>2. aged(e) = Empty
      BY <2>5 DEF aged
    <3>3. min(garbled[h] + 1, Life) <= Life
      BY <1>2, <2>3
    <3> QED BY <2>3, <3>1, <3>2, <3>3 DEF e
  <2> QED BY <2>4, <2>5
<1>4. QED
  BY <1>1, <1>3 DEF CacheExplained

(***************************************************************************)
(* Time passes for a page only while one of its fetches goes on, and that  *)
(* one had time left.                                                      *)
(***************************************************************************)
LEMMA TickMInv ==
    ASSUME MInv, Tick
    PROVE  MInv'
<1> DEFINE older(f) == IF f.pc \in Fetching THEN [f EXCEPT !.age = @ + 1] ELSE f
           later(g) == IF g.pc = "waiting" THEN [g EXCEPT !.waited = min(@ + 1, MaxWait + 1)] ELSE g
<1>1. /\ fetch' = [w \in Workers |-> [h \in Hashes |-> older(fetch[w][h])]]
      /\ page' = [p \in Pages |-> later(page[p])]
  BY DEF Tick
<1>2. MaxWait \in Nat
  BY MetadataConstants, LeftFacts
<1>3. ASSUME NEW f \in FetchStates PROVE older(f) \in FetchStates
  <2>1. f.age + 1 \in Nat
    BY DEF FetchStates
  <2> QED BY <2>1 DEF FetchStates
<1>4. ASSUME NEW g \in PageStates
      PROVE  /\ later(g) \in PageStates /\ later(g).pc = g.pc
             /\ g.pc = "waiting" => later(g).waited = min(g.waited + 1, MaxWait + 1)
  <2>1. min(g.waited + 1, MaxWait + 1) \in Nat
    BY <1>2 DEF PageStates, min
  <2> QED BY <2>1 DEF PageStates
<1>5. fetch \in [Workers -> [Hashes -> FetchStates]] /\ page \in [Pages -> PageStates]
  BY DEF MInv, MetadataTypeOK
<1>6. fetch' \in [Workers -> [Hashes -> FetchStates]]
  <2> HIDE DEF older
  <2> QED BY <1>1, <1>3, <1>5
<1>7. page' \in [Pages -> PageStates]
  <2> HIDE DEF later
  <2> QED BY <1>1, <1>4, <1>5
<1>8. PagesOK'
  <2> SUFFICES ASSUME NEW p \in Pages, page'[p].pc = "waiting"
               PROVE  /\ page'[p].waited <= MaxWait
                      /\ \A h \in Hashes : FetchOK(page'[p], fetch'[p][h])
    BY DEF PagesOK, PageOK
  <2> DEFINE g == page[p]
  <2>1. p \in Workers /\ g \in PageStates /\ page'[p] = later(g)
    BY <1>1, <1>5 DEF Workers
  <2>2. g.pc = "waiting" /\ page'[p].waited = min(g.waited + 1, MaxWait + 1)
    <3> HIDE DEF later, g
    <3> QED BY <1>4, <2>1
  <2>3. \A h \in Hashes : FetchOK(g, fetch[p][h])
    BY <2>2 DEF MInv, PagesOK, PageOK
  <2>4. \A h \in Hashes : /\ fetch[p][h] \in FetchStates /\ fetch[p][h].pc # "lookup"
                          /\ fetch[p][h].pc = "request" => fetch[p][h].age < TIMEOUT
                          /\ fetch[p][h].pc = "pause" => fetch[p][h].age < fetch[p][h].backoff
    BY <1>5, <2>1 DEF Tick
  <2>5. PICK h0 \in Hashes : fetch[p][h0].pc \notin Results \cup {"idle"}
    BY <2>2 DEF Tick, is_complete
  <2>6. fetch[p][h0].pc \in Fetching
    BY <2>4, <2>5 DEF FetchStates
  <2> DEFINE k == [g EXCEPT !.waited = @ + 1]
  <2>7. k.waited = g.waited + 1 /\ g.waited \in Nat
    BY <2>1 DEF PageStates
  <2> HIDE DEF k
  <2>8. g.waited + 1 <= MaxWait
    BY <2>1, <2>3, <2>4, <2>6, <2>7, TickFetch
  <2>9. page'[p].waited = g.waited + 1
    BY <1>2, <2>2, <2>7, <2>8 DEF min
  <2>10. ASSUME NEW h \in Hashes PROVE FetchOK(page'[p], fetch'[p][h])
    <3>1. fetch'[p][h] = older(fetch[p][h])
      BY <1>1, <2>1
    <3>2. CASE fetch[p][h].pc \in Fetching
      <4>1. fetch'[p][h] = [fetch[p][h] EXCEPT !.age = @ + 1]
        BY <3>1, <3>2
      <4> DEFINE f == fetch[p][h]
      <4>2. /\ f \in FetchStates /\ FetchOK(g, f) /\ f.pc \in Fetching
            /\ f.pc = "request" => f.age < TIMEOUT
            /\ f.pc = "pause" => f.age < f.backoff
        BY <2>3, <2>4, <3>2
      <4> HIDE DEF f, g, older, later
      <4>3. FetchOK(page'[p], [f EXCEPT !.age = @ + 1])
        BY <2>1, <2>9, <4>2, TickFetch
      <4> QED BY <4>1, <4>3 DEF f
    <3>3. CASE fetch[p][h].pc \notin Fetching
      <4>1. fetch'[p][h] = fetch[p][h] /\ fetch[p][h].pc \in Results \cup {"idle"}
        BY <2>4, <3>1, <3>3 DEF FetchStates
      <4> QED BY <4>1, QuietFetch
    <3> QED BY <3>2, <3>3
  <2> QED BY <2>8, <2>9, <2>10
<1>9. QED
  BY <1>6, <1>7, <1>8, TickCache DEF MInv, MetadataTypeOK
-----------------------------------------------------------------------------
LEMMA InitMInv == Init => MInv
<1> SUFFICES ASSUME Init PROVE MInv
  OBVIOUS
<1>1. Life \in 0 .. Life /\ Life \in Nat
  BY MetadataConstants
<1>2. Empty \in Entries /\ Empty.age = Life
  BY <1>1 DEF Empty, Entries
<1>3. NoPage \in PageStates /\ NoPage.pc = "none"
  BY DEF NoPage, PageStates
<1>4. MetadataTypeOK
  BY <1>1, <1>2, <1>3, FetchEnds DEF Init, MetadataTypeOK
<1>5. CacheExplained
  BY <1>1, <1>2 DEF Init, CacheExplained
<1>6. PagesOK
  BY <1>3 DEF Init, PagesOK, PageOK
<1>7. QED
  BY <1>4, <1>5, <1>6 DEF MInv

LEMMA NextMInv == MInv /\ [Next]_vars => MInv'
<1> SUFFICES ASSUME MInv, [Next]_vars PROVE MInv'
  OBVIOUS
<1>1. ASSUME NEW w \in Workers, NEW h \in Hashes, Gateway(w, h) PROVE MInv'
  BY <1>1, GatewayMInv
<1>2. ASSUME NEW p \in Pages, NEW h \in Hashes, GetJSON(p, h) PROVE MInv'
  BY <1>2, GetJSONMInv
<1>3. ASSUME NEW p \in Pages, NEW h \in Hashes, ContextDone(p, h) PROVE MInv'
  <2>1. Go(p, h, Ended(p, "failed")) /\ UNCHANGED <<cache, page, garbled>>
    BY <1>3 DEF ContextDone
  <2>2. p \in Workers
    BY DEF Workers
  <2> QED BY <2>1, <2>2, FailedMInv
<1>4. ASSUME NEW p \in Pages, NEW hashes \in SUBSET Hashes, StartPage(p, hashes) PROVE MInv'
  BY <1>4, StartPageMInv
<1>5. ASSUME NEW p \in Pages, FinishPage(p) \/ Leave(p) PROVE MInv'
  BY <1>5, FinishPageMInv, LeaveMInv
<1>6. CASE warmupIPFSCache \/ Warmup
  BY <1>6, WarmupMInv
<1>7. CASE Tick
  BY <1>7, TickMInv
<1>8. CASE UNCHANGED vars
  BY <1>8 DEF vars, MInv, MetadataTypeOK, CacheExplained, PagesOK
<1>9. QED
  BY <1>1, <1>2, <1>3, <1>4, <1>5, <1>6, <1>7, <1>8 DEF Next

LEMMA MetadataInductive == Spec => []MInv
BY InitMInv, NextMInv, PTL DEF Spec

(***************************************************************************)
(* buildMarketViews waits no longer than fetchFromGateway takes at most:   *)
(* all the requests with their timeouts and all the pauses between them.   *)
(***************************************************************************)
THEOREM WaitIsBounded == Spec => []WaitBounded
<1>1. MInv => WaitBounded
  BY DEF MInv, PagesOK, PageOK, WaitBounded
<1>2. QED
  BY <1>1, MetadataInductive, PTL

(***************************************************************************)
(* GetJSON serves an entry that does not decode only as long as the cache  *)
(* keeps what the gateway sent, however the reloads fail.                  *)
(***************************************************************************)
THEOREM GarbledIsForgotten == Spec => GarbledAnswersForgotten
<1>1. ASSUME MInv, [Next]_vars, NEW p \in Pages, NEW h \in Hashes,
             fetch[p][h].pc # "garbled", fetch'[p][h].pc = "garbled"
      PROVE  garbled'[h] < Life
  <2>1. /\ Life \in Nat /\ Life > 0 /\ p \in Workers
        /\ cache \in [Hashes -> Entries] /\ garbled \in [Hashes -> 0 .. Life]
        /\ fetch \in [Workers -> [Hashes -> FetchStates]]
    BY <1>1, MetadataConstants DEF MInv, MetadataTypeOK, Workers
  <2>2. fetch'[p][h] # fetch[p][h]
    BY <1>1
  <2>3. ASSUME NEW w \in Workers, NEW y, NEW f \in FetchStates, f.pc # "garbled", Go(w, y, f)
        PROVE  FALSE
    <3>1. fetch'[p][h] = IF p = w /\ h = y THEN f ELSE fetch[p][h]
      BY <1>1, <2>1, <2>3, GoFacts
    <3> QED BY <1>1, <2>3, <3>1
  <2>4. \A w \in Workers : Ended(w, "failed") \in FetchStates /\ Ended(w, "failed").pc # "garbled"
    <3>1. "failed" \in Results
      BY DEF Results
    <3> QED BY <3>1, FetchEnds DEF Ended, Idle
  <2>5. ASSUME NEW w \in Workers, NEW y \in Hashes, Answered(w, y)
        PROVE  garbled'[h] < Life
    <3>1. PICK decodes \in BOOLEAN :
             /\ garbled' = IF decodes THEN garbled ELSE [garbled EXCEPT ![y] = 0]
             /\ Go(w, y, Ended(w, IF decodes THEN "decoded" ELSE "garbled"))
      BY <2>5 DEF Answered
    <3>2. CASE decodes
      <4>1. Go(w, y, Ended(w, "decoded"))
        BY <3>1, <3>2
      <4>2. "decoded" \in Results
        BY DEF Results
      <4>3. Ended(w, "decoded") \in FetchStates /\ Ended(w, "decoded").pc # "garbled"
        BY <4>2, FetchEnds DEF Ended, Idle
      <4> QED BY <2>3, <4>1, <4>3
    <3>3. CASE ~decodes
      <4>1. Go(w, y, Ended(w, "garbled"))
        BY <3>1, <3>3
      <4>2. "garbled" \in Results
        BY DEF Results
      <4>3. Ended(w, "garbled") \in FetchStates
        BY <4>2, FetchEnds
      <4>4. fetch'[p][h] = IF p = w /\ h = y THEN Ended(w, "garbled") ELSE fetch[p][h]
        BY <1>1, <2>1, <4>1, <4>3, GoFacts
      <4>5. h = y
        BY <2>2, <4>4
      <4> QED BY <2>1, <3>1, <3>3, <4>5
    <3> QED BY <3>2, <3>3
  <2>6. ASSUME NEW w \in Workers, NEW y \in Hashes, RateLimited(w, y) PROVE FALSE
    <3> DEFINE s == [fetch[w][y] EXCEPT !.pc = "pause", !.age = 0, !.attempt = @ + 1]
    <3>1. fetch' = [fetch EXCEPT ![w][y] = s] \/ Go(w, y, Ended(w, "failed"))
      BY <2>6 DEF RateLimited, Go
    <3>2. s.pc = "pause"
      BY <2>1 DEF FetchStates
    <3> HIDE DEF s
    <3>3. ~Go(w, y, Ended(w, "failed"))
      BY <2>3, <2>4
    <3> QED BY <1>1, <2>1, <3>1, <3>2, <3>3
  <2>7. ASSUME NEW w \in Workers, NEW y \in Hashes, Retry(w, y) PROVE FALSE
    <3> DEFINE s == [fetch[w][y] EXCEPT !.pc = "request", !.age = 0,
                                        !.backoff = min(2 * @, MAX_BACKOFF)]
    <3>1. fetch' = [fetch EXCEPT ![w][y] = s]
      BY <2>7 DEF Retry, Go
    <3>2. s.pc = "request"
      BY <2>1 DEF FetchStates
    <3> HIDE DEF s
    <3> QED BY <1>1, <2>1, <3>1, <3>2
  <2>8. ASSUME NEW w \in Workers, NEW y \in Hashes,
               RequestFails(w, y) \/ (w \in Pages /\ ContextDone(w, y))
        PROVE  FALSE
    <3>1. Go(w, y, Ended(w, "failed"))
      BY <2>8 DEF RequestFails, ContextDone
    <3> QED BY <2>3, <2>4, <3>1
  <2>9. ASSUME NEW x \in Pages, NEW y \in Hashes, GetJSON(x, y)
        PROVE  garbled'[h] < Life
    <3>1. /\ garbled' = garbled /\ x \in Workers /\ Reload \notin Pages /\ x # Reload
          /\ Reload \in Workers
      BY <2>9, MetadataAssumption DEF GetJSON, Workers
    <3>2. CASE ~is_found(y)
      <4>1. Go(x, y, Ended(x, "failed")) \/ Go(x, y, Begin)
        BY <2>9, <3>2 DEF GetJSON, Go
      <4>2. Begin.pc # "garbled" /\ Begin \in FetchStates
        BY BeginFacts
      <4> QED BY <2>3, <2>4, <3>1, <4>1, <4>2
    <3>3. CASE is_found(y)
      <4> DEFINE s == Ended(x, IF cache[y].decodes THEN "decoded" ELSE "garbled")
                 again == IF is_stale(y) /\ fetch[Reload][y].pc = "idle"
                          THEN Begin ELSE fetch[Reload][y]
      <4>1. fetch' = [fetch EXCEPT ![x][y] = s, ![Reload][y] = again]
        BY <2>1, <2>9, <3>1, <3>3 DEF GetJSON
      <4> HIDE DEF s, again
      <4>2. fetch'[p][h] = IF p = x /\ h = y THEN s ELSE fetch[p][h]
        BY <2>1, <3>1, <4>1
      <4>3. h = y /\ s.pc = "garbled" /\ x \in Pages
        BY <1>1, <2>2, <4>2
      <4>4. ~cache[y].decodes
        BY <4>3 DEF s, Ended, Idle
      <4>5. cache[y].age < Life /\ garbled[y] <= cache[y].age
        BY <1>1, <3>3, <4>4 DEF is_found, MInv, CacheExplained
      <4>6. cache[y].age \in Nat /\ garbled[y] \in Nat
        BY <2>1 DEF Entries
      <4> QED BY <2>1, <3>1, <4>3, <4>5, <4>6
    <3> QED BY <3>2, <3>3
  <2>10. ASSUME NEW x \in Pages, NEW hashes \in SUBSET Hashes, StartPage(x, hashes) PROVE FALSE
    <3> DEFINE new == [y \in Hashes |-> IF y \in hashes THEN [Idle EXCEPT !.pc = "lookup"] ELSE Idle]
    <3>1. fetch' = [fetch EXCEPT ![x] = new]
      BY <2>10 DEF StartPage
    <3>2. new[h].pc # "garbled"
      BY FetchEnds
    <3> HIDE DEF new
    <3> QED BY <1>1, <2>1, <3>1, <3>2
  <2>11. ASSUME NEW x \in Pages, FinishPage(x) PROVE FALSE
    <3> DEFINE new == [y \in Hashes |-> Idle]
    <3>1. fetch' = [fetch EXCEPT ![x] = new]
      BY <2>11 DEF FinishPage
    <3>2. new[h].pc # "garbled"
      BY FetchEnds
    <3> HIDE DEF new
    <3> QED BY <1>1, <2>1, <3>1, <3>2
  <2>12. CASE Tick
    <3>1. fetch'[p][h] = IF fetch[p][h].pc \in Fetching
                         THEN [fetch[p][h] EXCEPT !.age = @ + 1] ELSE fetch[p][h]
      BY <2>1, <2>12 DEF Tick
    <3>2. fetch[p][h] \in FetchStates
      BY <2>1
    <3>3. fetch'[p][h].pc = fetch[p][h].pc
      BY <3>1, <3>2 DEF FetchStates
    <3> QED BY <1>1, <3>3
  <2>13. CASE Warmup
    <3>1. fetch' = fetch \/ Go(Warm, Head(warm.todo), Begin)
      BY <2>13 DEF Warmup
    <3>2. Begin.pc # "garbled" /\ Begin \in FetchStates /\ Warm \in Workers
      BY BeginFacts DEF Workers
    <3> QED BY <2>2, <2>3, <3>1, <3>2
  <2>14. CASE UNCHANGED fetch
    BY <2>2, <2>14
  <2>15. QED
    BY <1>1, <2>5, <2>6, <2>7, <2>8, <2>9, <2>10, <2>11, <2>12, <2>13, <2>14
    DEF Next, Gateway, Leave, warmupIPFSCache, vars, Workers
<1>2. MInv /\ [Next]_vars
        => [\A p \in Pages, h \in Hashes :
              fetch[p][h].pc # "garbled" /\ fetch'[p][h].pc = "garbled"
                 => garbled'[h] < Life]_vars
  BY <1>1
<1>3. QED
  BY <1>2, MetadataInductive, PTL DEF Spec, GarbledAnswersForgotten
=============================================================================
