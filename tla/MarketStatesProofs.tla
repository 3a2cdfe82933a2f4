------------------------- MODULE MarketStatesProofs -------------------------
(***************************************************************************)
(* What the pages show of the markets, for every number of markets and of  *)
(* pages in progress, every cache life and timeout, and runs of any length *)
(* (MaxTime is arbitrary).                                                 *)
(***************************************************************************)
EXTENDS MarketStates, TLAPS

PCs == Fetching \cup {"idle", "lookup", "done", "failed"}
Tasks == [pc : PCs, started : 0 .. MaxTime, state : States \cup {Nothing}]
Entries == [state : States, stored : 0 .. MaxTime]
PageRecords == [pc : {"none", "waiting", "shown", "error"}, at : 0 .. MaxTime]

TypeOK ==
    /\ now \in 0 .. MaxTime
    /\ resolved_at \in [Markets -> 0 .. Never]
    /\ cache \in [Markets -> Entries \cup {Empty}]
    /\ task \in [Workers -> [Markets -> Tasks]]
    /\ page \in [Pages -> PageRecords]

\* The state s is one the market m was in at s.as_of.
Real(m, s) ==
    /\ s \in States
    /\ s.as_of <= now
    /\ s.resolved => resolved_at[m] <= s.as_of
    /\ ~s.resolved => s.as_of <= resolved_at[m]
    /\ s.outcome => s.resolved

\* A cache entry is real and was stored within a timeout of its reading.
EntryOK(m, e) ==
    e # Empty => /\ Real(m, e.state)
                 /\ e.stored <= now
                 /\ e.stored <= e.state.as_of + TIMEOUT

\* A goroutine is within its timeout, and what it has read is real and was
\* read after it started.
TaskOK(m, t) ==
    /\ t.pc \in Fetching => t.started <= now /\ now <= t.started + TIMEOUT
    /\ t.pc \in {"get_winning_outcome", "get_metadata_hash"} =>
          Real(m, t.state) /\ t.started <= t.state.as_of
    /\ t.pc = "get_winning_outcome" => t.state.resolved
    /\ t.pc = "done" => Real(m, t.state)

(***************************************************************************)
(* All goroutines of a waiting page looked into the cache at the same time *)
(* t0: lookups take no time. Hence all its fetches end by t0 + TIMEOUT,    *)
(* and what is already done was young enough at t0. This is what bounds    *)
(* how long a finished goroutine's state can wait for the slowest one.     *)
(***************************************************************************)
GoroutineSince(t, t0) ==
    /\ t.pc # "idle"
    /\ t.pc = "lookup" => t0 = now
    /\ t.pc \in Fetching => t.started = t0
    /\ t.pc = "done" => t0 - t.state.as_of < TTL + REVALIDATION + TIMEOUT

WaitingSince(p, t0) ==
    /\ t0 <= now /\ now <= t0 + TIMEOUT
    /\ \A m \in Markets : GoroutineSince(task[p][m], t0)

EntriesOK == \A m \in Markets : EntryOK(m, cache[m])
TasksOK == \A w \in Workers, m \in Markets : TaskOK(m, task[w][m])
WaitingOK ==
    \A p \in Pages : page[p].pc = "waiting" => \E t0 \in 0 .. MaxTime : WaitingSince(p, t0)
EndedOK ==
    \A p \in Pages : page[p].pc # "waiting" =>
        \A m \in Markets : task[p][m].pc \in {"idle", "done", "failed"}

IInv ==
    /\ TypeOK
    /\ EntriesOK
    /\ TasksOK
    /\ WaitingOK
    /\ EndedOK
    /\ StalenessBounded
-----------------------------------------------------------------------------
\* The records the model builds are tasks.
LEMMA Records ==
    /\ Idle \in Tasks /\ Idle.pc = "idle"
    /\ \A pc \in PCs : [Idle EXCEPT !.pc = pc] \in Tasks /\ [Idle EXCEPT !.pc = pc].pc = pc
    /\ \A t \in Tasks : /\ t.pc \in PCs
                        /\ t.started \in 0 .. MaxTime
                        /\ t.state \in States \cup {Nothing}
<1>1. Idle \in Tasks /\ Idle.pc = "idle"
  BY TimesAssumption DEF Idle, Tasks, PCs
<1>2. QED
  BY <1>1 DEF Tasks

\* A step that changes the task of one goroutine leaves the others alone.
LEMMA GoFacts ==
    ASSUME TypeOK, NEW w \in Workers, NEW m \in Markets, NEW t \in Tasks, Go(w, m, t)
    PROVE  /\ task' \in [Workers -> [Markets -> Tasks]]
           /\ task'[w][m] = t
           /\ \A v \in Workers, n \in Markets :
                 v # w \/ n # m => task'[v][n] = task[v][n]
BY DEF TypeOK, Go

\* Time and the resolution of a market do not make a real state unreal.
LEMMA RealStays ==
    ASSUME TypeOK, NEW m \in Markets, NEW s, Real(m, s),
           \/ resolved_at' = resolved_at /\ now' = now + 1
           \/ now' = now /\ \E n \in Markets : Resolve(n)
    PROVE  Real(m, s)'
<1>1. s.as_of \in 0 .. MaxTime
  BY DEF Real, States
<1>2. CASE resolved_at' = resolved_at /\ now' = now + 1
  BY <1>1, <1>2 DEF Real, TypeOK
<1>3. CASE now' = now /\ \E n \in Markets : Resolve(n)
  <2>1. PICK n \in Markets : /\ resolved_at[n] = Never
                             /\ resolved_at' = [resolved_at EXCEPT ![n] = now]
    BY <1>3 DEF Resolve
  <2>2. CASE n = m
    <3>1. ~s.resolved
      BY <1>1, <2>1, <2>2, TimesAssumption DEF Real, Never
    <3>2. resolved_at'[m] = now
      BY <2>1, <2>2 DEF TypeOK
    <3>3. QED
      BY <1>1, <1>3, <3>1, <3>2 DEF Real
  <2>3. CASE n # m
    <3>1. resolved_at'[m] = resolved_at[m]
      BY <2>1, <2>3 DEF TypeOK
    <3>2. QED
      BY <1>3, <3>1 DEF Real
  <2>4. QED
    BY <2>2, <2>3
<1>4. QED
  BY <1>2, <1>3
-----------------------------------------------------------------------------
\* Nothing is cached and no page is asked for.
LEMMA InitIInv == Init => IInv
<1> SUFFICES ASSUME Init PROVE IInv
  OBVIOUS
<1>1. TypeOK
  <2>1. resolved_at \in [Markets -> 0 .. Never] /\ now \in 0 .. MaxTime
    BY TimesAssumption DEF Init, Never
  <2>2. page \in [Pages -> PageRecords]
    BY TimesAssumption DEF Init, PageRecords
  <2>3. task \in [Workers -> [Markets -> Tasks]]
    BY Records DEF Init
  <2>4. cache \in [Markets -> Entries \cup {Empty}]
    BY DEF Init
  <2>5. QED
    BY <2>1, <2>2, <2>3, <2>4 DEF TypeOK
<1>2. \A p \in Pages : page[p].pc = "none"
  BY DEF Init
<1>3. \A w \in Workers, m \in Markets : task[w][m].pc = "idle"
  BY Records DEF Init
<1>4. EntriesOK
  BY DEF Init, EntriesOK, EntryOK
<1>5. TasksOK
  BY <1>3 DEF TasksOK, TaskOK, Fetching
<1>6. WaitingOK /\ EndedOK
  BY <1>2, <1>3 DEF WaitingOK, EndedOK, Workers
<1>7. StalenessBounded
  BY <1>2 DEF StalenessBounded, shown
<1>8. QED
  BY <1>1, <1>4, <1>5, <1>6, <1>7 DEF IInv

\* A new page: its goroutines are about to look into the cache.
LEMMA StartPageIInv ==
    ASSUME IInv, NEW p \in Pages, StartPage(p)
    PROVE  IInv'
<1> DEFINE ready == [Idle EXCEPT !.pc = "lookup"]
<1>1. ready \in Tasks /\ ready.pc = "lookup"
  BY Records DEF PCs
<1> HIDE DEF ready
<1>2. /\ TypeOK /\ EntriesOK /\ TasksOK /\ WaitingOK /\ EndedOK /\ StalenessBounded
      /\ p \in Workers
  BY DEF IInv, Workers
<1>3. /\ task' = [task EXCEPT ![p] = [m \in Markets |-> ready]]
      /\ page' = [page EXCEPT ![p] = [pc |-> "waiting", at |-> 0]]
      /\ UNCHANGED <<now, resolved_at, cache>>
  BY DEF StartPage, ready
<1>4. /\ task' \in [Workers -> [Markets -> Tasks]]
      /\ \A m \in Markets : task'[p][m] = ready
      /\ \A w \in Workers, m \in Markets : w # p => task'[w][m] = task[w][m]
  BY <1>1, <1>2, <1>3 DEF TypeOK
<1>5. /\ page' \in [Pages -> PageRecords]
      /\ page'[p].pc = "waiting"
      /\ \A q \in Pages : q # p => page'[q] = page[q]
  BY <1>2, <1>3, TimesAssumption DEF TypeOK, PageRecords
<1>6. TypeOK' /\ EntriesOK'
  BY <1>2, <1>3, <1>4, <1>5 DEF TypeOK, EntriesOK, EntryOK, Real
<1>7. TasksOK'
  <2> SUFFICES ASSUME NEW w \in Workers, NEW m \in Markets PROVE TaskOK(m, task[w][m])'
    BY DEF TasksOK
  <2>1. CASE w = p
    BY <1>1, <1>4, <2>1 DEF TaskOK, Fetching
  <2>2. CASE w # p
    BY <1>2, <1>3, <1>4, <2>2 DEF TasksOK, TaskOK, Real
  <2>3. QED
    BY <2>1, <2>2
<1>8. WaitingOK'
  <2> SUFFICES ASSUME NEW q \in Pages, page'[q].pc = "waiting"
               PROVE  \E t0 \in 0 .. MaxTime : WaitingSince(q, t0)'
    BY DEF WaitingOK
  <2>1. CASE q = p
    <3>1. \A m \in Markets : GoroutineSince(task[p][m], now)'
      BY <1>1, <1>3, <1>4 DEF GoroutineSince, Fetching
    <3>2. WaitingSince(p, now)'
      BY <1>2, <1>3, <3>1, TimesAssumption DEF WaitingSince, TypeOK
    <3>3. QED
      BY <1>2, <1>3, <2>1, <3>2 DEF TypeOK
  <2>2. CASE q # p
    <3>1. PICK t0 \in 0 .. MaxTime : WaitingSince(q, t0)
      BY <1>2, <1>5, <2>2 DEF WaitingOK
    <3>2. WaitingSince(q, t0)'
      BY <1>3, <1>4, <2>2, <3>1 DEF WaitingSince, GoroutineSince, Workers
    <3>3. QED
      BY <3>2
  <2>3. QED
    BY <2>1, <2>2
<1>9. EndedOK'
  BY <1>2, <1>4, <1>5 DEF EndedOK, Workers
<1>10. StalenessBounded'
  <2> SUFFICES ASSUME NEW q \in Pages, NEW m \in shown(q)'
               PROVE  page'[q].at - task'[q][m].state.as_of < TTL + REVALIDATION + 2 * TIMEOUT
    BY DEF StalenessBounded
  <2>1. q # p /\ m \in Markets
    BY <1>5 DEF shown
  <2>2. m \in shown(q) /\ task'[q][m] = task[q][m] /\ page'[q] = page[q]
    BY <1>4, <1>5, <2>1 DEF shown, Workers
  <2>3. QED
    BY <1>2, <2>2 DEF StalenessBounded
<1>11. QED
  BY <1>6, <1>7, <1>8, <1>9, <1>10 DEF IInv

(***************************************************************************)
(* A goroutine that moves on within a fetch, or ends it: what a step of    *)
(* fetchMarketState has to establish for its own task.                     *)
(***************************************************************************)
LEMMA FetchStep ==
    ASSUME IInv, NEW w \in Workers, NEW m \in Markets, NEW t \in Tasks,
           task[w][m].pc \in Fetching,
           Go(w, m, t),
           UNCHANGED <<now, resolved_at, page>>,
           TaskOK(m, t),
           w \in Pages => \/ t.pc = "failed"
                          \/ t.pc \in Fetching /\ t.started = task[w][m].started
                          \/ t.pc = "done" /\ task[w][m].started <= t.state.as_of
    PROVE  /\ task' \in [Workers -> [Markets -> Tasks]]
           /\ TasksOK' /\ WaitingOK' /\ EndedOK' /\ StalenessBounded'
<1>1. TypeOK /\ TasksOK /\ WaitingOK /\ EndedOK /\ StalenessBounded
  BY DEF IInv
<1>2. /\ task' \in [Workers -> [Markets -> Tasks]]
      /\ task'[w][m] = t
      /\ \A v \in Workers, n \in Markets : v # w \/ n # m => task'[v][n] = task[v][n]
  BY <1>1, GoFacts
<1>3. w \in Pages => page[w].pc = "waiting"
  BY <1>1 DEF EndedOK, Fetching
<1>4. TasksOK'
  BY <1>1, <1>2 DEF TasksOK, TaskOK, Real
<1>5. EndedOK'
  BY <1>1, <1>2, <1>3 DEF EndedOK, Workers
<1>6. WaitingOK'
  <2> SUFFICES ASSUME NEW q \in Pages, page[q].pc = "waiting"
               PROVE  \E t0 \in 0 .. MaxTime : WaitingSince(q, t0)'
    BY DEF WaitingOK
  <2>1. PICK t0 \in 0 .. MaxTime : WaitingSince(q, t0)
    BY <1>1 DEF WaitingOK
  <2>2. ASSUME NEW n \in Markets PROVE GoroutineSince(task[q][n], t0)'
    <3>1. GoroutineSince(task[q][n], t0)
      BY <2>1 DEF WaitingSince
    <3>2. CASE q = w /\ n = m
      <4>1. task[w][m].started = t0
        BY <3>1, <3>2 DEF GoroutineSince
      <4>2. CASE t.pc = "failed"
        BY <1>2, <3>2, <4>2 DEF GoroutineSince, Fetching
      <4>3. CASE t.pc \in Fetching /\ t.started = task[w][m].started
        BY <1>2, <3>2, <4>1, <4>3 DEF GoroutineSince, Fetching
      <4>4. CASE t.pc = "done" /\ task[w][m].started <= t.state.as_of
        <5>1. t.state.as_of \in Int
          BY <4>4 DEF TaskOK, Real, States
        <5>2. t0 - t.state.as_of < TTL + REVALIDATION + TIMEOUT
          BY <4>1, <4>4, <5>1, TimesAssumption
        <5>3. QED
          BY <1>2, <3>2, <4>4, <5>2 DEF GoroutineSince, Fetching
      <4>5. QED
        BY <3>2, <4>2, <4>3, <4>4
    <3>3. CASE ~(q = w /\ n = m)
      BY <1>2, <3>1, <3>3 DEF GoroutineSince, Workers
    <3>4. QED
      BY <3>2, <3>3
  <2>3. WaitingSince(q, t0)'
    BY <2>1, <2>2 DEF WaitingSince
  <2>4. QED
    BY <2>3
<1>7. StalenessBounded'
  <2> SUFFICES ASSUME NEW q \in Pages, NEW n \in shown(q)'
               PROVE  page'[q].at - task'[q][n].state.as_of < TTL + REVALIDATION + 2 * TIMEOUT
    BY DEF StalenessBounded
  <2>1. q # w /\ n \in Markets
    BY <1>3 DEF shown
  <2>2. n \in shown(q) /\ task'[q][n] = task[q][n]
    BY <1>2, <2>1 DEF shown, Workers
  <2>3. QED
    BY <1>1, <2>2 DEF StalenessBounded
<1>8. QED
  BY <1>2, <1>4, <1>5, <1>6, <1>7

\* get_state answers: the state is read now, after the fetch started.
LEMMA GetStateIInv ==
    ASSUME IInv, NEW w \in Workers, NEW m \in Markets, GetState(w, m)
    PROVE  IInv'
<1> DEFINE is_resolved == resolved_at[m] <= now
           s == [as_of |-> now, resolved |-> is_resolved, outcome |-> FALSE]
           t == [task[w][m] EXCEPT
                   !.pc = IF is_resolved THEN "get_winning_outcome" ELSE "get_metadata_hash",
                   !.state = s]
<1>1. /\ TypeOK /\ EntriesOK /\ TasksOK
      /\ task[w][m] \in Tasks
  BY DEF IInv, TypeOK
<1>2. s \in States /\ s.as_of = now /\ s.resolved = is_resolved /\ ~s.outcome
  BY <1>1 DEF TypeOK, States
<1>3. Real(m, s)
  <2>1. (s.resolved => is_resolved) /\ (~s.resolved => ~is_resolved)
    BY <1>2
  <2>2. resolved_at[m] \in Int /\ now \in Int
    BY <1>1, TimesAssumption DEF TypeOK, Never
  <2> HIDE DEF s
  <2>3. QED
    BY <1>2, <2>1, <2>2 DEF Real
<1>4. /\ t \in Tasks
      /\ t.pc = IF is_resolved THEN "get_winning_outcome" ELSE "get_metadata_hash"
      /\ t.started = task[w][m].started
      /\ t.state = s
  BY <1>1, <1>2 DEF Tasks, PCs, Fetching
<1>5. /\ task[w][m].pc = "get_state" /\ Go(w, m, t)
      /\ UNCHANGED <<now, resolved_at, cache, page>>
  BY DEF GetState
<1> HIDE DEF s, t
<1>6. TaskOK(m, task[w][m])
  BY <1>1 DEF TasksOK
<1>7. TaskOK(m, t)
  BY <1>2, <1>3, <1>4, <1>5, <1>6 DEF TaskOK, Fetching
<1>8. t.pc \in Fetching /\ task[w][m].pc \in Fetching
  BY <1>4, <1>5 DEF Fetching
<1>9. /\ task' \in [Workers -> [Markets -> Tasks]]
      /\ TasksOK' /\ WaitingOK' /\ EndedOK' /\ StalenessBounded'
  BY <1>4, <1>5, <1>7, <1>8, FetchStep
<1>10. TypeOK' /\ EntriesOK'
  BY <1>1, <1>5, <1>9 DEF TypeOK, EntriesOK, EntryOK, Real
<1>11. QED
  BY <1>9, <1>10 DEF IInv

\* get_state fails: nothing of the task remains, and the cache is kept.
LEMMA GetStateFailsIInv ==
    ASSUME IInv, NEW w \in Workers, NEW m \in Markets, GetStateFails(w, m)
    PROVE  IInv'
<1> DEFINE t == fetch_failed(w, m)
<1>1. /\ t \in Tasks
      /\ t.pc \in {"idle", "failed"}
      /\ w \in Pages => t.pc = "failed"
  BY Records, TimesAssumption DEF fetch_failed, PCs
<1>2. /\ task[w][m].pc = "get_state" /\ Go(w, m, t)
      /\ UNCHANGED <<now, resolved_at, cache, page>>
  BY DEF GetStateFails, after_failure
<1> HIDE DEF t
<1>3. TaskOK(m, t)
  BY <1>1 DEF TaskOK, Fetching
<1>4. task[w][m].pc \in Fetching
  BY <1>2 DEF Fetching
<1>5. /\ task' \in [Workers -> [Markets -> Tasks]]
      /\ TasksOK' /\ WaitingOK' /\ EndedOK' /\ StalenessBounded'
  BY <1>1, <1>2, <1>3, <1>4, FetchStep
<1>6. TypeOK' /\ EntriesOK'
  BY <1>2, <1>5 DEF IInv, TypeOK, EntriesOK, EntryOK, Real
<1>7. QED
  BY <1>5, <1>6 DEF IInv

\* get_winning_outcome is asked only of a market that was read as resolved.
LEMMA GetWinningOutcomeIInv ==
    ASSUME IInv, NEW w \in Workers, NEW m \in Markets, GetWinningOutcome(w, m)
    PROVE  IInv'
<1>1. PICK ok \in BOOLEAN :
         Go(w, m, [task[w][m] EXCEPT !.pc = "get_metadata_hash", !.state.outcome = ok])
  BY DEF GetWinningOutcome
<1> DEFINE old == task[w][m]
           t == [old EXCEPT !.pc = "get_metadata_hash", !.state.outcome = ok]
<1>2. /\ TypeOK /\ EntriesOK /\ TaskOK(m, old)
      /\ old \in Tasks /\ old.pc = "get_winning_outcome"
      /\ UNCHANGED <<now, resolved_at, cache, page>>
  BY DEF IInv, TypeOK, TasksOK, GetWinningOutcome
<1>3. /\ Real(m, old.state) /\ old.started <= old.state.as_of /\ old.state.resolved
      /\ old.started <= now /\ now <= old.started + TIMEOUT
  BY <1>2 DEF TaskOK, Fetching
<1>4. old.state \in States
  BY <1>3 DEF Real
<1>5. /\ t \in Tasks
      /\ t.pc = "get_metadata_hash"
      /\ t.started = old.started
      /\ t.state = [old.state EXCEPT !.outcome = ok]
  BY <1>2, <1>4 DEF Tasks, PCs, Fetching, States
<1>6. Go(w, m, t)
  BY <1>1
<1> HIDE DEF old, t
<1>7. /\ t.state \in States /\ t.state.as_of = old.state.as_of
      /\ t.state.resolved = old.state.resolved
  BY <1>4, <1>5 DEF States
<1>8. Real(m, t.state)
  BY <1>3, <1>7 DEF Real
<1>9. TaskOK(m, t)
  BY <1>3, <1>5, <1>7, <1>8 DEF TaskOK, Fetching
<1>10. /\ task' \in [Workers -> [Markets -> Tasks]]
       /\ TasksOK' /\ WaitingOK' /\ EndedOK' /\ StalenessBounded'
  <2>1. t.pc \in Fetching /\ task[w][m].pc \in Fetching /\ t.started = task[w][m].started
    BY <1>2, <1>5 DEF Fetching, old
  <2>2. QED
    BY <1>2, <1>5, <1>6, <1>9, <2>1, FetchStep
<1>11. TypeOK' /\ EntriesOK'
  BY <1>2, <1>10 DEF TypeOK, EntriesOK, EntryOK, Real
<1>12. QED
  BY <1>10, <1>11 DEF IInv

\* The end of a fetch: its answer is stored, at most a timeout old.
LEMMA GetMetadataHashIInv ==
    ASSUME IInv, NEW w \in Workers, NEW m \in Markets, GetMetadataHash(w, m)
    PROVE  IInv'
<1> DEFINE old == task[w][m]
           finished == [old EXCEPT !.pc = "done", !.started = 0]
           t == IF w = Background THEN Idle ELSE finished
           entry == [state |-> old.state, stored |-> now]
<1>1. /\ TypeOK /\ EntriesOK /\ TaskOK(m, old)
      /\ old \in Tasks /\ old.pc = "get_metadata_hash"
      /\ Go(w, m, t)
      /\ cache' = [cache EXCEPT ![m] = entry]
      /\ UNCHANGED <<now, resolved_at, page>>
  BY DEF IInv, TypeOK, TasksOK, GetMetadataHash
<1>2. /\ Real(m, old.state) /\ old.started <= old.state.as_of
      /\ old.started <= now /\ now <= old.started + TIMEOUT
      /\ old.pc \in Fetching
  BY <1>1 DEF TaskOK, Fetching
<1>3. old.state \in States /\ old.started \in Int /\ old.state.as_of \in Int
  BY <1>1, <1>2 DEF Real, States, Tasks
<1>4. /\ finished \in Tasks /\ finished.pc = "done"
      /\ finished.state = old.state
  <2>1. 0 \in 0 .. MaxTime /\ "done" \in PCs
    BY TimesAssumption DEF PCs
  <2> HIDE DEF old
  <2>2. QED
    BY <1>1, <2>1 DEF Tasks
<1>5. /\ t \in Tasks
      /\ w \in Pages => t.pc = "done" /\ t.state = old.state
      /\ t.pc \in {"idle", "done"}
      /\ t.pc = "done" => t.state = old.state
  BY <1>4, Records, TimesAssumption
<1>6. entry \in Entries /\ entry.state = old.state /\ entry.stored = now
  BY <1>1, <1>3 DEF Entries, TypeOK
<1> HIDE DEF old, t, entry, finished
<1>7. TaskOK(m, t)
  BY <1>2, <1>5 DEF TaskOK, Fetching
<1>8. /\ task' \in [Workers -> [Markets -> Tasks]]
      /\ TasksOK' /\ WaitingOK' /\ EndedOK' /\ StalenessBounded'
  <2>1. task[w][m].pc \in Fetching
    BY <1>2 DEF old
  <2>2. w \in Pages => t.pc = "done" /\ task[w][m].started <= t.state.as_of
    BY <1>2, <1>5 DEF old
  <2>3. QED
    BY <1>1, <1>5, <1>7, <2>1, <2>2, FetchStep
<1>9. EntryOK(m, entry)
  BY <1>1, <1>2, <1>3, <1>6, TimesAssumption DEF EntryOK, TypeOK
<1>10. EntriesOK'
  BY <1>1, <1>9 DEF EntriesOK, EntryOK, Real, TypeOK
<1>11. TypeOK'
  BY <1>1, <1>6, <1>8 DEF TypeOK
<1>12. QED
  BY <1>8, <1>10, <1>11 DEF IInv

(***************************************************************************)
(* A lookup: a miss starts the goroutine's fetch, a hit is a state that    *)
(* was stored less than the life of an entry ago, and a stale hit may      *)
(* start the reload in the background.                                     *)
(***************************************************************************)
LEMMA LookupIInv ==
    ASSUME IInv, NEW p \in Pages, NEW m \in Markets, Lookup(p, m)
    PROVE  IInv'
<1> DEFINE old == task[p][m]
           fetch == [old EXCEPT !.pc = "get_state", !.started = now]
           hit == [old EXCEPT !.pc = "done", !.state = cache[m].state]
           reload == [Idle EXCEPT !.pc = "get_state", !.started = now]
           background == IF is_stale(m) /\ task[Background][m].pc = "idle"
                         THEN reload ELSE task[Background][m]
           mine == IF is_found(m) THEN hit ELSE fetch
<1>1. /\ TypeOK /\ EntriesOK /\ TasksOK /\ WaitingOK /\ EndedOK /\ StalenessBounded
      /\ p \in Workers /\ Background \in Workers /\ p # Background
      /\ old \in Tasks /\ task[Background][m] \in Tasks
      /\ now \in 0 .. MaxTime
      /\ cache[m] \in Entries \cup {Empty} /\ EntryOK(m, cache[m])
      /\ task \in [Workers -> [Markets -> Tasks]]
  BY TimesAssumption DEF IInv, TypeOK, Workers, EntriesOK
<1>2. /\ old.pc = "lookup"
      /\ UNCHANGED <<now, resolved_at, cache, page>>
  BY DEF Lookup
<1>3. /\ fetch \in Tasks /\ fetch.pc = "get_state" /\ fetch.started = now
  <2>1. "get_state" \in PCs
    BY DEF PCs, Fetching
  <2> HIDE DEF old
  <2>2. QED
    BY <1>1, <2>1 DEF Tasks
<1>4. /\ reload \in Tasks /\ reload.pc = "get_state" /\ reload.started = now
  <2>1. "get_state" \in PCs
    BY DEF PCs, Fetching
  <2>2. QED
    BY <1>1, <2>1, Records DEF Tasks
<1>5. ASSUME is_found(m)
      PROVE  /\ hit \in Tasks /\ hit.pc = "done" /\ hit.state = cache[m].state
             /\ Real(m, cache[m].state)
             /\ now - cache[m].state.as_of < TTL + REVALIDATION + TIMEOUT
  <2>1. cache[m] # Empty
    BY <1>5 DEF is_found
  <2>2. /\ cache[m] \in Entries /\ cache[m].state \in States
        /\ cache[m].stored \in 0 .. MaxTime
    BY <1>1, <2>1 DEF Entries
  <2>3. "done" \in PCs /\ cache[m].state.as_of \in Int
    BY <2>2 DEF PCs, States
  <2>4. hit \in Tasks /\ hit.pc = "done" /\ hit.state = cache[m].state
    <3> HIDE DEF old
    <3> QED
      BY <1>1, <2>2, <2>3 DEF Tasks
  <2>5. Real(m, cache[m].state) /\ cache[m].stored <= cache[m].state.as_of + TIMEOUT
    BY <1>1, <2>1 DEF EntryOK
  <2>6. now < cache[m].stored + TTL + REVALIDATION
    BY <1>5 DEF is_found
  <2>7. QED
    BY <1>1, <2>2, <2>3, <2>4, <2>5, <2>6, TimesAssumption
<1>6. /\ background \in Tasks
      /\ \/ background = task[Background][m]
         \/ background.pc = "get_state" /\ background.started = now
  <2> HIDE DEF reload
  <2> QED
    BY <1>1, <1>4
<1>7. mine \in Tasks
  BY <1>3, <1>5
<1>8. /\ task' \in [Workers -> [Markets -> Tasks]]
      /\ task'[p][m] = mine
      /\ is_found(m) => task'[Background][m] = background
      /\ ~is_found(m) => task'[Background][m] = task[Background][m]
      /\ \A w \in Workers, n \in Markets :
            (w # p /\ w # Background) \/ n # m => task'[w][n] = task[w][n]
  <2>1. CASE is_found(m)
    <3>1. task' = [task EXCEPT ![p][m] = hit, ![Background][m] = background]
      <4> HIDE DEF hit
      <4>1. hit = [task[p][m] EXCEPT !.pc = "done", !.state = cache[m].state]
        BY DEF hit
      <4>2. [task EXCEPT ![p][m] = hit][Background][m] = task[Background][m]
        BY <1>1
      <4>3. task' = [task EXCEPT
                       ![p][m] = [@ EXCEPT !.pc = "done", !.state = cache[m].state],
                       ![Background][m] = IF is_stale(m) /\ @.pc = "idle"
                                          THEN reload ELSE @]
        BY <2>1 DEF Lookup, reload
      <4>4. QED
        BY <4>1, <4>2, <4>3 DEF background
    <3>2. hit \in Tasks
      BY <1>5, <2>1
    <3> HIDE DEF hit, background
    <3>3. QED
      BY <1>1, <1>6, <2>1, <3>1, <3>2 DEF mine
  <2>2. CASE ~is_found(m)
    <3>1. task' = [task EXCEPT ![p][m] = fetch]
      BY <2>2 DEF Lookup
    <3> HIDE DEF fetch
    <3>2. QED
      BY <1>1, <1>3, <2>2, <3>1 DEF mine
  <2>3. QED
    BY <2>1, <2>2
<1> HIDE DEF mine, background, fetch, hit, reload
<1>9. TypeOK' /\ EntriesOK'
  BY <1>1, <1>2, <1>8 DEF TypeOK, EntriesOK, EntryOK, Real
<1>10. TaskOK(m, mine)
  <2>1. CASE is_found(m)
    BY <1>5, <2>1 DEF TaskOK, Fetching, mine
  <2>2. CASE ~is_found(m)
    BY <1>1, <1>3, <2>2, TimesAssumption DEF TaskOK, Fetching, mine
  <2>3. QED
    BY <2>1, <2>2
<1>11. TaskOK(m, background)
  <2>1. CASE background = task[Background][m]
    BY <1>1, <2>1 DEF TasksOK
  <2>2. CASE background.pc = "get_state" /\ background.started = now
    BY <1>1, <2>2, TimesAssumption DEF TaskOK, Fetching
  <2>3. QED
    BY <1>6, <2>1, <2>2
<1>12. TasksOK'
  <2> SUFFICES ASSUME NEW w \in Workers, NEW n \in Markets
               PROVE  TaskOK(n, task[w][n])'
    BY DEF TasksOK
  <2>1. TaskOK(n, task'[w][n])
    BY <1>1, <1>8, <1>10, <1>11 DEF TasksOK
  <2>2. QED
    BY <1>2, <2>1 DEF TaskOK, Real
<1>13. page[p].pc = "waiting"
  BY <1>1, <1>2 DEF EndedOK
<1>14. WaitingOK'
  <2> SUFFICES ASSUME NEW q \in Pages, page[q].pc = "waiting"
               PROVE  \E t0 \in 0 .. MaxTime : WaitingSince(q, t0)'
    BY <1>2 DEF WaitingOK
  <2>1. PICK t0 \in 0 .. MaxTime : WaitingSince(q, t0)
    BY <1>1 DEF WaitingOK
  <2>2. ASSUME NEW n \in Markets PROVE GoroutineSince(task[q][n], t0)'
    <3>1. GoroutineSince(task[q][n], t0)
      BY <2>1 DEF WaitingSince
    <3>2. CASE q = p /\ n = m
      <4>1. t0 = now
        BY <1>2, <3>1, <3>2 DEF GoroutineSince
      <4>2. CASE is_found(m)
        <5>1. mine.pc = "done" /\ mine.state = cache[m].state
          BY <1>5, <4>2 DEF mine
        <5>2. QED
          BY <1>5, <1>8, <3>2, <4>1, <4>2, <5>1 DEF GoroutineSince, Fetching
      <4>3. CASE ~is_found(m)
        BY <1>3, <1>8, <3>2, <4>1, <4>3 DEF GoroutineSince, Fetching, mine
      <4>4. QED
        BY <4>2, <4>3
    <3>3. CASE ~(q = p /\ n = m)
      <4>1. task'[q][n] = task[q][n]
        BY <1>8, <3>3, TimesAssumption DEF Workers
      <4>2. QED
        BY <1>2, <3>1, <4>1 DEF GoroutineSince
    <3>4. QED
      BY <3>2, <3>3
  <2>3. WaitingSince(q, t0)'
    BY <1>2, <2>1, <2>2 DEF WaitingSince
  <2>4. QED
    BY <2>3
<1>15. \A q \in Pages, n \in Markets : page[q].pc # "waiting" => task'[q][n] = task[q][n]
  BY <1>8, <1>13, TimesAssumption DEF Workers
<1>16. EndedOK'
  BY <1>1, <1>2, <1>15 DEF EndedOK
<1>17. StalenessBounded'
  BY <1>1, <1>2, <1>15 DEF StalenessBounded, shown
<1>18. QED
  BY <1>9, <1>12, <1>14, <1>16, <1>17 DEF IInv

(***************************************************************************)
(* The page ends within a timeout of its lookups, so what was young enough *)
(* then is at most a timeout older now.                                    *)
(***************************************************************************)
LEMMA FinishPageIInv ==
    ASSUME IInv, NEW p \in Pages, FinishPage(p)
    PROVE  IInv'
<1>1. TypeOK /\ EntriesOK /\ TasksOK /\ WaitingOK /\ EndedOK /\ StalenessBounded
  BY DEF IInv
<1>2. /\ page[p].pc = "waiting"
      /\ \A m \in Markets : task[p][m].pc \in {"done", "failed"}
      /\ UNCHANGED <<now, resolved_at, cache, task>>
  BY DEF FinishPage, is_complete
<1>3. /\ page' \in [Pages -> PageRecords]
      /\ page'[p].pc \in {"shown", "error"} /\ page'[p].at = now
      /\ \A q \in Pages : q # p => page'[q] = page[q]
  BY <1>1 DEF FinishPage, TypeOK, PageRecords
<1>4. TypeOK' /\ EntriesOK' /\ TasksOK'
  BY <1>1, <1>2, <1>3 DEF TypeOK, EntriesOK, EntryOK, TasksOK, TaskOK, Real
<1>5. WaitingOK'
  BY <1>1, <1>2, <1>3 DEF WaitingOK, WaitingSince, GoroutineSince
<1>6. EndedOK'
  BY <1>1, <1>2, <1>3 DEF EndedOK
<1>7. StalenessBounded'
  <2> SUFFICES ASSUME NEW q \in Pages, NEW m \in shown(q)'
               PROVE  page'[q].at - task'[q][m].state.as_of < TTL + REVALIDATION + 2 * TIMEOUT
    BY DEF StalenessBounded
  <2>1. m \in Markets /\ task[q][m].pc = "done" /\ page'[q].pc = "shown"
    BY <1>2 DEF shown
  <2>2. CASE q = p
    <3>1. PICK t0 \in 0 .. MaxTime : WaitingSince(p, t0)
      BY <1>1, <1>2 DEF WaitingOK
    <3>2. /\ now <= t0 + TIMEOUT
          /\ t0 - task[p][m].state.as_of < TTL + REVALIDATION + TIMEOUT
      BY <2>1, <2>2, <3>1 DEF WaitingSince, GoroutineSince
    <3>3. task[p][m].state.as_of \in Int /\ now \in Int
      BY <1>1, <2>1, <2>2 DEF TasksOK, TaskOK, Real, States, Workers, TypeOK
    <3>4. QED
      BY <1>2, <1>3, <2>2, <3>2, <3>3, TimesAssumption
  <2>3. CASE q # p
    BY <1>1, <1>2, <1>3, <2>1, <2>3 DEF StalenessBounded, shown
  <2>4. QED
    BY <2>2, <2>3
<1>8. QED
  BY <1>4, <1>5, <1>6, <1>7 DEF IInv

\* The resolution of a market changes no reading taken before it.
LEMMA ResolveIInv ==
    ASSUME IInv, NEW n \in Markets, Resolve(n)
    PROVE  IInv'
<1>1. TypeOK /\ EntriesOK /\ TasksOK /\ WaitingOK /\ EndedOK /\ StalenessBounded
  BY DEF IInv
<1>2. UNCHANGED <<now, cache, task, page>>
  BY DEF Resolve
<1>3. \A m \in Markets : \A s : Real(m, s) => Real(m, s)'
  BY <1>1, <1>2, RealStays
<1>4. TypeOK'
  BY <1>1, TimesAssumption DEF TypeOK, Resolve, Never
<1>5. EntriesOK'
  BY <1>1, <1>2, <1>3 DEF EntriesOK, EntryOK
<1>6. TasksOK'
  BY <1>1, <1>2, <1>3 DEF TasksOK, TaskOK
<1>7. WaitingOK' /\ EndedOK' /\ StalenessBounded'
  BY <1>1, <1>2
  DEF WaitingOK, WaitingSince, GoroutineSince, EndedOK, StalenessBounded, shown
<1>8. QED
  BY <1>4, <1>5, <1>6, <1>7 DEF IInv

(***************************************************************************)
(* Time passes only while every page still waits for a fetch, and that     *)
(* fetch is within its timeout.                                            *)
(***************************************************************************)
LEMMA TickIInv ==
    ASSUME IInv, Tick
    PROVE  IInv'
<1>1. TypeOK /\ EntriesOK /\ TasksOK /\ WaitingOK /\ EndedOK /\ StalenessBounded
  BY DEF IInv
<1>2. /\ now < MaxTime /\ now' = now + 1 /\ now \in Int
      /\ UNCHANGED <<resolved_at, cache, task, page>>
      /\ \A p \in Pages : ~is_complete(p) /\ \A m \in Markets : task[p][m].pc # "lookup"
      /\ \A w \in Workers, m \in Markets :
            task[w][m].pc \in Fetching => now < task[w][m].started + TIMEOUT
  BY <1>1 DEF Tick, TypeOK
<1>3. \A m \in Markets : \A s : Real(m, s) => Real(m, s)'
  BY <1>1, <1>2, RealStays
<1>4. TypeOK'
  BY <1>1, <1>2, TimesAssumption DEF TypeOK
<1>5. EntriesOK'
  <2> SUFFICES ASSUME NEW m \in Markets, cache[m] # Empty
               PROVE  /\ Real(m, cache[m].state)'
                      /\ cache[m].stored <= now + 1
                      /\ cache[m].stored <= cache[m].state.as_of + TIMEOUT
    BY <1>2 DEF EntriesOK, EntryOK
  <2>1. EntryOK(m, cache[m]) /\ cache[m].stored \in Int
    BY <1>1 DEF EntriesOK, TypeOK, Entries
  <2>2. QED
    BY <1>2, <1>3, <2>1 DEF EntryOK
<1>6. TasksOK'
  <2> SUFFICES ASSUME NEW w \in Workers, NEW m \in Markets
               PROVE  TaskOK(m, task[w][m])'
    BY DEF TasksOK
  <2>1. TaskOK(m, task[w][m]) /\ task[w][m].started \in Int
    BY <1>1, Records DEF TasksOK, TypeOK
  <2>2. task[w][m].pc \in Fetching =>
           task[w][m].started <= now + 1 /\ now + 1 <= task[w][m].started + TIMEOUT
    BY <1>2, <2>1, TimesAssumption DEF TaskOK
  <2>3. QED
    BY <1>2, <1>3, <2>1, <2>2 DEF TaskOK
<1>7. WaitingOK'
  <2> SUFFICES ASSUME NEW p \in Pages, page[p].pc = "waiting"
               PROVE  \E t0 \in 0 .. MaxTime : WaitingSince(p, t0)'
    BY <1>2 DEF WaitingOK
  <2>1. PICK t0 \in 0 .. MaxTime : WaitingSince(p, t0)
    BY <1>1 DEF WaitingOK
  <2>2. PICK m \in Markets : task[p][m].pc \in Fetching
    <3>1. \A m \in Markets : task[p][m].pc \in PCs \ {"idle", "lookup"}
      BY <1>1, <1>2, <2>1, Records DEF WaitingSince, GoroutineSince, TypeOK, Workers
    <3>2. \E m \in Markets : task[p][m].pc \notin {"done", "failed"}
      BY <1>2 DEF is_complete
    <3>3. QED
      BY <3>1, <3>2 DEF PCs
  <2>3. now < t0 + TIMEOUT
    BY <1>2, <2>1, <2>2 DEF WaitingSince, GoroutineSince, Workers
  <2>4. \A n \in Markets : GoroutineSince(task[p][n], t0)'
    BY <1>2, <2>1 DEF WaitingSince, GoroutineSince
  <2>5. WaitingSince(p, t0)'
    BY <1>2, <2>1, <2>3, <2>4, TimesAssumption DEF WaitingSince
  <2>6. QED
    BY <2>5
<1>8. EndedOK' /\ StalenessBounded'
  BY <1>1, <1>2 DEF EndedOK, StalenessBounded, shown
<1>9. QED
  BY <1>4, <1>5, <1>6, <1>7, <1>8 DEF IInv

LEMMA StutterIInv == IInv /\ UNCHANGED vars => IInv'
BY DEF vars, IInv, TypeOK, EntriesOK, EntryOK, Real, TasksOK, TaskOK, WaitingOK,
       WaitingSince, GoroutineSince, EndedOK, StalenessBounded, shown

LEMMA NextIInv == IInv /\ [Next]_vars => IInv'
<1> SUFFICES ASSUME IInv, [Next]_vars PROVE IInv'
  OBVIOUS
<1>1. ASSUME NEW p \in Pages, StartPage(p) PROVE IInv'
  BY <1>1, StartPageIInv
<1>2. ASSUME NEW p \in Pages, FinishPage(p) PROVE IInv'
  BY <1>2, FinishPageIInv
<1>3. ASSUME NEW p \in Pages, NEW m \in Markets, Lookup(p, m) PROVE IInv'
  BY <1>3, LookupIInv
<1>4. ASSUME NEW w \in Workers, NEW m \in Markets, Fetch(w, m) PROVE IInv'
  BY <1>4, GetStateIInv, GetStateFailsIInv, GetWinningOutcomeIInv, GetMetadataHashIInv
  DEF Fetch
<1>5. ASSUME NEW m \in Markets, Resolve(m) PROVE IInv'
  BY <1>5, ResolveIInv
<1>6. CASE Tick
  BY <1>6, TickIInv
<1>7. CASE UNCHANGED vars
  BY <1>7, StutterIInv
<1>8. QED
  BY <1>1, <1>2, <1>3, <1>4, <1>5, <1>6, <1>7 DEF Next

LEMMA Inductive == Spec => []IInv
BY InitIInv, NextIInv, PTL DEF Spec
-----------------------------------------------------------------------------
(***************************************************************************)
(* However many pages, reloads and failures overlap, a page shows no state *)
(* older than the life of a cache entry and two fetches (StateCache and    *)
(* GetMarketStates).                                                       *)
(***************************************************************************)
THEOREM StalenessIsBounded == Spec => []StalenessBounded
<1>1. IInv => StalenessBounded
  BY DEF IInv
<1>2. QED
  BY <1>1, Inductive, PTL

(***************************************************************************)
(* Every state a page shows is one the contract was in, although it was    *)
(* put together from two or three reads between which the market may have  *)
(* been resolved (fetchMarketState).                                       *)
(***************************************************************************)
THEOREM ShownAreReal == Spec => []ShownStatesAreReal
<1>1. IInv => ShownStatesAreReal
  <2> SUFFICES ASSUME IInv, NEW p \in Pages, NEW m \in shown(p)
               PROVE  Real(m, task[p][m].state)
    BY DEF ShownStatesAreReal, Real
  <2>1. p \in Workers /\ m \in Markets /\ task[p][m].pc = "done"
    BY DEF shown, Workers
  <2>2. QED
    BY <2>1 DEF IInv, TasksOK, TaskOK
<1>2. QED
  BY <1>1, Inductive, PTL
=============================================================================
